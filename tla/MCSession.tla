------------------------------ MODULE MCSession ------------------------------
(***************************************************************************)
(* Small instances of Session: which programs there are and which refine    *)
(* which.                                                                  *)
(***************************************************************************)
EXTENDS Session

CONSTANTS lo, mid, hi

Reflexive(S) == {<<p, p>> : p \in S}

\* Two programs, one of which refines the other: lo does less than hi.
TwoPrograms == {lo, hi}
TwoRefines  == Reflexive(TwoPrograms) \cup {<<lo, hi>>}

\* One more, between them: an interpose needs a program that is neither side.
ThreePrograms == {lo, mid, hi}
ThreeRefines  == Reflexive(ThreePrograms) \cup {<<lo, mid>>, <<mid, hi>>, <<lo, hi>>}

\* The questions a run is asked: a pair whose claim is false, and one whose claim is true.
WrongAsked == {<<lo, hi>>}
BothAsked  == {<<lo, hi>>, <<hi, lo>>}
AllAsked   == {<<lo, hi>>, <<lo, lo>>}

\* What shows the things the code says of itself and does not keep.
UndoMoves   == {"interpose", "check", "undo"}
NestedMoves == {"loop", "nested", "unfold", "case", "undo", "check"}

Within(S, most) == \A g \in S, side \in Sides : Len(tree[g].hist[side]) <= most

\* One split, and any move between the edits of a transaction, where one side of one goal
\* is taken a step.
OneSplit ==
  /\ nextGoal <= 4 /\ Within(DOMAIN tree, 2)
  /\ \A g, h \in DOMAIN tree, s, t \in Sides :
       Len(tree[g].hist[s]) = 2 /\ Len(tree[h].hist[t]) = 2 => g = h /\ s = t
  /\ \A g \in DOMAIN tree : tree[g].cut # "plain" /\ tree[g].role # "holds"

\* Splits below splits with no transaction open, where the root alone is cut. A true claim
\* is split and proved as it is asked, at a loop, and its halves by cases. Of a false one
\* no side gets a third program where a goal is interposed, and where one is that is no
\* strengthen's, or there are cases, no contract lands and only goals that are split take a
\* step.
OneCut ==
  LET Interposes == {g \in DOMAIN tree : tree[g].role = "lhs"}
  IN  /\ txn = NoTxn
      /\ \A g \in DOMAIN tree :
           /\ tree[g].role \in {"outer", "callee"} => tree[g].parent = Root
           /\ tree[g].cut # "alone"
      /\ ClaimFirst(tree, Root) =>
           /\ Within(DOMAIN tree, 1)
           /\ \A g \in DOMAIN tree : tree[g].cut # "plain"
           /\ \A g \in DOMAIN tree : tree[g].role = "holds" => tree[g].parent # Root
      /\ Interposes # {} => Within(DOMAIN tree, 2)
      /\ (Interposes \subseteq log.keeps /\ \A g \in DOMAIN tree : tree[g].role # "holds")
         \/ /\ log.landed = {}
            /\ Within(DOMAIN tree, 2)
            /\ Within({g \in DOMAIN tree : tree[g].children = {}}, 1)

\* The runs every state of which is within one of the two.
SmallNext == Next /\ ~TakesBackProof /\ (OneSplit \/ OneCut)'
SmallSpec == Init /\ [][SmallNext]_vars

\* The runs in which the callee of the one cut is the one goal that is split by cases, into
\* goals of its own programs.
CalleeCased ==
  \A g \in DOMAIN tree :
    /\ tree[g].role \in {"outer", "callee"} => tree[g].parent = Root
    /\ tree[g].role \in {"holds", "fails"} =>
         /\ tree[tree[g].parent].role = "callee"
         /\ \A side \in Sides : FirstOf(tree, g, side) = FirstOf(tree, tree[g].parent, side)
NestedNext == Next /\ CalleeCased'
NestedSpec == Init /\ [][NestedNext]_vars

NoScratch == {}

AllMoves == {"revert", "rewrite", "unfold", "edit", "plain", "loop", "alone", "interpose",
             "case", "undo", "strengthen", "nested", "check", "report"}
=============================================================================
