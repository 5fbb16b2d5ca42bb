------------------------------ MODULE GoalTree ------------------------------
(***************************************************************************)
(* The goal tree of engine/core/state/goals.ts, as operators on the value  *)
(* the fold builds: what each logged effect makes of a tree.               *)
(*                                                                         *)
(* A tree is a function G from the ids of the goals alive to goals. A      *)
(* program is an opaque value, because the fold only compares hashes.      *)
(* Refines says which programs refine which, so that a proof can be right  *)
(* or wrong: the claim of a pair is that its tgt refines its src.          *)
(*                                                                         *)
(* The recursions of goals.ts (settle, unsettle, discard) are stated as    *)
(* the least set closed under one step of the walk.                        *)
(***************************************************************************)
EXTENDS Naturals, Sequences

CONSTANTS
  Programs,   \* the programs a run may meet
  Refines     \* the pairs <<p, q>> such that p refines q

ASSUME ProgramsNonEmpty == Programs # {}
ASSUME RefinesIsPreorder ==
  /\ Refines \subseteq Programs \X Programs
  /\ \A p \in Programs : <<p, p>> \in Refines
  /\ \A p, q, r \in Programs :
       <<p, q>> \in Refines /\ <<q, r>> \in Refines => <<p, r>> \in Refines

Sides    == {"src", "tgt"}
Statuses == {"open", "proved", "split", "refuted"}
Roles    == {"root", "outer", "callee", "lhs", "rhs", "holds", "fails"}

\* What the cut that made a goal was: of both sides at an instruction, at a
\* block that heads a loop, or of the src alone. "none" for any other goal.
CutKinds == {"none", "plain", "loop", "alone"}

Root   == 1
NoGoal == 0

Claim(src, tgt) == <<tgt, src>> \in Refines

Goals == [ parent   : Nat,
           role     : Roles,
           cut      : CutKinds,
           hist     : [Sides -> Seq(Programs)],
           status   : Statuses,
           children : SUBSET Nat ]

NewGoal(parent, role, cut, src, tgt) ==
  [ parent   |-> parent,
    role     |-> role,
    cut      |-> cut,
    hist     |-> [s \in Sides |-> IF s = "src" THEN <<src>> ELSE <<tgt>>],
    status   |-> "open",
    children |-> {} ]

Start(src, tgt) == [g \in {Root} |-> NewGoal(NoGoal, "root", "none", src, tgt)]

-----------------------------------------------------------------------------
(* Reading a tree.                                                         *)

HeadOf(G, g, side)  == G[g].hist[side][Len(G[g].hist[side])]
FirstOf(G, g, side) == G[g].hist[side][1]

\* The last place p has in the history h, which must hold it.
LastIndexOf(h, p) ==
  CHOOSE i \in 1..Len(h) : h[i] = p /\ \A j \in i + 1..Len(h) : h[j] # p

Holds(h, p) == \E i \in 1..Len(h) : h[i] = p

\* The claim of the pair a goal is at, and of the pair it started with.
ClaimNow(G, g)   == Claim(HeadOf(G, g, "src"), HeadOf(G, g, "tgt"))
ClaimFirst(G, g) == Claim(FirstOf(G, g, "src"), FirstOf(G, g, "tgt"))

Workable(G, g) == G[g].status \notin {"split", "refuted"}

HasRole(G, g, role) == \E c \in G[g].children : G[c].role = role
Interposed(G, g)    == HasRole(G, g, "lhs")
Cased(G, g)         == HasRole(G, g, "holds")

\* The first child made that plays `role`.
Child(G, g, role) ==
  CHOOSE c \in G[g].children :
    /\ G[c].role = role
    /\ \A d \in G[g].children : G[d].role = role => c <= d

VerdictOf(G) ==
  CASE G[Root].status = "proved"  -> "verified"
    [] G[Root].status = "refuted" -> "counterexample"
    [] OTHER                      -> "unknown"

-----------------------------------------------------------------------------
(* The walks up and down the tree.                                         *)

WithChildren(G, status) ==
  {a \in DOMAIN G : G[a].children # {} /\ G[a].status = status}

\* unsettle: the proved goals above g, as far up as each is proved in turn.
UnsettleClosed(G, g, S) ==
  \A a \in WithChildren(G, "proved") :
    (G[g].parent = a \/ \E x \in S : G[x].parent = a) => a \in S

Unsettled(G, g) ==
  {a \in WithChildren(G, "proved") :
     \A S \in SUBSET WithChildren(G, "proved") : UnsettleClosed(G, g, S) => a \in S}

\* settle: the split goals above g that its proof discharges, each because
\* all its children are proved once those below it are.
SettleClosed(G, g, S) ==
  \A a \in WithChildren(G, "split") :
    /\ \E c \in G[a].children : c = g \/ c \in S
    /\ \A c \in G[a].children : c = g \/ c \in S \/ G[c].status = "proved"
    => a \in S

\* A bug settle could have: it stops at the parent.
SettledParent(G, g) ==
  {a \in WithChildren(G, "split") :
     g \in G[a].children /\ \A c \in G[a].children : c = g \/ G[c].status = "proved"}

Settled(G, g) ==
  {a \in WithChildren(G, "split") :
     \A S \in SUBSET WithChildren(G, "split") : SettleClosed(G, g, S) => a \in S}

\* discard: the goals with children below g, and then every goal below g.
Inner(G) == {a \in DOMAIN G : G[a].children # {}}

BelowClosed(G, g, S) ==
  \A a \in Inner(G) : G[a].parent \in {g} \cup S => a \in S

InnerBelow(G, g) ==
  {a \in Inner(G) : \A S \in SUBSET Inner(G) : BelowClosed(G, g, S) => a \in S}

\* A bug discard could have: it leaves what is below the children.
BelowOnce(G, g) == G[g].children

Below(G, g) == {x \in DOMAIN G : G[x].parent \in {g} \cup InnerBelow(G, g)}

-----------------------------------------------------------------------------
(* What each effect makes of a tree.                                       *)

WithStatus(G, S, status) ==
  [x \in DOMAIN G |-> IF x \in S THEN [G[x] EXCEPT !.status = status] ELSE G[x]]

\* A bug editable could have: it reopens the goal and nothing above it.
ReopenedAlone(G, g) ==
  IF G[g].status = "proved" THEN WithStatus(G, {g}, "open") ELSE G

\* editable: touching a proved goal reopens it and what it settled above it.
Reopened(G, g) ==
  IF G[g].status = "proved"
  THEN WithStatus(WithStatus(G, Unsettled(G, g), "split"), {g}, "open")
  ELSE G

WithHistory(G, g, side, h) == [Reopened(G, g) EXCEPT ![g].hist[side] = h]

Stepped(G, g, side, to) ==
  WithHistory(G, g, side, Append(G[g].hist[side], to))

\* A bug the revert effect could have: it slices one short, the program it is back at left out.
RevertedPast(G, g, side, to) ==
  LET h == G[g].hist[side]
  IN  WithHistory(G, g, side, SubSeq(h, 1, LastIndexOf(h, to) - 1))

Reverted(G, g, side, to) ==
  LET h == G[g].hist[side]
  IN  WithHistory(G, g, side, SubSeq(h, 1, LastIndexOf(h, to)))

\* strengthen: both sides move together.
Strengthened(G, g, src, tgt) ==
  Stepped(Stepped(G, g, "src", src), g, "tgt", tgt)

WithKids(goal, kids) == [goal EXCEPT !.status = "split", !.children = goal.children \cup kids]

\* cut, interpose and case: two children with the next two ids.
Split(G, g, id, first, second) ==
  LET R == Reopened(G, g)
  IN  [x \in DOMAIN G \cup {id, id + 1} |->
         IF x = id THEN first
         ELSE IF x = id + 1 THEN second
         ELSE IF x = g THEN WithKids(R[g], {id, id + 1})
         ELSE R[x]]

CutIn(G, g, id, kind, os, ot, cs, ct) ==
  Split(G, g, id, NewGoal(g, "outer", kind, os, ot), NewGoal(g, "callee", kind, cs, ct))

InterposedAt(G, g, id, p) ==
  Split(G, g, id, NewGoal(g, "lhs", "none", HeadOf(G, g, "src"), p),
                  NewGoal(g, "rhs", "none", p, HeadOf(G, g, "tgt")))

CasedIn(G, g, id, hs, ht, fs, ft) ==
  Split(G, g, id, NewGoal(g, "holds", "none", hs, ht), NewGoal(g, "fails", "none", fs, ft))

\* uncut, uninterpose and uncase: the goals below go, and the goal reopens.
Unsplit(G, g) ==
  [x \in DOMAIN G \ Below(G, g) |->
     IF x = g THEN [G[g] EXCEPT !.status = "open", !.children = {}] ELSE G[x]]

Proved(G, g)  == WithStatus(G, {g} \cup Settled(G, g), "proved")
Refuted(G, g) == WithStatus(G, {g}, "refuted")

\* A bug: an undo asks whether there is something to undo, and not whether it is refuted.
CanUncutAny(G, g) == G[g].children # {} /\ ~Interposed(G, g) /\ ~Cased(G, g)

\* What the fold requires of an undo, whatever the move that logged it asked.
CanUncut(G, g)       == G[g].status = "split" /\ ~Interposed(G, g) /\ ~Cased(G, g)
CanUninterpose(G, g) == G[g].status = "split" /\ Interposed(G, g)
CanUncase(G, g)      == G[g].status = "split" /\ Cased(G, g)

-----------------------------------------------------------------------------
(* What a tree is.                                                         *)

Typed(G) ==
  /\ Root \in DOMAIN G
  /\ DOMAIN G \subseteq Nat \ {NoGoal}
  /\ \A g \in DOMAIN G : G[g] \in Goals
  /\ \A g \in DOMAIN G, side \in Sides : G[g].hist[side] # <<>>

\* Every goal but the root is a child of its parent, of no other goal, and younger.
Linked(G) ==
  /\ G[Root].parent = NoGoal
  /\ \A g \in DOMAIN G \ {Root} :
       /\ G[g].parent \in DOMAIN G
       /\ G[g].parent < g
       /\ g \in G[G[g].parent].children
  /\ \A g \in DOMAIN G : \A c \in G[g].children : c \in DOMAIN G /\ G[c].parent = g

=============================================================================
