-------------------------------- MODULE Search --------------------------------
(***************************************************************************)
(* The simple searcher (simple/search.ts): a loop over an agenda of goals, *)
(* the last of them in hand.  Each goal has the moves it has not made yet, *)
(* and how to undo the split that left the goals above it.  What a move    *)
(* does to a goal's programs is left out, and with it the order of cuts of *)
(* one kind; what it does to the tree, the agenda and the quotas of cuts   *)
(* is here.  The checker answers as it likes.                              *)
(***************************************************************************)
EXTENDS GoalTree, SequencesExt, FiniteSetsExt

CONSTANTS
  MaxCuts,      \* the cuts a goal, and the goals its cuts leave, may make
  Stages,       \* the stages of the optimizer that the first goal is walked through
  Comparisons,  \* the comparisons that a goal tests
  Offers,       \* the moves that goals of each role may make something of
  MaxFacts      \* the times a cut can be strengthened against a counterexample

ASSUME SearchAssumption ==
  MaxCuts \in Nat /\ Stages \in Nat /\ Comparisons \in Nat /\ MaxFacts \in Nat
  /\ Offers \in [Roles -> SUBSET {"stage", "steps", "bounded", "cut", "nested", "peel", "case"}]

VARIABLES
  tree,       \* the session's goals
  agenda,     \* the goals to search, the one in hand last
  quotas,     \* the cuts left to each goal that has a quota of its own, by its id
  facts,      \* the times each cut's callee was strengthened against a counterexample
  phase,      \* where the search is
  exhausted   \* a ghost: the goals that left the agenda with no move left

vars == <<tree, agenda, quotas, facts, phase, exhausted>>

P == CHOOSE p \in Programs : TRUE

\* The id of the next goal. The session gives none twice, but no part of a search outlives
\* the goals of a split that was undone, so theirs are given again here.
next == Max(DOMAIN tree) + 1

Undos == {"none", "uncut", "uninterpose", "uncase"}
Phases == {"root", "search", "repair", "gave up", "settled", "threw"}

(***************************************************************************)
(* A goal on the agenda.                                                   *)
(***************************************************************************)
\* The moves of a goal, in the order they are made, but for those that find nothing to do.
MovesOf(role, stages, steps, peelable, cases) ==
  LET all == [i \in 1..stages |-> "stage"] \o <<"ask">>
               \o (IF steps THEN <<"steps">> ELSE <<>>) \o <<"check", "bounded", "cut">>
               \o (IF peelable THEN <<"peel">> ELSE <<>>) \o [i \in 1..cases |-> "case"]
               \o <<"check">>
  IN  SelectSeq(all, LAMBDA m : m \in {"ask", "check"} \cup Offers[role])

Entry(gid, parent, quota, moves) ==
  [gid |-> gid, parent |-> parent, quota |-> quota, moves |-> moves, undo |-> "none",
   jumping |-> TRUE, interposable |-> TRUE, poison |-> TRUE]

Plain(role, gid, parent, quota) ==
  Entry(gid, parent, quota, MovesOf(role, 0, TRUE, TRUE, Comparisons))

Top == Last(agenda)
Hand == Top.gid

Queued(gid) == \E i \in DOMAIN agenda : agenda[i].gid = gid
IndexOf(gid) == CHOOSE i \in DOMAIN agenda : agenda[i].gid = gid

Undecided == VerdictOf(tree) = "unknown"

Working(move) ==
  phase = "search" /\ Undecided /\ agenda # <<>>
    /\ Top.undo = "none" /\ Top.moves # <<>> /\ Head(Top.moves) = move

MovedOn == [Top EXCEPT !.moves = Tail(@)]
WithTop(entry) == Front(agenda) \o <<entry>>

\* A move that leaves the goal to the moves after it.
NoAnswer == agenda' = WithTop(MovedOn) /\ UNCHANGED <<phase, exhausted>>

\* A proof closes the goal in hand.
Closed == agenda' = Front(agenda) /\ UNCHANGED <<phase, exhausted>>

\* The halves of a split, and in place of one that its strengthen interposed, its two goals.
Parts(T, halves) ==
  FlattenSeq([i \in DOMAIN halves |->
    LET h == halves[i] IN
    IF T[h.gid].status # "split" THEN <<h>>
    ELSE [role \in 1..2 |-> LET half == <<"lhs", "rhs">>[role]
                            IN  Plain(half, Child(T, h.gid, half), Hand, h.quota)]])

\* The goals a split left are searched before anything else, the first of them first.
SplitInto(T, undo, top, halves) ==
  /\ tree' = T
  /\ agenda' = Front(agenda) \o <<[top EXCEPT !.undo = undo]>> \o Reverse(Parts(T, halves))
  /\ UNCHANGED <<phase, exhausted>>

(***************************************************************************)
(* The root, before there is an agenda.                                    *)
(***************************************************************************)
Init ==
  /\ tree = Start(P, P)
  /\ agenda = <<>> /\ quotas = <<>> /\ facts = <<>>
  /\ phase = "root" /\ exhausted = {}

\* A check of the root, or of it unrolled, or again once it is prepared.
RootCheck ==
  /\ phase = "root" /\ tree[Root].status = "open"
  /\ tree' \in {Proved(tree, Root), Refuted(tree, Root)}
  /\ phase' = "settled"
  /\ UNCHANGED <<agenda, quotas, facts, exhausted>>

\* The goal that is left once a bounded loop of the src is peeled and cut away.
Begun == IF tree[Root].children = {} THEN Root ELSE Child(tree, Root, "outer")

\* A cut of the src alone, whose callee is proved where it is made.
CutAlone(T, gid) == Proved(CutIn(T, gid, next, "alone", P, P, P, P), next + 1)

\* Bound: one loop is peeled away, where the code goes on while there is one.
PeelRoot ==
  /\ phase = "root" /\ Begun = Root /\ MaxCuts > 0
  /\ tree' = CutAlone(tree, Root)
  /\ UNCHANGED <<agenda, quotas, facts, phase, exhausted>>

\* What a peel left is checked before it is searched. A refutation of it is none of the root.
CheckPeeled ==
  /\ phase = "root" /\ Begun # Root
  /\ tree' = Proved(tree, Begun) /\ phase' = "settled"
  /\ UNCHANGED <<agenda, quotas, facts, exhausted>>

Begin ==
  /\ phase = "root"
  /\ agenda' = <<Entry(Begun, NoGoal, Begun,
                      MovesOf(tree[Begun].role, Stages, TRUE, TRUE, Comparisons))>>
  /\ quotas' = [q \in {Begun} |-> MaxCuts]
  /\ phase' = "search"
  /\ UNCHANGED <<tree, facts, exhausted>>

(***************************************************************************)
(* Moves that step, ask or check the goal in hand.                         *)
(***************************************************************************)
\* Strengthening a cut checks its goals again, which may have proved this one.
AskProved ==
  /\ Working("ask")
  /\ IF tree[Hand].status = "proved" THEN Closed ELSE NoAnswer
  /\ UNCHANGED <<tree, quotas, facts>>

\* Windows and rules step the goal; a rule's step may prove it on the way, and the moves
\* after it are made all the same.
StepGoal ==
  /\ Working("steps")
  /\ tree' \in {Reopened(tree, Hand), Proved(Reopened(tree, Hand), Hand)}
  /\ NoAnswer
  /\ UNCHANGED <<quotas, facts>>

\* A counterexample to the root as it was asked decides the run; any other is a hint.
CheckGoal ==
  /\ Working("check")
  /\ \/ tree' = Proved(tree, Hand) /\ Closed
     \/ NoAnswer /\ UNCHANGED tree
     \/ /\ tree' \in {tree} \cup {Refuted(tree, Root) : r \in {Hand} \cap {Root}}
        /\ agenda' = WithTop(MovedOn) /\ phase' = "repair" /\ UNCHANGED exhausted
  /\ UNCHANGED <<quotas, facts>>

(***************************************************************************)
(* Moves that split it.                                                    *)
(***************************************************************************)

QuotaLeft == quotas[Top.quota] > 0
Spend == quotas' = [quotas EXCEPT ![Top.quota] = @ - 1]

\* What the checks of a strengthen may prove of both halves, the callee first.
CrossChecked(T, outer, callee) ==
  LET After(U, half) == IF U[half].status = "split" THEN {U} ELSE {U, Proved(U, half)}
  IN  UNION {After(U, outer) : U \in After(T, callee)}

\* A cut of gid at an instruction or a loop, strengthened with what holds there. A loop whose
\* iteration loops is interposed, to prove that the iteration keeps the contract.
CutOf(T, gid, id) ==
  CrossChecked(CutIn(T, gid, id, "plain", P, P, P, P), id, id + 1)
NestedCutOf(T, gid, id) ==
  CrossChecked(InterposedAt(CutIn(T, gid, id, "loop", P, P, P, P), id + 1, id + 2, P), id, id + 1)

OuterHalf(gid)  == Plain("outer", gid, Hand, Top.quota)
CalleeHalf(gid) == Plain("callee", gid, Hand, Top.quota)
Halves == <<OuterHalf(next), CalleeHalf(next + 1)>>

MoveRefused(move) == Working(move) /\ NoAnswer /\ UNCHANGED <<tree, quotas, facts>>

\* A loop the tgt no longer has is peeled away.
CutBounded ==
  /\ Working("bounded") /\ QuotaLeft
  /\ SplitInto(CutAlone(tree, Hand), "uncut", MovedOn, Halves)
  /\ Spend /\ UNCHANGED facts

Cut ==
  /\ Working("cut") /\ QuotaLeft
  /\ \E T \in CutOf(tree, Hand, next) : SplitInto(T, "uncut", MovedOn, Halves)
  /\ Spend /\ UNCHANGED facts

CutNested ==
  /\ Working("cut") /\ QuotaLeft /\ "nested" \in Offers[tree[Hand].role]
  /\ \E T \in NestedCutOf(tree, Hand, next) : SplitInto(T, "uncut", MovedOn, Halves)
  /\ Spend /\ UNCHANGED facts

\* A region is cut off after it and then at its head: the outer is cut again, and the goal
\* that holds the region is not peeled again.
Peel ==
  /\ Working("peel") /\ QuotaLeft
  /\ \E T \in CutOf(tree, Hand, next) :
     \E U \in CutOf(T, next, next + 2) :
       LET region == Entry(next + 3, Hand, Top.quota, MovesOf("callee", 0, TRUE, FALSE, Comparisons))
       IN  SplitInto(U, "uncut", MovedOn, <<OuterHalf(next + 2), region, CalleeHalf(next + 1)>>)
  /\ Spend /\ UNCHANGED facts

\* Cases on a comparison, or on whether a parameter it compares is poison. One of the two
\* goals must close at once.
CaseLeft == Len(SelectSeq(Tail(Top.moves), LAMBDA m : m = "case"))

CaseOf(role, gid, cases, poison) ==
  [Entry(gid, Hand, Top.quota, MovesOf(role, 0, TRUE, TRUE, cases)) EXCEPT !.poison = poison]

Case ==
  /\ Working("case")
  /\ LET T == CasedIn(tree, Hand, next, P, P, P, P) IN
     \E closed \in {next, next + 1}, poison \in {FALSE, Top.poison} :
       \E unread \in IF poison THEN 0..CaseLeft ELSE {CaseLeft} :
         SplitInto(Proved(T, closed), "uncase", MovedOn,
                << CaseOf("holds", next, IF poison THEN CaseLeft + 1 ELSE CaseLeft,
                          Top.poison /\ ~poison),
                   CaseOf("fails", next + 1, unread, Top.poison) >>)
  /\ UNCHANGED <<quotas, facts>>

(***************************************************************************)
(* The walk through the stages. A stage that windows do not reach is put   *)
(* between the two sides: its lhs is checked whole, and searched when that *)
(* is undecided.                                                           *)
(***************************************************************************)
AfterStages(moves) == SelectSeq(moves, LAMBDA m : m # "stage")

\* A stage is stepped to by its windows, or is the goal's src.
StageReached == MoveRefused("stage")

\* It is the goal's tgt, so the goal itself is checked.
StageIsTgt ==
  /\ Working("stage") /\ Top.jumping
  /\ \/ tree' = Proved(tree, Hand) /\ Closed
     \/ /\ UNCHANGED <<tree, phase, exhausted>>
        /\ \E jumping \in BOOLEAN : agenda' = WithTop([MovedOn EXCEPT !.jumping = jumping])
     \/ /\ tree' \in {tree} \cup {Refuted(tree, Root) : r \in {Hand} \cap {Root}}
        /\ agenda' = WithTop(MovedOn) /\ phase' = "repair" /\ UNCHANGED exhausted
  /\ UNCHANGED <<quotas, facts>>

Provable == Top.interposable /\ MaxCuts > 0

Rest(gid) ==
  LET left == Len(MovedOn.moves) - Len(AfterStages(MovedOn.moves))
  IN  Entry(gid, Hand, Top.quota, MovesOf("rhs", left, TRUE, TRUE, Comparisons))

\* The lhs is proved at once: the rhs is walked on, and this goal is not.
StageJumped ==
  /\ Working("stage") /\ Top.jumping
  /\ LET T == Proved(InterposedAt(tree, Hand, next, P), next)
     IN  SplitInto(T, "uninterpose",
                [MovedOn EXCEPT !.moves = AfterStages(@), !.interposable = FALSE],
                <<Rest(next + 1)>>)
  /\ UNCHANGED <<quotas, facts>>

\* It is not, and is searched with a quota of its own.
StageInterposed ==
  /\ Working("stage") /\ Provable
  /\ \E jumping \in {FALSE, Top.jumping} :
       SplitInto(InterposedAt(tree, Hand, next, P), "uninterpose",
              [MovedOn EXCEPT !.jumping = jumping, !.interposable = FALSE],
              << Entry(next, Hand, next, MovesOf("lhs", 0, FALSE, TRUE, Comparisons)),
                 Rest(next + 1) >>)
  /\ quotas' = [q \in DOMAIN quotas \cup {next} |-> IF q = next THEN MaxCuts ELSE quotas[q]]
  /\ UNCHANGED facts

\* The lhs is refuted, or undecided where it may not be searched: the interpose is undone.
StageRefused ==
  /\ Working("stage") /\ Top.jumping
  /\ \E jumping \in {FALSE, TRUE} : agenda' = WithTop([MovedOn EXCEPT !.jumping = jumping])
  /\ UNCHANGED <<tree, quotas, facts, phase, exhausted>>

(***************************************************************************)
(* Undoing a split. The session throws where the goal was not split the    *)
(* way it is asked to undo, or is not split.                               *)
(***************************************************************************)
CanUndo(entry) ==
  CASE entry.undo = "uncut"       -> CanUncut(tree, entry.gid)
    [] entry.undo = "uninterpose" -> CanUninterpose(tree, entry.gid)
    [] entry.undo = "uncase"      -> CanUncase(tree, entry.gid)

Threw == phase' = "threw" /\ UNCHANGED <<tree, agenda, quotas, facts, exhausted>>

\* The goals below go, and what was kept about them.
Undone(gid) ==
  LET T == Unsplit(tree, gid) IN
  /\ tree' = T
  /\ quotas' = Restrict(quotas, DOMAIN quotas \cap DOMAIN T)
  /\ facts' = Restrict(facts, DOMAIN facts \cap DOMAIN T)
  /\ exhausted' = exhausted \cap DOMAIN T

\* A bug: a split that is not proved is left as it is.
PopsAlways(proved) == TRUE
PopsProved(proved) == proved

\* A bug: a goal whose split is undone makes its moves again from the first.
Restarted(entry) == Plain(tree[entry.gid].role, entry.gid, entry.parent, entry.quota)

\* A goal whose split is undone goes on with its next move.
Resumed(entry) == [entry EXCEPT !.undo = "none"]

\* The goals above are done: the split proved this one, or it is undone and the next move made.
Settle ==
  /\ phase = "search" /\ Undecided /\ agenda # <<>> /\ Top.undo # "none"
  /\ IF PopsProved(tree[Hand].status = "proved")
     THEN Closed /\ UNCHANGED <<tree, quotas, facts>>
     ELSE IF ~CanUndo(Top) THEN Threw
     ELSE /\ Undone(Hand)
          /\ agenda' = WithTop(Resumed(Top))
          /\ UNCHANGED phase

Exhaust ==
  /\ phase = "search" /\ Undecided /\ agenda # <<>> /\ Top.undo = "none" /\ Top.moves = <<>>
  /\ agenda' = Front(agenda) /\ exhausted' = exhausted \cup {Hand}
  /\ UNCHANGED <<tree, quotas, facts, phase>>

(***************************************************************************)
(* Repairing a refuted goal.                                               *)
(***************************************************************************)
Repairing == phase = "repair" /\ Undecided

\* The goals between the one in hand and the root are all outers, which begin as the root does.
EntryOfRoot ==
  LET outer[x \in DOMAIN tree] ==
        x = Root \/ (tree[x].role = "outer" /\ outer[tree[x].parent])
  IN  outer[Hand]

\* The counterexample is one of the pair the run was asked about.
RefuteRun ==
  /\ Repairing /\ EntryOfRoot
  /\ tree' = Refuted(tree, Root) /\ phase' = "search"
  /\ UNCHANGED <<agenda, quotas, facts, exhausted>>

\* The cut that is strengthened is the first of the goal that was cut.
CutAt      == tree[Hand].parent
FirstOuter  == Child(tree, CutAt, "outer")
FirstCallee == Child(tree, CutAt, "callee")

FactsOf(callee) == IF callee \in DOMAIN facts THEN facts[callee] ELSE 0

Strengthenable ==
  /\ tree[Hand].role = "callee" /\ tree[FirstOuter].cut # "alone"
  /\ Workable(tree, FirstOuter) /\ Workable(tree, FirstCallee)
  /\ FactsOf(FirstCallee) < MaxFacts

\* The halves of a goal that was interposed or cased too are none to strengthen.
Mixed == tree[Hand].role = "callee" /\ (Interposed(tree, CutAt) \/ Cased(tree, CutAt))

\* The goals of a set, the oldest first.
OldestFirst(goals) ==
  CHOOSE s \in [1..Cardinality(goals) -> goals] :
    \A i, j \in 1..Cardinality(goals) : i < j => s[i] < s[j]

\* A bug: what the strengthen reopened is not put back.
NotRequeued(T) == <<>>

\* The other goals of the cut are put back once, under the goal in hand, if strengthening it
\* reopened them.
Requeued(T) ==
  LET reopened == {s \in T[CutAt].children \ {Hand} : T[s].status = "open" /\ ~Queued(s)}
      sorted   == OldestFirst(reopened)
  IN  [i \in DOMAIN sorted |-> Plain(T[sorted[i]].role, sorted[i], Top.parent, Top.quota)]

StrengthenAgainst ==
  /\ Repairing /\ ~Mixed /\ Strengthenable
  /\ \E T \in CrossChecked(Reopened(Reopened(tree, FirstOuter), FirstCallee),
                            FirstOuter, FirstCallee) :
       LET back == Requeued(T) IN
       /\ exhausted' = exhausted \ {back[i].gid : i \in DOMAIN back}
       /\ \/ tree' = Proved(T, Hand) /\ agenda' = Front(agenda) \o back /\ phase' = "search"
          \/ /\ T[Hand].status # "proved" /\ tree' = T
             /\ agenda' = Front(agenda) \o back \o <<Top>> /\ phase' \in {"search", "repair"}
  /\ facts' = [c \in DOMAIN facts \cup {FirstCallee} |->
                 IF c = FirstCallee THEN FactsOf(c) + 1 ELSE facts[c]]
  /\ UNCHANGED quotas

StrengthenThrows ==
  /\ Repairing /\ Mixed
  /\ Threw

\* A bug: only the refuted goal leaves the agenda.
UpToBelow(parent) == Front(agenda)
UpTo(parent) == SubSeq(agenda, 1, IndexOf(parent))

\* No fact rules the counterexample out: the split that left the goal is undone, and with it
\* the goals it left that are still on the agenda.
Undo ==
  /\ Repairing
  /\ IF Top.parent = NoGoal
     THEN /\ agenda' = Front(agenda) /\ exhausted' = exhausted \cup {Hand}
          /\ phase' = "search" /\ UNCHANGED <<tree, quotas, facts>>
     ELSE LET parent == agenda[IndexOf(Top.parent)] IN
          IF ~CanUndo(parent) THEN Threw
          ELSE /\ Undone(parent.gid)
               /\ agenda' = [UpTo(parent.gid) EXCEPT ![IndexOf(parent.gid)] = Resumed(@)]
               /\ phase' = "search"

(***************************************************************************)
(* The end.                                                                *)
(***************************************************************************)
GiveUp ==
  /\ phase = "search" /\ Undecided /\ agenda = <<>>
  /\ phase' = "gave up"
  /\ UNCHANGED <<tree, agenda, quotas, facts, exhausted>>

Decided ==
  /\ phase \in {"search", "repair"} /\ ~Undecided
  /\ phase' = "settled"
  /\ UNCHANGED <<tree, agenda, quotas, facts, exhausted>>

Ended == phase \in {"gave up", "settled", "threw"}
Over == Ended /\ UNCHANGED vars

Refusals == \E move \in {"bounded", "cut", "peel", "case"} : MoveRefused(move)

Next ==
  \/ RootCheck \/ PeelRoot \/ CheckPeeled \/ Begin
  \/ AskProved \/ StepGoal \/ CheckGoal \/ Refusals
  \/ CutBounded \/ Cut \/ CutNested \/ Peel \/ Case
  \/ StageReached \/ StageIsTgt \/ StageJumped \/ StageInterposed \/ StageRefused
  \/ Settle \/ Exhaust
  \/ RefuteRun \/ StrengthenAgainst \/ StrengthenThrows \/ Undo
  \/ GiveUp \/ Decided \/ Over

Spec == Init /\ [][Next]_vars

\* WF_vars(Next), written out because TLC takes too long to ask whether Next is enabled: it is
\* until the search has ended, or TLC reports a deadlock. The search is one loop, and all that
\* it waits for are answers that its timeouts bound.
FairSpec == Spec /\ ([]<>Ended \/ []<><<TRUE>>_vars)

(***************************************************************************)
(* Properties.                                                             *)
(***************************************************************************)
TypeOK ==
  /\ Typed(tree) /\ Linked(tree)
  /\ phase \in Phases
  /\ \A q \in DOMAIN quotas : quotas[q] \in 0..MaxCuts
  /\ \A i \in DOMAIN agenda : agenda[i].undo \in Undos /\ agenda[i].quota \in DOMAIN quotas
  /\ exhausted \subseteq DOMAIN tree

\* The agenda speaks of goals that are alive, each once, above the goal whose split left it,
\* which was not undone since (search.ts undo, settle, requeue).
AgendaStands ==
  phase \in {"search", "repair"} /\ Undecided =>
    \A i \in DOMAIN agenda :
      LET entry == agenda[i] IN
      /\ entry.gid \in DOMAIN tree
      /\ \A j \in DOMAIN agenda : agenda[j].gid = entry.gid => j = i
      /\ entry.undo # "none" => tree[entry.gid].status \in {"split", "proved"}
      /\ entry.parent # NoGoal =>
           /\ Queued(entry.parent) /\ IndexOf(entry.parent) < i
           /\ agenda[IndexOf(entry.parent)].undo # "none"

\* While the run is undecided, an open goal is on the agenda or has tried all its moves, also
\* one that was proved and that a strengthen reopened (search.ts requeue).
NoneForgotten ==
  phase = "search" /\ Undecided =>
    \A x \in DOMAIN tree : tree[x].status = "open" => Queued(x) \/ x \in exhausted

\* A search gives up with every split undone that it made on the agenda, so that the session
\* it leaves is one to go on from (search.ts settle, undo).
GivesUpWhole ==
  phase = "gave up" =>
    \A x \in DOMAIN tree : tree[x].children # {} =>
      x = Root /\ \A c \in tree[x].children : tree[c].cut = "alone"

\* Quotas, facts and comparisons run out: the search ends (search.ts search).
Finishes == <>Ended
===============================================================================
