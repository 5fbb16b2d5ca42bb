------------------------------- MODULE Session -------------------------------
(***************************************************************************)
(* One run of engine/core/session.ts: the moves a caller may make, in any   *)
(* order, each one action that reads the tree, decides, and appends the     *)
(* effects the fold of GoalTree then plays.                                 *)
(*                                                                         *)
(* The log itself is kept as what later guards read off it:                 *)
(*   landed  the programs strengthens put in a goal's history               *)
(*   by      where the proofs a strengthen's contract rests on stand        *)
(*   keeps   the lhs goals strengthens opened, each the proof that one       *)
(*           iteration of a loop keeps a contract                           *)
(*   shown   the pair each goal's latest proof effect was about             *)
(* Goal ids are never reused, so what the log says of a goal that was        *)
(* discarded is read by nothing and is dropped.                             *)
(*                                                                         *)
(* The solver, the rewriter and llops are outside: they answer right or not  *)
(* at all, and a cut, a split by cases or a contract they accept is one      *)
(* whose children together show the claim of their parent.                  *)
(***************************************************************************)
EXTENDS GoalTree

CONSTANTS
  Asked,       \* the pairs a run may be asked about
  Scratches,   \* the programs the edits of a transaction may make
  Moves,       \* the moves the caller makes, of the ones Next names
  MaxGoals,    \* bound: the goals one run may ever make
  MaxHistory   \* bound: the programs one side may hold

ASSUME InputsArePrograms == Asked \subseteq Programs \X Programs /\ Scratches \subseteq Programs
ASSUME BoundsAreNat == MaxGoals \in Nat /\ MaxHistory \in Nat

VARIABLES
  tree,      \* the tree the log folds to
  nextGoal,  \* the id the next goal takes
  txn,       \* the open transaction, or NoTxn
  log,       \* what later guards read off the log
  broken     \* whether the log holds an effect the fold refuses

vars == <<tree, nextGoal, txn, log, broken>>

NoTxn == [gid |-> NoGoal]

Txns == [gid : Nat \ {NoGoal}, side : Sides, from : Programs, text : Programs]

\* What the log may say of the goals in `ids`.
Logs(ids) ==
  [ landed : SUBSET (ids \X Sides \X Programs),
    by     : SUBSET (ids \X Programs),
    keeps  : SUBSET ids,
    shown  : SUBSET (ids \X Programs \X Programs) ]

EmptyLog == [landed |-> {}, by |-> {}, keeps |-> {}, shown |-> {}]

Init ==
  /\ \E pair \in Asked : tree = Start(pair[1], pair[2])
  /\ nextGoal = Root + 1
  /\ txn = NoTxn
  /\ log = EmptyLog
  /\ broken = FALSE

-----------------------------------------------------------------------------
(* Reading the log and the transaction.                                    *)

IsEditing(g)           == txn.gid = g
IsEditingSide(g, side) == txn.gid = g /\ txn.side = side

\* A bug: an undo asks about the goal it is made at, not about those it discards.
IsEditingHere(g) == txn.gid = g

IsEditingBelow(g) == txn.gid = g \/ txn.gid \in Below(tree, g)

\* A bug: a revert takes back whatever it is asked to, ...
NeverUndoes(g, side, to) == FALSE

\* ... or compares the first places two programs have in a history, not the last, ...
UndoesFirst(g, side, to) ==
  LET h == tree[g].hist[side]
      FirstIndexOf(p) == CHOOSE i \in 1..Len(h) : h[i] = p /\ \A j \in 1..i - 1 : h[j] # p
  IN  \E e \in log.landed :
        /\ e[1] = g /\ e[2] = side /\ Holds(h, e[3])
        /\ FirstIndexOf(e[3]) > FirstIndexOf(to)

\* A revert that would take a program some strengthen landed out of a history.
UndoesStrengthen(g, side, to) ==
  LET h == tree[g].hist[side]
  IN  \E e \in log.landed :
        /\ e[1] = g /\ e[2] = side /\ Holds(h, e[3])
        /\ LastIndexOf(h, e[3]) > LastIndexOf(h, to)

\* ... an unfold asks nothing of the contracts proved at the loop, ...
NoContract(g) == FALSE

\* Whether g holds the proof of facts a strengthen added.
HoldsContract(g) ==
  \E e \in log.by : e[1] = g /\ Holds(tree[g].hist["src"], e[2])

\* ... and an uninterpose undoes any interpose.
NotByStrengthen(g) == FALSE

InterposedByStrengthen(g) == tree[g].children \cap log.keeps # {}

-----------------------------------------------------------------------------
(* What the checkers answer.                                               *)

\* A bug orient could have: every step is asked about as one of the src is.
CertifiesForward(side, from, to) == <<to, from>> \in Refines

\* Whether `to` may replace `from` on a side: the src only loses behaviours, and
\* the tgt only gains them, so the claim can only get stronger.
Certifies(side, from, to) ==
  IF side = "src" THEN <<to, from>> \in Refines ELSE <<from, to>> \in Refines

\* The first place of a history no revert can pass: a program a strengthen
\* landed stands there, or the history starts there.
BaseAt(G, L, g, side) ==
  LET h == G[g].hist[side]
  IN  CHOOSE i \in 1..Len(h) :
        /\ i = 1 \/ <<g, side, h[i]>> \in L.landed
        /\ \A j \in i + 1..Len(h) : <<g, side, h[j]>> \notin L.landed

Base(G, L, g, side) == G[g].hist[side][BaseAt(G, L, g, side)]

ClaimBase(G, L, g) == Claim(Base(G, L, g, "src"), Base(G, L, g, "tgt"))

\* The iterations a loop's contract rests on, which its proof has to wait for.
Kept(G, L, g) == \A l \in G[g].children \cap L.keeps : ClaimFirst(G, l)

\* The children of a split show the claim of the goal, whatever moves they
\* are still to make.
Discharges(G, L, g) ==
  /\ G[g].status = "split"
  /\ \A c \in G[g].children : ClaimBase(G, L, c) /\ Kept(G, L, c)
  => ClaimNow(G, g)

-----------------------------------------------------------------------------
(* What a move appends.                                                    *)

Pruned(G, L) ==
  [ landed |-> {e \in L.landed : e[1] \in DOMAIN G},
    by     |-> {e \in L.by : e[1] \in DOMAIN G},
    keeps  |-> L.keeps \cap DOMAIN G,
    shown  |-> {e \in L.shown : e[1] \in DOMAIN G} ]

WithProof(G, L, g) ==
  [L EXCEPT !.shown =
     {e \in @ : e[1] # g} \cup {<<g, HeadOf(G, g, "src"), HeadOf(G, g, "tgt")>>}]

\* The effects so far, and a proof of g after them when the eager check finds one.
ThenEager(G, L, g) ==
  {[tree |-> G, log |-> L]} \cup
  (IF ClaimNow(G, g) THEN {[tree |-> Proved(G, g), log |-> WithProof(G, L, g)]} ELSE {})

Land(r) == tree' = r.tree /\ log' = r.log

\* A step to `to`, with the eager check of the new pair.
LandStep(g, side, to) ==
  /\ Len(tree[g].hist[side]) < MaxHistory
  /\ \E r \in ThenEager(Stepped(tree, g, side, to), log, g) : Land(r)

-----------------------------------------------------------------------------
(* Moves on one side of a goal.                                            *)

Revert(g, side, to) ==
  /\ ~IsEditingSide(g, side)
  /\ Workable(tree, g)
  /\ Holds(tree[g].hist[side], to)
  /\ to # HeadOf(tree, g, side)
  /\ ~UndoesStrengthen(g, side, to)
  /\ tree' = Reverted(tree, g, side, to)
  /\ UNCHANGED <<nextGoal, txn, log, broken>>

Rewrite(g, to) ==
  /\ ~IsEditingSide(g, "src")
  /\ Workable(tree, g)
  /\ to # HeadOf(tree, g, "src")
  /\ Certifies("src", HeadOf(tree, g, "src"), to)
  /\ LandStep(g, "src", to)
  /\ UNCHANGED <<nextGoal, txn, broken>>

\* A copy of the loop's body is the same program again, unless it copies calls
\* that a contract was proved at. A cut of the src alone may be at a loop too.
Unfold(g, side, to) ==
  /\ ~HoldsContract(g)
  /\ ~IsEditingSide(g, side)
  /\ Workable(tree, g)
  /\ tree[g].cut \in {"loop", "alone"}
  /\ to # HeadOf(tree, g, side)
  /\ (\A e \in log.by : e[1] # g) =>
       Certifies("src", HeadOf(tree, g, side), to) /\ Certifies("tgt", HeadOf(tree, g, side), to)
  /\ LandStep(g, side, to)
  /\ UNCHANGED <<nextGoal, txn, broken>>

-----------------------------------------------------------------------------
(* The transaction.                                                        *)

Begin(g, side) ==
  /\ txn = NoTxn
  /\ Workable(tree, g)
  /\ LET from == HeadOf(tree, g, side)
     IN  txn' = [gid |-> g, side |-> side, from |-> from, text |-> from]
  /\ UNCHANGED <<tree, nextGoal, log, broken>>

\* tx_edit and tx_opt: an op that is refused or changes nothing is no step.
Edit(text) ==
  /\ txn # NoTxn
  /\ text # txn.text
  /\ txn' = [txn EXCEPT !.text = text]
  /\ UNCHANGED <<tree, nextGoal, log, broken>>

CommitCertified ==
  /\ txn # NoTxn
  /\ Workable(tree, txn.gid)
  /\ txn.text # HeadOf(tree, txn.gid, txn.side)
  /\ Certifies(txn.side, HeadOf(tree, txn.gid, txn.side), txn.text)
  /\ LandStep(txn.gid, txn.side, txn.text)
  /\ txn' = NoTxn
  /\ UNCHANGED <<nextGoal, broken>>

\* A checker may always decline. Only imm_abort drops the scratch then.
CommitRefused(immAbort) ==
  /\ txn # NoTxn
  /\ txn' = IF immAbort THEN NoTxn ELSE txn
  /\ UNCHANGED <<tree, nextGoal, log, broken>>

Abort ==
  /\ txn # NoTxn
  /\ txn' = NoTxn
  /\ UNCHANGED <<tree, nextGoal, log, broken>>

-----------------------------------------------------------------------------
(* Splits, and undoing them.                                               *)

Splittable(g) ==
  /\ Workable(tree, g)
  /\ nextGoal + 1 <= MaxGoals

Cut(g) ==
  /\ ~IsEditing(g)
  /\ Splittable(g)
  /\ \E os, ot, cs, ct \in Programs, kind \in {"plain", "loop"} \cap Moves :
       /\ Claim(os, ot) /\ Claim(cs, ct) => ClaimNow(tree, g)
       /\ tree' = CutIn(tree, g, nextGoal, kind, os, ot, cs, ct)
  /\ nextGoal' = nextGoal + 2
  /\ UNCHANGED <<txn, log, broken>>

\* The callee of a cut of the src alone is the same program on both sides, so
\* it is proved by the cut.
CutAlone(g) ==
  /\ ~IsEditing(g)
  /\ Splittable(g)
  /\ \E os, body \in Programs :
       /\ Claim(os, HeadOf(tree, g, "tgt")) => ClaimNow(tree, g)
       /\ LET G == CutIn(tree, g, nextGoal, "alone", os, HeadOf(tree, g, "tgt"), body, body)
          IN  Land([tree |-> Proved(G, nextGoal + 1), log |-> WithProof(G, log, nextGoal + 1)])
  /\ nextGoal' = nextGoal + 2
  /\ UNCHANGED <<txn, broken>>

InterposeAt(g, p) ==
  /\ Splittable(g)
  /\ p \notin {HeadOf(tree, g, "src"), HeadOf(tree, g, "tgt")}
  /\ tree' = InterposedAt(tree, g, nextGoal, p)
  /\ nextGoal' = nextGoal + 2
  /\ UNCHANGED <<log, broken>>

InterposeProgram(g, p) ==
  /\ ~IsEditing(g)
  /\ InterposeAt(g, p)
  /\ UNCHANGED txn

\* With no program of its own, an interpose takes the scratch and ends it.
InterposeScratch(g) ==
  /\ IsEditing(g)
  /\ InterposeAt(g, txn.text)
  /\ txn' = NoTxn

Case(g) ==
  /\ ~IsEditing(g)
  /\ Splittable(g)
  /\ \E hs, ht, fs, ft \in Programs :
       /\ Claim(hs, ht) /\ Claim(fs, ft) => ClaimNow(tree, g)
       /\ tree' = CasedIn(tree, g, nextGoal, hs, ht, fs, ft)
  /\ nextGoal' = nextGoal + 2
  /\ UNCHANGED <<txn, log, broken>>

Uncut(g) ==
  /\ ~IsEditingBelow(g)
  /\ CanUncut(tree, g)
  /\ tree' = Unsplit(tree, g)
  /\ log' = Pruned(tree', log)
  /\ UNCHANGED <<nextGoal, txn, broken>>

\* A bug: the numbers of the goals discarded are given again.
LandUnsplitReusing(g, folds) ==
  /\ folds
  /\ tree' = Unsplit(tree, g)
  /\ log' = Pruned(tree', log)
  /\ nextGoal' = CHOOSE n \in 2..nextGoal : n - 1 \in DOMAIN tree' /\ \A m \in DOMAIN tree' : m < n
  /\ UNCHANGED <<txn, broken>>

\* The effect is appended whatever the goal's status, and the fold refuses it
\* of a goal that is not split: from then on no line of the log can be folded.
LandUnsplit(g, folds) ==
  /\ IF folds
     THEN /\ tree' = Unsplit(tree, g)
          /\ log' = Pruned(tree', log)
          /\ UNCHANGED broken
     ELSE broken' = TRUE /\ UNCHANGED <<tree, log>>
  /\ UNCHANGED <<nextGoal, txn>>

Uninterpose(g) ==
  /\ ~IsEditingBelow(g)
  /\ ~InterposedByStrengthen(g)
  /\ Interposed(tree, g)
  /\ LandUnsplit(g, CanUninterpose(tree, g))

Uncase(g) ==
  /\ ~IsEditingBelow(g)
  /\ Cased(tree, g)
  /\ LandUnsplit(g, CanUncase(tree, g))

-----------------------------------------------------------------------------
(* Strengthening the interface of a cut.                                   *)

Outer(g)  == Child(tree, g, "outer")
Callee(g) == Child(tree, g, "callee")

CanStrengthen(g) ==
  /\ \A c \in {g} \cup tree[g].children : ~IsEditing(c)
  /\ tree[g].children # {}
  /\ ~Interposed(tree, g) /\ ~Cased(tree, g)
  /\ Workable(tree, Outer(g)) /\ Workable(tree, Callee(g))
  /\ tree[Outer(g)].cut # "alone"
  /\ \A c \in {Outer(g), Callee(g)}, side \in Sides : Len(tree[c].hist[side]) < MaxHistory

Loops(g) == tree[Callee(g)].cut = "loop"

\* The outer enforces the facts on its src, in a second step the function
\* attributes when fs is not os, and takes them all on its tgt.
Enforces(g, os, fs, ot) ==
  LET from(side) == HeadOf(tree, Outer(g), side)
  IN  /\ os # from("src") /\ Certifies("src", from("src"), os) /\ Certifies("src", os, fs)
      /\ ot # from("tgt") /\ Certifies("tgt", from("tgt"), ot)

OnOuter(g, os, fs, ot) ==
  LET first == Stepped(tree, Outer(g), "src", os)
      both  == IF fs = os THEN first ELSE Stepped(first, Outer(g), "src", fs)
  IN  Stepped(both, Outer(g), "tgt", ot)

\* The log after a strengthen that put `outer` and `callee` on the two halves, each a
\* set of <<side, program>>, on the proofs `by`, with the interpose `keeps` if any.
Recorded(g, outer, callee, by, keeps) ==
  [log EXCEPT
     !.landed = @ \cup {<<Outer(g), e[1], e[2]>> : e \in outer}
                  \cup {<<Callee(g), e[1], e[2]>> : e \in callee},
     !.by     = @ \cup by,
     !.keeps  = @ \cup keeps]

\* Everything lands at once, and then each half that is not split is checked.
\* The contract is one the cut is still right with.
LandContract(g, G, L) ==
  LET eager(r, c) == IF r.tree[c].status = "split" THEN {r} ELSE ThenEager(r.tree, r.log, c)
  IN  /\ \A c \in {Outer(g), Callee(g)}, side \in Sides : Len(G[c].hist[side]) <= MaxHistory
      /\ Discharges(G, L, g)
      /\ \E r \in eager([tree |-> G, log |-> L], Callee(g)) : \E q \in eager(r, Outer(g)) : Land(q)
      /\ UNCHANGED <<txn, broken>>

\* Facts on the parameters (entry), on the function (fn), or both, where the
\* callee does not loop.
Strengthen(g) ==
  /\ CanStrengthen(g)
  /\ ~Loops(g)
  /\ \E os, fs, ot, cs, ct \in Programs, entry \in BOOLEAN :
       LET G  == Strengthened(OnOuter(g, os, fs, ot), Callee(g), cs, ct)
           by == IF entry THEN {<<Outer(g), os>>} ELSE {}
       IN  /\ entry \/ fs = os
           /\ Enforces(g, os, fs, ot)
           /\ LandContract(g, G, Recorded(g, {<<"src", os>>, <<"src", fs>>, <<"tgt", ot>>},
                                             {<<"src", cs>>, <<"tgt", ct>>}, by, {}))
  /\ UNCHANGED nextGoal

\* A loop keeps its contract by a step of the callee's src to `kept` ...
StrengthenLoop(g) ==
  /\ CanStrengthen(g)
  /\ Loops(g)
  /\ \E os, ot, cs, ct, kept \in Programs :
       LET on == Strengthened(OnOuter(g, os, os, ot), Callee(g), cs, ct)
           G  == Stepped(on, Callee(g), "src", kept)
       IN  /\ Enforces(g, os, os, ot)
           /\ Certifies("src", cs, kept)
           /\ LandContract(g, G, Recorded(g, {<<"src", os>>, <<"tgt", ot>>},
                                             {<<"src", cs>>, <<"src", kept>>, <<"tgt", ct>>},
                                             {<<Outer(g), os>>, <<Callee(g), kept>>}, {}))
  /\ UNCHANGED nextGoal

\* ... or, where one iteration loops itself, by an interpose of the callee at `kept`.
StrengthenNested(g) ==
  /\ CanStrengthen(g)
  /\ Loops(g)
  /\ nextGoal + 1 <= MaxGoals
  /\ \E os, ot, cs, ct, kept \in Programs :
       LET on == Strengthened(OnOuter(g, os, os, ot), Callee(g), cs, ct)
           G  == InterposedAt(on, Callee(g), nextGoal, kept)
       IN  /\ Enforces(g, os, os, ot)
           /\ LandContract(g, G, Recorded(g, {<<"src", os>>, <<"tgt", ot>>},
                                             {<<"src", cs>>, <<"tgt", ct>>},
                                             {<<Outer(g), os>>, <<Callee(g), kept>>}, {nextGoal}))
  /\ nextGoal' = nextGoal + 2

\* Return facts come alone. They are no step of the outer, whose two sides take
\* them together, unless both had them.
StrengthenReturn(g) ==
  /\ CanStrengthen(g)
  /\ \E os, ot, cs, ct \in Programs :
       LET on == Strengthened(tree, Callee(g), cs, ct)
           G  == Strengthened(on, Outer(g), os, ot)
       IN  /\ os # HeadOf(tree, Outer(g), "src")
           /\ LandContract(g, G, Recorded(g, {<<"src", os>>, <<"tgt", ot>>},
                                             {<<"src", cs>>, <<"tgt", ct>>}, {}, {}))
  /\ UNCHANGED nextGoal

-----------------------------------------------------------------------------
(* What settles a goal, and the run.                                       *)

\* A check proves a goal that can be worked on, or finds nothing.
CheckProves(g) ==
  /\ Workable(tree, g)
  /\ ClaimNow(tree, g)
  /\ Land([tree |-> Proved(tree, g), log |-> WithProof(tree, log, g)])
  /\ UNCHANGED <<nextGoal, txn, broken>>

\* A bug: a counterexample to whatever pair the root is at refutes the run.
RootOnly(g) == g = Root

\* Only the pair the run was asked about can be refuted.
RootPair(g) ==
  /\ g = Root
  /\ \A side \in Sides : HeadOf(tree, g, side) = FirstOf(tree, g, side)

CheckRefutes(g) ==
  /\ Workable(tree, g)
  /\ ~ClaimNow(tree, g)
  /\ RootPair(g)
  /\ tree' = Refuted(tree, g)
  /\ UNCHANGED <<nextGoal, txn, log, broken>>

ReportCex ==
  /\ tree[Root].status # "proved"
  /\ ~ClaimFirst(tree, Root)
  /\ tree' = Refuted(tree, Root)
  /\ UNCHANGED <<nextGoal, txn, log, broken>>

\* A run picked up again folds its log, and has no transaction.
Resume ==
  /\ txn' = NoTxn
  /\ UNCHANGED <<tree, nextGoal, log, broken>>

\* No move of a session whose log does not fold is logged, and none resumes it.
Next ==
  /\ ~broken
  /\ \/ \E g \in DOMAIN tree :
          \/ "revert" \in Moves /\ \E side \in Sides, p \in Programs : Revert(g, side, p)
          \/ "rewrite" \in Moves /\ \E p \in Programs : Rewrite(g, p)
          \/ "unfold" \in Moves /\ \E side \in Sides, p \in Programs : Unfold(g, side, p)
          \/ "edit" \in Moves /\ \E side \in Sides : Begin(g, side)
          \/ Cut(g)
          \/ "alone" \in Moves /\ CutAlone(g)
          \/ "interpose" \in Moves /\ \E p \in Programs : InterposeProgram(g, p)
          \/ "interpose" \in Moves /\ InterposeScratch(g)
          \/ "case" \in Moves /\ Case(g)
          \/ "undo" \in Moves /\ (Uncut(g) \/ Uninterpose(g) \/ Uncase(g))
          \/ "strengthen" \in Moves /\ (Strengthen(g) \/ StrengthenLoop(g) \/ StrengthenReturn(g))
          \/ "nested" \in Moves /\ StrengthenNested(g)
          \/ "check" \in Moves /\ (CheckProves(g) \/ CheckRefutes(g))
     \/ \E p \in Scratches : Edit(p)
     \/ \E immAbort \in BOOLEAN : CommitRefused(immAbort)
     \/ CommitCertified
     \/ Abort
     \/ "report" \in Moves /\ ReportCex
     \/ Resume

Spec == Init /\ [][Next]_vars

\* What the moves let through: the goal a strengthen interposed, to prove that its loop keeps
\* a contract, is unfolded once that is proved, to a program no checker was asked about, or is
\* left without the proof by the undo of a split by cases it has too.
TakesBackProof ==
  \E g \in DOMAIN tree :
    /\ InterposedByStrengthen(g)
    /\ \/ \E side \in Sides, p \in Programs :
            Unfold(g, side, p) /\ ~Certifies(side, HeadOf(tree, g, side), p)
       \/ Uncase(g) /\ CanUncase(tree, g)

\* The runs in which it does not happen.
KeptSpec == Init /\ [][Next /\ ~TakesBackProof]_vars

-----------------------------------------------------------------------------
(* What has to hold of a run.                                              *)

\* The tree maps ids to goals, and the rest is what it is said to be.
TypeOK ==
  /\ Typed(tree)
  /\ nextGoal \in Nat
  /\ txn \in Txns \cup {NoTxn}
  /\ log \in Logs(DOMAIN tree)
  /\ broken \in BOOLEAN

\* The goals stay one tree (goals.ts opened, reopen, discard): every goal but the root is a
\* child of its parent and of no other, no goal is left behind when a split is undone, and
\* no id still to be given is taken.
Forest ==
  /\ Linked(tree)
  /\ \A g \in DOMAIN tree : g < nextGoal

\* A proved goal is proved by something that still stands (goals.ts editable, unsettle,
\* settle): the log's latest proof of it is of the pair it is at, or it was split and
\* every child is proved. Touching a goal must undo all that rested on its proof.
Backed ==
  \A g \in DOMAIN tree : tree[g].status = "proved" =>
    \/ <<g, HeadOf(tree, g, "src"), HeadOf(tree, g, "tgt")>> \in log.shown
    \/ /\ tree[g].children # {}
       /\ \A c \in tree[g].children : tree[c].status = "proved"

\* A proof is carried all the way up (goals.ts settle): no goal waits on children that are
\* all proved, so a run that is not settled has an open goal to work on.
NothingLeftToSettle ==
  \A g \in DOMAIN tree : tree[g].status = "split" =>
    /\ tree[g].children # {}
    /\ \E c \in tree[g].children : tree[c].status # "proved"

\* A status says neither too much nor too little: what is proved has its proof still, and
\* what waits has something to wait for (goals.ts editable, reopen, settle).
SettledExactly == Backed /\ NothingLeftToSettle

\* The verdict is about the pair the run was asked about, however its sides were moved,
\* cut, strengthened and taken back since (goals.ts verdict, counterexamples.ts report).
VerdictSound ==
  /\ VerdictOf(tree) = "verified" => ClaimFirst(tree, Root)
  /\ VerdictOf(tree) = "counterexample" => ~ClaimFirst(tree, Root)

\* Every proved goal's own claim is true, the halves of cuts included.
ProvedTrue == \A g \in DOMAIN tree : tree[g].status = "proved" => ClaimNow(tree, g)

\* An open transaction still edits the program its side is at (transactions.ts begin,
\* session.ts editingRefusal): no move replaced that head or discarded the goal.
TxnCurrent ==
  txn # NoTxn =>
    /\ txn.gid \in DOMAIN tree
    /\ HeadOf(tree, txn.gid, txn.side) = txn.from

\* What a certificate needs of a strengthen is never taken back piece by piece (session.ts
\* revert, interposedByStrengthen): while a half lives it has every program a strengthen
\* landed on it, and the proof that a loop keeps a contract is in its chain or one of
\* its interposes.
ContractStands ==
  /\ \A e \in log.landed : Holds(tree[e[1]].hist[e[2]], e[3])
  /\ \A e \in log.by :
       \/ Holds(tree[e[1]].hist["src"], e[2])
       \/ \E l \in tree[e[1]].children \cap log.keeps : FirstOf(tree, l, "tgt") = e[2]

\* A counterexample is final (goals.ts workable, settle): no late proof of the children of
\* the root, and no undo, takes it back.
RefutedIsFinal ==
  [][VerdictOf(tree) = "counterexample" => VerdictOf(tree') = "counterexample"]_vars

\* An id names one goal for the whole run (goals.ts nextGoal): a goal that appears has an
\* id no earlier goal had, those of undone splits included.
GoalNamesFresh ==
  [][/\ \A g \in DOMAIN tree' \ DOMAIN tree : nextGoal <= g /\ g < nextGoal'
     /\ nextGoal <= nextGoal']_vars

\* The run refines the promise of Verdict: nothing a caller sees of it but the verdict on
\* one question, found, perhaps retracted, or refuted for good (goals.ts verdict).
Promise == INSTANCE Verdict WITH verdict <- VerdictOf(tree), holds <- ClaimFirst(tree, Root)

PromiseKept == Promise!Spec

-----------------------------------------------------------------------------
(* Why the verdict is sound: an inductive invariant.                       *)

\* The moves of a side that a revert may go back over only ever made the claim stronger.
StepsSound ==
  \A g \in DOMAIN tree, side \in Sides :
    \A j \in 1..Len(tree[g].hist[side]) : \A i \in BaseAt(tree, log, g, side)..j :
      Certifies(side, tree[g].hist[side][i], tree[g].hist[side][j])

\* A split is one its children show the claim of, wherever their sides are taken back to.
SplitsSound == \A g \in DOMAIN tree : Discharges(tree, log, g)

\* A goal that is not split waits on no iteration of a loop.
ContractsKept == \A g \in DOMAIN tree : tree[g].status # "split" => Kept(tree, log, g)

\* Only the halves of a cut are strengthened, and only the lhs a strengthen interposes a callee
\* at keeps a contract.
OnlyHalvesStrengthened ==
  /\ \A e \in log.landed : tree[e[1]].role \in {"outer", "callee"}
  /\ \A l \in log.keeps : tree[l].role = "lhs" /\ tree[tree[l].parent].role = "callee"
  /\ tree[Root].role = "root"

\* No revert goes past a program a strengthen landed, and the proof of a contract is one of
\* them, or the program its goal is interposed at.
ContractsPinned ==
  /\ \A e \in log.landed : Holds(tree[e[1]].hist[e[2]], e[3])
  /\ \A e \in log.by :
       \/ <<e[1], "src", e[2]>> \in log.landed
       \/ \E l \in tree[e[1]].children \cap log.keeps : FirstOf(tree, l, "tgt") = e[2]

\* The invariant (goals.ts, session.ts revert, uninterpose): every proved goal is true, now
\* and at the pair no revert can pass.
SoundInv ==
  /\ ProvedTrue
  /\ StepsSound
  /\ SplitsSound
  /\ ContractsKept
  /\ OnlyHalvesStrengthened
  /\ ContractsPinned
  /\ VerdictOf(tree) = "counterexample" => ~ClaimFirst(tree, Root)

-----------------------------------------------------------------------------
(* What the code says of itself and does not keep.                         *)

\* Every line of the log can be folded (session.ts act, uninterpose, uncase).
LogFolds == ~broken

\* "Copies made after a contract's proof would call the loop where the proof does not reach, so
\* unfolding comes before strengthening" (session.ts unfold), and an interpose that holds a
\* contract's proof is undone by the undo of the cut alone (session.ts uninterpose).
ProofsStand == [][~TakesBackProof]_vars

=============================================================================
