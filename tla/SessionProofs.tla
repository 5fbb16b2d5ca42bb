----------------------------- MODULE SessionProofs -----------------------------
(***************************************************************************)
(* What holds of every run, whatever the programs, the bounds and the moves  *)
(* the caller makes; why a verdict is never wrong: what is proved is true,   *)
(* now and wherever its sides may still be taken back to, as long as no      *)
(* proof of a contract is taken back (KeptSpec); and what is exported of a   *)
(* settled session is a certificate of it: its chains play back, and every   *)
(* contract a chain rests on is proved in it (CKeptSpec).                    *)
(***************************************************************************)
EXTENDS Certificate, GoalTreeProofs

-----------------------------------------------------------------------------
(* The invariant.                                                          *)

\* A tree, what the log says of it, and the id the next goal takes.
Good(G, L, n) ==
  /\ Sound(G, L.shown)
  /\ L \in Logs(DOMAIN G)
  /\ n \in Nat
  /\ \A x \in DOMAIN G : x < n

\* The transaction is of a goal that is there, at the program it began with.
TxnOn(t, G) ==
  t = NoTxn \/
    /\ t \in Txns
    /\ t.gid \in DOMAIN G
    /\ HeadOf(G, t.gid, t.side) = t.from

\* The inductive invariant: a touch reopens all that rested on a proof, so what is proved
\* is backed; and no undo takes a goal that is edited.
TreeInv ==
  /\ Good(tree, log, nextGoal)
  /\ TxnOn(txn, tree)
  /\ broken \in BOOLEAN

\* The side of x is as it was.
Same(G, H, x, side) == x \in DOMAIN H /\ H[x].hist[side] = G[x].hist[side]

\* The root is still the pair the run was asked about, where it was.
SameQuestion == \A s \in Sides : FirstOf(tree', Root, s) = FirstOf(tree, Root, s)

LEMMA SameTxn ==
  ASSUME NEW G, NEW H, NEW t, TxnOn(t, G), t = NoTxn \/ Same(G, H, t.gid, t.side)
  PROVE  TxnOn(t, H)
BY DEF TxnOn, Same, HeadOf

-----------------------------------------------------------------------------
(* Programs and goals.                                                     *)

LEMMA HeadIs ==
  ASSUME NEW G, Typed(G), NEW g \in DOMAIN G, NEW side \in Sides
  PROVE  HeadOf(G, g, side) \in Programs
<1>1. G[g].hist[side] \in Seq(Programs) /\ G[g].hist[side] # <<>>
  BY DEF Typed, Goals
<1> QED
  BY <1>1 DEF HeadOf

LEMMA NewGoalIs ==
  ASSUME NEW parent \in Nat, NEW role \in Roles, NEW cut \in CutKinds,
         NEW src \in Programs, NEW tgt \in Programs
  PROVE  LET n == NewGoal(parent, role, cut, src, tgt)
         IN  /\ n \in Goals
             /\ n.parent = parent /\ n.role = role /\ n.status = "open" /\ n.children = {}
             /\ \A s \in Sides : n.hist[s] # <<>>
<1> DEFINE h == [s \in Sides |-> IF s = "src" THEN <<src>> ELSE <<tgt>>]
<1>1. h \in [Sides -> Seq(Programs)] /\ \A s \in Sides : h[s] # <<>>
  OBVIOUS
<1> HIDE DEF h
<1> QED
  BY <1>1 DEF NewGoal, Goals, Statuses, h

-----------------------------------------------------------------------------
(* The parts of an action.                                                 *)

\* A move of the sides of one goal.
LEMMA MovedGood ==
  ASSUME NEW G, NEW H, NEW g \in DOMAIN G, NEW hist, NEW L, NEW n,
         Good(G, L, n), Moved(G, H, g, hist)
  PROVE  Good(H, L, n) /\ DOMAIN H = DOMAIN G
<1>1. Sound(H, L.shown)
  BY MovedSound DEF Good
<1>2. DOMAIN H = DOMAIN G
  BY DEF Moved, SameGoals
<1> QED
  BY <1>1, <1>2 DEF Good

\* More that later guards read off the log, and no other proof.
LEMMA RecordedGood ==
  ASSUME NEW G, NEW L, NEW M, NEW n, Good(G, L, n), M \in Logs(DOMAIN G), M.shown = L.shown
  PROVE  Good(G, M, n)
BY DEF Good

\* A proof.
LEMMA ProvedGood ==
  ASSUME NEW G, NEW g \in DOMAIN G, NEW L, NEW n, Good(G, L, n)
  PROVE  /\ Good(Proved(G, g), WithProof(G, L, g), n)
         /\ DOMAIN Proved(G, g) = DOMAIN G
         /\ \A x \in DOMAIN G : Proved(G, g)[x].hist = G[x].hist
<1> DEFINE M == WithProof(G, L, g)
           e == <<g, HeadOf(G, g, "src"), HeadOf(G, g, "tgt")>>
<1>1. Typed(G) /\ L \in Logs(DOMAIN G) /\ Sound(G, L.shown)
  BY DEF Good, Sound
<1>2. HeadOf(G, g, "src") \in Programs /\ HeadOf(G, g, "tgt") \in Programs
  BY <1>1, HeadIs DEF Sides
<1>3. e \in (DOMAIN G) \X Programs \X Programs
  BY <1>2
<1> HIDE DEF e
<1>4. M = [L EXCEPT !.shown = {d \in L.shown : d[1] # g} \cup {e}]
  BY DEF WithProof, e
<1> HIDE DEF M
<1>5. M \in Logs(DOMAIN G) /\ M.shown = {d \in L.shown : d[1] # g} \cup {e}
  BY <1>1, <1>3, <1>4 DEF Logs
<1>6. /\ e \in M.shown
      /\ \A x \in DOMAIN G \ {g} : \A p, q : <<x, p, q>> \in L.shown => <<x, p, q>> \in M.shown
  BY <1>5
<1>7. Sound(Proved(G, g), M.shown)
  BY <1>1, <1>6, ProvedSound DEF e
<1>8. DOMAIN Proved(G, g) = DOMAIN G /\ \A x \in DOMAIN G : Proved(G, g)[x].hist = G[x].hist
  BY <1>1, WithStatusIs DEF Proved, SameGoals, Statuses
<1> QED
  BY <1>5, <1>7, <1>8 DEF Good, M

\* A move with the eager check after it.
LEMMA EagerGood ==
  ASSUME NEW G, NEW g \in DOMAIN G, NEW L, NEW n, Good(G, L, n), NEW r \in ThenEager(G, L, g)
  PROVE  /\ Good(r.tree, r.log, n)
         /\ DOMAIN r.tree = DOMAIN G
         /\ \A x \in DOMAIN G : r.tree[x].hist = G[x].hist
<1>1. \/ r = [tree |-> G, log |-> L]
      \/ r = [tree |-> Proved(G, g), log |-> WithProof(G, L, g)]
  BY DEF ThenEager
<1> QED
  BY <1>1, ProvedGood

\* An undo.
LEMMA UnsplitGood ==
  ASSUME NEW G, NEW g \in DOMAIN G, G[g].status = "split", NEW L, NEW n, Good(G, L, n)
  PROVE  /\ Good(Unsplit(G, g), Pruned(Unsplit(G, g), L), n)
         /\ \A x \in DOMAIN G \ Below(G, g) :
              x \in DOMAIN Unsplit(G, g) /\ Unsplit(G, g)[x].hist = G[x].hist
<1> DEFINE H == Unsplit(G, g)
           M == Pruned(H, L)
<1>1. Typed(G) /\ Linked(G) /\ L \in Logs(DOMAIN G) /\ Sound(G, L.shown)
  BY DEF Good, Sound
<1>2. UnsplitOf(G, H, g)
  BY <1>1, UnsplitIs
<1> HIDE DEF H
<1>3. M.shown = {e \in L.shown : e[1] \in DOMAIN H} /\ M \in Logs(DOMAIN H)
  BY <1>1 DEF Pruned, Logs
<1> HIDE DEF M
<1>4. \A x \in DOMAIN H : \A p, q : <<x, p, q>> \in L.shown => <<x, p, q>> \in M.shown
  BY <1>3
<1>5. Sound(H, M.shown)
  BY <1>1, <1>4, UnsplitSound DEF H
<1>6. DOMAIN H = DOMAIN G \ Below(G, g)
  BY <1>2 DEF UnsplitOf
<1>7. \A x \in DOMAIN H : H[x].hist = G[x].hist
  BY <1>1, <1>2 DEF UnsplitOf, Typed, Goals
<1>8. \A x \in DOMAIN H : x < n
  BY <1>6 DEF Good
<1> QED
  BY <1>3, <1>5, <1>6, <1>7, <1>8 DEF Good, H, M

\* H is G with two goals more, n and the next.
TwoMore(G, H, L, n) ==
  /\ Good(H, L, n + 2)
  /\ DOMAIN H = DOMAIN G \cup {n, n + 1}
  /\ \A x \in DOMAIN G : H[x].hist = G[x].hist

\* Two new goals.
LEMMA SplitGood ==
  ASSUME NEW G, NEW g \in DOMAIN G, NEW L, NEW n, Good(G, L, n),
         NEW first \in Goals, NEW second \in Goals,
         \A k \in {first, second} :
           /\ k.parent = g /\ k.children = {} /\ k.status = "open"
           /\ \A s \in Sides : k.hist[s] # <<>>,
         <<first.role, second.role>> \in RolePairs
  PROVE  TwoMore(G, Split(G, g, n, first, second), L, n)
<1> DEFINE H == Split(G, g, n, first, second)
           R == Reopened(G, g)
<1>1. /\ Typed(G) /\ Linked(G) /\ L \in Logs(DOMAIN G) /\ Sound(G, L.shown)
      /\ n \in Nat /\ \A x \in DOMAIN G : x \in Nat /\ x < n
  BY DEF Good, Sound, Typed
<1>2. \A k \in {first, second} :
        k.parent = g /\ k.children = {} /\ \A s \in Sides : k.hist[s] # <<>>
  OBVIOUS
<1>3. SplitOf(G, H, g, n, first, second)
  BY <1>1, <1>2, SplitIs
<1>4. Sound(H, L.shown)
  <2> DEFINE shown == L.shown
  <2>1. Sound(G, shown) /\ n \in Nat /\ \A x \in DOMAIN G : x < n
    BY <1>1
  <2> HIDE DEF shown
  <2>2. Sound(H, shown)
    BY <2>1, SplitSound
  <2> QED
    BY <2>2 DEF shown
<1>5. Typed(R) /\ DOMAIN R = DOMAIN G /\ \A x \in DOMAIN G : R[x].hist = G[x].hist
  BY <1>1, ReopenedIs DEF SameGoals
<1> HIDE DEF H
<1>6. /\ DOMAIN H = DOMAIN G \cup {n, n + 1}
      /\ H[g] = WithKids(R[g], {n, n + 1})
      /\ \A x \in DOMAIN G \ {g} : H[x] = R[x]
  BY <1>3 DEF SplitOf
<1> HIDE DEF R
<1>7. R[g] \in Goals
  BY <1>5 DEF Typed
<1>8. H[g].hist = R[g].hist
  <2>1. {n, n + 1} \in SUBSET Nat
    BY <1>1
  <2> QED
    BY <2>1, <1>6, <1>7, WithKidsIs
<1>9. \A x \in DOMAIN G : H[x].hist = G[x].hist
  BY <1>5, <1>6, <1>8
<1>10. L \in Logs(DOMAIN H)
  BY <1>1, <1>6 DEF Logs
<1>11. n + 2 \in Nat /\ \A x \in DOMAIN H : x < n + 2
  BY <1>1, <1>6
<1> QED
  BY <1>4, <1>6, <1>9, <1>10, <1>11 DEF Good, H, TwoMore

-----------------------------------------------------------------------------
(* The actions.                                                            *)

USE DEF Sides

\* An action that only lands a good tree, with the open transaction's side as it was.
LEMMA TreeInvKept ==
  ASSUME TreeInv, Good(tree', log', nextGoal'), broken' \in BOOLEAN, SameQuestion,
         txn' = NoTxn \/ (txn' = txn /\ Same(tree, tree', txn.gid, txn.side))
  PROVE  TreeInv' /\ SameQuestion
<1>1. TxnOn(txn, tree)
  BY DEF TreeInv
<1>2. CASE txn' = NoTxn
  BY <1>2 DEF TreeInv, TxnOn
<1>3. CASE txn' = txn /\ Same(tree, tree', txn.gid, txn.side)
  <2>1. TxnOn(txn, tree')
    BY <1>1, <1>3, SameTxn
  <2> QED
    BY <2>1, <1>3 DEF TreeInv, TxnOn
<1> QED
  BY <1>2, <1>3

LEMMA MovedSame ==
  ASSUME NEW G, NEW H, NEW g, NEW side, NEW k, Typed(G), g \in DOMAIN G,
         Moved(G, H, g, [G[g].hist EXCEPT ![side] = k]),
         NEW x \in DOMAIN G, NEW s \in Sides, x # g \/ s # side
  PROVE  Same(G, H, x, s)
BY SMTT(40) DEF Moved, SameGoals, Same, Typed, Goals

\* A step, with what the eager check makes of it.
LEMMA LandStepGood ==
  ASSUME TreeInv, NEW g \in DOMAIN tree, NEW side \in Sides, NEW to \in Programs,
         LandStep(g, side, to)
  PROVE  /\ Good(tree', log', nextGoal)
         /\ \A x \in DOMAIN tree, s \in Sides : x # g \/ s # side => Same(tree, tree', x, s)
         /\ SameQuestion
<1> DEFINE G == Stepped(tree, g, side, to)
           k == Append(tree[g].hist[side], to)
<1>1. Good(tree, log, nextGoal) /\ Typed(tree)
  BY DEF TreeInv, Good, Sound
<1>2. Moved(tree, G, g, [tree[g].hist EXCEPT ![side] = k])
  BY <1>1, SteppedIs
<1>3. PICK r \in ThenEager(G, log, g) : tree' = r.tree /\ log' = r.log
  BY DEF LandStep, Land
<1> HIDE DEF G, k
<1>4. Good(G, log, nextGoal) /\ DOMAIN G = DOMAIN tree
  BY <1>1, <1>2, MovedGood
<1>5. /\ Good(r.tree, r.log, nextGoal)
      /\ DOMAIN r.tree = DOMAIN G
      /\ \A x \in DOMAIN G : r.tree[x].hist = G[x].hist
  BY <1>4, EagerGood
<1>6. \A x \in DOMAIN tree, s \in Sides : x # g \/ s # side => Same(tree, G, x, s)
  BY <1>1, <1>2, MovedSame
<1>7. \A s \in Sides : FirstOf(G, Root, s) = FirstOf(tree, Root, s)
  <2>1. k # <<>> /\ k[1] = tree[g].hist[side][1]
    <3>1. tree[g].hist[side] \in Seq(Programs) /\ tree[g].hist[side] # <<>>
      BY <1>1 DEF Typed, Goals
    <3> QED
      BY <3>1 DEF k
  <2>2. G[g].hist[side] = k
    BY <1>1, <1>2 DEF Moved, Typed, Goals
  <2> QED
    BY <1>1, <1>6, <2>1, <2>2 DEF Same, FirstOf, Typed
<1>8. Root \in DOMAIN tree
  BY <1>1 DEF Typed
<1> QED
  BY <1>3, <1>4, <1>5, <1>6, <1>7, <1>8 DEF Same, SameQuestion, FirstOf

LEMMA RevertKeeps ==
  ASSUME TreeInv, NEW g \in DOMAIN tree, NEW side \in Sides, NEW to \in Programs,
         Revert(g, side, to)
  PROVE  TreeInv' /\ SameQuestion
<1> DEFINE h == tree[g].hist[side]
           k == SubSeq(h, 1, LastIndexOf(h, to))
<1>1. /\ Good(tree, log, nextGoal) /\ Typed(tree) /\ TxnOn(txn, tree)
      /\ ~ IsEditingSide(g, side) /\ Holds(h, to)
      /\ tree' = Reverted(tree, g, side, to)
      /\ UNCHANGED <<nextGoal, txn, log, broken>>
  BY DEF TreeInv, Good, Sound, Revert
<1>2. Moved(tree, tree', g, [tree[g].hist EXCEPT ![side] = k])
  BY <1>1, RevertedIs
<1> HIDE DEF k
<1>3. Good(tree', log, nextGoal)
  BY <1>1, <1>2, MovedGood
<1>4. txn = NoTxn \/ Same(tree, tree', txn.gid, txn.side)
  <2> SUFFICES ASSUME txn # NoTxn PROVE Same(tree, tree', txn.gid, txn.side)
    OBVIOUS
  <2>1. txn.gid \in DOMAIN tree /\ txn.side \in Sides
    BY <1>1 DEF TxnOn, Txns
  <2>2. txn.gid # g \/ txn.side # side
    BY <1>1 DEF IsEditingSide
  <2> QED
    BY <2>1, <2>2, <1>1, <1>2, MovedSame
<1>5. broken' \in BOOLEAN
  BY <1>1 DEF TreeInv
<1>6. SameQuestion
  <2>1. tree'[g].hist[side] = k
    BY <1>1, <1>2 DEF Moved, Typed, Goals
  <2>2. h \in Seq(Programs) /\ LastIndexOf(h, to) \in 1..Len(h)
    <3>1. h \in Seq(Programs)
      BY <1>1 DEF Typed, Goals
    <3> HIDE DEF h
    <3> QED
      BY <1>1, <3>1, LastIndexOfIs
  <2>3. k[1] = h[1]
    <3> HIDE DEF h
    <3> QED
      BY <2>2 DEF k
  <2>4. \A s \in Sides : Root # g \/ s # side => Same(tree, tree', Root, s)
    BY <1>1, <1>2, MovedSame DEF Typed
  <2> QED
    BY <2>1, <2>3, <2>4 DEF Same, SameQuestion, FirstOf
<1> QED
  BY <1>1, <1>3, <1>4, <1>5, <1>6, TreeInvKept

\* The open transaction's side is as it was, when the step is of another.
LEMMA StepKeeps ==
  ASSUME TreeInv, NEW g \in DOMAIN tree, NEW side \in Sides, NEW to \in Programs,
         ~ IsEditingSide(g, side), LandStep(g, side, to), UNCHANGED <<nextGoal, txn, broken>>
  PROVE  TreeInv' /\ SameQuestion
<1>1. /\ Good(tree', log', nextGoal')
      /\ \A x \in DOMAIN tree, s \in Sides : x # g \/ s # side => Same(tree, tree', x, s)
      /\ SameQuestion
  BY LandStepGood
<1>2. TxnOn(txn, tree) /\ broken' \in BOOLEAN
  BY DEF TreeInv
<1>3. txn = NoTxn \/ Same(tree, tree', txn.gid, txn.side)
  BY <1>1, <1>2 DEF TxnOn, Txns, IsEditingSide
<1>4. txn' = NoTxn \/ (txn' = txn /\ Same(tree, tree', txn.gid, txn.side))
  BY <1>3
<1> QED
  BY <1>1, <1>2, <1>4, TreeInvKept

LEMMA RewriteKeeps ==
  ASSUME TreeInv, NEW g \in DOMAIN tree, NEW to \in Programs, Rewrite(g, to)
  PROVE  TreeInv' /\ SameQuestion
BY StepKeeps DEF Rewrite

LEMMA UnfoldKeeps ==
  ASSUME TreeInv, NEW g \in DOMAIN tree, NEW side \in Sides, NEW to \in Programs,
         Unfold(g, side, to)
  PROVE  TreeInv' /\ SameQuestion
BY StepKeeps DEF Unfold

LEMMA TransactionKeeps ==
  ASSUME TreeInv,
         \/ \E g \in DOMAIN tree, side \in Sides : Begin(g, side)
         \/ \E text \in Scratches : Edit(text)
         \/ \E immAbort \in BOOLEAN : CommitRefused(immAbort)
         \/ CommitCertified
         \/ Abort
         \/ Resume
  PROVE  TreeInv' /\ SameQuestion
<1>1. /\ Good(tree, log, nextGoal) /\ Typed(tree) /\ DOMAIN tree \subseteq Nat \ {NoGoal}
      /\ TxnOn(txn, tree) /\ broken \in BOOLEAN
  BY DEF TreeInv, Good, Sound, Typed
<1>2. ASSUME NEW g \in DOMAIN tree, NEW side \in Sides, Begin(g, side)
      PROVE  TreeInv' /\ SameQuestion
  <2>1. HeadOf(tree, g, side) \in Programs
    BY <1>1, HeadIs
  <2>2. TxnOn(txn', tree)
    BY <2>1, <1>1, <1>2 DEF Begin, TxnOn, Txns
  <2> QED
    BY <2>2, <1>1, <1>2 DEF Begin, TreeInv, TxnOn, SameQuestion
<1>3. ASSUME NEW text \in Scratches, Edit(text)
      PROVE  TreeInv' /\ SameQuestion
  <2>1. TxnOn(txn', tree)
    BY <1>1, <1>3, InputsArePrograms DEF Edit, TxnOn, Txns
  <2> QED
    BY <2>1, <1>1, <1>3 DEF Edit, TreeInv, TxnOn, SameQuestion
<1>4. ASSUME NEW immAbort \in BOOLEAN, CommitRefused(immAbort)
      PROVE  TreeInv' /\ SameQuestion
  BY <1>1, <1>4 DEF CommitRefused, TreeInv, TxnOn, SameQuestion
<1>5. ASSUME CommitCertified
      PROVE  TreeInv' /\ SameQuestion
  <2>1. /\ txn \in Txns /\ txn.gid \in DOMAIN tree
        /\ LandStep(txn.gid, txn.side, txn.text)
        /\ txn' = NoTxn /\ UNCHANGED <<nextGoal, broken>>
    BY <1>1, <1>5 DEF CommitCertified, TxnOn
  <2>2. txn.side \in Sides /\ txn.text \in Programs
    BY <2>1 DEF Txns
  <2>3. Good(tree', log', nextGoal) /\ SameQuestion
    BY <2>1, <2>2, LandStepGood
  <2> QED
    BY <2>1, <2>3, <1>1, TreeInvKept
<1>6. ASSUME Abort \/ Resume
      PROVE  TreeInv' /\ SameQuestion
  BY <1>1, <1>6 DEF Abort, Resume, TreeInv, TxnOn, SameQuestion
<1> QED
  BY <1>2, <1>3, <1>4, <1>5, <1>6

-----------------------------------------------------------------------------
(* Splits, and undoing them.                                               *)

\* Each of the three splits is of two new goals that pair.
LEMMA NewPairGood ==
  ASSUME NEW G, NEW g \in DOMAIN G, NEW L, NEW n, Good(G, L, n),
         NEW a, NEW b, NEW cut \in CutKinds,
         <<a, b>> \in RolePairs,
         NEW p \in Programs, NEW q \in Programs, NEW u \in Programs, NEW v \in Programs
  PROVE  TwoMore(G, Split(G, g, n, NewGoal(g, a, cut, p, q), NewGoal(g, b, cut, u, v)), L, n)
<1> DEFINE first == NewGoal(g, a, cut, p, q)
           second == NewGoal(g, b, cut, u, v)
<1>1. a \in Roles /\ b \in Roles /\ g \in Nat
  BY DEF Roles, RolePairs, Good, Sound, Typed
<1>2. /\ first \in Goals
      /\ first.parent = g /\ first.role = a /\ first.status = "open" /\ first.children = {}
      /\ \A s \in Sides : first.hist[s] # <<>>
  BY <1>1, NewGoalIs
<1>3. /\ second \in Goals
      /\ second.parent = g /\ second.role = b /\ second.status = "open" /\ second.children = {}
      /\ \A s \in Sides : second.hist[s] # <<>>
  BY <1>1, NewGoalIs
<1> HIDE DEF first, second
<1>4. \A k \in {first, second} :
        /\ k.parent = g /\ k.children = {} /\ k.status = "open"
        /\ \A s \in Sides : k.hist[s] # <<>>
  BY <1>2, <1>3
<1>5. <<first.role, second.role>> \in RolePairs
  BY <1>2, <1>3
<1>6. TwoMore(G, Split(G, g, n, first, second), L, n)
  BY <1>2, <1>3, <1>4, <1>5, SplitGood
<1> QED
  BY <1>6 DEF first, second

\* An action that lands a good tree and leaves every history as it was.
LEMMA HistoriesKept ==
  ASSUME TreeInv, Good(tree', log', nextGoal'), broken' \in BOOLEAN, txn' \in {txn, NoTxn},
         \A x \in DOMAIN tree : x \in DOMAIN tree' /\ tree'[x].hist = tree[x].hist
  PROVE  TreeInv' /\ SameQuestion
<1>1. TxnOn(txn, tree)
  BY DEF TreeInv
<1>2. txn = NoTxn \/ Same(tree, tree', txn.gid, txn.side)
  BY <1>1 DEF TxnOn, Same
<1>3. txn' = NoTxn \/ (txn' = txn /\ Same(tree, tree', txn.gid, txn.side))
  BY <1>2
<1>4. SameQuestion
  BY DEF SameQuestion, FirstOf, TreeInv, Good, Sound, Typed
<1> QED
  BY <1>3, <1>4, TreeInvKept

LEMMA CutKeeps ==
  ASSUME TreeInv, NEW g \in DOMAIN tree, Cut(g)
  PROVE  TreeInv' /\ SameQuestion
<1>1. Good(tree, log, nextGoal) /\ broken \in BOOLEAN
  BY DEF TreeInv
<1>2. PICK os \in Programs, ot \in Programs, cs \in Programs, ct \in Programs,
           kind \in {"plain", "loop"} :
        tree' = CutIn(tree, g, nextGoal, kind, os, ot, cs, ct)
  BY DEF Cut
<1>3. nextGoal' = nextGoal + 2 /\ UNCHANGED <<txn, log, broken>>
  BY DEF Cut
<1>4. TwoMore(tree, tree', log, nextGoal)
  BY <1>1, <1>2, NewPairGood DEF CutIn, CutKinds, RolePairs
<1> QED
  BY <1>1, <1>3, <1>4, HistoriesKept DEF TwoMore

LEMMA CutAloneKeeps ==
  ASSUME TreeInv, NEW g \in DOMAIN tree, CutAlone(g)
  PROVE  TreeInv' /\ SameQuestion
<1>1. Good(tree, log, nextGoal) /\ broken \in BOOLEAN /\ Typed(tree)
  BY DEF TreeInv, Good, Sound
<1>2. PICK os \in Programs, body \in Programs :
        LET G == CutIn(tree, g, nextGoal, "alone", os, HeadOf(tree, g, "tgt"), body, body)
        IN  tree' = Proved(G, nextGoal + 1) /\ log' = WithProof(G, log, nextGoal + 1)
  BY DEF CutAlone, Land
<1>3. nextGoal' = nextGoal + 2 /\ UNCHANGED <<txn, broken>>
  BY DEF CutAlone
<1> DEFINE G == CutIn(tree, g, nextGoal, "alone", os, HeadOf(tree, g, "tgt"), body, body)
<1>4. tree' = Proved(G, nextGoal + 1) /\ log' = WithProof(G, log, nextGoal + 1)
  BY <1>2
<1>5. HeadOf(tree, g, "tgt") \in Programs
  BY <1>1, HeadIs
<1>6. TwoMore(tree, G, log, nextGoal)
  BY <1>1, <1>5, NewPairGood DEF CutIn, CutKinds, RolePairs
<1> HIDE DEF G
<1>7. /\ Good(tree', log', nextGoal + 2)
      /\ DOMAIN tree' = DOMAIN G
      /\ \A x \in DOMAIN G : tree'[x].hist = G[x].hist
  BY <1>4, <1>6, ProvedGood DEF TwoMore
<1> QED
  BY <1>1, <1>3, <1>6, <1>7, HistoriesKept DEF TwoMore

LEMMA InterposeKeeps ==
  ASSUME TreeInv, NEW g \in DOMAIN tree,
         (\E p \in Programs : InterposeProgram(g, p)) \/ InterposeScratch(g)
  PROVE  TreeInv' /\ SameQuestion
<1>1. Good(tree, log, nextGoal) /\ broken \in BOOLEAN /\ Typed(tree) /\ TxnOn(txn, tree)
  BY DEF TreeInv, Good, Sound
<1>2. PICK p \in Programs : InterposeAt(g, p) /\ txn' \in {txn, NoTxn}
  <2>1. CASE \E p \in Programs : InterposeProgram(g, p)
    BY <2>1 DEF InterposeProgram
  <2>2. CASE InterposeScratch(g)
    <3>1. g # NoGoal
      BY <1>1 DEF Typed
    <3>2. txn.gid = g
      BY <2>2 DEF InterposeScratch, IsEditing
    <3>3. txn # NoTxn
      BY <3>1, <3>2 DEF NoTxn
    <3>4. txn.text \in Programs
      BY <3>3, <1>1 DEF TxnOn, Txns
    <3> QED
      BY <3>4, <2>2 DEF InterposeScratch
  <2> QED
    BY <2>1, <2>2
<1>3. /\ tree' = InterposedAt(tree, g, nextGoal, p)
      /\ nextGoal' = nextGoal + 2 /\ UNCHANGED <<log, broken>>
  BY <1>2 DEF InterposeAt
<1>4. HeadOf(tree, g, "src") \in Programs /\ HeadOf(tree, g, "tgt") \in Programs
  BY <1>1, HeadIs
<1>5. TwoMore(tree, tree', log, nextGoal)
  BY <1>1, <1>3, <1>4, NewPairGood DEF InterposedAt, CutKinds, RolePairs
<1> QED
  BY <1>1, <1>2, <1>3, <1>5, HistoriesKept DEF TwoMore

LEMMA CaseKeeps ==
  ASSUME TreeInv, NEW g \in DOMAIN tree, Case(g)
  PROVE  TreeInv' /\ SameQuestion
<1>1. Good(tree, log, nextGoal) /\ broken \in BOOLEAN
  BY DEF TreeInv
<1>2. PICK hs \in Programs, ht \in Programs, fs \in Programs, ft \in Programs :
        tree' = CasedIn(tree, g, nextGoal, hs, ht, fs, ft)
  BY DEF Case
<1>3. nextGoal' = nextGoal + 2 /\ UNCHANGED <<txn, log, broken>>
  BY DEF Case
<1>4. TwoMore(tree, tree', log, nextGoal)
  BY <1>1, <1>2, NewPairGood DEF CasedIn, CutKinds, RolePairs
<1> QED
  BY <1>1, <1>3, <1>4, HistoriesKept DEF TwoMore

\* No goal that is edited is among those an undo discards.
LEMMA UnsplitKeeps ==
  ASSUME TreeInv, NEW g \in DOMAIN tree, tree[g].status = "split", ~ IsEditingBelow(g),
         tree' = Unsplit(tree, g), log' = Pruned(tree', log), UNCHANGED <<nextGoal, txn, broken>>
  PROVE  TreeInv' /\ SameQuestion
<1>1. Good(tree, log, nextGoal) /\ broken \in BOOLEAN /\ TxnOn(txn, tree)
  BY DEF TreeInv
<1>2. /\ Good(tree', log', nextGoal)
      /\ \A x \in DOMAIN tree \ Below(tree, g) : x \in DOMAIN tree' /\ tree'[x].hist = tree[x].hist
  BY <1>1, UnsplitGood
<1>3. txn = NoTxn \/ Same(tree, tree', txn.gid, txn.side)
  BY <1>1, <1>2 DEF TxnOn, IsEditingBelow, Same
<1>4. txn' = NoTxn \/ (txn' = txn /\ Same(tree, tree', txn.gid, txn.side))
  BY <1>3
<1>5. SameQuestion
  <2>1. Root \in DOMAIN tree /\ Root \notin Below(tree, g)
    BY <1>1, BelowYounger DEF Good, Sound, Typed
  <2> QED
    BY <1>2, <2>1 DEF SameQuestion, FirstOf
<1> QED
  BY <1>1, <1>2, <1>4, <1>5, TreeInvKept

LEMMA UndoKeeps ==
  ASSUME TreeInv, NEW g \in DOMAIN tree, Uncut(g) \/ Uninterpose(g) \/ Uncase(g)
  PROVE  TreeInv' /\ SameQuestion
<1>1. CASE Uncut(g)
  BY <1>1, UnsplitKeeps DEF Uncut, CanUncut
<1>2. CASE \E folds \in BOOLEAN :
             /\ LandUnsplit(g, folds) /\ ~ IsEditingBelow(g)
             /\ folds => tree[g].status = "split"
  <2>1. PICK folds \in BOOLEAN :
          /\ LandUnsplit(g, folds) /\ ~ IsEditingBelow(g)
          /\ folds => tree[g].status = "split"
    BY <1>2
  <2>2. CASE folds
    BY <2>1, <2>2, UnsplitKeeps DEF LandUnsplit
  <2>3. CASE ~ folds
    <3>1. UNCHANGED <<tree, log, nextGoal, txn>> /\ broken' = TRUE
      BY <2>1, <2>3 DEF LandUnsplit
    <3> QED
      BY <3>1 DEF TreeInv, TxnOn, SameQuestion
  <2> QED
    BY <2>1, <2>2, <2>3
<1>3. CanUninterpose(tree, g) \in BOOLEAN /\ CanUncase(tree, g) \in BOOLEAN
  BY DEF CanUninterpose, CanUncase
<1>4. CASE Uninterpose(g)
  BY <1>2, <1>3, <1>4 DEF Uninterpose, CanUninterpose
<1>5. CASE Uncase(g)
  BY <1>2, <1>3, <1>5 DEF Uncase, CanUncase
<1> QED
  BY <1>1, <1>4, <1>5

-----------------------------------------------------------------------------
(* Strengthening.                                                          *)

\* H is a good tree that differs from T, of what T holds, at the two halves o and c only.
Onward(T, H, L, n, o, c) ==
  /\ Good(H, L, n)
  /\ DOMAIN T \subseteq DOMAIN H
  /\ \A x \in DOMAIN T \ {o, c} : H[x].hist = T[x].hist

\* The two halves of a cut are there.
LEMMA HalvesAre ==
  ASSUME TreeInv, NEW g \in DOMAIN tree, CanStrengthen(g)
  PROVE  /\ Outer(g) \in tree[g].children /\ Outer(g) \in DOMAIN tree
         /\ Callee(g) \in tree[g].children /\ Callee(g) \in DOMAIN tree
         /\ tree[Outer(g)].role = "outer" /\ tree[Callee(g)].role = "callee"
<1>1. /\ Linked(tree) /\ Paired(tree) /\ DOMAIN tree \subseteq Nat
      /\ tree[g].children # {} /\ ~ Interposed(tree, g) /\ ~ Cased(tree, g)
  BY DEF TreeInv, Good, Sound, Typed, CanStrengthen
<1>2. HasRole(tree, g, "outer") /\ HasRole(tree, g, "callee")
  BY <1>1 DEF Paired
<1>3. tree[g].children \subseteq DOMAIN tree
  BY <1>1 DEF Linked
<1>4. ASSUME NEW role, HasRole(tree, g, role)
      PROVE  Child(tree, g, role) \in tree[g].children /\ tree[Child(tree, g, role)].role = role
  <2> DEFINE T == {c \in tree[g].children : tree[c].role = role}
  <2>1. T \subseteq Nat /\ T # {}
    BY <1>1, <1>3, <1>4 DEF HasRole
  <2>2. PICK c \in T : \A d \in T : c <= d
    <3> HIDE DEF T
    <3> QED
      BY <2>1, NatMin
  <2>3. \E e \in tree[g].children :
          tree[e].role = role /\ \A d \in tree[g].children : tree[d].role = role => e <= d
    BY <2>2
  <2> QED
    BY <2>3 DEF Child
<1> QED
  BY <1>2, <1>3, <1>4 DEF Outer, Callee

LEMMA OnwardStep ==
  ASSUME NEW T, NEW G, NEW L, NEW n, NEW o, NEW c, Onward(T, G, L, n, o, c),
         NEW x \in DOMAIN T, x = o \/ x = c, NEW side \in Sides, NEW to \in Programs
  PROVE  Onward(T, Stepped(G, x, side, to), L, n, o, c)
<1> DEFINE H == Stepped(G, x, side, to)
           hist == [G[x].hist EXCEPT ![side] = Append(G[x].hist[side], to)]
<1>1. x \in DOMAIN G /\ Typed(G) /\ Good(G, L, n) /\ DOMAIN T \subseteq DOMAIN G
  BY DEF Onward, Good, Sound
<1>2. Moved(G, H, x, hist)
  BY <1>1, SteppedIs
<1> HIDE DEF H, hist
<1>3. Good(H, L, n) /\ DOMAIN H = DOMAIN G
  BY <1>1, <1>2, MovedGood
<1>4. \A y \in DOMAIN T \ {o, c} : H[y].hist = T[y].hist
  BY <1>1, <1>2 DEF Moved, Onward
<1> QED
  BY <1>1, <1>3, <1>4 DEF Onward, H

LEMMA OnwardEager ==
  ASSUME NEW T, NEW G, NEW L, NEW n, NEW o, NEW c, Onward(T, G, L, n, o, c),
         NEW x \in DOMAIN T,
         NEW r, r = [tree |-> G, log |-> L] \/ r \in ThenEager(G, L, x)
  PROVE  Onward(T, r.tree, r.log, n, o, c)
<1>1. x \in DOMAIN G /\ Good(G, L, n) /\ DOMAIN T \subseteq DOMAIN G
  BY DEF Onward
<1>2. CASE r = [tree |-> G, log |-> L]
  BY <1>2
<1>3. CASE r \in ThenEager(G, L, x)
  <2>1. /\ Good(r.tree, r.log, n)
        /\ DOMAIN r.tree = DOMAIN G
        /\ \A y \in DOMAIN G : r.tree[y].hist = G[y].hist
    BY <1>1, <1>3, EagerGood
  <2> QED
    BY <1>1, <2>1 DEF Onward
<1> QED
  BY <1>2, <1>3

\* What a strengthen records is of the two halves.
LEMMA RecordedIs ==
  ASSUME TreeInv, NEW g \in DOMAIN tree, CanStrengthen(g),
         NEW outer \in SUBSET (Sides \X Programs), NEW callee \in SUBSET (Sides \X Programs),
         NEW ids, DOMAIN tree \subseteq ids,
         NEW by \in SUBSET ({Outer(g), Callee(g)} \X Programs), NEW keeps \in SUBSET ids
  PROVE  /\ Recorded(g, outer, callee, by, keeps) \in Logs(ids)
         /\ Recorded(g, outer, callee, by, keeps).shown = log.shown
<1>1. log \in Logs(DOMAIN tree) /\ Outer(g) \in ids /\ Callee(g) \in ids
  BY HalvesAre DEF TreeInv, Good
<1>2. /\ {<<Outer(g), e[1], e[2]>> : e \in outer} \in SUBSET (ids \X Sides \X Programs)
      /\ {<<Callee(g), e[1], e[2]>> : e \in callee} \in SUBSET (ids \X Sides \X Programs)
  BY <1>1
<1>3. by \in SUBSET (ids \X Programs)
  BY <1>1
<1>4. log \in Logs(ids)
  BY <1>1 DEF Logs
<1> QED
  BY <1>2, <1>3, <1>4 DEF Recorded, Logs

\* The halves are moved, what is recorded is of goals that are there, and then both are checked.
LEMMA LandContractKeeps ==
  ASSUME TreeInv, NEW g \in DOMAIN tree, CanStrengthen(g), NEW G, NEW L,
         Onward(tree, G, log, nextGoal', Outer(g), Callee(g)),
         L \in Logs(DOMAIN G), L.shown = log.shown, LandContract(g, G, L)
  PROVE  TreeInv' /\ SameQuestion
<1> DEFINE o == Outer(g)
           c == Callee(g)
<1>1. o \in DOMAIN tree /\ c \in DOMAIN tree /\ o \in tree[g].children /\ c \in tree[g].children
  BY HalvesAre
<1>2. Onward(tree, G, L, nextGoal', o, c)
  BY RecordedGood DEF Onward
<1>3. PICK r, q :
        /\ r = [tree |-> G, log |-> L] \/ r \in ThenEager(G, L, c)
        /\ q = r \/ q \in ThenEager(r.tree, r.log, o)
        /\ tree' = q.tree /\ log' = q.log
  BY DEF LandContract, Land
<1>4. UNCHANGED <<txn, broken>>
  BY DEF LandContract
<1>5. Onward(tree, r.tree, r.log, nextGoal', o, c)
  BY <1>1, <1>2, <1>3, OnwardEager
<1>6. Onward(tree, tree', log', nextGoal', o, c)
  <2>1. CASE q = r
    BY <2>1, <1>3, <1>5
  <2>2. CASE q \in ThenEager(r.tree, r.log, o)
    <3>1. Onward(tree, q.tree, q.log, nextGoal', o, c)
      BY <2>2, <1>1, <1>5, OnwardEager
    <3> QED
      BY <3>1, <1>3
  <2> QED
    BY <2>1, <2>2, <1>3
<1>7. TxnOn(txn, tree) /\ broken \in BOOLEAN
  BY DEF TreeInv
<1>8. txn.gid # o /\ txn.gid # c
  BY <1>1 DEF CanStrengthen, IsEditing
<1> HIDE DEF o, c
<1>9. txn = NoTxn \/ Same(tree, tree', txn.gid, txn.side)
  BY <1>6, <1>7, <1>8 DEF TxnOn, Onward, Same
<1>10. Good(tree', log', nextGoal')
  BY <1>6 DEF Onward
<1>11. txn' = NoTxn \/ (txn' = txn /\ Same(tree, tree', txn.gid, txn.side))
  BY <1>4, <1>9
<1>12. Root \in DOMAIN tree /\ Root # o /\ Root # c
  <2>1. Root \in DOMAIN tree /\ Linked(tree) /\ g # NoGoal
    BY DEF TreeInv, Good, Sound, Typed
  <2> QED
    BY <1>1, <2>1 DEF Linked, o, c
<1>13. SameQuestion
  BY <1>6, <1>12 DEF Onward, SameQuestion, FirstOf
<1> QED
  BY <1>4, <1>7, <1>10, <1>11, <1>13, TreeInvKept

\* The steps of the halves, in the order a strengthen makes them.
LEMMA OnwardOuter ==
  ASSUME TreeInv, NEW g \in DOMAIN tree, CanStrengthen(g),
         NEW os \in Programs, NEW fs \in Programs, NEW ot \in Programs
  PROVE  Onward(tree, OnOuter(g, os, fs, ot), log, nextGoal, Outer(g), Callee(g))
<1> DEFINE o == Outer(g)
           c == Callee(g)
           F == Stepped(tree, o, "src", os)
           B == IF fs = os THEN F ELSE Stepped(F, o, "src", fs)
<1>1. o \in DOMAIN tree
  BY HalvesAre
<1>2. Onward(tree, tree, log, nextGoal, o, c)
  BY DEF Onward, TreeInv
<1> HIDE DEF o, c
<1>3. Onward(tree, F, log, nextGoal, o, c)
  BY <1>1, <1>2, OnwardStep
<1> HIDE DEF F
<1>4. Onward(tree, B, log, nextGoal, o, c)
  <2>1. Onward(tree, Stepped(F, o, "src", fs), log, nextGoal, o, c)
    BY <1>1, <1>3, OnwardStep
  <2> QED
    BY <2>1, <1>3
<1>5. OnOuter(g, os, fs, ot) = Stepped(B, o, "tgt", ot)
  BY DEF OnOuter, F, o
<1> HIDE DEF B
<1>6. Onward(tree, Stepped(B, o, "tgt", ot), log, nextGoal, o, c)
  BY <1>1, <1>4, OnwardStep
<1> QED
  BY <1>5, <1>6 DEF o, c

LEMMA OnwardBoth ==
  ASSUME NEW T, NEW G, NEW L, NEW n, NEW o, NEW c, Onward(T, G, L, n, o, c),
         NEW x \in DOMAIN T, x = o \/ x = c, NEW src \in Programs, NEW tgt \in Programs
  PROVE  Onward(T, Strengthened(G, x, src, tgt), L, n, o, c)
<1> DEFINE M == Stepped(G, x, "src", src)
<1>1. Onward(T, M, L, n, o, c)
  BY OnwardStep
<1>2. Strengthened(G, x, src, tgt) = Stepped(M, x, "tgt", tgt)
  BY DEF Strengthened
<1> HIDE DEF M
<1>3. Onward(T, Stepped(M, x, "tgt", tgt), L, n, o, c)
  BY <1>1, OnwardStep
<1> QED
  BY <1>2, <1>3

LEMMA StrengthenKeeps ==
  ASSUME TreeInv, NEW g \in DOMAIN tree, Strengthen(g)
  PROVE  TreeInv' /\ SameQuestion
<1>1. CanStrengthen(g) /\ nextGoal' = nextGoal
  BY DEF Strengthen
<1>2. PICK os \in Programs, fs \in Programs, ot \in Programs,
           cs \in Programs, ct \in Programs, entry \in BOOLEAN :
        LandContract(g, Strengthened(OnOuter(g, os, fs, ot), Callee(g), cs, ct),
          Recorded(g, {<<"src", os>>, <<"src", fs>>, <<"tgt", ot>>}, {<<"src", cs>>, <<"tgt", ct>>},
                   IF entry THEN {<<Outer(g), os>>} ELSE {}, {}))
  BY ZenonT(60) DEF Strengthen
<1> DEFINE G == Strengthened(OnOuter(g, os, fs, ot), Callee(g), cs, ct)
           outer == {<<"src", os>>, <<"src", fs>>, <<"tgt", ot>>}
           callee == {<<"src", cs>>, <<"tgt", ct>>}
           by == IF entry THEN {<<Outer(g), os>>} ELSE {}
           L == Recorded(g, outer, callee, by, {})
<1>3. Callee(g) \in DOMAIN tree
  BY <1>1, HalvesAre
<1>4. Onward(tree, OnOuter(g, os, fs, ot), log, nextGoal, Outer(g), Callee(g))
  BY <1>1, OnwardOuter
<1>5. Onward(tree, G, log, nextGoal, Outer(g), Callee(g))
  BY <1>3, <1>4, OnwardBoth
<1>6. LandContract(g, G, L)
  BY <1>2
<1>7. /\ outer \in SUBSET (Sides \X Programs) /\ callee \in SUBSET (Sides \X Programs)
      /\ by \in SUBSET ({Outer(g), Callee(g)} \X Programs)
  OBVIOUS
<1> HIDE DEF G, outer, callee, by
<1>8. DOMAIN tree \subseteq DOMAIN G
  BY <1>5 DEF Onward
<1>9. L \in Logs(DOMAIN G) /\ L.shown = log.shown
  BY <1>1, <1>7, <1>8, RecordedIs
<1> QED
  BY <1>1, <1>5, <1>6, <1>9, LandContractKeeps

LEMMA StrengthenLoopKeeps ==
  ASSUME TreeInv, NEW g \in DOMAIN tree, StrengthenLoop(g)
  PROVE  TreeInv' /\ SameQuestion
<1>1. CanStrengthen(g) /\ nextGoal' = nextGoal
  BY DEF StrengthenLoop
<1>2. PICK os \in Programs, ot \in Programs, cs \in Programs, ct \in Programs, kept \in Programs :
        LandContract(g,
          Stepped(Strengthened(OnOuter(g, os, os, ot), Callee(g), cs, ct), Callee(g), "src", kept),
          Recorded(g, {<<"src", os>>, <<"tgt", ot>>}, {<<"src", cs>>, <<"src", kept>>, <<"tgt", ct>>},
                   {<<Outer(g), os>>, <<Callee(g), kept>>}, {}))
  BY DEF StrengthenLoop
<1> DEFINE on == Strengthened(OnOuter(g, os, os, ot), Callee(g), cs, ct)
           G == Stepped(on, Callee(g), "src", kept)
           outer == {<<"src", os>>, <<"tgt", ot>>}
           callee == {<<"src", cs>>, <<"src", kept>>, <<"tgt", ct>>}
           by == {<<Outer(g), os>>, <<Callee(g), kept>>}
           L == Recorded(g, outer, callee, by, {})
<1>3. Callee(g) \in DOMAIN tree
  BY <1>1, HalvesAre
<1>4. Onward(tree, OnOuter(g, os, os, ot), log, nextGoal, Outer(g), Callee(g))
  BY <1>1, OnwardOuter
<1>5. Onward(tree, on, log, nextGoal, Outer(g), Callee(g))
  BY <1>3, <1>4, OnwardBoth
<1>6. LandContract(g, G, L)
  BY <1>2
<1>7. /\ outer \in SUBSET (Sides \X Programs) /\ callee \in SUBSET (Sides \X Programs)
      /\ by \in SUBSET ({Outer(g), Callee(g)} \X Programs)
  OBVIOUS
<1> HIDE DEF on, outer, callee, by
<1>8. Onward(tree, G, log, nextGoal, Outer(g), Callee(g))
  BY <1>3, <1>5, OnwardStep
<1> HIDE DEF G
<1>9. DOMAIN tree \subseteq DOMAIN G
  BY <1>8 DEF Onward
<1>10. L \in Logs(DOMAIN G) /\ L.shown = log.shown
  BY <1>1, <1>7, <1>9, RecordedIs
<1> QED
  BY <1>1, <1>6, <1>8, <1>10, LandContractKeeps

LEMMA StrengthenNestedKeeps ==
  ASSUME TreeInv, NEW g \in DOMAIN tree, StrengthenNested(g)
  PROVE  TreeInv' /\ SameQuestion
<1>1. CanStrengthen(g) /\ nextGoal' = nextGoal + 2
  BY DEF StrengthenNested
<1>2. PICK os \in Programs, ot \in Programs, cs \in Programs, ct \in Programs, kept \in Programs :
        LandContract(g,
          InterposedAt(Strengthened(OnOuter(g, os, os, ot), Callee(g), cs, ct), Callee(g), nextGoal, kept),
          Recorded(g, {<<"src", os>>, <<"tgt", ot>>}, {<<"src", cs>>, <<"tgt", ct>>},
                   {<<Outer(g), os>>, <<Callee(g), kept>>}, {nextGoal}))
  BY DEF StrengthenNested
<1> DEFINE on == Strengthened(OnOuter(g, os, os, ot), Callee(g), cs, ct)
           G == InterposedAt(on, Callee(g), nextGoal, kept)
           outer == {<<"src", os>>, <<"tgt", ot>>}
           callee == {<<"src", cs>>, <<"tgt", ct>>}
           by == {<<Outer(g), os>>, <<Callee(g), kept>>}
           L == Recorded(g, outer, callee, by, {nextGoal})
<1>3. Callee(g) \in DOMAIN tree
  BY <1>1, HalvesAre
<1>4. Onward(tree, OnOuter(g, os, os, ot), log, nextGoal, Outer(g), Callee(g))
  BY <1>1, OnwardOuter
<1>5. Onward(tree, on, log, nextGoal, Outer(g), Callee(g))
  BY <1>3, <1>4, OnwardBoth
<1>6. LandContract(g, G, L)
  BY <1>2
<1>7. /\ outer \in SUBSET (Sides \X Programs) /\ callee \in SUBSET (Sides \X Programs)
      /\ by \in SUBSET ({Outer(g), Callee(g)} \X Programs)
  OBVIOUS
<1> HIDE DEF on, outer, callee, by
<1>8. Onward(tree, G, log, nextGoal + 2, Outer(g), Callee(g)) /\ nextGoal \in DOMAIN G
  <2>1. Callee(g) \in DOMAIN on /\ Typed(on) /\ Good(on, log, nextGoal)
    BY <1>3, <1>5 DEF Onward, Good, Sound
  <2>2. HeadOf(on, Callee(g), "src") \in Programs /\ HeadOf(on, Callee(g), "tgt") \in Programs
    BY <2>1, HeadIs
  <2>3. TwoMore(on, G, log, nextGoal)
    BY <2>1, <2>2, NewPairGood DEF InterposedAt, CutKinds, RolePairs
  <2> HIDE DEF G
  <2> QED
    BY <2>3, <1>5 DEF TwoMore, Onward
<1> HIDE DEF G
<1>9. DOMAIN tree \subseteq DOMAIN G /\ {nextGoal} \in SUBSET DOMAIN G
  BY <1>8 DEF Onward
<1>10. L \in Logs(DOMAIN G) /\ L.shown = log.shown
  BY <1>1, <1>7, <1>9, RecordedIs
<1> QED
  BY <1>1, <1>6, <1>8, <1>10, LandContractKeeps

LEMMA StrengthenReturnKeeps ==
  ASSUME TreeInv, NEW g \in DOMAIN tree, StrengthenReturn(g)
  PROVE  TreeInv' /\ SameQuestion
<1>1. CanStrengthen(g) /\ nextGoal' = nextGoal
  BY DEF StrengthenReturn
<1>2. PICK os \in Programs, ot \in Programs, cs \in Programs, ct \in Programs :
        LandContract(g, Strengthened(Strengthened(tree, Callee(g), cs, ct), Outer(g), os, ot),
          Recorded(g, {<<"src", os>>, <<"tgt", ot>>}, {<<"src", cs>>, <<"tgt", ct>>}, {}, {}))
  BY DEF StrengthenReturn
<1> DEFINE on == Strengthened(tree, Callee(g), cs, ct)
           G == Strengthened(on, Outer(g), os, ot)
           outer == {<<"src", os>>, <<"tgt", ot>>}
           callee == {<<"src", cs>>, <<"tgt", ct>>}
           L == Recorded(g, outer, callee, {}, {})
<1>3. Callee(g) \in DOMAIN tree /\ Outer(g) \in DOMAIN tree
  BY <1>1, HalvesAre
<1>4. Onward(tree, tree, log, nextGoal, Outer(g), Callee(g))
  BY DEF Onward, TreeInv
<1>5. Onward(tree, on, log, nextGoal, Outer(g), Callee(g))
  BY <1>3, <1>4, OnwardBoth
<1>6. LandContract(g, G, L)
  BY <1>2
<1>7. outer \in SUBSET (Sides \X Programs) /\ callee \in SUBSET (Sides \X Programs)
  OBVIOUS
<1> HIDE DEF on, outer, callee
<1>8. Onward(tree, G, log, nextGoal, Outer(g), Callee(g))
  BY <1>3, <1>5, OnwardBoth
<1> HIDE DEF G
<1>9. DOMAIN tree \subseteq DOMAIN G
  BY <1>8 DEF Onward
<1>10. L \in Logs(DOMAIN G) /\ L.shown = log.shown
  BY <1>1, <1>7, <1>9, RecordedIs
<1> QED
  BY <1>1, <1>6, <1>8, <1>10, LandContractKeeps

-----------------------------------------------------------------------------
(* What settles a goal, and every step.                                    *)

LEMMA CheckKeeps ==
  ASSUME TreeInv,
         (\E g \in DOMAIN tree : CheckProves(g) \/ CheckRefutes(g)) \/ ReportCex
  PROVE  TreeInv' /\ SameQuestion
<1>1. Good(tree, log, nextGoal) /\ broken \in BOOLEAN
  BY DEF TreeInv
<1>2. ASSUME NEW g \in DOMAIN tree, CheckProves(g)
      PROVE  TreeInv' /\ SameQuestion
  <2>1. /\ tree' = Proved(tree, g) /\ log' = WithProof(tree, log, g)
        /\ UNCHANGED <<nextGoal, txn, broken>>
    BY <1>2 DEF CheckProves, Land
  <2>2. /\ Good(tree', log', nextGoal)
        /\ \A x \in DOMAIN tree : x \in DOMAIN tree' /\ tree'[x].hist = tree[x].hist
    BY <2>1, <1>1, ProvedGood
  <2> QED
    BY <2>1, <2>2, <1>1, HistoriesKept
<1>3. ASSUME tree' = Refuted(tree, Root), UNCHANGED <<nextGoal, txn, log, broken>>
      PROVE  TreeInv' /\ SameQuestion
  <2>1. Typed(tree) /\ Sound(tree, log.shown)
    BY <1>1 DEF Good, Sound
  <2>2. /\ DOMAIN tree' = DOMAIN tree
        /\ \A x \in DOMAIN tree : tree'[x].hist = tree[x].hist
    BY <2>1, <1>3, WithStatusIs DEF Refuted, SameGoals, Statuses
  <2>3. Sound(tree', log.shown)
    BY <2>1, <1>3, RefutedSound
  <2>4. Good(tree', log, nextGoal)
    BY <2>2, <2>3, <1>1 DEF Good
  <2> QED
    BY <2>2, <2>4, <1>1, <1>3, HistoriesKept
<1> QED
  BY <1>2, <1>3 DEF CheckRefutes, RootPair, ReportCex

\* Every step keeps the invariant.
LEMMA NextKeeps ==
  ASSUME TreeInv, [Next]_vars
  PROVE  TreeInv' /\ SameQuestion
<1>1. CASE UNCHANGED vars
  BY <1>1 DEF vars, TreeInv, TxnOn, SameQuestion
<1>2. ASSUME NEW g \in DOMAIN tree,
             \/ \E side \in Sides, p \in Programs : Revert(g, side, p)
             \/ \E p \in Programs : Rewrite(g, p)
             \/ \E side \in Sides, p \in Programs : Unfold(g, side, p)
      PROVE  TreeInv' /\ SameQuestion
  BY <1>2, RevertKeeps, RewriteKeeps, UnfoldKeeps
<1>3. ASSUME NEW g \in DOMAIN tree,
             \/ Cut(g) \/ CutAlone(g) \/ Case(g)
             \/ (\E p \in Programs : InterposeProgram(g, p)) \/ InterposeScratch(g)
             \/ Uncut(g) \/ Uninterpose(g) \/ Uncase(g)
      PROVE  TreeInv' /\ SameQuestion
  BY <1>3, CutKeeps, CutAloneKeeps, CaseKeeps, InterposeKeeps, UndoKeeps
<1>4. ASSUME NEW g \in DOMAIN tree,
             Strengthen(g) \/ StrengthenLoop(g) \/ StrengthenNested(g) \/ StrengthenReturn(g)
      PROVE  TreeInv' /\ SameQuestion
  BY <1>4, StrengthenKeeps, StrengthenLoopKeeps, StrengthenNestedKeeps, StrengthenReturnKeeps
<1>5. CASE \/ \E g \in DOMAIN tree, side \in Sides : Begin(g, side)
           \/ \E text \in Scratches : Edit(text)
           \/ \E immAbort \in BOOLEAN : CommitRefused(immAbort)
           \/ CommitCertified
           \/ Abort
           \/ Resume
  BY <1>5, TransactionKeeps
<1>6. CASE (\E g \in DOMAIN tree : CheckProves(g) \/ CheckRefutes(g)) \/ ReportCex
  BY <1>6, CheckKeeps
<1> QED
  BY <1>1, <1>2, <1>3, <1>4, <1>5, <1>6 DEF Next

LEMMA InitHolds ==
  ASSUME Init
  PROVE  TreeInv
<1>1. PICK src \in Programs, tgt \in Programs : tree = Start(src, tgt)
  BY InputsArePrograms DEF Init
<1> DEFINE n == NewGoal(NoGoal, "root", "none", src, tgt)
<1>2. /\ n \in Goals
      /\ n.parent = NoGoal /\ n.role = "root" /\ n.status = "open" /\ n.children = {}
      /\ \A s \in Sides : n.hist[s] # <<>>
  BY NewGoalIs DEF NoGoal, Roles, CutKinds
<1>3. DOMAIN tree = {Root} /\ tree[Root] = n
  BY <1>1 DEF Start
<1> HIDE DEF n
<1>4. Sound(tree, log.shown)
  BY <1>2, <1>3 DEF Sound, Typed, Linked, Paired, BackedIn, SettledIn, Root, NoGoal
<1>5. log \in Logs(DOMAIN tree)
  BY DEF Init, EmptyLog, Logs
<1>6. nextGoal \in Nat /\ Root < nextGoal
  BY DEF Init, Root
<1> QED
  BY <1>3, <1>4, <1>5, <1>6 DEF Init, TreeInv, Good, TxnOn

-----------------------------------------------------------------------------
(* The theorems.                                                           *)

\* The invariant holds of every run of the session.
THEOREM TreeInvHolds == Spec => []TreeInv
<1>1. Init => TreeInv
  BY InitHolds
<1>2. TreeInv /\ [Next]_vars => TreeInv'
  BY NextKeeps
<1> QED
  BY <1>1, <1>2, PTL DEF Spec

\* What session.ts and goals.ts keep has the shape they give it: every move, refused or
\* not, leaves a tree of goals and a transaction of one of them.
THEOREM TypeCorrect == Spec => []TypeOK
<1>1. TreeInv => TypeOK
  BY DEF TreeInv, TxnOn, Good, Sound, TypeOK
<1> QED
  BY <1>1, TreeInvHolds, PTL

\* The goals stay one tree, whatever is split and undone, and ids are never reused
\* (goals.ts opened, reopen, discard).
THEOREM ForestStands == Spec => []Forest
<1>1. TreeInv => Forest
  BY DEF TreeInv, Good, Sound, Forest
<1> QED
  BY <1>1, TreeInvHolds, PTL

\* A status says neither too much nor too little: no proof outlives what it rested on
\* (goals.ts editable, unsettle), and a proof is carried all the way up (goals.ts settle).
THEOREM StatusesExact == Spec => []SettledExactly
<1>1. TreeInv => Backed
  BY DEF TreeInv, Good, Sound, BackedIn, Stands, Backed
<1>2. TreeInv => NothingLeftToSettle
  BY DEF TreeInv, Good, Sound, SettledIn, NothingLeftToSettle
<1>3. TreeInv => SettledExactly
  BY <1>1, <1>2 DEF SettledExactly
<1> QED
  BY <1>3, TreeInvHolds, PTL

\* No move takes the program an open transaction edits from under it (session.ts
\* editingRefusal, transactions.ts isEditingBelow).
THEOREM TransactionStands == Spec => []TxnCurrent
<1>1. TreeInv => TxnCurrent
  BY DEF TreeInv, TxnOn, TxnCurrent
<1> QED
  BY <1>1, TreeInvHolds, PTL

-----------------------------------------------------------------------------
(* What the operators of the tree do to its ids and its root.              *)

\* The root is refuted.
Out(G) == Root \in DOMAIN G /\ G[Root].status = "refuted"

\* No goal appears but `ids`, and a refuted root stays refuted.
Proceeds(G, H, ids) ==
  /\ DOMAIN H \subseteq DOMAIN G \cup ids
  /\ Out(G) => Out(H)

LEMMA ProceedsStatus ==
  ASSUME NEW G, NEW S, NEW status, Out(G) => Root \notin S \/ status = "refuted"
  PROVE  Proceeds(G, WithStatus(G, S, status), {})
<1>1. ASSUME Out(G)
      PROVE  Out(WithStatus(G, S, status))
  BY <1>1 DEF Out, WithStatus
<1> QED
  BY <1>1 DEF Proceeds, WithStatus

\* A goal that was proved is not a refuted root, nor is one it was proved for.
LEMMA ProceedsReopened ==
  ASSUME NEW G, NEW g \in DOMAIN G
  PROVE  Proceeds(G, Reopened(G, g), {})
<1>1. CASE G[g].status = "proved"
  <2> DEFINE W == WithStatus(G, Unsettled(G, g), "split")
  <2>1. Proceeds(G, W, {})
    BY ProceedsStatus DEF Out, Unsettled, WithChildren
  <2>2. Out(G) => Out(W) /\ Root \notin {g}
    BY <1>1, <2>1 DEF Out, Proceeds
  <2>3. Reopened(G, g) = WithStatus(W, {g}, "open") /\ DOMAIN W = DOMAIN G
    BY <1>1 DEF Reopened, WithStatus
  <2> HIDE DEF W
  <2>4. Out(G) => Out(WithStatus(W, {g}, "open"))
    BY <2>2 DEF Out, WithStatus
  <2> QED
    BY <2>3, <2>4 DEF Proceeds, WithStatus
<1>2. CASE G[g].status # "proved"
  BY <1>2 DEF Reopened, Proceeds
<1> QED
  BY <1>1, <1>2

LEMMA ProceedsHistory ==
  ASSUME NEW G, NEW g \in DOMAIN G, NEW side, NEW h, Out(G) => g # Root
  PROVE  Proceeds(G, WithHistory(G, g, side, h), {})
<1> DEFINE R == Reopened(G, g)
<1>1. Proceeds(G, R, {})
  BY ProceedsReopened
<1> HIDE DEF R
<1>2. WithHistory(G, g, side, h) = [R EXCEPT ![g].hist[side] = h]
  BY DEF WithHistory, R
<1>3. Proceeds(G, [R EXCEPT ![g].hist[side] = h], {})
  BY <1>1 DEF Proceeds, Out
<1> QED
  BY <1>2, <1>3

\* From here on T is the tree before the move, and G what the move made of it so far.
LEMMA ProceedsStepped ==
  ASSUME NEW T, NEW G, NEW ids, Proceeds(T, G, ids),
         NEW g \in DOMAIN G, NEW side, NEW to, Out(T) => g # Root
  PROVE  Proceeds(T, Stepped(G, g, side, to), ids) /\ DOMAIN Stepped(G, g, side, to) = DOMAIN G
<1>1. DOMAIN Stepped(G, g, side, to) = DOMAIN G
  BY DEF Stepped, WithHistory, Reopened, WithStatus
<1>2. CASE Out(T)
  <2>1. Proceeds(G, Stepped(G, g, side, to), {})
    BY <1>2, ProceedsHistory DEF Stepped
  <2> QED
    BY <1>1, <2>1 DEF Proceeds
<1>3. CASE ~ Out(T)
  BY <1>1, <1>3 DEF Proceeds
<1> QED
  BY <1>2, <1>3

LEMMA ProceedsSplit ==
  ASSUME NEW T, NEW G, Proceeds(T, G, {}),
         NEW g \in DOMAIN G, NEW id \in Nat, Root < id, NEW first, NEW second, Out(T) => g # Root
  PROVE  Proceeds(T, Split(G, g, id, first, second), {id, id + 1})
<1> DEFINE R == Reopened(G, g)
           H == Split(G, g, id, first, second)
<1>1. Proceeds(G, R, {})
  BY ProceedsReopened
<1> HIDE DEF R
<1>2. DOMAIN H = DOMAIN G \cup {id, id + 1}
  BY DEF Split
<1>3. ASSUME Out(T)
      PROVE  Out(H)
  <2>1. Out(G) /\ Root \in DOMAIN G /\ Root # g /\ Root # id /\ Root # id + 1
    BY <1>3 DEF Proceeds, Out, Root
  <2>2. H[Root] = R[Root]
    BY <2>1 DEF Split, R
  <2> QED
    BY <1>1, <1>2, <2>1, <2>2 DEF Proceeds, Out
<1> QED
  BY <1>2, <1>3 DEF Proceeds

LEMMA ProceedsProved ==
  ASSUME NEW T, NEW G, NEW ids, Proceeds(T, G, ids), NEW g, Out(T) => g # Root
  PROVE  Proceeds(T, Proved(G, g), ids)
<1>1. CASE Out(T)
  <2>1. Out(G) /\ Root \notin {g} \cup Settled(G, g)
    BY <1>1 DEF Proceeds, Out, Settled, WithChildren
  <2>2. Proceeds(G, Proved(G, g), {})
    BY <2>1, ProceedsStatus DEF Proved
  <2> QED
    BY <2>2 DEF Proceeds
<1>2. CASE ~ Out(T)
  BY <1>2 DEF Proceeds, Proved, WithStatus
<1> QED
  BY <1>1, <1>2

LEMMA ProceedsEager ==
  ASSUME NEW T, NEW G, NEW ids, Proceeds(T, G, ids),
         NEW L, NEW g, Out(T) => g # Root, NEW r \in ThenEager(G, L, g)
  PROVE  Proceeds(T, r.tree, ids)
<1>1. r.tree = G \/ r.tree = Proved(G, g)
  BY DEF ThenEager
<1> QED
  BY <1>1, ProceedsProved

\* The root is below no goal, so no undo discards it.
LEMMA ProceedsUnsplit ==
  ASSUME NEW G, Typed(G), Linked(G), NEW g \in DOMAIN G, G[g].status = "split"
  PROVE  Proceeds(G, Unsplit(G, g), {})
<1>1. Root \notin Below(G, g)
  BY DEF Below, InnerBelow, Inner, Typed, Linked, NoGoal
<1>2. Out(G) => g # Root
  BY DEF Out
<1>3. Out(G) => Out(Unsplit(G, g))
  BY <1>1, <1>2 DEF Out, Unsplit
<1> QED
  BY <1>3 DEF Proceeds, Unsplit

-----------------------------------------------------------------------------
(* What each move of a session does to them.                               *)

\* A step gives the next two ids, or none, and keeps a refuted root.
IdsFresh ==
  \/ nextGoal' = nextGoal /\ Proceeds(tree, tree', {})
  \/ nextGoal' = nextGoal + 2 /\ Proceeds(tree, tree', {nextGoal, nextGoal + 1})

LEMMA IdsAre ==
  ASSUME TreeInv
  PROVE  /\ Typed(tree) /\ Linked(tree)
         /\ nextGoal \in Nat /\ Root < nextGoal
BY DEF TreeInv, Good, Sound, Typed

LEMMA WorkableIs ==
  ASSUME NEW g, Workable(tree, g)
  PROVE  Out(tree) => g # Root
BY DEF Workable, Out

LEMMA LandStepFresh ==
  ASSUME NEW g \in DOMAIN tree, NEW side, NEW to, Workable(tree, g), LandStep(g, side, to)
  PROVE  Proceeds(tree, tree', {})
<1> DEFINE S == Stepped(tree, g, side, to)
<1>1. PICK r \in ThenEager(S, log, g) : tree' = r.tree
  BY DEF LandStep, Land
<1>2. Proceeds(tree, S, {})
  BY WorkableIs, ProceedsStepped DEF Proceeds
<1> QED
  BY <1>1, <1>2, WorkableIs, ProceedsEager

LEMMA SideFresh ==
  ASSUME TreeInv, NEW g \in DOMAIN tree,
         \/ \E side \in Sides, p \in Programs : Revert(g, side, p)
         \/ \E p \in Programs : Rewrite(g, p)
         \/ \E side \in Sides, p \in Programs : Unfold(g, side, p)
  PROVE  IdsFresh
<1>1. CASE \E side \in Sides, p \in Programs : Revert(g, side, p)
  <2>1. PICK side \in Sides, p \in Programs :
          Workable(tree, g) /\ tree' = Reverted(tree, g, side, p) /\ UNCHANGED nextGoal
    BY <1>1 DEF Revert
  <2>2. Proceeds(tree, tree', {})
    BY <2>1, WorkableIs, ProceedsHistory DEF Reverted
  <2> QED
    BY <2>1, <2>2 DEF IdsFresh
<1>2. CASE \/ \E p \in Programs : Rewrite(g, p)
           \/ \E side \in Sides, p \in Programs : Unfold(g, side, p)
  BY <1>2, LandStepFresh DEF Rewrite, Unfold, IdsFresh
<1> QED
  BY <1>1, <1>2

LEMMA SplitFresh ==
  ASSUME TreeInv, NEW g \in DOMAIN tree,
         \/ Cut(g) \/ CutAlone(g) \/ Case(g)
         \/ (\E p \in Programs : InterposeProgram(g, p)) \/ InterposeScratch(g)
  PROVE  IdsFresh
<1>1. Workable(tree, g) /\ nextGoal' = nextGoal + 2
  BY DEF Cut, CutAlone, Case, InterposeProgram, InterposeScratch, InterposeAt, Splittable
<1>2. ASSUME NEW first, NEW second
      PROVE  Proceeds(tree, Split(tree, g, nextGoal, first, second), {nextGoal, nextGoal + 1})
  BY <1>1, IdsAre, WorkableIs, ProceedsSplit DEF Proceeds
<1>3. CASE Cut(g) \/ Case(g) \/ (\E p \in Programs : InterposeProgram(g, p)) \/ InterposeScratch(g)
  <2>1. \E first, second : tree' = Split(tree, g, nextGoal, first, second)
    BY <1>3 DEF Cut, Case, InterposeProgram, InterposeScratch, InterposeAt,
                CutIn, CasedIn, InterposedAt
  <2> QED
    BY <1>1, <1>2, <2>1 DEF IdsFresh
<1>4. CASE CutAlone(g)
  <2>1. \E first, second : tree' = Proved(Split(tree, g, nextGoal, first, second), nextGoal + 1)
    BY <1>4 DEF CutAlone, Land, CutIn
  <2>2. nextGoal + 1 # Root
    BY IdsAre DEF Root
  <2> QED
    BY <1>1, <1>2, <2>1, <2>2, ProceedsProved DEF IdsFresh
<1> QED
  BY <1>3, <1>4

LEMMA UndoFresh ==
  ASSUME TreeInv, NEW g \in DOMAIN tree, Uncut(g) \/ Uninterpose(g) \/ Uncase(g)
  PROVE  IdsFresh
<1>1. /\ nextGoal' = nextGoal
      /\ tree' = tree \/ (tree[g].status = "split" /\ tree' = Unsplit(tree, g))
  BY DEF Uncut, CanUncut, Uninterpose, CanUninterpose, Uncase, CanUncase, LandUnsplit
<1>2. Proceeds(tree, tree', {})
  BY <1>1, IdsAre, ProceedsUnsplit DEF Proceeds
<1> QED
  BY <1>1, <1>2 DEF IdsFresh

\* Neither half of a cut is the root.
LEMMA HalvesBelow ==
  ASSUME TreeInv, NEW g \in DOMAIN tree, CanStrengthen(g)
  PROVE  /\ Outer(g) \in DOMAIN tree /\ Outer(g) # Root
         /\ Callee(g) \in DOMAIN tree /\ Callee(g) # Root
BY HalvesAre, IdsAre DEF Linked, Typed, NoGoal

LEMMA LandContractFresh ==
  ASSUME TreeInv, NEW g \in DOMAIN tree, CanStrengthen(g), NEW G, NEW L, NEW ids,
         Proceeds(tree, G, ids), LandContract(g, G, L)
  PROVE  Proceeds(tree, tree', ids)
<1>1. PICK r, q :
        /\ r = [tree |-> G, log |-> L] \/ r \in ThenEager(G, L, Callee(g))
        /\ q = r \/ q \in ThenEager(r.tree, r.log, Outer(g))
        /\ tree' = q.tree
  BY DEF LandContract, Land
<1>2. Proceeds(tree, r.tree, ids)
  BY <1>1, HalvesBelow, ProceedsEager
<1> QED
  BY <1>1, <1>2, HalvesBelow, ProceedsEager

LEMMA OuterFresh ==
  ASSUME TreeInv, NEW g \in DOMAIN tree, CanStrengthen(g), NEW os, NEW fs, NEW ot
  PROVE  LET G == OnOuter(g, os, fs, ot) IN Proceeds(tree, G, {}) /\ DOMAIN G = DOMAIN tree
<1> DEFINE F == Stepped(tree, Outer(g), "src", os)
           B == IF fs = os THEN F ELSE Stepped(F, Outer(g), "src", fs)
<1>1. Proceeds(tree, F, {}) /\ DOMAIN F = DOMAIN tree
  BY HalvesBelow, ProceedsStepped DEF Proceeds
<1> HIDE DEF F
<1>2. Proceeds(tree, B, {}) /\ DOMAIN B = DOMAIN tree
  BY <1>1, HalvesBelow, ProceedsStepped
<1>3. OnOuter(g, os, fs, ot) = Stepped(B, Outer(g), "tgt", ot)
  BY DEF OnOuter, B, F
<1> HIDE DEF B
<1> QED
  BY <1>2, <1>3, HalvesBelow, ProceedsStepped

LEMMA BothFresh ==
  ASSUME NEW T, NEW G, Proceeds(T, G, {}), NEW x \in DOMAIN G, x # Root, NEW src, NEW tgt
  PROVE  /\ Proceeds(T, Strengthened(G, x, src, tgt), {})
         /\ DOMAIN Strengthened(G, x, src, tgt) = DOMAIN G
<1> DEFINE M == Stepped(G, x, "src", src)
<1>1. Proceeds(T, M, {}) /\ DOMAIN M = DOMAIN G
  BY ProceedsStepped
<1>2. Strengthened(G, x, src, tgt) = Stepped(M, x, "tgt", tgt)
  BY DEF Strengthened
<1> HIDE DEF M
<1> QED
  BY <1>1, <1>2, ProceedsStepped

LEMMA StrengthenFresh ==
  ASSUME TreeInv, NEW g \in DOMAIN tree, Strengthen(g)
  PROVE  IdsFresh
<1>1. CanStrengthen(g) /\ nextGoal' = nextGoal
  BY DEF Strengthen
<1>2. PICK os, fs, ot, cs, ct, L :
        LandContract(g, Strengthened(OnOuter(g, os, fs, ot), Callee(g), cs, ct), L)
  BY DEF Strengthen
<1>3. Proceeds(tree, Strengthened(OnOuter(g, os, fs, ot), Callee(g), cs, ct), {})
  BY <1>1, OuterFresh, HalvesBelow, BothFresh
<1> QED
  BY <1>1, <1>2, <1>3, LandContractFresh DEF IdsFresh

LEMMA StrengthenLoopFresh ==
  ASSUME TreeInv, NEW g \in DOMAIN tree, StrengthenLoop(g)
  PROVE  IdsFresh
<1>1. CanStrengthen(g) /\ nextGoal' = nextGoal
  BY DEF StrengthenLoop
<1>2. PICK os, ot, cs, ct, kept, L :
        LandContract(g,
          Stepped(Strengthened(OnOuter(g, os, os, ot), Callee(g), cs, ct), Callee(g), "src", kept), L)
  BY DEF StrengthenLoop
<1> DEFINE on == Strengthened(OnOuter(g, os, os, ot), Callee(g), cs, ct)
<1>3. Proceeds(tree, on, {}) /\ Callee(g) \in DOMAIN on
  BY <1>1, OuterFresh, HalvesBelow, BothFresh
<1> HIDE DEF on
<1>4. Proceeds(tree, Stepped(on, Callee(g), "src", kept), {})
  BY <1>1, <1>3, HalvesBelow, ProceedsStepped
<1> QED
  BY <1>1, <1>2, <1>4, LandContractFresh DEF IdsFresh, on

LEMMA StrengthenNestedFresh ==
  ASSUME TreeInv, NEW g \in DOMAIN tree, StrengthenNested(g)
  PROVE  IdsFresh
<1>1. CanStrengthen(g) /\ nextGoal' = nextGoal + 2
  BY DEF StrengthenNested
<1>2. PICK os, ot, cs, ct, kept, L :
        LandContract(g,
          InterposedAt(Strengthened(OnOuter(g, os, os, ot), Callee(g), cs, ct), Callee(g), nextGoal, kept), L)
  BY DEF StrengthenNested
<1> DEFINE on == Strengthened(OnOuter(g, os, os, ot), Callee(g), cs, ct)
<1>3. Proceeds(tree, on, {}) /\ Callee(g) \in DOMAIN on
  BY <1>1, OuterFresh, HalvesBelow, BothFresh
<1> HIDE DEF on
<1>4. Proceeds(tree, InterposedAt(on, Callee(g), nextGoal, kept), {nextGoal, nextGoal + 1})
  BY <1>1, <1>3, HalvesBelow, IdsAre, ProceedsSplit DEF InterposedAt
<1> QED
  BY <1>1, <1>2, <1>4, LandContractFresh DEF IdsFresh, on

LEMMA StrengthenReturnFresh ==
  ASSUME TreeInv, NEW g \in DOMAIN tree, StrengthenReturn(g)
  PROVE  IdsFresh
<1>1. CanStrengthen(g) /\ nextGoal' = nextGoal
  BY DEF StrengthenReturn
<1>2. PICK os, ot, cs, ct, L :
        LandContract(g, Strengthened(Strengthened(tree, Callee(g), cs, ct), Outer(g), os, ot), L)
  BY DEF StrengthenReturn
<1> DEFINE on == Strengthened(tree, Callee(g), cs, ct)
<1>3. Proceeds(tree, on, {}) /\ Outer(g) \in DOMAIN on
  BY <1>1, HalvesBelow, BothFresh DEF Proceeds
<1> HIDE DEF on
<1>4. Proceeds(tree, Strengthened(on, Outer(g), os, ot), {})
  BY <1>1, <1>3, HalvesBelow, BothFresh
<1> QED
  BY <1>1, <1>2, <1>4, LandContractFresh DEF IdsFresh, on

\* The moves of the transaction, of which only a certified commit is a step.
LEMMA TransactionFresh ==
  ASSUME TreeInv,
         \/ \E g \in DOMAIN tree, side \in Sides : Begin(g, side)
         \/ \E text \in Scratches : Edit(text)
         \/ \E immAbort \in BOOLEAN : CommitRefused(immAbort)
         \/ CommitCertified
         \/ Abort
         \/ Resume
  PROVE  IdsFresh
<1>1. CASE CommitCertified
  <2>1. txn.gid \in DOMAIN tree
    BY <1>1 DEF CommitCertified, TreeInv, TxnOn
  <2> QED
    BY <1>1, <2>1, LandStepFresh DEF CommitCertified, IdsFresh
<1>2. CASE ~ CommitCertified
  BY <1>2 DEF Begin, Edit, CommitRefused, Abort, Resume, IdsFresh, Proceeds
<1> QED
  BY <1>1, <1>2

LEMMA CheckFresh ==
  ASSUME TreeInv,
         (\E g \in DOMAIN tree : CheckProves(g) \/ CheckRefutes(g)) \/ ReportCex
  PROVE  IdsFresh
<1>1. ASSUME NEW g \in DOMAIN tree, CheckProves(g)
      PROVE  IdsFresh
  <2>1. Workable(tree, g) /\ tree' = Proved(tree, g) /\ nextGoal' = nextGoal
    BY <1>1 DEF CheckProves, Land
  <2> QED
    BY <2>1, WorkableIs, ProceedsProved DEF IdsFresh, Proceeds
<1>2. CASE (\E g \in DOMAIN tree : CheckRefutes(g)) \/ ReportCex
  <2>1. PICK g : tree' = WithStatus(tree, {g}, "refuted") /\ nextGoal' = nextGoal
    BY <1>2 DEF CheckRefutes, ReportCex, Refuted
  <2> QED
    BY <2>1, ProceedsStatus DEF IdsFresh
<1> QED
  BY <1>1, <1>2

LEMMA NextFresh ==
  ASSUME TreeInv, [Next]_vars
  PROVE  IdsFresh
<1>1. CASE UNCHANGED vars
  BY <1>1 DEF vars, IdsFresh, Proceeds
<1>2. ASSUME NEW g \in DOMAIN tree,
             \/ \E side \in Sides, p \in Programs : Revert(g, side, p)
             \/ \E p \in Programs : Rewrite(g, p)
             \/ \E side \in Sides, p \in Programs : Unfold(g, side, p)
             \/ Cut(g) \/ CutAlone(g) \/ Case(g)
             \/ (\E p \in Programs : InterposeProgram(g, p)) \/ InterposeScratch(g)
             \/ Uncut(g) \/ Uninterpose(g) \/ Uncase(g)
      PROVE  IdsFresh
  BY <1>2, SideFresh, SplitFresh, UndoFresh
<1>3. ASSUME NEW g \in DOMAIN tree,
             Strengthen(g) \/ StrengthenLoop(g) \/ StrengthenNested(g) \/ StrengthenReturn(g)
      PROVE  IdsFresh
  BY <1>3, StrengthenFresh, StrengthenLoopFresh, StrengthenNestedFresh, StrengthenReturnFresh
<1>4. CASE \/ \E g \in DOMAIN tree, side \in Sides : Begin(g, side)
           \/ \E text \in Scratches : Edit(text)
           \/ \E immAbort \in BOOLEAN : CommitRefused(immAbort)
           \/ CommitCertified
           \/ Abort
           \/ Resume
  BY <1>4, TransactionFresh
<1>5. CASE (\E g \in DOMAIN tree : CheckProves(g) \/ CheckRefutes(g)) \/ ReportCex
  BY <1>5, CheckFresh
<1> QED
  BY <1>1, <1>2, <1>3, <1>4, <1>5 DEF Next

-----------------------------------------------------------------------------
(* The theorems.                                                           *)

\* An id names one goal for the whole run, whatever is split and undone (goals.ts nextGoal).
THEOREM NamesStayFresh == Spec => GoalNamesFresh
<1>1. ASSUME TreeInv, [Next]_vars
      PROVE  /\ \A g \in DOMAIN tree' \ DOMAIN tree : nextGoal <= g /\ g < nextGoal'
             /\ nextGoal <= nextGoal'
  BY <1>1, NextFresh, IdsAre DEF IdsFresh, Proceeds
<1> QED
  BY <1>1, TreeInvHolds, PTL DEF Spec, GoalNamesFresh

\* A step leaves a counterexample.
LEMMA RefutedStays ==
  ASSUME TreeInv, [Next]_vars, VerdictOf(tree) = "counterexample"
  PROVE  VerdictOf(tree') = "counterexample"
<1>1. ASSUME NEW G
      PROVE  VerdictOf(G) = "counterexample" <=> G[Root].status = "refuted"
  BY DEF VerdictOf
<1>2. Out(tree)
  BY <1>1, IdsAre DEF Out, Typed
<1>3. Out(tree')
  BY <1>2, NextFresh DEF IdsFresh, Proceeds
<1> QED
  BY <1>1, <1>3 DEF Out

\* No move takes a counterexample back: not a late proof below the root, nor an undo
\* (goals.ts workable, settle, apply).
THEOREM RefutationStands == Spec => RefutedIsFinal
<1>1. TreeInv /\ [Next]_vars =>
        [VerdictOf(tree) = "counterexample" => VerdictOf(tree') = "counterexample"]_vars
  BY RefutedStays
<1> QED
  BY <1>1, TreeInvHolds, PTL DEF Spec, RefutedIsFinal

-----------------------------------------------------------------------------
(* Claims, and the steps that make them stronger.                          *)

\* Every program may replace itself.
LEMMA CertifiesSelf ==
  ASSUME NEW side, NEW p \in Programs
  PROVE  Certifies(side, p, p)
BY RefinesIsPreorder DEF Certifies

\* Steps one after another are a step.
LEMMA CertifiesOn ==
  ASSUME NEW side, NEW p \in Programs, NEW q \in Programs, NEW r \in Programs,
         Certifies(side, p, q), Certifies(side, q, r)
  PROVE  Certifies(side, p, r)
BY RefinesIsPreorder DEF Certifies

\* The claim of a pair is stronger the further both sides were moved.
LEMMA ClaimOfSteps ==
  ASSUME NEW p \in Programs, NEW q \in Programs, NEW r \in Programs, NEW s \in Programs,
         Certifies("src", p, q), Certifies("tgt", r, s), Claim(q, s)
  PROVE  Claim(p, r)
BY RefinesIsPreorder DEF Certifies, Claim

\* The claims of the two halves of an interpose show the claim of the whole.
LEMMA ClaimOfHalves ==
  ASSUME NEW p \in Programs, NEW q \in Programs, NEW r \in Programs, Claim(p, q), Claim(q, r)
  PROVE  Claim(p, r)
BY RefinesIsPreorder DEF Claim

-----------------------------------------------------------------------------
(* The place no revert goes back past.                                     *)

\* i is the last place of the side where a landed program stands, or the first of all.
IsBase(G, L, g, side, i) ==
  LET h == G[g].hist[side]
  IN  /\ i \in 1..Len(h)
      /\ i = 1 \/ <<g, side, h[i]>> \in L.landed
      /\ \A j \in i + 1..Len(h) : <<g, side, h[j]>> \notin L.landed

\* A history is never empty; a side is at its last program and began at its first (goals.ts Goal).
LEMMA HistIs ==
  ASSUME NEW G, Typed(G), NEW g \in DOMAIN G, NEW side \in Sides
  PROVE  LET h == G[g].hist[side]
         IN  /\ h \in Seq(Programs) /\ Len(h) \in Nat /\ Len(h) >= 1
             /\ \A i \in 1..Len(h) : h[i] \in Programs
             /\ HeadOf(G, g, side) = h[Len(h)] /\ FirstOf(G, g, side) = h[1]
<1>1. G[g].hist[side] \in Seq(Programs) /\ G[g].hist[side] # <<>>
  BY DEF Typed, Goals
<1> QED
  BY <1>1 DEF HeadOf, FirstOf

\* There is such a place.
LEMMA BaseAtIs ==
  ASSUME NEW G, Typed(G), NEW L, NEW g \in DOMAIN G, NEW side \in Sides
  PROVE  IsBase(G, L, g, side, BaseAt(G, L, g, side))
<1> DEFINE h == G[g].hist[side]
           T == {i \in 1..Len(h) : <<g, side, h[i]>> \in L.landed}
<1>1. Len(h) \in Nat /\ Len(h) >= 1
  BY HistIs
<1>2. \E i \in 1..Len(h) : /\ i = 1 \/ <<g, side, h[i]>> \in L.landed
                           /\ \A j \in i + 1..Len(h) : <<g, side, h[j]>> \notin L.landed
  <2>1. CASE T = {}
    <3>1. 1 \in 1..Len(h) /\ \A j \in 1 + 1..Len(h) : j \in 1..Len(h)
      BY <1>1
    <3> QED
      BY <2>1, <3>1
  <2>2. CASE T # {}
    <3>1. T \subseteq 1..Len(h)
      OBVIOUS
    <3>2. PICK i \in T : \A j \in T : j <= i
      <4> HIDE DEF T
      <4> QED
        BY <1>1, <2>2, <3>1, NatMax
    <3>3. ASSUME NEW j \in i + 1..Len(h), <<g, side, h[j]>> \in L.landed
          PROVE  FALSE
      <4>1. i \in 1..Len(h)
        BY <3>2
      <4>2. j \in 1..Len(h) /\ ~(j <= i)
        BY <1>1, <4>1
      <4> QED
        BY <3>2, <3>3, <4>2
    <3> QED
      BY <3>2, <3>3
  <2> QED
    BY <2>1, <2>2
<1> HIDE DEF T
<1> QED
  BY <1>2 DEF BaseAt, IsBase

\* There is one such place.
LEMMA BaseAtOnly ==
  ASSUME NEW G, Typed(G), NEW L, NEW g \in DOMAIN G, NEW side \in Sides,
         NEW i, IsBase(G, L, g, side, i)
  PROVE  BaseAt(G, L, g, side) = i
<1> DEFINE h == G[g].hist[side]
           b == BaseAt(G, L, g, side)
<1>1. Len(h) \in Nat
  BY HistIs
<1>2. IsBase(G, L, g, side, b)
  BY BaseAtIs
<1> HIDE DEF b
<1>3. b \in 1..Len(h) /\ i \in 1..Len(h)
  BY <1>2 DEF IsBase
<1>4. ~(b < i)
  <2> SUFFICES ASSUME b < i PROVE FALSE
    OBVIOUS
  <2>1. i \in b + 1..Len(h) /\ i # 1
    BY <1>1, <1>3
  <2> QED
    BY <1>2, <2>1 DEF IsBase
<1>5. ~(i < b)
  <2> SUFFICES ASSUME i < b PROVE FALSE
    OBVIOUS
  <2>1. b \in i + 1..Len(h) /\ b # 1
    BY <1>1, <1>3
  <2> QED
    BY <1>2, <2>1 DEF IsBase
<1> QED
  BY <1>3, <1>4, <1>5 DEF b

\* It is the last place, where a strengthen just put what stands there ...
LEMMA BaseAtHead ==
  ASSUME NEW G, Typed(G), NEW L, NEW g \in DOMAIN G, NEW side \in Sides,
         <<g, side, HeadOf(G, g, side)>> \in L.landed
  PROVE  BaseAt(G, L, g, side) = Len(G[g].hist[side])
<1> DEFINE n == Len(G[g].hist[side])
<1>1. n \in Nat /\ n >= 1 /\ HeadOf(G, g, side) = G[g].hist[side][n]
  BY HistIs
<1>2. IsBase(G, L, g, side, n)
  BY <1>1 DEF IsBase
<1> QED
  BY <1>2, BaseAtOnly

\* The same of every goal at once.
LEMMA BaseAtHeads ==
  ASSUME NEW G, Typed(G), NEW L, NEW g, g \in DOMAIN G, NEW side, side \in Sides
  PROVE  <<g, side, HeadOf(G, g, side)>> \in L.landed => BaseAt(G, L, g, side) = Len(G[g].hist[side])
BY BaseAtHead

\* ... the first, where none ever did ...
LEMMA BaseAtFirst ==
  ASSUME NEW G, Typed(G), NEW L, NEW g \in DOMAIN G, NEW side \in Sides,
         \A p : <<g, side, p>> \notin L.landed
  PROVE  /\ BaseAt(G, L, g, side) = 1
         /\ Base(G, L, g, side) = FirstOf(G, g, side)
<1>1. Len(G[g].hist[side]) \in Nat /\ Len(G[g].hist[side]) >= 1
  BY HistIs
<1>2. IsBase(G, L, g, side, 1)
  BY <1>1 DEF IsBase
<1>3. BaseAt(G, L, g, side) = 1
  BY <1>2, BaseAtOnly
<1> QED
  BY <1>3 DEF Base, FirstOf

\* ... and where it was, of a side that did not move.
LEMMA BaseAtSame ==
  ASSUME NEW G, Typed(G), NEW L, NEW H, Typed(H), NEW M, NEW side \in Sides,
         NEW g \in DOMAIN G, g \in DOMAIN H, H[g].hist[side] = G[g].hist[side],
         \A p : <<g, side, p>> \in M.landed <=> <<g, side, p>> \in L.landed
  PROVE  /\ BaseAt(H, M, g, side) = BaseAt(G, L, g, side)
         /\ Base(H, M, g, side) = Base(G, L, g, side)
<1>1. IsBase(G, L, g, side, BaseAt(G, L, g, side))
  BY BaseAtIs
<1>2. IsBase(H, M, g, side, BaseAt(G, L, g, side))
  BY <1>1 DEF IsBase
<1>3. BaseAt(H, M, g, side) = BaseAt(G, L, g, side)
  BY <1>2, BaseAtOnly
<1> QED
  BY <1>3 DEF Base

\* So with the same log.
LEMMA BaseAtKept ==
  ASSUME NEW G, Typed(G), NEW L, NEW H, Typed(H), NEW side \in Sides,
         NEW g \in DOMAIN G, g \in DOMAIN H, H[g].hist[side] = G[g].hist[side]
  PROVE  /\ BaseAt(H, L, g, side) = BaseAt(G, L, g, side)
         /\ Base(H, L, g, side) = Base(G, L, g, side)
<1>1. IsBase(G, L, g, side, BaseAt(G, L, g, side))
  BY BaseAtIs
<1>2. IsBase(H, L, g, side, BaseAt(G, L, g, side))
  BY <1>1 DEF IsBase
<1>3. BaseAt(H, L, g, side) = BaseAt(G, L, g, side)
  BY <1>2, BaseAtOnly
<1> QED
  BY <1>3 DEF Base

\* The program there.
LEMMA BaseIs ==
  ASSUME NEW G, Typed(G), NEW L, NEW g \in DOMAIN G, NEW side \in Sides
  PROVE  Base(G, L, g, side) \in Programs
BY BaseAtIs, HistIs DEF Base, IsBase

-----------------------------------------------------------------------------
(* What is sound of a tree and the log of it.                              *)

\* The parts of SoundInv, of any tree and log.
TrueIn(G) == \A g \in DOMAIN G : G[g].status = "proved" => ClaimNow(G, g)

StepsOn(G, L, g, side) ==
  LET h == G[g].hist[side]
  IN  \A j \in 1..Len(h) : \A i \in BaseAt(G, L, g, side)..j : Certifies(side, h[i], h[j])

StepsIn(G, L) == \A g \in DOMAIN G, side \in Sides : StepsOn(G, L, g, side)

KeptIn(G, L) == \A g \in DOMAIN G : G[g].status # "split" => Kept(G, L, g)

HalvesIn(G, L) ==
  /\ \A e \in L.landed : G[e[1]].role \in {"outer", "callee"}
  /\ \A l \in L.keeps : G[l].role = "lhs" /\ G[G[l].parent].role = "callee"
  /\ G[Root].role = "root"

PinnedIn(G, L) ==
  /\ \A e \in L.landed : Holds(G[e[1]].hist[e[2]], e[3])
  /\ \A e \in L.by :
       \/ <<e[1], "src", e[2]>> \in L.landed
       \/ \E l \in G[e[1]].children \cap L.keeps : FirstOf(G, l, "tgt") = e[2]

RefutedIn(G) == G[Root].status = "refuted" => ~ClaimFirst(G, Root)

\* All of them, but that the splits of the goals in E may not be shown to be right yet.
SoundBut(G, L, E) ==
  /\ TrueIn(G)
  /\ StepsIn(G, L)
  /\ \A g \in DOMAIN G \ E : Discharges(G, L, g)
  /\ KeptIn(G, L)
  /\ HalvesIn(G, L)
  /\ PinnedIn(G, L)
  /\ RefutedIn(G)

\* What a tree is that a session has, and its log.
Shaped(G, L) == Typed(G) /\ Linked(G) /\ L \in Logs(DOMAIN G)

\* What the log holds of a strengthen names the tree's goals, their sides and programs.
LEMMA LogIs ==
  ASSUME NEW ids, NEW L \in Logs(ids)
  PROVE  /\ \A g, side, p : <<g, side, p>> \in L.landed => g \in ids /\ side \in Sides /\ p \in Programs
         /\ \A e \in L.landed : e = <<e[1], e[2], e[3]>>
         /\ \A e \in L.landed : e[1] \in ids /\ e[2] \in Sides /\ e[3] \in Programs
         /\ \A e \in L.by : e[1] \in ids /\ e[2] \in Programs /\ e = <<e[1], e[2]>>
         /\ L.keeps \subseteq ids
BY DEF Logs

\* The invariant a run checks is the one the steps are proved to keep, with no goal aside.
LEMMA SoundIs ==
  ASSUME Typed(tree)
  PROVE  SoundInv <=> SoundBut(tree, log, {})
<1>1. VerdictOf(tree) = "counterexample" <=> tree[Root].status = "refuted"
  BY DEF VerdictOf
<1> QED
  BY <1>1 DEF SoundInv, SoundBut, ProvedTrue, TrueIn, StepsSound, StepsIn, StepsOn, SplitsSound,
              ContractsKept, KeptIn, OnlyHalvesStrengthened, HalvesIn, ContractsPinned, PinnedIn,
              RefutedIn

\* What is true of the pair a goal is at is true of the pair no revert can pass.
LEMMA NowShowsBase ==
  ASSUME NEW G, NEW L, Typed(G), StepsIn(G, L), NEW g \in DOMAIN G, ClaimNow(G, g)
  PROVE  ClaimBase(G, L, g)
<1>1. ASSUME NEW side \in Sides
      PROVE  /\ Certifies(side, Base(G, L, g, side), HeadOf(G, g, side))
             /\ Base(G, L, g, side) \in Programs /\ HeadOf(G, g, side) \in Programs
  <2> DEFINE h == G[g].hist[side]
             b == BaseAt(G, L, g, side)
  <2>1. b \in 1..Len(h) /\ Len(h) \in Nat
    BY BaseAtIs, HistIs DEF IsBase
  <2> HIDE DEF b
  <2>2. Len(h) \in 1..Len(h) /\ b \in b..Len(h)
    BY <2>1
  <2>3. Certifies(side, h[b], h[Len(h)])
    BY <2>2 DEF StepsIn, StepsOn, b
  <2> QED
    BY <2>3, BaseIs, HeadIs DEF Base, HeadOf, b
<1> QED
  BY <1>1, ClaimOfSteps DEF ClaimNow, ClaimBase, Sides

\* A goal that no contract landed on is only ever taken back to the pair it started with.
LEMMA BaseOfUnlanded ==
  ASSUME NEW G, NEW L, Typed(G), HalvesIn(G, L), L \in Logs(DOMAIN G),
         NEW g \in DOMAIN G, G[g].role \notin {"outer", "callee"}
  PROVE  ClaimBase(G, L, g) <=> ClaimFirst(G, g)
<1>1. \A side, p : <<g, side, p>> \notin L.landed
  BY DEF HalvesIn
<1> QED
  BY <1>1, BaseAtFirst DEF ClaimBase, ClaimFirst, Sides

-----------------------------------------------------------------------------
(* Moves of the sides of goals.                                            *)

\* Unsettling goes up: it reaches no goal younger than the parent of the goal touched.
LEMMA UnsettledAbove ==
  ASSUME NEW G, Typed(G), Linked(G), NEW g \in DOMAIN G, NEW a \in Unsettled(G, g)
  PROVE  a <= G[g].parent
<1> DEFINE S == {x \in WithChildren(G, "proved") : x <= G[g].parent}
<1>1. G[g].parent \in Nat /\ \A x \in DOMAIN G : x \in Nat /\ x # NoGoal
  BY DEF Typed, Goals
<1>2. ASSUME NEW b \in WithChildren(G, "proved"), NEW x \in S, G[x].parent = b
      PROVE  b \in S
  <2>1. x \in DOMAIN G /\ b \in DOMAIN G /\ x <= G[g].parent
    BY DEF WithChildren
  <2>2. x # Root
    BY <1>1, <1>2, <2>1 DEF Linked
  <2>3. b < x
    BY <1>2, <2>1, <2>2 DEF Linked
  <2> QED
    BY <1>1, <2>1, <2>3
<1>3. UnsettleClosed(G, g, S)
  <2>1. \A b \in WithChildren(G, "proved") : G[g].parent = b => b \in S
    BY <1>1
  <2> QED
    BY <1>2, <2>1 DEF UnsettleClosed
<1>4. S \in SUBSET WithChildren(G, "proved")
  OBVIOUS
<1>5. a \in S
  <2> HIDE DEF S
  <2> QED
    BY <1>3, <1>4 DEF Unsettled
<1> QED
  BY <1>5

\* The halves of a split, or any one goal.
Siblings(G, S) == S \subseteq DOMAIN G /\ \A x, y \in S : G[x].parent = G[y].parent

\* G is T but for the sides of the goals in S and what was proved above them.
Touched(T, G, S) ==
  /\ Typed(G) /\ SameGoals(T, G)
  /\ \A x \in S : Workable(G, x)
  /\ \A x \in DOMAIN T \ S : G[x].hist = T[x].hist
  /\ \A x \in DOMAIN T :
       /\ G[x].status = "proved" => T[x].status = "proved" /\ G[x].hist = T[x].hist
       /\ G[x].status = "split" => T[x].status \in {"split", "proved"}
       /\ T[x].status = "split" => G[x].status = "split"
       /\ G[x].status = "refuted" => T[x].status = "refuted"

\* A tree none of whose goals was moved is one where only the given goals were.
LEMMA TouchedNothing ==
  ASSUME NEW T, NEW S, Typed(T), S \subseteq DOMAIN T, \A x \in S : Workable(T, x)
  PROVE  Touched(T, T, S)
BY DEF Touched, SameGoals

\* Moving one more of two siblings leaves a tree where only they were moved (session.ts cut).
LEMMA TouchedMore ==
  ASSUME NEW T, NEW G, NEW S, Touched(T, G, S), Linked(T), Siblings(T, S),
         NEW g \in S, NEW hist, NEW H, Moved(G, H, g, hist)
  PROVE  Touched(T, H, S)
<1>1. /\ Typed(G) /\ SameGoals(T, G) /\ DOMAIN G = DOMAIN T /\ g \in DOMAIN G
      /\ Root \in DOMAIN T
  BY DEF Touched, SameGoals, Siblings, Typed
<1>2. Linked(G)
  BY <1>1, SameGoalsLinked
<1>3. Typed(H) /\ SameGoals(T, H)
  BY <1>1 DEF Moved, SameGoals
<1>4. \A x \in DOMAIN T \ S : H[x].hist = T[x].hist
  BY <1>1 DEF Touched, Moved
<1>5. ASSUME NEW x \in S
      PROVE  x \notin Unsettled(G, g)
  <2>1. x \in DOMAIN G /\ G[x].parent = G[g].parent
    BY <1>1 DEF Siblings, SameGoals
  <2>2. G[x].parent < x
    <3>1. CASE x = Root
      BY <1>2, <3>1 DEF Linked, Root, NoGoal
    <3>2. CASE x # Root
      BY <1>2, <2>1, <3>2 DEF Linked
    <3> QED
      BY <3>1, <3>2
  <2>3. x \in Nat /\ G[g].parent \in Nat
    BY <1>1, <2>1 DEF Typed, Goals
  <2> QED
    BY <1>1, <1>2, <2>1, <2>2, <2>3, UnsettledAbove
<1>6. /\ H[g].status = IF G[g].status = "proved" THEN "open" ELSE G[g].status
      /\ \A x \in DOMAIN G \ {g} :
           \/ H[x].status = G[x].status
           \/ H[x].status = "split" /\ G[x].status = "proved" /\ x \notin S
  BY <1>1, <1>2, <1>5, ReopenedIs, UnsettledIs DEF Moved
<1>7. \A x \in S : Workable(H, x)
  BY <1>1, <1>6 DEF Touched, Workable, Siblings
<1>8. ASSUME NEW x \in DOMAIN T
      PROVE  /\ H[x].status = "proved" => T[x].status = "proved" /\ H[x].hist = T[x].hist
             /\ H[x].status = "split" => T[x].status \in {"split", "proved"}
             /\ T[x].status = "split" => H[x].status = "split"
             /\ H[x].status = "refuted" => T[x].status = "refuted"
  <2>1. CASE x = g
    BY <1>1, <1>6, <2>1 DEF Touched, Workable
  <2>2. CASE x # g
    <3>1. H[x].hist = G[x].hist
      BY <1>1, <2>2 DEF Moved
    <3> QED
      BY <1>1, <1>6, <2>2, <3>1 DEF Touched
  <2> QED
    BY <2>1, <2>2
<1> QED
  BY <1>3, <1>4, <1>7, <1>8 DEF Touched

\* A move of the sides of the goals in S, with the contracts it lands on them, leaves all sound
\* that is not a split of their parents.
LEMMA TouchedSound ==
  ASSUME NEW T, NEW G, NEW L, NEW M, NEW S, NEW E,
         Shaped(T, L), SoundBut(T, L, E), Touched(T, G, S), S \subseteq DOMAIN T,
         M.keeps = L.keeps, HalvesIn(G, M), PinnedIn(G, M),
         \A x \in DOMAIN T \ S : \A side, p :
           <<x, side, p>> \in M.landed <=> <<x, side, p>> \in L.landed,
         \A x \in S, side \in Sides :
           FirstOf(G, x, side) = FirstOf(T, x, side) /\ StepsOn(G, M, x, side),
         \A x \in S : T[x].parent \in E \/ (ClaimBase(G, M, x) => ClaimBase(T, L, x))
  PROVE  SoundBut(G, M, E)
<1>1. /\ Typed(T) /\ Linked(T) /\ L \in Logs(DOMAIN T)
      /\ Typed(G) /\ SameGoals(T, G) /\ DOMAIN G = DOMAIN T /\ Root \in DOMAIN T
  BY DEF Shaped, Touched, SameGoals, Typed
<1>2. \A x \in DOMAIN T \ S : G[x].hist = T[x].hist
  BY DEF Touched
<1>3. \A x \in DOMAIN T \ S, side \in Sides :
        /\ BaseAt(G, M, x, side) = BaseAt(T, L, x, side)
        /\ Base(G, M, x, side) = Base(T, L, x, side)
  <2> TAKE x \in DOMAIN T \ S, side \in Sides
  <2>1. /\ x \in DOMAIN T /\ x \in DOMAIN G /\ G[x].hist[side] = T[x].hist[side]
        /\ \A p : <<x, side, p>> \in M.landed <=> <<x, side, p>> \in L.landed
    BY <1>1, <1>2
  <2> QED
    BY <1>1, <2>1, BaseAtSame
<1>4. \A x \in DOMAIN T \ S : ClaimBase(G, M, x) <=> ClaimBase(T, L, x)
  BY <1>3 DEF ClaimBase, Sides
<1>5. \A x \in DOMAIN T : ClaimFirst(G, x) <=> ClaimFirst(T, x)
  BY <1>2 DEF ClaimFirst, FirstOf, Sides
<1>6. \A x \in DOMAIN T : Kept(G, M, x) <=> Kept(T, L, x)
  <2>1. \A x \in DOMAIN T : G[x].children = T[x].children /\ T[x].children \subseteq DOMAIN T
    BY <1>1 DEF SameGoals, Linked
  <2> QED
    BY <1>5, <2>1 DEF Kept
<1>7. TrueIn(G)
  BY <1>1 DEF Touched, TrueIn, ClaimNow, HeadOf, SoundBut
<1>8. StepsIn(G, M)
  <2>1. \A x \in DOMAIN T \ S, side \in Sides : StepsOn(G, M, x, side)
    BY <1>2, <1>3 DEF SoundBut, StepsIn, StepsOn
  <2> QED
    BY <1>1, <2>1 DEF StepsIn
<1>9. ASSUME NEW a \in DOMAIN G \ E, G[a].status = "split",
             \A c \in G[a].children : ClaimBase(G, M, c) /\ Kept(G, M, c)
      PROVE  ClaimNow(G, a)
  <2>1. a \notin S /\ a \in DOMAIN T /\ G[a].children = T[a].children
    BY <1>1, <1>9 DEF Touched, Workable, SameGoals
  <2>2. ClaimNow(G, a) <=> ClaimNow(T, a)
    BY <1>2, <2>1 DEF ClaimNow, HeadOf
  <2>3. \A c \in T[a].children : c \in DOMAIN T /\ T[c].parent = a
    BY <1>1, <2>1 DEF Linked
  <2>4. \A c \in T[a].children : ClaimBase(T, L, c) /\ Kept(T, L, c)
    BY <1>4, <1>6, <1>9, <2>1, <2>3
  <2>5. CASE T[a].status = "split"
    BY <2>1, <2>2, <2>4, <2>5 DEF SoundBut, Discharges
  <2>6. CASE T[a].status = "proved"
    BY <2>1, <2>2, <2>6 DEF SoundBut, TrueIn
  <2> QED
    BY <1>9, <2>1, <2>5, <2>6 DEF Touched
<1>10. KeptIn(G, M)
  BY <1>1, <1>6 DEF Touched, KeptIn, SoundBut
<1>11. RefutedIn(G)
  BY <1>1, <1>5 DEF Touched, RefutedIn, SoundBut
<1> QED
  BY <1>7, <1>8, <1>9, <1>10, <1>11 DEF SoundBut, Discharges

\* A tree of the same goals has the same halves.
LEMMA HalvesKept ==
  ASSUME NEW T, NEW G, NEW L, Shaped(T, L), SameGoals(T, G), HalvesIn(T, L)
  PROVE  HalvesIn(G, L)
<1>1. \A x \in DOMAIN T : G[x].role = T[x].role /\ G[x].parent = T[x].parent
  BY DEF SameGoals
<1>2. \A l \in L.keeps : l \in DOMAIN T /\ T[l].parent \in DOMAIN T
  <2>1. \A l \in L.keeps : l \in DOMAIN T /\ l # Root
    BY LogIs DEF Shaped, HalvesIn
  <2> QED
    BY <2>1 DEF Shaped, Linked
<1>3. \A e \in L.landed : e[1] \in DOMAIN T
  BY LogIs DEF Shaped
<1> QED
  BY <1>1, <1>2, <1>3 DEF HalvesIn, Shaped, Typed

\* And the same pinned proofs, where no side lost a program that a strengthen landed.
LEMMA PinnedKept ==
  ASSUME NEW T, NEW G, NEW L, Shaped(T, L), SameGoals(T, G), PinnedIn(T, L),
         \A x \in DOMAIN T, side \in Sides : \A p :
           <<x, side, p>> \in L.landed => Holds(G[x].hist[side], p),
         \A x \in DOMAIN T : FirstOf(G, x, "tgt") = FirstOf(T, x, "tgt")
  PROVE  PinnedIn(G, L)
<1>1. \A e \in L.landed : Holds(G[e[1]].hist[e[2]], e[3])
  <2>1. \A e \in L.landed : e = <<e[1], e[2], e[3]>> /\ e[1] \in DOMAIN T /\ e[2] \in Sides
    BY LogIs DEF Shaped
  <2> QED
    BY <2>1
<1>2. \A e \in L.by : e[1] \in DOMAIN T
  BY LogIs DEF Shaped
<1>3. \A x \in DOMAIN T : G[x].children = T[x].children /\ T[x].children \subseteq DOMAIN T
  BY DEF Shaped, SameGoals, Linked
<1> QED
  BY <1>1, <1>2, <1>3 DEF PinnedIn

\* A new program of a side is one more place.
LEMMA AppendIs ==
  ASSUME NEW h \in Seq(Programs), NEW to \in Programs
  PROVE  LET k == Append(h, to)
         IN  /\ Len(k) = Len(h) + 1 /\ k[Len(h) + 1] = to
             /\ \A i \in 1..Len(h) : k[i] = h[i]
OBVIOUS

\* A step that its side allows.
LEMMA StepSound ==
  ASSUME NEW G, NEW L, Shaped(G, L), SoundBut(G, L, {}),
         NEW g \in DOMAIN G, Workable(G, g), NEW side \in Sides, NEW to \in Programs,
         Certifies(side, HeadOf(G, g, side), to)
  PROVE  SoundBut(Stepped(G, g, side, to), L, {})
<1> DEFINE H == Stepped(G, g, side, to)
           h == G[g].hist[side]
           k == Append(h, to)
           b == BaseAt(G, L, g, side)
           d == BaseAt(H, L, g, side)
<1>1. Typed(G) /\ Linked(G) /\ L \in Logs(DOMAIN G)
  BY DEF Shaped
<1>2. /\ h \in Seq(Programs) /\ Len(h) \in Nat /\ Len(h) >= 1
      /\ \A i \in 1..Len(h) : h[i] \in Programs
      /\ HeadOf(G, g, side) = h[Len(h)]
  BY <1>1, HistIs
<1>3. Moved(G, H, g, [G[g].hist EXCEPT ![side] = k])
  BY <1>1, SteppedIs
<1>4. Touched(G, H, {g})
  BY <1>1, <1>3, TouchedNothing, TouchedMore DEF Siblings
<1>5. G[g].hist \in [Sides -> Seq(Programs)]
  BY <1>1 DEF Typed, Goals
<1>6. Typed(H) /\ DOMAIN H = DOMAIN G /\ H[g].hist[side] = k
      /\ \A s \in Sides \ {side} : H[g].hist[s] = G[g].hist[s]
  BY <1>3, <1>5 DEF Moved, SameGoals
<1> HIDE DEF H
<1>7. Len(k) = Len(h) + 1 /\ k[Len(h) + 1] = to /\ \A i \in 1..Len(h) : k[i] = h[i]
  BY <1>2, AppendIs
<1> HIDE DEF k
<1>8. b \in 1..Len(h) /\ IsBase(G, L, g, side, b)
  BY <1>1, BaseAtIs DEF IsBase
<1> HIDE DEF b
<1>9. d = Len(h) + 1 \/ (d = b /\ k[b] = h[b])
  <2>1. CASE <<g, side, to>> \in L.landed
    <3>1. HeadOf(H, g, side) = to
      BY <1>6, <1>7 DEF HeadOf
    <3>2. Typed(H) /\ g \in DOMAIN H /\ <<g, side, HeadOf(H, g, side)>> \in L.landed
      BY <1>6, <2>1, <3>1
    <3>3. d = Len(H[g].hist[side])
      BY <3>2, BaseAtHead
    <3> QED
      BY <1>6, <1>7, <3>3
  <2>2. CASE <<g, side, to>> \notin L.landed
    <3>1. b \in 1..Len(k) /\ (b = 1 \/ <<g, side, k[b]>> \in L.landed)
      <4>1. b = 1 \/ <<g, side, h[b]>> \in L.landed
        BY <1>8 DEF IsBase
      <4>2. b \in 1..Len(k) /\ k[b] = h[b]
        BY <1>2, <1>7, <1>8
      <4> QED
        BY <4>1, <4>2
    <3>2. ASSUME NEW j \in b + 1..Len(k)
          PROVE  <<g, side, k[j]>> \notin L.landed
      <4>1. j = Len(h) + 1 \/ (j \in b + 1..Len(h) /\ j \in 1..Len(h))
        BY <1>2, <1>7, <1>8
      <4>2. ASSUME j \in b + 1..Len(h)
            PROVE  <<g, side, h[j]>> \notin L.landed
        BY <1>8, <4>2 DEF IsBase
      <4> QED
        BY <1>7, <2>2, <4>1, <4>2
    <3>3. IsBase(H, L, g, side, b)
      BY <1>6, <3>1, <3>2 DEF IsBase
    <3> QED
      BY <1>6, <1>7, <1>8, <3>3, BaseAtOnly
  <2> QED
    BY <2>1, <2>2
<1> HIDE DEF d
<1>10. \A j \in 1..Len(h) : \A i \in b..j : Certifies(side, h[i], h[j])
  BY DEF SoundBut, StepsIn, StepsOn, b
<1>11. ASSUME NEW i \in b..Len(h)
       PROVE  i \in 1..Len(h) /\ Certifies(side, h[i], to)
  <2>1. i \in 1..Len(h) /\ Len(h) \in 1..Len(h)
    BY <1>2, <1>8
  <2>2. Certifies(side, h[i], h[Len(h)])
    BY <1>10, <2>1
  <2> QED
    BY <1>2, <2>1, <2>2, CertifiesOn
<1>12. StepsOn(H, L, g, side)
  <2> SUFFICES ASSUME NEW j \in 1..Len(k), NEW i \in d..j
               PROVE  Certifies(side, k[i], k[j])
    BY <1>6 DEF StepsOn, d
  <2>1. CASE i = Len(h) + 1
    <3>1. j = Len(h) + 1
      BY <1>2, <1>7, <2>1
    <3> QED
      BY <1>7, <2>1, <3>1, CertifiesSelf
  <2>2. CASE i # Len(h) + 1
    <3>1. i \in b..Len(h)
      BY <1>2, <1>7, <1>8, <1>9, <2>2
    <3>2. CASE j = Len(h) + 1
      BY <1>7, <1>11, <3>1, <3>2
    <3>3. CASE j # Len(h) + 1
      <4>1. j \in 1..Len(h) /\ i \in b..j
        BY <1>2, <1>7, <3>1, <3>3
      <4> QED
        BY <1>7, <1>10, <1>11, <3>1, <4>1
    <3> QED
      BY <3>2, <3>3
  <2> QED
    BY <2>1, <2>2
<1>13. Certifies(side, Base(G, L, g, side), Base(H, L, g, side))
  <2>1. Base(G, L, g, side) = h[b] /\ Base(H, L, g, side) = k[d] /\ h[b] \in Programs
    BY <1>2, <1>6, <1>8 DEF Base, b, d
  <2>2. b \in b..Len(h)
    BY <1>2, <1>8
  <2> QED
    BY <1>7, <1>9, <1>11, <2>1, <2>2, CertifiesSelf
<1>14. \A s \in Sides \ {side} :
         /\ StepsOn(H, L, g, s)
         /\ Base(H, L, g, s) = Base(G, L, g, s)
         /\ FirstOf(H, g, s) = FirstOf(G, g, s)
  <2>1. ASSUME NEW s \in Sides \ {side}
        PROVE  /\ BaseAt(H, L, g, s) = BaseAt(G, L, g, s)
               /\ Base(H, L, g, s) = Base(G, L, g, s)
    <3>1. H[g].hist[s] = G[g].hist[s] /\ s \in Sides /\ g \in DOMAIN H /\ Typed(H)
      BY <1>6
    <3> QED
      BY <1>1, <3>1, BaseAtKept
  <2> QED
    BY <1>6, <2>1 DEF SoundBut, StepsIn, StepsOn, FirstOf
<1>15. FirstOf(H, g, side) = FirstOf(G, g, side)
  BY <1>2, <1>6, <1>7 DEF FirstOf
<1>16. ClaimBase(H, L, g) => ClaimBase(G, L, g)
  <2>1. \A s \in Sides : Base(G, L, g, s) \in Programs /\ Base(H, L, g, s) \in Programs
    BY <1>1, <1>6, BaseIs
  <2>2. \A s \in Sides : Certifies(s, Base(G, L, g, s), Base(H, L, g, s))
    BY <1>13, <1>14, <2>1, CertifiesSelf
  <2> QED
    BY <2>1, <2>2, ClaimOfSteps DEF ClaimBase, Sides
<1>17. SameGoals(G, H) /\ HalvesIn(H, L)
  BY <1>3, HalvesKept DEF Moved, SoundBut
<1>18. PinnedIn(H, L)
  <2>1. \A x \in DOMAIN G, s \in Sides : \A p : <<x, s, p>> \in L.landed => Holds(H[x].hist[s], p)
    <3>1. \A x \in DOMAIN G, s \in Sides : \A p : Holds(G[x].hist[s], p) => Holds(H[x].hist[s], p)
      <4>1. ASSUME NEW p, Holds(h, p)
            PROVE  Holds(k, p)
        <5>1. PICK i \in 1..Len(h) : h[i] = p
          BY <4>1 DEF Holds
        <5>2. i \in 1..Len(k) /\ k[i] = p
          BY <1>2, <1>7, <5>1
        <5> QED
          BY <5>2 DEF Holds
      <4>2. \A x \in DOMAIN G \ {g} : H[x].hist = G[x].hist
        BY <1>3 DEF Moved
      <4>3. ASSUME NEW s \in Sides, NEW p, Holds(G[g].hist[s], p)
            PROVE  Holds(H[g].hist[s], p)
        <5>1. CASE s = side
          BY <1>6, <4>1, <4>3, <5>1
        <5>2. CASE s # side
          BY <1>6, <4>3, <5>2
        <5> QED
          BY <5>1, <5>2
      <4> QED
        BY <4>2, <4>3
    <3>2. \A x, s, p : <<x, s, p>> \in L.landed => Holds(G[x].hist[s], p)
      <4> SUFFICES ASSUME NEW x, NEW s, NEW p, <<x, s, p>> \in L.landed
                   PROVE  Holds(G[x].hist[s], p)
        OBVIOUS
      <4> DEFINE e == <<x, s, p>>
      <4>1. Holds(G[e[1]].hist[e[2]], e[3])
        BY DEF SoundBut, PinnedIn
      <4> QED
        BY <4>1
    <3> QED
      BY <3>1, <3>2
  <2>2. \A x \in DOMAIN G : FirstOf(H, x, "tgt") = FirstOf(G, x, "tgt")
    <3>1. \A x \in DOMAIN G \ {g} : FirstOf(H, x, "tgt") = FirstOf(G, x, "tgt")
      BY <1>3 DEF Moved, FirstOf
    <3>2. FirstOf(H, g, "tgt") = FirstOf(G, g, "tgt")
      BY <1>14, <1>15 DEF Sides
    <3> QED
      BY <3>1, <3>2
  <2>3. PinnedIn(G, L)
    BY DEF SoundBut
  <2> HIDE DEF H
  <2> QED
    BY <1>17, <2>1, <2>2, <2>3, PinnedKept
<1> QED
  BY <1>4, <1>12, <1>14, <1>15, <1>16, <1>17, <1>18, TouchedSound DEF H

\* A revert that takes back nothing a strengthen landed.
LEMMA RevertSound ==
  ASSUME NEW G, NEW L, Shaped(G, L), SoundBut(G, L, {}),
         NEW g \in DOMAIN G, Workable(G, g), NEW side \in Sides, NEW to,
         Holds(G[g].hist[side], to),
         \A p : <<g, side, p>> \in L.landed =>
           LastIndexOf(G[g].hist[side], p) <= LastIndexOf(G[g].hist[side], to)
  PROVE  SoundBut(Reverted(G, g, side, to), L, {})
<1> DEFINE H == Reverted(G, g, side, to)
           h == G[g].hist[side]
           n == LastIndexOf(h, to)
           k == SubSeq(h, 1, n)
           b == BaseAt(G, L, g, side)
<1>1. Typed(G) /\ Linked(G) /\ L \in Logs(DOMAIN G)
  BY DEF Shaped
<1>2. /\ h \in Seq(Programs) /\ Len(h) \in Nat /\ Len(h) >= 1
      /\ \A i \in 1..Len(h) : h[i] \in Programs
  BY <1>1, HistIs
<1>3. Moved(G, H, g, [G[g].hist EXCEPT ![side] = k])
  BY <1>1, RevertedIs
<1>4. Touched(G, H, {g})
  BY <1>1, <1>3, TouchedNothing, TouchedMore DEF Siblings
<1>5. G[g].hist \in [Sides -> Seq(Programs)]
  BY <1>1 DEF Typed, Goals
<1>6. Typed(H) /\ SameGoals(G, H) /\ DOMAIN H = DOMAIN G /\ H[g].hist[side] = k
      /\ \A s \in Sides \ {side} : H[g].hist[s] = G[g].hist[s]
  BY <1>3, <1>5 DEF Moved, SameGoals
<1> HIDE DEF H
<1>7. n \in 1..Len(h)
  BY <1>2, LastIndexOfIs
<1>8. \A p : <<g, side, p>> \in L.landed => Holds(h, p) /\ LastIndexOf(h, p) <= n
  <2>1. \A p : <<g, side, p>> \in L.landed => Holds(h, p)
    BY DEF SoundBut, PinnedIn
  <2> QED
    BY <2>1
<1> HIDE DEF n
<1>9. Len(k) = n /\ \A i \in 1..n : k[i] = h[i]
  BY <1>2, <1>7
<1> HIDE DEF k
<1>10. b \in 1..Len(h) /\ IsBase(G, L, g, side, b)
  BY <1>1, BaseAtIs DEF IsBase
<1> HIDE DEF b
<1>11. b \in 1..n
  <2>1. CASE b = 1
    BY <1>7, <2>1
  <2>2. CASE <<g, side, h[b]>> \in L.landed
    <3>1. Holds(h, h[b]) /\ LastIndexOf(h, h[b]) <= n
      BY <1>8, <2>2
    <3>2. /\ LastIndexOf(h, h[b]) \in 1..Len(h)
          /\ \A j \in LastIndexOf(h, h[b]) + 1..Len(h) : h[j] # h[b]
      BY <1>2, <3>1, LastIndexOfIs
    <3>3. ~(LastIndexOf(h, h[b]) < b)
      BY <1>2, <1>10, <3>2
    <3> QED
      BY <1>2, <1>7, <1>10, <3>1, <3>2, <3>3
  <2> QED
    BY <1>10, <2>1, <2>2 DEF IsBase
<1>12. BaseAt(H, L, g, side) = b
  <2>1. /\ b \in 1..Len(k)
        /\ b = 1 \/ <<g, side, k[b]>> \in L.landed
        /\ \A j \in b + 1..Len(k) : <<g, side, k[j]>> \notin L.landed
    BY <1>2, <1>7, <1>9, <1>10, <1>11, SMTT(40) DEF IsBase
  <2>2. IsBase(H, L, g, side, b)
    BY <1>6, <2>1 DEF IsBase
  <2> QED
    BY <1>6, <2>2, BaseAtOnly
<1>13. StepsOn(H, L, g, side)
  <2> SUFFICES ASSUME NEW j \in 1..Len(k), NEW i \in b..j
               PROVE  Certifies(side, k[i], k[j])
    BY <1>6, <1>12 DEF StepsOn
  <2>1. j \in 1..Len(h) /\ j \in 1..n /\ i \in 1..n
    BY <1>2, <1>7, <1>9, <1>11
  <2>2. Certifies(side, h[i], h[j])
    BY <2>1 DEF SoundBut, StepsIn, StepsOn, b
  <2> QED
    BY <1>9, <2>1, <2>2
<1>14. Base(H, L, g, side) = Base(G, L, g, side) /\ FirstOf(H, g, side) = FirstOf(G, g, side)
  BY <1>6, <1>7, <1>9, <1>11, <1>12 DEF Base, FirstOf, b
<1>15. \A s \in Sides \ {side} :
         /\ StepsOn(H, L, g, s)
         /\ Base(H, L, g, s) = Base(G, L, g, s)
         /\ FirstOf(H, g, s) = FirstOf(G, g, s)
  <2>1. ASSUME NEW s \in Sides \ {side}
        PROVE  /\ BaseAt(H, L, g, s) = BaseAt(G, L, g, s)
               /\ Base(H, L, g, s) = Base(G, L, g, s)
    <3>1. H[g].hist[s] = G[g].hist[s] /\ s \in Sides /\ g \in DOMAIN H /\ Typed(H)
      BY <1>6
    <3> QED
      BY <1>1, <3>1, BaseAtKept
  <2> QED
    BY <1>6, <2>1 DEF SoundBut, StepsIn, StepsOn, FirstOf
<1>16. \A s \in Sides : StepsOn(H, L, g, s) /\ Base(H, L, g, s) = Base(G, L, g, s)
                        /\ FirstOf(H, g, s) = FirstOf(G, g, s)
  BY <1>13, <1>14, <1>15
<1>17. ClaimBase(H, L, g) => ClaimBase(G, L, g)
  BY <1>16 DEF ClaimBase, Sides
<1>18. HalvesIn(H, L)
  BY <1>6, HalvesKept DEF SoundBut
<1>19. PinnedIn(H, L)
  <2>1. ASSUME NEW x \in DOMAIN G, NEW s \in Sides, NEW p, <<x, s, p>> \in L.landed
        PROVE  Holds(H[x].hist[s], p)
    <3>1. Holds(G[x].hist[s], p)
      BY <2>1 DEF SoundBut, PinnedIn
    <3>2. CASE x = g /\ s = side
      <4>1. Holds(h, p) /\ LastIndexOf(h, p) <= n
        BY <1>8, <2>1, <3>2
      <4>2. LastIndexOf(h, p) \in 1..Len(h) /\ h[LastIndexOf(h, p)] = p
        BY <1>2, <4>1, LastIndexOfIs
      <4>3. LastIndexOf(h, p) \in 1..n
        BY <1>7, <4>1, <4>2
      <4> QED
        BY <1>6, <1>9, <3>2, <4>2, <4>3 DEF Holds
    <3>3. CASE ~(x = g /\ s = side)
      <4>1. H[x].hist[s] = G[x].hist[s]
        BY <1>3, <1>6, <3>3 DEF Moved
      <4> QED
        BY <3>1, <4>1
    <3> QED
      BY <3>2, <3>3
  <2>2. \A x \in DOMAIN G : FirstOf(H, x, "tgt") = FirstOf(G, x, "tgt")
    <3>1. \A x \in DOMAIN G \ {g} : FirstOf(H, x, "tgt") = FirstOf(G, x, "tgt")
      BY <1>3 DEF Moved, FirstOf
    <3> QED
      BY <3>1, <1>16 DEF Sides
  <2> QED
    BY <1>6, <2>1, <2>2, PinnedKept DEF SoundBut
<1> QED
  BY <1>4, <1>16, <1>17, <1>18, <1>19, TouchedSound DEF H

-----------------------------------------------------------------------------
(* Splits.                                                                 *)

\* Reopening a goal, and what was proved above it.
LEMMA ReopenSound ==
  ASSUME NEW G, NEW L, NEW E, Shaped(G, L), SoundBut(G, L, E), NEW g \in DOMAIN G, Workable(G, g)
  PROVE  SoundBut(Reopened(G, g), L, E)
<1> DEFINE R == Reopened(G, g)
<1>1. Typed(G) /\ Linked(G) /\ L \in Logs(DOMAIN G)
  BY DEF Shaped
<1>2. Typed(R) /\ SameGoals(G, R) /\ \A x \in DOMAIN G : R[x].hist = G[x].hist
  BY <1>1, ReopenedIs
<1>3. Moved(G, R, g, G[g].hist)
  BY <1>2 DEF Moved
<1> HIDE DEF R
<1>4. Touched(G, R, {g})
  BY <1>1, <1>3, TouchedNothing, TouchedMore DEF Siblings
<1>5. DOMAIN R = DOMAIN G
  BY <1>2 DEF SameGoals
<1>6. \A s \in Sides : /\ StepsOn(R, L, g, s)
                       /\ Base(R, L, g, s) = Base(G, L, g, s)
                       /\ FirstOf(R, g, s) = FirstOf(G, g, s)
  <2>1. ASSUME NEW s \in Sides
        PROVE  /\ BaseAt(R, L, g, s) = BaseAt(G, L, g, s)
               /\ Base(R, L, g, s) = Base(G, L, g, s)
    <3>1. R[g].hist[s] = G[g].hist[s] /\ g \in DOMAIN R
      BY <1>2, <1>5
    <3> QED
      BY <1>1, <1>2, <3>1, BaseAtKept
  <2> QED
    BY <1>2, <2>1 DEF SoundBut, StepsIn, StepsOn, FirstOf
<1>7. ClaimBase(R, L, g) => ClaimBase(G, L, g)
  BY <1>6 DEF ClaimBase, Sides
<1>8. HalvesIn(R, L)
  BY <1>2, HalvesKept DEF SoundBut
<1>9. PinnedIn(R, L)
  <2>1. \A x \in DOMAIN G, s \in Sides : \A p : <<x, s, p>> \in L.landed => Holds(R[x].hist[s], p)
    BY <1>2 DEF SoundBut, PinnedIn
  <2>2. \A x \in DOMAIN G : FirstOf(R, x, "tgt") = FirstOf(G, x, "tgt")
    BY <1>2 DEF FirstOf
  <2> QED
    BY <1>2, <2>1, <2>2, PinnedKept DEF SoundBut
<1> QED
  BY <1>4, <1>6, <1>7, <1>8, <1>9, TouchedSound DEF R

\* A pair just asked about.
Fresh(H, n, src, tgt) ==
  /\ n \in DOMAIN H
  /\ H[n].hist = [s \in Sides |-> IF s = "src" THEN <<src>> ELSE <<tgt>>]
  /\ H[n].status = "open" /\ H[n].children = {}

\* It claims what it was asked, rests on nothing and no step was made of it.
LEMMA FreshIs ==
  ASSUME NEW H, NEW M, Typed(H), NEW x, NEW src \in Programs, NEW tgt \in Programs,
         Fresh(H, x, src, tgt), \A side, p : <<x, side, p>> \notin M.landed
  PROVE  /\ ClaimBase(H, M, x) <=> Claim(src, tgt)
         /\ ClaimFirst(H, x) <=> Claim(src, tgt)
         /\ FirstOf(H, x, "tgt") = tgt
         /\ Kept(H, M, x)
         /\ \A side \in Sides : StepsOn(H, M, x, side)
<1>1. x \in DOMAIN H /\ H[x].hist["src"] = <<src>> /\ H[x].hist["tgt"] = <<tgt>>
  BY DEF Fresh, Sides
<1>2. FirstOf(H, x, "src") = src /\ FirstOf(H, x, "tgt") = tgt
  BY <1>1 DEF FirstOf
<1>3. \A side \in Sides : /\ BaseAt(H, M, x, side) = 1
                          /\ Base(H, M, x, side) = FirstOf(H, x, side)
  BY <1>1, BaseAtFirst
<1>4. ClaimBase(H, M, x) <=> Claim(src, tgt)
  BY <1>2, <1>3 DEF ClaimBase, Sides
<1>5. ClaimFirst(H, x) <=> Claim(src, tgt)
  BY <1>2 DEF ClaimFirst
<1>6. Kept(H, M, x)
  <2>1. H[x].children \cap M.keeps = {}
    BY DEF Fresh
  <2> QED
    BY <2>1 DEF Kept
<1>7. ASSUME NEW side \in Sides
      PROVE  StepsOn(H, M, x, side)
  <2>1. Len(H[x].hist[side]) = 1 /\ H[x].hist[side][1] \in Programs
    BY <1>1 DEF Sides
  <2> QED
    BY <1>3, <2>1, CertifiesSelf DEF StepsOn
<1> QED
  BY <1>2, <1>4, <1>5, <1>6, <1>7

\* A split whose halves together claim what the goal does, with what a strengthen records of it:
\* the first half may be a proof that its loop keeps a contract.
LEMMA SplitShows ==
  ASSUME NEW G, NEW L, NEW E, Shaped(G, L), SoundBut(G, L, E),
         NEW g \in DOMAIN G, Workable(G, g), NEW n \in Nat, \A x \in DOMAIN G : x < n,
         NEW a \in Roles, NEW b \in Roles, NEW cut \in CutKinds,
         NEW p \in Programs, NEW q \in Programs, NEW u \in Programs, NEW v \in Programs,
         Claim(p, q) /\ Claim(u, v) => ClaimNow(G, g),
         NEW M, M.landed = L.landed,
         M.keeps \subseteq L.keeps \cup {n}, L.keeps \subseteq M.keeps,
         n \in M.keeps => a = "lhs" /\ G[g].role = "callee",
         \A e \in M.by : e \in L.by \/ <<e[1], "src", e[2]>> \in L.landed
                         \/ (e[1] = g /\ n \in M.keeps /\ e[2] = q)
  PROVE  SoundBut(Split(G, g, n, NewGoal(g, a, cut, p, q), NewGoal(g, b, cut, u, v)), M, E)
<1> DEFINE first == NewGoal(g, a, cut, p, q)
           second == NewGoal(g, b, cut, u, v)
           H == Split(G, g, n, first, second)
           R == Reopened(G, g)
<1>1. Typed(G) /\ Linked(G) /\ L \in Logs(DOMAIN G) /\ g \in Nat
  BY DEF Shaped, Typed
<1>2. /\ first \in Goals /\ first.parent = g /\ first.children = {} /\ first.role = a
      /\ second \in Goals /\ second.parent = g /\ second.children = {} /\ second.role = b
      /\ first.status = "open" /\ second.status = "open"
      /\ \A s \in Sides : first.hist[s] # <<>> /\ second.hist[s] # <<>>
  BY <1>1, NewGoalIs
<1>3. /\ first.hist = [s \in Sides |-> IF s = "src" THEN <<p>> ELSE <<q>>]
      /\ second.hist = [s \in Sides |-> IF s = "src" THEN <<u>> ELSE <<v>>]
  BY DEF NewGoal
<1> HIDE DEF first, second
<1>4. \A k \in {first, second} :
        k.parent = g /\ k.children = {} /\ \A s \in Sides : k.hist[s] # <<>>
  BY <1>2
<1>5. SplitOf(G, H, g, n, first, second)
  BY <1>1, <1>2, <1>4, SplitIs
<1>6. SoundBut(R, L, E)
  BY ReopenSound
<1>7. /\ Typed(R) /\ SameGoals(G, R) /\ DOMAIN R = DOMAIN G /\ Linked(R)
      /\ \A x \in DOMAIN G : R[x].hist = G[x].hist
  <2>1. Typed(R) /\ SameGoals(G, R) /\ \A x \in DOMAIN G : R[x].hist = G[x].hist
    BY <1>1, ReopenedIs
  <2> QED
    BY <1>1, <2>1, SameGoalsLinked DEF SameGoals, Typed
<1> HIDE DEF H, R
<1>8. /\ Typed(H) /\ Linked(H) /\ DOMAIN H = DOMAIN G \cup {n, n + 1}
      /\ n \notin DOMAIN G /\ n + 1 \notin DOMAIN G /\ n # n + 1
      /\ H[n] = first /\ H[n + 1] = second
      /\ H[g] = WithKids(R[g], {n, n + 1})
      /\ \A x \in DOMAIN G \ {g} : H[x] = R[x]
  <2>1. \A x \in DOMAIN G : x \in Nat /\ x < n
    BY <1>1 DEF Typed
  <2> QED
    BY <1>5, <2>1 DEF SplitOf, R
<1>9. /\ H[g].hist = R[g].hist /\ H[g].status = "split" /\ H[g].role = R[g].role
      /\ H[g].children = R[g].children \cup {n, n + 1} /\ H[g].parent = R[g].parent
  <2>1. R[g] \in Goals /\ {n, n + 1} \in SUBSET Nat
    BY <1>7 DEF Typed
  <2> QED
    BY <1>8, <2>1, WithKidsIs
<1>10. \A x \in DOMAIN G :
         /\ H[x].hist = R[x].hist /\ H[x].role = R[x].role /\ H[x].parent = R[x].parent
         /\ R[x].children \subseteq H[x].children
         /\ R[x].children \subseteq DOMAIN G
         /\ x # g => H[x].children = R[x].children /\ H[x].status = R[x].status
  BY <1>7, <1>8, <1>9 DEF Linked
<1>11. \A x \in DOMAIN G, s \in Sides :
         /\ BaseAt(H, M, x, s) = BaseAt(R, L, x, s)
         /\ Base(H, M, x, s) = Base(R, L, x, s)
         /\ FirstOf(H, x, s) = FirstOf(R, x, s)
  <2>1. ASSUME NEW x \in DOMAIN G, NEW s \in Sides
        PROVE  /\ BaseAt(H, M, x, s) = BaseAt(R, L, x, s)
               /\ Base(H, M, x, s) = Base(R, L, x, s)
    <3>1. H[x].hist[s] = R[x].hist[s] /\ x \in DOMAIN R /\ x \in DOMAIN H
      BY <1>7, <1>8, <1>10
    <3>2. IsBase(R, L, x, s, BaseAt(R, L, x, s))
      BY <1>7, <3>1, BaseAtIs
    <3>3. IsBase(H, M, x, s, BaseAt(R, L, x, s))
      BY <3>1, <3>2 DEF IsBase
    <3>4. BaseAt(H, M, x, s) = BaseAt(R, L, x, s)
      BY <1>8, <3>1, <3>3, BaseAtOnly
    <3> QED
      BY <3>1, <3>4 DEF Base
  <2> QED
    BY <1>10, <2>1 DEF FirstOf
<1>12. \A x \in DOMAIN G :
         /\ ClaimBase(H, M, x) <=> ClaimBase(R, L, x)
         /\ ClaimFirst(H, x) <=> ClaimFirst(R, x)
         /\ ClaimNow(H, x) <=> ClaimNow(R, x)
         /\ ClaimNow(R, x) <=> ClaimNow(G, x)
  BY <1>7, <1>10, <1>11 DEF ClaimBase, ClaimFirst, ClaimNow, HeadOf, Sides
<1>13. \A s, w : <<n, s, w>> \notin M.landed /\ <<n + 1, s, w>> \notin M.landed
  BY <1>1, <1>8, LogIs
<1>14. Fresh(H, n, p, q) /\ Fresh(H, n + 1, u, v)
  BY <1>2, <1>3, <1>8 DEF Fresh
<1>15. /\ ClaimBase(H, M, n) <=> Claim(p, q)
       /\ FirstOf(H, n, "tgt") = q
       /\ Kept(H, M, n)
       /\ \A s \in Sides : StepsOn(H, M, n, s)
  <2>1. \A s, w : <<n, s, w>> \notin M.landed
    BY <1>13
  <2>2. Typed(H) /\ Fresh(H, n, p, q)
    BY <1>8, <1>14
  <2> QED
    BY ONLY <2>1, <2>2, FreshIs, p \in Programs, q \in Programs
<1>16. /\ ClaimBase(H, M, n + 1) <=> Claim(u, v)
       /\ Kept(H, M, n + 1)
       /\ \A s \in Sides : StepsOn(H, M, n + 1, s)
  <2>1. \A s, w : <<n + 1, s, w>> \notin M.landed
    BY <1>13
  <2> QED
    BY <1>8, <1>14, <2>1, FreshIs
<1>17. \A x \in DOMAIN G : Kept(H, M, x) => Kept(R, L, x)
  <2>1. ASSUME NEW x \in DOMAIN G, Kept(H, M, x), NEW l \in R[x].children \cap L.keeps
        PROVE  ClaimFirst(R, l)
    <3>1. l \in H[x].children \cap M.keeps /\ l \in DOMAIN G
      BY <1>10
    <3> QED
      BY <1>12, <2>1, <3>1 DEF Kept
  <2> QED
    BY <2>1 DEF Kept
<1>18. \A x \in DOMAIN G \ {g} : Kept(R, L, x) => Kept(H, M, x)
  <2>1. ASSUME NEW x \in DOMAIN G \ {g}, Kept(R, L, x), NEW l \in H[x].children \cap M.keeps
        PROVE  ClaimFirst(H, l)
    <3>1. l \in R[x].children \cap L.keeps /\ l \in DOMAIN G
      BY <1>8, <1>10
    <3> QED
      BY <1>12, <2>1, <3>1 DEF Kept
  <2> QED
    BY <2>1 DEF Kept
<1>19. TrueIn(H)
  BY <1>2, <1>6, <1>7, <1>8, <1>9, <1>10, <1>12 DEF SoundBut, TrueIn
<1>20. StepsIn(H, M)
  <2>1. \A x \in DOMAIN G, s \in Sides : StepsOn(H, M, x, s)
    BY <1>6, <1>7, <1>10, <1>11 DEF SoundBut, StepsIn, StepsOn
  <2> QED
    BY <1>8, <1>15, <1>16, <2>1 DEF StepsIn
<1>21. ASSUME NEW x \in DOMAIN H \ E
       PROVE  Discharges(H, M, x)
  <2> SUFFICES ASSUME H[x].status = "split",
                      \A c \in H[x].children : ClaimBase(H, M, c) /\ Kept(H, M, c)
               PROVE  ClaimNow(H, x)
    BY DEF Discharges
  <2>1. CASE x = g
    <3>1. Claim(p, q) /\ Claim(u, v)
      BY <1>9, <1>15, <1>16, <2>1
    <3> QED
      BY <1>12, <2>1, <3>1
  <2>2. CASE x # g
    <3>1. x \in DOMAIN G /\ R[x].status = "split" /\ H[x].children = R[x].children
      BY <1>2, <1>8, <1>10, <2>2
    <3>2. \A c \in R[x].children : ClaimBase(R, L, c) /\ Kept(R, L, c)
      BY <1>10, <1>12, <1>17, <3>1
    <3>3. ClaimNow(R, x)
      BY <1>6, <1>7, <3>1, <3>2 DEF SoundBut, Discharges
    <3> QED
      BY <1>12, <3>1, <3>3
  <2> QED
    BY <2>1, <2>2
<1>22. KeptIn(H, M)
  <2>1. ASSUME NEW x \in DOMAIN G, H[x].status # "split"
        PROVE  Kept(H, M, x)
    BY <1>6, <1>7, <1>9, <1>10, <1>18, <2>1 DEF SoundBut, KeptIn
  <2> QED
    BY <1>8, <1>15, <1>16, <2>1 DEF KeptIn
<1>23. HalvesIn(H, M)
  <2>1. \A e \in M.landed : e[1] \in DOMAIN G
    BY <1>1, LogIs
  <2>2. \A l \in L.keeps : l \in DOMAIN G /\ R[l].parent \in DOMAIN G
    <3>1. \A l \in L.keeps : l \in DOMAIN G /\ l # Root
      BY <1>1, <1>6, <1>7, LogIs DEF SoundBut, HalvesIn
    <3> QED
      BY <1>7, <3>1 DEF Linked
  <2>3. Root \in DOMAIN G
    BY <1>1 DEF Typed
  <2>4. n \in M.keeps => H[n].role = "lhs" /\ H[H[n].parent].role = "callee"
    BY <1>2, <1>7, <1>8, <1>10 DEF SameGoals
  <2> QED
    BY <1>6, <1>10, <2>1, <2>2, <2>3, <2>4 DEF SoundBut, HalvesIn
<1>24. PinnedIn(H, M)
  <2>1. \A e \in M.landed : Holds(H[e[1]].hist[e[2]], e[3])
    <3>1. \A e \in M.landed : e[1] \in DOMAIN G
      BY <1>1, LogIs
    <3> QED
      BY <1>6, <1>10, <3>1 DEF SoundBut, PinnedIn
  <2>2. ASSUME NEW e \in M.by
        PROVE  \/ <<e[1], "src", e[2]>> \in M.landed
               \/ \E l \in H[e[1]].children \cap M.keeps : FirstOf(H, l, "tgt") = e[2]
    <3>1. CASE e \in L.by /\ <<e[1], "src", e[2]>> \notin L.landed
      <4>1. PICK l \in R[e[1]].children \cap L.keeps : FirstOf(R, l, "tgt") = e[2]
        BY <1>6, <3>1 DEF SoundBut, PinnedIn
      <4>2. e[1] \in DOMAIN G
        BY <1>1, <3>1, LogIs
      <4>3. l \in H[e[1]].children \cap M.keeps /\ l \in DOMAIN G
        BY <1>10, <4>1, <4>2
      <4> QED
        BY <1>11, <4>1, <4>3 DEF Sides
    <3>2. CASE <<e[1], "src", e[2]>> \in L.landed
      BY <3>2
    <3>3. CASE e[1] = g /\ n \in M.keeps /\ e[2] = q
      BY <1>9, <1>15, <3>3
    <3> QED
      BY <3>1, <3>2, <3>3
  <2> QED
    BY <2>1, <2>2 DEF PinnedIn
<1>25. RefutedIn(H)
  <2>1. Root \in DOMAIN G
    BY <1>1 DEF Typed
  <2> QED
    BY <1>6, <1>9, <1>10, <1>12, <2>1 DEF SoundBut, RefutedIn
<1> QED
  BY <1>19, <1>20, <1>21, <1>22, <1>23, <1>24, <1>25 DEF SoundBut, H, first, second

-----------------------------------------------------------------------------
(* Proofs, and undoing splits.                                             *)

\* What is sound of a tree reads nothing of the proofs the log holds, and nothing of a side but
\* its programs.
LEMMA ViewSame ==
  ASSUME NEW G, NEW H, NEW L, NEW M, Typed(G), Typed(H), M.landed = L.landed,
         NEW x \in DOMAIN G, x \in DOMAIN H, H[x].hist = G[x].hist
  PROVE  /\ \A s \in Sides : StepsOn(G, L, x, s) => StepsOn(H, M, x, s)
         /\ ClaimBase(H, M, x) <=> ClaimBase(G, L, x)
         /\ ClaimFirst(H, x) <=> ClaimFirst(G, x)
         /\ ClaimNow(H, x) <=> ClaimNow(G, x)
         /\ FirstOf(H, x, "tgt") = FirstOf(G, x, "tgt")
<1>1. ASSUME NEW s \in Sides
      PROVE  BaseAt(H, M, x, s) = BaseAt(G, L, x, s)
  <2>1. IsBase(G, L, x, s, BaseAt(G, L, x, s))
    BY BaseAtIs
  <2>2. IsBase(H, M, x, s, BaseAt(G, L, x, s))
    BY <2>1 DEF IsBase
  <2> QED
    BY <2>2, BaseAtOnly
<1>2. \A s \in Sides : StepsOn(G, L, x, s) => StepsOn(H, M, x, s)
  BY <1>1 DEF StepsOn
<1>3. ClaimBase(H, M, x) <=> ClaimBase(G, L, x)
  BY <1>1 DEF ClaimBase, Base, Sides
<1> QED
  BY <1>2, <1>3 DEF ClaimFirst, ClaimNow, FirstOf, HeadOf

\* What a proof settles is true: each split goal above it is shown by its children.
LEMMA SettledTrue ==
  ASSUME NEW G, NEW L, Shaped(G, L), SoundBut(G, L, {}),
         NEW g \in DOMAIN G, Workable(G, g), ClaimNow(G, g)
  PROVE  \A a \in Settled(G, g) : ClaimNow(G, a) /\ Kept(G, L, a)
<1> DEFINE T == Settled(G, g)
           S == {a \in T : ClaimNow(G, a) /\ Kept(G, L, a)}
<1>1. Typed(G) /\ Linked(G) /\ L \in Logs(DOMAIN G)
  BY DEF Shaped
<1>2. \A x \in DOMAIN G : ClaimNow(G, x) => ClaimBase(G, L, x)
  BY <1>1, NowShowsBase DEF SoundBut
<1>3. \A x \in DOMAIN G : x = g \/ G[x].status = "proved" => ClaimNow(G, x) /\ Kept(G, L, x)
  BY DEF SoundBut, TrueIn, KeptIn, Workable
<1>4. ASSUME NEW a \in WithChildren(G, "split"),
             \E c \in G[a].children : c = g \/ c \in S,
             \A c \in G[a].children : c = g \/ c \in S \/ G[c].status = "proved"
      PROVE  a \in S
  <2>1. a \in DOMAIN G /\ G[a].status = "split" /\ G[a].children \subseteq DOMAIN G
    BY <1>1 DEF WithChildren, Linked
  <2>2. a \in T
    <3>1. \E c \in G[a].children : c = g \/ c \in T
      BY <1>4
    <3>2. \A c \in G[a].children : c = g \/ c \in T \/ G[c].status = "proved"
      BY <1>4
    <3> QED
      BY <2>1, <3>1, <3>2, SettledAll
  <2>3. \A c \in G[a].children : ClaimNow(G, c) /\ Kept(G, L, c)
    BY <1>3, <1>4, <2>1
  <2>4. \A c \in G[a].children : ClaimBase(G, L, c) /\ Kept(G, L, c)
    BY <1>2, <2>1, <2>3
  <2>5. ClaimNow(G, a)
    BY <2>1, <2>4 DEF SoundBut, Discharges
  <2>6. Kept(G, L, a)
    <3>1. ASSUME NEW l \in G[a].children \cap L.keeps
          PROVE  ClaimFirst(G, l)
      <4>1. l \in DOMAIN G /\ G[l].role \notin {"outer", "callee"}
        BY <2>1 DEF SoundBut, HalvesIn
      <4>2. ClaimBase(G, L, l) <=> ClaimFirst(G, l)
        BY <1>1, <4>1, BaseOfUnlanded DEF SoundBut
      <4> QED
        BY <2>4, <4>2
    <3> QED
      BY <3>1 DEF Kept
  <2> QED
    BY <2>2, <2>5, <2>6
<1>5. SettleClosed(G, g, S)
  <2> HIDE DEF S
  <2> QED
    BY <1>4 DEF SettleClosed
<1>6. S \in SUBSET WithChildren(G, "split")
  BY DEF Settled
<1>7. \A a \in T : a \in S
  <2> HIDE DEF S
  <2> QED
    BY <1>5, <1>6 DEF Settled
<1> QED
  BY <1>7

\* A proof of a pair that is true.
LEMMA ProofSound ==
  ASSUME NEW G, NEW L, Shaped(G, L), SoundBut(G, L, {}),
         NEW g \in DOMAIN G, Workable(G, g), ClaimNow(G, g)
  PROVE  SoundBut(Proved(G, g), WithProof(G, L, g), {})
<1> DEFINE H == Proved(G, g)
           T == Settled(G, g)
           M == WithProof(G, L, g)
<1>1. Typed(G) /\ Linked(G) /\ L \in Logs(DOMAIN G)
  BY DEF Shaped
<1>2. M.landed = L.landed /\ M.by = L.by /\ M.keeps = L.keeps
  BY <1>1 DEF WithProof, Logs
<1>3. /\ Typed(H) /\ SameGoals(G, H) /\ DOMAIN H = DOMAIN G
      /\ \A x \in DOMAIN G : H[x].hist = G[x].hist
      /\ \A x \in DOMAIN G :
           H[x].status = IF x \in {g} \cup T THEN "proved" ELSE G[x].status
  BY <1>1, WithStatusIs DEF Proved, SameGoals, Statuses
<1>4. \A a \in T : ClaimNow(G, a) /\ Kept(G, L, a)
  BY SettledTrue
<1> HIDE DEF H, T, M
<1>5. \A x \in DOMAIN G :
        /\ \A s \in Sides : StepsOn(G, L, x, s) => StepsOn(H, M, x, s)
        /\ ClaimBase(H, M, x) <=> ClaimBase(G, L, x)
        /\ ClaimFirst(H, x) <=> ClaimFirst(G, x)
        /\ ClaimNow(H, x) <=> ClaimNow(G, x)
        /\ FirstOf(H, x, "tgt") = FirstOf(G, x, "tgt")
  BY <1>1, <1>2, <1>3, ViewSame
<1>6. \A x \in DOMAIN G : H[x].children = G[x].children /\ G[x].children \subseteq DOMAIN G
  BY <1>1, <1>3 DEF SameGoals, Linked
<1>7. \A x \in DOMAIN G : Kept(H, M, x) <=> Kept(G, L, x)
  BY <1>2, <1>5, <1>6 DEF Kept
<1>8. TrueIn(H)
  BY <1>3, <1>4, <1>5 DEF TrueIn, SoundBut
<1>9. StepsIn(H, M)
  BY <1>3, <1>5 DEF StepsIn, SoundBut
<1>10. \A x \in DOMAIN H : Discharges(H, M, x)
  BY <1>3, <1>5, <1>6, <1>7 DEF Discharges, SoundBut
<1>11. KeptIn(H, M)
  BY <1>3, <1>4, <1>7 DEF KeptIn, SoundBut, Workable
<1>12. HalvesIn(H, M)
  <2>1. HalvesIn(H, L)
    BY <1>3, HalvesKept DEF SoundBut
  <2> QED
    BY <1>2, <2>1 DEF HalvesIn
<1>13. PinnedIn(H, M)
  <2>1. \A x \in DOMAIN G, s \in Sides : \A p : <<x, s, p>> \in L.landed => Holds(H[x].hist[s], p)
    BY <1>3 DEF SoundBut, PinnedIn
  <2>2. PinnedIn(H, L)
    BY <1>3, <1>5, <2>1, PinnedKept DEF SoundBut
  <2> QED
    BY <1>2, <2>2 DEF PinnedIn
<1>14. RefutedIn(H)
  BY <1>1, <1>3, <1>5 DEF RefutedIn, SoundBut, Typed
<1> QED
  BY <1>8, <1>9, <1>10, <1>11, <1>12, <1>13, <1>14 DEF SoundBut, H, M

\* What a proof leaves is a tree and a log of it.
LEMMA ProofShaped ==
  ASSUME NEW G, NEW L, Shaped(G, L), NEW g \in DOMAIN G
  PROVE  Shaped(Proved(G, g), WithProof(G, L, g))
<1>1. Typed(G) /\ Linked(G) /\ L \in Logs(DOMAIN G) /\ Root \in DOMAIN G
  BY DEF Shaped, Typed
<1>2. Typed(Proved(G, g)) /\ SameGoals(G, Proved(G, g))
  BY <1>1, WithStatusIs DEF Proved, Statuses
<1>3. Linked(Proved(G, g)) /\ DOMAIN Proved(G, g) = DOMAIN G
  BY <1>1, <1>2, SameGoalsLinked DEF SameGoals
<1>4. HeadOf(G, g, "src") \in Programs /\ HeadOf(G, g, "tgt") \in Programs
  BY <1>1, HeadIs DEF Sides
<1>5. WithProof(G, L, g) \in Logs(DOMAIN G)
  BY <1>1, <1>4 DEF WithProof, Logs
<1> QED
  BY <1>2, <1>3, <1>5 DEF Shaped

\* The eager check after a move.
LEMMA EagerSound ==
  ASSUME NEW G, NEW L, Shaped(G, L), SoundBut(G, L, {}),
         NEW g \in DOMAIN G, Workable(G, g), NEW r \in ThenEager(G, L, g)
  PROVE  Shaped(r.tree, r.log) /\ SoundBut(r.tree, r.log, {})
<1>1. \/ r = [tree |-> G, log |-> L]
      \/ r = [tree |-> Proved(G, g), log |-> WithProof(G, L, g)] /\ ClaimNow(G, g)
  BY DEF ThenEager
<1> QED
  BY <1>1, ProofSound, ProofShaped

\* An undo of a split that holds no proof that a loop keeps a contract.
LEMMA UndoSound ==
  ASSUME NEW G, NEW L, Shaped(G, L), SoundBut(G, L, {}),
         NEW g \in DOMAIN G, G[g].children \cap L.keeps = {}
  PROVE  SoundBut(Unsplit(G, g), Pruned(Unsplit(G, g), L), {})
<1> DEFINE H == Unsplit(G, g)
           M == Pruned(H, L)
<1>1. Typed(G) /\ Linked(G) /\ L \in Logs(DOMAIN G)
  BY DEF Shaped
<1>2. UnsplitOf(G, H, g)
  BY <1>1, UnsplitIs
<1> HIDE DEF H
<1>3. /\ Typed(H) /\ Linked(H) /\ DOMAIN H \subseteq DOMAIN G /\ g \in DOMAIN H
      /\ Root \in DOMAIN H
      /\ H[g] = [G[g] EXCEPT !.status = "open", !.children = {}]
      /\ \A x \in DOMAIN H \ {g} : H[x] = G[x]
  BY <1>2 DEF UnsplitOf, Typed
<1>4. /\ H[g].hist = G[g].hist /\ H[g].role = G[g].role /\ H[g].parent = G[g].parent
      /\ H[g].status = "open" /\ H[g].children = {}
  <2>1. G[g] \in Goals
    BY <1>1 DEF Typed
  <2> QED
    BY <1>3, <2>1 DEF Goals
<1>5. /\ M.landed = {e \in L.landed : e[1] \in DOMAIN H}
      /\ M.by = {e \in L.by : e[1] \in DOMAIN H}
      /\ M.keeps = L.keeps \cap DOMAIN H
  BY DEF Pruned
<1> HIDE DEF M
<1>6. ASSUME NEW x \in DOMAIN H
      PROVE  /\ \A s \in Sides : StepsOn(G, L, x, s) => StepsOn(H, M, x, s)
             /\ ClaimBase(H, M, x) <=> ClaimBase(G, L, x)
             /\ ClaimFirst(H, x) <=> ClaimFirst(G, x)
             /\ ClaimNow(H, x) <=> ClaimNow(G, x)
             /\ FirstOf(H, x, "tgt") = FirstOf(G, x, "tgt")
  <2>1. x \in DOMAIN G /\ H[x].hist = G[x].hist
    BY <1>3, <1>4
  <2>2. ASSUME NEW s \in Sides
        PROVE  BaseAt(H, M, x, s) = BaseAt(G, L, x, s)
    <3>1. IsBase(G, L, x, s, BaseAt(G, L, x, s))
      BY <1>1, <2>1, BaseAtIs
    <3>2. \A w : <<x, s, w>> \in M.landed <=> <<x, s, w>> \in L.landed
      BY <1>5
    <3>3. IsBase(H, M, x, s, BaseAt(G, L, x, s))
      BY <2>1, <3>1, <3>2 DEF IsBase
    <3> QED
      BY <1>3, <3>3, BaseAtOnly
  <2>3. \A s \in Sides : StepsOn(G, L, x, s) => StepsOn(H, M, x, s)
    BY <2>1, <2>2 DEF StepsOn
  <2>4. ClaimBase(H, M, x) <=> ClaimBase(G, L, x)
    BY <2>1, <2>2 DEF ClaimBase, Base, Sides
  <2> QED
    BY <2>1, <2>3, <2>4 DEF ClaimFirst, ClaimNow, FirstOf, HeadOf
<1>7. \A x \in DOMAIN H \ {g} : H[x].children = G[x].children /\ G[x].children \subseteq DOMAIN H
  BY <1>3 DEF Linked
<1>8. \A x \in DOMAIN H : Kept(H, M, x) <=> Kept(G, L, x)
  <2>1. Kept(H, M, g) /\ Kept(G, L, g)
    <3>1. H[g].children \cap M.keeps = {}
      BY <1>4
    <3> QED
      BY <3>1 DEF Kept
  <2>2. ASSUME NEW x \in DOMAIN H \ {g}
        PROVE  Kept(H, M, x) <=> Kept(G, L, x)
    <3>1. H[x].children \cap M.keeps = G[x].children \cap L.keeps
      BY <1>5, <1>7
    <3>2. G[x].children \cap L.keeps \subseteq DOMAIN H
      BY <1>7
    <3> QED
      BY <1>6, <3>1, <3>2 DEF Kept
  <2> QED
    BY <2>1, <2>2
<1>9. TrueIn(H)
  BY <1>3, <1>4, <1>6 DEF TrueIn, SoundBut
<1>10. StepsIn(H, M)
  BY <1>3, <1>6 DEF StepsIn, SoundBut
<1>11. \A x \in DOMAIN H : Discharges(H, M, x)
  BY <1>3, <1>4, <1>6, <1>7, <1>8 DEF Discharges, SoundBut
<1>12. KeptIn(H, M)
  <2>1. \A x \in DOMAIN H : H[x].status # "split" => Kept(G, L, x)
    <3>1. Kept(G, L, g)
      BY DEF Kept
    <3> QED
      BY <1>3, <3>1 DEF KeptIn, SoundBut
  <2> QED
    BY <1>8, <2>1 DEF KeptIn
<1>13. HalvesIn(H, M)
  <2>1. \A x \in DOMAIN H : H[x].role = G[x].role /\ H[x].parent = G[x].parent
    BY <1>3, <1>4
  <2>2. \A l \in M.keeps : l \in L.keeps /\ l \in DOMAIN H /\ H[l].parent \in DOMAIN H
    <3>1. \A l \in M.keeps : l \in L.keeps /\ l \in DOMAIN H /\ l # Root
      BY <1>5 DEF SoundBut, HalvesIn
    <3> QED
      BY <1>3, <3>1 DEF Linked
  <2> QED
    BY <1>3, <1>5, <2>1, <2>2 DEF SoundBut, HalvesIn
<1>14. PinnedIn(H, M)
  <2>1. \A e \in M.landed : Holds(H[e[1]].hist[e[2]], e[3])
    BY <1>3, <1>4, <1>5 DEF SoundBut, PinnedIn
  <2>2. ASSUME NEW e \in M.by
        PROVE  \/ <<e[1], "src", e[2]>> \in M.landed
               \/ \E l \in H[e[1]].children \cap M.keeps : FirstOf(H, l, "tgt") = e[2]
    <3>1. e \in L.by /\ e[1] \in DOMAIN H
      BY <1>5
    <3>2. CASE <<e[1], "src", e[2]>> \in L.landed
      BY <1>5, <3>1, <3>2
    <3>3. CASE <<e[1], "src", e[2]>> \notin L.landed
      <4>1. PICK l \in G[e[1]].children \cap L.keeps : FirstOf(G, l, "tgt") = e[2]
        BY <3>1, <3>3 DEF SoundBut, PinnedIn
      <4>2. e[1] # g
        BY <4>1
      <4>3. l \in H[e[1]].children \cap M.keeps /\ l \in DOMAIN H
        BY <1>5, <1>7, <3>1, <4>1, <4>2
      <4> QED
        BY <1>6, <4>1, <4>3
    <3> QED
      BY <3>2, <3>3
  <2> QED
    BY <2>1, <2>2 DEF PinnedIn
<1>15. RefutedIn(H)
  BY <1>3, <1>4, <1>6 DEF RefutedIn, SoundBut
<1> QED
  BY <1>9, <1>10, <1>11, <1>12, <1>13, <1>14, <1>15 DEF SoundBut, H, M

\* A counterexample to the pair the run was asked about.
LEMMA RefuteSound ==
  ASSUME NEW G, NEW L, Shaped(G, L), SoundBut(G, L, {}), ~ClaimFirst(G, Root)
  PROVE  SoundBut(Refuted(G, Root), L, {})
<1> DEFINE H == Refuted(G, Root)
<1>1. Typed(G) /\ Linked(G) /\ L \in Logs(DOMAIN G) /\ Root \in DOMAIN G
  BY DEF Shaped, Typed
<1>2. /\ Typed(H) /\ SameGoals(G, H) /\ DOMAIN H = DOMAIN G
      /\ \A x \in DOMAIN G : H[x].hist = G[x].hist
      /\ \A x \in DOMAIN G : H[x].status = IF x = Root THEN "refuted" ELSE G[x].status
  BY <1>1, WithStatusIs DEF Refuted, SameGoals, Statuses
<1> HIDE DEF H
<1>3. \A x \in DOMAIN G :
        /\ \A s \in Sides : StepsOn(G, L, x, s) => StepsOn(H, L, x, s)
        /\ ClaimBase(H, L, x) <=> ClaimBase(G, L, x)
        /\ ClaimFirst(H, x) <=> ClaimFirst(G, x)
        /\ ClaimNow(H, x) <=> ClaimNow(G, x)
        /\ FirstOf(H, x, "tgt") = FirstOf(G, x, "tgt")
  BY <1>1, <1>2, ViewSame
<1>4. \A x \in DOMAIN G : H[x].children = G[x].children /\ G[x].children \subseteq DOMAIN G
  BY <1>1, <1>2 DEF SameGoals, Linked
<1>5. \A x \in DOMAIN G : Kept(H, L, x) <=> Kept(G, L, x)
  BY <1>3, <1>4 DEF Kept
<1>6. Kept(G, L, Root)
  <2>1. \A l \in G[Root].children \cap L.keeps : G[l].parent = Root
    BY <1>1 DEF Linked
  <2>2. G[Root].children \cap L.keeps = {}
    BY <2>1 DEF SoundBut, HalvesIn
  <2> QED
    BY <2>2 DEF Kept
<1>7. TrueIn(H)
  BY <1>2, <1>3 DEF TrueIn, SoundBut
<1>8. StepsIn(H, L)
  BY <1>2, <1>3 DEF StepsIn, SoundBut
<1>9. \A x \in DOMAIN H : Discharges(H, L, x)
  BY <1>2, <1>3, <1>4, <1>5 DEF Discharges, SoundBut
<1>10. KeptIn(H, L)
  BY <1>2, <1>5, <1>6 DEF KeptIn, SoundBut
<1>11. HalvesIn(H, L)
  BY <1>2, HalvesKept DEF SoundBut
<1>12. PinnedIn(H, L)
  <2>1. \A x \in DOMAIN G, s \in Sides : \A p : <<x, s, p>> \in L.landed => Holds(H[x].hist[s], p)
    BY <1>2 DEF SoundBut, PinnedIn
  <2> QED
    BY <1>2, <1>3, <2>1, PinnedKept DEF SoundBut
<1>13. RefutedIn(H)
  BY <1>1, <1>3 DEF RefutedIn
<1> QED
  BY <1>7, <1>8, <1>9, <1>10, <1>11, <1>12, <1>13 DEF SoundBut, H

-----------------------------------------------------------------------------
(* The actions.                                                            *)

\* The invariant of the tree says it is a tree with a log of it.
LEMMA TreeShaped ==
  ASSUME TreeInv
  PROVE  /\ Shaped(tree, log) /\ Good(tree, log, nextGoal)
         /\ nextGoal \in Nat /\ \A x \in DOMAIN tree : x < nextGoal
BY DEF TreeInv, Good, Sound, Shaped

\* A revert keeps the invariant: it never goes back past what a contract or a split rests on
\* (session.ts revert).
LEMMA RevertTrue ==
  ASSUME TreeInv, SoundBut(tree, log, {}),
         NEW g \in DOMAIN tree, NEW side \in Sides, NEW to \in Programs, Revert(g, side, to)
  PROVE  SoundBut(tree', log', {})
<1> DEFINE h == tree[g].hist[side]
<1>1. /\ Workable(tree, g) /\ Holds(h, to) /\ ~UndoesStrengthen(g, side, to)
      /\ tree' = Reverted(tree, g, side, to) /\ log' = log
  BY DEF Revert
<1>2. Shaped(tree, log) /\ h \in Seq(Programs)
  BY TreeShaped, HistIs DEF Shaped
<1>3. ASSUME NEW p, <<g, side, p>> \in log.landed
      PROVE  LastIndexOf(h, p) <= LastIndexOf(h, to)
  <2>1. Holds(h, p)
    BY <1>3 DEF SoundBut, PinnedIn
  <2>2. ~(LastIndexOf(h, p) > LastIndexOf(h, to))
    BY <1>1, <1>3, <2>1 DEF UndoesStrengthen
  <2>3. LastIndexOf(h, p) \in 1..Len(h) /\ LastIndexOf(h, to) \in 1..Len(h)
    BY <1>1, <1>2, <2>1, LastIndexOfIs
  <2> QED
    BY <1>2, <2>2, <2>3
<1> QED
  BY <1>1, <1>2, <1>3, RevertSound

\* A step that its side allows, and the eager check of the new pair.
LEMMA LandStepTrue ==
  ASSUME TreeInv, SoundBut(tree, log, {}),
         NEW g \in DOMAIN tree, NEW side \in Sides, NEW to \in Programs,
         Workable(tree, g), Certifies(side, HeadOf(tree, g, side), to), LandStep(g, side, to)
  PROVE  SoundBut(tree', log', {})
<1> DEFINE G == Stepped(tree, g, side, to)
<1>1. Shaped(tree, log) /\ Typed(tree) /\ Linked(tree) /\ Root \in DOMAIN tree
  BY TreeShaped DEF Shaped, Typed
<1>2. PICK r \in ThenEager(G, log, g) : tree' = r.tree /\ log' = r.log
  BY DEF LandStep, Land
<1>3. SoundBut(G, log, {})
  BY <1>1, StepSound
<1>4. Moved(tree, G, g, [tree[g].hist EXCEPT ![side] = Append(tree[g].hist[side], to)])
  BY <1>1, SteppedIs
<1> HIDE DEF G
<1>5. Touched(tree, G, {g})
  BY <1>1, <1>4, TouchedNothing, TouchedMore DEF Siblings
<1>6. Shaped(G, log) /\ Workable(G, g) /\ g \in DOMAIN G
  BY <1>1, <1>5, SameGoalsLinked DEF Shaped, Touched, SameGoals
<1> QED
  BY <1>2, <1>3, <1>6, EagerSound

\* An unfold is a step that both sides allow, where no contract was proved at the goal.
LEMMA UnfoldTrue ==
  ASSUME TreeInv, SoundBut(tree, log, {}), ~TakesBackProof,
         NEW g \in DOMAIN tree, NEW side \in Sides, NEW to \in Programs, Unfold(g, side, to)
  PROVE  SoundBut(tree', log', {})
<1>1. Workable(tree, g) /\ ~HoldsContract(g) /\ LandStep(g, side, to)
  BY DEF Unfold
<1>2. Certifies(side, HeadOf(tree, g, side), to)
  <2>1. CASE \A e \in log.by : e[1] # g
    BY <2>1 DEF Unfold, Sides
  <2>2. CASE \E e \in log.by : e[1] = g
    <3>1. PICK e \in log.by : e[1] = g
      BY <2>2
    <3>2. <<g, "src", e[2]>> \notin log.landed
      <4>1. <<g, "src", e[2]>> \in log.landed => Holds(tree[g].hist["src"], e[2])
        BY DEF SoundBut, PinnedIn
      <4> QED
        BY <1>1, <3>1, <4>1 DEF HoldsContract
    <3>3. InterposedByStrengthen(g)
      BY <3>1, <3>2 DEF SoundBut, PinnedIn, InterposedByStrengthen
    <3> QED
      BY <3>3 DEF TakesBackProof
  <2> QED
    BY <2>1, <2>2
<1> QED
  BY <1>1, <1>2, LandStepTrue

\* A certified commit keeps the invariant: its step is one the kernel certifies (transactions.ts).
LEMMA CommitTrue ==
  ASSUME TreeInv, SoundBut(tree, log, {}), CommitCertified
  PROVE  SoundBut(tree', log', {})
<1>1. txn.gid \in DOMAIN tree /\ txn.side \in Sides /\ txn.text \in Programs
  BY DEF TreeInv, TxnOn, Txns, CommitCertified
<1> QED
  BY <1>1, LandStepTrue DEF CommitCertified

\* The two halves of a split are pairs just asked about.
LEMMA NewHalves ==
  ASSUME NEW G, Typed(G), Linked(G), NEW g \in DOMAIN G, NEW n \in Nat, \A x \in DOMAIN G : x < n,
         NEW a \in Roles, NEW b \in Roles, NEW cut \in CutKinds,
         NEW p \in Programs, NEW q \in Programs, NEW u \in Programs, NEW v \in Programs
  PROVE  LET H == Split(G, g, n, NewGoal(g, a, cut, p, q), NewGoal(g, b, cut, u, v))
         IN  Typed(H) /\ Linked(H) /\ Fresh(H, n, p, q) /\ Fresh(H, n + 1, u, v)
<1> DEFINE first == NewGoal(g, a, cut, p, q)
           second == NewGoal(g, b, cut, u, v)
           H == Split(G, g, n, first, second)
<1>1. g \in Nat
  BY DEF Typed
<1>2. /\ first \in Goals /\ first.parent = g /\ first.children = {} /\ first.status = "open"
      /\ second \in Goals /\ second.parent = g /\ second.children = {} /\ second.status = "open"
      /\ \A s \in Sides : first.hist[s] # <<>> /\ second.hist[s] # <<>>
  BY <1>1, NewGoalIs
<1>3. /\ first.hist = [s \in Sides |-> IF s = "src" THEN <<p>> ELSE <<q>>]
      /\ second.hist = [s \in Sides |-> IF s = "src" THEN <<u>> ELSE <<v>>]
  BY DEF NewGoal
<1> HIDE DEF first, second
<1>4. \A k \in {first, second} :
        k.parent = g /\ k.children = {} /\ \A s \in Sides : k.hist[s] # <<>>
  BY <1>2
<1>5. SplitOf(G, H, g, n, first, second)
  BY <1>2, <1>4, SplitIs
<1> HIDE DEF H
<1>6. Fresh(H, n, p, q) /\ Fresh(H, n + 1, u, v)
  BY <1>2, <1>3, <1>5 DEF SplitOf, Fresh
<1>7. Typed(H) /\ Linked(H)
  BY <1>5 DEF SplitOf
<1> QED
  BY <1>6, <1>7 DEF H, first, second

\* A cut keeps the invariant: the claims of its two halves show that of the goal (session.ts cut).
LEMMA CutTrue ==
  ASSUME TreeInv, SoundBut(tree, log, {}), NEW g \in DOMAIN tree, Cut(g)
  PROVE  SoundBut(tree', log', {})
<1>1. PICK os \in Programs, ot \in Programs, cs \in Programs, ct \in Programs,
           kind \in {"plain", "loop"} :
        /\ Claim(os, ot) /\ Claim(cs, ct) => ClaimNow(tree, g)
        /\ tree' = CutIn(tree, g, nextGoal, kind, os, ot, cs, ct)
  BY DEF Cut
<1>2. Workable(tree, g) /\ log' = log
  BY DEF Cut, Splittable
<1>3. nextGoal \notin log.keeps
  BY TreeShaped, LogIs DEF Shaped
<1>4. kind \in CutKinds /\ "outer" \in Roles /\ "callee" \in Roles
  BY DEF CutKinds, Roles
<1> QED
  BY <1>1, <1>2, <1>3, <1>4, TreeShaped, SplitShows DEF CutIn

\* The callee of a cut of the src alone is proved by the cut: it is one program on both sides.
LEMMA CutAloneTrue ==
  ASSUME TreeInv, SoundBut(tree, log, {}), NEW g \in DOMAIN tree, CutAlone(g)
  PROVE  SoundBut(tree', log', {})
<1>1. PICK os \in Programs, body \in Programs :
        /\ Claim(os, HeadOf(tree, g, "tgt")) => ClaimNow(tree, g)
        /\ LET G == CutIn(tree, g, nextGoal, "alone", os, HeadOf(tree, g, "tgt"), body, body)
           IN  tree' = Proved(G, nextGoal + 1) /\ log' = WithProof(G, log, nextGoal + 1)
  BY DEF CutAlone, Land
<1> DEFINE ot == HeadOf(tree, g, "tgt")
           G == CutIn(tree, g, nextGoal, "alone", os, ot, body, body)
<1>2. tree' = Proved(G, nextGoal + 1) /\ log' = WithProof(G, log, nextGoal + 1)
  BY <1>1
<1>3. Workable(tree, g)
  BY DEF CutAlone, Splittable
<1>4. /\ Shaped(tree, log) /\ Typed(tree) /\ Linked(tree) /\ Good(tree, log, nextGoal)
      /\ nextGoal \in Nat /\ \A x \in DOMAIN tree : x < nextGoal
  BY TreeShaped DEF Shaped
<1>5. ot \in Programs
  BY <1>4, HeadIs DEF Sides
<1>6. nextGoal \notin log.keeps
  BY <1>4, LogIs DEF Shaped
<1>7. "alone" \in CutKinds /\ "outer" \in Roles /\ "callee" \in Roles
  BY DEF CutKinds, Roles
<1>8. Claim(os, ot) => ClaimNow(tree, g)
  BY <1>1
<1> HIDE DEF ot
<1>9. SoundBut(G, log, {})
  BY <1>3, <1>4, <1>5, <1>6, <1>7, <1>8, SplitShows DEF CutIn
<1>10. Typed(G) /\ Linked(G) /\ Fresh(G, nextGoal + 1, body, body)
  BY <1>4, <1>5, <1>7, NewHalves DEF CutIn
<1>11. Shaped(G, log)
  BY <1>4, <1>5, NewPairGood, ZenonT(60) DEF CutIn, CutKinds, RolePairs, TwoMore, Good, Sound, Shaped
<1> HIDE DEF G
<1>12. /\ nextGoal + 1 \in DOMAIN G /\ Workable(G, nextGoal + 1)
       /\ ClaimNow(G, nextGoal + 1)
  BY <1>10, RefinesIsPreorder DEF Fresh, Workable, ClaimNow, HeadOf, Claim, Sides
<1> QED
  BY <1>2, <1>9, <1>11, <1>12, ProofSound

\* An interpose keeps the invariant: refinement through a program in between is refinement
\* (session.ts interpose).
LEMMA InterposeTrue ==
  ASSUME TreeInv, SoundBut(tree, log, {}), NEW g \in DOMAIN tree,
         NEW p \in Programs, InterposeAt(g, p)
  PROVE  SoundBut(tree', log', {})
<1>1. Workable(tree, g) /\ log' = log /\ tree' = InterposedAt(tree, g, nextGoal, p)
  BY DEF InterposeAt, Splittable
<1>2. nextGoal \notin log.keeps
  BY TreeShaped, LogIs DEF Shaped
<1>3. HeadOf(tree, g, "src") \in Programs /\ HeadOf(tree, g, "tgt") \in Programs
  BY TreeShaped, HeadIs DEF Shaped, Sides
<1>4. "none" \in CutKinds /\ "lhs" \in Roles /\ "rhs" \in Roles
  BY DEF CutKinds, Roles
<1>5. Claim(HeadOf(tree, g, "src"), p) /\ Claim(p, HeadOf(tree, g, "tgt")) => ClaimNow(tree, g)
  BY <1>3, ClaimOfHalves DEF ClaimNow
<1> QED
  BY <1>1, <1>2, <1>3, <1>4, <1>5, TreeShaped, SplitShows DEF InterposedAt

\* A split by cases keeps the invariant: its cases show the goal (session.ts cases).
LEMMA CaseTrue ==
  ASSUME TreeInv, SoundBut(tree, log, {}), NEW g \in DOMAIN tree, Case(g)
  PROVE  SoundBut(tree', log', {})
<1>1. PICK hs \in Programs, ht \in Programs, fs \in Programs, ft \in Programs :
        /\ Claim(hs, ht) /\ Claim(fs, ft) => ClaimNow(tree, g)
        /\ tree' = CasedIn(tree, g, nextGoal, hs, ht, fs, ft)
  BY DEF Case
<1>2. Workable(tree, g) /\ log' = log
  BY DEF Case, Splittable
<1>3. nextGoal \notin log.keeps
  BY TreeShaped, LogIs DEF Shaped
<1>4. "none" \in CutKinds /\ "holds" \in Roles /\ "fails" \in Roles
  BY DEF CutKinds, Roles
<1> QED
  BY <1>1, <1>2, <1>3, <1>4, TreeShaped, SplitShows DEF CasedIn

\* An undo takes back no proof that a loop keeps a contract: it is of a cut, or refuses to.
LEMMA UndoTrue ==
  ASSUME TreeInv, SoundBut(tree, log, {}), ~TakesBackProof,
         NEW g \in DOMAIN tree, Uncut(g) \/ Uninterpose(g) \/ Uncase(g)
  PROVE  SoundBut(tree', log', {})
<1>1. CASE tree' = tree /\ log' = log
  BY <1>1
<1>2. CASE /\ tree' = Unsplit(tree, g) /\ log' = Pruned(tree', log)
           /\ tree[g].children \cap log.keeps = {}
  BY <1>2, TreeShaped, UndoSound
<1>3. CASE Uncut(g)
  <2>1. \A l \in tree[g].children \cap log.keeps : Interposed(tree, g)
    BY DEF SoundBut, HalvesIn, Interposed, HasRole
  <2> QED
    BY <1>2, <1>3, <2>1 DEF Uncut, CanUncut
<1>4. CASE Uninterpose(g)
  BY <1>1, <1>2, <1>4 DEF Uninterpose, LandUnsplit, InterposedByStrengthen
<1>5. CASE Uncase(g)
  <2>1. CanUncase(tree, g) => ~InterposedByStrengthen(g)
    BY <1>5 DEF TakesBackProof
  <2> QED
    BY <1>1, <1>2, <1>5, <2>1 DEF Uncase, LandUnsplit, InterposedByStrengthen
<1> QED
  BY <1>3, <1>4, <1>5

\* A check that proves a goal keeps the invariant, all the way up the splits it settles
\* (goals.ts settle).
LEMMA CheckTrue ==
  ASSUME TreeInv, SoundBut(tree, log, {}), NEW g \in DOMAIN tree, CheckProves(g)
  PROVE  SoundBut(tree', log', {})
BY TreeShaped, ProofSound DEF CheckProves, Land

\* Only a counterexample to the pair the run was asked about refutes.
LEMMA RefuteTrue ==
  ASSUME TreeInv, SoundBut(tree, log, {}),
         (\E g \in DOMAIN tree : CheckRefutes(g)) \/ ReportCex
  PROVE  SoundBut(tree', log', {})
<1>1. CASE ReportCex
  BY <1>1, TreeShaped, RefuteSound DEF ReportCex
<1>2. CASE \E g \in DOMAIN tree : CheckRefutes(g)
  <2>1. /\ ~ClaimNow(tree, Root) /\ tree' = Refuted(tree, Root) /\ log' = log
        /\ \A side \in Sides : HeadOf(tree, Root, side) = FirstOf(tree, Root, side)
    BY <1>2 DEF CheckRefutes, RootPair
  <2>2. ~ClaimFirst(tree, Root)
    BY <2>1 DEF ClaimNow, ClaimFirst, Sides
  <2> QED
    BY <2>1, <2>2, TreeShaped, RefuteSound
<1> QED
  BY <1>1, <1>2

-----------------------------------------------------------------------------
(* Strengthening.                                                          *)

\* G is T but for what was put at the end of the sides of the goals in S.
Extends(T, G, S) ==
  /\ Touched(T, G, S)
  /\ \A x \in DOMAIN T, s \in Sides :
       /\ Len(T[x].hist[s]) <= Len(G[x].hist[s])
       /\ \A i \in 1..Len(T[x].hist[s]) : G[x].hist[s][i] = T[x].hist[s][i]

\* H has all the programs G has, and the same heads but for those of x.
Onto(T, G, H, x) ==
  /\ \A y \in DOMAIN T, s \in Sides : \A p : Holds(G[y].hist[s], p) => Holds(H[y].hist[s], p)
  /\ \A y \in DOMAIN T \ {x}, s \in Sides : HeadOf(H, y, s) = HeadOf(G, y, s)

\* A side holds the program it is at.
LEMMA HoldsHead ==
  ASSUME NEW G, Typed(G), NEW x \in DOMAIN G, NEW s \in Sides
  PROVE  Holds(G[x].hist[s], HeadOf(G, x, s))
<1>1. Len(G[x].hist[s]) \in 1..Len(G[x].hist[s])
  BY HistIs
<1> QED
  BY <1>1 DEF Holds, HeadOf

\* No step.
LEMMA ExtendsNothing ==
  ASSUME NEW T, NEW S, Typed(T), S \subseteq DOMAIN T, \A x \in S : Workable(T, x)
  PROVE  Extends(T, T, S)
<1>1. Touched(T, T, S)
  BY TouchedNothing
<1>2. \A x \in DOMAIN T, s \in Sides : Len(T[x].hist[s]) <= Len(T[x].hist[s])
  BY HistIs
<1> QED
  BY <1>1, <1>2 DEF Extends

\* One step more.
LEMMA ExtendsStep ==
  ASSUME NEW T, NEW G, NEW S, Extends(T, G, S), Typed(T), Linked(T), Siblings(T, S),
         NEW x \in S, NEW side \in Sides, NEW to \in Programs
  PROVE  LET H == Stepped(G, x, side, to)
         IN  /\ Extends(T, H, S) /\ Onto(T, G, H, x)
             /\ HeadOf(H, x, side) = to
             /\ \A s \in Sides \ {side} : HeadOf(H, x, s) = HeadOf(G, x, s)
<1> DEFINE H == Stepped(G, x, side, to)
           h == G[x].hist[side]
           k == Append(h, to)
<1>1. Typed(G) /\ DOMAIN G = DOMAIN T /\ x \in DOMAIN G /\ S \subseteq DOMAIN T
  BY DEF Extends, Touched, SameGoals, Siblings
<1>2. Moved(G, H, x, [G[x].hist EXCEPT ![side] = k])
  BY <1>1, SteppedIs
<1>3. Touched(T, H, S)
  BY <1>2, TouchedMore DEF Extends
<1>4. G[x].hist \in [Sides -> Seq(Programs)]
  BY <1>1 DEF Typed, Goals
<1> HIDE DEF H
<1>5. /\ H[x].hist[side] = k
      /\ \A s \in Sides \ {side} : H[x].hist[s] = G[x].hist[s]
      /\ \A y \in DOMAIN T \ {x} : H[y].hist = G[y].hist
  BY <1>1, <1>2, <1>4 DEF Moved
<1>6. h \in Seq(Programs) /\ Len(h) \in Nat
  BY <1>1, HistIs
<1>7. Len(k) = Len(h) + 1 /\ k[Len(h) + 1] = to /\ \A i \in 1..Len(h) : k[i] = h[i]
  BY <1>6, AppendIs
<1> HIDE DEF k
<1>8. ASSUME NEW y \in DOMAIN T, NEW s \in Sides
      PROVE  /\ Len(T[y].hist[s]) <= Len(H[y].hist[s])
             /\ \A i \in 1..Len(T[y].hist[s]) : H[y].hist[s][i] = T[y].hist[s][i]
  <2>1. /\ Len(T[y].hist[s]) <= Len(G[y].hist[s])
        /\ \A i \in 1..Len(T[y].hist[s]) : G[y].hist[s][i] = T[y].hist[s][i]
    BY DEF Extends
  <2>2. CASE y = x /\ s = side
    <3> DEFINE t == T[y].hist[s]
    <3>1. Len(t) \in Nat
      BY HistIs
    <3>2. H[y].hist[s] = k /\ G[y].hist[s] = h
      BY <1>5, <2>2
    <3>3. Len(t) <= Len(h) /\ \A i \in 1..Len(t) : h[i] = t[i]
      BY <2>1, <3>2
    <3> HIDE DEF t, h
    <3>4. Len(t) <= Len(k) /\ \A i \in 1..Len(t) : k[i] = t[i]
      BY <1>6, <1>7, <3>1, <3>3
    <3> QED
      BY <3>2, <3>4 DEF t
  <2>3. CASE ~(y = x /\ s = side)
    BY <1>5, <2>1, <2>3
  <2> QED
    BY <2>2, <2>3
<1>9. ASSUME NEW y \in DOMAIN T, NEW s \in Sides, NEW p, Holds(G[y].hist[s], p)
      PROVE  Holds(H[y].hist[s], p)
  <2>1. CASE y = x /\ s = side
    BY <1>5, <1>6, <1>7, <1>9, <2>1, SMTT(40) DEF Holds
  <2>2. CASE ~(y = x /\ s = side)
    BY <1>5, <1>9, <2>2
  <2> QED
    BY <2>1, <2>2
<1>10. HeadOf(H, x, side) = to
  BY <1>5, <1>7 DEF HeadOf
<1>11. /\ \A s \in Sides \ {side} : HeadOf(H, x, s) = HeadOf(G, x, s)
       /\ \A y \in DOMAIN T \ {x}, s \in Sides : HeadOf(H, y, s) = HeadOf(G, y, s)
  BY <1>5 DEF HeadOf
<1> QED
  BY <1>3, <1>8, <1>9, <1>10, <1>11 DEF Extends, Onto, H

\* One step more of both sides.
LEMMA ExtendsBoth ==
  ASSUME NEW T, NEW G, NEW S, Extends(T, G, S), Typed(T), Linked(T), Siblings(T, S),
         NEW x \in S, NEW src \in Programs, NEW tgt \in Programs
  PROVE  LET H == Strengthened(G, x, src, tgt)
         IN  /\ Extends(T, H, S) /\ Onto(T, G, H, x)
             /\ HeadOf(H, x, "src") = src /\ HeadOf(H, x, "tgt") = tgt
<1> DEFINE M == Stepped(G, x, "src", src)
           H == Stepped(M, x, "tgt", tgt)
<1>1. "src" \in Sides /\ "tgt" \in Sides \ {"src"} /\ "src" \in Sides \ {"tgt"}
  BY DEF Sides
<1>2. Extends(T, M, S) /\ Onto(T, G, M, x) /\ HeadOf(M, x, "src") = src
  BY <1>1, ExtendsStep
<1> HIDE DEF M
<1>3. /\ Extends(T, H, S) /\ Onto(T, M, H, x) /\ HeadOf(H, x, "tgt") = tgt
      /\ HeadOf(H, x, "src") = HeadOf(M, x, "src")
  BY <1>1, <1>2, ExtendsStep
<1>4. Strengthened(G, x, src, tgt) = H
  BY DEF Strengthened, M
<1> HIDE DEF H
<1>5. Onto(T, G, H, x)
  BY <1>2, <1>3 DEF Onto
<1> QED
  BY <1>2, <1>3, <1>4, <1>5

\* The facts a strengthen lands on the two halves are pinned there, and all is sound but the
\* split they change, which the contract has to show.
LEMMA RecordedShows ==
  ASSUME TreeInv, SoundBut(tree, log, {}), NEW g \in DOMAIN tree, CanStrengthen(g),
         NEW G, Extends(tree, G, {Outer(g), Callee(g)}),
         NEW outer \in SUBSET (Sides \X Programs), NEW callee \in SUBSET (Sides \X Programs),
         NEW by,
         \A e \in outer : Holds(G[Outer(g)].hist[e[1]], e[2]),
         \A e \in callee : Holds(G[Callee(g)].hist[e[1]], e[2]),
         \A s \in Sides : <<s, HeadOf(G, Outer(g), s)>> \in outer,
         \A s \in Sides : <<s, HeadOf(G, Callee(g), s)>> \in callee,
         \A e \in by : \/ e[1] = Outer(g) /\ <<"src", e[2]>> \in outer
                       \/ e[1] = Callee(g) /\ <<"src", e[2]>> \in callee
  PROVE  SoundBut(G, Recorded(g, outer, callee, by, {}), {g})
<1> DEFINE o == Outer(g)
           c == Callee(g)
           S == {o, c}
           M == Recorded(g, outer, callee, by, {})
           onO == {<<o, e[1], e[2]>> : e \in outer}
           onC == {<<c, e[1], e[2]>> : e \in callee}
<1>1. /\ Shaped(tree, log) /\ Typed(tree) /\ Linked(tree) /\ log \in Logs(DOMAIN tree)
  BY TreeShaped DEF Shaped
<1>2. /\ o \in DOMAIN tree /\ c \in DOMAIN tree
      /\ tree[o].role = "outer" /\ tree[c].role = "callee"
      /\ tree[o].parent = g /\ tree[c].parent = g
  BY <1>1, HalvesAre DEF Linked
<1>3. M.landed = log.landed \cup onO \cup onC /\ M.by = log.by \cup by /\ M.keeps = log.keeps
  BY <1>1 DEF Recorded, Logs
<1> HIDE DEF M
<1>4. \A e \in outer \cup callee : e = <<e[1], e[2]>> /\ e[1] \in Sides
  OBVIOUS
<1>5. /\ Extends(tree, G, S) /\ Touched(tree, G, S) /\ Typed(G) /\ SameGoals(tree, G)
      /\ DOMAIN G = DOMAIN tree
  BY DEF Extends, Touched, SameGoals
<1>6. /\ \A s, p : <<s, p>> \in outer => <<o, s, p>> \in M.landed
      /\ \A s, p : <<s, p>> \in callee => <<c, s, p>> \in M.landed
  <2>1. \A s, p : <<s, p>> \in outer => <<o, <<s, p>>[1], <<s, p>>[2]>> \in onO
    OBVIOUS
  <2>2. \A s, p : <<s, p>> \in callee => <<c, <<s, p>>[1], <<s, p>>[2]>> \in onC
    OBVIOUS
  <2> QED
    BY <1>3, <2>1, <2>2
<1>7. \A e \in onO \cup onC : e[1] \in S /\ Holds(G[e[1]].hist[e[2]], e[3])
  OBVIOUS
<1>8. \A x \in DOMAIN tree \ S : \A side, p :
        <<x, side, p>> \in M.landed <=> <<x, side, p>> \in log.landed
  BY <1>3, <1>7
<1> HIDE DEF onO, onC
<1>9. ASSUME NEW x \in S, NEW s \in Sides
      PROVE  FirstOf(G, x, s) = FirstOf(tree, x, s) /\ StepsOn(G, M, x, s)
  <2>1. x \in DOMAIN tree /\ x \in DOMAIN G
    BY <1>2, <1>5
  <2>2. 1 \in 1..Len(tree[x].hist[s])
    BY <1>1, <2>1, HistIs
  <2>3. FirstOf(G, x, s) = FirstOf(tree, x, s)
    BY <1>5, <2>1, <2>2 DEF Extends, FirstOf
  <2>4. <<x, s, HeadOf(G, x, s)>> \in M.landed
    BY <1>6
  <2>5. BaseAt(G, M, x, s) = Len(G[x].hist[s])
    <3>1. Typed(G)
      BY <1>5 DEF Extends, Touched
    <3> QED
      BY <2>1, <2>4, <3>1, BaseAtHeads
  <2>6. Len(G[x].hist[s]) \in Nat /\ \A i \in 1..Len(G[x].hist[s]) : G[x].hist[s][i] \in Programs
    BY <1>5, <2>1, HistIs
  <2>7. ASSUME NEW j \in 1..Len(G[x].hist[s]), NEW i \in Len(G[x].hist[s])..j
        PROVE  Certifies(s, G[x].hist[s][i], G[x].hist[s][j])
    <3>1. i = j
      BY <2>6
    <3> QED
      BY <2>6, <3>1, CertifiesSelf
  <2> QED
    BY <2>3, <2>5, <2>7 DEF StepsOn
<1>10. \A x \in DOMAIN tree, s \in Sides : \A p : Holds(tree[x].hist[s], p) => Holds(G[x].hist[s], p)
  <2>1. ASSUME NEW x \in DOMAIN tree, NEW s \in Sides, NEW p, Holds(tree[x].hist[s], p)
        PROVE  Holds(G[x].hist[s], p)
    <3> DEFINE t == tree[x].hist[s]
               u == G[x].hist[s]
    <3>1. Len(t) \in Nat /\ Len(u) \in Nat
      BY <1>1, <1>5, HistIs
    <3>2. Len(t) <= Len(u) /\ \A i \in 1..Len(t) : u[i] = t[i]
      BY <1>5 DEF Extends
    <3>3. Holds(t, p)
      BY <2>1
    <3> HIDE DEF t, u
    <3>4. Holds(u, p)
      BY <3>1, <3>2, <3>3 DEF Holds
    <3> QED
      BY <3>4 DEF u
  <2> QED
    BY <2>1
<1>11. HalvesIn(G, M)
  <2>1. HalvesIn(G, log)
    BY <1>1, <1>5, HalvesKept DEF SoundBut
  <2>2. G[o].role = "outer" /\ G[c].role = "callee"
    BY <1>2, <1>5 DEF SameGoals
  <2>3. \A e \in onO \cup onC : G[e[1]].role \in {"outer", "callee"}
    BY <1>7, <2>2 DEF onO, onC
  <2> QED
    BY <1>3, <2>1, <2>3 DEF HalvesIn
<1>12. PinnedIn(G, M)
  <2>1. \A x \in DOMAIN tree, s \in Sides : \A p : <<x, s, p>> \in log.landed => Holds(G[x].hist[s], p)
    BY <1>10 DEF SoundBut, PinnedIn
  <2>2. \A x \in DOMAIN tree : FirstOf(G, x, "tgt") = FirstOf(tree, x, "tgt")
    <3>1. ASSUME NEW x \in DOMAIN tree
          PROVE  FirstOf(G, x, "tgt") = FirstOf(tree, x, "tgt")
      <4>1. "tgt" \in Sides
        BY DEF Sides
      <4>2. 1 \in 1..Len(tree[x].hist["tgt"])
        BY <1>1, <4>1, HistIs
      <4> QED
        BY <1>5, <4>1, <4>2 DEF Extends, FirstOf
    <3> QED
      BY <3>1
  <2>3. PinnedIn(G, log)
    BY <1>1, <1>5, <2>1, <2>2, PinnedKept DEF SoundBut
  <2>4. \A e \in by : <<e[1], "src", e[2]>> \in M.landed
    BY <1>6
  <2>5. \A e \in M.landed : Holds(G[e[1]].hist[e[2]], e[3])
    BY <1>3, <1>7, <2>3 DEF PinnedIn, onO, onC
  <2> QED
    BY <1>3, <2>3, <2>4, <2>5 DEF PinnedIn
<1>13. SoundBut(tree, log, {g})
  BY DEF SoundBut
<1>14. S \subseteq DOMAIN tree /\ \A x \in S : tree[x].parent \in {g}
  BY <1>2
<1> HIDE DEF S, o, c
<1>15. SoundBut(G, M, {g})
  BY <1>1, <1>3, <1>5, <1>8, <1>9, <1>11, <1>12, <1>13, <1>14, TouchedSound
<1> QED
  BY <1>15 DEF M

\* With its contract shown, each half that is not split is checked.
LEMMA LandContractTrue ==
  ASSUME NEW g, NEW G, NEW L, Shaped(G, L), SoundBut(G, L, {g}), LandContract(g, G, L),
         Outer(g) \in DOMAIN G, Callee(g) \in DOMAIN G,
         G[Outer(g)].status # "refuted", G[Callee(g)].status # "refuted"
  PROVE  SoundBut(tree', log', {})
<1> DEFINE o == Outer(g)
           c == Callee(g)
           eager(r, x) == IF r.tree[x].status = "split" THEN {r} ELSE ThenEager(r.tree, r.log, x)
           start == [tree |-> G, log |-> L]
<1>1. SoundBut(G, L, {})
  BY DEF SoundBut, LandContract
<1>2. PICK r \in eager(start, c) : \E q \in eager(r, o) : Land(q)
  BY DEF LandContract
<1>3. PICK q \in eager(r, o) : tree' = q.tree /\ log' = q.log
  BY <1>2 DEF Land
<1>4. start.tree = G /\ start.log = L
  OBVIOUS
<1> HIDE DEF start, o, c
<1>5. o \in DOMAIN G /\ c \in DOMAIN G /\ G[o].status # "refuted" /\ G[c].status # "refuted"
  BY DEF o, c
<1>6. /\ Shaped(r.tree, r.log) /\ SoundBut(r.tree, r.log, {})
      /\ o \in DOMAIN r.tree /\ r.tree[o].status # "refuted"
  <2>1. CASE r = start
    BY <1>1, <1>4, <1>5, <2>1
  <2>2. CASE r # start
    <3>1. G[c].status # "split" /\ r \in ThenEager(G, L, c)
      BY <1>2, <1>4, <2>2
    <3>2. Shaped(r.tree, r.log) /\ SoundBut(r.tree, r.log, {})
      BY <1>1, <1>5, <3>1, EagerSound DEF Workable
    <3>3. r.tree = G \/ r.tree = Proved(G, c)
      BY <3>1 DEF ThenEager
    <3>4. o \in DOMAIN r.tree /\ r.tree[o].status # "refuted"
      BY <1>5, <3>3, WithStatusIs DEF Proved, SameGoals, Statuses, Shaped
    <3> QED
      BY <3>2, <3>4
  <2> QED
    BY <2>1, <2>2
<1>7. CASE q = r
  BY <1>3, <1>6, <1>7
<1>8. CASE q # r
  <2>1. r.tree[o].status # "split" /\ q \in ThenEager(r.tree, r.log, o)
    BY <1>3, <1>8
  <2> QED
    BY <1>3, <1>6, <2>1, EagerSound DEF Workable
<1> QED
  BY <1>7, <1>8

\* The steps of the outer, and the programs it then holds.
LEMMA OuterExtends ==
  ASSUME TreeInv, NEW g \in DOMAIN tree, CanStrengthen(g),
         NEW os \in Programs, NEW fs \in Programs, NEW ot \in Programs
  PROVE  LET G == OnOuter(g, os, fs, ot)
         IN  /\ Extends(tree, G, {Outer(g), Callee(g)})
             /\ HeadOf(G, Outer(g), "src") = fs /\ HeadOf(G, Outer(g), "tgt") = ot
             /\ Holds(G[Outer(g)].hist["src"], os)
<1> DEFINE o == Outer(g)
           S == {Outer(g), Callee(g)}
           F == Stepped(tree, o, "src", os)
           B == IF fs = os THEN F ELSE Stepped(F, o, "src", fs)
           O == Stepped(B, o, "tgt", ot)
<1>1. /\ Typed(tree) /\ Linked(tree) /\ Siblings(tree, S) /\ o \in S /\ o \in DOMAIN tree
      /\ \A x \in S : Workable(tree, x)
  BY TreeShaped, HalvesAre DEF Shaped, Siblings, Linked, CanStrengthen
<1>2. Extends(tree, tree, S)
  BY <1>1, ExtendsNothing DEF Siblings
<1>3. "src" \in Sides /\ "tgt" \in Sides \ {"src"} /\ "src" \in Sides \ {"tgt"} /\ "tgt" \in Sides
  BY DEF Sides
<1> HIDE DEF S, o
<1>4. Extends(tree, F, S) /\ HeadOf(F, o, "src") = os
  BY <1>1, <1>2, <1>3, ExtendsStep
<1> HIDE DEF F
<1>5. Holds(F[o].hist["src"], os)
  BY <1>1, <1>3, <1>4, HoldsHead DEF Extends, Touched, SameGoals
<1>6. Extends(tree, B, S) /\ HeadOf(B, o, "src") = fs /\ Holds(B[o].hist["src"], os)
  <2>1. CASE fs = os
    BY <1>4, <1>5, <2>1
  <2>2. CASE fs # os
    <3>1. B = Stepped(F, o, "src", fs)
      BY <2>2
    <3>2. /\ Extends(tree, Stepped(F, o, "src", fs), S) /\ Onto(tree, F, Stepped(F, o, "src", fs), o)
          /\ HeadOf(Stepped(F, o, "src", fs), o, "src") = fs
      BY <1>1, <1>3, <1>4, ExtendsStep
    <3> HIDE DEF B
    <3> QED
      BY <1>1, <1>3, <1>5, <3>1, <3>2 DEF Onto
  <2> QED
    BY <2>1, <2>2
<1> HIDE DEF B
<1>7. /\ Extends(tree, O, S) /\ Onto(tree, B, O, o) /\ HeadOf(O, o, "tgt") = ot
      /\ HeadOf(O, o, "src") = HeadOf(B, o, "src")
  BY <1>1, <1>3, <1>6, ExtendsStep
<1>8. OnOuter(g, os, fs, ot) = O
  BY DEF OnOuter, O, B, F, o
<1> HIDE DEF O
<1> QED
  BY <1>1, <1>3, <1>6, <1>7, <1>8 DEF Onto, S, o

\* A contract that opens no interpose.
LEMMA ContractTrue ==
  ASSUME TreeInv, SoundBut(tree, log, {}), NEW g \in DOMAIN tree, CanStrengthen(g),
         NEW G, Extends(tree, G, {Outer(g), Callee(g)}),
         NEW outer \in SUBSET (Sides \X Programs), NEW callee \in SUBSET (Sides \X Programs),
         NEW by \in SUBSET ({Outer(g), Callee(g)} \X Programs),
         \A e \in outer : Holds(G[Outer(g)].hist[e[1]], e[2]),
         \A e \in callee : Holds(G[Callee(g)].hist[e[1]], e[2]),
         \A s \in Sides : <<s, HeadOf(G, Outer(g), s)>> \in outer,
         \A s \in Sides : <<s, HeadOf(G, Callee(g), s)>> \in callee,
         \A e \in by : \/ e[1] = Outer(g) /\ <<"src", e[2]>> \in outer
                       \/ e[1] = Callee(g) /\ <<"src", e[2]>> \in callee,
         LandContract(g, G, Recorded(g, outer, callee, by, {}))
  PROVE  SoundBut(tree', log', {})
<1> DEFINE L == Recorded(g, outer, callee, by, {})
<1>1. SoundBut(G, L, {g})
  BY RecordedShows
<1>2. /\ Typed(G) /\ SameGoals(tree, G) /\ DOMAIN G = DOMAIN tree
      /\ Workable(G, Outer(g)) /\ Workable(G, Callee(g))
  BY DEF Extends, Touched, SameGoals
<1>3. Outer(g) \in DOMAIN G /\ Callee(g) \in DOMAIN G
  BY <1>2, HalvesAre
<1>4. L \in Logs(DOMAIN G)
  BY <1>2, RecordedIs
<1>5. Linked(G)
  BY <1>2, TreeShaped, SameGoalsLinked DEF Shaped, Typed
<1>6. LandContract(g, G, L)
  OBVIOUS
<1> HIDE DEF L
<1> QED
  BY <1>1, <1>2, <1>3, <1>4, <1>5, <1>6, LandContractTrue DEF Shaped, Workable

\* A contract of facts on the parameters or on the function.
LEMMA StrengthenTrue ==
  ASSUME TreeInv, SoundBut(tree, log, {}), NEW g \in DOMAIN tree, Strengthen(g)
  PROVE  SoundBut(tree', log', {})
<1>1. CanStrengthen(g)
  BY DEF Strengthen
<1>2. PICK os \in Programs, fs \in Programs, ot \in Programs,
           cs \in Programs, ct \in Programs, entry \in BOOLEAN :
        LandContract(g, Strengthened(OnOuter(g, os, fs, ot), Callee(g), cs, ct),
          Recorded(g, {<<"src", os>>, <<"src", fs>>, <<"tgt", ot>>}, {<<"src", cs>>, <<"tgt", ct>>},
                   IF entry THEN {<<Outer(g), os>>} ELSE {}, {}))
  BY ZenonT(60) DEF Strengthen
<1> DEFINE O == OnOuter(g, os, fs, ot)
           G == Strengthened(O, Callee(g), cs, ct)
           S == {Outer(g), Callee(g)}
           outer == {<<"src", os>>, <<"src", fs>>, <<"tgt", ot>>}
           callee == {<<"src", cs>>, <<"tgt", ct>>}
           by == IF entry THEN {<<Outer(g), os>>} ELSE {}
           L == Recorded(g, outer, callee, by, {})
<1>3. LandContract(g, G, L)
  BY <1>2
<1>4. /\ Typed(tree) /\ Linked(tree) /\ Siblings(tree, S) /\ Callee(g) \in S
      /\ Outer(g) \in DOMAIN tree /\ Callee(g) \in DOMAIN tree /\ Outer(g) # Callee(g)
  BY <1>1, TreeShaped, HalvesAre DEF Shaped, Siblings, Linked
<1>5. /\ Extends(tree, O, S)
      /\ HeadOf(O, Outer(g), "src") = fs /\ HeadOf(O, Outer(g), "tgt") = ot
      /\ Holds(O[Outer(g)].hist["src"], os)
  BY <1>1, OuterExtends
<1> HIDE DEF O
<1>6. /\ Extends(tree, G, S) /\ Onto(tree, O, G, Callee(g))
      /\ HeadOf(G, Callee(g), "src") = cs /\ HeadOf(G, Callee(g), "tgt") = ct
  BY ONLY <1>4, <1>5, ExtendsBoth, cs \in Programs, ct \in Programs
<1> HIDE DEF G
<1>7. /\ HeadOf(G, Outer(g), "src") = fs /\ HeadOf(G, Outer(g), "tgt") = ot
      /\ Holds(G[Outer(g)].hist["src"], os)
  BY <1>4, <1>5, <1>6 DEF Onto, Sides
<1>8. Typed(G) /\ DOMAIN G = DOMAIN tree /\ \A x \in S : Workable(G, x)
  BY <1>6 DEF Extends, Touched, SameGoals
<1>9. /\ Holds(G[Outer(g)].hist["src"], fs) /\ Holds(G[Outer(g)].hist["tgt"], ot)
      /\ Holds(G[Callee(g)].hist["src"], cs) /\ Holds(G[Callee(g)].hist["tgt"], ct)
  BY <1>4, <1>6, <1>7, <1>8, HoldsHead DEF Sides
<1>10. /\ outer \in SUBSET (Sides \X Programs) /\ callee \in SUBSET (Sides \X Programs)
       /\ \A e \in outer : Holds(G[Outer(g)].hist[e[1]], e[2])
       /\ \A e \in callee : Holds(G[Callee(g)].hist[e[1]], e[2])
  BY <1>7, <1>9 DEF Sides
<1>11. /\ \A s \in Sides : <<s, HeadOf(G, Outer(g), s)>> \in outer
       /\ \A s \in Sides : <<s, HeadOf(G, Callee(g), s)>> \in callee
  BY <1>6, <1>7 DEF Sides
<1>12. \A e \in by : e[1] = Outer(g) /\ <<"src", e[2]>> \in outer
  OBVIOUS
<1>13. by \in SUBSET ({Outer(g), Callee(g)} \X Programs)
  OBVIOUS
<1> HIDE DEF outer, callee, by
<1> QED
  BY <1>1, <1>3, <1>6, <1>10, <1>11, <1>12, <1>13, ContractTrue
\* A loop that keeps its contract by a step of the callee's src.
LEMMA StrengthenLoopTrue ==
  ASSUME TreeInv, SoundBut(tree, log, {}), NEW g \in DOMAIN tree, StrengthenLoop(g)
  PROVE  SoundBut(tree', log', {})
<1>1. CanStrengthen(g)
  BY DEF StrengthenLoop
<1>2. PICK os \in Programs, ot \in Programs, cs \in Programs, ct \in Programs, kept \in Programs :
        LandContract(g,
          Stepped(Strengthened(OnOuter(g, os, os, ot), Callee(g), cs, ct), Callee(g), "src", kept),
          Recorded(g, {<<"src", os>>, <<"tgt", ot>>}, {<<"src", cs>>, <<"src", kept>>, <<"tgt", ct>>},
                   {<<Outer(g), os>>, <<Callee(g), kept>>}, {}))
  BY DEF StrengthenLoop
<1> DEFINE O == OnOuter(g, os, os, ot)
           on == Strengthened(O, Callee(g), cs, ct)
           G == Stepped(on, Callee(g), "src", kept)
           S == {Outer(g), Callee(g)}
           outer == {<<"src", os>>, <<"tgt", ot>>}
           callee == {<<"src", cs>>, <<"src", kept>>, <<"tgt", ct>>}
           by == {<<Outer(g), os>>, <<Callee(g), kept>>}
           L == Recorded(g, outer, callee, by, {})
<1>3. LandContract(g, G, L)
  BY <1>2
<1>4. /\ Typed(tree) /\ Linked(tree) /\ Siblings(tree, S) /\ Callee(g) \in S
      /\ Outer(g) \in DOMAIN tree /\ Callee(g) \in DOMAIN tree /\ Outer(g) # Callee(g)
  BY <1>1, TreeShaped, HalvesAre DEF Shaped, Siblings, Linked
<1>5. /\ Extends(tree, O, S)
      /\ HeadOf(O, Outer(g), "src") = os /\ HeadOf(O, Outer(g), "tgt") = ot
  BY <1>1, OuterExtends
<1> HIDE DEF O
<1>6. /\ Extends(tree, on, S) /\ Onto(tree, O, on, Callee(g))
      /\ HeadOf(on, Callee(g), "src") = cs /\ HeadOf(on, Callee(g), "tgt") = ct
  BY <1>4, <1>5, ExtendsBoth
<1> HIDE DEF on
<1>7. "src" \in Sides /\ "tgt" \in Sides \ {"src"}
  BY DEF Sides
<1>8. /\ Extends(tree, G, S) /\ Onto(tree, on, G, Callee(g))
      /\ HeadOf(G, Callee(g), "src") = kept /\ HeadOf(G, Callee(g), "tgt") = ct
  BY <1>4, <1>6, <1>7, ExtendsStep
<1> HIDE DEF G
<1>9. HeadOf(G, Outer(g), "src") = os /\ HeadOf(G, Outer(g), "tgt") = ot
  BY <1>4, <1>5, <1>6, <1>8 DEF Onto, Sides
<1>10. Typed(G) /\ DOMAIN G = DOMAIN tree /\ Typed(on) /\ DOMAIN on = DOMAIN tree
  BY <1>6, <1>8 DEF Extends, Touched, SameGoals
<1>11. Holds(G[Callee(g)].hist["src"], cs)
  <2>1. Holds(on[Callee(g)].hist["src"], cs)
    BY <1>4, <1>6, <1>7, <1>10, HoldsHead
  <2> QED
    BY <1>4, <1>7, <1>8, <2>1 DEF Onto
<1>12. /\ Holds(G[Outer(g)].hist["src"], os) /\ Holds(G[Outer(g)].hist["tgt"], ot)
       /\ Holds(G[Callee(g)].hist["src"], kept) /\ Holds(G[Callee(g)].hist["tgt"], ct)
  BY <1>4, <1>8, <1>9, <1>10, HoldsHead DEF Sides
<1>13. /\ outer \in SUBSET (Sides \X Programs) /\ callee \in SUBSET (Sides \X Programs)
       /\ by \in SUBSET ({Outer(g), Callee(g)} \X Programs)
       /\ \A e \in outer : Holds(G[Outer(g)].hist[e[1]], e[2])
       /\ \A e \in callee : Holds(G[Callee(g)].hist[e[1]], e[2])
  BY <1>11, <1>12 DEF Sides
<1>14. /\ \A s \in Sides : <<s, HeadOf(G, Outer(g), s)>> \in outer
       /\ \A s \in Sides : <<s, HeadOf(G, Callee(g), s)>> \in callee
  BY <1>8, <1>9 DEF Sides
<1>15. \A e \in by : \/ e[1] = Outer(g) /\ <<"src", e[2]>> \in outer
                     \/ e[1] = Callee(g) /\ <<"src", e[2]>> \in callee
  OBVIOUS
<1> HIDE DEF outer, callee, by
<1> QED
  BY <1>1, <1>3, <1>8, <1>13, <1>14, <1>15, ContractTrue

\* Facts on what the function returns, which both halves take together.
LEMMA StrengthenReturnTrue ==
  ASSUME TreeInv, SoundBut(tree, log, {}), NEW g \in DOMAIN tree, StrengthenReturn(g)
  PROVE  SoundBut(tree', log', {})
<1>1. CanStrengthen(g)
  BY DEF StrengthenReturn
<1>2. PICK os \in Programs, ot \in Programs, cs \in Programs, ct \in Programs :
        LandContract(g, Strengthened(Strengthened(tree, Callee(g), cs, ct), Outer(g), os, ot),
          Recorded(g, {<<"src", os>>, <<"tgt", ot>>}, {<<"src", cs>>, <<"tgt", ct>>}, {}, {}))
  BY DEF StrengthenReturn
<1> DEFINE on == Strengthened(tree, Callee(g), cs, ct)
           G == Strengthened(on, Outer(g), os, ot)
           S == {Outer(g), Callee(g)}
           outer == {<<"src", os>>, <<"tgt", ot>>}
           callee == {<<"src", cs>>, <<"tgt", ct>>}
           L == Recorded(g, outer, callee, {}, {})
<1>3. LandContract(g, G, L)
  BY <1>2
<1>4. /\ Typed(tree) /\ Linked(tree) /\ Siblings(tree, S) /\ Callee(g) \in S /\ Outer(g) \in S
      /\ Outer(g) \in DOMAIN tree /\ Callee(g) \in DOMAIN tree /\ Outer(g) # Callee(g)
      /\ \A x \in S : Workable(tree, x)
  BY <1>1, TreeShaped, HalvesAre DEF Shaped, Siblings, Linked, CanStrengthen
<1>5. Extends(tree, tree, S)
  BY <1>4, ExtendsNothing DEF Siblings
<1>6. /\ Extends(tree, on, S)
      /\ HeadOf(on, Callee(g), "src") = cs /\ HeadOf(on, Callee(g), "tgt") = ct
  BY ONLY <1>4, <1>5, ExtendsBoth, cs \in Programs, ct \in Programs
<1> HIDE DEF on
<1>7. /\ Extends(tree, G, S) /\ Onto(tree, on, G, Outer(g))
      /\ HeadOf(G, Outer(g), "src") = os /\ HeadOf(G, Outer(g), "tgt") = ot
  BY <1>4, <1>6, ExtendsBoth
<1> HIDE DEF G
<1>8. HeadOf(G, Callee(g), "src") = cs /\ HeadOf(G, Callee(g), "tgt") = ct
  BY <1>4, <1>6, <1>7 DEF Onto, Sides
<1>9. Typed(G) /\ DOMAIN G = DOMAIN tree
  BY <1>7 DEF Extends, Touched, SameGoals
<1>10. /\ Holds(G[Outer(g)].hist["src"], os) /\ Holds(G[Outer(g)].hist["tgt"], ot)
       /\ Holds(G[Callee(g)].hist["src"], cs) /\ Holds(G[Callee(g)].hist["tgt"], ct)
  BY <1>4, <1>7, <1>8, <1>9, HoldsHead DEF Sides
<1>11. /\ outer \in SUBSET (Sides \X Programs) /\ callee \in SUBSET (Sides \X Programs)
       /\ \A e \in outer : Holds(G[Outer(g)].hist[e[1]], e[2])
       /\ \A e \in callee : Holds(G[Callee(g)].hist[e[1]], e[2])
  BY <1>10 DEF Sides
<1>12. /\ \A s \in Sides : <<s, HeadOf(G, Outer(g), s)>> \in outer
       /\ \A s \in Sides : <<s, HeadOf(G, Callee(g), s)>> \in callee
  BY <1>7, <1>8 DEF Sides
<1> HIDE DEF outer, callee
<1> QED
  BY <1>1, <1>3, <1>7, <1>11, <1>12, ContractTrue

\* A loop within the loop: the callee is interposed where one iteration keeps the contract.
LEMMA StrengthenNestedTrue ==
  ASSUME TreeInv, SoundBut(tree, log, {}), NEW g \in DOMAIN tree, StrengthenNested(g)
  PROVE  SoundBut(tree', log', {})
<1>1. CanStrengthen(g)
  BY DEF StrengthenNested
<1>2. PICK os \in Programs, ot \in Programs, cs \in Programs, ct \in Programs, kept \in Programs :
        LandContract(g,
          InterposedAt(Strengthened(OnOuter(g, os, os, ot), Callee(g), cs, ct), Callee(g), nextGoal, kept),
          Recorded(g, {<<"src", os>>, <<"tgt", ot>>}, {<<"src", cs>>, <<"tgt", ct>>},
                   {<<Outer(g), os>>, <<Callee(g), kept>>}, {nextGoal}))
  BY DEF StrengthenNested
<1> DEFINE o == Outer(g)
           c == Callee(g)
           S == {Outer(g), Callee(g)}
           n == nextGoal
           O == OnOuter(g, os, os, ot)
           on == Strengthened(O, Callee(g), cs, ct)
           G == InterposedAt(on, Callee(g), nextGoal, kept)
           outer == {<<"src", os>>, <<"tgt", ot>>}
           callee == {<<"src", cs>>, <<"tgt", ct>>}
           most == {<<Outer(g), os>>}
           by == {<<Outer(g), os>>, <<Callee(g), kept>>}
           L == Recorded(g, outer, callee, most, {})
           M == Recorded(g, outer, callee, by, {nextGoal})
<1>3. LandContract(g, G, M)
  BY <1>2
<1>4. /\ Typed(tree) /\ Linked(tree) /\ Siblings(tree, S) /\ c \in S /\ o \in S
      /\ o \in DOMAIN tree /\ c \in DOMAIN tree /\ o # c /\ tree[c].role = "callee"
  BY <1>1, TreeShaped, HalvesAre DEF Shaped, Siblings, Linked
<1>5. n \in Nat /\ (\A x \in DOMAIN tree : x < n) /\ log \in Logs(DOMAIN tree)
  BY TreeShaped DEF Shaped
<1>6. /\ Extends(tree, O, S)
      /\ HeadOf(O, o, "src") = os /\ HeadOf(O, o, "tgt") = ot
  BY <1>1, OuterExtends
<1> HIDE DEF O
<1>7. /\ Extends(tree, on, S) /\ Onto(tree, O, on, c)
      /\ HeadOf(on, c, "src") = cs /\ HeadOf(on, c, "tgt") = ct
  <2>1. /\ Extends(tree, O, S) /\ Typed(tree) /\ Linked(tree) /\ Siblings(tree, S) /\ c \in S
        /\ cs \in Programs /\ ct \in Programs
    BY <1>4, <1>6
  <2> HIDE DEF S, c
  <2>2. LET H == Strengthened(O, c, cs, ct)
        IN  /\ Extends(tree, H, S) /\ Onto(tree, O, H, c)
            /\ HeadOf(H, c, "src") = cs /\ HeadOf(H, c, "tgt") = ct
    BY ONLY <2>1, ExtendsBoth
  <2> QED
    BY <2>2 DEF c
<1> HIDE DEF on
<1>8. HeadOf(on, o, "src") = os /\ HeadOf(on, o, "tgt") = ot
  BY <1>4, <1>6, <1>7 DEF Onto, Sides
<1>9. /\ Typed(on) /\ SameGoals(tree, on) /\ DOMAIN on = DOMAIN tree /\ Linked(on)
      /\ Workable(on, o) /\ Workable(on, c) /\ on[c].role = "callee"
  BY <1>4, <1>7, SameGoalsLinked DEF Extends, Touched, SameGoals, Typed
<1>10. /\ Holds(on[o].hist["src"], os) /\ Holds(on[o].hist["tgt"], ot)
       /\ Holds(on[c].hist["src"], cs) /\ Holds(on[c].hist["tgt"], ct)
  BY <1>4, <1>7, <1>8, <1>9, HoldsHead DEF Sides
<1>11. /\ outer \in SUBSET (Sides \X Programs) /\ callee \in SUBSET (Sides \X Programs)
       /\ most \in SUBSET ({Outer(g), Callee(g)} \X Programs)
       /\ by \in SUBSET ({Outer(g), Callee(g)} \X Programs)
       /\ \A e \in outer : Holds(on[o].hist[e[1]], e[2])
       /\ \A e \in callee : Holds(on[c].hist[e[1]], e[2])
  BY <1>10 DEF Sides
<1>12. /\ \A s \in Sides : <<s, HeadOf(on, o, s)>> \in outer
       /\ \A s \in Sides : <<s, HeadOf(on, c, s)>> \in callee
       /\ \A e \in most : e[1] = o /\ <<"src", e[2]>> \in outer
  BY <1>7, <1>8 DEF Sides
<1>13. /\ M.landed = L.landed /\ M.by = L.by \cup {<<c, kept>>} /\ M.keeps = L.keeps \cup {n}
       /\ L.keeps = log.keeps
  BY <1>5 DEF Recorded, Logs
<1> HIDE DEF outer, callee, most, by
<1>14. SoundBut(on, L, {g})
  BY <1>1, <1>7, <1>11, <1>12, RecordedShows
<1>15. Shaped(on, L)
  BY <1>1, <1>9, <1>11, RecordedIs DEF Shaped
<1>16. HeadOf(on, c, "src") \in Programs /\ HeadOf(on, c, "tgt") \in Programs
  BY <1>7
<1>17. Claim(HeadOf(on, c, "src"), kept) /\ Claim(kept, HeadOf(on, c, "tgt")) => ClaimNow(on, c)
  BY <1>16, ClaimOfHalves DEF ClaimNow
<1>18. "none" \in CutKinds /\ "lhs" \in Roles /\ "rhs" \in Roles
  BY DEF CutKinds, Roles
<1>19. TwoMore(on, G, log, n)
  <2>1. Good(on, log, n)
    <3>1. Onward(tree, O, log, nextGoal, Outer(g), Callee(g))
      BY <1>1, OnwardOuter DEF O
    <3>2. Onward(tree, on, log, nextGoal, Outer(g), Callee(g))
      BY <1>4, <3>1, OnwardBoth DEF on
    <3> QED
      BY <3>2 DEF Onward
  <2> QED
    BY <1>4, <1>9, <1>16, <2>1, NewPairGood DEF InterposedAt, CutKinds, RolePairs
<1> HIDE DEF L, M
<1>20. SoundBut(G, M, {g})
  <2>1. \A e \in M.by : e \in L.by \/ (e[1] = c /\ n \in M.keeps /\ e[2] = kept)
    BY <1>13
  <2> QED
    BY <1>4, <1>5, <1>9, <1>13, <1>14, <1>15, <1>16, <1>17, <1>18, <2>1, SplitShows DEF InterposedAt
<1>21. /\ Typed(G) /\ Linked(G) /\ DOMAIN G = DOMAIN tree \cup {n, n + 1}
  BY <1>9, <1>19 DEF TwoMore, Good, Sound
<1>22. Shaped(G, M)
  <2>1. DOMAIN tree \subseteq DOMAIN G /\ {n} \in SUBSET DOMAIN G
    BY <1>21
  <2> QED
    BY <1>1, <1>11, <1>21, <2>1, RecordedIs DEF Shaped, M
<1>23. G[c].status = "split" /\ G[o].status # "refuted"
  <2>1. /\ o # n /\ o # n + 1 /\ c # n /\ c # n + 1 /\ o \in DOMAIN on /\ c \in DOMAIN on
    <3>1. o \in Nat /\ c \in Nat
      BY <1>4 DEF Typed
    <3> QED
      BY <1>4, <1>5, <1>9, <3>1
  <2>2. /\ G[c] = WithKids(Reopened(on, c)[c], {n, n + 1})
        /\ G[o] = Reopened(on, c)[o]
    BY <1>4, <2>1 DEF InterposedAt, Split
  <2>3. /\ Reopened(on, c)[c] \in Goals
        /\ Reopened(on, c)[o].status = on[o].status \/ Reopened(on, c)[o].status = "split"
    <3>1. /\ Typed(Reopened(on, c)) /\ SameGoals(on, Reopened(on, c))
          /\ \A x \in DOMAIN on \ {c} :
               Reopened(on, c)[x].status = IF on[c].status = "proved" /\ x \in Unsettled(on, c)
                                           THEN "split" ELSE on[x].status
      BY <1>9, <2>1, ReopenedIs
    <3> QED
      BY <1>4, <2>1, <3>1 DEF Typed, SameGoals
  <2>4. {n, n + 1} \in SUBSET Nat
    BY <1>5
  <2>5. G[c].status = "split"
    BY <2>2, <2>3, <2>4, WithKidsIs
  <2> QED
    BY <1>9, <2>2, <2>3, <2>5 DEF Workable
<1> HIDE DEF G
<1> QED
  BY <1>3, <1>4, <1>20, <1>21, <1>22, <1>23, LandContractTrue

-----------------------------------------------------------------------------
(* Every step, and the theorems.                                           *)

\* The pair the run was asked about is never moved, so a claim about it is about the question.
SoundState == SoundBut(tree, log, {})

\* Every step that takes no proof of a contract back keeps the invariant.
LEMMA NextTrue ==
  ASSUME TreeInv, SoundState, [Next /\ ~TakesBackProof]_vars
  PROVE  SoundState'
<1>1. SoundBut(tree, log, {})
  BY DEF SoundState
<1>2. ASSUME tree' = tree, log' = log
      PROVE  SoundBut(tree', log', {})
  BY <1>1, <1>2
<1>3. ASSUME ~TakesBackProof, NEW g \in DOMAIN tree,
             \/ \E side \in Sides, p \in Programs : Revert(g, side, p)
             \/ \E side \in Sides, p \in Programs : Unfold(g, side, p)
      PROVE  SoundBut(tree', log', {})
  BY <1>1, <1>3, RevertTrue, UnfoldTrue
<1>4. ASSUME NEW g \in DOMAIN tree, NEW p \in Programs, Rewrite(g, p)
      PROVE  SoundBut(tree', log', {})
  BY <1>1, <1>4, LandStepTrue DEF Rewrite, Sides
<1>5. ASSUME NEW g \in DOMAIN tree,
             \/ Cut(g) \/ CutAlone(g) \/ Case(g)
             \/ (\E p \in Programs : InterposeProgram(g, p)) \/ InterposeScratch(g)
      PROVE  SoundBut(tree', log', {})
  <2>1. CASE InterposeScratch(g)
    <3>1. TxnOn(txn, tree) /\ g # NoGoal
      BY DEF TreeInv, Good, Sound, Typed
    <3>2. txn # NoTxn
      BY <2>1, <3>1 DEF InterposeScratch, IsEditing, NoTxn
    <3>3. txn.text \in Programs
      BY <3>1, <3>2 DEF TxnOn, Txns
    <3> QED
      BY <1>1, <2>1, <3>3, InterposeTrue DEF InterposeScratch
  <2>2. CASE \E p \in Programs : InterposeProgram(g, p)
    BY <1>1, <2>2, InterposeTrue DEF InterposeProgram
  <2> QED
    BY <1>1, <1>5, <2>1, <2>2, CutTrue, CutAloneTrue, CaseTrue
<1>6. ASSUME ~TakesBackProof, NEW g \in DOMAIN tree, Uncut(g) \/ Uninterpose(g) \/ Uncase(g)
      PROVE  SoundBut(tree', log', {})
  BY <1>1, <1>6, UndoTrue
<1>7. ASSUME NEW g \in DOMAIN tree,
             Strengthen(g) \/ StrengthenLoop(g) \/ StrengthenNested(g) \/ StrengthenReturn(g)
      PROVE  SoundBut(tree', log', {})
  BY <1>1, <1>7, StrengthenTrue, StrengthenLoopTrue, StrengthenNestedTrue, StrengthenReturnTrue
<1>8. ASSUME CommitCertified
      PROVE  SoundBut(tree', log', {})
  BY <1>1, <1>8, CommitTrue
<1>9. ASSUME \/ \E g \in DOMAIN tree, side \in Sides : Begin(g, side)
             \/ \E text \in Scratches : Edit(text)
             \/ \E immAbort \in BOOLEAN : CommitRefused(immAbort)
             \/ Abort
             \/ Resume
      PROVE  SoundBut(tree', log', {})
  BY <1>2, <1>9 DEF Begin, Edit, CommitRefused, Abort, Resume
<1>10. ASSUME NEW g \in DOMAIN tree, CheckProves(g)
       PROVE  SoundBut(tree', log', {})
  BY <1>1, <1>10, CheckTrue
<1>11. ASSUME (\E g \in DOMAIN tree : CheckRefutes(g)) \/ ReportCex
       PROVE  SoundBut(tree', log', {})
  BY <1>1, <1>11, RefuteTrue
<1>12. CASE UNCHANGED vars
  BY <1>2, <1>12 DEF vars, SoundState
<1>13. ASSUME ~TakesBackProof,
              NEW g \in DOMAIN tree,
              \/ \E side \in Sides, p \in Programs : Revert(g, side, p)
              \/ \E p \in Programs : Rewrite(g, p)
              \/ \E side \in Sides, p \in Programs : Unfold(g, side, p)
              \/ \E side \in Sides : Begin(g, side)
              \/ Cut(g)
              \/ CutAlone(g)
              \/ \E p \in Programs : InterposeProgram(g, p)
              \/ InterposeScratch(g)
              \/ Case(g)
              \/ Uncut(g) \/ Uninterpose(g) \/ Uncase(g)
              \/ Strengthen(g) \/ StrengthenLoop(g) \/ StrengthenReturn(g)
              \/ StrengthenNested(g)
              \/ CheckProves(g) \/ CheckRefutes(g)
       PROVE  SoundBut(tree', log', {})
  BY <1>3, <1>4, <1>5, <1>6, <1>7, <1>9, <1>10, <1>11, <1>13
<1>14. CASE Next /\ ~TakesBackProof
  <2>1. ~TakesBackProof
    BY <1>14
  <2>2. CASE \E g \in DOMAIN tree :
               \/ \E side \in Sides, p \in Programs : Revert(g, side, p)
               \/ \E p \in Programs : Rewrite(g, p)
               \/ \E side \in Sides, p \in Programs : Unfold(g, side, p)
               \/ \E side \in Sides : Begin(g, side)
               \/ Cut(g)
               \/ CutAlone(g)
               \/ \E p \in Programs : InterposeProgram(g, p)
               \/ InterposeScratch(g)
               \/ Case(g)
               \/ Uncut(g) \/ Uninterpose(g) \/ Uncase(g)
               \/ Strengthen(g) \/ StrengthenLoop(g) \/ StrengthenReturn(g)
               \/ StrengthenNested(g)
               \/ CheckProves(g) \/ CheckRefutes(g)
    BY <1>13, <2>1, <2>2 DEF SoundState
  <2>3. CASE \/ \E text \in Scratches : Edit(text)
             \/ \E immAbort \in BOOLEAN : CommitRefused(immAbort)
             \/ CommitCertified
             \/ Abort
             \/ ReportCex
             \/ Resume
    BY <1>8, <1>9, <1>11, <2>3 DEF SoundState
  <2> QED
    BY <1>14, <2>2, <2>3 DEF Next
<1> QED
  BY <1>12, <1>14 DEF SoundState

\* A run starts with one open goal and nothing to rest on.
LEMMA InitTrue ==
  ASSUME Init
  PROVE  SoundState
<1>1. TreeInv
  BY InitHolds
<1>2. PICK src \in Programs, tgt \in Programs : tree = Start(src, tgt)
  BY InputsArePrograms DEF Init
<1>3. /\ DOMAIN tree = {Root} /\ Typed(tree) /\ Root \in DOMAIN tree
      /\ tree[Root].role = "root" /\ Fresh(tree, Root, src, tgt)
  BY <1>1, <1>2, TreeShaped DEF Shaped, Start, NewGoal, Fresh
<1>4. log.landed = {} /\ log.by = {} /\ log.keeps = {}
  BY DEF Init, EmptyLog
<1>5. /\ Kept(tree, log, Root)
      /\ \A side \in Sides : StepsOn(tree, log, Root, side)
  <2>1. \A side, p : <<Root, side, p>> \notin log.landed
    BY <1>4
  <2> QED
    BY ONLY <1>3, <2>1, FreshIs, src \in Programs, tgt \in Programs
<1>6. tree[Root].status = "open"
  BY <1>3 DEF Fresh
<1> QED
  BY <1>3, <1>4, <1>5, <1>6 DEF SoundState, SoundBut, TrueIn, StepsIn, Discharges, KeptIn,
                                HalvesIn, PinnedIn, RefutedIn

\* What a run checks follows from the invariant.
LEMMA VerdictTrue ==
  ASSUME TreeInv, SoundState
  PROVE  SoundInv /\ VerdictSound /\ ContractStands
<1>1. /\ Typed(tree) /\ log \in Logs(DOMAIN tree) /\ Root \in DOMAIN tree
      /\ SoundBut(tree, log, {})
  BY TreeShaped DEF Shaped, Typed, SoundState
<1>2. SoundInv
  BY <1>1, SoundIs
<1>3. VerdictOf(tree) = "verified" => ClaimFirst(tree, Root)
  <2>1. ASSUME tree[Root].status = "proved"
        PROVE  ClaimFirst(tree, Root)
    <3>1. ClaimNow(tree, Root)
      BY <1>1, <2>1 DEF SoundBut, TrueIn
    <3>2. ClaimBase(tree, log, Root)
      BY <1>1, <3>1, NowShowsBase DEF SoundBut
    <3>3. tree[Root].role = "root" /\ HalvesIn(tree, log)
      BY <1>1 DEF SoundBut, HalvesIn
    <3> QED
      BY <1>1, <3>2, <3>3, BaseOfUnlanded
  <2> QED
    BY <2>1 DEF VerdictOf
<1>4. VerdictOf(tree) = "counterexample" => ~ClaimFirst(tree, Root)
  BY <1>2 DEF SoundInv
<1>5. ContractStands
  <2>1. PinnedIn(tree, log)
    BY <1>1 DEF SoundBut
  <2>2. \A e \in log.by : <<e[1], "src", e[2]>> \in log.landed => Holds(tree[e[1]].hist["src"], e[2])
    BY <2>1 DEF PinnedIn
  <2> QED
    BY <2>1, <2>2 DEF PinnedIn, ContractStands
<1> QED
  BY <1>2, <1>3, <1>4, <1>5 DEF VerdictSound

\* The invariant holds of every run in which no proof of a contract is taken back.
THEOREM SoundStateHolds == KeptSpec => [](TreeInv /\ SoundState)
<1>1. Init => TreeInv /\ SoundState
  BY InitHolds, InitTrue
<1>2. TreeInv /\ SoundState /\ [Next /\ ~TakesBackProof]_vars => TreeInv' /\ SoundState'
  <2>1. [Next /\ ~TakesBackProof]_vars => [Next]_vars
    OBVIOUS
  <2> QED
    BY <2>1, NextKeeps, NextTrue
<1> QED
  BY <1>1, <1>2, PTL DEF KeptSpec

\* Every proved goal is true, now and wherever a revert may still take its sides back to
\* (goals.ts settle, session.ts revert, uninterpose, strengthen.ts land).
THEOREM InvariantSound == KeptSpec => []SoundInv
<1>1. TreeInv /\ SoundState => SoundInv
  BY VerdictTrue
<1> QED
  BY <1>1, SoundStateHolds, PTL

\* A verdict is right about the question the run was asked, whatever was moved, cut,
\* strengthened and taken back since (goals.ts verdict, counterexamples.ts report).
THEOREM VerdictIsSound == KeptSpec => []VerdictSound
<1>1. TreeInv /\ SoundState => VerdictSound
  BY VerdictTrue
<1> QED
  BY <1>1, SoundStateHolds, PTL

\* A contract keeps the programs and the proof it landed with (session.ts revert, uninterpose).
THEOREM ContractsStand == KeptSpec => []ContractStands
<1>1. TreeInv /\ SoundState => ContractStands
  BY VerdictTrue
<1> QED
  BY <1>1, SoundStateHolds, PTL

\* A step of the run is one of what it promises, or the caller sees none.
LEMMA PromiseStep ==
  ASSUME TreeInv, [Next]_vars, VerdictSound, VerdictSound'
  PROVE  [Promise!Next]_<<VerdictOf(tree), ClaimFirst(tree, Root)>>
<1>1. ClaimFirst(tree', Root) = ClaimFirst(tree, Root)
  BY NextKeeps DEF SameQuestion, ClaimFirst, Sides
<1>2. VerdictOf(tree) = "counterexample" => VerdictOf(tree') = "counterexample"
  BY RefutedStays
<1>3. /\ VerdictOf(tree) \in {"verified", "counterexample", "unknown"}
      /\ VerdictOf(tree') \in {"verified", "counterexample", "unknown"}
  BY DEF VerdictOf
<1>4. VerdictOf(tree') = "verified" => ClaimFirst(tree, Root)
  BY <1>1 DEF VerdictSound
<1>5. VerdictOf(tree') = "counterexample" => ~ClaimFirst(tree, Root)
  BY <1>1 DEF VerdictSound
<1>6. VerdictOf(tree) = "verified" => ClaimFirst(tree, Root)
  BY DEF VerdictSound
<1> HIDE DEF VerdictOf
<1> QED
  BY <1>1, <1>2, <1>3, <1>4, <1>5, <1>6
     DEF Promise!Next, Promise!Verify, Promise!Retract, Promise!Refute

\* A run keeps its promise to the caller: one question, and a verdict on it that is found,
\* perhaps taken back, and found again, or is a counterexample for good (goals.ts verdict).
THEOREM PromiseStands == KeptSpec => PromiseKept
<1>1. Init => Promise!Init
  <2>1. ASSUME Init
        PROVE  tree[Root].status = "open"
    BY <2>1 DEF Init, Start, NewGoal, Root
  <2> QED
    BY <2>1 DEF Promise!Init, VerdictOf, ClaimFirst, Claim
<1>2. TreeInv /\ VerdictSound /\ VerdictSound' /\ [Next /\ ~TakesBackProof]_vars
        => [Promise!Next]_<<VerdictOf(tree), ClaimFirst(tree, Root)>>
  BY PromiseStep
<1> QED
  BY <1>1, <1>2, SoundStateHolds, VerdictIsSound, PTL DEF KeptSpec, PromiseKept, Promise!Spec
-----------------------------------------------------------------------------
(* Where nothing has to be assumed: no loop's contract is proved by an     *)
(* interpose.                                                              *)

\* A proof is recorded, and changes nothing the log says of contracts.
LEMMA EagerKeeps ==
  ASSUME NEW G, NEW L, NEW g, "shown" \in DOMAIN L, "keeps" \in DOMAIN L,
         NEW r \in ThenEager(G, L, g)
  PROVE  r.log.keeps = L.keeps /\ "shown" \in DOMAIN r.log /\ "keeps" \in DOMAIN r.log
BY DEF ThenEager, WithProof

\* A contract that is not proved by an interpose leaves none.
LEMMA ContractKeeps ==
  ASSUME TreeInv, log.keeps = {}, NEW g, NEW G, NEW outer, NEW callee, NEW by,
         LandContract(g, G, Recorded(g, outer, callee, by, {}))
  PROVE  log'.keeps = {}
<1> DEFINE L == Recorded(g, outer, callee, by, {})
<1>1. L.keeps = {} /\ "shown" \in DOMAIN L /\ "keeps" \in DOMAIN L
  BY DEF Recorded, TreeInv, Good, Logs
<1>2. PICK r, q :
        /\ r = [tree |-> G, log |-> L] \/ r \in ThenEager(G, L, Callee(g))
        /\ q = r \/ q \in ThenEager(r.tree, r.log, Outer(g))
        /\ log' = q.log
  BY DEF LandContract, Land
<1> HIDE DEF L
<1>3. r.log.keeps = {} /\ "shown" \in DOMAIN r.log /\ "keeps" \in DOMAIN r.log
  BY <1>1, <1>2, EagerKeeps
<1> QED
  BY <1>2, <1>3, EagerKeeps

\* A session that proves no contract by an interpose keeps none.
LEMMA NothingKept ==
  ASSUME "nested" \notin Moves, TreeInv, log.keeps = {}, [Next]_vars
  PROVE  log'.keeps = {}
<1>1. log \in Logs(DOMAIN tree) /\ "shown" \in DOMAIN log /\ "keeps" \in DOMAIN log
  BY DEF TreeInv, Good, Logs
<1>2. CASE log' = log
  BY <1>2
<1>3. ASSUME NEW g, NEW side, NEW to, LandStep(g, side, to)
      PROVE  log'.keeps = {}
  BY <1>1, <1>3, EagerKeeps DEF LandStep, Land
<1>4. ASSUME NEW G, log' = WithProof(G, log, nextGoal + 1) \/ \E g : log' = WithProof(G, log, g)
      PROVE  log'.keeps = {}
  BY <1>1, <1>4 DEF WithProof
<1>5. ASSUME NEW G, log' = Pruned(G, log)
      PROVE  log'.keeps = {}
  BY <1>5 DEF Pruned
<1>6. ASSUME NEW g \in DOMAIN tree,
             \/ \E side \in Sides, p \in Programs : Revert(g, side, p)
             \/ \E p \in Programs : Rewrite(g, p)
             \/ \E side \in Sides, p \in Programs : Unfold(g, side, p)
             \/ \E side \in Sides : Begin(g, side)
      PROVE  log'.keeps = {}
  BY <1>2, <1>3, <1>6 DEF Revert, Rewrite, Unfold, Begin
<1>7. ASSUME NEW g \in DOMAIN tree,
             \/ Cut(g) \/ CutAlone(g) \/ Case(g)
             \/ (\E p \in Programs : InterposeProgram(g, p)) \/ InterposeScratch(g)
      PROVE  log'.keeps = {}
  BY <1>2, <1>4, <1>7
     DEF Cut, CutAlone, Case, InterposeProgram, InterposeScratch, InterposeAt, Land
<1>8. ASSUME NEW g \in DOMAIN tree, Uncut(g) \/ Uninterpose(g) \/ Uncase(g)
      PROVE  log'.keeps = {}
  BY <1>2, <1>5, <1>8 DEF Uncut, Uninterpose, Uncase, LandUnsplit
<1>9. ASSUME NEW g \in DOMAIN tree, Strengthen(g) \/ StrengthenLoop(g) \/ StrengthenReturn(g)
      PROVE  log'.keeps = {}
  <2>1. CASE Strengthen(g)
    BY <2>1, ContractKeeps DEF Strengthen
  <2>2. CASE StrengthenLoop(g)
    BY <2>2, ContractKeeps DEF StrengthenLoop
  <2>3. CASE StrengthenReturn(g)
    BY <2>3, ContractKeeps DEF StrengthenReturn
  <2> QED BY <1>9, <2>1, <2>2, <2>3
<1>10. ASSUME NEW g \in DOMAIN tree, CheckProves(g) \/ CheckRefutes(g)
       PROVE  log'.keeps = {}
  BY <1>2, <1>4, <1>10 DEF CheckProves, CheckRefutes, Land
<1>11. ASSUME \/ \E text \in Scratches : Edit(text)
              \/ \E immAbort \in BOOLEAN : CommitRefused(immAbort)
              \/ CommitCertified
              \/ Abort
              \/ ReportCex
              \/ Resume
       PROVE  log'.keeps = {}
  BY <1>2, <1>3, <1>11 DEF Edit, CommitRefused, CommitCertified, Abort, ReportCex, Resume
<1>12. CASE UNCHANGED vars
  BY <1>2, <1>12 DEF vars
<1>13. CASE Next
  BY <1>6, <1>7, <1>8, <1>9, <1>10, <1>11, <1>13 DEF Next
<1> QED
  BY <1>12, <1>13

\* A session whose moves open no such proof can take none back, so all its runs keep the
\* promise: what unfold and uncase let through is the only gap (session.ts unfold, uncase,
\* strengthen.ts).
THEOREM PromiseOfPlainContracts ==
  ASSUME "nested" \notin Moves
  PROVE  Spec => PromiseKept /\ []VerdictSound
<1>1. Init => log.keeps = {}
  BY DEF Init, EmptyLog
<1>2. TreeInv /\ log.keeps = {} /\ [Next]_vars => (log.keeps = {})'
  BY NothingKept
<1>3. log.keeps = {} /\ [Next]_vars => [Next /\ ~TakesBackProof]_vars
  BY DEF TakesBackProof, InterposedByStrengthen
<1>4. Spec => KeptSpec
  BY <1>1, <1>2, <1>3, TreeInvHolds, PTL DEF Spec, KeptSpec
<1> QED
  BY <1>4, PromiseStands, VerdictIsSound

-----------------------------------------------------------------------------
(* The certificate: what its recursions come to. The sides are a set here, not two. *)

HIDE DEF Sides

\* What holds at nothing, and of each number if it did of the last, holds up to n.
LEMMA UpTo ==
  ASSUME NEW n \in Nat, NEW T, 0 \in T, \A i \in 1..n : i - 1 \in T => i \in T
  PROVE  \A i \in 0..n : i \in T
<1> DEFINE Missing == {i \in 0..n : i \notin T}
<1>1. SUFFICES ASSUME Missing # {} PROVE FALSE
  OBVIOUS
<1>2. Missing \subseteq Nat
  OBVIOUS
<1> HIDE DEF Missing
<1>3. PICK m \in Missing : \A y \in Missing : m <= y
  BY <1>1, <1>2, NatMin
<1>4. m \in 0..n /\ m \notin T /\ \A y \in 0..n : y \notin T => m <= y
  BY <1>3 DEF Missing
<1>5. m # 0 /\ m \in 1..n /\ m - 1 \in 0..n /\ ~(m <= m - 1)
  BY <1>4
<1> QED
  BY <1>4, <1>5

\* Two functions that begin the same, and go on the same from where they are, are the same.
LEMMA SameRuns ==
  ASSUME NEW n \in Nat, NEW f, NEW h, f[0] = h[0],
         \A i \in 1..n : f[i - 1] = h[i - 1] => f[i] = h[i]
  PROVE  \A i \in 0..n : f[i] = h[i]
<1> DEFINE T == {i \in Nat : f[i] = h[i]}
<1>1. 0 \in T /\ \A i \in 1..n : i - 1 \in T => i \in T
  OBVIOUS
<1> HIDE DEF T
<1>2. \A i \in 0..n : i \in T
  BY <1>1, UpTo
<1> QED
  BY <1>2 DEF T

\* made says, at each i up to n, who made what once i effects were played.
Plays(made, first, es, n) ==
  made = [i \in 0..n |-> IF i = 0 THEN first ELSE Played(made[i - 1], es[i], i)]

LEMMA PlaysExists ==
  ASSUME NEW first, NEW es, NEW n \in Nat
  PROVE  \E made : Plays(made, first, es, n)
<1> DEFINE T == {m \in Nat : \E made : Plays(made, first, es, m)}
<1>1. 0 \in T
  <2>1. Plays([i \in 0..0 |-> first], first, es, 0)
    BY DEF Plays
  <2> QED
    BY <2>1
<1>2. ASSUME NEW m \in 1..n, m - 1 \in T
      PROVE  m \in T
  <2>1. PICK made : Plays(made, first, es, m - 1)
    BY <1>2
  <2> DEFINE more == [i \in 0..m |-> IF i = m THEN Played(made[m - 1], es[m], m) ELSE made[i]]
  <2>2. \A i \in 0..m - 1 : more[i] = made[i]
    OBVIOUS
  <2>3. \A i \in 0..m : more[i] = IF i = 0 THEN first ELSE Played(more[i - 1], es[i], i)
    <3> SUFFICES ASSUME NEW i \in 0..m
                 PROVE  more[i] = IF i = 0 THEN first ELSE Played(more[i - 1], es[i], i)
      OBVIOUS
    <3>1. CASE i = m
      BY <2>2, <3>1
    <3>2. CASE i # m
      <4>1. i \in 0..m - 1 /\ made[i] = IF i = 0 THEN first ELSE Played(made[i - 1], es[i], i)
        BY <2>1, <3>2 DEF Plays
      <4>2. i # 0 => i - 1 \in 0..m - 1
        BY <4>1
      <4> HIDE DEF more
      <4> QED
        BY <2>2, <4>1, <4>2
    <3> QED
      BY <3>1, <3>2
  <2>4. DOMAIN more = 0..m /\ more = [i \in 0..m |-> more[i]]
    OBVIOUS
  <2> HIDE DEF more
  <2>5. Plays(more, first, es, m)
    BY <2>3, <2>4 DEF Plays
  <2> QED
    BY <2>5
<1> HIDE DEF T
<1>3. n \in T
  BY <1>1, <1>2, UpTo
<1> QED
  BY <1>3 DEF T

LEMMA MadeFromIs ==
  ASSUME NEW first, NEW es, Len(es) \in Nat
  PROVE  \E made : Plays(made, first, es, Len(es)) /\ MadeFrom(first, es) = made[Len(es)]
<1> DEFINE made == CHOOSE made : Plays(made, first, es, Len(es))
<1>1. Plays(made, first, es, Len(es))
  BY PlaysExists
<1>2. MadeFrom(first, es) = made[Len(es)]
  BY DEF MadeFrom, Plays
<1> QED
  BY <1>1, <1>2

LEMMA PlaysAgree ==
  ASSUME NEW first, NEW es, NEW fs, NEW n \in Nat, NEW m \in Nat, n <= m,
         \A i \in 1..n : es[i] = fs[i],
         NEW f, Plays(f, first, es, n), NEW h, Plays(h, first, fs, m)
  PROVE  f[n] = h[n]
<1>1. f[0] = first /\ h[0] = first
  BY DEF Plays
<1>2. \A i \in 1..n : f[i] = Played(f[i - 1], es[i], i)
  BY DEF Plays
<1>3. \A i \in 1..n : h[i] = Played(h[i - 1], fs[i], i)
  <2>1. \A i \in 1..n : i \in 0..m /\ i # 0
    OBVIOUS
  <2> QED
    BY <2>1 DEF Plays
<1>4. \A i \in 1..n : f[i - 1] = h[i - 1] => f[i] = h[i]
  BY <1>2, <1>3
<1> QED
  BY <1>1, <1>4, SameRuns

\* With nothing said the first programs are all there is, and one effect more is played last.
LEMMA MadeNothing ==
  ASSUME NEW first
  PROVE  MadeFrom(first, <<>>) = first
<1>1. PICK made : Plays(made, first, <<>>, 0) /\ MadeFrom(first, <<>>) = made[0]
  BY MadeFromIs
<1> QED
  BY <1>1 DEF Plays

LEMMA MadeAppend ==
  ASSUME NEW S, NEW es \in Seq(S), NEW e \in S, NEW first
  PROVE  MadeFrom(first, Append(es, e)) = Played(MadeFrom(first, es), e, Len(es) + 1)
<1> DEFINE fs == Append(es, e)
<1>1. Len(es) \in Nat /\ Len(fs) = Len(es) + 1 /\ fs[Len(es) + 1] = e /\ \A i \in 1..Len(es) : fs[i] = es[i]
  BY AppendIs
<1> HIDE DEF fs
<1>2. PICK f : Plays(f, first, es, Len(es)) /\ MadeFrom(first, es) = f[Len(es)]
  BY <1>1, MadeFromIs
<1>3. PICK h : Plays(h, first, fs, Len(fs)) /\ MadeFrom(first, fs) = h[Len(fs)]
  BY <1>1, MadeFromIs
<1>4. f[Len(es)] = h[Len(es)]
  BY <1>1, <1>2, <1>3, PlaysAgree
<1>5. h[Len(fs)] = Played(h[Len(es)], e, Len(es) + 1)
  <2>1. Len(fs) \in 0..Len(fs) /\ Len(fs) # 0 /\ Len(fs) - 1 = Len(es)
    BY <1>1
  <2> QED
    BY <1>1, <1>3, <2>1 DEF Plays
<1> QED
  BY <1>2, <1>3, <1>4, <1>5 DEF fs

-----------------------------------------------------------------------------
(* What the effects on a goal tell of its histories.                       *)

Effects ==
  [effect : {"step"}, side : Sides, to : Programs]
    \cup [effect : {"revert"}, side : Sides, to : Programs]
    \cup [effect : {"strengthen"}, to : [Sides -> Programs], by : SUBSET (Nat \X Programs)]
    \cup [effect : {"split"}, first : Nat, src : Programs, tgt : Programs]

\* The effect e made p of the program before it.
Makes(e, s, before, p) ==
  \/ e = Step(s, p) /\ Certifies(s, before, p)
  \/ e.effect = "strengthen" /\ e.to[s] = p

\* m names, of each program of the history h of side s of x, the effect that made it, each after
\* the last; and every strengthen, which no revert can pass, made one.
SideTold(x, es, s, h, m, landed) ==
  /\ h \in Seq(Programs) /\ m \in Seq(Programs \X Nat)
  /\ Len(m) = Len(h) /\ 1 <= Len(h)
  /\ m[1][2] = 0
  /\ \A k \in 1..Len(h) : m[k][1] = h[k] /\ m[k][2] <= Len(es)
  /\ \A j, k \in 1..Len(h) : j < k => m[j][2] < m[k][2]
  /\ \A k \in 2..Len(h) : Makes(es[m[k][2]], s, h[k - 1], h[k])
  /\ \A i \in 1..Len(es) : es[i].effect = "strengthen" =>
       /\ <<x, s, es[i].to[s]>> \in landed
       /\ \E k \in 2..Len(h) : m[k][2] = i

Told(x, es, hist, made, landed) ==
  /\ es \in Seq(Effects)
  /\ hist \in [Sides -> Seq(Programs)] /\ made \in [Sides -> Seq(Programs \X Nat)]
  /\ \A s \in Sides : SideTold(x, es, s, hist[s], made[s], landed)

\* A goal that is new.
LEMMA SideNew ==
  ASSUME NEW x, NEW s \in Sides, NEW p \in Programs, NEW landed
  PROVE  SideTold(x, <<>>, s, <<p>>, <<<<p, 0>>>>, landed)
<1>1. <<p>> \in Seq(Programs) /\ <<<<p, 0>>>> \in Seq(Programs \X Nat)
  OBVIOUS
<1> QED
  BY <1>1 DEF SideTold

\* An effect that is not of this side.
LEMMA SideMore ==
  ASSUME NEW x, NEW es \in Seq(Effects), NEW s \in Sides, NEW h, NEW m, NEW landed,
         SideTold(x, es, s, h, m, landed), NEW e \in Effects, e.effect # "strengthen"
  PROVE  SideTold(x, Append(es, e), s, h, m, landed)
<1> DEFINE fs == Append(es, e)
<1>1. Len(es) \in Nat /\ Len(fs) = Len(es) + 1 /\ fs[Len(es) + 1] = e /\ \A i \in 1..Len(es) : fs[i] = es[i]
  OBVIOUS
<1> HIDE DEF fs
<1>2. Len(h) \in Nat /\ \A k \in 1..Len(h) : m[k] \in Programs \X Nat
  BY DEF SideTold
<1>3. \A k \in 2..Len(h) : m[k][2] \in 1..Len(es)
  BY <1>1, <1>2 DEF SideTold
<1>4. \A k \in 2..Len(h) : fs[m[k][2]] = es[m[k][2]]
  BY <1>1, <1>3
<1>5. \A i \in 1..Len(fs) : fs[i].effect = "strengthen" => i \in 1..Len(es) /\ fs[i] = es[i]
  BY <1>1
<1>6. \A k \in 1..Len(h) : m[k][1] = h[k] /\ m[k][2] <= Len(fs)
  BY <1>1, <1>2 DEF SideTold
<1>7. \A k \in 2..Len(h) : Makes(fs[m[k][2]], s, h[k - 1], h[k])
  BY <1>4 DEF SideTold
<1>8. \A i \in 1..Len(fs) : fs[i].effect = "strengthen" =>
        /\ <<x, s, fs[i].to[s]>> \in landed
        /\ \E k \in 2..Len(h) : m[k][2] = i
  BY <1>5 DEF SideTold
<1> QED
  BY <1>6, <1>7, <1>8 DEF SideTold, fs

\* An effect that puts p on this side.
LEMMA SideGrows ==
  ASSUME NEW x, NEW es \in Seq(Effects), NEW s \in Sides, NEW h, NEW m, NEW landed,
         SideTold(x, es, s, h, m, landed), NEW e \in Effects, NEW p \in Programs,
         Makes(e, s, h[Len(h)], p), e.effect = "strengthen" => <<x, s, p>> \in landed
  PROVE  SideTold(x, Append(es, e), s, Append(h, p), Append(m, <<p, Len(es) + 1>>), landed)
<1> DEFINE fs == Append(es, e)
           n == Len(es) + 1
           j == Append(h, p)
           k == Append(m, <<p, n>>)
<1>1. Len(es) \in Nat /\ Len(fs) = n /\ fs[n] = e /\ n \in Nat /\ \A i \in 1..Len(es) : fs[i] = es[i]
  OBVIOUS
<1>2. /\ h \in Seq(Programs) /\ m \in Seq(Programs \X Nat) /\ Len(m) = Len(h)
      /\ Len(h) \in Nat /\ 1 <= Len(h)
      /\ \A i \in 1..Len(h) : h[i] \in Programs /\ m[i] \in Programs \X Nat
  BY DEF SideTold
<1>3. /\ j \in Seq(Programs) /\ Len(j) = Len(h) + 1 /\ j[Len(h) + 1] = p
      /\ \A i \in 1..Len(h) : j[i] = h[i]
  BY <1>2
<1>4. <<p, n>> \in Programs \X Nat
  BY <1>1
<1>5. /\ k \in Seq(Programs \X Nat) /\ Len(k) = Len(h) + 1 /\ k[Len(h) + 1] = <<p, n>>
      /\ \A i \in 1..Len(h) : k[i] = m[i]
  BY <1>2, <1>4
<1> HIDE DEF fs, j, k
<1>6. \A i \in 1..Len(h) : m[i][2] \in Nat /\ m[i][2] <= Len(es) /\ m[i][1] = h[i]
  BY <1>2 DEF SideTold
<1>7. k[1][2] = 0
  BY <1>2, <1>5 DEF SideTold
<1>8. \A i \in 1..Len(j) : k[i][1] = j[i] /\ k[i][2] <= Len(fs)
  <2> SUFFICES ASSUME NEW i \in 1..Len(j) PROVE k[i][1] = j[i] /\ k[i][2] <= Len(fs)
    OBVIOUS
  <2>1. CASE i = Len(h) + 1
    BY <1>1, <1>3, <1>5, <2>1
  <2>2. CASE i # Len(h) + 1
    <3>1. i \in 1..Len(h)
      BY <1>2, <1>3, <2>2
    <3> QED
      BY <1>1, <1>3, <1>5, <1>6, <3>1
  <2> QED
    BY <2>1, <2>2
<1>9. \A a, b \in 1..Len(j) : a < b => k[a][2] < k[b][2]
  <2> SUFFICES ASSUME NEW a \in 1..Len(j), NEW b \in 1..Len(j), a < b PROVE k[a][2] < k[b][2]
    OBVIOUS
  <2>1. a \in 1..Len(h)
    BY <1>2, <1>3
  <2>2. CASE b = Len(h) + 1
    <3>1. k[b][2] = n /\ k[a][2] = m[a][2]
      BY <1>5, <2>1, <2>2
    <3>2. m[a][2] \in Nat /\ m[a][2] <= Len(es)
      BY <1>6, <2>1
    <3> QED
      BY <1>1, <3>1, <3>2
  <2>3. CASE b # Len(h) + 1
    <3>1. b \in 1..Len(h)
      BY <1>2, <1>3, <2>3
    <3> QED
      BY <1>5, <2>1, <3>1 DEF SideTold
  <2> QED
    BY <2>2, <2>3
<1>10. \A i \in 2..Len(h) : m[i][2] \in 1..Len(es)
  <2> SUFFICES ASSUME NEW i \in 2..Len(h) PROVE m[i][2] \in 1..Len(es)
    OBVIOUS
  <2>1. i \in 1..Len(h) /\ 1 \in 1..Len(h) /\ 1 < i
    BY <1>2
  <2>2. m[1][2] = 0 /\ m[1][2] < m[i][2]
    BY <2>1 DEF SideTold
  <2>3. m[i][2] \in Nat /\ m[i][2] <= Len(es)
    BY <1>6, <2>1
  <2> QED
    BY <1>1, <2>2, <2>3
<1>11. \A i \in 2..Len(j) : Makes(fs[k[i][2]], s, j[i - 1], j[i])
  <2> SUFFICES ASSUME NEW i \in 2..Len(j) PROVE Makes(fs[k[i][2]], s, j[i - 1], j[i])
    OBVIOUS
  <2>1. CASE i = Len(h) + 1
    <3>1. k[i][2] = n /\ i - 1 = Len(h) /\ j[i - 1] = h[Len(h)] /\ j[i] = p
      BY <1>2, <1>3, <1>5, <2>1
    <3> QED
      BY <1>1, <3>1
  <2>2. CASE i # Len(h) + 1
    <3>1. i \in 2..Len(h) /\ i \in 1..Len(h) /\ i - 1 \in 1..Len(h)
      BY <1>2, <1>3, <2>2
    <3>2. fs[k[i][2]] = es[m[i][2]] /\ j[i - 1] = h[i - 1] /\ j[i] = h[i]
      BY <1>1, <1>3, <1>5, <1>10, <3>1
    <3> QED
      BY <3>1, <3>2 DEF SideTold
  <2> QED
    BY <2>1, <2>2
<1>12. \A i \in 1..Len(fs) : fs[i].effect = "strengthen" =>
         /\ <<x, s, fs[i].to[s]>> \in landed
         /\ \E l \in 2..Len(j) : k[l][2] = i
  <2> SUFFICES ASSUME NEW i \in 1..Len(fs), fs[i].effect = "strengthen"
               PROVE  /\ <<x, s, fs[i].to[s]>> \in landed
                      /\ \E l \in 2..Len(j) : k[l][2] = i
    OBVIOUS
  <2>1. CASE i = n
    <3>1. e.effect = "strengthen" /\ fs[i] = e
      BY <1>1, <2>1
    <3>2. e.to[s] = p
      BY <3>1 DEF Makes, Step
    <3>3. Len(h) + 1 \in 2..Len(j) /\ k[Len(h) + 1][2] = i
      BY <1>2, <1>3, <1>5, <2>1
    <3> QED
      BY <3>1, <3>2, <3>3
  <2>2. CASE i # n
    <3>1. i \in 1..Len(es) /\ fs[i] = es[i]
      BY <1>1, <2>2
    <3>2. PICK l \in 2..Len(h) : m[l][2] = i
      BY <2>2, <3>1 DEF SideTold
    <3>3. l \in 1..Len(h) /\ l \in 2..Len(j)
      BY <1>2, <1>3, <3>2
    <3>4. k[l][2] = i
      BY <1>5, <3>2, <3>3
    <3> QED
      BY <3>1, <3>3, <3>4 DEF SideTold
  <2> QED
    BY <2>1, <2>2
<1>13. 1 <= Len(j) /\ Len(k) = Len(j)
  BY <1>2, <1>3, <1>5
<1>14. SideTold(x, fs, s, j, k, landed)
  BY <1>3, <1>5, <1>7, <1>8, <1>9, <1>11, <1>12, <1>13 DEF SideTold
<1> QED
  BY <1>14 DEF fs, j, k

\* A side that goes back no further than its last strengthen.
LEMMA SideBack ==
  ASSUME NEW x, NEW es \in Seq(Effects), NEW s \in Sides, NEW h, NEW m, NEW landed,
         SideTold(x, es, s, h, m, landed), NEW n \in 1..Len(h),
         \A k \in 1..Len(h) : n < k => <<x, s, h[k]>> \notin landed
  PROVE  SideTold(x, es, s, SubSeq(h, 1, n), SubSeq(m, 1, n), landed)
<1> DEFINE j == SubSeq(h, 1, n)
           k == SubSeq(m, 1, n)
<1>1. /\ h \in Seq(Programs) /\ m \in Seq(Programs \X Nat) /\ Len(m) = Len(h)
      /\ Len(h) \in Nat /\ 1 <= Len(h) /\ n \in Nat /\ 1 <= n /\ n <= Len(h)
  BY DEF SideTold
<1>2. j \in Seq(Programs) /\ Len(j) = n /\ \A i \in 1..n : j[i] = h[i]
  BY <1>1
<1>3. k \in Seq(Programs \X Nat) /\ Len(k) = n /\ \A i \in 1..n : k[i] = m[i]
  BY <1>1
<1> HIDE DEF j, k
<1>4. k[1][2] = 0
  BY <1>1, <1>3 DEF SideTold
<1>5. /\ \A i \in 1..n : k[i][1] = j[i] /\ k[i][2] <= Len(es)
      /\ \A a, b \in 1..n : a < b => k[a][2] < k[b][2]
  <2>1. \A i \in 1..n : i \in 1..Len(h)
    BY <1>1
  <2> QED
    BY <1>2, <1>3, <2>1 DEF SideTold
<1>6. \A i \in 2..n : Makes(es[k[i][2]], s, j[i - 1], j[i])
  <2>1. \A i \in 2..n : i \in 2..Len(h) /\ i \in 1..n /\ i - 1 \in 1..n
    BY <1>1
  <2> QED
    BY <1>2, <1>3, <2>1 DEF SideTold
<1>7. \A i \in 1..Len(es) : es[i].effect = "strengthen" =>
        /\ <<x, s, es[i].to[s]>> \in landed
        /\ \E l \in 2..n : k[l][2] = i
  <2> SUFFICES ASSUME NEW i \in 1..Len(es), es[i].effect = "strengthen"
               PROVE  /\ <<x, s, es[i].to[s]>> \in landed
                      /\ \E l \in 2..n : k[l][2] = i
    OBVIOUS
  <2>1. <<x, s, es[i].to[s]>> \in landed
    BY DEF SideTold
  <2>2. PICK l \in 2..Len(h) : m[l][2] = i
    BY DEF SideTold
  <2>3. h[l] = es[i].to[s]
    <3>1. Makes(es[i], s, h[l - 1], h[l])
      BY <2>2 DEF SideTold
    <3> QED
      BY <3>1 DEF Makes, Step
  <2>4. l \in 1..n
    BY <1>1, <2>1, <2>3
  <2> QED
    BY <1>3, <2>1, <2>2, <2>4
<1> QED
  BY <1>1, <1>2, <1>3, <1>4, <1>5, <1>6, <1>7 DEF SideTold, j, k

\* So of a goal, of whose effects and histories the certificate is read.
Tells(x, es, hist, landed) == Told(x, es, hist, MadeFrom(FirstMade(hist), es), landed)

\* The program p of the src was made by a step.
Stepwise(es, hist, p) ==
  LET m == MadeFrom(FirstMade(hist), es)["src"]
  IN  \E k \in 2..Len(m) : m[k][1] = p /\ m[k][2] \in 1..Len(es) /\ es[m[k][2]] = Step("src", p)

LEMMA EffectsAre ==
  /\ \A s \in Sides, p \in Programs : Step(s, p) \in Effects /\ Back(s, p) \in Effects
  /\ \A p, q \in Programs, by \in SUBSET (Nat \X Programs) :
       /\ Both(p, q, by) \in Effects
       /\ Both(p, q, by).to["src"] = p /\ Both(p, q, by).to["tgt"] = q
<1>1. \A s \in Sides, p \in Programs : Step(s, p) \in Effects /\ Back(s, p) \in Effects
  BY DEF Step, Back, Effects
<1>2. ASSUME NEW p \in Programs, NEW q \in Programs, NEW by \in SUBSET (Nat \X Programs)
      PROVE  /\ Both(p, q, by) \in Effects
             /\ Both(p, q, by).to["src"] = p /\ Both(p, q, by).to["tgt"] = q
  <2> DEFINE to == [s \in Sides |-> IF s = "src" THEN p ELSE q]
  <2>1. to["src"] = p /\ to["tgt"] = q
    BY DEF Sides
  <2>3. to \in [Sides -> Programs]
    OBVIOUS
  <2>2. Both(p, q, by) = [effect |-> "strengthen", to |-> to, by |-> by]
    BY DEF Both
  <2> HIDE DEF to
  <2> QED
    BY <2>1, <2>2, <2>3 DEF Effects
<1> QED
  BY <1>1, <1>2

\* A goal that is new.
LEMMA TellsNew ==
  ASSUME NEW x, NEW hist \in [Sides -> Seq(Programs)], \A s \in Sides : Len(hist[s]) = 1, NEW landed
  PROVE  Tells(x, <<>>, hist, landed)
<1> DEFINE made == FirstMade(hist)
<1>1. MadeFrom(made, <<>>) = made
  BY MadeNothing
<1>2. made = [s \in Sides |-> <<<<hist[s][1], 0>>>>]
  BY DEF FirstMade
<1> HIDE DEF made
<1>3. ASSUME NEW s \in Sides
      PROVE  /\ SideTold(x, <<>>, s, hist[s], made[s], landed)
             /\ made[s] \in Seq(Programs \X Nat)
  <2>1. hist[s][1] \in Programs /\ hist[s] = <<hist[s][1]>>
    OBVIOUS
  <2>2. made[s] = <<<<hist[s][1], 0>>>>
    BY <1>2
  <2>3. SideTold(x, <<>>, s, <<hist[s][1]>>, <<<<hist[s][1], 0>>>>, landed)
    BY <2>1, SideNew
  <2>4. SideTold(x, <<>>, s, hist[s], made[s], landed)
    BY <2>1, <2>2, <2>3
  <2> QED
    BY <2>4 DEF SideTold
<1>4. made \in [Sides -> Seq(Programs \X Nat)]
  BY <1>2, <1>3
<1>5. <<>> \in Seq(Effects)
  OBVIOUS
<1> QED
  BY <1>1, <1>3, <1>4, <1>5 DEF Tells, Told, made

\* More that was landed.
LEMMA TellsMore ==
  ASSUME NEW x, NEW es, NEW hist, NEW landed, NEW more, Tells(x, es, hist, landed),
         \A s \in Sides, p \in Programs : <<x, s, p>> \in landed => <<x, s, p>> \in more
  PROVE  Tells(x, es, hist, more)
<1> DEFINE made == MadeFrom(FirstMade(hist), es)
<1>1. Told(x, es, hist, made, landed)
  BY DEF Tells
<1> HIDE DEF made
<1>2. ASSUME NEW s \in Sides, NEW i \in 1..Len(es), es[i].effect = "strengthen"
      PROVE  <<x, s, es[i].to[s]>> \in more
  <2>1. /\ <<x, s, es[i].to[s]>> \in landed
        /\ \E k \in 2..Len(hist[s]) : made[s][k][2] = i
    BY <1>1, <1>2 DEF Told, SideTold
  <2>2. PICK k \in 2..Len(hist[s]) : made[s][k][2] = i
    BY <2>1
  <2>3. Makes(es[i], s, hist[s][k - 1], hist[s][k]) /\ hist[s] \in Seq(Programs)
    BY <1>1, <2>2 DEF Told, SideTold
  <2>4. es[i].to[s] \in Programs
    BY <1>2, <2>2, <2>3 DEF Makes, Step
  <2> QED
    BY <2>1, <2>4
<1>3. Told(x, es, hist, made, more)
  BY <1>1, <1>2 DEF Told, SideTold
<1> QED
  BY <1>3 DEF Tells, made

\* A split, which makes no program.
LEMMA TellsSplit ==
  ASSUME NEW x, NEW es, NEW hist, NEW landed, Tells(x, es, hist, landed),
         NEW e \in Effects, e.effect = "split"
  PROVE  /\ Tells(x, Append(es, e), hist, landed)
         /\ \A p : Stepwise(es, hist, p) => Stepwise(Append(es, e), hist, p)
<1> DEFINE made == MadeFrom(FirstMade(hist), es)
           more == MadeFrom(FirstMade(hist), Append(es, e))
           fs == Append(es, e)
<1>1. Told(x, es, hist, made, landed)
  BY DEF Tells
<1>2. es \in Seq(Effects)
  BY <1>1 DEF Told
<1>3. more = Played(made, e, Len(es) + 1)
  BY <1>2, MadeAppend
<1>4. more = made
  BY <1>3 DEF Played, Pushed
<1>5. /\ fs \in Seq(Effects) /\ Len(es) \in Nat /\ Len(fs) = Len(es) + 1
      /\ \A i \in 1..Len(es) : fs[i] = es[i]
  BY <1>2
<1>6. Told(x, fs, hist, made, landed)
  BY <1>1, <1>2, <1>5, SideMore DEF Told, fs
<1>7. ASSUME NEW p, Stepwise(es, hist, p)
      PROVE  Stepwise(fs, hist, p)
  <2>1. PICK k \in 2..Len(made["src"]) :
          /\ made["src"][k][1] = p /\ made["src"][k][2] \in 1..Len(es)
          /\ es[made["src"][k][2]] = Step("src", p)
    BY <1>7 DEF Stepwise
  <2> HIDE DEF made, more, fs
  <2>2. made["src"][k][2] \in 1..Len(fs) /\ fs[made["src"][k][2]] = Step("src", p)
    BY <1>5, <2>1
  <2> QED
    BY <1>4, <2>1, <2>2 DEF Stepwise, more, fs
<1> QED
  BY <1>4, <1>6, <1>7 DEF Tells

\* What a side gained keeps what it was made by.
Further(made, more) ==
  \A s \in Sides :
    /\ Len(made[s]) \in Nat /\ Len(more[s]) \in Nat /\ Len(made[s]) <= Len(more[s])
    /\ \A k \in 1..Len(made[s]) : more[s][k] = made[s][k]

LEMMA StepwiseOn ==
  ASSUME NEW es \in Seq(Effects), NEW e \in Effects, NEW hist, NEW next,
         Further(MadeFrom(FirstMade(hist), es), MadeFrom(FirstMade(next), Append(es, e)))
  PROVE  \A p : Stepwise(es, hist, p) => Stepwise(Append(es, e), next, p)
<1> DEFINE made == MadeFrom(FirstMade(hist), es)
           fs == Append(es, e)
           more == MadeFrom(FirstMade(next), fs)
<1>1. /\ fs \in Seq(Effects) /\ Len(es) \in Nat /\ Len(fs) = Len(es) + 1
      /\ \A i \in 1..Len(es) : fs[i] = es[i]
  OBVIOUS
<1>2. ASSUME NEW p, Stepwise(es, hist, p)
      PROVE  Stepwise(fs, next, p)
  <2>1. PICK k \in 2..Len(made["src"]) :
          /\ made["src"][k][1] = p /\ made["src"][k][2] \in 1..Len(es)
          /\ es[made["src"][k][2]] = Step("src", p)
    BY <1>2 DEF Stepwise
  <2>2. Further(made, more)
    OBVIOUS
  <2> HIDE DEF made, more, fs
  <2>3. k \in 2..Len(more["src"]) /\ more["src"][k] = made["src"][k]
    <3>1. /\ Len(made["src"]) \in Nat /\ Len(more["src"]) \in Nat
          /\ Len(made["src"]) <= Len(more["src"])
          /\ \A l \in 1..Len(made["src"]) : more["src"][l] = made["src"][l]
      BY <2>2 DEF Further, Sides
    <3>2. k \in 1..Len(made["src"]) /\ k \in 2..Len(more["src"])
      BY <2>1, <3>1
    <3> QED
      BY <3>1, <3>2
  <2>4. made["src"][k][2] \in 1..Len(fs) /\ fs[made["src"][k][2]] = Step("src", p)
    BY <1>1, <2>1
  <2> QED
    BY <2>1, <2>3, <2>4 DEF Stepwise, more
<1> QED
  BY <1>2

\* A step of one side.
LEMMA TellsStep ==
  ASSUME NEW x, NEW es, NEW hist, NEW landed, Tells(x, es, hist, landed),
         NEW s \in Sides, NEW p \in Programs, Certifies(s, hist[s][Len(hist[s])], p)
  PROVE  LET fs   == Append(es, Step(s, p))
             next == [hist EXCEPT ![s] = Append(hist[s], p)]
         IN  /\ Tells(x, fs, next, landed)
             /\ \A q : Stepwise(es, hist, q) => Stepwise(fs, next, q)
             /\ s = "src" => Stepwise(fs, next, p)
<1> DEFINE made == MadeFrom(FirstMade(hist), es)
           e    == Step(s, p)
           fs   == Append(es, e)
           n    == Len(es) + 1
           next == [hist EXCEPT ![s] = Append(hist[s], p)]
           more == MadeFrom(FirstMade(next), fs)
<1>1. Told(x, es, hist, made, landed)
  BY DEF Tells
<1>2. /\ es \in Seq(Effects) /\ Len(es) \in Nat /\ hist \in [Sides -> Seq(Programs)]
      /\ made \in [Sides -> Seq(Programs \X Nat)]
      /\ \A t \in Sides : SideTold(x, es, t, hist[t], made[t], landed)
  BY <1>1 DEF Told
<1>3. e \in Effects /\ e.effect = "step" /\ e.side = s /\ e.to = p
  BY EffectsAre DEF Step
<1>4. \A t \in Sides : Len(hist[t]) \in Nat /\ 1 <= Len(hist[t]) /\ hist[t] \in Seq(Programs)
  BY <1>2 DEF SideTold
<1>5. next \in [Sides -> Seq(Programs)] /\ next[s] = Append(hist[s], p)
        /\ \A t \in Sides \ {s} : next[t] = hist[t]
  BY <1>2, <1>4
<1>6. FirstMade(next) = FirstMade(hist)
  <2>1. \A t \in Sides : next[t][1] = hist[t][1]
    BY <1>4, <1>5
  <2> QED
    BY <2>1 DEF FirstMade
<1>7. more = [made EXCEPT ![s] = Append(made[s], <<p, n>>)]
  <2>1. more = Played(made, e, n)
    BY <1>2, <1>3, <1>6, MadeAppend
  <2> HIDE DEF made, more, e
  <2> QED
    BY <1>3, <2>1 DEF Played, Pushed
<1> HIDE DEF made, more, e, next
<1>8. /\ <<p, n>> \in Programs \X Nat
      /\ more \in [Sides -> Seq(Programs \X Nat)] /\ more[s] = Append(made[s], <<p, n>>)
      /\ \A t \in Sides \ {s} : more[t] = made[t]
  BY <1>2, <1>7
<1>9. Makes(e, s, hist[s][Len(hist[s])], p)
  BY DEF Makes, e
<1>10. SideTold(x, fs, s, next[s], more[s], landed)
  <2>1. SideTold(x, es, s, hist[s], made[s], landed) /\ (e.effect = "strengthen" => <<x, s, p>> \in landed)
    BY <1>2, <1>3
  <2>2. SideTold(x, Append(es, e), s, Append(hist[s], p), Append(made[s], <<p, Len(es) + 1>>), landed)
    BY <1>2, <1>3, <1>9, <2>1, SideGrows
  <2> QED
    BY <1>5, <1>8, <2>2
<1>11. \A t \in Sides \ {s} : SideTold(x, fs, t, next[t], more[t], landed)
  BY <1>2, <1>3, <1>5, <1>8, SideMore
<1>12. fs \in Seq(Effects) /\ Len(fs) = n /\ fs[n] = e
  BY <1>2, <1>3
<1>13. Told(x, fs, next, more, landed)
  BY <1>5, <1>8, <1>10, <1>11, <1>12 DEF Told
<1>14. Further(made, more)
  <2>1. \A t \in Sides : made[t] \in Seq(Programs \X Nat)
    BY <1>2
  <2>2. /\ Len(more[s]) = Len(made[s]) + 1 /\ Len(made[s]) \in Nat
        /\ \A k \in 1..Len(made[s]) : more[s][k] = made[s][k]
    BY <1>8, <2>1
  <2>3. \A t \in Sides : Len(made[t]) \in Nat
    BY <2>1
  <2>4. ASSUME NEW t \in Sides
        PROVE  /\ Len(made[t]) \in Nat /\ Len(more[t]) \in Nat /\ Len(made[t]) <= Len(more[t])
               /\ \A k \in 1..Len(made[t]) : more[t][k] = made[t][k]
    <3>1. CASE t = s
      BY <2>2, <3>1
    <3>2. CASE t # s
      <4>1. more[t] = made[t]
        BY <1>8, <3>2
      <4> QED
        BY <2>3, <4>1
    <3> QED
      BY <3>1, <3>2
  <2> QED
    BY <2>4 DEF Further
<1>15. \A q : Stepwise(es, hist, q) => Stepwise(fs, next, q)
  BY <1>2, <1>3, <1>14, StepwiseOn DEF made, more
<1>16. s = "src" => Stepwise(fs, next, p)
  <2> SUFFICES ASSUME s = "src" PROVE Stepwise(fs, next, p)
    OBVIOUS
  <2>0. made["src"] \in Seq(Programs \X Nat) /\ Len(made["src"]) = Len(hist["src"])
    BY <1>2 DEF SideTold, Sides
  <2>1. /\ Len(more["src"]) = Len(made["src"]) + 1 /\ more["src"][Len(more["src"])] = <<p, n>>
        /\ Len(made["src"]) = Len(hist["src"])
    <3>1. more["src"] = Append(made["src"], <<p, n>>)
      BY <1>8
    <3>2. /\ Len(Append(made["src"], <<p, n>>)) = Len(made["src"]) + 1
          /\ Append(made["src"], <<p, n>>)[Len(made["src"]) + 1] = <<p, n>>
      BY <2>0
    <3> QED
      BY <2>0, <3>1, <3>2
  <2>2. Len(more["src"]) \in 2..Len(more["src"])
    BY <1>4, <2>1
  <2>3. n \in 1..Len(fs) /\ fs[n] = Step("src", p)
    BY <1>2, <1>12 DEF e
  <2>4. LET m == more["src"]
        IN  m[Len(m)][1] = p /\ m[Len(m)][2] = n
    BY <2>1
  <2>5. \E k \in 2..Len(more["src"]) :
          /\ more["src"][k][1] = p /\ more["src"][k][2] \in 1..Len(fs)
          /\ fs[more["src"][k][2]] = Step("src", p)
    BY <2>2, <2>3, <2>4
  <2> QED
    BY <2>5 DEF Stepwise, more
<1> QED
  BY <1>13, <1>15, <1>16 DEF Tells, made, more, e, next

\* A strengthen, of both sides.
LEMMA TellsBoth ==
  ASSUME NEW x, NEW es, NEW hist, NEW landed, Tells(x, es, hist, landed),
         NEW p \in Programs, NEW q \in Programs, NEW by \in SUBSET (Nat \X Programs),
         <<x, "src", p>> \in landed, <<x, "tgt", q>> \in landed
  PROVE  LET fs   == Append(es, Both(p, q, by))
             next == [t \in Sides |-> Append(hist[t], IF t = "src" THEN p ELSE q)]
         IN  /\ Tells(x, fs, next, landed)
             /\ \A r : Stepwise(es, hist, r) => Stepwise(fs, next, r)
<1> DEFINE made == MadeFrom(FirstMade(hist), es)
           e    == Both(p, q, by)
           fs   == Append(es, e)
           n    == Len(es) + 1
           next == [t \in Sides |-> Append(hist[t], IF t = "src" THEN p ELSE q)]
           more == MadeFrom(FirstMade(next), fs)
<1>1. Told(x, es, hist, made, landed)
  BY DEF Tells
<1>2. /\ es \in Seq(Effects) /\ Len(es) \in Nat /\ hist \in [Sides -> Seq(Programs)]
      /\ made \in [Sides -> Seq(Programs \X Nat)]
      /\ \A t \in Sides : SideTold(x, es, t, hist[t], made[t], landed)
  BY <1>1 DEF Told
<1>3. e \in Effects /\ e.effect = "strengthen" /\ e.to["src"] = p /\ e.to["tgt"] = q
  BY EffectsAre DEF Both
<1>4. \A t \in Sides : Len(hist[t]) \in Nat /\ 1 <= Len(hist[t]) /\ hist[t] \in Seq(Programs)
  BY <1>2 DEF SideTold
<1>5. \A t \in Sides : e.to[t] \in Programs /\ <<x, t, e.to[t]>> \in landed
  BY <1>3 DEF Sides
<1>6. \A t \in Sides : e.to[t] = IF t = "src" THEN p ELSE q
  BY <1>3 DEF Sides
<1>7. \A t \in Sides : next[t] = Append(hist[t], e.to[t])
  BY <1>6
<1>8. next \in [Sides -> Seq(Programs)]
  BY <1>4
<1> HIDE DEF next
<1>9. FirstMade(next) = FirstMade(hist)
  <2>1. \A t \in Sides : next[t][1] = hist[t][1]
    BY <1>4, <1>5, <1>7
  <2> QED
    BY <2>1 DEF FirstMade
<1>10. more = [t \in Sides |-> Append(made[t], <<e.to[t], n>>)]
  <2>1. more = Played(made, e, n)
    BY <1>2, <1>3, <1>9, MadeAppend
  <2> HIDE DEF made, more, e
  <2> QED
    BY <1>3, <2>1 DEF Played, Pushed
<1> HIDE DEF made, more, e
<1>11. /\ \A t \in Sides : more[t] = Append(made[t], <<e.to[t], n>>)
       /\ \A t \in Sides : <<e.to[t], n>> \in Programs \X Nat /\ made[t] \in Seq(Programs \X Nat)
  <2>1. n \in Nat
    BY <1>2
  <2>2. \A t \in Sides : e.to[t] \in Programs /\ made[t] \in Seq(Programs \X Nat)
    BY <1>2, <1>5
  <2> HIDE DEF n
  <2>3. \A t \in Sides : <<e.to[t], n>> \in Programs \X Nat
    BY <2>1, <2>2
  <2> QED
    BY <1>10, <2>2, <2>3
<1>12. more \in [Sides -> Seq(Programs \X Nat)]
  BY <1>10, <1>11
<1>13. ASSUME NEW t \in Sides
       PROVE  SideTold(x, fs, t, next[t], more[t], landed)
  <2>1. Makes(e, t, hist[t][Len(hist[t])], e.to[t])
    BY <1>3 DEF Makes
  <2>2. SideTold(x, Append(es, e), t, Append(hist[t], e.to[t]), Append(made[t], <<e.to[t], Len(es) + 1>>), landed)
    BY <1>2, <1>3, <1>5, <2>1, SideGrows
  <2> QED
    BY <1>7, <1>11, <2>2
<1>14. fs \in Seq(Effects)
  BY <1>2, <1>3
<1>15. Told(x, fs, next, more, landed)
  BY <1>8, <1>12, <1>13, <1>14 DEF Told
<1>16. Further(made, more)
  <2>1. ASSUME NEW t \in Sides
        PROVE  /\ Len(made[t]) \in Nat /\ Len(more[t]) \in Nat /\ Len(made[t]) <= Len(more[t])
               /\ \A k \in 1..Len(made[t]) : more[t][k] = made[t][k]
    BY <1>11
  <2> QED
    BY <2>1 DEF Further
<1>17. \A r : Stepwise(es, hist, r) => Stepwise(fs, next, r)
  BY <1>2, <1>3, <1>16, StepwiseOn DEF made, more
<1> QED
  BY <1>15, <1>17 DEF Tells, more, e, next

\* A revert, to no place before a program that was landed.
LEMMA TellsBack ==
  ASSUME NEW x, NEW es, NEW hist, NEW landed, Tells(x, es, hist, landed),
         NEW s \in Sides, NEW p \in Programs, Holds(hist[s], p),
         \A q : <<x, s, q>> \in landed /\ Holds(hist[s], q)
                  => ~(LastIndexOf(hist[s], q) > LastIndexOf(hist[s], p))
  PROVE  LET fs   == Append(es, Back(s, p))
             next == [hist EXCEPT ![s] = SubSeq(hist[s], 1, LastIndexOf(hist[s], p))]
         IN  /\ Tells(x, fs, next, landed)
             /\ \A q : <<x, "src", q>> \in landed /\ Stepwise(es, hist, q) => Stepwise(fs, next, q)
<1> DEFINE made == MadeFrom(FirstMade(hist), es)
           e    == Back(s, p)
           fs   == Append(es, e)
           n    == LastIndexOf(hist[s], p)
           next == [hist EXCEPT ![s] = SubSeq(hist[s], 1, n)]
           more == MadeFrom(FirstMade(next), fs)
<1>1. Told(x, es, hist, made, landed)
  BY DEF Tells
<1>2. /\ es \in Seq(Effects) /\ Len(es) \in Nat /\ hist \in [Sides -> Seq(Programs)]
      /\ made \in [Sides -> Seq(Programs \X Nat)]
      /\ \A t \in Sides : SideTold(x, es, t, hist[t], made[t], landed)
  BY <1>1 DEF Told
<1>3. e \in Effects /\ e.effect = "revert" /\ e.side = s /\ e.to = p
  BY EffectsAre DEF Back
<1>4. \A t \in Sides : Len(hist[t]) \in Nat /\ 1 <= Len(hist[t]) /\ hist[t] \in Seq(Programs)
  BY <1>2 DEF SideTold
<1>5. n \in 1..Len(hist[s]) /\ hist[s][n] = p
  BY <1>4, LastIndexOfIs
<1>6. \A k \in 1..Len(hist[s]) : n < k => <<x, s, hist[s][k]>> \notin landed
  <2> SUFFICES ASSUME NEW k \in 1..Len(hist[s]), n < k, <<x, s, hist[s][k]>> \in landed
               PROVE  FALSE
    OBVIOUS
  <2> DEFINE l == LastIndexOf(hist[s], hist[s][k])
  <2>1. Holds(hist[s], hist[s][k])
    BY DEF Holds
  <2>2. l \in 1..Len(hist[s]) /\ \A j \in l + 1..Len(hist[s]) : hist[s][j] # hist[s][k]
    BY <1>4, <2>1, LastIndexOfIs
  <2>3. ~(l > n)
    BY <2>1
  <2> HIDE DEF l, n
  <2>4. k \in l + 1..Len(hist[s])
    BY <1>4, <1>5, <2>2, <2>3
  <2> QED
    BY <2>2, <2>4
<1>7. LastIndexOf([k \in DOMAIN made[s] |-> made[s][k][1]], p) = n
  <2>1. /\ made[s] \in Seq(Programs \X Nat) /\ Len(made[s]) = Len(hist[s])
        /\ \A k \in 1..Len(hist[s]) : made[s][k][1] = hist[s][k]
    BY <1>2 DEF SideTold
  <2> HIDE DEF made
  <2>2. DOMAIN made[s] = 1..Len(hist[s])
    BY <2>1
  <2>3. [k \in DOMAIN made[s] |-> made[s][k][1]] = [k \in 1..Len(hist[s]) |-> hist[s][k]]
    BY <2>1, <2>2
  <2>4. [k \in 1..Len(hist[s]) |-> hist[s][k]] = hist[s]
    BY <1>4
  <2> QED
    BY <2>3, <2>4
<1> HIDE DEF n
<1>8. next \in [Sides -> Seq(Programs)] /\ next[s] = SubSeq(hist[s], 1, n)
        /\ \A t \in Sides \ {s} : next[t] = hist[t]
  BY <1>2, <1>4, <1>5
<1> HIDE DEF next
<1>9. FirstMade(next) = FirstMade(hist)
  <2>1. \A t \in Sides : next[t][1] = hist[t][1]
    BY <1>4, <1>5, <1>8
  <2> QED
    BY <2>1 DEF FirstMade
<1>10. more = [made EXCEPT ![s] = SubSeq(made[s], 1, n)]
  <2>1. more = Played(made, e, Len(es) + 1)
    BY <1>2, <1>3, <1>9, MadeAppend
  <2> HIDE DEF made, more, e
  <2> QED
    BY <1>3, <1>7, <2>1 DEF Played
<1> HIDE DEF made, more, e
<1>11. \A t \in Sides : made[t] \in Seq(Programs \X Nat) /\ Len(made[t]) = Len(hist[t])
  BY <1>2 DEF SideTold
<1>12. SubSeq(made[s], 1, n) \in Seq(Programs \X Nat)
  BY <1>4, <1>5, <1>11
<1>13. /\ more \in [Sides -> Seq(Programs \X Nat)] /\ more[s] = SubSeq(made[s], 1, n)
       /\ \A t \in Sides \ {s} : more[t] = made[t]
  BY <1>2, <1>10, <1>12
<1>14. SideTold(x, es, s, next[s], more[s], landed)
  <2>1. SideTold(x, es, s, SubSeq(hist[s], 1, n), SubSeq(made[s], 1, n), landed)
    BY <1>2, <1>5, <1>6, SideBack
  <2> QED
    BY <1>8, <1>13, <2>1
<1>15. \A t \in Sides : SideTold(x, es, t, next[t], more[t], landed)
  BY <1>2, <1>8, <1>13, <1>14
<1>16. \A t \in Sides : SideTold(x, fs, t, next[t], more[t], landed)
  BY <1>2, <1>3, <1>15, SideMore
<1>17. /\ fs \in Seq(Effects) /\ Len(fs) = Len(es) + 1
       /\ \A i \in 1..Len(es) : fs[i] = es[i]
  BY <1>2, <1>3
<1>18. Told(x, fs, next, more, landed)
  BY <1>8, <1>13, <1>16, <1>17 DEF Told
<1>19. ASSUME NEW q, <<x, "src", q>> \in landed, Stepwise(es, hist, q)
       PROVE  Stepwise(fs, next, q)
  <2>1. PICK k \in 2..Len(made["src"]) :
          /\ made["src"][k][1] = q /\ made["src"][k][2] \in 1..Len(es)
          /\ es[made["src"][k][2]] = Step("src", q)
    BY <1>19 DEF Stepwise, made
  <2> HIDE DEF fs
  <2>2. made["src"][k][2] \in 1..Len(fs) /\ fs[made["src"][k][2]] = Step("src", q)
    BY <1>2, <1>17, <2>1
  <2>3. k \in 2..Len(more["src"]) /\ more["src"][k] = made["src"][k]
    <3>1. CASE s = "src"
      <4>1. /\ Len(made["src"]) = Len(hist["src"]) /\ k \in 1..Len(hist["src"])
            /\ made["src"][k][1] = hist["src"][k]
        BY <1>2, <1>4, <2>1, <3>1 DEF SideTold
      <4>2. k <= n
        BY <1>5, <1>6, <1>19, <2>1, <3>1, <4>1
      <4>3. k \in Nat /\ 2 <= k /\ n \in Nat /\ n <= Len(made["src"])
        BY <1>5, <3>1, <4>1
      <4>4. made["src"] \in Seq(Programs \X Nat) /\ more["src"] = SubSeq(made["src"], 1, n)
        BY <1>11, <1>13, <3>1
      <4>5. Len(SubSeq(made["src"], 1, n)) = n /\ SubSeq(made["src"], 1, n)[k] = made["src"][k]
        BY <4>2, <4>3, <4>4
      <4> QED
        BY <4>2, <4>3, <4>4, <4>5
    <3>2. CASE s # "src"
      BY <1>13, <2>1, <3>2 DEF Sides
    <3> QED
      BY <3>1, <3>2
  <2> QED
    BY <2>1, <2>2, <2>3 DEF Stepwise, more, fs
<1> QED
  BY <1>18, <1>19 DEF Tells, more, e, next, n

-----------------------------------------------------------------------------
(* The chain of a goal.                                                    *)

Links ==
  [side : Sides, from : Programs, to : Programs]
    \cup [side : {"both"}, from : [Sides -> Programs], to : [Sides -> Programs],
          by : SUBSET (Nat \X Programs)]

Firsts(hist) == [s \in Sides |-> hist[s][1]]

\* The kernel's walk along the steps, as Connected has it.
Walks(walk, first, steps) ==
  walk = [j \in 0..Len(steps) |-> IF j = 0 THEN first ELSE Leaves(walk[j - 1], steps[j])]

\* The kernel can take the steps, and they lead from the one pair to the other.
Leads(first, steps, last) ==
  \E walk :
    /\ Walks(walk, first, steps)
    /\ walk[Len(steps)] = last
    /\ \A j \in 1..Len(steps) : Allowed(walk[j - 1], steps[j])

\* The programs up to the place at are those the first i effects made, as m names them.
Stops(h, m, at, i) ==
  /\ at \in 1..Len(h)
  /\ m[at][2] <= i
  /\ at < Len(h) => i < m[at + 1][2]

\* What the chain r has of the first i effects: the programs they made, and no others.
Reached(es, hist, made, r, i) ==
  /\ r.at \in [Sides -> Nat] /\ r.steps \in Seq(Links)
  /\ \A s \in Sides : Stops(hist[s], made[s], r.at[s], i)
  /\ Leads(Firsts(hist), r.steps, [s \in Sides |-> hist[s][r.at[s]]])
  /\ \A k \in 2..r.at["src"] : es[made["src"][k][2]].effect = "step" =>
       \E j \in 1..Len(r.steps) : r.steps[j].side = "src" /\ r.steps[j].to = hist["src"][k]
  /\ \A j \in 1..Len(r.steps) : r.steps[j].side = "both" =>
       \E l \in 1..i : es[l].effect = "strengthen" /\ es[l].by = r.steps[j].by

\* Along one side: the i-th effect is the next that made a program of it, or is none of it.
LEMMA SideOn ==
  ASSUME NEW x, NEW es \in Seq(Effects), NEW s \in Sides, NEW h, NEW m, NEW landed,
         SideTold(x, es, s, h, m, landed), NEW i \in 1..Len(es), NEW at, Stops(h, m, at, i - 1)
  PROVE  /\ at < Len(m) /\ m[at + 1][2] = i =>
              Stops(h, m, at + 1, i) /\ Makes(es[i], s, h[at], h[at + 1])
         /\ ~(at < Len(m) /\ m[at + 1][2] = i) =>
              Stops(h, m, at, i) /\ es[i].effect # "strengthen"
<1>0. at \in 1..Len(h) /\ m[at][2] <= i - 1 /\ (at < Len(h) => i - 1 < m[at + 1][2])
  BY DEF Stops
<1>1. /\ Len(es) \in Nat /\ i \in Nat
      /\ h \in Seq(Programs) /\ Len(h) \in Nat /\ Len(m) = Len(h) /\ at \in Nat
      /\ \A k \in 1..Len(h) : m[k] \in Programs \X Nat
  BY <1>0 DEF SideTold
<1>2. \A k \in 1..Len(h) : m[k][2] \in Nat
  BY <1>1
<1>3. \A j, k \in 1..Len(h) : j < k => m[j][2] < m[k][2]
  BY DEF SideTold
<1>4. ASSUME at < Len(m), m[at + 1][2] = i
      PROVE  Stops(h, m, at + 1, i) /\ Makes(es[i], s, h[at], h[at + 1])
  <2>1. at + 1 \in 2..Len(h) /\ at + 1 \in 1..Len(h) /\ (at + 1) - 1 = at
    BY <1>0, <1>1, <1>4
  <2>2. at + 1 < Len(h) => at + 1 + 1 \in 1..Len(h) /\ at + 1 < at + 1 + 1
    BY <1>1
  <2>3. at + 1 < Len(h) => i < m[at + 1 + 1][2]
    BY <1>3, <1>4, <2>1, <2>2
  <2>4. Makes(es[m[at + 1][2]], s, h[(at + 1) - 1], h[at + 1])
    BY <2>1 DEF SideTold
  <2>5. m[at + 1][2] <= i
    BY <1>1, <1>4
  <2> DEFINE b == at + 1
  <2>6. b \in 1..Len(h) /\ m[b][2] <= i /\ (b < Len(h) => i < m[b + 1][2])
    BY <2>1, <2>3, <2>5
  <2> HIDE DEF b
  <2>7. Stops(h, m, b, i)
    BY <2>6 DEF Stops
  <2> QED
    BY <1>4, <2>1, <2>4, <2>7 DEF b
<1>5. ASSUME ~(at < Len(m) /\ m[at + 1][2] = i)
      PROVE  Stops(h, m, at, i) /\ es[i].effect # "strengthen"
  <2>1. m[at][2] \in Nat /\ (at < Len(h) => at + 1 \in 1..Len(h) /\ m[at + 1][2] \in Nat)
    BY <1>0, <1>1, <1>2
  <2>2. m[at][2] <= i /\ (at < Len(h) => i < m[at + 1][2])
    BY <1>0, <1>1, <1>5, <2>1
  <2>3. ASSUME es[i].effect = "strengthen" PROVE FALSE
    <3>1. PICK k \in 2..Len(h) : m[k][2] = i
      BY <2>3 DEF SideTold
    <3>2. k \in 1..Len(h) /\ k \in Nat
      BY <1>1
    <3>3. CASE k <= at
      <4>1. m[k][2] <= m[at][2]
        <5>1. CASE k = at
          BY <2>1, <5>1
        <5>2. CASE k # at
          BY <1>0, <1>1, <1>2, <1>3, <3>2, <3>3, <5>2
        <5> QED
          BY <5>1, <5>2
      <4> QED
        BY <1>0, <1>1, <2>1, <3>1, <4>1
    <3>4. CASE at < k
      <4>1. at < Len(h)
        BY <1>1, <3>2, <3>4
      <4>2. i < m[at + 1][2] /\ at + 1 \in 1..Len(h) /\ m[at + 1][2] \in Nat
        BY <2>1, <2>2, <4>1
      <4>3. CASE k = at + 1
        BY <1>1, <3>1, <4>2, <4>3
      <4>4. CASE k # at + 1
        <5>1. at + 1 < k
          BY <1>1, <3>2, <3>4, <4>4
        <5>2. m[at + 1][2] < m[k][2]
          BY <1>3, <3>2, <4>2, <5>1
        <5> QED
          BY <1>1, <3>1, <4>2, <5>2
      <4> QED
        BY <4>3, <4>4
    <3> QED
      BY <1>1, <3>2, <3>3, <3>4
  <2> QED
    BY <1>0, <2>2, <2>3 DEF Stops
<1> QED
  BY <1>4, <1>5

\* One step more.
LEMMA LeadsOn ==
  ASSUME NEW first, NEW steps \in Seq(Links), NEW last, Leads(first, steps, last),
         NEW link \in Links, Allowed(last, link)
  PROVE  Leads(first, Append(steps, link), Leaves(last, link))
<1> DEFINE more == Append(steps, link)
           n == Len(steps)
<1>1. /\ n \in Nat /\ Len(more) = n + 1 /\ more[n + 1] = link
      /\ \A j \in 1..n : more[j] = steps[j]
  OBVIOUS
<1>2. PICK walk :
        /\ Walks(walk, first, steps)
        /\ walk[Len(steps)] = last
        /\ \A j \in 1..Len(steps) : Allowed(walk[j - 1], steps[j])
  BY DEF Leads
<1> HIDE DEF more, n
<1>3. \A j \in 0..n : walk[j] = IF j = 0 THEN first ELSE Leaves(walk[j - 1], steps[j])
  BY <1>2 DEF Walks, n
<1> DEFINE wide == [j \in 0..n + 1 |-> IF j = n + 1 THEN Leaves(last, link) ELSE walk[j]]
<1>4. \A j \in 0..n : wide[j] = walk[j]
  BY <1>1
<1>5. wide[n + 1] = Leaves(last, link)
  BY <1>1
<1>6. wide = [j \in 0..n + 1 |-> wide[j]]
  OBVIOUS
<1> HIDE DEF wide
<1>7. wide[n] = last
  BY <1>1, <1>2, <1>4 DEF n
<1>8. \A j \in 1..n : j \in 0..n /\ j - 1 \in 0..n /\ j # 0
  BY <1>1
<1>9. \A j \in 0..n + 1 : wide[j] = IF j = 0 THEN first ELSE Leaves(wide[j - 1], more[j])
  <2> SUFFICES ASSUME NEW j \in 0..n + 1
               PROVE  wide[j] = IF j = 0 THEN first ELSE Leaves(wide[j - 1], more[j])
    OBVIOUS
  <2>1. CASE j = n + 1
    <3>1. j # 0 /\ j - 1 = n
      BY <1>1, <2>1
    <3> QED
      BY <1>1, <1>5, <1>7, <2>1, <3>1
  <2>2. CASE j = 0
    BY <1>1, <1>3, <1>4, <2>2
  <2>3. CASE j # n + 1 /\ j # 0
    <3>1. j \in 1..n
      BY <1>1, <2>3
    <3> QED
      BY <1>1, <1>3, <1>4, <1>8, <3>1
  <2> QED
    BY <2>1, <2>2, <2>3
<1>10. Walks(wide, first, more)
  BY <1>1, <1>6, <1>9 DEF Walks
<1>11. \A j \in 1..n + 1 : Allowed(wide[j - 1], more[j])
  <2> SUFFICES ASSUME NEW j \in 1..n + 1 PROVE Allowed(wide[j - 1], more[j])
    OBVIOUS
  <2>1. CASE j = n + 1
    <3>1. j - 1 = n
      BY <1>1, <2>1
    <3> QED
      BY <1>1, <1>7, <2>1, <3>1
  <2>2. CASE j # n + 1
    <3>1. j \in 1..n
      BY <1>1, <2>2
    <3> QED
      BY <1>1, <1>2, <1>4, <1>8, <3>1 DEF n
  <2> QED
    BY <2>1, <2>2
<1> QED
  BY <1>1, <1>5, <1>10, <1>11 DEF Leads, more

\* What the i-th effect is to each side of the chain of the effects before it.
LEMMA NextOf ==
  ASSUME NEW x, NEW es, NEW hist, NEW made, NEW landed, Told(x, es, hist, made, landed),
         NEW i \in 1..Len(es), NEW r, Reached(es, hist, made, r, i - 1), NEW s \in Sides
  PROVE  /\ Len(hist[s]) \in Nat /\ r.at[s] \in Nat /\ hist[s][r.at[s]] \in Programs
         /\ Survives(made, r.at, s, i) =>
              /\ made[s][r.at[s] + 1][2] = i
              /\ Stops(hist[s], made[s], r.at[s] + 1, i)
              /\ Makes(es[i], s, hist[s][r.at[s]], hist[s][r.at[s] + 1])
              /\ hist[s][r.at[s] + 1] \in Programs
         /\ ~Survives(made, r.at, s, i) =>
              Stops(hist[s], made[s], r.at[s], i) /\ es[i].effect # "strengthen"
<1> DEFINE h  == hist[s]
           m  == made[s]
           at == r.at[s]
<1>1. es \in Seq(Effects) /\ SideTold(x, es, s, h, m, landed)
  BY DEF Told
<1>2. Stops(h, m, at, i - 1)
  BY DEF Reached
<1>3. h \in Seq(Programs) /\ Len(h) \in Nat
  BY <1>1 DEF SideTold
<1>4. Survives(made, r.at, s, i) <=> at < Len(m) /\ m[at + 1][2] = i
  BY DEF Survives
<1> HIDE DEF h, m, at
<1>5. /\ at < Len(m) /\ m[at + 1][2] = i =>
           Stops(h, m, at + 1, i) /\ Makes(es[i], s, h[at], h[at + 1])
      /\ ~(at < Len(m) /\ m[at + 1][2] = i) =>
           Stops(h, m, at, i) /\ es[i].effect # "strengthen"
  BY <1>1, <1>2, SideOn
<1>6. at \in Nat /\ h[at] \in Programs /\ (Stops(h, m, at + 1, i) => h[at + 1] \in Programs)
  BY <1>2, <1>3 DEF Stops
<1>7. /\ Survives(made, r.at, s, i) =>
           /\ m[at + 1][2] = i
           /\ Stops(h, m, at + 1, i)
           /\ Makes(es[i], s, h[at], h[at + 1])
           /\ h[at + 1] \in Programs
      /\ ~Survives(made, r.at, s, i) =>
           Stops(h, m, at, i) /\ es[i].effect # "strengthen"
  BY <1>4, <1>5, <1>6
<1> QED
  BY <1>3, <1>6, <1>7 DEF h, m, at

\* The next of one side.
LEMMA ChainsStep ==
  ASSUME NEW x, NEW es, NEW hist, NEW made, NEW landed, Told(x, es, hist, made, landed),
         NEW i \in 1..Len(es), NEW r, Reached(es, hist, made, r, i - 1),
         es[i].effect = "step", Survives(made, r.at, es[i].side, i)
  PROVE  Reached(es, hist, made, Chained(made, hist, r, es[i], i), i)
<1> DEFINE e    == es[i]
           s    == e.side
           link == [side |-> s, from |-> hist[s][r.at[s]], to |-> e.to]
           q    == [at    |-> [r.at EXCEPT ![s] = @ + 1],
                    steps |-> Append(r.steps, link)]
           here == [t \in Sides |-> hist[t][r.at[t]]]
<1>1. /\ es \in Seq(Effects) /\ Len(es) \in Nat /\ i \in Nat
      /\ e \in Effects /\ e.effect = "step"
      /\ \A t \in Sides : SideTold(x, es, t, hist[t], made[t], landed)
  BY DEF Told
<1>2. s \in Sides /\ s # "both"
  BY <1>1 DEF Effects, Sides
<1>3. Chained(made, hist, r, e, i) = q
  BY DEF Chained
<1> HIDE DEF q, e
<1> HIDE DEF s
<1>4. /\ r.at[s] \in Nat /\ Stops(hist[s], made[s], r.at[s] + 1, i)
      /\ Makes(e, s, hist[s][r.at[s]], hist[s][r.at[s] + 1])
      /\ hist[s][r.at[s] + 1] \in Programs /\ hist[s][r.at[s]] \in Programs
  <2>1. Survives(made, r.at, s, i)
    BY DEF s, e
  <2> QED
    BY <1>2, <2>1, NextOf DEF e
<1>5. e = Step(s, hist[s][r.at[s] + 1]) /\ Certifies(s, hist[s][r.at[s]], hist[s][r.at[s] + 1])
  BY <1>1, <1>4 DEF Makes
<1>6. e.to = hist[s][r.at[s] + 1]
  BY <1>5 DEF Step
<1>7. \A t \in Sides \ {s} : ~Survives(made, r.at, t, i)
  <2> SUFFICES ASSUME NEW t \in Sides \ {s}, Survives(made, r.at, t, i) PROVE FALSE
    OBVIOUS
  <2>1. Makes(e, t, hist[t][r.at[t]], hist[t][r.at[t] + 1])
    BY NextOf DEF e
  <2> QED
    BY <1>1, <2>1 DEF Makes, Step, s
<1>8. /\ r.at \in [Sides -> Nat] /\ r.steps \in Seq(Links)
      /\ Leads(Firsts(hist), r.steps, here)
      /\ \A k \in 2..r.at["src"] : es[made["src"][k][2]].effect = "step" =>
           \E j \in 1..Len(r.steps) : r.steps[j].side = "src" /\ r.steps[j].to = hist["src"][k]
      /\ \A j \in 1..Len(r.steps) : r.steps[j].side = "both" =>
           \E l \in 1..i - 1 : es[l].effect = "strengthen" /\ es[l].by = r.steps[j].by
  BY DEF Reached
<1>9. link \in Links /\ link.side = s /\ link.to = hist[s][r.at[s] + 1] /\ link.from = hist[s][r.at[s]]
  BY <1>2, <1>4, <1>6 DEF Links
<1> HIDE DEF link
<1>10. /\ q.at \in [Sides -> Nat] /\ q.at[s] = r.at[s] + 1 /\ \A t \in Sides \ {s} : q.at[t] = r.at[t]
       /\ q.steps = Append(r.steps, link)
  BY <1>2, <1>4, <1>8 DEF q
<1>11. /\ q.steps \in Seq(Links) /\ Len(q.steps) = Len(r.steps) + 1 /\ Len(r.steps) \in Nat
       /\ q.steps[Len(r.steps) + 1] = link
       /\ \A j \in 1..Len(r.steps) : q.steps[j] = r.steps[j]
  BY <1>8, <1>9, <1>10
<1>12. ASSUME NEW t \in Sides
       PROVE  Stops(hist[t], made[t], q.at[t], i)
  <2>1. CASE t = s
    BY <1>4, <1>10, <2>1
  <2>2. CASE t # s
    <3>1. q.at[t] = r.at[t] /\ ~Survives(made, r.at, t, i)
      BY <1>7, <1>10, <2>2
    <3> QED
      BY <3>1, NextOf
  <2> QED
    BY <2>1, <2>2
<1>13. Leads(Firsts(hist), q.steps, [t \in Sides |-> hist[t][q.at[t]]])
  <2>1. here[s] = hist[s][r.at[s]]
    BY <1>2
  <2>2. Allowed(here, link)
    BY <1>2, <1>5, <1>9, <2>1 DEF Allowed
  <2>3. Leaves(here, link) = [t \in Sides |-> hist[t][q.at[t]]]
    BY <1>2, <1>9, <1>10 DEF Leaves
  <2> HIDE DEF here
  <2>4. Leads(Firsts(hist), Append(r.steps, link), Leaves(here, link))
    BY <1>8, <1>9, <2>2, LeadsOn
  <2> QED
    BY <1>10, <2>3, <2>4
<1>14. ASSUME NEW k \in 2..q.at["src"], es[made["src"][k][2]].effect = "step"
       PROVE  \E j \in 1..Len(q.steps) : q.steps[j].side = "src" /\ q.steps[j].to = hist["src"][k]
  <2>0. r.at["src"] \in Nat
    BY <1>8 DEF Sides
  <2>1. CASE k <= r.at["src"]
    <3>1. k \in 2..r.at["src"]
      BY <2>0, <2>1
    <3>2. PICK j \in 1..Len(r.steps) : r.steps[j].side = "src" /\ r.steps[j].to = hist["src"][k]
      BY <1>8, <1>14, <3>1
    <3>3. j \in 1..Len(q.steps)
      BY <1>11
    <3> QED
      BY <1>11, <3>2, <3>3
  <2>2. CASE ~(k <= r.at["src"])
    <3>1. s = "src"
      BY <1>10, <2>0, <2>2 DEF Sides
    <3>2. k = r.at["src"] + 1
      <4>1. q.at["src"] = r.at["src"] + 1
        BY <1>10, <3>1
      <4>2. k \in Nat /\ k <= q.at["src"]
        BY <1>14, <2>0, <4>1
      <4> QED
        BY <2>0, <2>2, <4>1, <4>2
    <3>3. Len(r.steps) + 1 \in 1..Len(q.steps)
      BY <1>11
    <3> QED
      BY <1>9, <1>11, <3>1, <3>2, <3>3
  <2> QED
    BY <2>1, <2>2
<1>15. ASSUME NEW j \in 1..Len(q.steps), q.steps[j].side = "both"
       PROVE  \E l \in 1..i : es[l].effect = "strengthen" /\ es[l].by = q.steps[j].by
  <2>1. j # Len(r.steps) + 1
    BY <1>2, <1>9, <1>11, <1>15
  <2>2. j \in 1..Len(r.steps)
    BY <1>11, <2>1
  <2>3. PICK l \in 1..i - 1 : es[l].effect = "strengthen" /\ es[l].by = r.steps[j].by
    BY <1>8, <1>11, <1>15, <2>2
  <2>4. l \in 1..i
    BY <1>1
  <2> QED
    BY <1>11, <2>2, <2>3, <2>4
<1>16. Reached(es, hist, made, q, i)
  BY <1>10, <1>11, <1>12, <1>13, <1>14, <1>15 DEF Reached
<1> QED
  BY <1>3, <1>16 DEF e

\* The next of both.
LEMMA ChainsBoth ==
  ASSUME NEW x, NEW es, NEW hist, NEW made, NEW landed, Told(x, es, hist, made, landed),
         NEW i \in 1..Len(es), NEW r, Reached(es, hist, made, r, i - 1),
         es[i].effect = "strengthen"
  PROVE  Reached(es, hist, made, Chained(made, hist, r, es[i], i), i)
<1> DEFINE e    == es[i]
           here == [t \in Sides |-> hist[t][r.at[t]]]
           link == [side |-> "both", from |-> here, to |-> e.to, by |-> e.by]
           q    == [at |-> [t \in Sides |-> r.at[t] + 1], steps |-> Append(r.steps, link)]
<1>1. /\ es \in Seq(Effects) /\ Len(es) \in Nat /\ i \in Nat
      /\ e \in Effects /\ e.effect = "strengthen"
  BY DEF Told
<1>2. e.to \in [Sides -> Programs] /\ e.by \in SUBSET (Nat \X Programs)
  BY <1>1 DEF Effects
<1>3. \A t \in Sides : Survives(made, r.at, t, i)
  BY NextOf
<1>4. Chained(made, hist, r, e, i) = q
  BY <1>3 DEF Chained
<1> HIDE DEF e, q
<1>5. \A t \in Sides :
        /\ r.at[t] \in Nat /\ made[t][r.at[t] + 1][2] = i
        /\ Stops(hist[t], made[t], r.at[t] + 1, i)
        /\ Makes(e, t, hist[t][r.at[t]], hist[t][r.at[t] + 1])
        /\ hist[t][r.at[t]] \in Programs
  BY <1>3, NextOf DEF e
<1>6. \A t \in Sides : e.to[t] = hist[t][r.at[t] + 1]
  BY <1>1, <1>5 DEF Makes, Step
<1>7. /\ r.at \in [Sides -> Nat] /\ r.steps \in Seq(Links)
      /\ Leads(Firsts(hist), r.steps, here)
      /\ \A k \in 2..r.at["src"] : es[made["src"][k][2]].effect = "step" =>
           \E j \in 1..Len(r.steps) : r.steps[j].side = "src" /\ r.steps[j].to = hist["src"][k]
      /\ \A j \in 1..Len(r.steps) : r.steps[j].side = "both" =>
           \E l \in 1..i - 1 : es[l].effect = "strengthen" /\ es[l].by = r.steps[j].by
  BY DEF Reached
<1>8. here \in [Sides -> Programs]
  BY <1>5
<1> HIDE DEF here
<1>9. /\ link \in Links /\ link.side = "both" /\ link.to = e.to /\ link.by = e.by
      /\ link.from = here
  BY <1>2, <1>8 DEF Links
<1> HIDE DEF link
<1>10. /\ q.at \in [Sides -> Nat] /\ \A t \in Sides : q.at[t] = r.at[t] + 1
       /\ q.steps = Append(r.steps, link)
  BY <1>5 DEF q
<1>11. /\ q.steps \in Seq(Links) /\ Len(q.steps) = Len(r.steps) + 1 /\ Len(r.steps) \in Nat
       /\ q.steps[Len(r.steps) + 1] = link
       /\ \A j \in 1..Len(r.steps) : q.steps[j] = r.steps[j]
  BY <1>7, <1>9, <1>10
<1>12. \A t \in Sides : Stops(hist[t], made[t], q.at[t], i)
  BY <1>5, <1>10
<1>13. Leads(Firsts(hist), q.steps, [t \in Sides |-> hist[t][q.at[t]]])
  <2>1. Allowed(here, link)
    BY <1>9 DEF Allowed
  <2>2. e.to = [t \in Sides |-> hist[t][q.at[t]]]
    <3>1. e.to = [t \in Sides |-> e.to[t]]
      BY <1>2
    <3> QED
      BY <1>6, <1>10, <3>1
  <2>3. Leaves(here, link) = e.to
    BY <1>9 DEF Leaves
  <2>4. Leads(Firsts(hist), Append(r.steps, link), Leaves(here, link))
    BY <1>7, <1>9, <2>1, LeadsOn
  <2> QED
    BY <1>10, <2>2, <2>3, <2>4
<1>14. ASSUME NEW k \in 2..q.at["src"], es[made["src"][k][2]].effect = "step"
       PROVE  \E j \in 1..Len(q.steps) : q.steps[j].side = "src" /\ q.steps[j].to = hist["src"][k]
  <2>1. /\ "src" \in Sides /\ r.at["src"] \in Nat /\ q.at["src"] = r.at["src"] + 1
        /\ made["src"][r.at["src"] + 1][2] = i
    BY <1>5, <1>10 DEF Sides
  <2>2. k # r.at["src"] + 1
    BY <1>1, <1>14, <2>1 DEF e
  <2>3. k \in 2..r.at["src"]
    BY <2>1, <2>2
  <2>4. PICK j \in 1..Len(r.steps) : r.steps[j].side = "src" /\ r.steps[j].to = hist["src"][k]
    BY <1>7, <1>14, <2>3
  <2>5. j \in 1..Len(q.steps)
    BY <1>11
  <2> QED
    BY <1>11, <2>4, <2>5
<1>15. ASSUME NEW j \in 1..Len(q.steps), q.steps[j].side = "both"
       PROVE  \E l \in 1..i : es[l].effect = "strengthen" /\ es[l].by = q.steps[j].by
  <2>1. CASE j = Len(r.steps) + 1
    <3>1. i \in 1..i /\ es[i].effect = "strengthen" /\ es[i].by = q.steps[j].by
      BY <1>1, <1>9, <1>11, <2>1 DEF e
    <3> QED
      BY <3>1
  <2>2. CASE j # Len(r.steps) + 1
    <3>1. j \in 1..Len(r.steps)
      BY <1>11, <2>2
    <3>2. PICK l \in 1..i - 1 : es[l].effect = "strengthen" /\ es[l].by = r.steps[j].by
      BY <1>7, <1>11, <1>15, <3>1
    <3>3. l \in 1..i
      BY <1>1
    <3> QED
      BY <1>11, <3>1, <3>2, <3>3
  <2> QED
    BY <2>1, <2>2
<1>16. Reached(es, hist, made, q, i)
  BY <1>10, <1>11, <1>12, <1>13, <1>14, <1>15 DEF Reached
<1> QED
  BY <1>4, <1>16 DEF e

\* An effect that made nothing the histories still hold.
LEMMA ChainsOn ==
  ASSUME NEW x, NEW es, NEW hist, NEW made, NEW landed, Told(x, es, hist, made, landed),
         NEW i \in 1..Len(es), NEW r, Reached(es, hist, made, r, i - 1),
         es[i].effect # "strengthen",
         ~(es[i].effect = "step" /\ Survives(made, r.at, es[i].side, i))
  PROVE  Reached(es, hist, made, Chained(made, hist, r, es[i], i), i)
<1>1. i \in Nat /\ es[i] \in Effects
  BY DEF Told
<1>2. Chained(made, hist, r, es[i], i) = r
  BY DEF Chained
<1>3. \A t \in Sides : ~Survives(made, r.at, t, i)
  <2> SUFFICES ASSUME NEW t \in Sides, Survives(made, r.at, t, i) PROVE FALSE
    OBVIOUS
  <2>1. Makes(es[i], t, hist[t][r.at[t]], hist[t][r.at[t] + 1])
    BY NextOf
  <2>2. es[i].effect = "step" /\ es[i].side = t
    BY <2>1 DEF Makes, Step
  <2> QED
    BY <2>2
<1>4. \A t \in Sides : Stops(hist[t], made[t], r.at[t], i)
  BY <1>3, NextOf
<1>5. ASSUME NEW j \in 1..Len(r.steps), r.steps[j].side = "both"
      PROVE  \E l \in 1..i : es[l].effect = "strengthen" /\ es[l].by = r.steps[j].by
  <2>1. PICK l \in 1..i - 1 : es[l].effect = "strengthen" /\ es[l].by = r.steps[j].by
    BY <1>5 DEF Reached
  <2>2. l \in 1..i
    BY <1>1
  <2> QED
    BY <2>1, <2>2
<1>6. /\ r.at \in [Sides -> Nat] /\ r.steps \in Seq(Links)
      /\ Leads(Firsts(hist), r.steps, [t \in Sides |-> hist[t][r.at[t]]])
      /\ \A k \in 2..r.at["src"] : es[made["src"][k][2]].effect = "step" =>
           \E j \in 1..Len(r.steps) : r.steps[j].side = "src" /\ r.steps[j].to = hist["src"][k]
  BY DEF Reached
<1>7. Reached(es, hist, made, r, i)
  BY <1>4, <1>5, <1>6 DEF Reached
<1> QED
  BY <1>2, <1>7

LEMMA ChainStep ==
  ASSUME NEW x, NEW es, NEW hist, NEW made, NEW landed, Told(x, es, hist, made, landed),
         NEW i \in 1..Len(es), NEW r, Reached(es, hist, made, r, i - 1)
  PROVE  Reached(es, hist, made, Chained(made, hist, r, es[i], i), i)
BY ChainsStep, ChainsBoth, ChainsOn

\* The chain of i effects, each i up to n.
Chains(chain, made, hist, es, n) ==
  chain = [i \in 0..n |->
             IF i = 0 THEN [at |-> [s \in Sides |-> 1], steps |-> <<>>]
             ELSE Chained(made, hist, chain[i - 1], es[i], i)]

LEMMA ChainsExists ==
  ASSUME NEW made, NEW hist, NEW es, NEW n \in Nat
  PROVE  \E chain : Chains(chain, made, hist, es, n)
<1> DEFINE T == {m \in Nat : \E chain : Chains(chain, made, hist, es, m)}
           start == [at |-> [s \in Sides |-> 1], steps |-> <<>>]
<1>1. 0 \in T
  <2>1. Chains([i \in 0..0 |-> start], made, hist, es, 0)
    BY DEF Chains
  <2> QED
    BY <2>1
<1>2. ASSUME NEW m \in 1..n, m - 1 \in T
      PROVE  m \in T
  <2>1. PICK chain : Chains(chain, made, hist, es, m - 1)
    BY <1>2
  <2> DEFINE more == [i \in 0..m |-> IF i = m THEN Chained(made, hist, chain[m - 1], es[m], m) ELSE chain[i]]
  <2>2. \A i \in 0..m - 1 : more[i] = chain[i]
    OBVIOUS
  <2>3. \A i \in 0..m : more[i] = IF i = 0 THEN start ELSE Chained(made, hist, more[i - 1], es[i], i)
    <3> SUFFICES ASSUME NEW i \in 0..m
                 PROVE  more[i] = IF i = 0 THEN start ELSE Chained(made, hist, more[i - 1], es[i], i)
      OBVIOUS
    <3>1. CASE i = m
      BY <2>2, <3>1
    <3>2. CASE i # m
      <4>1. i \in 0..m - 1 /\ chain[i] = IF i = 0 THEN start ELSE Chained(made, hist, chain[i - 1], es[i], i)
        BY <2>1, <3>2 DEF Chains
      <4>2. i # 0 => i - 1 \in 0..m - 1
        BY <4>1
      <4> HIDE DEF more, start
      <4> QED
        BY <2>2, <4>1, <4>2
    <3> QED
      BY <3>1, <3>2
  <2>4. DOMAIN more = 0..m /\ more = [i \in 0..m |-> more[i]]
    OBVIOUS
  <2> HIDE DEF more
  <2>5. Chains(more, made, hist, es, m)
    BY <2>3, <2>4 DEF Chains
  <2> QED
    BY <2>5
<1> HIDE DEF T
<1>3. n \in T
  BY <1>1, <1>2, UpTo
<1> QED
  BY <1>3 DEF T

LEMMA ChainFromIs ==
  ASSUME NEW made, NEW hist, NEW es, Len(es) \in Nat
  PROVE  \E chain : Chains(chain, made, hist, es, Len(es)) /\ ChainFrom(made, hist, es) = chain[Len(es)]
<1> DEFINE chain == CHOOSE chain : Chains(chain, made, hist, es, Len(es))
<1>1. Chains(chain, made, hist, es, Len(es))
  BY ChainsExists
<1>2. ChainFrom(made, hist, es) = chain[Len(es)]
  BY DEF ChainFrom, Chains
<1> QED
  BY <1>1, <1>2

\* So the chain of a goal reaches all that its histories hold.
LEMMA ChainReaches ==
  ASSUME NEW x, NEW es, NEW hist, NEW made, NEW landed, Told(x, es, hist, made, landed)
  PROVE  Reached(es, hist, made, ChainFrom(made, hist, es), Len(es))
<1>1. /\ es \in Seq(Effects) /\ Len(es) \in Nat /\ hist \in [Sides -> Seq(Programs)]
      /\ \A s \in Sides : SideTold(x, es, s, hist[s], made[s], landed)
  BY DEF Told
<1> DEFINE n == Len(es)
<1>2. PICK chain : Chains(chain, made, hist, es, n) /\ ChainFrom(made, hist, es) = chain[n]
  BY <1>1, ChainFromIs
<1> HIDE DEF n
<1> DEFINE T == {i \in 0..n : Reached(es, hist, made, chain[i], i)}
           start == [at |-> [s \in Sides |-> 1], steps |-> <<>>]
<1>3. n \in Nat /\ n = Len(es)
  BY <1>1 DEF n
<1>4. chain[0] = start /\ \A i \in 1..n : chain[i] = Chained(made, hist, chain[i - 1], es[i], i)
  BY <1>2, <1>3 DEF Chains
<1>5. Reached(es, hist, made, start, 0)
  <2>1. \A s \in Sides : /\ hist[s] \in Seq(Programs) /\ 1 <= Len(hist[s]) /\ Len(hist[s]) \in Nat
                         /\ made[s][1][2] = 0
                         /\ Len(made[s]) = Len(hist[s])
                         /\ \A j, k \in 1..Len(hist[s]) : j < k => made[s][j][2] < made[s][k][2]
    BY <1>1 DEF SideTold
  <2>2. ASSUME NEW s \in Sides
        PROVE  Stops(hist[s], made[s], 1, 0)
    <3>1. 1 \in 1..Len(hist[s]) /\ (1 < Len(hist[s]) => 1 + 1 \in 1..Len(hist[s]))
      BY <2>1
    <3>2. 1 < Len(hist[s]) => made[s][1][2] < made[s][1 + 1][2]
      BY <2>1, <3>1
    <3> QED
      BY <2>1, <3>1, <3>2 DEF Stops
  <2>3. Leads(Firsts(hist), <<>>, Firsts(hist))
    <3> DEFINE walk == [j \in 0..0 |-> Firsts(hist)]
    <3>1. Walks(walk, Firsts(hist), <<>>) /\ walk[0] = Firsts(hist)
      BY DEF Walks
    <3> HIDE DEF walk
    <3> QED
      BY <3>1 DEF Leads
  <2>4. Firsts(hist) = [s \in Sides |-> hist[s][start.at[s]]]
    BY DEF Firsts
  <2>5. /\ start.at \in [Sides -> Nat] /\ start.steps \in Seq(Links) /\ start.steps = <<>>
        /\ \A s \in Sides : start.at[s] = 1
    OBVIOUS
  <2> HIDE DEF start
  <2>6. /\ start.at \in [Sides -> Nat] /\ start.steps \in Seq(Links)
        /\ \A s \in Sides : Stops(hist[s], made[s], start.at[s], 0)
        /\ Leads(Firsts(hist), start.steps, [s \in Sides |-> hist[s][start.at[s]]])
    BY <2>2, <2>3, <2>4, <2>5
  <2>7. 2..start.at["src"] = {} /\ 1..Len(start.steps) = {}
    BY <2>5 DEF Sides
  <2> QED
    BY <2>6, <2>7 DEF Reached
<1>6. 0 \in T
  BY <1>3, <1>4, <1>5
<1>7. ASSUME NEW i \in 1..n, i - 1 \in T
      PROVE  i \in T
  <2>1. i \in 1..Len(es) /\ i \in 0..n /\ Reached(es, hist, made, chain[i - 1], i - 1)
    BY <1>3, <1>7
  <2>2. Reached(es, hist, made, Chained(made, hist, chain[i - 1], es[i], i), i)
    BY <2>1, ChainStep
  <2> QED
    BY <1>4, <2>1, <2>2
<1> HIDE DEF T
<1>8. n \in 0..n /\ \A i \in 0..n : i \in T
  <2>1. n \in Nat /\ 0 \in T /\ \A i \in 1..n : i - 1 \in T => i \in T
    BY <1>3, <1>6, <1>7
  <2>2. \A i \in 0..n : i \in T
    BY <2>1, UpTo
  <2> QED
    BY <2>1, <2>2
<1>9. Reached(es, hist, made, chain[n], n)
  BY <1>8 DEF T
<1> QED
  BY <1>2, <1>9 DEF n

\* What the certificate asks of the chain of one goal, and what its contracts are checked by.
ChainWhole(es, hist, chain) ==
  /\ \A s \in Sides : chain.at[s] = Len(hist[s])
  /\ chain.steps \in Seq(Links)
  /\ Leads(Firsts(hist), chain.steps, [s \in Sides |-> hist[s][Len(hist[s])]])
  /\ \A p : Stepwise(es, hist, p) =>
       \E j \in 1..Len(chain.steps) : chain.steps[j].side = "src" /\ chain.steps[j].to = p
  /\ \A j \in 1..Len(chain.steps) : chain.steps[j].side = "both" =>
       \E l \in 1..Len(es) : es[l].effect = "strengthen" /\ es[l].by = chain.steps[j].by

LEMMA ChainIsWhole ==
  ASSUME NEW x, NEW es, NEW hist, NEW landed, Tells(x, es, hist, landed)
  PROVE  ChainWhole(es, hist, ChainFrom(MadeFrom(FirstMade(hist), es), hist, es))
<1> DEFINE made  == MadeFrom(FirstMade(hist), es)
           chain == ChainFrom(made, hist, es)
<1>1. Told(x, es, hist, made, landed)
  BY DEF Tells
<1>2. Reached(es, hist, made, chain, Len(es))
  <2> HIDE DEF made
  <2> QED
    BY <1>1, ChainReaches
<1>3. \A p : Stepwise(es, hist, p) =>
        \E k \in 2..Len(made["src"]) :
          made["src"][k][1] = p /\ made["src"][k][2] \in 1..Len(es) /\ es[made["src"][k][2]] = Step("src", p)
  BY DEF Stepwise
<1> HIDE DEF made, chain
<1>4. ASSUME NEW s \in Sides
      PROVE  chain.at[s] = Len(hist[s]) /\ Len(made[s]) = Len(hist[s])
               /\ \A k \in 1..Len(hist[s]) : made[s][k][1] = hist[s][k]
  <2>1. SideTold(x, es, s, hist[s], made[s], landed)
    BY <1>1 DEF Told
  <2>2. /\ Len(es) \in Nat
        /\ made[s] \in Seq(Programs \X Nat) /\ Len(made[s]) = Len(hist[s]) /\ Len(hist[s]) \in Nat
        /\ \A k \in 1..Len(hist[s]) : made[s][k][1] = hist[s][k] /\ made[s][k][2] <= Len(es)
    BY <1>1, <2>1 DEF Told, SideTold
  <2>3. /\ chain.at[s] \in 1..Len(hist[s])
        /\ chain.at[s] < Len(hist[s]) => Len(es) < made[s][chain.at[s] + 1][2]
    BY <1>2 DEF Reached, Stops
  <2>4. ~(chain.at[s] < Len(hist[s]))
    <3> SUFFICES ASSUME chain.at[s] < Len(hist[s]) PROVE FALSE
      OBVIOUS
    <3>1. chain.at[s] + 1 \in 1..Len(hist[s])
      <4>1. chain.at[s] \in 1..Len(hist[s]) /\ Len(hist[s]) \in Nat
        BY <2>2, <2>3
      <4> QED
        BY <4>1
    <3>2. made[s][chain.at[s] + 1][2] \in Nat
      BY <2>2, <3>1
    <3> QED
      BY <2>2, <2>3, <3>1, <3>2
  <2> QED
    BY <2>2, <2>3, <2>4
<1>5. /\ chain.steps \in Seq(Links)
      /\ Leads(Firsts(hist), chain.steps, [s \in Sides |-> hist[s][chain.at[s]]])
      /\ \A k \in 2..chain.at["src"] : es[made["src"][k][2]].effect = "step" =>
           \E j \in 1..Len(chain.steps) : chain.steps[j].side = "src" /\ chain.steps[j].to = hist["src"][k]
      /\ \A j \in 1..Len(chain.steps) : chain.steps[j].side = "both" =>
           \E l \in 1..Len(es) : es[l].effect = "strengthen" /\ es[l].by = chain.steps[j].by
  BY <1>2 DEF Reached
<1>6. [s \in Sides |-> hist[s][chain.at[s]]] = [s \in Sides |-> hist[s][Len(hist[s])]]
  BY <1>4
<1>7. ASSUME NEW p, Stepwise(es, hist, p)
      PROVE  \E j \in 1..Len(chain.steps) : chain.steps[j].side = "src" /\ chain.steps[j].to = p
  <2>1. PICK k \in 2..Len(made["src"]) :
          made["src"][k][1] = p /\ made["src"][k][2] \in 1..Len(es) /\ es[made["src"][k][2]] = Step("src", p)
    BY <1>3, <1>7
  <2>2. es[made["src"][k][2]].effect = "step"
    BY <2>1 DEF Step
  <2>3. k \in 2..chain.at["src"] /\ k \in 1..Len(hist["src"]) /\ hist["src"][k] = p
    <3>1. /\ chain.at["src"] = Len(hist["src"]) /\ Len(made["src"]) = Len(hist["src"])
          /\ \A m \in 1..Len(hist["src"]) : made["src"][m][1] = hist["src"][m]
      BY <1>4 DEF Sides
    <3>2. Len(hist["src"]) \in Nat
      BY <1>1 DEF Told, SideTold, Sides
    <3>3. k \in 1..Len(hist["src"]) /\ k \in 2..chain.at["src"]
      BY <2>1, <3>1, <3>2
    <3> QED
      BY <2>1, <3>1, <3>3
  <2> QED
    BY <1>5, <2>2, <2>3
<1>8. Leads(Firsts(hist), chain.steps, [s \in Sides |-> hist[s][Len(hist[s])]])
  BY <1>5, <1>6
<1>9. ChainWhole(es, hist, chain)
  BY <1>4, <1>5, <1>7, <1>8 DEF ChainWhole
<1> QED
  BY <1>9 DEF made, chain

-----------------------------------------------------------------------------
(* What is written of a tree whose log tells of every goal.                *)

LEMMA WalksAgree ==
  ASSUME NEW first, NEW steps, Len(steps) \in Nat,
         NEW f, Walks(f, first, steps), NEW h, Walks(h, first, steps)
  PROVE  \A j \in 0..Len(steps) : f[j] = h[j]
<1> DEFINE n == Len(steps)
<1>1. f[0] = first /\ h[0] = first
  BY DEF Walks
<1>2. n \in Nat /\ \A i \in 1..n : i \in 0..n /\ i # 0
  OBVIOUS
<1> HIDE DEF n
<1>3. \A i \in 1..n : f[i] = Leaves(f[i - 1], steps[i])
  BY <1>2 DEF Walks, n
<1>4. \A i \in 1..n : h[i] = Leaves(h[i - 1], steps[i])
  BY <1>2 DEF Walks, n
<1>5. \A i \in 1..n : f[i - 1] = h[i - 1] => f[i] = h[i]
  BY <1>3, <1>4
<1>6. \A i \in 0..n : f[i] = h[i]
  BY <1>1, <1>2, <1>5, SameRuns
<1> QED
  BY <1>6 DEF n

LEMMA ChainConnected ==
  ASSUME NEW g, ChainWhole(effects[g], tree[g].hist, ChainOf(g))
  PROVE  Connected(g)
<1> DEFINE steps == ChainOf(g).steps
           first == [s \in Sides |-> FirstOf(tree, g, s)]
           last  == [s \in Sides |-> HeadOf(tree, g, s)]
           n     == Len(steps)
           at    == CHOOSE walk : Walks(walk, first, steps)
<1>1. first = Firsts(tree[g].hist)
  BY DEF Firsts, FirstOf
<1>2. last = [s \in Sides |-> tree[g].hist[s][Len(tree[g].hist[s])]]
  BY DEF HeadOf
<1>3. steps \in Seq(Links) /\ Leads(first, steps, last)
  BY <1>1, <1>2 DEF ChainWhole
<1> HIDE DEF steps
<1>4. n \in Nat /\ DOMAIN steps = 1..n
  BY <1>3
<1> HIDE DEF first, last
<1>5. PICK walk :
        /\ Walks(walk, first, steps)
        /\ walk[n] = last
        /\ \A j \in 1..n : Allowed(walk[j - 1], steps[j])
  BY <1>3 DEF Leads
<1>6. Walks(at, first, steps)
  BY <1>5
<1> HIDE DEF n
<1>7. \A j \in 0..n : at[j] = walk[j]
  <2> HIDE DEF at
  <2> QED
    BY <1>4, <1>5, <1>6, WalksAgree DEF n
<1>8. n \in 0..n /\ \A j \in 1..n : j - 1 \in 0..n
  BY <1>4
<1>9. at[n] = last /\ \A j \in DOMAIN steps : Allowed(at[j - 1], steps[j])
  <2> HIDE DEF at
  <2> QED
    BY <1>4, <1>5, <1>7, <1>8
<1> QED
  BY <1>9 DEF Connected, Walks, steps, first, last, n

\* The other child of each split is there.
Twins(G) ==
  \A x \in DOMAIN G :
    /\ HasRole(G, x, "lhs") => HasRole(G, x, "rhs")
    /\ HasRole(G, x, "holds") => HasRole(G, x, "fails")

\* The log tells of every goal.
Accounted ==
  /\ DOMAIN effects = DOMAIN tree
  /\ \A x \in DOMAIN tree : Tells(x, effects[x], tree[x].hist, log.landed)

LEMMA AccountedWhole ==
  ASSUME Accounted, NEW g \in DOMAIN tree
  PROVE  ChainWhole(effects[g], tree[g].hist, ChainOf(g))
<1>1. Tells(g, effects[g], tree[g].hist, log.landed)
  BY DEF Accounted
<1> QED
  BY <1>1, ChainIsWhole DEF ChainOf, MadeBy

LEMMA RolesThere ==
  ASSUME Paired(tree), Twins(tree), NEW g \in DOMAIN tree, NEW role \in RolesUsed(g)
  PROVE  HasRole(tree, g, role)
<1>1. tree[g].children # {}
  BY DEF RolesUsed
<1>2. \/ HasRole(tree, g, "outer") /\ HasRole(tree, g, "callee")
      \/ Interposed(tree, g)
      \/ Cased(tree, g)
  BY <1>1 DEF Paired
<1>3. /\ Interposed(tree, g) => HasRole(tree, g, "lhs") /\ HasRole(tree, g, "rhs")
      /\ Cased(tree, g) => HasRole(tree, g, "holds") /\ HasRole(tree, g, "fails")
  BY DEF Twins, Interposed, Cased
<1> QED
  BY <1>1, <1>2, <1>3 DEF RolesUsed

LEMMA AccountedExported ==
  ASSUME Accounted, Paired(tree), Twins(tree)
  PROVE  Exported
<1>1. ASSUME NEW g \in Included
      PROVE  /\ \A side \in Sides : ChainOf(g).at[side] = Len(tree[g].hist[side])
             /\ \A role \in RolesUsed(g) : HasRole(tree, g, role)
             /\ Connected(g)
  <2>1. g \in DOMAIN tree
    BY DEF Included
  <2>2. ChainWhole(effects[g], tree[g].hist, ChainOf(g))
    BY <2>1, AccountedWhole
  <2>3. \A side \in Sides : ChainOf(g).at[side] = Len(tree[g].hist[side])
    BY <2>2 DEF ChainWhole
  <2> QED
    BY <2>1, <2>2, <2>3, ChainConnected, RolesThere
<1> QED
  BY <1>1 DEF Exported

-----------------------------------------------------------------------------
(* How what is told of a goal goes on.                                     *)

\* The proofs the contracts of a goal name.
Named(es) == {e \in Nat \X Programs : \E i \in 1..Len(es) : es[i].effect = "strengthen" /\ e \in es[i].by}

\* What was told of x still is, and the programs landed by a step still are; of contracts
\* there are none more but those that name `by`.
Follows(x, es, hist, old, fs, next, landed, by) ==
  /\ Tells(x, fs, next, landed)
  /\ \A q : <<x, "src", q>> \in old /\ Stepwise(es, hist, q) => Stepwise(fs, next, q)
  /\ Named(fs) \subseteq Named(es) \cup by

\* More of L was landed, or less only of the goals that are gone.
Lands(ids, old, landed) ==
  \A x \in ids : \A s \in Sides, p \in Programs : <<x, s, p>> \in old => <<x, s, p>> \in landed

LEMMA TellsSeq ==
  ASSUME NEW x, NEW es, NEW hist, NEW landed, Tells(x, es, hist, landed)
  PROVE  /\ es \in Seq(Effects) /\ Len(es) \in Nat
         /\ hist \in [Sides -> Seq(Programs)]
         /\ \A s \in Sides : Len(hist[s]) \in Nat /\ 1 <= Len(hist[s])
BY DEF Tells, Told, SideTold

LEMMA NamedNothing ==
  Named(<<>>) = {}
BY DEF Named

LEMMA NamedAppend ==
  ASSUME NEW es \in Seq(Effects), NEW e \in Effects
  PROVE  /\ e.effect # "strengthen" => Named(Append(es, e)) = Named(es)
         /\ e.effect = "strengthen" => Named(Append(es, e)) \subseteq Named(es) \cup e.by
<1> DEFINE fs == Append(es, e)
<1>1. /\ Len(es) \in Nat /\ Len(fs) = Len(es) + 1 /\ fs[Len(es) + 1] = e
      /\ \A i \in 1..Len(es) : fs[i] = es[i]
  OBVIOUS
<1> HIDE DEF fs
<1>2. \A i \in 1..Len(es) : i \in 1..Len(fs)
  BY <1>1
<1>3. \A i \in 1..Len(fs) : i \in 1..Len(es) \/ i = Len(es) + 1
  BY <1>1
<1>4. Named(es) \subseteq Named(fs)
  BY <1>1, <1>2 DEF Named
<1>5. e.effect # "strengthen" => Named(fs) \subseteq Named(es)
  BY <1>1, <1>3 DEF Named
<1>6. e.effect = "strengthen" => Named(fs) \subseteq Named(es) \cup e.by
  BY <1>1, <1>3 DEF Named
<1> QED
  BY <1>4, <1>5, <1>6 DEF fs

LEMMA FollowsNothing ==
  ASSUME NEW x, NEW es, NEW hist, NEW old, Tells(x, es, hist, old), NEW landed, NEW by,
         Lands({x}, old, landed)
  PROVE  Follows(x, es, hist, old, es, hist, landed, by)
<1>1. Tells(x, es, hist, landed)
  BY TellsMore DEF Lands
<1> QED
  BY <1>1 DEF Follows

LEMMA FollowsStep ==
  ASSUME NEW x, NEW es, NEW hist, NEW old, NEW fs, NEW next, NEW landed, NEW by,
         Follows(x, es, hist, old, fs, next, landed, by),
         NEW s \in Sides, NEW p \in Programs, Certifies(s, next[s][Len(next[s])], p)
  PROVE  LET k == [next EXCEPT ![s] = Append(next[s], p)]
             more == Append(fs, Step(s, p))
         IN  /\ Follows(x, es, hist, old, more, k, landed, by)
             /\ \A q : Stepwise(fs, next, q) => Stepwise(more, k, q)
             /\ s = "src" => Stepwise(more, k, p)
<1> DEFINE k == [next EXCEPT ![s] = Append(next[s], p)]
           e == Step(s, p)
           more == Append(fs, e)
<1>1. Tells(x, fs, next, landed)
  BY DEF Follows
<1>2. fs \in Seq(Effects) /\ e \in Effects /\ e.effect # "strengthen"
  BY <1>1, TellsSeq, EffectsAre DEF Step
<1>3. /\ Tells(x, more, k, landed)
      /\ \A q : Stepwise(fs, next, q) => Stepwise(more, k, q)
      /\ s = "src" => Stepwise(more, k, p)
  BY <1>1, TellsStep
<1> HIDE DEF k, e
<1>4. Named(more) = Named(fs)
  BY <1>2, NamedAppend
<1> HIDE DEF more
<1>5. Follows(x, es, hist, old, more, k, landed, by)
  BY <1>3, <1>4 DEF Follows
<1> QED
  BY <1>3, <1>5 DEF k, e, more

LEMMA FollowsBoth ==
  ASSUME NEW x, NEW es, NEW hist, NEW old, NEW fs, NEW next, NEW landed, NEW by,
         Follows(x, es, hist, old, fs, next, landed, by),
         NEW p \in Programs, NEW q \in Programs, by \in SUBSET (Nat \X Programs),
         <<x, "src", p>> \in landed, <<x, "tgt", q>> \in landed
  PROVE  Follows(x, es, hist, old, Append(fs, Both(p, q, by)),
                 [t \in Sides |-> Append(next[t], IF t = "src" THEN p ELSE q)], landed, by)
<1> DEFINE k == [t \in Sides |-> Append(next[t], IF t = "src" THEN p ELSE q)]
           e == Both(p, q, by)
           more == Append(fs, e)
<1>1. Tells(x, fs, next, landed)
  BY DEF Follows
<1>2. fs \in Seq(Effects) /\ e \in Effects /\ e.effect = "strengthen" /\ e.by = by
  BY <1>1, TellsSeq, EffectsAre DEF Both
<1>3. /\ Tells(x, more, k, landed)
      /\ \A r : Stepwise(fs, next, r) => Stepwise(more, k, r)
  BY <1>1, TellsBoth
<1> HIDE DEF k, e
<1>4. Named(more) \subseteq Named(fs) \cup by
  BY <1>2, NamedAppend
<1> HIDE DEF more
<1>5. Follows(x, es, hist, old, more, k, landed, by)
  BY <1>3, <1>4 DEF Follows
<1> QED
  BY <1>5 DEF k, e, more

LEMMA FollowsSplit ==
  ASSUME NEW x, NEW es, NEW hist, NEW old, NEW fs, NEW next, NEW landed, NEW by,
         Follows(x, es, hist, old, fs, next, landed, by),
         NEW e \in Effects, e.effect = "split"
  PROVE  /\ Follows(x, es, hist, old, Append(fs, e), next, landed, by)
         /\ \A p : Stepwise(fs, next, p) => Stepwise(Append(fs, e), next, p)
<1>1. Tells(x, fs, next, landed)
  BY DEF Follows
<1>2. fs \in Seq(Effects)
  BY <1>1, TellsSeq
<1>3. /\ Tells(x, Append(fs, e), next, landed)
      /\ \A p : Stepwise(fs, next, p) => Stepwise(Append(fs, e), next, p)
  BY <1>1, TellsSplit
<1>4. Named(Append(fs, e)) = Named(fs)
  BY <1>2, NamedAppend
<1> QED
  BY <1>3, <1>4 DEF Follows

LEMMA FollowsBack ==
  ASSUME NEW x, NEW es, NEW hist, NEW landed, Tells(x, es, hist, landed),
         NEW s \in Sides, NEW p \in Programs, Holds(hist[s], p),
         \A q : <<x, s, q>> \in landed /\ Holds(hist[s], q)
                  => ~(LastIndexOf(hist[s], q) > LastIndexOf(hist[s], p))
  PROVE  Follows(x, es, hist, landed, Append(es, Back(s, p)),
                 [hist EXCEPT ![s] = SubSeq(hist[s], 1, LastIndexOf(hist[s], p))], landed, {})
<1> DEFINE k == [hist EXCEPT ![s] = SubSeq(hist[s], 1, LastIndexOf(hist[s], p))]
           e == Back(s, p)
           more == Append(es, e)
<1>1. es \in Seq(Effects) /\ e \in Effects /\ e.effect # "strengthen"
  BY TellsSeq, EffectsAre DEF Back
<1>2. /\ Tells(x, more, k, landed)
      /\ \A q : <<x, "src", q>> \in landed /\ Stepwise(es, hist, q) => Stepwise(more, k, q)
  BY TellsBack
<1> HIDE DEF k, e
<1>3. Named(more) = Named(es)
  BY <1>1, NamedAppend
<1> HIDE DEF more
<1>4. Follows(x, es, hist, landed, more, k, landed, {})
  BY <1>2, <1>3 DEF Follows
<1> QED
  BY <1>4 DEF k, e, more

-----------------------------------------------------------------------------
(* What the moves make of the tree, as far as a certificate is of it.       *)

\* H has all the goals of G, where they were, and the new children of each are n or more.
Grows(G, H, n) ==
  /\ DOMAIN G \subseteq DOMAIN H
  /\ \A x \in DOMAIN G :
       /\ H[x].parent = G[x].parent /\ H[x].role = G[x].role
       /\ \A s \in Sides : H[x].hist[s][1] = G[x].hist[s][1]
       /\ G[x].children \subseteq H[x].children
       /\ \A c \in H[x].children \ G[x].children : n <= c
  /\ Twins(G) => Twins(H)

\* A tree a move of T has come to.
Come(T, G, n) == Typed(G) /\ Linked(G) /\ Grows(T, G, n)

LEMMA ComeNothing ==
  ASSUME NEW T, NEW n, Typed(T), Linked(T)
  PROVE  Come(T, T, n)
BY DEF Come, Grows

LEMMA GrowsOn ==
  ASSUME NEW T, NEW G, NEW H, NEW n, Grows(T, G, n), Grows(G, H, n)
  PROVE  Grows(T, H, n)
<1>1. DOMAIN T \subseteq DOMAIN G /\ DOMAIN G \subseteq DOMAIN H /\ (Twins(T) => Twins(H))
  BY DEF Grows
<1>2. ASSUME NEW x \in DOMAIN T
      PROVE  /\ H[x].parent = T[x].parent /\ H[x].role = T[x].role
             /\ \A s \in Sides : H[x].hist[s][1] = T[x].hist[s][1]
             /\ T[x].children \subseteq H[x].children
             /\ \A c \in H[x].children \ T[x].children : n <= c
  BY <1>1 DEF Grows
<1> QED
  BY <1>1, <1>2 DEF Grows

LEMMA SameGoalsTwins ==
  ASSUME NEW G, NEW H, SameGoals(G, H), Linked(G), Twins(G)
  PROVE  Twins(H)
<1>1. \A x \in DOMAIN G : \A c \in G[x].children : c \in DOMAIN G
  BY DEF Linked
<1>2. \A role : \A x \in DOMAIN G : HasRole(G, x, role) <=> HasRole(H, x, role)
  BY <1>1 DEF SameGoals, HasRole
<1> QED
  BY <1>2 DEF Twins, SameGoals

LEMMA GrowsSame ==
  ASSUME NEW G, NEW H, NEW n, SameGoals(G, H), Linked(G),
         \A x \in DOMAIN G : \A s \in Sides : H[x].hist[s][1] = G[x].hist[s][1]
  PROVE  Grows(G, H, n)
<1>1. Twins(G) => Twins(H)
  BY SameGoalsTwins
<1> QED
  BY <1>1 DEF Grows, SameGoals

LEMMA ComeSame ==
  ASSUME NEW T, NEW G, NEW H, NEW n, Come(T, G, n), Typed(H), SameGoals(G, H),
         \A x \in DOMAIN G : \A s \in Sides : H[x].hist[s][1] = G[x].hist[s][1]
  PROVE  Come(T, H, n)
<1>1. Typed(G) /\ Linked(G) /\ Grows(T, G, n)
  BY DEF Come
<1>2. Grows(G, H, n)
  BY <1>1, GrowsSame
<1>3. Linked(H)
  BY <1>1, SameGoalsLinked DEF Typed
<1> QED
  BY <1>1, <1>2, <1>3, GrowsOn DEF Come

\* H is G with p at the end of one side of x.
Gains(T, G, H, n, x, s, p) ==
  /\ Come(T, H, n) /\ SameGoals(G, H)
  /\ H[x].hist[s] = Append(G[x].hist[s], p)
  /\ \A t \in Sides \ {s} : H[x].hist[t] = G[x].hist[t]
  /\ \A y \in DOMAIN G \ {x} : H[y].hist = G[y].hist

\* A step.
LEMMA ComeStep ==
  ASSUME NEW T, NEW G, NEW n, Come(T, G, n), NEW x \in DOMAIN G, NEW s \in Sides,
         NEW p \in Programs
  PROVE  Gains(T, G, Stepped(G, x, s, p), n, x, s, p)
<1> DEFINE H == Stepped(G, x, s, p)
<1>1. Typed(G)
  BY DEF Come
<1>2. Moved(G, H, x, [G[x].hist EXCEPT ![s] = Append(G[x].hist[s], p)])
  BY <1>1, SteppedIs
<1> HIDE DEF H
<1>3. /\ Typed(H) /\ SameGoals(G, H)
      /\ H[x].hist = [G[x].hist EXCEPT ![s] = Append(G[x].hist[s], p)]
      /\ \A y \in DOMAIN G \ {x} : H[y].hist = G[y].hist
  BY <1>2 DEF Moved
<1>4. /\ G[x].hist \in [Sides -> Seq(Programs)]
      /\ \A t \in Sides : G[x].hist[t] \in Seq(Programs) /\ G[x].hist[t] # <<>>
  BY <1>1 DEF Typed, Goals
<1>7. /\ H[x].hist[s] = Append(G[x].hist[s], p)
      /\ \A t \in Sides \ {s} : H[x].hist[t] = G[x].hist[t]
  BY <1>3, <1>4
<1>8. Append(G[x].hist[s], p)[1] = G[x].hist[s][1]
  <2> DEFINE h == G[x].hist[s]
  <2>1. h \in Seq(Programs) /\ h # <<>>
    BY <1>4
  <2> HIDE DEF h
  <2>2. Append(h, p)[1] = h[1]
    BY <2>1
  <2> QED
    BY <2>2 DEF h
<1>9. \A t \in Sides : H[x].hist[t][1] = G[x].hist[t][1]
  <2> SUFFICES ASSUME NEW t \in Sides PROVE H[x].hist[t][1] = G[x].hist[t][1]
    OBVIOUS
  <2>1. CASE t = s
    BY <1>7, <1>8, <2>1
  <2>2. CASE t # s
    BY <1>7, <2>2
  <2> QED
    BY <2>1, <2>2
<1>5. \A y \in DOMAIN G : \A t \in Sides : H[y].hist[t][1] = G[y].hist[t][1]
  <2> SUFFICES ASSUME NEW y \in DOMAIN G, NEW t \in Sides PROVE H[y].hist[t][1] = G[y].hist[t][1]
    OBVIOUS
  <2>1. CASE y = x
    BY <1>9, <2>1
  <2>2. CASE y # x
    BY <1>3, <2>2
  <2> QED
    BY <2>1, <2>2
<1>6. Come(T, H, n)
  BY <1>3, <1>5, ComeSame
<1> QED
  BY <1>3, <1>6, <1>7 DEF Gains, H

\* A step of both sides.
GainsBoth(T, G, H, n, x, p, q) ==
  /\ Come(T, H, n) /\ SameGoals(G, H)
  /\ H[x].hist = [t \in Sides |-> Append(G[x].hist[t], IF t = "src" THEN p ELSE q)]
  /\ \A y \in DOMAIN G \ {x} : H[y].hist = G[y].hist

LEMMA ComeBoth ==
  ASSUME NEW T, NEW G, NEW n, Come(T, G, n), NEW x \in DOMAIN G,
         NEW p \in Programs, NEW q \in Programs
  PROVE  GainsBoth(T, G, Strengthened(G, x, p, q), n, x, p, q)
<1> DEFINE M == Stepped(G, x, "src", p)
           H == Stepped(M, x, "tgt", q)
<1>1. "src" \in Sides /\ "tgt" \in Sides
  BY DEF Sides
<1>2. Strengthened(G, x, p, q) = H
  BY DEF Strengthened
<1>3. Gains(T, G, M, n, x, "src", p)
  BY <1>1, ComeStep
<1> HIDE DEF M
<1>4. Come(T, M, n) /\ x \in DOMAIN M /\ DOMAIN M = DOMAIN G
  BY <1>3 DEF Gains, SameGoals
<1>5. Gains(T, M, H, n, x, "tgt", q)
  BY <1>1, <1>4, ComeStep
<1> HIDE DEF H
<1>6. /\ Come(T, H, n) /\ SameGoals(M, H) /\ SameGoals(G, M)
      /\ H[x].hist["src"] = Append(G[x].hist["src"], p) /\ H[x].hist["tgt"] = Append(G[x].hist["tgt"], q)
      /\ \A y \in DOMAIN G \ {x} : H[y].hist = G[y].hist
  BY <1>3, <1>4, <1>5 DEF Gains, Sides
<1>7. H[x].hist = [t \in Sides |-> Append(G[x].hist[t], IF t = "src" THEN p ELSE q)]
  <2>1. H[x].hist \in [Sides -> Seq(Programs)]
    BY <1>4, <1>6 DEF Come, Typed, Goals, SameGoals
  <2>2. \A t \in Sides : H[x].hist[t] = Append(G[x].hist[t], IF t = "src" THEN p ELSE q)
    BY <1>6 DEF Sides
  <2> QED
    BY <2>1, <2>2
<1>8. SameGoals(G, H)
  BY <1>6 DEF SameGoals
<1> QED
  BY <1>2, <1>6, <1>7, <1>8 DEF GainsBoth

\* A revert.
LEMMA ComeBack ==
  ASSUME NEW T, NEW G, NEW n, Come(T, G, n), NEW x \in DOMAIN G, NEW s \in Sides,
         NEW p, Holds(G[x].hist[s], p)
  PROVE  LET H == Reverted(G, x, s, p)
         IN  /\ Come(T, H, n) /\ SameGoals(G, H)
             /\ H[x].hist = [G[x].hist EXCEPT ![s] = SubSeq(G[x].hist[s], 1, LastIndexOf(G[x].hist[s], p))]
             /\ \A y \in DOMAIN G \ {x} : H[y].hist = G[y].hist
<1> DEFINE H == Reverted(G, x, s, p)
           h == G[x].hist[s]
           k == SubSeq(h, 1, LastIndexOf(h, p))
<1>1. Typed(G)
  BY DEF Come
<1>2. Moved(G, H, x, [G[x].hist EXCEPT ![s] = k])
  BY <1>1, RevertedIs
<1>3. G[x].hist \in [Sides -> Seq(Programs)] /\ h \in Seq(Programs) /\ Holds(h, p)
  BY <1>1 DEF Typed, Goals
<1> HIDE DEF H, h
<1>4. LastIndexOf(h, p) \in 1..Len(h)
  BY <1>3, LastIndexOfIs
<1>5. k[1] = h[1]
  BY <1>3, <1>4
<1> HIDE DEF k
<1>6. /\ Typed(H) /\ SameGoals(G, H)
      /\ H[x].hist = [G[x].hist EXCEPT ![s] = k]
      /\ \A y \in DOMAIN G \ {x} : H[y].hist = G[y].hist
  BY <1>2 DEF Moved
<1>7. \A t \in Sides : H[x].hist[t][1] = G[x].hist[t][1]
  <2> SUFFICES ASSUME NEW t \in Sides PROVE H[x].hist[t][1] = G[x].hist[t][1]
    OBVIOUS
  <2>1. CASE t = s
    <3>1. H[x].hist[s] = k
      BY <1>3, <1>6
    <3> QED
      BY <1>5, <2>1, <3>1 DEF h
  <2>2. CASE t # s
    BY <1>3, <1>6, <2>2
  <2> QED
    BY <2>1, <2>2
<1>8. \A y \in DOMAIN G : \A t \in Sides : H[y].hist[t][1] = G[y].hist[t][1]
  <2> SUFFICES ASSUME NEW y \in DOMAIN G, NEW t \in Sides PROVE H[y].hist[t][1] = G[y].hist[t][1]
    OBVIOUS
  <2>1. CASE y = x
    BY <1>7, <2>1
  <2>2. CASE y # x
    BY <1>6, <2>2
  <2> QED
    BY <2>1, <2>2
<1>9. Come(T, H, n)
  BY <1>6, <1>8, ComeSame
<1> QED
  BY <1>6, <1>9 DEF H, h, k

\* H is G with two goals more.
Sprouts(T, G, H, n, x, first, second) ==
  /\ Come(T, H, n)
  /\ DOMAIN H = DOMAIN G \cup {n, n + 1}
  /\ \A y \in DOMAIN G : H[y].hist = G[y].hist
  /\ H[n] = first /\ H[n + 1] = second
  /\ H[x].children = G[x].children \cup {n, n + 1}

LEMMA ComeSplit ==
  ASSUME NEW T, NEW G, NEW n \in Nat, Come(T, G, n), \A y \in DOMAIN G : y < n,
         NEW x \in DOMAIN G,
         NEW a, NEW b, NEW cut \in CutKinds, <<a, b>> \in RolePairs,
         NEW p \in Programs, NEW q \in Programs, NEW u \in Programs, NEW v \in Programs
  PROVE  Sprouts(T, G, Split(G, x, n, NewGoal(x, a, cut, p, q), NewGoal(x, b, cut, u, v)), n, x,
                 NewGoal(x, a, cut, p, q), NewGoal(x, b, cut, u, v))
<1> DEFINE first  == NewGoal(x, a, cut, p, q)
           second == NewGoal(x, b, cut, u, v)
           H      == Split(G, x, n, first, second)
           R      == Reopened(G, x)
<1>1. Typed(G) /\ Linked(G) /\ Grows(T, G, n) /\ DOMAIN G \subseteq Nat
  BY DEF Come, Typed
<1>2. x \in Nat /\ a \in Roles /\ b \in Roles
  BY <1>1 DEF RolePairs, Roles
<1>3. /\ first \in Goals /\ first.parent = x /\ first.role = a /\ first.children = {}
      /\ \A s \in Sides : first.hist[s] # <<>>
  BY <1>2, NewGoalIs
<1>4. /\ second \in Goals /\ second.parent = x /\ second.role = b /\ second.children = {}
      /\ \A s \in Sides : second.hist[s] # <<>>
  BY <1>2, NewGoalIs
<1> HIDE DEF first, second
<1>5. SplitOf(G, H, x, n, first, second)
  <2>1. \A m \in {first, second} :
           m.parent = x /\ m.children = {} /\ \A s \in Sides : m.hist[s] # <<>>
    BY <1>3, <1>4
  <2> QED
    BY <1>1, <1>3, <1>4, <2>1, SplitIs
<1>6. Typed(R) /\ SameGoals(G, R) /\ \A y \in DOMAIN G : R[y].hist = G[y].hist
  BY <1>1, ReopenedIs
<1> HIDE DEF H
<1>7. /\ Typed(H) /\ Linked(H)
      /\ DOMAIN H = DOMAIN G \cup {n, n + 1}
      /\ H[n] = first /\ H[n + 1] = second
      /\ H[x] = WithKids(R[x], {n, n + 1})
      /\ \A y \in DOMAIN G \ {x} : H[y] = R[y]
  BY <1>5 DEF SplitOf
<1> HIDE DEF R
<1>8. /\ H[x].parent = R[x].parent /\ H[x].role = R[x].role /\ H[x].hist = R[x].hist
      /\ H[x].children = R[x].children \cup {n, n + 1}
  <2>1. R[x] \in Goals /\ {n, n + 1} \in SUBSET Nat
    BY <1>6 DEF SameGoals, Typed
  <2> QED
    BY <1>7, <2>1, WithKidsIs
<1>9. \A y \in DOMAIN G :
        /\ R[y].parent = G[y].parent /\ R[y].role = G[y].role /\ R[y].children = G[y].children
        /\ R[y].hist = G[y].hist
  BY <1>6 DEF SameGoals
<1>10. /\ \A y \in DOMAIN G : H[y].parent = G[y].parent /\ H[y].role = G[y].role /\ H[y].hist = G[y].hist
       /\ \A y \in DOMAIN G \ {x} : H[y].children = G[y].children
       /\ H[x].children = G[x].children \cup {n, n + 1}
  BY <1>7, <1>8, <1>9
<1>11. \A y \in DOMAIN G : \A c \in G[y].children : c \in DOMAIN G
  BY <1>1 DEF Linked
<1>12. Twins(G) => Twins(H)
  <2> SUFFICES ASSUME Twins(G), NEW y \in DOMAIN H
               PROVE  /\ HasRole(H, y, "lhs") => HasRole(H, y, "rhs")
                      /\ HasRole(H, y, "holds") => HasRole(H, y, "fails")
    BY DEF Twins
  <2>1. CASE y \in DOMAIN G \ {x}
    <3>1. \A role : HasRole(H, y, role) <=> HasRole(G, y, role)
      BY <1>10, <1>11, <2>1 DEF HasRole
    <3> QED
      BY <2>1, <3>1 DEF Twins
  <2>2. CASE y = x
    <3>1. \A role : HasRole(H, x, role) <=> HasRole(G, x, role) \/ role = a \/ role = b
      <4>1. \A c \in G[x].children : H[c].role = G[c].role
        BY <1>10, <1>11
      <4>2. H[n].role = a /\ H[n + 1].role = b
        BY <1>3, <1>4, <1>7
      <4> QED
        BY <1>10, <4>1, <4>2 DEF HasRole
    <3>2. (a = "lhs" => b = "rhs") /\ (a = "holds" => b = "fails") /\ b # "lhs" /\ b # "holds"
      BY DEF RolePairs
    <3> QED
      BY <2>2, <3>1, <3>2 DEF Twins
  <2>3. CASE y \notin DOMAIN G
    <3>1. H[y].children = {}
      BY <1>3, <1>4, <1>7, <2>3
    <3> QED
      BY <3>1 DEF HasRole
  <2> QED
    BY <2>1, <2>2, <2>3
<1>13. Grows(G, H, n)
  <2>1. DOMAIN G \subseteq DOMAIN H
    BY <1>7
  <2>2. \A y \in DOMAIN G : \A c \in H[y].children \ G[y].children : c = n \/ c = n + 1
    BY <1>10
  <2>3. n <= n /\ n <= n + 1
    OBVIOUS
  <2> QED
    BY <1>10, <1>12, <2>1, <2>2, <2>3 DEF Grows
<1>14. Come(T, H, n)
  BY <1>1, <1>7, <1>13, GrowsOn DEF Come
<1> QED
  BY <1>7, <1>10, <1>14 DEF Sprouts, H, first, second

-----------------------------------------------------------------------------
(* What a move says of each goal.                                          *)

\* What was said goes on from fs to more, as the histories go on from next to k.
GoesOn(x, es, hist, old, fs, next, more, k, landed, by) ==
  /\ Follows(x, es, hist, old, more, k, landed, by)
  /\ \A q : Stepwise(fs, next, q) => Stepwise(more, k, q)

LEMMA FollowsGain ==
  ASSUME NEW x, NEW es, NEW hist, NEW old, NEW fs, NEW next, NEW landed, NEW by,
         Follows(x, es, hist, old, fs, next, landed, by),
         NEW s \in Sides, NEW p \in Programs, Certifies(s, next[s][Len(next[s])], p),
         NEW k \in [Sides -> Seq(Programs)], k[s] = Append(next[s], p),
         \A t \in Sides \ {s} : k[t] = next[t]
  PROVE  /\ GoesOn(x, es, hist, old, fs, next, Append(fs, Step(s, p)), k, landed, by)
         /\ s = "src" => Stepwise(Append(fs, Step(s, p)), k, p)
<1>1. next \in [Sides -> Seq(Programs)]
  <2>1. Tells(x, fs, next, landed)
    BY DEF Follows
  <2> QED
    BY <2>1, TellsSeq
<1>2. k = [next EXCEPT ![s] = Append(next[s], p)]
  <2> DEFINE j == [next EXCEPT ![s] = Append(next[s], p)]
  <2>1. j \in [Sides -> Seq(Programs)]
    <3>1. Append(next[s], p) \in Seq(Programs)
      BY <1>1
    <3> QED
      BY <1>1, <3>1
  <2>2. \A t \in Sides : j[t] = k[t]
    BY <1>1
  <2> HIDE DEF j
  <2>3. k = j
    BY <2>1, <2>2
  <2> QED
    BY <2>3 DEF j
<1> DEFINE m == [next EXCEPT ![s] = Append(next[s], p)]
<1>3. /\ Follows(x, es, hist, old, Append(fs, Step(s, p)), m, landed, by)
      /\ \A q : Stepwise(fs, next, q) => Stepwise(Append(fs, Step(s, p)), m, q)
      /\ s = "src" => Stepwise(Append(fs, Step(s, p)), m, p)
  BY FollowsStep
<1>4. m = k
  BY <1>2
<1> HIDE DEF m
<1> QED
  BY <1>3, <1>4 DEF GoesOn

LEMMA AddsIs ==
  ASSUME DOMAIN effects = DOMAIN tree, \A x \in DOMAIN tree : effects[x] \in Seq(Effects),
         NEW said, Adds(said)
  PROVE  /\ DOMAIN effects' = DOMAIN tree'
         /\ \A x \in DOMAIN tree' \cap DOMAIN tree :
              /\ x \in DOMAIN said => effects'[x] = effects[x] \o said[x]
              /\ x \notin DOMAIN said => effects'[x] = effects[x]
         /\ \A x \in DOMAIN tree' \ DOMAIN tree : x \notin DOMAIN said => effects'[x] = <<>>
<1> DEFINE of(f, x) == IF x \in DOMAIN f THEN f[x] ELSE <<>>
<1>1. effects' = [x \in DOMAIN tree' |-> of(effects, x) \o of(said, x)]
  BY DEF Adds
<1>2. \A x \in DOMAIN tree' : effects'[x] = of(effects, x) \o of(said, x)
  BY <1>1
<1>3. ASSUME NEW es \in Seq(Effects) PROVE es \o <<>> = es
  OBVIOUS
<1>4. <<>> \in Seq(Effects)
  OBVIOUS
<1>5. <<>> \o <<>> = <<>>
  BY <1>3, <1>4
<1> QED
  BY <1>1, <1>2, <1>3, <1>5

LEMMA AccountedSeq ==
  ASSUME Accounted
  PROVE  /\ DOMAIN effects = DOMAIN tree
         /\ \A x \in DOMAIN tree : effects[x] \in Seq(Effects)
BY TellsSeq DEF Accounted

LEMMA AddsToIs ==
  ASSUME Accounted, NEW g \in DOMAIN tree, NEW e \in Effects, AddsTo(g, e), g \in DOMAIN tree'
  PROVE  /\ DOMAIN effects' = DOMAIN tree'
         /\ effects'[g] = Append(effects[g], e)
         /\ \A x \in (DOMAIN tree' \cap DOMAIN tree) \ {g} : effects'[x] = effects[x]
         /\ \A x \in DOMAIN tree' \ DOMAIN tree : effects'[x] = <<>>
<1> DEFINE said == [x \in {g} |-> <<e>>]
<1>1. Adds(said) /\ DOMAIN said = {g} /\ said[g] = <<e>>
  BY DEF AddsTo
<1> HIDE DEF said
<1>2. effects'[g] = effects[g] \o <<e>> /\ effects[g] \in Seq(Effects)
  BY <1>1, AddsIs, AccountedSeq
<1>3. effects[g] \o <<e>> = Append(effects[g], e)
  BY <1>2
<1> QED
  BY <1>1, <1>2, <1>3, AddsIs, AccountedSeq

\* The log goes on telling of every goal, and the contracts it names more of are of c, and
\* name `by`.
Tallied(c, by) ==
  /\ DOMAIN effects' = DOMAIN tree'
  /\ \A x \in DOMAIN tree' \cap DOMAIN tree :
       Follows(x, effects[x], tree[x].hist, log.landed, effects'[x], tree'[x].hist, log'.landed,
               IF x = c THEN by ELSE {})
  /\ \A x \in DOMAIN tree' \ DOMAIN tree :
       effects'[x] = <<>> /\ Tells(x, <<>>, tree'[x].hist, log'.landed)

\* A goal with one program on each side.
Sprung(hist) == hist \in [Sides -> Seq(Programs)] /\ \A s \in Sides : Len(hist[s]) = 1

LEMMA TalliedOne ==
  ASSUME Accounted, NEW g \in DOMAIN tree, NEW e \in Effects, AddsTo(g, e),
         DOMAIN tree \subseteq DOMAIN tree', log'.landed = log.landed,
         \A x \in DOMAIN tree \ {g} : tree'[x].hist = tree[x].hist,
         Follows(g, effects[g], tree[g].hist, log.landed, Append(effects[g], e), tree'[g].hist,
                 log.landed, {}),
         \A x \in DOMAIN tree' \ DOMAIN tree : Sprung(tree'[x].hist)
  PROVE  Tallied(NoGoal, {})
<1>1. /\ DOMAIN effects' = DOMAIN tree'
      /\ effects'[g] = Append(effects[g], e)
      /\ \A x \in (DOMAIN tree' \cap DOMAIN tree) \ {g} : effects'[x] = effects[x]
      /\ \A x \in DOMAIN tree' \ DOMAIN tree : effects'[x] = <<>>
  BY AddsToIs
<1>2. ASSUME NEW x \in DOMAIN tree' \cap DOMAIN tree
      PROVE  Follows(x, effects[x], tree[x].hist, log.landed, effects'[x], tree'[x].hist, log'.landed, {})
  <2>1. CASE x = g
    BY <1>1, <2>1
  <2>2. CASE x # g
    <3>1. Tells(x, effects[x], tree[x].hist, log.landed) /\ Lands({x}, log.landed, log.landed)
      BY DEF Accounted, Lands
    <3>2. Follows(x, effects[x], tree[x].hist, log.landed, effects[x], tree[x].hist, log.landed, {})
      BY <3>1, FollowsNothing
    <3> QED
      BY <1>1, <2>2, <3>2
  <2> QED
    BY <2>1, <2>2
<1>3. ASSUME NEW x \in DOMAIN tree' \ DOMAIN tree
      PROVE  Tells(x, <<>>, tree'[x].hist, log'.landed)
  BY TellsNew DEF Sprung
<1>4. \A x : (IF x = NoGoal THEN {} ELSE {}) = {}
  OBVIOUS
<1> QED
  BY <1>1, <1>2, <1>3, <1>4 DEF Tallied

LEMMA TalliedNothing ==
  ASSUME Accounted, Adds(Nothing), DOMAIN tree' \subseteq DOMAIN tree,
         \A x \in DOMAIN tree' : tree'[x].hist = tree[x].hist,
         Lands(DOMAIN tree', log.landed, log'.landed)
  PROVE  Tallied(NoGoal, {})
<1>1. DOMAIN Nothing = {}
  BY DEF Nothing
<1>2. DOMAIN effects' = DOMAIN tree' /\ \A x \in DOMAIN tree' : effects'[x] = effects[x]
  BY <1>1, AddsIs, AccountedSeq
<1>3. ASSUME NEW x \in DOMAIN tree'
      PROVE  Follows(x, effects[x], tree[x].hist, log.landed, effects'[x], tree'[x].hist, log'.landed, {})
  <2>1. Tells(x, effects[x], tree[x].hist, log.landed) /\ Lands({x}, log.landed, log'.landed)
    BY <1>3 DEF Accounted, Lands
  <2>2. Follows(x, effects[x], tree[x].hist, log.landed, effects[x], tree[x].hist, log'.landed, {})
    BY <2>1, FollowsNothing
  <2> QED
    BY <1>2, <2>2
<1>4. \A x : (IF x = NoGoal THEN {} ELSE {}) = {}
  OBVIOUS
<1> QED
  BY <1>2, <1>3, <1>4 DEF Tallied

\* What a proof leaves as it was.
Logged(L) == {"landed", "by", "keeps", "shown"} \subseteq DOMAIN L

LEMMA EagerIs ==
  ASSUME NEW T, NEW G, NEW n, Come(T, G, n), NEW L, Logged(L), NEW x \in DOMAIN G,
         NEW r, r = [tree |-> G, log |-> L] \/ r \in ThenEager(G, L, x)
  PROVE  /\ Come(T, r.tree, n) /\ SameGoals(G, r.tree)
         /\ \A y \in DOMAIN G : r.tree[y].hist = G[y].hist
         /\ r.log.landed = L.landed /\ r.log.by = L.by /\ r.log.keeps = L.keeps
         /\ Logged(r.log)
<1> DEFINE P == Proved(G, x)
           M == WithProof(G, L, x)
<1>1. Typed(G) /\ "proved" \in Statuses
  BY DEF Come, Statuses
<1>2. Typed(P) /\ SameGoals(G, P) /\ \A y \in DOMAIN G : P[y].hist = G[y].hist
  BY <1>1, WithStatusIs DEF Proved
<1>3. M.landed = L.landed /\ M.by = L.by /\ M.keeps = L.keeps /\ Logged(M)
  BY DEF WithProof, Logged
<1>4. Come(T, P, n)
  <2> HIDE DEF P
  <2> QED
    BY <1>2, ComeSame
<1>5. r = [tree |-> G, log |-> L] \/ r = [tree |-> P, log |-> M]
  BY DEF ThenEager
<1>6. SameGoals(G, G)
  BY DEF SameGoals
<1> HIDE DEF P
<1> QED
  BY <1>2, <1>3, <1>4, <1>5, <1>6

-----------------------------------------------------------------------------
(* The moves of one goal.                                                  *)

\* A move that proves no contract and undoes nothing.
Plainly ==
  /\ Come(tree, tree', nextGoal)
  /\ log'.landed = log.landed /\ log'.by = log.by /\ log'.keeps = log.keeps
  /\ Tallied(NoGoal, {})

LEMMA LogShape ==
  ASSUME TreeInv
  PROVE  /\ Typed(tree) /\ Linked(tree) /\ Paired(tree)
         /\ Come(tree, tree, nextGoal)
         /\ nextGoal \in Nat /\ \A x \in DOMAIN tree : x < nextGoal
         /\ log \in Logs(DOMAIN tree) /\ Logged(log)
<1>1. Typed(tree) /\ Linked(tree) /\ Paired(tree) /\ log \in Logs(DOMAIN tree)
  BY DEF TreeInv, Good, Sound
<1>2. Logged(log)
  BY <1>1 DEF Logs, Logged
<1> QED
  BY <1>1, <1>2, ComeNothing DEF TreeInv, Good

LEMMA ToldSoFar ==
  ASSUME Accounted, NEW x \in DOMAIN tree, NEW landed, NEW by, Lands({x}, log.landed, landed)
  PROVE  Follows(x, effects[x], tree[x].hist, log.landed, effects[x], tree[x].hist, landed, by)
BY FollowsNothing DEF Accounted

LEMMA RevertPlain ==
  ASSUME TreeInv, Accounted, NEW g \in DOMAIN tree, NEW s \in Sides, NEW p \in Programs,
         Revert(g, s, p), AddsTo(g, Back(s, p))
  PROVE  Plainly
<1> DEFINE h == tree[g].hist[s]
           k == [tree[g].hist EXCEPT ![s] = SubSeq(h, 1, LastIndexOf(h, p))]
<1>1. /\ Holds(h, p) /\ tree' = Reverted(tree, g, s, p) /\ log' = log
      /\ ~UndoesStrengthen(g, s, p)
  BY DEF Revert
<1>2. /\ Come(tree, tree', nextGoal) /\ SameGoals(tree, tree')
      /\ tree'[g].hist = k
      /\ \A y \in DOMAIN tree \ {g} : tree'[y].hist = tree[y].hist
  BY <1>1, LogShape, ComeBack
<1>3. \A q : <<g, s, q>> \in log.landed /\ Holds(h, q) => ~(LastIndexOf(h, q) > LastIndexOf(h, p))
  BY <1>1 DEF UndoesStrengthen
<1>4. Tells(g, effects[g], tree[g].hist, log.landed)
  BY DEF Accounted
<1>5. Follows(g, effects[g], tree[g].hist, log.landed, Append(effects[g], Back(s, p)), k, log.landed, {})
  BY <1>1, <1>3, <1>4, FollowsBack
<1>6. DOMAIN tree' = DOMAIN tree /\ Back(s, p) \in Effects
  BY <1>2, EffectsAre DEF SameGoals
<1> HIDE DEF h, k
<1>7. Tallied(NoGoal, {})
  BY <1>1, <1>2, <1>5, <1>6, TalliedOne
<1> QED
  BY <1>1, <1>2, <1>7 DEF Plainly

LEMMA RewritePlain ==
  ASSUME TreeInv, Accounted, NEW g \in DOMAIN tree, NEW p \in Programs,
         Rewrite(g, p), AddsTo(g, Step("src", p))
  PROVE  Plainly
<1> DEFINE S == Stepped(tree, g, "src", p)
           fs == Append(effects[g], Step("src", p))
<1>1. "src" \in Sides
  BY DEF Sides
<1>2. Certifies("src", HeadOf(tree, g, "src"), p) /\ LandStep(g, "src", p)
  BY DEF Rewrite
<1>3. PICK r \in ThenEager(S, log, g) : Land(r)
  BY <1>2 DEF LandStep
<1>4. Gains(tree, tree, S, nextGoal, g, "src", p)
  BY <1>1, LogShape, ComeStep
<1> HIDE DEF S
<1>5. Come(tree, S, nextGoal) /\ g \in DOMAIN S /\ DOMAIN S = DOMAIN tree
  BY <1>4 DEF Gains, SameGoals
<1>6. /\ Come(tree, r.tree, nextGoal) /\ SameGoals(S, r.tree)
      /\ \A y \in DOMAIN S : r.tree[y].hist = S[y].hist
      /\ r.log.landed = log.landed /\ r.log.by = log.by /\ r.log.keeps = log.keeps
  BY <1>3, <1>5, LogShape, EagerIs
<1>7. tree' = r.tree /\ log' = r.log
  BY <1>3 DEF Land
<1>8. /\ Come(tree, tree', nextGoal) /\ DOMAIN tree' = DOMAIN tree
      /\ \A y \in DOMAIN tree : tree'[y].hist = S[y].hist
      /\ log'.landed = log.landed /\ log'.by = log.by /\ log'.keeps = log.keeps
  BY <1>5, <1>6, <1>7 DEF SameGoals
<1>9. /\ \A y \in DOMAIN tree \ {g} : tree'[y].hist = tree[y].hist
      /\ tree'[g].hist["src"] = Append(tree[g].hist["src"], p)
      /\ \A t \in Sides \ {"src"} : tree'[g].hist[t] = tree[g].hist[t]
  BY <1>4, <1>8 DEF Gains
<1>10. Follows(g, effects[g], tree[g].hist, log.landed, fs, tree'[g].hist, log.landed, {})
  <2>1. Follows(g, effects[g], tree[g].hist, log.landed, effects[g], tree[g].hist, log.landed, {})
    BY ToldSoFar DEF Lands
  <2>2. tree'[g].hist \in [Sides -> Seq(Programs)]
    BY <1>8 DEF Come, Typed, Goals
  <2>3. Certifies("src", tree[g].hist["src"][Len(tree[g].hist["src"])], p)
    BY <1>2 DEF HeadOf
  <2>4. GoesOn(g, effects[g], tree[g].hist, log.landed, effects[g], tree[g].hist, fs, tree'[g].hist,
               log.landed, {})
    BY <1>1, <1>9, <2>1, <2>2, <2>3, FollowsGain
  <2> QED
    BY <2>4 DEF GoesOn
<1>11. Step("src", p) \in Effects
  BY <1>1, EffectsAre
<1>12. Tallied(NoGoal, {})
  BY <1>8, <1>9, <1>10, <1>11, TalliedOne
<1> QED
  BY <1>8, <1>12 DEF Plainly

LEMMA NewGoalSprung ==
  ASSUME NEW x, NEW a, NEW cut, NEW p \in Programs, NEW q \in Programs
  PROVE  Sprung(NewGoal(x, a, cut, p, q).hist)
<1> DEFINE h == [s \in Sides |-> IF s = "src" THEN <<p>> ELSE <<q>>]
<1>1. NewGoal(x, a, cut, p, q).hist = h
  BY DEF NewGoal
<1>2. \A s \in Sides : h[s] \in Seq(Programs) /\ Len(h[s]) = 1
  OBVIOUS
<1>3. h \in [Sides -> Seq(Programs)]
  BY <1>2
<1> QED
  BY <1>1, <1>2, <1>3 DEF Sprung

LEMMA OpensIs ==
  ASSUME NEW G, Typed(G), NEW g \in DOMAIN G, NEW n \in Nat
  PROVE  Opens(G, g, n) \in Effects /\ Opens(G, g, n).effect = "split"
<1>1. HeadOf(G, g, "src") \in Programs /\ HeadOf(G, g, "tgt") \in Programs
  BY HeadIs DEF Sides
<1> QED
  BY <1>1 DEF Opens, Effects

LEMMA SplitPlain ==
  ASSUME TreeInv, Accounted, NEW g \in DOMAIN tree,
         NEW a, NEW b, NEW cut \in CutKinds, <<a, b>> \in RolePairs,
         NEW p \in Programs, NEW q \in Programs, NEW u \in Programs, NEW v \in Programs,
         tree' = Split(tree, g, nextGoal, NewGoal(g, a, cut, p, q), NewGoal(g, b, cut, u, v)),
         log' = log, AddsTo(g, Opens(tree', g, nextGoal))
  PROVE  Plainly
<1> DEFINE e == Opens(tree', g, nextGoal)
<1>1. Sprouts(tree, tree, tree', nextGoal, g, NewGoal(g, a, cut, p, q), NewGoal(g, b, cut, u, v))
  <2>1. Come(tree, tree, nextGoal) /\ nextGoal \in Nat /\ \A x \in DOMAIN tree : x < nextGoal
    BY LogShape
  <2> QED
    BY <2>1, ComeSplit
<1>2. e \in Effects /\ e.effect = "split"
  <2>1. Typed(tree') /\ g \in DOMAIN tree'
    BY <1>1 DEF Come, Sprouts
  <2>2. nextGoal \in Nat
    BY LogShape
  <2> QED
    BY <2>1, <2>2, OpensIs
<1> HIDE DEF e
<1>3. Follows(g, effects[g], tree[g].hist, log.landed, effects[g], tree[g].hist, log.landed, {})
  BY ToldSoFar DEF Lands
<1>4. Follows(g, effects[g], tree[g].hist, log.landed, Append(effects[g], e), tree'[g].hist, log.landed, {})
  BY <1>1, <1>2, <1>3, FollowsSplit DEF Sprouts
<1>5. \A x \in DOMAIN tree' \ DOMAIN tree : Sprung(tree'[x].hist)
  BY <1>1, NewGoalSprung DEF Sprouts
<1>6. AddsTo(g, e)
  BY DEF e
<1>7. Tallied(NoGoal, {})
  BY <1>1, <1>2, <1>4, <1>5, <1>6, TalliedOne DEF Sprouts
<1> QED
  BY <1>1, <1>7 DEF Plainly, Sprouts

LEMMA OpenPlain ==
  ASSUME TreeInv, Accounted, NEW g \in DOMAIN tree,
         Cut(g) \/ (\E p \in Programs : InterposeProgram(g, p)) \/ Case(g),
         AddsTo(g, Opens(tree', g, nextGoal))
  PROVE  Plainly
<1>1. CASE Cut(g)
  <2>1. PICK os, ot, cs, ct \in Programs, kind \in {"plain", "loop"} \cap Moves :
          tree' = CutIn(tree, g, nextGoal, kind, os, ot, cs, ct)
    BY <1>1 DEF Cut
  <2>2. kind \in CutKinds /\ <<"outer", "callee">> \in RolePairs /\ log' = log
    BY <1>1 DEF Cut, CutKinds, RolePairs
  <2>3. tree' = Split(tree, g, nextGoal, NewGoal(g, "outer", kind, os, ot), NewGoal(g, "callee", kind, cs, ct))
    BY <2>1 DEF CutIn
  <2> QED
    BY <2>2, <2>3, SplitPlain
<1>2. CASE \E p \in Programs : InterposeProgram(g, p)
  <2>1. PICK p \in Programs : InterposeProgram(g, p)
    BY <1>2
  <2>2. tree' = InterposedAt(tree, g, nextGoal, p) /\ log' = log
    BY <2>1 DEF InterposeProgram, InterposeAt
  <2>3. "none" \in CutKinds /\ <<"lhs", "rhs">> \in RolePairs
    BY DEF CutKinds, RolePairs
  <2>4. HeadOf(tree, g, "src") \in Programs /\ HeadOf(tree, g, "tgt") \in Programs
    BY LogShape, HeadIs DEF Sides
  <2>5. tree' = Split(tree, g, nextGoal, NewGoal(g, "lhs", "none", HeadOf(tree, g, "src"), p),
                      NewGoal(g, "rhs", "none", p, HeadOf(tree, g, "tgt")))
    BY <2>2 DEF InterposedAt
  <2> QED
    BY <2>2, <2>3, <2>4, <2>5, SplitPlain
<1>3. CASE Case(g)
  <2>1. PICK hs, ht, fs, ft \in Programs : tree' = CasedIn(tree, g, nextGoal, hs, ht, fs, ft)
    BY <1>3 DEF Case
  <2>2. "none" \in CutKinds /\ <<"holds", "fails">> \in RolePairs /\ log' = log
    BY <1>3 DEF Case, CutKinds, RolePairs
  <2>3. tree' = Split(tree, g, nextGoal, NewGoal(g, "holds", "none", hs, ht), NewGoal(g, "fails", "none", fs, ft))
    BY <2>1 DEF CasedIn
  <2> QED
    BY <2>2, <2>3, SplitPlain
<1> QED
  BY <1>1, <1>2, <1>3

LEMMA CheckPlain ==
  ASSUME TreeInv, Accounted, NEW g \in DOMAIN tree, CheckProves(g), Adds(Nothing)
  PROVE  Plainly
<1> DEFINE r == [tree |-> Proved(tree, g), log |-> WithProof(tree, log, g)]
<1>1. r \in ThenEager(tree, log, g) /\ tree' = r.tree /\ log' = r.log
  BY DEF CheckProves, Land, ThenEager
<1> HIDE DEF r
<1>2. /\ Come(tree, r.tree, nextGoal) /\ SameGoals(tree, r.tree)
      /\ \A y \in DOMAIN tree : r.tree[y].hist = tree[y].hist
      /\ r.log.landed = log.landed /\ r.log.by = log.by /\ r.log.keeps = log.keeps
  BY <1>1, LogShape, EagerIs
<1>3. Tallied(NoGoal, {})
  BY <1>1, <1>2, TalliedNothing DEF SameGoals, Lands
<1> QED
  BY <1>1, <1>2, <1>3 DEF Plainly

-----------------------------------------------------------------------------
(* The undo of a split.                                                    *)

Undone(g) ==
  /\ UnsplitOf(tree, tree', g)
  /\ log'.landed \subseteq log.landed /\ Lands(DOMAIN tree', log.landed, log'.landed)
  /\ log'.by = {e \in log.by : e[1] \in DOMAIN tree'} /\ log'.keeps = log.keeps \cap DOMAIN tree'
  /\ Tallied(NoGoal, {})

LEMMA UndoneTwins ==
  ASSUME NEW G, NEW H, NEW g \in DOMAIN G, UnsplitOf(G, H, g), Twins(G), Typed(G)
  PROVE  Twins(H)
<1>1. G[g] \in Goals /\ Linked(H) /\ DOMAIN H \subseteq DOMAIN G
  BY DEF UnsplitOf, Typed
<1>2. H[g].children = {} /\ H[g].role = G[g].role
  BY <1>1 DEF UnsplitOf, Goals
<1>3. ASSUME NEW x \in DOMAIN H \ {g}, NEW role
      PROVE  HasRole(H, x, role) <=> HasRole(G, x, role)
  <2>1. H[x].children = G[x].children
    BY DEF UnsplitOf
  <2>2. \A c \in H[x].children : c \in DOMAIN H
    BY <1>1 DEF Linked
  <2>3. \A c \in DOMAIN H : H[c].role = G[c].role
    BY <1>2 DEF UnsplitOf
  <2> QED
    BY <2>1, <2>2, <2>3 DEF HasRole
<1>4. \A role : ~HasRole(H, g, role)
  BY <1>2 DEF HasRole
<1> QED
  BY <1>1, <1>3, <1>4 DEF Twins

LEMMA UndoIs ==
  ASSUME TreeInv, Accounted, NEW g \in DOMAIN tree, Adds(Nothing),
         Uncut(g) \/ Uninterpose(g) \/ Uncase(g)
  PROVE  Plainly \/ Undone(g)
<1>1. \/ tree' = Unsplit(tree, g) /\ log' = Pruned(tree', log)
      \/ UNCHANGED <<tree, log>>
  BY DEF Uncut, Uninterpose, Uncase, LandUnsplit
<1>2. CASE UNCHANGED <<tree, log>>
  <2>1. Tallied(NoGoal, {})
    BY <1>2, TalliedNothing DEF Lands
  <2> QED
    BY <1>2, <2>1, LogShape DEF Plainly
<1>3. CASE tree' = Unsplit(tree, g) /\ log' = Pruned(tree', log)
  <2>1. UnsplitOf(tree, tree', g)
    BY <1>3, LogShape, UnsplitIs
  <2>2. /\ log'.landed = {e \in log.landed : e[1] \in DOMAIN tree'}
        /\ log'.by = {e \in log.by : e[1] \in DOMAIN tree'}
        /\ log'.keeps = log.keeps \cap DOMAIN tree'
    BY <1>3 DEF Pruned
  <2>3. Lands(DOMAIN tree', log.landed, log'.landed)
    BY <2>2 DEF Lands
  <2>4. DOMAIN tree' \subseteq DOMAIN tree /\ \A x \in DOMAIN tree' : tree'[x].hist = tree[x].hist
    <3>1. tree[g] \in Goals
      BY LogShape DEF Typed
    <3> QED
      BY <2>1, <3>1 DEF UnsplitOf, Goals
  <2>5. Tallied(NoGoal, {})
    BY <2>3, <2>4, TalliedNothing
  <2> QED
    BY <2>1, <2>2, <2>3, <2>5 DEF Undone
<1> QED
  BY <1>1, <1>2, <1>3

-----------------------------------------------------------------------------
(* What a strengthen lands and logs.                                       *)

LEMMA RestIs ==
  ASSUME NEW S, NEW h \in Seq(S), NEW k \in Seq(S)
  PROVE  SubSeq(h \o k, Len(h) + 1, Len(h \o k)) = k
<1> DEFINE j == h \o k
           r == SubSeq(j, Len(h) + 1, Len(j))
<1>1. /\ j \in Seq(S) /\ Len(j) = Len(h) + Len(k) /\ Len(h) \in Nat /\ Len(k) \in Nat
      /\ \A i \in 1..Len(k) : j[Len(h) + i] = k[i]
  OBVIOUS
<1> HIDE DEF j
<1>2. r \in Seq(S) /\ Len(r) = Len(k)
  BY <1>1
<1>3. \A i \in 1..Len(k) : r[i] = k[i]
  BY <1>1
<1> HIDE DEF r
<1>4. r = k
  BY <1>2, <1>3
<1> QED
  BY <1>4 DEF j, r

LEMMA ConcatOne ==
  ASSUME NEW S, NEW h \in Seq(S), NEW p \in S
  PROVE  h \o <<p>> = Append(h, p)
OBVIOUS

LEMMA ConcatMore ==
  ASSUME NEW S, NEW h \in Seq(S), NEW k \in Seq(S), NEW p \in S
  PROVE  h \o Append(k, p) = Append(h \o k, p)
<1> DEFINE a == h \o Append(k, p)
           b == Append(h \o k, p)
<1>1. a \in Seq(S) /\ b \in Seq(S) /\ Len(a) = Len(h) + Len(k) + 1 /\ Len(b) = Len(a)
  OBVIOUS
<1>2. \A i \in 1..Len(h) : a[i] = h[i] /\ b[i] = h[i]
  OBVIOUS
<1>3. \A i \in 1..Len(k) : a[Len(h) + i] = k[i] /\ b[Len(h) + i] = k[i]
  OBVIOUS
<1>4. a[Len(h) + Len(k) + 1] = p /\ b[Len(h) + Len(k) + 1] = p
  OBVIOUS
<1>5. Len(h) \in Nat /\ Len(k) \in Nat
  OBVIOUS
<1> HIDE DEF a, b
<1>6. \A i \in 1..Len(a) : a[i] = b[i]
  <2> SUFFICES ASSUME NEW i \in 1..Len(a) PROVE a[i] = b[i]
    OBVIOUS
  <2>1. CASE i \in 1..Len(h)
    BY <1>2, <2>1
  <2>2. CASE i = Len(h) + Len(k) + 1
    BY <1>4, <2>2
  <2>3. CASE i \notin 1..Len(h) /\ i # Len(h) + Len(k) + 1
    <3>1. i - Len(h) \in 1..Len(k) /\ Len(h) + (i - Len(h)) = i
      BY <1>1, <1>5, <2>3
    <3> QED
      BY <1>3, <3>1
  <2> QED
    BY <2>1, <2>2, <2>3
<1>7. a = b
  BY <1>1, <1>6
<1> QED
  BY <1>7 DEF a, b

LEMMA StepsAre ==
  ASSUME NEW s \in Sides, NEW p \in Programs
  PROVE  /\ Steps(s, <<>>) = <<>>
         /\ Steps(s, <<p>>) = <<Step(s, p)>>
BY DEF Steps

LEMMA StepsMore ==
  ASSUME NEW s \in Sides, NEW k \in Seq(Programs), NEW p \in Programs
  PROVE  /\ Steps(s, k) \in Seq(Effects)
         /\ Steps(s, Append(k, p)) = Append(Steps(s, k), Step(s, p))
<1> DEFINE es == Steps(s, k)
           fs == Steps(s, Append(k, p))
<1>1. \A i \in 1..Len(k) : Step(s, k[i]) \in Effects
  BY EffectsAre
<1>2. es \in Seq(Effects) /\ Len(es) = Len(k) /\ \A i \in 1..Len(k) : es[i] = Step(s, k[i])
  BY <1>1 DEF Steps
<1>3. Append(k, p) \in Seq(Programs) /\ Len(Append(k, p)) = Len(k) + 1 /\ Len(k) \in Nat
  OBVIOUS
<1>4. \A i \in 1..Len(k) + 1 : Append(k, p)[i] = IF i = Len(k) + 1 THEN p ELSE k[i]
  OBVIOUS
<1>5. fs = [i \in 1..Len(k) + 1 |-> Step(s, Append(k, p)[i])]
  BY <1>3 DEF Steps
<1>6. Step(s, p) \in Effects
  BY EffectsAre
<1> HIDE DEF es
<1>7. Append(es, Step(s, p)) = [i \in 1..Len(k) + 1 |-> Step(s, Append(k, p)[i])]
  <2> DEFINE e == Step(s, p)
             bs == Append(es, e)
  <2>1. bs \in Seq(Effects) /\ Len(bs) = Len(k) + 1
    BY <1>2, <1>3, <1>6
  <2>2. \A i \in 1..Len(k) + 1 : bs[i] = IF i = Len(k) + 1 THEN e ELSE es[i]
    BY <1>2, <1>3, <1>6
  <2> HIDE DEF e, bs
  <2>3. \A i \in 1..Len(k) + 1 : bs[i] = Step(s, Append(k, p)[i])
    BY <1>2, <1>3, <1>4, <2>2 DEF e
  <2>4. bs = [i \in 1..Len(k) + 1 |-> bs[i]]
    BY <1>3, <2>1
  <2>5. bs = [i \in 1..Len(k) + 1 |-> Step(s, Append(k, p)[i])]
    BY <2>3, <2>4
  <2> QED
    BY <2>5 DEF bs, e
<1> HIDE DEF fs
<1> QED
  BY <1>2, <1>5, <1>7 DEF es, fs

LEMMA TailsAre ==
  ASSUME NEW S, NEW p \in S, NEW q \in S
  PROVE  /\ <<p>> \in Seq(S) /\ <<p>>[1] = p /\ Tail(<<p>>) = <<>>
         /\ Append(<<p>>, q) \in Seq(S) /\ Append(<<p>>, q)[1] = p /\ Tail(Append(<<p>>, q)) = <<q>>
<1>1. <<p>> \in Seq(S) /\ <<p>>[1] = p /\ Len(<<p>>) = 1
  OBVIOUS
<1>2. Tail(<<p>>) = <<>>
  OBVIOUS
<1> DEFINE k == Append(<<p>>, q)
           j == <<p, q>>
<1>3. k \in Seq(S) /\ Len(k) = 2 /\ k[1] = p /\ k[2] = q
  BY <1>1
<1>4. j \in Seq(S) /\ Len(j) = 2 /\ j[1] = p /\ j[2] = q
  OBVIOUS
<1>5. Tail(j) = <<q>>
  OBVIOUS
<1> HIDE DEF k, j
<1>6. \A i \in 1..2 : k[i] = j[i]
  BY <1>3, <1>4
<1>7. k = j
  BY <1>3, <1>4, <1>6
<1> QED
  BY <1>1, <1>2, <1>3, <1>5, <1>7 DEF k

\* What a side gained, of a goal whose history is the old one and k.
LEMMA GainedIs ==
  ASSUME NEW x, NEW s, NEW k \in Seq(Programs), tree[x].hist[s] \in Seq(Programs),
         tree'[x].hist[s] = tree[x].hist[s] \o k
  PROVE  Gained(x, s) = k
BY RestIs DEF Gained

\* What was landed and noted is more than before.
LEMMA RecordedFields ==
  ASSUME Logged(log), NEW g, NEW outer, NEW callee, NEW by, NEW keeps
  PROVE  LET L == Recorded(g, outer, callee, by, keeps)
         IN  /\ Logged(L)
             /\ L.landed = log.landed \cup {<<Outer(g), e[1], e[2]>> : e \in outer}
                             \cup {<<Callee(g), e[1], e[2]>> : e \in callee}
             /\ L.by = log.by \cup by
             /\ L.keeps = log.keeps \cup keeps
BY DEF Recorded, Logged

\* The halves are checked, which changes nothing a certificate is read off.
LandsAs(G, L) ==
  /\ Come(tree, tree', nextGoal) /\ SameGoals(G, tree')
  /\ \A y \in DOMAIN G : tree'[y].hist = G[y].hist
  /\ log'.landed = L.landed /\ log'.by = L.by /\ log'.keeps = L.keeps

LEMMA ContractLands ==
  ASSUME TreeInv, NEW g \in DOMAIN tree, CanStrengthen(g), NEW G, Come(tree, G, nextGoal),
         NEW L, Logged(L), LandContract(g, G, L)
  PROVE  LandsAs(G, L)
<1> DEFINE first == [tree |-> G, log |-> L]
<1>1. PICK r, q :
        /\ r = first \/ r \in ThenEager(G, L, Callee(g))
        /\ q = r \/ q \in ThenEager(r.tree, r.log, Outer(g))
        /\ tree' = q.tree /\ log' = q.log
  BY DEF LandContract, Land
<1>2. Outer(g) \in DOMAIN G /\ Callee(g) \in DOMAIN G
  BY HalvesAre DEF Come, Grows
<1>3. /\ Come(tree, r.tree, nextGoal) /\ SameGoals(G, r.tree)
      /\ \A y \in DOMAIN G : r.tree[y].hist = G[y].hist
      /\ r.log.landed = L.landed /\ r.log.by = L.by /\ r.log.keeps = L.keeps
      /\ Logged(r.log)
  BY <1>1, <1>2, EagerIs
<1>4. CASE q = r
  BY <1>1, <1>3, <1>4 DEF LandsAs
<1>5. CASE q \in ThenEager(r.tree, r.log, Outer(g))
  <2>1. Outer(g) \in DOMAIN r.tree
    BY <1>2, <1>3 DEF SameGoals
  <2>2. /\ Come(tree, q.tree, nextGoal) /\ SameGoals(r.tree, q.tree)
        /\ \A y \in DOMAIN r.tree : q.tree[y].hist = r.tree[y].hist
        /\ q.log.landed = r.log.landed /\ q.log.by = r.log.by /\ q.log.keeps = r.log.keeps
    BY <1>3, <1>5, <2>1, EagerIs
  <2>3. SameGoals(G, q.tree) /\ \A y \in DOMAIN G : q.tree[y].hist = G[y].hist
    BY <1>3, <2>2 DEF SameGoals
  <2> QED
    BY <1>1, <1>3, <2>2, <2>3 DEF LandsAs
<1> QED
  BY <1>1, <1>4, <1>5

\* What is logged of the halves, with the proofs `by` named.
Halves(g, returns, nested, by) ==
  LET o == Outer(g)
      c == Callee(g)
  IN  /\ by \subseteq log'.by /\ \A e \in by : e[1] \in {o, c}
      /\ DOMAIN effects' = DOMAIN tree'
      /\ effects'[c] = effects[c] \o
           (<<Both(Gained(c, "src")[1], Gained(c, "tgt")[1], by)>> \o Steps("src", Tail(Gained(c, "src")))
              \o (IF nested THEN <<Opens(tree', c, nextGoal)>> ELSE <<>>))
      /\ returns => effects'[o] = effects[o] \o <<Both(Gained(o, "src")[1], Gained(o, "tgt")[1], {})>>
      /\ ~returns =>
           effects'[o] = effects[o] \o (Steps("src", Gained(o, "src")) \o Steps("tgt", Gained(o, "tgt")))
      /\ \A x \in DOMAIN tree \ {o, c} : effects'[x] = effects[x]
      /\ \A x \in DOMAIN tree' \ DOMAIN tree : effects'[x] = <<>>

LEMMA HalvesDiffer ==
  ASSUME TreeInv, NEW g \in DOMAIN tree, CanStrengthen(g)
  PROVE  Outer(g) \in DOMAIN tree /\ Callee(g) \in DOMAIN tree /\ Outer(g) # Callee(g)
BY HalvesAre

LEMMA ContractAdds ==
  ASSUME TreeInv, Accounted, NEW g \in DOMAIN tree, CanStrengthen(g),
         NEW returns \in BOOLEAN, NEW nested \in BOOLEAN, AddsContract(g, returns, nested),
         DOMAIN tree \subseteq DOMAIN tree'
  PROVE  \E by : Halves(g, returns, nested, by)
<1> DEFINE o  == Outer(g)
           c  == Callee(g)
           by == {e \in log'.by :
                    \/ e[1] \in {o, c} /\ Holds(Gained(e[1], "src"), e[2])
                    \/ nested /\ e[1] = c /\ e[2] = FirstOf(tree', nextGoal, "tgt")}
           ofc == <<Both(Gained(c, "src")[1], Gained(c, "tgt")[1], by)>> \o Steps("src", Tail(Gained(c, "src")))
                    \o (IF nested THEN <<Opens(tree', c, nextGoal)>> ELSE <<>>)
           ofo == IF returns THEN <<Both(Gained(o, "src")[1], Gained(o, "tgt")[1], {})>>
                  ELSE Steps("src", Gained(o, "src")) \o Steps("tgt", Gained(o, "tgt"))
           said == [x \in {o, c} |-> IF x = c THEN ofc ELSE ofo]
<1>1. Adds(said)
  BY DEF AddsContract
<1>2. o \in DOMAIN tree /\ c \in DOMAIN tree /\ o # c
  BY HalvesDiffer
<1>3. DOMAIN said = {o, c} /\ (o # c => said[c] = ofc /\ said[o] = ofo)
  OBVIOUS
<1>4. by \subseteq log'.by /\ \A e \in by : e[1] \in {o, c}
  OBVIOUS
<1> HIDE DEF said, o, c, by
<1>5. /\ DOMAIN effects' = DOMAIN tree'
      /\ effects'[c] = effects[c] \o said[c] /\ effects'[o] = effects[o] \o said[o]
      /\ \A x \in DOMAIN tree \ {o, c} : effects'[x] = effects[x]
      /\ \A x \in DOMAIN tree' \ DOMAIN tree : effects'[x] = <<>>
  BY <1>1, <1>2, <1>3, AddsIs, AccountedSeq
<1>6. Halves(g, returns, nested, by)
  BY <1>2, <1>3, <1>4, <1>5 DEF Halves, o, c
<1> QED
  BY <1>6

-----------------------------------------------------------------------------
(* What the halves are told.                                               *)

\* What was told of x, once its histories are those of G and fs is logged of it.
Along(x, fs, G, landed, by) ==
  Follows(x, effects[x], tree[x].hist, log.landed, fs, G[x].hist, landed, by)

LEMMA AlongStep ==
  ASSUME NEW G, NEW H, NEW n, NEW x \in DOMAIN G, NEW s \in Sides, NEW p \in Programs,
         Gains(tree, G, H, n, x, s, p),
         NEW fs, NEW landed, NEW by, Along(x, fs, G, landed, by), Certifies(s, HeadOf(G, x, s), p)
  PROVE  /\ Along(x, Append(fs, Step(s, p)), H, landed, by)
         /\ \A q : Stepwise(fs, G[x].hist, q) => Stepwise(Append(fs, Step(s, p)), H[x].hist, q)
         /\ s = "src" => Stepwise(Append(fs, Step(s, p)), H[x].hist, p)
<1> DEFINE k == H[x].hist
           next == G[x].hist
<1>1. k \in [Sides -> Seq(Programs)]
  BY DEF Gains, Come, Typed, Goals, SameGoals
<1>2. k[s] = Append(next[s], p) /\ \A t \in Sides \ {s} : k[t] = next[t]
  BY DEF Gains
<1>3. Follows(x, effects[x], tree[x].hist, log.landed, fs, next, landed, by)
  BY DEF Along
<1>4. Certifies(s, next[s][Len(next[s])], p)
  BY DEF HeadOf
<1> HIDE DEF k, next
<1>5. /\ GoesOn(x, effects[x], tree[x].hist, log.landed, fs, next, Append(fs, Step(s, p)), k, landed, by)
      /\ s = "src" => Stepwise(Append(fs, Step(s, p)), k, p)
  BY <1>1, <1>2, <1>3, <1>4, FollowsGain
<1> QED
  BY <1>5 DEF GoesOn, Along, k, next

\* Both sides of x have taken a contract that names `by`.
Agreed(G, H, x, p, q, landed, by) ==
  /\ Come(tree, H, nextGoal) /\ SameGoals(G, H)
  /\ \A y \in DOMAIN G \ {x} : H[y].hist = G[y].hist
  /\ H[x].hist["src"] = tree[x].hist["src"] \o <<p>>
  /\ H[x].hist["tgt"] = tree[x].hist["tgt"] \o <<q>>
  /\ Along(x, effects[x] \o <<Both(p, q, by)>>, H, landed, by)

LEMMA AgreedIs ==
  ASSUME TreeInv, Accounted, NEW G, Come(tree, G, nextGoal), NEW x \in DOMAIN tree,
         G[x].hist = tree[x].hist, NEW p \in Programs, NEW q \in Programs, NEW landed,
         Lands({x}, log.landed, landed), NEW by \in SUBSET (Nat \X Programs),
         <<x, "src", p>> \in landed, <<x, "tgt", q>> \in landed
  PROVE  Agreed(G, Strengthened(G, x, p, q), x, p, q, landed, by)
<1> DEFINE H == Strengthened(G, x, p, q)
           h == tree[x].hist
           k == [t \in Sides |-> Append(h[t], IF t = "src" THEN p ELSE q)]
           fs == effects[x]
           e == Both(p, q, by)
<1>1. x \in DOMAIN G
  BY DEF Come, Grows
<1>14. GainsBoth(tree, G, H, nextGoal, x, p, q)
  BY <1>1, ComeBoth
<1> HIDE DEF H
<1>2. /\ Come(tree, H, nextGoal) /\ SameGoals(G, H)
      /\ \A y \in DOMAIN G \ {x} : H[y].hist = G[y].hist
  BY <1>14 DEF GainsBoth
<1>3. H[x].hist = k
  BY <1>14 DEF GainsBoth
<1>4. h \in [Sides -> Seq(Programs)] /\ "src" \in Sides /\ "tgt" \in Sides /\ "src" # "tgt"
  BY LogShape DEF Typed, Goals, Sides
<1>5. k["src"] = Append(h["src"], p) /\ k["tgt"] = Append(h["tgt"], q)
  BY <1>4
<1>6. h["src"] \o <<p>> = Append(h["src"], p) /\ h["tgt"] \o <<q>> = Append(h["tgt"], q)
  BY <1>4, ConcatOne
<1>7. Follows(x, fs, h, log.landed, fs, h, landed, by)
  BY ToldSoFar
<1>8. Follows(x, fs, h, log.landed, Append(fs, e), k, landed, by)
  BY <1>7, FollowsBoth
<1>9. fs \o <<e>> = Append(fs, e)
  BY AccountedSeq, EffectsAre, ConcatOne
<1> HIDE DEF k, e
<1>10. Follows(x, fs, h, log.landed, fs \o <<e>>, H[x].hist, landed, by)
  BY <1>3, <1>8, <1>9
<1>11. Along(x, fs \o <<e>>, H, landed, by)
  BY <1>10 DEF Along
<1>12. H[x].hist["src"] = h["src"] \o <<p>> /\ H[x].hist["tgt"] = h["tgt"] \o <<q>>
  BY <1>3, <1>5, <1>6
<1> QED
  BY <1>2, <1>11, <1>12 DEF Agreed, H, e

\* The outer has taken its steps: k on its src, the first of which enforces the facts.
Enforced(G, o, k, os, ot, landed) ==
  LET fs == effects[o] \o (Steps("src", k) \o Steps("tgt", <<ot>>))
  IN  /\ k \in Seq(Programs)
      /\ G[o].hist["src"] = tree[o].hist["src"] \o k
      /\ G[o].hist["tgt"] = tree[o].hist["tgt"] \o <<ot>>
      /\ Along(o, fs, G, landed, {})
      /\ Stepwise(fs, G[o].hist, os)

LEMMA EnforcedIs ==
  ASSUME TreeInv, Accounted, NEW g \in DOMAIN tree, CanStrengthen(g),
         NEW os \in Programs, NEW fs \in Programs, NEW ot \in Programs, Enforces(g, os, fs, ot),
         NEW landed, Lands({Outer(g)}, log.landed, landed)
  PROVE  LET O == OnOuter(g, os, fs, ot)
         IN  /\ Come(tree, O, nextGoal) /\ SameGoals(tree, O)
             /\ \A y \in DOMAIN tree \ {Outer(g)} : O[y].hist = tree[y].hist
             /\ \E k : Enforced(O, Outer(g), k, os, ot, landed)
<1> DEFINE o == Outer(g)
           h == tree[o].hist
           es == effects[o]
           A == Stepped(tree, o, "src", os)
           es1 == Append(es, Step("src", os))
<1>1. o \in DOMAIN tree /\ "src" \in Sides /\ "tgt" \in Sides
  BY HalvesDiffer DEF Sides
<1>2. /\ Certifies("src", HeadOf(tree, o, "src"), os) /\ Certifies("src", os, fs)
      /\ Certifies("tgt", HeadOf(tree, o, "tgt"), ot)
  BY DEF Enforces
<1>3. /\ h["src"] \in Seq(Programs) /\ h["tgt"] \in Seq(Programs) /\ es \in Seq(Effects)
      /\ Step("src", os) \in Effects /\ Step("src", fs) \in Effects /\ Step("tgt", ot) \in Effects
  BY <1>1, LogShape, AccountedSeq, EffectsAre DEF Typed, Goals
<1> HIDE DEF o
<1>4. Gains(tree, tree, A, nextGoal, o, "src", os)
  BY <1>1, LogShape, ComeStep
<1>5. Along(o, es, tree, landed, {})
  BY <1>1, ToldSoFar DEF Along, o
<1>6. Along(o, es1, A, landed, {}) /\ Stepwise(es1, A[o].hist, os)
  BY <1>1, <1>2, <1>4, <1>5, AlongStep
<1>7. /\ Come(tree, A, nextGoal) /\ o \in DOMAIN A /\ SameGoals(tree, A)
      /\ \A y \in DOMAIN tree \ {o} : A[y].hist = tree[y].hist
      /\ A[o].hist["src"] = Append(h["src"], os) /\ A[o].hist["tgt"] = h["tgt"]
  BY <1>1, <1>4 DEF Gains, SameGoals
<1>8. HeadOf(A, o, "src") = os /\ HeadOf(A, o, "tgt") = HeadOf(tree, o, "tgt")
  <2>1. Append(h["src"], os)[Len(Append(h["src"], os))] = os
    BY <1>3
  <2> QED
    BY <1>7, <2>1 DEF HeadOf
<1>9. CASE fs = os
  <2> DEFINE O == Stepped(A, o, "tgt", ot)
             es2 == Append(es1, Step("tgt", ot))
  <2>1. OnOuter(g, os, fs, ot) = O
    BY <1>9 DEF OnOuter, o
  <2> HIDE DEF A, es1
  <2>2. Gains(tree, A, O, nextGoal, o, "tgt", ot)
    BY <1>1, <1>7, ComeStep
  <2>3. Along(o, es2, O, landed, {}) /\ Stepwise(es2, O[o].hist, os)
    BY <1>1, <1>2, <1>6, <1>7, <1>8, <2>2, AlongStep
  <2>4. es2 = es \o (Steps("src", <<os>>) \o Steps("tgt", <<ot>>))
    <3> DEFINE a == Step("src", os)
               b == Step("tgt", ot)
    <3>1. Steps("src", <<os>>) = <<a>> /\ Steps("tgt", <<ot>>) = <<b>>
      BY <1>1, StepsAre
    <3>2. a \in Effects /\ b \in Effects /\ es \in Seq(Effects) /\ es2 = Append(Append(es, a), b)
      BY <1>3 DEF es1
    <3> HIDE DEF a, b, es2, es
    <3>3. <<a>> \in Seq(Effects)
      BY <3>2
    <3>4. <<a>> \o <<b>> = Append(<<a>>, b)
      BY <3>2, <3>3, ConcatOne
    <3>5. es \o Append(<<a>>, b) = Append(es \o <<a>>, b)
      BY <3>2, <3>3, ConcatMore
    <3>6. es \o <<a>> = Append(es, a)
      BY <3>2, ConcatOne
    <3> QED
      BY <3>1, <3>2, <3>4, <3>5, <3>6
  <2> HIDE DEF O, es2
  <2>5. /\ Come(tree, O, nextGoal) /\ SameGoals(tree, O)
        /\ \A y \in DOMAIN tree \ {o} : O[y].hist = tree[y].hist
        /\ O[o].hist["src"] = Append(h["src"], os) /\ O[o].hist["tgt"] = Append(h["tgt"], ot)
    BY <1>1, <1>7, <2>2 DEF Gains, SameGoals
  <2>6. <<os>> \in Seq(Programs) /\ O[o].hist["src"] = h["src"] \o <<os>> /\ O[o].hist["tgt"] = h["tgt"] \o <<ot>>
    <3>1. <<os>> \in Seq(Programs)
      OBVIOUS
    <3>2. h["src"] \o <<os>> = Append(h["src"], os) /\ h["tgt"] \o <<ot>> = Append(h["tgt"], ot)
      BY <1>3, ConcatOne
    <3> QED
      BY <2>5, <3>1, <3>2
  <2>7. Enforced(O, o, <<os>>, os, ot, landed)
    BY <2>3, <2>4, <2>6 DEF Enforced
  <2> QED
    BY <2>1, <2>5, <2>7 DEF o
<1>10. CASE fs # os
  <2> DEFINE B == Stepped(A, o, "src", fs)
             O == Stepped(B, o, "tgt", ot)
             es2 == Append(es1, Step("src", fs))
             es3 == Append(es2, Step("tgt", ot))
             k   == Append(<<os>>, fs)
  <2>1. OnOuter(g, os, fs, ot) = O
    BY <1>10 DEF OnOuter, o
  <2> HIDE DEF A, es1
  <2>2. Gains(tree, A, B, nextGoal, o, "src", fs)
    BY <1>1, <1>7, ComeStep
  <2>3. Along(o, es2, B, landed, {}) /\ Stepwise(es2, B[o].hist, os)
    BY <1>1, <1>2, <1>6, <1>7, <1>8, <2>2, AlongStep
  <2>4. /\ Come(tree, B, nextGoal) /\ o \in DOMAIN B /\ SameGoals(tree, B)
        /\ \A y \in DOMAIN tree \ {o} : B[y].hist = tree[y].hist
        /\ B[o].hist["src"] = Append(Append(h["src"], os), fs) /\ B[o].hist["tgt"] = h["tgt"]
    BY <1>1, <1>7, <2>2 DEF Gains, SameGoals
  <2>5. HeadOf(B, o, "tgt") = HeadOf(tree, o, "tgt")
    BY <2>4 DEF HeadOf
  <2> HIDE DEF B, es2
  <2>6. Gains(tree, B, O, nextGoal, o, "tgt", ot)
    BY <1>1, <2>4, ComeStep
  <2>7. Along(o, es3, O, landed, {}) /\ Stepwise(es3, O[o].hist, os)
    BY <1>1, <1>2, <2>3, <2>4, <2>5, <2>6, AlongStep
  <2>8. es3 = es \o (Steps("src", k) \o Steps("tgt", <<ot>>))
    <3> DEFINE a == Step("src", os)
               b == Step("src", fs)
               c == Step("tgt", ot)
    <3>1. Steps("src", <<os>>) = <<a>> /\ Steps("tgt", <<ot>>) = <<c>>
      BY <1>1, StepsAre
    <3>2. Steps("src", k) = Append(Steps("src", <<os>>), b)
      BY <1>1, TailsAre, StepsMore
    <3>3. /\ a \in Effects /\ b \in Effects /\ c \in Effects /\ es \in Seq(Effects)
          /\ es3 = Append(Append(Append(es, a), b), c)
      BY <1>3 DEF es1, es2
    <3> HIDE DEF a, b, c, es3, es, k
    <3>4. <<a>> \in Seq(Effects) /\ Append(<<a>>, b) \in Seq(Effects)
      BY <3>3
    <3>5. Append(<<a>>, b) \o <<c>> = Append(Append(<<a>>, b), c)
      BY <3>3, <3>4, ConcatOne
    <3>6. es \o Append(Append(<<a>>, b), c) = Append(es \o Append(<<a>>, b), c)
      BY <3>3, <3>4, ConcatMore
    <3>7. es \o Append(<<a>>, b) = Append(es \o <<a>>, b)
      BY <3>3, <3>4, ConcatMore
    <3>8. es \o <<a>> = Append(es, a)
      BY <3>3, ConcatOne
    <3> QED
      BY <3>1, <3>2, <3>3, <3>5, <3>6, <3>7, <3>8
  <2> HIDE DEF O, es3
  <2>9. /\ Come(tree, O, nextGoal) /\ SameGoals(tree, O)
        /\ \A y \in DOMAIN tree \ {o} : O[y].hist = tree[y].hist
        /\ O[o].hist["src"] = Append(Append(h["src"], os), fs) /\ O[o].hist["tgt"] = Append(h["tgt"], ot)
    BY <1>1, <2>4, <2>6 DEF Gains, SameGoals
  <2>10. k \in Seq(Programs) /\ O[o].hist["src"] = h["src"] \o k /\ O[o].hist["tgt"] = h["tgt"] \o <<ot>>
    <3>1. <<os>> \in Seq(Programs) /\ k \in Seq(Programs)
      BY TailsAre
    <3>2. h["src"] \o k = Append(h["src"] \o <<os>>, fs)
      <4> DEFINE j == <<os>>
                 hs == h["src"]
      <4>1. j \in Seq(Programs) /\ hs \in Seq(Programs) /\ k = Append(j, fs)
        BY <1>3, <3>1
      <4> HIDE DEF j, hs, k
      <4>2. hs \o k = Append(hs \o j, fs)
        BY <4>1, ConcatMore
      <4> QED
        BY <4>2 DEF j, hs
    <3>3. h["src"] \o <<os>> = Append(h["src"], os) /\ h["tgt"] \o <<ot>> = Append(h["tgt"], ot)
      BY <1>3, ConcatOne
    <3> HIDE DEF k
    <3> QED
      BY <2>9, <3>1, <3>2, <3>3
  <2>11. Enforced(O, o, k, os, ot, landed)
    <3> HIDE DEF k
    <3> QED
      BY <2>7, <2>8, <2>10 DEF Enforced
  <2> QED
    BY <2>1, <2>9, <2>11 DEF o
<1> QED
  BY <1>9, <1>10

-----------------------------------------------------------------------------
(* The moves of two goals.                                                 *)

\* The proof e of a contract is there: a step of the src of its goal that no revert can take
\* back, or the program that goal is interposed at.
ProofStands(G, es, L, e) ==
  \/ <<e[1], "src", e[2]>> \in L.landed /\ Stepwise(es[e[1]], G[e[1]].hist, e[2])
  \/ \E l \in G[e[1]].children \cap L.keeps : G[l].role = "lhs" /\ FirstOf(G, l, "tgt") = e[2]

\* A move after which c is told of a contract that names `by`.
Onwards(c, by) ==
  /\ Come(tree, tree', nextGoal)
  /\ log.landed \subseteq log'.landed /\ log.by \subseteq log'.by /\ log.keeps \subseteq log'.keeps
  /\ by \subseteq log'.by
  /\ Tallied(c, by)
  /\ \A e \in log'.by \ log.by : ProofStands(tree', effects', log', e)

Contracted(g) ==
  /\ CanStrengthen(g)
  /\ \E by : Onwards(Callee(g), by) /\ \A e \in by : e[1] \in {Outer(g), Callee(g)}

\* What a strengthen writes of itself.
Notes(g, outer, callee, by, keeps) ==
  /\ log'.landed = log.landed \cup {<<Outer(g), e[1], e[2]>> : e \in outer}
                     \cup {<<Callee(g), e[1], e[2]>> : e \in callee}
  /\ log'.by = log.by \cup by
  /\ log'.keeps = log.keeps \cup keeps

\* The tree after it, but for what its checks settle.
Becomes(G) ==
  /\ Come(tree, tree', nextGoal) /\ SameGoals(G, tree')
  /\ \A y \in DOMAIN G : tree'[y].hist = G[y].hist

LEMMA ContractNotes ==
  ASSUME TreeInv, NEW g \in DOMAIN tree, CanStrengthen(g), NEW G, Come(tree, G, nextGoal),
         NEW outer, NEW callee, NEW by, NEW keeps,
         LandContract(g, G, Recorded(g, outer, callee, by, keeps))
  PROVE  Becomes(G) /\ Notes(g, outer, callee, by, keeps)
<1> DEFINE L == Recorded(g, outer, callee, by, keeps)
<1>1. /\ Logged(L)
      /\ L.landed = log.landed \cup {<<Outer(g), e[1], e[2]>> : e \in outer}
                      \cup {<<Callee(g), e[1], e[2]>> : e \in callee}
      /\ L.by = log.by \cup by
      /\ L.keeps = log.keeps \cup keeps
  BY LogShape, RecordedFields
<1>2. LandContract(g, G, L)
  OBVIOUS
<1> HIDE DEF L
<1>3. LandsAs(G, L)
  BY <1>1, <1>2, ContractLands
<1> QED
  BY <1>1, <1>3 DEF LandsAs, Becomes, Notes

\* Both halves have taken the contract.
Contract(g, H, os, fs, ot) ==
  /\ Come(tree, H, nextGoal) /\ SameGoals(tree, H)
  /\ H[Outer(g)].hist = OnOuter(g, os, fs, ot)[Outer(g)].hist
  /\ \A y \in DOMAIN tree \ {Outer(g), Callee(g)} : H[y].hist = tree[y].hist

LEMMA OnOuterIs ==
  ASSUME TreeInv, Accounted, NEW g \in DOMAIN tree, CanStrengthen(g),
         NEW os \in Programs, NEW fs \in Programs, NEW ot \in Programs, Enforces(g, os, fs, ot)
  PROVE  /\ Come(tree, OnOuter(g, os, fs, ot), nextGoal) /\ SameGoals(tree, OnOuter(g, os, fs, ot))
         /\ \A y \in DOMAIN tree \ {Outer(g)} : OnOuter(g, os, fs, ot)[y].hist = tree[y].hist
<1>1. Lands({Outer(g)}, log.landed, log.landed)
  BY DEF Lands
<1> QED
  BY <1>1, EnforcedIs

LEMMA ContractIs ==
  ASSUME TreeInv, Accounted, NEW g \in DOMAIN tree, CanStrengthen(g),
         NEW os \in Programs, NEW fs \in Programs, NEW ot \in Programs, Enforces(g, os, fs, ot),
         NEW cs \in Programs, NEW ct \in Programs
  PROVE  Contract(g, Strengthened(OnOuter(g, os, fs, ot), Callee(g), cs, ct), os, fs, ot)
<1> DEFINE O == OnOuter(g, os, fs, ot)
           H == Strengthened(O, Callee(g), cs, ct)
<1>1. Outer(g) \in DOMAIN tree /\ Callee(g) \in DOMAIN tree /\ Outer(g) # Callee(g)
  BY HalvesDiffer
<1>2. /\ Come(tree, O, nextGoal) /\ SameGoals(tree, O)
      /\ \A y \in DOMAIN tree \ {Outer(g)} : O[y].hist = tree[y].hist
  BY OnOuterIs
<1>5. Contract(g, O, os, fs, ot)
  BY <1>2 DEF Contract
<1> HIDE DEF O
<1>3. GainsBoth(tree, O, H, nextGoal, Callee(g), cs, ct)
  BY <1>1, <1>2, ComeBoth DEF SameGoals
<1> HIDE DEF H
<1>4. SameGoals(tree, H)
  BY <1>2, <1>3 DEF GainsBoth, SameGoals
<1> QED
  BY <1>1, <1>3, <1>4, <1>5 DEF GainsBoth, Contract, SameGoals, O, H

\* What the outer is told.
LEMMA OuterTold ==
  ASSUME TreeInv, Accounted, NEW g \in DOMAIN tree, CanStrengthen(g),
         NEW os \in Programs, NEW fs \in Programs, NEW ot \in Programs, Enforces(g, os, fs, ot),
         log.landed \subseteq log'.landed,
         tree'[Outer(g)].hist = OnOuter(g, os, fs, ot)[Outer(g)].hist,
         NEW nested, NEW by, Halves(g, FALSE, nested, by)
  PROVE  /\ Follows(Outer(g), effects[Outer(g)], tree[Outer(g)].hist, log.landed,
                    effects'[Outer(g)], tree'[Outer(g)].hist, log'.landed, {})
         /\ Stepwise(effects'[Outer(g)], tree'[Outer(g)].hist, os)
<1> DEFINE o == Outer(g)
           O == OnOuter(g, os, fs, ot)
<1>1. o \in DOMAIN tree /\ "src" \in Sides /\ "tgt" \in Sides
  BY HalvesDiffer DEF Sides
<1>2. Lands({o}, log.landed, log'.landed)
  BY DEF Lands
<1>3. PICK k : Enforced(O, o, k, os, ot, log'.landed)
  BY <1>2, EnforcedIs
<1>4. effects'[o] = effects[o] \o (Steps("src", Gained(o, "src")) \o Steps("tgt", Gained(o, "tgt")))
  BY DEF Halves
<1>5. tree'[o].hist = O[o].hist
  OBVIOUS
<1>6. tree[o].hist["src"] \in Seq(Programs) /\ tree[o].hist["tgt"] \in Seq(Programs)
  BY <1>1, LogShape DEF Typed, Goals
<1> HIDE DEF O, o
<1>7. /\ k \in Seq(Programs)
      /\ tree'[o].hist["src"] = tree[o].hist["src"] \o k
      /\ tree'[o].hist["tgt"] = tree[o].hist["tgt"] \o <<ot>>
  BY <1>3, <1>5 DEF Enforced
<1>8. Gained(o, "src") = k
  BY <1>6, <1>7, GainedIs
<1>9. Gained(o, "tgt") = <<ot>>
  <2>1. <<ot>> \in Seq(Programs)
    OBVIOUS
  <2> QED
    BY <1>6, <1>7, <2>1, GainedIs
<1>10. effects'[o] = effects[o] \o (Steps("src", k) \o Steps("tgt", <<ot>>))
  BY <1>4, <1>8, <1>9
<1> QED
  BY <1>3, <1>5, <1>10 DEF Enforced, Along, o

\* All of it together.
LEMMA ContractedIs ==
  ASSUME TreeInv, Accounted, NEW g \in DOMAIN tree, CanStrengthen(g),
         NEW returns, NEW nested, NEW by, Halves(g, returns, nested, by),
         Come(tree, tree', nextGoal),
         log.landed \subseteq log'.landed, log.by \subseteq log'.by, log.keeps \subseteq log'.keeps,
         Follows(Outer(g), effects[Outer(g)], tree[Outer(g)].hist, log.landed,
                 effects'[Outer(g)], tree'[Outer(g)].hist, log'.landed, {}),
         Follows(Callee(g), effects[Callee(g)], tree[Callee(g)].hist, log.landed,
                 effects'[Callee(g)], tree'[Callee(g)].hist, log'.landed, by),
         \A y \in DOMAIN tree \ {Outer(g), Callee(g)} : tree'[y].hist = tree[y].hist,
         \A y \in DOMAIN tree' \ DOMAIN tree : Sprung(tree'[y].hist),
         \A e \in log'.by \ log.by : ProofStands(tree', effects', log', e)
  PROVE  Contracted(g)
<1> DEFINE o == Outer(g)
           c == Callee(g)
<1>1. o \in DOMAIN tree /\ c \in DOMAIN tree /\ o # c
  BY HalvesDiffer
<1>2. /\ by \subseteq log'.by /\ \A e \in by : e[1] \in {o, c}
      /\ DOMAIN effects' = DOMAIN tree'
      /\ \A x \in DOMAIN tree \ {o, c} : effects'[x] = effects[x]
      /\ \A x \in DOMAIN tree' \ DOMAIN tree : effects'[x] = <<>>
  BY DEF Halves
<1>3. ASSUME NEW x \in DOMAIN tree' \cap DOMAIN tree
      PROVE  Follows(x, effects[x], tree[x].hist, log.landed, effects'[x], tree'[x].hist, log'.landed,
                     IF x = c THEN by ELSE {})
  <2>1. CASE x = c
    BY <2>1
  <2>2. CASE x = o
    BY <1>1, <2>2
  <2>3. CASE x # c /\ x # o
    <3>1. Lands({x}, log.landed, log'.landed)
      BY DEF Lands
    <3>2. Follows(x, effects[x], tree[x].hist, log.landed, effects[x], tree[x].hist, log'.landed, {})
      BY <3>1, ToldSoFar
    <3>3. effects'[x] = effects[x] /\ tree'[x].hist = tree[x].hist
      BY <1>2, <2>3
    <3> QED
      BY <2>3, <3>2, <3>3
  <2> QED
    BY <2>1, <2>2, <2>3
<1>4. ASSUME NEW x \in DOMAIN tree' \ DOMAIN tree
      PROVE  effects'[x] = <<>> /\ Tells(x, <<>>, tree'[x].hist, log'.landed)
  BY <1>2, TellsNew DEF Sprung
<1> HIDE DEF c, o
<1>5. Tallied(c, by)
  BY <1>2, <1>3, <1>4 DEF Tallied
<1>6. Onwards(c, by)
  BY <1>2, <1>5 DEF Onwards
<1> QED
  BY <1>2, <1>6 DEF Contracted, c, o

\* The proofs the log has are programs of goals.
LEMMA ProofsNamed ==
  ASSUME NEW G, NEW L, L \in Logs(DOMAIN G), Typed(G)
  PROVE  /\ L.by \in SUBSET (Nat \X Programs)
         /\ \A e \in L.by : e[1] \in DOMAIN G /\ e = <<e[1], e[2]>>
<1>1. \A e \in L.by : e[1] \in DOMAIN G /\ e[2] \in Programs /\ e = <<e[1], e[2]>>
  BY LogIs
<1>2. DOMAIN G \subseteq Nat
  BY DEF Typed
<1> QED
  BY <1>1, <1>2

\* So those a contract names are.
LEMMA NamesAre ==
  ASSUME TreeInv', NEW by, by \subseteq log'.by
  PROVE  /\ by \in SUBSET (Nat \X Programs)
         /\ \A e \in by : e[1] \in DOMAIN tree' /\ e = <<e[1], e[2]>>
<1>1. Good(tree', log', nextGoal')
  BY DEF TreeInv
<1>2. log' \in Logs(DOMAIN tree') /\ Typed(tree')
  BY <1>1 DEF Good, Sound
<1>3. /\ log'.by \in SUBSET (Nat \X Programs)
      /\ \A e \in log'.by : e[1] \in DOMAIN tree' /\ e = <<e[1], e[2]>>
  BY <1>2, ProofsNamed
<1> QED
  BY <1>3

\* What the callee is told, once the contract is one more program on each side, ...
LEMMA CalleeSays ==
  ASSUME TreeInv, TreeInv', Accounted, NEW g \in DOMAIN tree, CanStrengthen(g),
         NEW returns, NEW nested \in BOOLEAN, NEW by, Halves(g, returns, nested, by),
         NEW p \in Programs, NEW q \in Programs,
         Gained(Callee(g), "src") = <<p>>, Gained(Callee(g), "tgt") = <<q>>,
         nested => Opens(tree', Callee(g), nextGoal) \in Effects
  PROVE  /\ ~nested => effects'[Callee(g)] = effects[Callee(g)] \o <<Both(p, q, by)>>
         /\ nested => effects'[Callee(g)] =
                        Append(effects[Callee(g)] \o <<Both(p, q, by)>>, Opens(tree', Callee(g), nextGoal))
<1> DEFINE c == Callee(g)
           e == Both(p, q, by)
           n == Opens(tree', c, nextGoal)
           es == effects[c]
<1>1. by \subseteq log'.by
  BY DEF Halves
<1>2. e \in Effects /\ es \in Seq(Effects) /\ "src" \in Sides
  BY <1>1, NamesAre, EffectsAre, AccountedSeq, HalvesDiffer DEF Sides
<1>3. <<p>>[1] = p /\ <<q>>[1] = q /\ Tail(<<p>>) = <<>> /\ Steps("src", <<>>) = <<>>
  BY <1>2, TailsAre, StepsAre
<1>4. effects'[c] = es \o (<<Both(<<p>>[1], <<q>>[1], by)>> \o Steps("src", Tail(<<p>>))
                           \o (IF nested THEN <<n>> ELSE <<>>))
  BY DEF Halves
<1>5. effects'[c] = es \o (<<e>> \o <<>> \o (IF nested THEN <<n>> ELSE <<>>))
  BY <1>3, <1>4
<1>6. nested => n \in Effects
  OBVIOUS
<1> HIDE DEF c, e, n, es
<1>7. <<e>> \in Seq(Effects) /\ <<e>> \o <<>> = <<e>>
  BY <1>2
<1>8. CASE ~nested
  BY <1>5, <1>7, <1>8 DEF c, e, es
<1>9. CASE nested
  <2>1. effects'[c] = es \o (<<e>> \o <<n>>)
    BY <1>5, <1>7, <1>9
  <2>2. <<e>> \o <<n>> = Append(<<e>>, n)
    BY <1>6, <1>7, <1>9, ConcatOne
  <2>3. es \o Append(<<e>>, n) = Append(es \o <<e>>, n)
    BY <1>2, <1>6, <1>7, <1>9, ConcatMore
  <2> QED
    BY <1>9, <2>1, <2>2, <2>3 DEF c, e, n, es
<1> QED
  BY <1>8, <1>9

\* ... or one more on its src after it.
Two(p, q) == Append(<<p>>, q)

LEMMA CalleeSaysMore ==
  ASSUME TreeInv, TreeInv', Accounted, NEW g \in DOMAIN tree, CanStrengthen(g),
         NEW returns, NEW by, Halves(g, returns, FALSE, by),
         NEW p \in Programs, NEW q \in Programs, NEW r \in Programs,
         Gained(Callee(g), "src") = Two(p, r), Gained(Callee(g), "tgt") = <<q>>
  PROVE  effects'[Callee(g)] = Append(effects[Callee(g)] \o <<Both(p, q, by)>>, Step("src", r))
<1> DEFINE c == Callee(g)
           e == Both(p, q, by)
           n == Step("src", r)
           es == effects[c]
           k == Two(p, r)
<1>1. by \subseteq log'.by
  BY DEF Halves
<1>2. e \in Effects /\ n \in Effects /\ es \in Seq(Effects) /\ "src" \in Sides
  BY <1>1, NamesAre, EffectsAre, AccountedSeq, HalvesDiffer DEF Sides
<1>3. k[1] = p /\ <<q>>[1] = q /\ Tail(k) = <<r>> /\ Steps("src", <<r>>) = <<n>>
  BY <1>2, TailsAre, StepsAre DEF Two
<1>5. effects'[c] = es \o (<<Both(k[1], <<q>>[1], by)>> \o Steps("src", Tail(k)) \o <<>>)
  BY DEF Halves
<1>6. effects'[c] = es \o (<<e>> \o <<n>> \o <<>>)
  BY <1>3, <1>5
<1> HIDE DEF c, e, n, es
<1>7. <<e>> \in Seq(Effects) /\ <<e>> \o <<n>> = Append(<<e>>, n)
  BY <1>2, ConcatOne
<1>8. Append(<<e>>, n) \in Seq(Effects) /\ Append(<<e>>, n) \o <<>> = Append(<<e>>, n)
  BY <1>2, <1>7
<1>9. es \o Append(<<e>>, n) = Append(es \o <<e>>, n)
  BY <1>2, <1>7, ConcatMore
<1> QED
  BY <1>6, <1>7, <1>8, <1>9 DEF c, e, n, es

\* Facts on the parameters, on the function, or both.
LEMMA StrengthenContracts ==
  ASSUME TreeInv, TreeInv', Accounted, NEW g \in DOMAIN tree, Strengthen(g),
         AddsContract(g, FALSE, FALSE)
  PROVE  Contracted(g)
<1> DEFINE o == Outer(g)
           c == Callee(g)
<1>1. CanStrengthen(g)
  BY DEF Strengthen
<1>2. /\ o \in DOMAIN tree /\ c \in DOMAIN tree /\ o # c
      /\ "src" \in Sides /\ "tgt" \in Sides
  BY <1>1, HalvesDiffer DEF Sides
<1>3. PICK os, fs, ot, cs, ct \in Programs, entry \in BOOLEAN :
        /\ Enforces(g, os, fs, ot)
        /\ LandContract(g, Strengthened(OnOuter(g, os, fs, ot), Callee(g), cs, ct),
                        Recorded(g, {<<"src", os>>, <<"src", fs>>, <<"tgt", ot>>},
                                 {<<"src", cs>>, <<"tgt", ct>>},
                                 IF entry THEN {<<Outer(g), os>>} ELSE {}, {}))
  BY DEF Strengthen
<1> DEFINE O == OnOuter(g, os, fs, ot)
           H == Strengthened(O, Callee(g), cs, ct)
           proofs == IF entry THEN {<<Outer(g), os>>} ELSE {}
           onOuter == {<<"src", os>>, <<"src", fs>>, <<"tgt", ot>>}
           onCallee == {<<"src", cs>>, <<"tgt", ct>>}
<1>4. Contract(g, H, os, fs, ot)
  BY <1>1, <1>3, ContractIs
<1>5. LandContract(g, H, Recorded(g, onOuter, onCallee, proofs, {}))
  BY <1>3
<1>6. /\ Come(tree, O, nextGoal)
      /\ \A y \in DOMAIN tree \ {o} : O[y].hist = tree[y].hist
  BY <1>1, <1>3, OnOuterIs
<1>26. H = Strengthened(O, c, cs, ct)
  OBVIOUS
<1> HIDE DEF H, proofs, onOuter, onCallee
<1>7. Becomes(H) /\ Notes(g, onOuter, onCallee, proofs, {})
  BY <1>1, <1>4, <1>5, ContractNotes DEF Contract
<1>8. /\ log.landed \subseteq log'.landed /\ log.by \subseteq log'.by /\ log.keeps \subseteq log'.keeps
  BY <1>7 DEF Notes
<1>9. /\ <<o, "src", os>> \in log'.landed
      /\ <<c, "src", cs>> \in log'.landed /\ <<c, "tgt", ct>> \in log'.landed
  <2>1. /\ <<"src", os>> \in onOuter /\ <<"src", cs>> \in onCallee /\ <<"tgt", ct>> \in onCallee
    BY DEF onOuter, onCallee
  <2>2. /\ \A s, p : <<s, p>> \in onOuter => <<o, s, p>> \in log'.landed
        /\ \A s, p : <<s, p>> \in onCallee => <<c, s, p>> \in log'.landed
    BY <1>7 DEF Notes
  <2> HIDE DEF o, c
  <2> QED
    BY <2>1, <2>2
<1>10. \A e \in log'.by \ log.by : e = <<o, os>>
  BY <1>7 DEF Notes, proofs
<1>11. /\ Come(tree, tree', nextGoal) /\ DOMAIN tree' = DOMAIN tree
       /\ tree'[o].hist = O[o].hist /\ tree'[c].hist = H[c].hist
       /\ \A y \in DOMAIN tree \ {o, c} : tree'[y].hist = tree[y].hist
  BY <1>2, <1>4, <1>7 DEF Becomes, Contract, SameGoals
<1>12. PICK by : Halves(g, FALSE, FALSE, by)
  BY <1>1, <1>11, ContractAdds
<1>13. by \in SUBSET (Nat \X Programs)
  BY <1>12, NamesAre DEF Halves
<1>14. /\ Follows(o, effects[o], tree[o].hist, log.landed, effects'[o], tree'[o].hist, log'.landed, {})
       /\ Stepwise(effects'[o], tree'[o].hist, os)
  BY <1>1, <1>3, <1>8, <1>11, <1>12, OuterTold
<1> HIDE DEF O
<1>15. Agreed(O, Strengthened(O, c, cs, ct), c, cs, ct, log'.landed, by)
  <2>1. Lands({c}, log.landed, log'.landed)
    BY <1>8 DEF Lands
  <2>2. O[c].hist = tree[c].hist
    BY <1>2, <1>6
  <2> HIDE DEF c, o
  <2> QED
    BY <1>2, <1>6, <1>9, <1>13, <2>1, <2>2, AgreedIs
<1>16. /\ tree'[c].hist["src"] = tree[c].hist["src"] \o <<cs>>
       /\ tree'[c].hist["tgt"] = tree[c].hist["tgt"] \o <<ct>>
       /\ Along(c, effects[c] \o <<Both(cs, ct, by)>>, H, log'.landed, by)
  BY <1>11, <1>15, <1>26 DEF Agreed
<1>17. Gained(c, "src") = <<cs>> /\ Gained(c, "tgt") = <<ct>>
  <2>1. tree[c].hist["src"] \in Seq(Programs) /\ tree[c].hist["tgt"] \in Seq(Programs)
    BY <1>2, LogShape DEF Typed, Goals
  <2>2. <<cs>> \in Seq(Programs) /\ <<ct>> \in Seq(Programs)
    OBVIOUS
  <2> QED
    BY <1>16, <2>1, <2>2, GainedIs
<1>18. effects'[c] = effects[c] \o <<Both(cs, ct, by)>>
  BY <1>1, <1>12, <1>17, CalleeSays
<1>19. Follows(c, effects[c], tree[c].hist, log.landed, effects'[c], tree'[c].hist, log'.landed, by)
  BY <1>11, <1>16, <1>18 DEF Along
<1>20. \A e \in log'.by \ log.by : ProofStands(tree', effects', log', e)
  BY <1>9, <1>10, <1>14 DEF ProofStands
<1> HIDE DEF o, c
<1>21. \A y \in DOMAIN tree' \ DOMAIN tree : Sprung(tree'[y].hist)
  BY <1>11
<1> QED
  BY <1>1, <1>8, <1>11, <1>12, <1>14, <1>19, <1>20, <1>21, ContractedIs DEF o, c

\* A loop keeps its contract by a step of the callee.
LEMMA StrengthenLoopContracts ==
  ASSUME TreeInv, TreeInv', Accounted, NEW g \in DOMAIN tree, StrengthenLoop(g),
         AddsContract(g, FALSE, FALSE)
  PROVE  Contracted(g)
<1> DEFINE o == Outer(g)
           c == Callee(g)
<1>1. CanStrengthen(g)
  BY DEF StrengthenLoop
<1>2. /\ o \in DOMAIN tree /\ c \in DOMAIN tree /\ o # c
      /\ "src" \in Sides /\ "tgt" \in Sides
  BY <1>1, HalvesDiffer DEF Sides
<1>3. PICK os, ot, cs, ct, kept \in Programs :
        /\ Enforces(g, os, os, ot)
        /\ Certifies("src", cs, kept)
        /\ LandContract(g, Stepped(Strengthened(OnOuter(g, os, os, ot), Callee(g), cs, ct),
                                   Callee(g), "src", kept),
                        Recorded(g, {<<"src", os>>, <<"tgt", ot>>},
                                 {<<"src", cs>>, <<"src", kept>>, <<"tgt", ct>>},
                                 {<<Outer(g), os>>, <<Callee(g), kept>>}, {}))
  BY DEF StrengthenLoop
<1> DEFINE O == OnOuter(g, os, os, ot)
           H == Strengthened(O, Callee(g), cs, ct)
           G == Stepped(H, c, "src", kept)
           proofs == {<<Outer(g), os>>, <<Callee(g), kept>>}
           onOuter == {<<"src", os>>, <<"tgt", ot>>}
           onCallee == {<<"src", cs>>, <<"src", kept>>, <<"tgt", ct>>}
<1>4. Contract(g, H, os, os, ot)
  BY <1>1, <1>3, ContractIs
<1>5. LandContract(g, G, Recorded(g, onOuter, onCallee, proofs, {}))
  BY <1>3
<1>6. /\ Come(tree, O, nextGoal)
      /\ \A y \in DOMAIN tree \ {o} : O[y].hist = tree[y].hist
  BY <1>1, <1>3, OnOuterIs
<1>26. H = Strengthened(O, c, cs, ct)
  OBVIOUS
<1> HIDE DEF H
<1>27. Gains(tree, H, G, nextGoal, c, "src", kept)
  BY <1>2, <1>4, ComeStep DEF Contract, SameGoals
<1> HIDE DEF G, proofs, onOuter, onCallee
<1>7. Becomes(G) /\ Notes(g, onOuter, onCallee, proofs, {})
  BY <1>1, <1>5, <1>27, ContractNotes DEF Gains
<1>8. /\ log.landed \subseteq log'.landed /\ log.by \subseteq log'.by /\ log.keeps \subseteq log'.keeps
  BY <1>7 DEF Notes
<1>9. /\ <<o, "src", os>> \in log'.landed
      /\ <<c, "src", cs>> \in log'.landed /\ <<c, "tgt", ct>> \in log'.landed
      /\ <<c, "src", kept>> \in log'.landed
  <2>1. /\ <<"src", os>> \in onOuter /\ <<"src", cs>> \in onCallee /\ <<"tgt", ct>> \in onCallee
        /\ <<"src", kept>> \in onCallee
    BY DEF onOuter, onCallee
  <2>2. /\ \A s, p : <<s, p>> \in onOuter => <<o, s, p>> \in log'.landed
        /\ \A s, p : <<s, p>> \in onCallee => <<c, s, p>> \in log'.landed
    BY <1>7 DEF Notes
  <2> HIDE DEF o, c
  <2> QED
    BY <2>1, <2>2
<1>10. \A e \in log'.by \ log.by : e = <<o, os>> \/ e = <<c, kept>>
  BY <1>7 DEF Notes, proofs
<1>11. /\ Come(tree, tree', nextGoal) /\ DOMAIN tree' = DOMAIN tree
       /\ tree'[o].hist = O[o].hist /\ tree'[c].hist = G[c].hist
       /\ \A y \in DOMAIN tree \ {o, c} : tree'[y].hist = tree[y].hist
  BY <1>2, <1>4, <1>7, <1>27 DEF Becomes, Contract, SameGoals, Gains
<1>12. PICK by : Halves(g, FALSE, FALSE, by)
  BY <1>1, <1>11, ContractAdds
<1>13. by \in SUBSET (Nat \X Programs)
  BY <1>12, NamesAre DEF Halves
<1>14. /\ Follows(o, effects[o], tree[o].hist, log.landed, effects'[o], tree'[o].hist, log'.landed, {})
       /\ Stepwise(effects'[o], tree'[o].hist, os)
  BY <1>1, <1>3, <1>8, <1>11, <1>12, OuterTold
<1> HIDE DEF O
<1>15. Agreed(O, Strengthened(O, c, cs, ct), c, cs, ct, log'.landed, by)
  <2>1. Lands({c}, log.landed, log'.landed)
    BY <1>8 DEF Lands
  <2>2. O[c].hist = tree[c].hist
    BY <1>2, <1>6
  <2> HIDE DEF c, o
  <2> QED
    BY <1>2, <1>6, <1>9, <1>13, <2>1, <2>2, AgreedIs
<1>16. /\ H[c].hist["src"] = tree[c].hist["src"] \o <<cs>>
       /\ H[c].hist["tgt"] = tree[c].hist["tgt"] \o <<ct>>
       /\ Along(c, effects[c] \o <<Both(cs, ct, by)>>, H, log'.landed, by)
  BY <1>15, <1>26 DEF Agreed
<1>28. tree[c].hist["src"] \in Seq(Programs) /\ tree[c].hist["tgt"] \in Seq(Programs)
  BY <1>2, LogShape DEF Typed, Goals
<1>29. /\ tree'[c].hist["src"] = tree[c].hist["src"] \o Append(<<cs>>, kept)
       /\ tree'[c].hist["tgt"] = tree[c].hist["tgt"] \o <<ct>>
       /\ HeadOf(H, c, "src") = cs
  <2> DEFINE j == <<cs>>
             h == tree[c].hist["src"]
  <2>1. j \in Seq(Programs) /\ Len(j) = 1 /\ j[1] = cs
    OBVIOUS
  <2>2. /\ tree'[c].hist["src"] = Append(h \o j, kept)
        /\ tree'[c].hist["tgt"] = H[c].hist["tgt"]
    BY <1>11, <1>16, <1>27 DEF Gains, Sides
  <2>3. HeadOf(H, c, "src") = (h \o j)[Len(h \o j)]
    BY <1>16 DEF HeadOf
  <2>4. h \in Seq(Programs)
    BY <1>28
  <2> HIDE DEF j, h
  <2>5. h \o Append(j, kept) = Append(h \o j, kept)
    BY <2>1, <2>4, ConcatMore
  <2>6. (h \o j)[Len(h \o j)] = cs
    <3>1. h \o <<cs>> = Append(h, cs)
      BY <2>4, ConcatOne
    <3>2. Append(h, cs)[Len(Append(h, cs))] = cs
      BY <2>4
    <3> QED
      BY <3>1, <3>2 DEF j
  <2> QED
    BY <1>16, <2>2, <2>3, <2>5, <2>6 DEF h, j
<1>17. Gained(c, "src") = Two(cs, kept) /\ Gained(c, "tgt") = <<ct>>
  <2> DEFINE k == Two(cs, kept)
  <2>1. k \in Seq(Programs) /\ <<ct>> \in Seq(Programs)
    BY TailsAre DEF Two
  <2>2. tree'[c].hist["src"] = tree[c].hist["src"] \o k
    BY <1>29 DEF Two
  <2> HIDE DEF k
  <2>3. Gained(c, "src") = k /\ Gained(c, "tgt") = <<ct>>
    BY <1>28, <1>29, <2>1, <2>2, GainedIs
  <2> QED
    BY <2>3 DEF k
<1>18. effects'[c] = Append(effects[c] \o <<Both(cs, ct, by)>>, Step("src", kept))
  BY <1>1, <1>12, <1>17, CalleeSaysMore
<1>30. /\ Along(c, effects'[c], G, log'.landed, by)
       /\ Stepwise(effects'[c], G[c].hist, kept)
  <2> DEFINE fs == effects[c] \o <<Both(cs, ct, by)>>
  <2>1. c \in DOMAIN H
    BY <1>2, <1>4 DEF Contract, SameGoals
  <2>2. Along(c, fs, H, log'.landed, by) /\ effects'[c] = Append(fs, Step("src", kept))
    BY <1>16, <1>18
  <2>3. Certifies("src", HeadOf(H, c, "src"), kept)
    BY <1>3, <1>29
  <2> HIDE DEF fs, c
  <2>4. /\ Along(c, Append(fs, Step("src", kept)), G, log'.landed, by)
        /\ Stepwise(Append(fs, Step("src", kept)), G[c].hist, kept)
    BY <1>2, <1>27, <2>1, <2>2, <2>3, AlongStep
  <2> QED
    BY <2>2, <2>4
<1>19. Follows(c, effects[c], tree[c].hist, log.landed, effects'[c], tree'[c].hist, log'.landed, by)
  BY <1>11, <1>30 DEF Along
<1>20. \A e \in log'.by \ log.by : ProofStands(tree', effects', log', e)
  BY <1>9, <1>10, <1>11, <1>14, <1>30 DEF ProofStands
<1> HIDE DEF o, c
<1>21. \A y \in DOMAIN tree' \ DOMAIN tree : Sprung(tree'[y].hist)
  BY <1>11
<1> QED
  BY <1>1, <1>8, <1>11, <1>12, <1>14, <1>19, <1>20, <1>21, ContractedIs DEF o, c

\* Return facts, of both halves.
LEMMA StrengthenReturnContracts ==
  ASSUME TreeInv, TreeInv', Accounted, NEW g \in DOMAIN tree, StrengthenReturn(g),
         AddsContract(g, TRUE, FALSE)
  PROVE  Contracted(g)
<1> DEFINE o == Outer(g)
           c == Callee(g)
<1>1. CanStrengthen(g)
  BY DEF StrengthenReturn
<1>2. /\ o \in DOMAIN tree /\ c \in DOMAIN tree /\ o # c
      /\ "src" \in Sides /\ "tgt" \in Sides
  BY <1>1, HalvesDiffer DEF Sides
<1>3. PICK os, ot, cs, ct \in Programs :
        LandContract(g, Strengthened(Strengthened(tree, Callee(g), cs, ct), Outer(g), os, ot),
                     Recorded(g, {<<"src", os>>, <<"tgt", ot>>}, {<<"src", cs>>, <<"tgt", ct>>}, {}, {}))
  BY DEF StrengthenReturn
<1> DEFINE H == Strengthened(tree, c, cs, ct)
           G == Strengthened(H, o, os, ot)
           onOuter == {<<"src", os>>, <<"tgt", ot>>}
           onCallee == {<<"src", cs>>, <<"tgt", ct>>}
<1>4. GainsBoth(tree, tree, H, nextGoal, c, cs, ct)
  BY <1>2, LogShape, ComeBoth
<1>5. LandContract(g, G, Recorded(g, onOuter, onCallee, {}, {}))
  BY <1>3
<1>25. H = Strengthened(tree, c, cs, ct)
  OBVIOUS
<1> HIDE DEF H
<1>6. /\ Come(tree, H, nextGoal) /\ DOMAIN H = DOMAIN tree
      /\ \A y \in DOMAIN tree \ {c} : H[y].hist = tree[y].hist
  BY <1>4 DEF GainsBoth, SameGoals
<1>26. GainsBoth(tree, H, G, nextGoal, o, os, ot)
  BY <1>2, <1>6, ComeBoth
<1>27. G = Strengthened(H, o, os, ot)
  OBVIOUS
<1> HIDE DEF G, onOuter, onCallee
<1>7. Becomes(G) /\ Notes(g, onOuter, onCallee, {}, {})
  BY <1>1, <1>5, <1>26, ContractNotes DEF GainsBoth
<1>8. /\ log.landed \subseteq log'.landed /\ log'.by = log.by /\ log.keeps \subseteq log'.keeps
  BY <1>7 DEF Notes
<1>9. /\ <<o, "src", os>> \in log'.landed /\ <<o, "tgt", ot>> \in log'.landed
      /\ <<c, "src", cs>> \in log'.landed /\ <<c, "tgt", ct>> \in log'.landed
  <2>1. /\ <<"src", os>> \in onOuter /\ <<"tgt", ot>> \in onOuter
        /\ <<"src", cs>> \in onCallee /\ <<"tgt", ct>> \in onCallee
    BY DEF onOuter, onCallee
  <2>2. /\ \A s, p : <<s, p>> \in onOuter => <<o, s, p>> \in log'.landed
        /\ \A s, p : <<s, p>> \in onCallee => <<c, s, p>> \in log'.landed
    BY <1>7 DEF Notes
  <2> HIDE DEF o, c
  <2> QED
    BY <2>1, <2>2
<1>11. /\ Come(tree, tree', nextGoal) /\ DOMAIN tree' = DOMAIN tree
       /\ tree'[o].hist = G[o].hist /\ tree'[c].hist = H[c].hist
       /\ \A y \in DOMAIN tree \ {o, c} : tree'[y].hist = tree[y].hist
  BY <1>2, <1>6, <1>7, <1>26 DEF Becomes, GainsBoth, SameGoals
<1>12. PICK by : Halves(g, TRUE, FALSE, by)
  BY <1>1, <1>11, ContractAdds
<1>13. by \in SUBSET (Nat \X Programs)
  BY <1>12, NamesAre DEF Halves
<1>14. Lands({c}, log.landed, log'.landed) /\ Lands({o}, log.landed, log'.landed)
  BY <1>8 DEF Lands
<1>15. Agreed(tree, H, c, cs, ct, log'.landed, by)
  <2> HIDE DEF c, o
  <2> QED
    BY <1>2, <1>9, <1>13, <1>14, <1>25, LogShape, AgreedIs
<1>16. Agreed(H, G, o, os, ot, log'.landed, {})
  <2>1. H[o].hist = tree[o].hist
    BY <1>2, <1>6
  <2>2. {} \in SUBSET (Nat \X Programs)
    OBVIOUS
  <2> HIDE DEF c, o
  <2> QED
    BY <1>2, <1>6, <1>9, <1>14, <1>27, <2>1, <2>2, AgreedIs
<1>17. /\ tree'[c].hist["src"] = tree[c].hist["src"] \o <<cs>>
       /\ tree'[c].hist["tgt"] = tree[c].hist["tgt"] \o <<ct>>
       /\ Along(c, effects[c] \o <<Both(cs, ct, by)>>, H, log'.landed, by)
  BY <1>11, <1>15 DEF Agreed
<1>18. /\ tree'[o].hist["src"] = tree[o].hist["src"] \o <<os>>
       /\ tree'[o].hist["tgt"] = tree[o].hist["tgt"] \o <<ot>>
       /\ Along(o, effects[o] \o <<Both(os, ot, {})>>, G, log'.landed, {})
  BY <1>11, <1>16 DEF Agreed
<1>19. /\ Gained(c, "src") = <<cs>> /\ Gained(c, "tgt") = <<ct>>
       /\ Gained(o, "src") = <<os>> /\ Gained(o, "tgt") = <<ot>>
  <2>1. /\ tree[c].hist["src"] \in Seq(Programs) /\ tree[c].hist["tgt"] \in Seq(Programs)
        /\ tree[o].hist["src"] \in Seq(Programs) /\ tree[o].hist["tgt"] \in Seq(Programs)
    BY <1>2, LogShape DEF Typed, Goals
  <2>2. /\ <<cs>> \in Seq(Programs) /\ <<ct>> \in Seq(Programs)
        /\ <<os>> \in Seq(Programs) /\ <<ot>> \in Seq(Programs)
    OBVIOUS
  <2> QED
    BY <1>17, <1>18, <2>1, <2>2, GainedIs
<1>20. effects'[c] = effects[c] \o <<Both(cs, ct, by)>>
  BY <1>1, <1>12, <1>19, CalleeSays
<1>21. effects'[o] = effects[o] \o <<Both(os, ot, {})>>
  <2>1. effects'[o] = effects[o] \o <<Both(Gained(o, "src")[1], Gained(o, "tgt")[1], {})>>
    BY <1>12 DEF Halves
  <2>2. Gained(o, "src")[1] = os /\ Gained(o, "tgt")[1] = ot
    BY <1>19
  <2> QED
    BY <2>1, <2>2
<1>22. Follows(c, effects[c], tree[c].hist, log.landed, effects'[c], tree'[c].hist, log'.landed, by)
  BY <1>11, <1>17, <1>20 DEF Along
<1>23. Follows(o, effects[o], tree[o].hist, log.landed, effects'[o], tree'[o].hist, log'.landed, {})
  BY <1>11, <1>18, <1>21 DEF Along
<1> HIDE DEF o, c
<1>24. \A y \in DOMAIN tree' \ DOMAIN tree : Sprung(tree'[y].hist)
  BY <1>11
<1> QED
  BY <1>1, <1>8, <1>11, <1>12, <1>22, <1>23, <1>24, ContractedIs DEF o, c

\* A loop keeps its contract by an interpose of the callee.
LEMMA StrengthenNestedContracts ==
  ASSUME TreeInv, TreeInv', Accounted, NEW g \in DOMAIN tree, StrengthenNested(g),
         AddsContract(g, FALSE, TRUE)
  PROVE  Contracted(g)
<1> DEFINE o == Outer(g)
           c == Callee(g)
<1>1. CanStrengthen(g)
  BY DEF StrengthenNested
<1>2. /\ o \in DOMAIN tree /\ c \in DOMAIN tree /\ o # c
      /\ "src" \in Sides /\ "tgt" \in Sides
  BY <1>1, HalvesDiffer DEF Sides
<1>3. PICK os, ot, cs, ct, kept \in Programs :
        /\ Enforces(g, os, os, ot)
        /\ LandContract(g, InterposedAt(Strengthened(OnOuter(g, os, os, ot), Callee(g), cs, ct),
                                        Callee(g), nextGoal, kept),
                        Recorded(g, {<<"src", os>>, <<"tgt", ot>>}, {<<"src", cs>>, <<"tgt", ct>>},
                                 {<<Outer(g), os>>, <<Callee(g), kept>>}, {nextGoal}))
  BY DEF StrengthenNested
<1> DEFINE O == OnOuter(g, os, os, ot)
           H == Strengthened(O, Callee(g), cs, ct)
           G == InterposedAt(H, c, nextGoal, kept)
           proofs == {<<Outer(g), os>>, <<Callee(g), kept>>}
           onOuter == {<<"src", os>>, <<"tgt", ot>>}
           onCallee == {<<"src", cs>>, <<"tgt", ct>>}
           lhs == NewGoal(c, "lhs", "none", HeadOf(H, c, "src"), kept)
           rhs == NewGoal(c, "rhs", "none", kept, HeadOf(H, c, "tgt"))
<1>4. Contract(g, H, os, os, ot)
  BY <1>1, <1>3, ContractIs
<1>5. LandContract(g, G, Recorded(g, onOuter, onCallee, proofs, {nextGoal}))
  BY <1>3
<1>6. /\ Come(tree, O, nextGoal)
      /\ \A y \in DOMAIN tree \ {o} : O[y].hist = tree[y].hist
  BY <1>1, <1>3, OnOuterIs
<1>26. H = Strengthened(O, c, cs, ct)
  OBVIOUS
<1> HIDE DEF H
<1>27. Sprouts(tree, H, G, nextGoal, c, lhs, rhs) /\ Sprung(lhs.hist) /\ Sprung(rhs.hist)
  <2>1. /\ Come(tree, H, nextGoal) /\ DOMAIN H = DOMAIN tree /\ c \in DOMAIN H
        /\ nextGoal \in Nat /\ \A y \in DOMAIN H : y < nextGoal
    BY <1>2, <1>4, LogShape DEF Contract, SameGoals
  <2>2. HeadOf(H, c, "src") \in Programs /\ HeadOf(H, c, "tgt") \in Programs
    BY <1>2, <2>1, HeadIs DEF Come
  <2>3. "none" \in CutKinds /\ <<"lhs", "rhs">> \in RolePairs
    BY DEF CutKinds, RolePairs
  <2>4. G = Split(H, c, nextGoal, lhs, rhs)
    BY DEF InterposedAt
  <2> QED
    BY <2>1, <2>2, <2>3, <2>4, ComeSplit, NewGoalSprung
<1>31. lhs.role = "lhs" /\ lhs.hist["tgt"][1] = kept
  <2>1. lhs.hist["tgt"] = <<kept>>
    BY <1>2 DEF NewGoal
  <2> QED
    BY <2>1 DEF NewGoal
<1> HIDE DEF G, proofs, onOuter, onCallee, lhs, rhs
<1>7. Becomes(G) /\ Notes(g, onOuter, onCallee, proofs, {nextGoal})
  BY <1>1, <1>5, <1>27, ContractNotes DEF Sprouts
<1>8. /\ log.landed \subseteq log'.landed /\ log.by \subseteq log'.by /\ log.keeps \subseteq log'.keeps
  BY <1>7 DEF Notes
<1>9. /\ <<o, "src", os>> \in log'.landed
      /\ <<c, "src", cs>> \in log'.landed /\ <<c, "tgt", ct>> \in log'.landed
  <2>1. /\ <<"src", os>> \in onOuter /\ <<"src", cs>> \in onCallee /\ <<"tgt", ct>> \in onCallee
    BY DEF onOuter, onCallee
  <2>2. /\ \A s, p : <<s, p>> \in onOuter => <<o, s, p>> \in log'.landed
        /\ \A s, p : <<s, p>> \in onCallee => <<c, s, p>> \in log'.landed
    BY <1>7 DEF Notes
  <2> HIDE DEF o, c
  <2> QED
    BY <2>1, <2>2
<1>10. \A e \in log'.by \ log.by : e = <<o, os>> \/ e = <<c, kept>>
  BY <1>7 DEF Notes, proofs
<1>11. /\ Come(tree, tree', nextGoal) /\ DOMAIN tree' = DOMAIN tree \cup {nextGoal, nextGoal + 1}
       /\ tree'[o].hist = O[o].hist /\ tree'[c].hist = H[c].hist
       /\ \A y \in DOMAIN tree \ {o, c} : tree'[y].hist = tree[y].hist
  BY <1>2, <1>4, <1>7, <1>27 DEF Becomes, Contract, SameGoals, Sprouts
<1>32. /\ nextGoal \in tree'[c].children \cap log'.keeps
       /\ tree'[nextGoal].role = "lhs" /\ FirstOf(tree', nextGoal, "tgt") = kept
       /\ Sprung(tree'[nextGoal].hist) /\ Sprung(tree'[nextGoal + 1].hist)
  <2>1. /\ nextGoal \in DOMAIN G /\ nextGoal + 1 \in DOMAIN G /\ c \in DOMAIN G
        /\ nextGoal \in G[c].children /\ G[nextGoal] = lhs /\ G[nextGoal + 1] = rhs
    BY <1>2, <1>4, <1>27 DEF Sprouts, Contract, SameGoals
  <2>2. /\ tree'[c].children = G[c].children
        /\ tree'[nextGoal].role = lhs.role /\ tree'[nextGoal].hist = lhs.hist
        /\ tree'[nextGoal + 1].hist = rhs.hist
    BY <1>7, <2>1 DEF Becomes, SameGoals
  <2>3. nextGoal \in log'.keeps
    BY <1>7 DEF Notes
  <2> QED
    BY <1>27, <1>31, <2>1, <2>2, <2>3 DEF FirstOf
<1>12. PICK by : Halves(g, FALSE, TRUE, by)
  BY <1>1, <1>11, ContractAdds
<1>13. by \in SUBSET (Nat \X Programs)
  BY <1>12, NamesAre DEF Halves
<1>14. /\ Follows(o, effects[o], tree[o].hist, log.landed, effects'[o], tree'[o].hist, log'.landed, {})
       /\ Stepwise(effects'[o], tree'[o].hist, os)
  BY <1>1, <1>3, <1>8, <1>11, <1>12, OuterTold
<1> HIDE DEF O
<1>15. Agreed(O, Strengthened(O, c, cs, ct), c, cs, ct, log'.landed, by)
  <2>1. Lands({c}, log.landed, log'.landed)
    BY <1>8 DEF Lands
  <2>2. O[c].hist = tree[c].hist
    BY <1>2, <1>6
  <2> HIDE DEF c, o
  <2> QED
    BY <1>2, <1>6, <1>9, <1>13, <2>1, <2>2, AgreedIs
<1>16. /\ tree'[c].hist["src"] = tree[c].hist["src"] \o <<cs>>
       /\ tree'[c].hist["tgt"] = tree[c].hist["tgt"] \o <<ct>>
       /\ Along(c, effects[c] \o <<Both(cs, ct, by)>>, H, log'.landed, by)
  BY <1>11, <1>15, <1>26 DEF Agreed
<1>17. Gained(c, "src") = <<cs>> /\ Gained(c, "tgt") = <<ct>>
  <2>1. tree[c].hist["src"] \in Seq(Programs) /\ tree[c].hist["tgt"] \in Seq(Programs)
    BY <1>2, LogShape DEF Typed, Goals
  <2>2. <<cs>> \in Seq(Programs) /\ <<ct>> \in Seq(Programs)
    OBVIOUS
  <2> QED
    BY <1>16, <2>1, <2>2, GainedIs
<1>28. Opens(tree', c, nextGoal) \in Effects /\ Opens(tree', c, nextGoal).effect = "split"
  <2>1. Typed(tree') /\ c \in DOMAIN tree' /\ nextGoal \in Nat
    BY <1>2, <1>11, LogShape DEF Come
  <2> HIDE DEF c
  <2> QED
    BY <2>1, OpensIs
<1>18. effects'[c] = Append(effects[c] \o <<Both(cs, ct, by)>>, Opens(tree', c, nextGoal))
  BY <1>1, <1>12, <1>17, <1>28, CalleeSays
<1>19. Follows(c, effects[c], tree[c].hist, log.landed, effects'[c], tree'[c].hist, log'.landed, by)
  <2> DEFINE fs == effects[c] \o <<Both(cs, ct, by)>>
             e  == Opens(tree', c, nextGoal)
  <2>1. Follows(c, effects[c], tree[c].hist, log.landed, fs, H[c].hist, log'.landed, by)
    BY <1>16 DEF Along
  <2>2. e \in Effects /\ e.effect = "split" /\ effects'[c] = Append(fs, e)
    BY <1>18, <1>28
  <2> HIDE DEF fs, e, c
  <2> QED
    BY <1>11, <2>1, <2>2, FollowsSplit
<1>20. \A e \in log'.by \ log.by : ProofStands(tree', effects', log', e)
  BY <1>9, <1>10, <1>14, <1>32 DEF ProofStands
<1> HIDE DEF o, c
<1>21. \A y \in DOMAIN tree' \ DOMAIN tree : Sprung(tree'[y].hist)
  BY <1>11, <1>32
<1> QED
  BY <1>1, <1>8, <1>11, <1>12, <1>14, <1>19, <1>20, <1>21, ContractedIs DEF o, c

-----------------------------------------------------------------------------
(* A settled session has a certificate.                                    *)

LEMMA TalliedAccounts ==
  ASSUME NEW c, NEW by, Tallied(c, by)
  PROVE  Accounted'
<1>1. DOMAIN effects' = DOMAIN tree'
  BY DEF Tallied
<1>2. ASSUME NEW x \in DOMAIN tree'
      PROVE  Tells(x, effects'[x], tree'[x].hist, log'.landed)
  <2>1. CASE x \in DOMAIN tree
    BY <1>2, <2>1 DEF Tallied, Follows
  <2>2. CASE x \notin DOMAIN tree
    BY <1>2, <2>2 DEF Tallied
  <2> QED
    BY <2>1, <2>2
<1> QED
  BY <1>1, <1>2 DEF Accounted

\* The undo of a split is one of three.
Undoes(g) == Undone(g) /\ (Uncut(g) \/ Uninterpose(g) \/ Uncase(g))

\* A step of the certificate is a step of the session, and one of three kinds.
LEMMA CNextNext ==
  ASSUME CNext
  PROVE  Next
<1>1. ~broken
  BY DEF CNext
<1>2. PICK g \in DOMAIN tree :
        \/ "revert" \in Moves /\ \E side \in Sides, p \in Programs : Revert(g, side, p)
        \/ "rewrite" \in Moves /\ \E p \in Programs : Rewrite(g, p)
        \/ Cut(g)
        \/ "interpose" \in Moves /\ \E p \in Programs : InterposeProgram(g, p)
        \/ "case" \in Moves /\ Case(g)
        \/ "undo" \in Moves /\ (Uncut(g) \/ Uninterpose(g) \/ Uncase(g))
        \/ "strengthen" \in Moves /\ (Strengthen(g) \/ StrengthenLoop(g) \/ StrengthenReturn(g))
        \/ "nested" \in Moves /\ StrengthenNested(g)
        \/ "check" \in Moves /\ CheckProves(g)
  BY DEF CNext
<1> QED
  BY <1>1, <1>2, Zenon DEF Next

LEMMA CNextIs ==
  ASSUME TreeInv, TreeInv', Accounted, CNext
  PROVE  Plainly \/ \E g \in DOMAIN tree : Undoes(g) \/ Contracted(g)
<1>1. PICK g \in DOMAIN tree :
        \/ \E side \in Sides, p \in Programs : Revert(g, side, p) /\ AddsTo(g, Back(side, p))
        \/ \E p \in Programs : Rewrite(g, p) /\ AddsTo(g, Step("src", p))
        \/ /\ Cut(g) \/ (\E p \in Programs : InterposeProgram(g, p)) \/ Case(g)
           /\ AddsTo(g, Opens(tree', g, nextGoal))
        \/ (Uncut(g) \/ Uninterpose(g) \/ Uncase(g)) /\ Adds(Nothing)
        \/ Strengthen(g) /\ AddsContract(g, FALSE, FALSE)
        \/ StrengthenLoop(g) /\ AddsContract(g, FALSE, FALSE)
        \/ StrengthenReturn(g) /\ AddsContract(g, TRUE, FALSE)
        \/ StrengthenNested(g) /\ AddsContract(g, FALSE, TRUE)
        \/ CheckProves(g) /\ Adds(Nothing)
  BY DEF CNext
<1>2. CASE \E side \in Sides, p \in Programs : Revert(g, side, p) /\ AddsTo(g, Back(side, p))
  BY <1>2, RevertPlain
<1>3. CASE \E p \in Programs : Rewrite(g, p) /\ AddsTo(g, Step("src", p))
  BY <1>3, RewritePlain
<1>4. CASE /\ Cut(g) \/ (\E p \in Programs : InterposeProgram(g, p)) \/ Case(g)
           /\ AddsTo(g, Opens(tree', g, nextGoal))
  BY <1>4, OpenPlain
<1>5. CASE (Uncut(g) \/ Uninterpose(g) \/ Uncase(g)) /\ Adds(Nothing)
  BY <1>5, UndoIs DEF Undoes
<1>6. CASE Strengthen(g) /\ AddsContract(g, FALSE, FALSE)
  BY <1>6, StrengthenContracts
<1>7. CASE StrengthenLoop(g) /\ AddsContract(g, FALSE, FALSE)
  BY <1>7, StrengthenLoopContracts
<1>8. CASE StrengthenReturn(g) /\ AddsContract(g, TRUE, FALSE)
  BY <1>8, StrengthenReturnContracts
<1>9. CASE StrengthenNested(g) /\ AddsContract(g, FALSE, TRUE)
  BY <1>9, StrengthenNestedContracts
<1>10. CASE CheckProves(g) /\ Adds(Nothing)
  BY <1>10, CheckPlain
<1> QED
  BY <1>1, <1>2, <1>3, <1>4, <1>5, <1>6, <1>7, <1>8, <1>9, <1>10

\* The log tells of every goal, and the other child of each split is there.
AccountInv == TreeInv /\ Accounted /\ Twins(tree)

LEMMA AccountKept ==
  ASSUME AccountInv, CNext
  PROVE  AccountInv'
<1>1. TreeInv /\ Accounted /\ Twins(tree)
  BY DEF AccountInv
<1>2. TreeInv'
  BY <1>1, CNextNext, NextKeeps
<1>3. CASE Plainly
  <2>1. Accounted'
    BY <1>3, TalliedAccounts DEF Plainly
  <2>2. Twins(tree')
    BY <1>1, <1>3 DEF Plainly, Come, Grows
  <2> QED
    BY <1>2, <2>1, <2>2 DEF AccountInv
<1>4. CASE \E g \in DOMAIN tree : Undoes(g)
  <2>1. PICK g \in DOMAIN tree : Undone(g)
    BY <1>4 DEF Undoes
  <2>2. Accounted'
    BY <2>1, TalliedAccounts DEF Undone
  <2>3. Twins(tree')
    BY <1>1, <2>1, LogShape, UndoneTwins DEF Undone
  <2> QED
    BY <1>2, <2>2, <2>3 DEF AccountInv
<1>5. CASE \E g \in DOMAIN tree : Contracted(g)
  <2>1. PICK c, by : Onwards(c, by)
    BY <1>5 DEF Contracted
  <2>2. Accounted'
    BY <2>1, TalliedAccounts DEF Onwards
  <2>3. Twins(tree')
    BY <1>1, <2>1 DEF Onwards, Come, Grows
  <2> QED
    BY <1>2, <2>2, <2>3 DEF AccountInv
<1> QED
  BY <1>1, <1>2, <1>3, <1>4, <1>5, CNextIs

LEMMA AccountBegins ==
  ASSUME CInit
  PROVE  AccountInv
<1>1. Init /\ effects = [g \in DOMAIN tree |-> <<>>]
  BY DEF CInit
<1>2. TreeInv
  BY <1>1, InitHolds
<1>3. PICK pair \in Asked : tree = Start(pair[1], pair[2])
  BY <1>1 DEF Init
<1>4. pair[1] \in Programs /\ pair[2] \in Programs
  BY InputsArePrograms
<1>5. DOMAIN tree = {Root} /\ tree[Root] = NewGoal(NoGoal, "root", "none", pair[1], pair[2])
  BY <1>3 DEF Start
<1>6. Sprung(tree[Root].hist)
  BY <1>4, <1>5, NewGoalSprung
<1>7. Accounted
  <2>1. DOMAIN effects = DOMAIN tree /\ effects[Root] = <<>>
    BY <1>1, <1>5
  <2>2. Tells(Root, <<>>, tree[Root].hist, log.landed)
    BY <1>6, TellsNew DEF Sprung
  <2> QED
    BY <1>5, <2>1, <2>2 DEF Accounted
<1>8. Twins(tree)
  <2>1. tree[Root].children = {}
    BY <1>5 DEF NewGoal
  <2> QED
    BY <1>5, <2>1 DEF Twins, HasRole
<1> QED
  BY <1>2, <1>7, <1>8 DEF AccountInv

\* A settled session has a certificate, whatever was reverted, split, undone and strengthened
\* since: the log accounts for every program of every goal the root rests on, in a chain the
\* kernel can walk, and the parts of each goal are there (manifest.ts chainOf, childOf).
THEOREM CertificateExported == CSpec => []Exported
<1>1. CInit => AccountInv
  BY AccountBegins
<1>2. AccountInv /\ [CNext]_cvars => AccountInv'
  <2>1. CASE CNext
    BY <2>1, AccountKept
  <2>2. ASSUME AccountInv, UNCHANGED cvars PROVE AccountInv'
    BY <2>2 DEF AccountInv, TreeInv, Accounted, cvars, vars
  <2> QED
    BY <2>1, <2>2
<1>3. AccountInv => Exported
  BY LogShape, AccountedExported DEF AccountInv
<1> QED
  BY <1>1, <1>2, <1>3, PTL DEF CSpec

-----------------------------------------------------------------------------
(* The proofs of contracts.                                                *)

LEMMA ChildIs ==
  ASSUME NEW G, Typed(G), Linked(G), NEW x \in DOMAIN G, NEW role, HasRole(G, x, role)
  PROVE  /\ Child(G, x, role) \in G[x].children /\ Child(G, x, role) \in DOMAIN G
         /\ G[Child(G, x, role)].role = role
         /\ \A d \in G[x].children : G[d].role = role => Child(G, x, role) <= d
<1>1. G[x].children \subseteq DOMAIN G /\ DOMAIN G \subseteq Nat
  BY DEF Linked, Typed
<1> DEFINE T == {c \in G[x].children : G[c].role = role}
<1>2. T \subseteq Nat /\ T # {}
  BY <1>1 DEF HasRole
<1>3. PICK c \in T : \A d \in T : c <= d
  <2> HIDE DEF T
  <2> QED
    BY <1>2, NatMin
<1>4. \E e \in G[x].children : G[e].role = role /\ \A d \in G[x].children : G[d].role = role => e <= d
  BY <1>3
<1> QED
  BY <1>1, <1>4 DEF Child

\* y is x, or the first outer of the cut x is the callee of.
Near(G, x, y) ==
  \/ y = x
  \/ /\ G[x].role = "callee" /\ G[x].parent \in DOMAIN G
     /\ y \in G[G[x].parent].children /\ G[y].role = "outer"
     /\ \A d \in G[G[x].parent].children : G[d].role = "outer" => y <= d

\* Every proof the log has of a contract is there, and a contract names those of its goal
\* and of the outer beside it.
ProofsThere == \A e \in log.by : ProofStands(tree, effects, log, e)

NamesNear == \A x \in DOMAIN tree : \A e \in Named(effects[x]) : e \in log.by /\ Near(tree, x, e[1])

ContractInv == ProofsThere /\ NamesNear

LEMMA NearOn ==
  ASSUME TreeInv, Come(tree, tree', nextGoal), NEW x \in DOMAIN tree, NEW y \in DOMAIN tree,
         Near(tree, x, y)
  PROVE  Near(tree', x, y)
<1>1. CASE y = x
  BY <1>1 DEF Near
<1>2. CASE y # x
  <2> DEFINE p == tree[x].parent
  <2>1. /\ tree[x].role = "callee" /\ p \in DOMAIN tree
        /\ y \in tree[p].children /\ tree[y].role = "outer"
        /\ \A d \in tree[p].children : tree[d].role = "outer" => y <= d
    BY <1>2 DEF Near
  <2>2. /\ tree'[x].role = "callee" /\ tree'[x].parent = p /\ tree'[y].role = "outer"
        /\ tree[p].children \subseteq tree'[p].children /\ p \in DOMAIN tree'
        /\ \A d \in tree'[p].children \ tree[p].children : nextGoal <= d
        /\ \A d \in DOMAIN tree : tree'[d].role = tree[d].role
    BY <2>1 DEF Come, Grows
  <2>3. \A d \in tree[p].children : d \in DOMAIN tree
    BY <2>1, LogShape DEF Linked
  <2>4. y < nextGoal /\ y \in Nat /\ nextGoal \in Nat /\ \A d \in DOMAIN tree' : d \in Nat
    BY LogShape DEF Typed, Come
  <2>5. \A d \in tree'[p].children : d \in DOMAIN tree'
    BY <2>2 DEF Come, Linked
  <2>6. ASSUME NEW d \in tree'[p].children, tree'[d].role = "outer"
        PROVE  y <= d
    <3>1. CASE d \in tree[p].children
      BY <2>1, <2>2, <2>3, <2>6, <3>1
    <3>2. CASE d \notin tree[p].children
      BY <2>2, <2>4, <2>5, <2>6, <3>2
    <3> QED
      BY <3>1, <3>2
  <2> HIDE DEF p
  <2>7. /\ tree'[x].role = "callee" /\ tree'[x].parent = p /\ p \in DOMAIN tree'
        /\ y \in tree'[p].children /\ tree'[y].role = "outer"
        /\ \A d \in tree'[p].children : tree'[d].role = "outer" => y <= d
    BY <2>1, <2>2, <2>6 DEF p
  <2> QED
    BY <2>7 DEF Near
<1> QED
  BY <1>1, <1>2

\* A proof of a contract stays, as the goals go on.
LEMMA StandsOn ==
  ASSUME TreeInv, Come(tree, tree', nextGoal), NEW c, NEW by, Tallied(c, by),
         log.landed \subseteq log'.landed, log.keeps \subseteq log'.keeps,
         NEW e \in log.by, ProofStands(tree, effects, log, e)
  PROVE  ProofStands(tree', effects', log', e)
<1> DEFINE y == e[1]
<1>1. y \in DOMAIN tree
  BY LogShape, ProofsNamed
<1>2. DOMAIN tree \subseteq DOMAIN tree'
  BY DEF Come, Grows
<1>3. CASE <<y, "src", e[2]>> \in log.landed /\ Stepwise(effects[y], tree[y].hist, e[2])
  <2>1. Follows(y, effects[y], tree[y].hist, log.landed, effects'[y], tree'[y].hist, log'.landed,
                IF y = c THEN by ELSE {})
    BY <1>1, <1>2 DEF Tallied
  <2>2. Stepwise(effects'[y], tree'[y].hist, e[2])
    BY <1>3, <2>1 DEF Follows
  <2> QED
    BY <1>3, <2>2 DEF ProofStands
<1>4. CASE \E l \in tree[y].children \cap log.keeps : tree[l].role = "lhs" /\ FirstOf(tree, l, "tgt") = e[2]
  <2>1. PICK l \in tree[y].children \cap log.keeps :
          tree[l].role = "lhs" /\ FirstOf(tree, l, "tgt") = e[2]
    BY <1>4
  <2>2. l \in DOMAIN tree /\ "tgt" \in Sides
    BY <1>1, LogShape DEF Linked, Sides
  <2>3. l \in tree'[y].children /\ tree'[l].role = "lhs" /\ tree'[l].hist["tgt"][1] = tree[l].hist["tgt"][1]
    BY <1>1, <2>1, <2>2 DEF Come, Grows
  <2> QED
    BY <2>1, <2>3 DEF ProofStands, FirstOf
<1> QED
  BY <1>3, <1>4 DEF ProofStands

\* Nor does an undo take one back, of a goal it leaves, ...
LEMMA StandsUndone ==
  ASSUME TreeInv, NEW g \in DOMAIN tree, Undoes(g), ~TakesBackProof,
         NEW e \in log'.by, ProofStands(tree, effects, log, e)
  PROVE  ProofStands(tree', effects', log', e)
<1> DEFINE y == e[1]
<1>1. /\ UnsplitOf(tree, tree', g) /\ Lands(DOMAIN tree', log.landed, log'.landed)
      /\ log'.keeps = log.keeps \cap DOMAIN tree' /\ Tallied(NoGoal, {})
      /\ e \in log.by /\ y \in DOMAIN tree'
  BY DEF Undoes, Undone
<1>2. y \in DOMAIN tree /\ "src" \in Sides /\ e[2] \in Programs
  BY <1>1, LogShape, LogIs DEF UnsplitOf, Sides
<1>3. CASE <<y, "src", e[2]>> \in log.landed /\ Stepwise(effects[y], tree[y].hist, e[2])
  <2>1. Follows(y, effects[y], tree[y].hist, log.landed, effects'[y], tree'[y].hist, log'.landed,
                IF y = NoGoal THEN {} ELSE {})
    BY <1>1, <1>2 DEF Tallied
  <2>2. Stepwise(effects'[y], tree'[y].hist, e[2])
    BY <1>3, <2>1 DEF Follows
  <2>3. <<y, "src", e[2]>> \in log'.landed
    BY <1>1, <1>2, <1>3 DEF Lands
  <2> QED
    BY <2>2, <2>3 DEF ProofStands
<1>4. CASE \E l \in tree[y].children \cap log.keeps : tree[l].role = "lhs" /\ FirstOf(tree, l, "tgt") = e[2]
  <2>1. PICK l \in tree[y].children \cap log.keeps :
          tree[l].role = "lhs" /\ FirstOf(tree, l, "tgt") = e[2]
    BY <1>4
  <2>2. tree[g] \in Goals
    BY LogShape DEF Typed
  <2>3. y # g
    <3> SUFFICES ASSUME y = g PROVE FALSE
      OBVIOUS
    <3>1. InterposedByStrengthen(g) /\ Interposed(tree, g)
      BY <2>1 DEF InterposedByStrengthen, Interposed, HasRole
    <3>2. tree'[g].children = {} /\ tree[g].children # {}
      BY <1>1, <2>1, <2>2 DEF UnsplitOf, Goals
    <3>3. ~CanUncase(tree, g) \/ ~Uncase(g)
      BY <3>1 DEF TakesBackProof
    <3>4. ~Uncut(g) /\ ~Uninterpose(g)
      BY <3>1 DEF Uncut, CanUncut, Uninterpose
    <3>5. Uncase(g) /\ ~CanUncase(tree, g)
      BY <3>3, <3>4 DEF Undoes
    <3>6. tree' = tree
      BY <3>5 DEF Uncase, LandUnsplit
    <3> QED
      BY <3>2, <3>6
  <2>4. tree'[y] = tree[y] /\ Linked(tree')
    BY <1>1, <2>3 DEF UnsplitOf
  <2>5. l \in tree'[y].children /\ l \in DOMAIN tree'
    BY <1>1, <2>1, <2>4 DEF Linked
  <2>6. tree'[l].role = tree[l].role /\ tree'[l].hist = tree[l].hist
    BY <1>1, <2>2, <2>5 DEF UnsplitOf, Goals
  <2> QED
    BY <1>1, <2>1, <2>5, <2>6 DEF ProofStands, FirstOf
<1> QED
  BY <1>3, <1>4 DEF ProofStands

\* ... and it leaves both halves of a cut or none.
LEMMA NearUndone ==
  ASSUME TreeInv, NEW g \in DOMAIN tree, UnsplitOf(tree, tree', g),
         NEW x \in DOMAIN tree', NEW y, Near(tree, x, y)
  PROVE  Near(tree', x, y) /\ y \in DOMAIN tree'
<1>1. CASE y = x
  BY <1>1 DEF Near
<1>2. CASE y # x
  <2> DEFINE p == tree[x].parent
  <2>1. /\ tree[x].role = "callee" /\ p \in DOMAIN tree
        /\ y \in tree[p].children /\ tree[y].role = "outer"
        /\ \A d \in tree[p].children : tree[d].role = "outer" => y <= d
    BY <1>2 DEF Near
  <2>2. tree[g] \in Goals /\ p # NoGoal
    BY <2>1, LogShape DEF Typed
  <2>3. /\ Linked(tree') /\ tree'[g].children = {}
        /\ \A d \in DOMAIN tree' : tree'[d].parent = tree[d].parent /\ tree'[d].role = tree[d].role
        /\ \A d \in DOMAIN tree' \ {g} : tree'[d].children = tree[d].children
    BY <2>2 DEF UnsplitOf, Goals
  <2> HIDE DEF p
  <2>4. tree'[x].parent = p
    BY <2>3 DEF p
  <2>5. p \in DOMAIN tree' /\ x \in tree'[p].children
    BY <2>2, <2>3, <2>4 DEF Linked
  <2>6. tree'[p].children = tree[p].children
    BY <2>3, <2>5
  <2>7. \A d \in tree[p].children : d \in DOMAIN tree'
    BY <2>3, <2>5, <2>6 DEF Linked
  <2>8. /\ tree'[x].role = "callee" /\ y \in tree'[p].children /\ tree'[y].role = "outer"
        /\ \A d \in tree'[p].children : tree'[d].role = "outer" => y <= d
    BY <2>1, <2>3, <2>6, <2>7
  <2> QED
    BY <2>1, <2>4, <2>5, <2>7, <2>8 DEF Near
<1> QED
  BY <1>1, <1>2

\* What a contract names in the next state.
LEMMA NamedOn ==
  ASSUME NEW c, NEW by, Tallied(c, by), NEW x \in DOMAIN tree', NEW e \in Named(effects'[x])
  PROVE  x \in DOMAIN tree /\ (e \in Named(effects[x]) \/ (x = c /\ e \in by))
<1>1. CASE x \in DOMAIN tree
  <2>1. Follows(x, effects[x], tree[x].hist, log.landed, effects'[x], tree'[x].hist, log'.landed,
                IF x = c THEN by ELSE {})
    BY <1>1 DEF Tallied
  <2>2. Named(effects'[x]) \subseteq Named(effects[x]) \cup (IF x = c THEN by ELSE {})
    BY <2>1 DEF Follows
  <2> QED
    BY <1>1, <2>2
<1>2. CASE x \notin DOMAIN tree
  <2>1. effects'[x] = <<>>
    BY <1>2 DEF Tallied
  <2> QED
    BY <2>1, NamedNothing
<1> QED
  BY <1>1, <1>2

LEMMA ContractsGoOn ==
  ASSUME TreeInv, ContractInv, Come(tree, tree', nextGoal), NEW c, NEW by, Tallied(c, by),
         log.landed \subseteq log'.landed, log.by \subseteq log'.by, log.keeps \subseteq log'.keeps,
         \A e \in log'.by \ log.by : ProofStands(tree', effects', log', e),
         by \subseteq log'.by, c \in DOMAIN tree \/ by = {},
         \A e \in by : e[1] \in DOMAIN tree /\ Near(tree, c, e[1])
  PROVE  ContractInv'
<1>1. ASSUME NEW e \in log'.by
      PROVE  ProofStands(tree', effects', log', e)
  <2>1. CASE e \in log.by
    <3>1. ProofStands(tree, effects, log, e)
      BY <2>1 DEF ContractInv, ProofsThere
    <3> QED
      BY <2>1, <3>1, StandsOn
  <2> QED
    BY <1>1, <2>1
<1>2. ASSUME NEW x \in DOMAIN tree', NEW e \in Named(effects'[x])
      PROVE  e \in log'.by /\ Near(tree', x, e[1])
  <2>1. x \in DOMAIN tree /\ (e \in Named(effects[x]) \/ (x = c /\ e \in by))
    BY <1>2, NamedOn
  <2>2. CASE e \in Named(effects[x])
    <3>1. e \in log.by /\ Near(tree, x, e[1])
      BY <2>1, <2>2 DEF ContractInv, NamesNear
    <3>2. e[1] \in DOMAIN tree
      BY <3>1, LogShape, ProofsNamed
    <3> QED
      BY <2>1, <3>1, <3>2, NearOn
  <2>3. CASE x = c /\ e \in by
    BY <2>1, <2>3, NearOn
  <2> QED
    BY <2>1, <2>2, <2>3
<1> QED
  BY <1>1, <1>2 DEF ContractInv, ProofsThere, NamesNear

LEMMA ContractsUndone ==
  ASSUME TreeInv, ContractInv, NEW g \in DOMAIN tree, Undoes(g), ~TakesBackProof
  PROVE  ContractInv'
<1>1. /\ UnsplitOf(tree, tree', g) /\ Tallied(NoGoal, {})
      /\ log'.by = {e \in log.by : e[1] \in DOMAIN tree'}
  BY DEF Undoes, Undone
<1>2. ASSUME NEW e \in log'.by
      PROVE  ProofStands(tree', effects', log', e)
  <2>1. ProofStands(tree, effects, log, e)
    BY <1>1 DEF ContractInv, ProofsThere
  <2> QED
    BY <2>1, StandsUndone
<1>3. ASSUME NEW x \in DOMAIN tree', NEW e \in Named(effects'[x])
      PROVE  e \in log'.by /\ Near(tree', x, e[1])
  <2>1. x \in DOMAIN tree /\ e \in Named(effects[x])
    BY <1>1, NamedOn
  <2>2. e \in log.by /\ Near(tree, x, e[1])
    BY <2>1 DEF ContractInv, NamesNear
  <2>3. Near(tree', x, e[1]) /\ e[1] \in DOMAIN tree'
    BY <1>1, <2>2, NearUndone
  <2> QED
    BY <1>1, <2>2, <2>3
<1> QED
  BY <1>2, <1>3 DEF ContractInv, ProofsThere, NamesNear

LEMMA ContractKept ==
  ASSUME AccountInv, ContractInv, CNext, ~TakesBackProof
  PROVE  AccountInv' /\ ContractInv'
<1>1. TreeInv /\ Accounted /\ AccountInv'
  BY AccountKept DEF AccountInv
<1>2. TreeInv'
  BY <1>1 DEF AccountInv
<1>3. CASE Plainly
  BY <1>1, <1>3, ContractsGoOn DEF Plainly
<1>4. CASE \E g \in DOMAIN tree : Undoes(g)
  BY <1>1, <1>4, ContractsUndone
<1>5. CASE \E g \in DOMAIN tree : Contracted(g)
  <2>1. PICK g \in DOMAIN tree : Contracted(g)
    BY <1>5
  <2>2. PICK by : Onwards(Callee(g), by) /\ \A e \in by : e[1] \in {Outer(g), Callee(g)}
    BY <2>1 DEF Contracted
  <2>3. CanStrengthen(g)
    BY <2>1 DEF Contracted
  <2>4. /\ Outer(g) \in DOMAIN tree /\ Callee(g) \in DOMAIN tree
        /\ Outer(g) \in tree[g].children /\ tree[Outer(g)].role = "outer"
        /\ Callee(g) \in tree[g].children /\ tree[Callee(g)].role = "callee"
    BY <1>1, <2>3, HalvesAre
  <2>5. tree[Callee(g)].parent = g
    BY <1>1, <2>4, LogShape DEF Linked
  <2>6. \A d \in tree[g].children : tree[d].role = "outer" => Outer(g) <= d
    <3>1. HasRole(tree, g, "outer")
      BY <2>4 DEF HasRole
    <3> QED
      BY <1>1, <3>1, LogShape, ChildIs DEF Outer
  <2>7. \A e \in by : e[1] \in DOMAIN tree /\ Near(tree, Callee(g), e[1])
    BY <2>2, <2>4, <2>5, <2>6 DEF Near
  <2> HIDE DEF Callee
  <2> QED
    BY <1>1, <2>2, <2>4, <2>7, ContractsGoOn DEF Onwards
<1> QED
  BY <1>1, <1>2, <1>3, <1>4, <1>5, CNextIs

LEMMA ContractBegins ==
  ASSUME CInit
  PROVE  ContractInv
<1>1. log.by = {}
  BY DEF CInit, Init, EmptyLog
<1>2. \A x \in DOMAIN tree : effects[x] = <<>>
  BY DEF CInit
<1> QED
  BY <1>1, <1>2, NamedNothing DEF ContractInv, ProofsThere, NamesNear

-----------------------------------------------------------------------------
(* The goals a certificate holds.                                          *)

LEMMA PartsAre ==
  ASSUME AccountInv, NEW x \in DOMAIN tree, NEW y \in Parts(x)
  PROVE  /\ y \in DOMAIN tree /\ y \in tree[x].children /\ tree[y].role \in RolesUsed(x)
         /\ tree[y].parent = x
<1>1. Typed(tree) /\ Linked(tree) /\ Paired(tree) /\ Twins(tree)
  BY LogShape DEF AccountInv
<1>2. PICK role \in RolesUsed(x) : y = Child(tree, x, role)
  BY DEF Parts
<1>3. HasRole(tree, x, role)
  BY <1>1, RolesThere
<1>4. y \in tree[x].children /\ y \in DOMAIN tree /\ tree[y].role = role
  BY <1>1, <1>2, <1>3, ChildIs
<1>5. tree[y].parent = x
  BY <1>1, <1>4 DEF Linked
<1> QED
  BY <1>4, <1>5

LEMMA IncludedPart ==
  ASSUME AccountInv, NEW x \in Included, NEW y \in Parts(x)
  PROVE  y \in Included
<1>1. x \in DOMAIN tree
  BY DEF Included
<1>2. y \in DOMAIN tree
  BY <1>1, PartsAre
<1>3. ASSUME NEW S \in SUBSET DOMAIN tree, Root \in S /\ (\A z \in S : Parts(z) \subseteq S)
      PROVE  y \in S
  <2>1. x \in S
    BY <1>3 DEF Included
  <2> QED
    BY <1>3, <2>1
<1> QED
  BY <1>2, <1>3 DEF Included

LEMMA IncludedFrom ==
  ASSUME AccountInv, NEW x \in Included, x # Root
  PROVE  \E y \in Included : x \in Parts(y)
<1> DEFINE S == Included \ {x}
<1>1. SUFFICES ASSUME \A y \in Included : x \notin Parts(y) PROVE FALSE
  OBVIOUS
<1>2. Root \in Included
  <2>1. Root \in DOMAIN tree
    BY LogShape DEF AccountInv, Typed
  <2> QED
    BY <2>1 DEF Included
<1>3. S \in SUBSET DOMAIN tree /\ Root \in S
  BY <1>2 DEF Included
<1>4. \A z \in S : Parts(z) \subseteq S
  BY <1>1, IncludedPart
<1>5. x \in S
  <2> HIDE DEF S
  <2> QED
    BY <1>3, <1>4 DEF Included
<1> QED
  BY <1>5

\* With the callee of a cut the certificate holds the outer.
LEMMA NearIncluded ==
  ASSUME AccountInv, NEW x \in Included, NEW y, Near(tree, x, y)
  PROVE  y \in Included
<1>1. CASE y = x
  BY <1>1
<1>2. CASE y # x
  <2>1. /\ tree[x].role = "callee" /\ tree[x].parent \in DOMAIN tree
        /\ y \in tree[tree[x].parent].children /\ tree[y].role = "outer"
        /\ \A d \in tree[tree[x].parent].children : tree[d].role = "outer" => y <= d
    BY <1>2 DEF Near
  <2>2. Typed(tree) /\ Linked(tree)
    BY LogShape DEF AccountInv
  <2>3. x # Root
    BY <2>1, <2>2 DEF Typed, Linked
  <2>4. PICK p \in Included : x \in Parts(p)
    BY <2>3, IncludedFrom
  <2>5. p \in DOMAIN tree
    BY DEF Included
  <2>6. tree[x].parent = p /\ "callee" \in RolesUsed(p)
    BY <2>1, <2>4, <2>5, PartsAre
  <2>7. "outer" \in RolesUsed(p)
    BY <2>6 DEF RolesUsed
  <2>8. HasRole(tree, p, "outer")
    BY <2>1, <2>6 DEF HasRole
  <2>9. Child(tree, p, "outer") \in Parts(p)
    BY <2>7 DEF Parts
  <2>10. Child(tree, p, "outer") = y
    <3> DEFINE z == Child(tree, p, "outer")
    <3>1. /\ z \in tree[p].children /\ z \in DOMAIN tree /\ tree[z].role = "outer"
          /\ \A d \in tree[p].children : tree[d].role = "outer" => z <= d
      BY <2>2, <2>5, <2>8, ChildIs
    <3>2. y \in tree[p].children /\ \A d \in tree[p].children : tree[d].role = "outer" => y <= d
      BY <2>1, <2>6
    <3>3. y \in DOMAIN tree
      BY <2>2, <2>5, <3>2 DEF Linked
    <3>4. y \in Nat /\ z \in Nat
      BY <2>2, <3>1, <3>3 DEF Typed
    <3> HIDE DEF z
    <3>5. z <= y /\ y <= z
      BY <2>1, <3>1, <3>2
    <3>6. z = y
      BY <3>4, <3>5
    <3> QED
      BY <3>6 DEF z
  <2> QED
    BY <2>4, <2>9, <2>10, IncludedPart
<1> QED
  BY <1>1, <1>2

LEMMA ContractsInside ==
  ASSUME AccountInv, ContractInv
  PROVE  ContractsProved
<1>1. SUFFICES ASSUME NEW g \in Included, NEW i \in DOMAIN ChainOf(g).steps,
                      ChainOf(g).steps[i].side = "both", NEW e \in ChainOf(g).steps[i].by
               PROVE  /\ e[1] \in Included
                      /\ \/ \E j \in DOMAIN ChainOf(e[1]).steps :
                              /\ ChainOf(e[1]).steps[j].side = "src"
                              /\ ChainOf(e[1]).steps[j].to = e[2]
                         \/ \E l \in Parts(e[1]) : tree[l].role = "lhs" /\ FirstOf(tree, l, "tgt") = e[2]
                         \/ InterposedTwice(e[1])
  BY DEF ContractsProved
<1>2. g \in DOMAIN tree /\ Accounted
  BY DEF Included, AccountInv
<1>3. ChainWhole(effects[g], tree[g].hist, ChainOf(g))
  BY <1>2, AccountedWhole
<1>4. PICK n \in 1..Len(effects[g]) :
        effects[g][n].effect = "strengthen" /\ effects[g][n].by = ChainOf(g).steps[i].by
  <2>1. DOMAIN ChainOf(g).steps = 1..Len(ChainOf(g).steps)
    BY <1>3 DEF ChainWhole
  <2> QED
    BY <1>1, <1>3, <2>1 DEF ChainWhole
<1>5. e \in Named(effects[g])
  <2>1. effects[g] \in Seq(Effects)
    BY <1>2, AccountedSeq
  <2>2. effects[g][n] \in Effects
    BY <2>1
  <2>3. e \in Nat \X Programs
    BY <1>1, <1>4, <2>2 DEF Effects
  <2> QED
    BY <1>1, <1>4, <2>3 DEF Named
<1>6. e \in log.by /\ Near(tree, g, e[1])
  BY <1>2, <1>5 DEF ContractInv, NamesNear
<1>7. e[1] \in Included /\ e[1] \in DOMAIN tree
  <2>1. e[1] \in Included
    BY <1>6, NearIncluded
  <2> QED
    BY <2>1 DEF Included
<1>8. ProofStands(tree, effects, log, e)
  BY <1>6 DEF ContractInv, ProofsThere
<1>9. CASE Stepwise(effects[e[1]], tree[e[1]].hist, e[2])
  <2>1. ChainWhole(effects[e[1]], tree[e[1]].hist, ChainOf(e[1]))
    BY <1>2, <1>7, AccountedWhole
  <2>2. DOMAIN ChainOf(e[1]).steps = 1..Len(ChainOf(e[1]).steps)
    BY <2>1 DEF ChainWhole
  <2>3. \E j \in 1..Len(ChainOf(e[1]).steps) :
          ChainOf(e[1]).steps[j].side = "src" /\ ChainOf(e[1]).steps[j].to = e[2]
    BY <1>9, <2>1 DEF ChainWhole
  <2> QED
    BY <1>7, <2>2, <2>3
<1>10. CASE \E l \in tree[e[1]].children : tree[l].role = "lhs" /\ FirstOf(tree, l, "tgt") = e[2]
  <2>1. PICK l \in tree[e[1]].children : tree[l].role = "lhs" /\ FirstOf(tree, l, "tgt") = e[2]
    BY <1>10
  <2> DEFINE m == Child(tree, e[1], "lhs")
  <2>2. HasRole(tree, e[1], "lhs")
    BY <2>1 DEF HasRole
  <2>3. "lhs" \in RolesUsed(e[1])
    BY <2>1, <2>2 DEF RolesUsed, Interposed
  <2>4. m \in Parts(e[1])
    BY <2>3 DEF Parts
  <2>5. m \in tree[e[1]].children /\ tree[m].role = "lhs"
    BY <1>7, <2>2, LogShape, ChildIs DEF AccountInv
  <2> HIDE DEF m
  <2>6. CASE l = m
    BY <1>7, <2>1, <2>4, <2>6
  <2>7. CASE l # m
    BY <1>7, <2>1, <2>5, <2>7 DEF InterposedTwice
  <2> QED
    BY <2>6, <2>7
<1> QED
  BY <1>8, <1>9, <1>10 DEF ProofStands

\* A certificate leaves nothing out that its check asks for: each goal's chain is whole and can
\* be walked, and every proof a contract rests on is of a goal the certificate holds, in its
\* chain or at its interpose (manifest.ts, strengthen.ts by, check.py), in every run in which no
\* proof of a contract is taken back.
THEOREM CertificateWhole == CKeptSpec => []ExportedWhole
<1>1. CInit => AccountInv /\ ContractInv
  BY AccountBegins, ContractBegins
<1>2. (AccountInv /\ ContractInv) /\ [CNext /\ ~TakesBackProof]_cvars => (AccountInv /\ ContractInv)'
  <2>1. ASSUME AccountInv, ContractInv, CNext, ~TakesBackProof
        PROVE  AccountInv' /\ ContractInv'
    BY <2>1, ContractKept
  <2>2. ASSUME AccountInv, ContractInv, UNCHANGED cvars
        PROVE  AccountInv' /\ ContractInv'
    BY <2>2 DEF AccountInv, TreeInv, Accounted, ContractInv, ProofsThere, NamesNear, cvars, vars
  <2> QED
    BY <2>1, <2>2
<1>3. AccountInv /\ ContractInv => ExportedWhole
  <2>1. ASSUME AccountInv PROVE Exported
    BY <2>1, LogShape, AccountedExported DEF AccountInv
  <2> QED
    BY <2>1, ContractsInside DEF ExportedWhole
<1> QED
  BY <1>1, <1>2, <1>3, PTL DEF CKeptSpec

=============================================================================
