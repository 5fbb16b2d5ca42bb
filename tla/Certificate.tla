----------------------------- MODULE Certificate -----------------------------
(***************************************************************************)
(* The certificate of a settled session (engine/cert/manifest.ts): for each  *)
(* goal the root rests on, the chain of steps that survived and what         *)
(* discharged it, read off the tree and the effects in the log.             *)
(*                                                                         *)
(* The log is written by the moves of Session. What follows them here is     *)
(* what each appends, goal by goal, since every reader of the effects asks   *)
(* for one goal's and takes them in order. An unfold and a commit append a   *)
(* step as a rewrite does, and are left out. Who checked what, the input     *)
(* of a counterexample and the versions of the tools are copied from the     *)
(* log as they are, and are left out too.                                   *)
(***************************************************************************)
EXTENDS Session

CONSTANT MaxEffects    \* bound: the effects on one goal

ASSUME MaxEffectsAssumption == MaxEffects \in Nat

VARIABLE effects       \* the effects on each goal, in the order they were logged

cvars == <<vars, effects>>

-----------------------------------------------------------------------------
(* What a move logs.                                                       *)

Step(side, to)     == [effect |-> "step", side |-> side, to |-> to]
Back(side, to)     == [effect |-> "revert", side |-> side, to |-> to]
Both(src, tgt, by) ==
  [effect |-> "strengthen", to |-> [s \in Sides |-> IF s = "src" THEN src ELSE tgt], by |-> by]

Steps(side, programs) == [i \in DOMAIN programs |-> Step(side, programs[i])]

\* A split opens the goals `first` and `first + 1` of the pair its goal is at.
Opens(G, g, first) ==
  [effect |-> "split", first |-> first, src |-> HeadOf(G, g, "src"), tgt |-> HeadOf(G, g, "tgt")]

Nothing == [g \in {} |-> <<>>]

\* The move appends said[g] to what was logged of each g.
Adds(said) ==
  LET of(f, g) == IF g \in DOMAIN f THEN f[g] ELSE <<>>
  IN  /\ effects' = [g \in DOMAIN tree' |-> of(effects, g) \o of(said, g)]
      /\ \A g \in DOMAIN effects' : Len(effects'[g]) <= MaxEffects

AddsTo(g, effect) == Adds([x \in {g} |-> <<effect>>])

\* What a move put on a side of a goal.
Gained(g, side) ==
  SubSeq(tree'[g].hist[side], Len(tree[g].hist[side]) + 1, Len(tree'[g].hist[side]))

\* The outer takes steps, or both sides of its return facts at once. The callee takes the
\* contract with the proofs it rests on, and for a loop the proof that it keeps it: one
\* more step, or an interpose.
AddsContract(g, returns, nested) ==
  LET o      == Outer(g)
      c      == Callee(g)
      src(h) == Gained(h, "src")
      tgt(h) == Gained(h, "tgt")
      by     == {e \in log'.by :
                   \/ e[1] \in {o, c} /\ Holds(src(e[1]), e[2])
                   \/ nested /\ e[1] = c /\ e[2] = FirstOf(tree', nextGoal, "tgt")}
  IN  Adds([x \in {o, c} |->
              IF x = c
              THEN <<Both(src(c)[1], tgt(c)[1], by)>> \o Steps("src", Tail(src(c)))
                     \o (IF nested THEN <<Opens(tree', c, nextGoal)>> ELSE <<>>)
              ELSE IF returns THEN <<Both(src(o)[1], tgt(o)[1], {})>>
              ELSE Steps("src", src(o)) \o Steps("tgt", tgt(o))])

CInit == Init /\ effects = [g \in DOMAIN tree |-> <<>>]

CNext ==
  /\ ~broken
  /\ \E g \in DOMAIN tree :
       \/ /\ "revert" \in Moves
          /\ \E side \in Sides, p \in Programs : Revert(g, side, p) /\ AddsTo(g, Back(side, p))
       \/ "rewrite" \in Moves /\ \E p \in Programs : Rewrite(g, p) /\ AddsTo(g, Step("src", p))
       \/ Cut(g) /\ AddsTo(g, Opens(tree', g, nextGoal))
       \/ /\ "interpose" \in Moves
          /\ \E p \in Programs : InterposeProgram(g, p) /\ AddsTo(g, Opens(tree', g, nextGoal))
       \/ "case" \in Moves /\ Case(g) /\ AddsTo(g, Opens(tree', g, nextGoal))
       \/ "undo" \in Moves /\ (Uncut(g) \/ Uninterpose(g) \/ Uncase(g)) /\ Adds(Nothing)
       \/ /\ "strengthen" \in Moves
          /\ \/ (Strengthen(g) \/ StrengthenLoop(g)) /\ AddsContract(g, FALSE, FALSE)
             \/ StrengthenReturn(g) /\ AddsContract(g, TRUE, FALSE)
       \/ "nested" \in Moves /\ StrengthenNested(g) /\ AddsContract(g, FALSE, TRUE)
       \/ "check" \in Moves /\ CheckProves(g) /\ Adds(Nothing)

CSpec == CInit /\ [][CNext]_cvars

\* The runs in which no proof of a contract is taken back.
CKeptSpec == CInit /\ [][CNext /\ ~TakesBackProof]_cvars

-----------------------------------------------------------------------------
(* The manifest.                                                           *)

\* Who made each program a side holds, as <<program, effect>>, by its place in the history:
\* the i-th effect is of a step, of both sides, ...
Pushed(made, e, i) ==
  CASE e.effect = "step"       -> [made EXCEPT ![e.side] = Append(@, <<e.to, i>>)]
    [] e.effect = "strengthen" -> [s \in Sides |-> Append(made[s], <<e.to[s], i>>)]
    [] OTHER                   -> made

\* A bug: what a revert took out of a history is still said to be there.
PlayedOn(made, e, i) == Pushed(made, e, i)

\* ... or takes a side back to the last place that held its program.
Played(made, e, i) ==
  IF e.effect = "revert"
  THEN LET held == [k \in DOMAIN made[e.side] |-> made[e.side][k][1]]
       IN  [made EXCEPT ![e.side] = SubSeq(@, 1, LastIndexOf(held, e.to))]
  ELSE Pushed(made, e, i)

MadeFrom(first, es) ==
  LET made[i \in 0..Len(es)] == IF i = 0 THEN first ELSE Played(made[i - 1], es[i], i)
  IN  made[Len(es)]

FirstMade(hist) == [side \in Sides |-> <<<<hist[side][1], 0>>>>]

MadeBy(g) == MadeFrom(FirstMade(tree[g].hist), effects[g])

\* The chain so far: how far into each history it reaches, and the steps that survived, each
\* with the programs it goes from and to. The i-th effect is the next of it if it made the next
\* program of its side, or of both.
Survives(made, at, side, i) == at[side] < Len(made[side]) /\ made[side][at[side] + 1][2] = i

Chained(made, hist, r, e, i) ==
  CASE e.effect = "step" /\ Survives(made, r.at, e.side, i) ->
         [at    |-> [r.at EXCEPT ![e.side] = @ + 1],
          steps |-> Append(r.steps, [side |-> e.side, from |-> hist[e.side][r.at[e.side]],
                                     to |-> e.to])]
    [] e.effect = "strengthen" /\ \A s \in Sides : Survives(made, r.at, s, i) ->
         [at    |-> [s \in Sides |-> r.at[s] + 1],
          steps |-> Append(r.steps, [side |-> "both", from |-> [s \in Sides |-> hist[s][r.at[s]]],
                                     to |-> e.to, by |-> e.by])]
    [] OTHER -> r

ChainFrom(made, hist, es) ==
  LET chain[i \in 0..Len(es)] ==
        IF i = 0 THEN [at |-> [s \in Sides |-> 1], steps |-> <<>>]
        ELSE Chained(made, hist, chain[i - 1], es[i], i)
  IN  chain[Len(es)]

ChainOf(g) == ChainFrom(MadeBy(g), tree[g].hist, effects[g])

\* The two children a goal is written as discharged by, if it has children at all: those
\* of an interpose first, then those of a split by cases, then those of a cut.
RolesUsed(g) ==
  IF tree[g].children = {} THEN {}
  ELSE IF Interposed(tree, g) THEN {"lhs", "rhs"}
  ELSE IF Cased(tree, g) THEN {"holds", "fails"}
  ELSE {"outer", "callee"}

Parts(g) == {Child(tree, g, role) : role \in RolesUsed(g)}

\* The goals the manifest holds: the root, and the parts of each it holds.
Included ==
  {g \in DOMAIN tree :
     \A S \in SUBSET DOMAIN tree :
       Root \in S /\ (\A x \in S : Parts(x) \subseteq S) => g \in S}

Certified == tree[Root].status = "proved"

-----------------------------------------------------------------------------
(* What has to hold of it.                                                 *)

\* The pair a step of the chain leaves, from the one it is at.
Leaves(at, s) == IF s.side = "both" THEN s.to ELSE [at EXCEPT ![s.side] = s.to]

\* The step is one the kernel can take there: one of a side is one the side allows.
Allowed(at, s) ==
  IF s.side = "both" THEN s.from = at
  ELSE s.from = at[s.side] /\ Certifies(s.side, s.from, s.to)

\* The chain of a goal is one the kernel can walk: each step starts from what the ones
\* before left, and the last leaves the pair that was discharged.
Connected(g) ==
  LET steps == ChainOf(g).steps
      at[i \in 0..Len(steps)] ==
        IF i = 0 THEN [s \in Sides |-> FirstOf(tree, g, s)] ELSE Leaves(at[i - 1], steps[i])
  IN  /\ at[Len(steps)] = [s \in Sides |-> HeadOf(tree, g, s)]
      /\ \A i \in DOMAIN steps : Allowed(at[i - 1], steps[i])

\* A settled session has a certificate (manifest.ts chainOf, childOf, check.py chain): the
\* log accounts for every program of every goal the root rests on, in a chain that holds
\* whatever was reverted since, and the parts of each goal are there.
Exported ==
  Certified => \A g \in Included :
    /\ \A side \in Sides : ChainOf(g).at[side] = Len(tree[g].hist[side])
    /\ \A role \in RolesUsed(g) : HasRole(tree, g, role)
    /\ Connected(g)

InterposedTwice(g) ==
  \E l, m \in tree[g].children : l # m /\ tree[l].role = "lhs" /\ tree[m].role = "lhs"

\* Every proof a contract names is in the certificate with it (strengthen.ts by, check.py
\* proof): a step of the src of a goal it holds, or the program that goal is interposed at. Of
\* a goal that was interposed before the contract the manifest holds the first interpose, as
\* AsProved says below.
ContractsProved ==
  Certified => \A g \in Included : \A i \in DOMAIN ChainOf(g).steps :
    LET s == ChainOf(g).steps[i]
    IN  s.side = "both" => \A e \in s.by :
          /\ e[1] \in Included
          /\ \/ \E j \in DOMAIN ChainOf(e[1]).steps :
                  ChainOf(e[1]).steps[j].side = "src" /\ ChainOf(e[1]).steps[j].to = e[2]
             \/ \E l \in Parts(e[1]) : tree[l].role = "lhs" /\ FirstOf(tree, l, "tgt") = e[2]
             \/ InterposedTwice(e[1])

\* A certificate leaves nothing out that its check asks for.
ExportedWhole == Exported /\ ContractsProved

\* The parts a goal is written as discharged by are those of the pair it ends at
\* (manifest.ts include): what it says discharged the root is what did.
AsProved ==
  Certified => \A g \in Included : Parts(g) # {} =>
    \E i \in DOMAIN effects[g] :
      /\ effects[g][i].effect = "split"
      /\ {effects[g][i].first, effects[g][i].first + 1} = Parts(g)
      /\ effects[g][i].src = HeadOf(tree, g, "src")
      /\ effects[g][i].tgt = HeadOf(tree, g, "tgt")

=============================================================================
