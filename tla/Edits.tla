-------------------------------- MODULE Edits ---------------------------------
(***************************************************************************)
(* The edits of `llops edit` (src/edit.cpp) that copy code: a block for some *)
(* of the edges into it, an iteration of a loop, an instruction onto the      *)
(* edges into its block, and a window of another program.                   *)
(*                                                                         *)
(* A copy gets names of its own, and every edit ends in the canonical form,  *)
(* which names it all by place again. Loop ids, tokens and the declarations a *)
(* window brings along are left out.                                       *)
(***************************************************************************)
EXTENDS Bodies

Refused == [ok |-> FALSE]

\* An edit is refused when the verifier refuses what it leaves.
Checked(B) == IF Verified(B) THEN [ok |-> TRUE, body |-> Canon(B)] ELSE Refused

Fresh(x, n) == <<x[1], x[2] + 100 * n>>

Mapped(vmap, x)   == IF x \in DOMAIN vmap THEN vmap[x] ELSE x
AllMapped(vmap, xs) == [n \in DOMAIN xs |-> Mapped(vmap, xs[n])]

Clone(i, vmap) ==
  Instr(Mapped(vmap, i.block), i.op, Mapped(vmap, i.value),
        AllMapped(vmap, i.operands), AllMapped(vmap, i.blocks))

ValuesIn(B, blocks) == {B[k].value : k \in {n \in 1..Len(B) : B[n].block \in blocks}} \ {NoName}

\* The branch of i goes to `to` wherever it went to `from`.
Redirected(i, from, to) == IF i.op = "br" THEN [i EXCEPT !.operands = AllMapped(from :> to, @)] ELSE i

Incoming(phi) == [n \in DOMAIN phi.blocks |-> <<phi.operands[n], phi.blocks[n]>>]

Taking(phi, pairs) ==
  [phi EXCEPT !.operands = [n \in DOMAIN pairs |-> pairs[n][1]],
              !.blocks   = [n \in DOMAIN pairs |-> pairs[n][2]]]

\* A phi takes along each edge from a copy what it takes along the edge copied.
CopyEdges(phi, blocks, vmap) ==
  LET of == SelectSeq(Incoming(phi), LAMBDA p : p[2] \in blocks)
  IN  Taking(phi, Incoming(phi) \o [n \in DOMAIN of |-> AllMapped(vmap, of[n])])

KeepEdges(phi, blocks) == Taking(phi, SelectSeq(Incoming(phi), LAMBDA p : p[2] \in blocks))

-----------------------------------------------------------------------------
(* Where the values of a block and of its copy meet, LLVM's SSA updater       *)
(* places a phi.                                                           *)

RECURSIVE Spread(_, _, _)
\* The names that reach the end of each block, with `own` the blocks that set one.
Spread(before, own, reach) ==
  LET next == [b \in DOMAIN before |->
                 IF b \in DOMAIN own THEN {own[b]} ELSE UNION {reach[p] : p \in before[b]}]
  IN  IF next = reach THEN reach ELSE Spread(before, own, next)

RECURSIVE Joined(_, _, _, _)
\* `own` with a name for each block that two names reach.
Joined(order, before, own, x) ==
  LET reach == Spread(before, own, [b \in DOMAIN before |-> {}])
      meets == SelectSeq(order, LAMBDA b : b \notin DOMAIN own /\ Cardinality(reach[b]) > 1)
  IN  IF meets = <<>> THEN [own |-> own, reach |-> reach]
      ELSE Joined(order, before, (Head(meets) :> <<"val", 1000 * (Head(meets)[2] + 1) + x[2]>>) @@ own, x)

RECURSIVE Needed(_, _)
\* The phis among `phis`, by name, that the names read need, through each other too.
Needed(phis, read) ==
  LET all == read \cup UNION {ToSet(phis[x].operands) : x \in DOMAIN phis \cap read}
  IN  IF all = read THEN DOMAIN phis \cap read ELSE Needed(phis, all)

\* The phi that joins what reaches the end of each predecessor of b.
JoinAt(b, name, preds, at) ==
  Instr(b, "phi", name, [n \in DOMAIN preds |-> at[preds[n]]], preds)

\* The phis for the names that `own` gives to the blocks in `joins`.
JoinsOf(before, own, joins, at) ==
  [y \in {own[b] : b \in joins} |->
     LET b == CHOOSE j \in joins : own[j] = y
     IN  JoinAt(b, y, SetToSortSeq(before[b], LAMBDA p, q : p[2] < q[2]), at)]

Placed(B, phis, needed) ==
  FlattenSeq([k \in DOMAIN B |-> SetToSeq({phis[y] : y \in {z \in needed : k = PlaceOf(B, phis[z].block)}}) \o <<B[k]>>])

\* B with the uses of x outside its block reading x, its copy, or a phi of the two: what
\* `at` says reaches the end of each block.
Reading(B, x, block, at) ==
  LET local(i)   == i.block = block /\ ~IsPhi(i)
      from(i, n) == IF IsPhi(i) THEN i.blocks[n] ELSE i.block
      read(i)    == [i EXCEPT !.operands = [n \in DOMAIN @ |-> IF @[n] = x THEN at[from(i, n)] ELSE @[n]]]
  IN  [k \in DOMAIN B |-> IF local(B[k]) THEN B[k] ELSE read(B[k])]

MergeAt(B, before, own, joins, at, read) ==
  LET phis == JoinsOf(before, own, joins, at)
  IN  Placed(read, phis, Needed(phis, UNION {ToSet(read[k].operands) : k \in DOMAIN read}))

MergeBy(B, x, block, before, joins, joined) ==
  LET on(at) == MergeAt(B, before, joined.own, DOMAIN joined.own \ joins, at, Reading(B, x, block, at))
  IN  on([b \in DOMAIN before |->
            IF joined.reach[b] = {} THEN NoName ELSE CHOOSE y \in joined.reach[b] : TRUE])

Merge(B, x, copied, block, copy) ==
  LET before == Predecessors(B)
  IN  MergeBy(B, x, block, before, {block, copy},
              Joined(LaidOut(B), before, (block :> x) @@ (copy :> copied), x))

-----------------------------------------------------------------------------

\* The edges from `preds` get a copy of the block of their own.
CopyBlock(B, block, preds) ==
  LET copy   == Fresh(block, 1)
      vmap   == [x \in ValuesIn(B, {block}) |-> Fresh(x, 1)]
      both   == (block :> copy) @@ vmap
      after  == ToSet(Successors(B)[block])
      cloned(i) == [i EXCEPT !.block = copy, !.value = Mapped(vmap, @),
                             !.operands = IF IsPhi(i) THEN @ ELSE AllMapped(vmap, @)]
      copies == [n \in DOMAIN PlacesOf(B, block) |->
                   LET i == cloned(B[PlacesOf(B, block)[n]])
                   IN  IF IsPhi(i) THEN KeepEdges(i, preds) ELSE i]
      kept(i) ==
        LET said == IF IsPhi(i) /\ i.block \in after THEN CopyEdges(i, {block}, both) ELSE i
        IN  CASE IsPhi(i) /\ i.block = block -> KeepEdges(said, (ToSet(said.blocks) \ preds))
              [] i.block \in preds           -> Redirected(said, block, copy)
              [] OTHER                       -> said
      values == SetToSortSeq(DOMAIN vmap, LAMBDA x, y : x[2] < y[2])
  IN  IF preds = {} \/ ~(preds \subseteq Predecessors(B)[block]) \/ preds = Predecessors(B)[block]
      THEN Refused
      ELSE Checked(FoldLeft(LAMBDA out, x : Merge(out, x, vmap[x], block, copy),
                            [k \in DOMAIN B |-> kept(B[k])] \o copies, values))

\* What `blocks` define that is used outside them, but for a phi on an edge from them.
UsedAfter(B, blocks) ==
  {x \in ValuesIn(B, blocks) :
     \E k \in {j \in DOMAIN B : B[j].block \notin blocks} : \E n \in DOMAIN B[k].operands :
        B[k].operands[n] = x /\ (IsPhi(B[k]) => B[k].blocks[n] \notin blocks)}

\* The edges into a loop get one iteration of their own.
PeelWith(B, header, inside, exits, before, vmap) ==
  LET first  == vmap[header]
      places == SelectSeq([k \in DOMAIN B |-> k], LAMBDA k : B[k].block \in inside)
      copy(i) == IF IsPhi(i) /\ i.block = first THEN KeepEdges(i, before) ELSE Redirected(i, first, header)
      later(i) == KeepEdges(i, (ToSet(i.blocks) \ before))
      kept(i) ==
        CASE IsPhi(i) /\ i.block \in exits -> CopyEdges(i, inside, vmap)
          [] IsPhi(i) /\ i.block = header  -> later(CopyEdges(i, inside, vmap))
          [] i.block \in before            -> Redirected(i, header, first)
          [] OTHER                         -> i
  IN  Checked([k \in DOMAIN B |-> kept(B[k])]
                \o [n \in DOMAIN places |-> copy(Clone(B[places[n]], vmap))])

Peel(B, header) ==
  LET next == Successors(B)
      on(inside) ==
        IF UsedAfter(B, inside) # {} THEN Refused
        ELSE PeelWith(B, header, inside, ExitsOf(next, inside), Predecessors(B)[header] \ inside,
                      [x \in ValuesIn(B, inside) \cup inside |-> Fresh(x, 1)])
      of(loops) == IF loops = <<>> THEN Refused ELSE on(loops[1].inside)
  IN  of(SelectSeq(LoopsOf(B), LAMBDA l : l.header = header))

\* The first instruction of a block after its phis goes onto each edge into the block, and
\* a phi joins what its copies compute.
Hoist(B, k) ==
  LET i     == B[k]
      preds == SetToSortSeq(Predecessors(B)[i.block], LAMBDA p, q : p[2] < q[2])
      edge(p) == Fresh(p, 1)
      along(p) == [x \in {B[n].value : n \in {m \in DOMAIN B : B[m].block = i.block /\ IsPhi(B[m])}} |->
                     LET phi == B[DefinitionOf(B, x)] IN phi.operands[IndexIn(phi.blocks, p)]]
      own(n)  == <<"val", 100 * n + 50>>
      edges == FlattenSeq([n \in DOMAIN preds |->
                 <<[i EXCEPT !.block = edge(preds[n]), !.operands = AllMapped(along(preds[n]), @),
                             !.value = IF @ = NoName THEN @ ELSE own(n)],
                   Instr(edge(preds[n]), "br", NoName, <<i.block>>, <<>>)>>])
      joins == IF i.value = NoName THEN <<>>
               ELSE <<Instr(i.block, "phi", i.value, [n \in DOMAIN preds |-> own(n)],
                            [n \in DOMAIN preds |-> edge(preds[n])])>>
      kept(j) ==
        CASE IsPhi(j) /\ j.block = i.block -> [j EXCEPT !.blocks = [n \in DOMAIN @ |-> edge(@[n])]]
          [] j.block \in ToSet(preds)      -> Redirected(j, i.block, edge(j.block))
          [] OTHER                         -> j
  IN  IF IsTerminator(i) \/ IsPhi(i) \/ preds = <<>> \/ (k # PlaceOf(B, i.block) /\ ~IsPhi(B[k - 1]))
      THEN Refused
      ELSE Checked(FlattenSeq([n \in DOMAIN B |-> IF n = k THEN joins ELSE <<kept(B[n])>>]) \o edges)

-----------------------------------------------------------------------------

\* A window lies in one block and holds no phi and no terminator.
IsWindow(B, from, to) ==
  /\ 1 <= from /\ from <= to /\ to <= Len(B)
  /\ \A k \in from..to : B[k].block = B[from].block /\ ~IsPhi(B[k]) /\ ~IsTerminator(B[k])

Reads(B, places)   == UNION {{x \in ToSet(B[k].operands) : IsNamed(x)} : k \in places}
Defines(B, places) == {B[k].value : k \in places} \ {NoName}

\* The window of T in place of the one of S: `map` gives each value of S a partner in T.
Splice(S, from, to, T, first, last, map) ==
  LET mine     == Defines(S, from..to)
      theirs   == Defines(T, first..last)
      standsIn(y) == CHOOSE x \in DOMAIN map : map[x] = y
      partnered == {map[x] : x \in DOMAIN map}
      vmap     == [y \in theirs \cup (partnered \cap Reads(T, first..last)) |->
                     IF y \in theirs THEN Fresh(y, 2) ELSE standsIn(y)]
      copies   == [n \in 1..(last - first + 1) |->
                     [Clone(T[first + n - 1], vmap) EXCEPT !.block = S[from].block]]
      liveOut  == mine \cap Reads(S, (1..Len(S)) \ (from..to))
      lands(x) == /\ x \in DOMAIN map
                  /\ map[x] \in theirs \/ (map[x] \in partnered /\ standsIn(map[x]) # x)
      now      == [x \in {y \in liveOut : lands(y)} |-> Mapped(vmap, map[x])]
      rest     == [k \in DOMAIN S |-> [S[k] EXCEPT !.operands = AllMapped(now, @)]]
  IN  IF \/ ~IsWindow(S, from, to) \/ ~IsWindow(T, first, last)
         \/ \E x, y \in DOMAIN map : x # y /\ map[x] = map[y]
         \/ ~(Reads(T, first..last) \ theirs \subseteq partnered)
         \/ \E x \in liveOut : ~lands(x)
      THEN Refused
      ELSE Checked(SubSeq(rest, 1, from - 1) \o copies \o SubSeq(rest, to + 1, Len(rest)))
===============================================================================
