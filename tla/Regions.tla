------------------------------- MODULE Regions --------------------------------
(***************************************************************************)
(* Where two similar bodies differ (engine/simple/regions.ts), as regions     *)
(* that a step can rewrite one at a time: blocks are matched by what they do, *)
(* then the instructions inside each pair of blocks, each as a longest        *)
(* common subsequence, and two matched instructions are the same when they     *)
(* do the same to matched values.                                          *)
(*                                                                         *)
(* `pairs` is a sequence of <<src name, tgt name>>, in the order the code's    *)
(* map is filled. Places count from 1.                                     *)
(***************************************************************************)
EXTENDS Bodies

-----------------------------------------------------------------------------
(* Stack slots.                                                            *)

\* The allocas of the entry block that only loads and stores into them use.
SlotsOf(B) ==
  {x \in Defined(B) :
     /\ B[DefinitionOf(B, x)].op = "alloca" /\ B[DefinitionOf(B, x)].block = Entry
     /\ \A k \in DOMAIN B : \A n \in DOMAIN B[k].operands :
          B[k].operands[n] = x => <<B[k].op, n>> \in {<<"load", 1>>, <<"store", 2>>}}

\* The form of each instruction, with a mark on the loads and stores of slots.
MarkedForms(B) ==
  LET slots == SlotsOf(B)
      marked(i) == \/ i.op = "load" /\ i.operands[1] \in slots
                   \/ i.op = "store" /\ i.operands[2] \in slots
  IN  [k \in DOMAIN B |-> <<Form(B[k]), marked(B[k])>>]

\* The last store into the slot from place `end` back to its block's start; 0 when there is
\* none and nothing comes before the block, and -1 when the search goes on.
LastIn(B, before, slot, from) ==
  LET stores == {k \in 1..from[2] : B[k].block = from[1] /\ B[k].op = "store" /\ B[k].operands[2] = slot}
  IN  IF stores # {} THEN Max(stores) ELSE IF before[from[1]] = {} THEN 0 ELSE -1

RECURSIVE StoresFound(_, _, _, _, _)
\* The last stores on every path back, from the ends still to look at.
StoresFound(B, before, slot, todo, entered) ==
  LET last == [t \in todo |-> LastIn(B, before, slot, t)]
      back == UNION {before[t[1]] : t \in {u \in todo : last[u] = -1}}
  IN  IF todo = {} THEN {}
      ELSE ({last[t] : t \in todo} \ {-1}) \cup
           StoresFound(B, before, slot, {<<b, EndOf(B, b)>> : b \in back \ entered}, entered \cup back)

\* Mutant: the last of several stores is taken.
StoredLatest(B, before, slot, k) ==
  LET value(found) == IF found \cap (DOMAIN B) # {} THEN B[Max(found)].operands[1] ELSE NoName
  IN  value(StoresFound(B, before, slot, {<<B[k].block, k - 1>>}, {}))

\* What the slot holds before place k, where one store into it comes last on every path
\* there, or NoName.
StoredAt(B, before, slot, k) ==
  LET value(found) == IF Cardinality(found) = 1 /\ found # {0} THEN B[Max(found)].operands[1] ELSE NoName
  IN  value(StoresFound(B, before, slot, {<<B[k].block, k - 1>>}, {}))

\* What each load of a slot reads, where one store says which.
StoredLoads(B) ==
  LET slots == SlotsOf(B)
      loads == SelectSeq([k \in DOMAIN B |-> k], LAMBDA k : B[k].op = "load" /\ B[k].operands[1] \in slots)
      known(all) == SelectSeq(all, LAMBDA l : l[2] # NoName)
  IN  known([n \in DOMAIN loads |->
        <<B[loads[n]].value, StoredAt(B, Predecessors(B), B[loads[n]].operands[1], loads[n])>>])

-----------------------------------------------------------------------------
(* Matching: steps with a place from each side, or 0 for none.              *)

Move(i, j) == [src |-> i, tgt |-> j]
IsPair(m)  == m.src # 0 /\ m.tgt # 0

\* The length of the longest common subsequence from item i of rows and item j of cols on,
\* at [i][j], where `equal` has the pairs of equal items.
LcsTable(rows, cols, equal) ==
  LET longest(below, right, i, j) ==
        IF <<i, j>> \in equal THEN 1 + below[j + 1] ELSE Max({below[j], right[1]})
      row(below, i) ==
        FoldLeft(LAMBDA right, k : <<longest(below, right, i, cols + 1 - k)>> \o right,
                 <<0>>, [k \in 1..cols |-> k])
  IN  FoldLeft(LAMBDA below, k : <<row(below[1], rows + 1 - k)>> \o below,
               <<[j \in 1..(cols + 1) |-> 0]>>, [k \in 1..rows |-> k])

\* A longest common subsequence as steps, where an item of src is left out before one of tgt.
AlignedBy(rows, cols, equal, at) ==
  LET left(i, j) == i <= rows /\ (j > cols \/ at[i + 1][j] >= at[i][j + 1])
      from[i \in 1..(rows + 1), j \in 1..(cols + 1)] ==
        CASE i > rows /\ j > cols                    -> <<>>
          [] <<i, j>> \in equal                      -> <<Move(i, j)>> \o from[i + 1, j + 1]
          [] <<i, j>> \notin equal /\ left(i, j)           -> <<Move(i, 0)>> \o from[i + 1, j]
          [] OTHER                                   -> <<Move(0, j)>> \o from[i, j + 1]
  IN  from[1, 1]

\* Equal items at the start and the end are matched first: `head` and `tail` of them.
AlignedIn(n, m, same, head, tail) ==
  LET rows  == n - head - tail
      cols  == m - head - tail
      equal == {<<p[1] - head, p[2] - head>> : p \in same} \cap ((1..rows) \X (1..cols))
      on(k) == IF k = 0 THEN 0 ELSE head + k
      middle(moves) == [k \in DOMAIN moves |-> Move(on(moves[k].src), on(moves[k].tgt))]
  IN  [k \in 1..head |-> Move(k, k)]
        \o middle(AlignedBy(rows, cols, equal, LcsTable(rows, cols, equal)))
        \o [k \in 1..tail |-> Move(n - tail + k, m - tail + k)]

\* The longest common subsequence of 1..n and 1..m, as steps in order.
Align(n, m, same) ==
  LET least == IF n < m THEN n ELSE m
      head  == Max({h \in 0..least : \A k \in 1..h : <<k, k>> \in same})
      tail(h) == Max({t \in 0..(least - h) : \A k \in 1..t : <<n + 1 - k, m + 1 - k>> \in same})
      from(h) == AlignedIn(n, m, same, h, tail(h))
  IN  from(head)

\* Pairs up unmatched items in order wherever a stretch of them has as many on each side.
Settle(moves) ==
  LET close(st) ==
        LET left  == SelectSeq([k \in DOMAIN st.run |-> st.run[k].src], LAMBDA i : i # 0)
            right == SelectSeq([k \in DOMAIN st.run |-> st.run[k].tgt], LAMBDA j : j # 0)
        IN  IF Len(left) = Len(right)
            THEN st.out \o [k \in DOMAIN left |-> Move(left[k], right[k])]
            ELSE st.out \o st.run
      step(st, m) == IF IsPair(m) THEN [out |-> Append(close(st), m), run |-> <<>>]
                     ELSE [st EXCEPT !.run = Append(@, m)]
  IN  close(FoldLeft(step, [out |-> <<>>, run |-> <<>>], moves))

BlockPlaces(B) == [n \in DOMAIN BlocksOf(B) |-> PlacesOf(B, BlocksOf(B)[n])]

\* What stands at a place, or `none` where there is no place.
At(s, k, none) == IF k = 0 THEN none ELSE s[k]

Equal(xs, ys) == {<<i, j>> \in (DOMAIN xs) \X (DOMAIN ys) : xs[i] = ys[j]}
Picked(forms, places) == [n \in DOMAIN places |-> forms[places[n]]]

\* The matched instructions of two blocks, as places in the bodies.
Within(forms, a, b) ==
  LET placed(moves) == [n \in DOMAIN moves |-> Move(At(a, moves[n].src, 0), At(b, moves[n].tgt, 0))]
  IN  placed(Settle(Align(Len(a), Len(b), Equal(Picked(forms.src, a), Picked(forms.tgt, b)))))

-----------------------------------------------------------------------------
(* Pairs of names.                                                         *)

HasPair(pairs, s)   == \E n \in DOMAIN pairs : pairs[n][1] = s
PairOf(pairs, s)    == IF HasPair(pairs, s) THEN (CHOOSE p \in ToSet(pairs) : p[1] = s)[2] ELSE NoName
WithPair(pairs, s, t) == IF s = NoName \/ t = NoName \/ HasPair(pairs, s) THEN pairs
                         ELSE Append(pairs, <<s, t>>)

\* A block, or a value that an instruction defines.
IsOwn(x) == x[1] \in {"block", "val"}

\* Whether a src name stands for a tgt one: matched when a body defines it, identical otherwise.
StandsFor(pairs, x, y) ==
  IF IsOwn(x) \/ IsOwn(y) THEN PairOf(pairs, x) = y ELSE x = y

\* Loops of two bodies with as many, in order: header with header, lone exit with exit.
PairedLoops(next, mine, theirs) ==
  LET exits(k)  == <<ExitsOf(next.src, mine[k].inside), ExitsOf(next.tgt, theirs[k].inside)>>
      lone(k)   == \A n \in 1..2 : Cardinality(exits(k)[n]) = 1
      header(k) == <<<<mine[k].header, theirs[k].header>>>>
      exit(k)   == IF lone(k) THEN SetToSeq(exits(k)[1] \X exits(k)[2]) ELSE <<>>
  IN  IF Len(mine) # Len(theirs) THEN <<>>
      ELSE FlattenSeq([k \in DOMAIN mine |-> header(k) \o exit(k)])

LoopsPaired(src, tgt) ==
  PairedLoops([src |-> Successors(src), tgt |-> Successors(tgt)], LoopsOf(src), LoopsOf(tgt))

\* Pairs what matched instructions read, a commutative one only where its other operand
\* agrees, and a branch's targets only where its condition does.
OperandsOnce(src, tgt, forms, moves, pairs) ==
  LET operand(m, all, k) ==
        LET s == src[m.src].operands
            t == tgt[m.tgt].operands
        IN  IF /\ IsOwn(s[k]) /\ t[k][1] # "const" /\ ~HasPair(all, s[k])
               /\ IsCommutative(src[m.src]) => StandsFor(all, s[3 - k], t[3 - k])
            THEN Append(all, <<s[k], t[k]>>) ELSE all
      chosen(m, all) ==
        \/ ~IsTerminator(src[m.src]) \/ Len(src[m.src].operands) = 1
        \/ StandsFor(all, src[m.src].operands[1], tgt[m.tgt].operands[1])
      through(all, m) ==
        IF forms.src[m.src] # forms.tgt[m.tgt] \/ ~chosen(m, all) THEN all
        ELSE FoldLeft(LAMBDA out, k : operand(m, out, k), all, [k \in DOMAIN src[m.src].operands |-> k])
  IN  FoldLeft(through, pairs, moves)

RECURSIVE ThroughOperands(_, _, _, _, _, _)
\* The same until nothing more is paired: `grown` is what one pass makes of the pairs.
ThroughOperands(src, tgt, forms, moves, pairs, grown) ==
  IF grown = pairs THEN pairs
  ELSE ThroughOperands(src, tgt, forms, moves, grown, OperandsOnce(src, tgt, forms, moves, grown))

\* Pairs each load with the partner of the value it reads.
ThroughSlots(src, pairs) ==
  FoldLeft(LAMBDA all, l :
             LET partner == IF IsOwn(l[2]) THEN PairOf(all, l[2]) ELSE l[2]
             IN  IF partner[1] = "const" THEN all ELSE WithPair(all, l[1], partner),
           pairs, StoredLoads(src))

\* The pairs of a step of the block matching: its blocks, then what its instructions define.
WithStep(src, tgt, pairs, step) ==
  FoldLeft(LAMBDA all, m : WithPair(all, src[m.src].value, tgt[m.tgt].value),
           WithPair(pairs, step.blocks[1], step.blocks[2]),
           SelectSeq(step.inside, IsPair))

WithSteps(src, tgt, pairs, steps) ==
  FoldLeft(LAMBDA all, step : WithStep(src, tgt, all, step), pairs, steps)

\* Two blocks and their matched instructions.
StepOf(src, tgt, forms, s, t) == [blocks |-> <<s, t>>, inside |-> Within(forms, PlacesOf(src, s), PlacesOf(tgt, t))]

\* A step for each pair of blocks among these names.
StepsOf(src, tgt, forms, names) ==
  LET blocks == SelectSeq(names, LAMBDA p : IsBlock(p[1]) /\ IsBlock(p[2]))
  IN  [n \in DOMAIN blocks |-> StepOf(src, tgt, forms, blocks[n][1], blocks[n][2])]

RECURSIVE PairingFrom(_, _, _, _, _, _)
\* Blocks paired through what matched instructions read are matched inside too: `operands`
\* is what the pairs come to through operands, and `through` through slots after that.
PairingMore(src, tgt, forms, matched, operands, through) ==
  LET done == {matched[n].blocks[1] : n \in DOMAIN matched}
      on(more) == IF more = <<>> /\ through = operands THEN through
                  ELSE PairingFrom(src, tgt, forms, matched, more, WithSteps(src, tgt, through, more))
  IN  on(StepsOf(src, tgt, forms, SelectSeq(through, LAMBDA p : p[1] \notin done)))

PairingFrom(src, tgt, forms, matched, more, pairs) ==
  LET all    == matched \o more
      inside == FlattenSeq([n \in DOMAIN all |-> SelectSeq(all[n].inside, IsPair)])
      on(moves, operands) == PairingMore(src, tgt, forms, all, operands, ThroughSlots(src, operands))
      from(moves) == on(moves, ThroughOperands(src, tgt, forms, moves, pairs,
                                               OperandsOnce(src, tgt, forms, moves, pairs)))
  IN  from(inside)

\* Loops go first, since blocks that look the same can be matched the wrong way round.
Pairing(src, tgt, forms, loops, steps) ==
  LET agree(step) == \A n \in DOMAIN loops : \A k \in 1..2 : step.blocks[k] # loops[n].blocks[k]
      from(matched) == PairingFrom(src, tgt, forms, <<>>, matched, WithSteps(src, tgt, <<>>, matched))
  IN  from(loops \o SelectSeq(steps, agree))

\* Whether two instructions read the same values and blocks, in order or swapped.
ReadsMatch(src, tgt, pairs, m, swapped) ==
  LET a == src[m.src].operands \o src[m.src].blocks
      b == tgt[m.tgt].operands \o tgt[m.tgt].blocks
      other(k) == IF swapped /\ k < 3 THEN 3 - k ELSE k
  IN  Len(a) = Len(b) /\ \A k \in DOMAIN a : StandsFor(pairs, a[k], b[other(k)])

-----------------------------------------------------------------------------
(* Regions.                                                                *)

NoRegion == [src |-> <<>>, tgt |-> <<>>, window |-> TRUE]
IsEmptyRegion(r) == r.src = <<>> /\ r.tgt = <<>>
WithRegion(out, r) == IF IsEmptyRegion(r) THEN out ELSE Append(out, r)

\* A region that holds a phi or a terminator cannot be a window.
Finish(src, tgt, r) ==
  LET fixed(i) == IsPhi(i) \/ IsTerminator(i)
  IN  [r EXCEPT !.window = /\ \A k \in ToSet(r.src) : ~fixed(src[k])
                           /\ \A k \in ToSet(r.tgt) : ~fixed(tgt[k])]

\* Mutant: matched instructions are the same whatever they read.
GroupByForm(src, tgt, forms, pairs, moves) ==
  LET same(m)   == IsPair(m) /\ forms.src[m.src] = forms.tgt[m.tgt]
      with(r, m) == [r EXCEPT !.src = IF m.src = 0 THEN @ ELSE Append(@, m.src),
                              !.tgt = IF m.tgt = 0 THEN @ ELSE Append(@, m.tgt)]
      close(st) == [out |-> WithRegion(st.out, Finish(src, tgt, st.open)), open |-> NoRegion]
      step(st, m) == IF same(m) THEN close(st) ELSE [st EXCEPT !.open = with(@, m)]
  IN  close(FoldLeft(step, [out |-> <<>>, open |-> NoRegion], moves)).out

\* The regions inside one pair of matched blocks. An operation whose operands are only
\* swapped is a region of its own.
Group(src, tgt, forms, pairs, moves) ==
  LET same(m)    == IsPair(m) /\ forms.src[m.src] = forms.tgt[m.tgt]
      swapped(m) == IsCommutative(src[m.src]) /\ ReadsMatch(src, tgt, pairs, m, TRUE)
      with(r, m) == [r EXCEPT !.src = IF m.src = 0 THEN @ ELSE Append(@, m.src),
                              !.tgt = IF m.tgt = 0 THEN @ ELSE Append(@, m.tgt)]
      close(st)  == [out |-> WithRegion(st.out, Finish(src, tgt, st.open)), open |-> NoRegion]
      step(st, m) ==
        CASE same(m) /\ ReadsMatch(src, tgt, pairs, m, FALSE) -> close(st)
          [] same(m) /\ ~ReadsMatch(src, tgt, pairs, m, FALSE) /\ swapped(m) ->
               close([close(st) EXCEPT !.open = with(NoRegion, m)])
          [] OTHER -> [st EXCEPT !.open = with(@, m)]
  IN  close(FoldLeft(step, [out |-> <<>>, open |-> NoRegion], moves)).out

\* The blocks of the two sides matched by what they do, by their numbers in order, or 0
\* for none.
BlockSteps(forms, a, b) ==
  LET content(f, blocks) == [n \in DOMAIN blocks |-> Picked(f, blocks[n])]
  IN  Settle(Align(Len(a), Len(b), Equal(content(forms.src, a), content(forms.tgt, b))))

\* The regions of matched blocks one by one, and of the blocks between them, which have no
\* partner and are taken whole.
RegionsBy(src, tgt, forms, a, b, pairs, moves) ==
  LET loosen(r, m) == [src |-> r.src \o At(a, m.src, <<>>), tgt |-> r.tgt \o At(b, m.tgt, <<>>),
                       window |-> FALSE]
      inside(m)    == Within(forms, a[m.src], b[m.tgt])
      region(st, m) ==
        IF ~IsPair(m) THEN [st EXCEPT !.loose = loosen(@, m)]
        ELSE [out   |-> WithRegion(st.out, st.loose) \o Group(src, tgt, forms, pairs, inside(m)),
              loose |-> NoRegion]
      last(st) == WithRegion(st.out, st.loose)
  IN  last(FoldLeft(region, [out |-> <<>>, loose |-> NoRegion], moves))

DiffBy(src, tgt, forms, a, b, moves) ==
  LET both  == SelectSeq(moves, IsPair)
      steps == [n \in DOMAIN both |-> StepOf(src, tgt, forms, src[a[both[n].src][1]].block,
                                             tgt[b[both[n].tgt][1]].block)]
      with(pairs) == [regions |-> RegionsBy(src, tgt, forms, a, b, pairs, moves), pairs |-> pairs]
  IN  with(Pairing(src, tgt, forms, StepsOf(src, tgt, forms, LoopsPaired(src, tgt)), steps))

DiffIn(src, tgt, forms, a, b) == DiffBy(src, tgt, forms, a, b, BlockSteps(forms, a, b))

\* The regions, and for each src block and value, the tgt one it is matched with.
Diff(src, tgt) ==
  DiffIn(src, tgt, [src |-> MarkedForms(src), tgt |-> MarkedForms(tgt)], BlockPlaces(src), BlockPlaces(tgt))

RegionsOf(src, tgt) == Diff(src, tgt).regions
===============================================================================
