-------------------------------- MODULE Bodies --------------------------------
(***************************************************************************)
(* The body of a function as `llops number` lists it (src/number.cpp), the   *)
(* shape of its control flow as the simple strategies read it               *)
(* (engine/simple/regions.ts), and what running it does.                    *)
(*                                                                         *)
(* A body is a sequence of instructions, block after block. Blocks and      *)
(* values are named by their place, as in the canonical form every program   *)
(* of a session is kept in. A branch holds its operands in LLVM's order: its  *)
(* condition, where it goes when that is false, and where when it is true.    *)
(* Types other than of a slot, flags, attributes and metadata are left out.   *)
(***************************************************************************)
EXTENDS Integers, Sequences, FiniteSets, SequencesExt

Arg(k)   == <<"arg", k>>
Const(k) == <<"const", k>>
Val(k)   == <<"val", k>>
Block(k) == <<"block", k>>
NoName   == <<"none", 0>>

\* Values and arguments are printed with a `%`; constants are not.
IsNamed(x) == x[1] \in {"arg", "val"}
IsBlock(x) == x[1] = "block"

\* An instruction: where it is, what it does, the value it defines or NoName, what it
\* reads, and for a phi the blocks its values come from.
Instr(block, op, value, operands, blocks) ==
  [block |-> block, op |-> op, value |-> value, operands |-> operands, blocks |-> blocks]

IsPhi(i)        == i.op = "phi"
IsTerminator(i) == i.op \in {"br", "ret"}
IsCommutative(i) == i.op \in {"add", "mul", "and"}

\* What an instruction does, whatever the values and blocks it does it to.
Form(i) ==
  <<i.op, [k \in 1..Len(i.operands) |->
             CASE i.operands[k][1] = "const" -> i.operands[k]
               [] i.operands[k][1] = "block" -> <<"block", 0>>
               [] OTHER                      -> NoName]>>

-----------------------------------------------------------------------------
(* Control flow.                                                           *)

\* A block's instructions stand together.
BlocksOf(B) ==
  LET starts == SelectSeq([k \in DOMAIN B |-> k], LAMBDA k : k = 1 \/ B[k].block # B[k - 1].block)
  IN  [n \in DOMAIN starts |-> B[starts[n]].block]

\* The places of the instructions of a block.
PlacesOf(B, b) == SelectSeq([k \in DOMAIN B |-> k], LAMBDA k : B[k].block = b)

PlaceOf(B, b)  == Min({k \in DOMAIN B : B[k].block = b})
EndOf(B, b)    == Max({k \in DOMAIN B : B[k].block = b})
Defined(B)     == {B[k].value : k \in DOMAIN B} \ {NoName}
DefinitionOf(B, x) == CHOOSE k \in DOMAIN B : B[k].value = x

\* Where each block's terminator goes, and from where each block is entered.
Successors(B) == [b \in {B[k].block : k \in DOMAIN B} |-> SelectSeq(B[EndOf(B, b)].operands, IsBlock)]
Back(next)    == [b \in DOMAIN next |-> {p \in DOMAIN next : b \in ToSet(next[p])}]
Predecessors(B) == Back(Successors(B))

RECURSIVE ReachedFrom(_, _, _)
\* The blocks reached, in the order a walk breadth first meets them.
ReachedFrom(next, todo, done) ==
  IF todo = <<>> THEN done
  ELSE IF Contains(done, Head(todo)) THEN ReachedFrom(next, Tail(todo), done)
  ELSE ReachedFrom(next, Tail(todo) \o next[Head(todo)], Append(done, Head(todo)))

ReachedBy(next, b)      == ReachedFrom(next, <<b>>, <<>>)
Reaches(next, from, to) == Contains(ReachedBy(next, from), to)

Entry == Block(0)

\* Every path from the entry to `block` passes `over`.
Dominates(next, over, block) ==
  \/ over \in {Entry, block}
  \/ ~Reaches([b \in DOMAIN next |-> SelectSeq(next[b], LAMBDA to : to # over)], Entry, block)

\* The blocks a branch goes back to, outermost first: blocks are listed in reverse postorder.
HeadersIn(blocks, next) ==
  SelectSeq(blocks, LAMBDA h : \E b \in DOMAIN next : b[2] >= h[2] /\ h \in ToSet(next[b]))

Headers(B) == HeadersIn(BlocksOf(B), Successors(B))

RECURSIVE BackInto(_, _, _)
BackInto(before, todo, inside) ==
  IF todo = {} THEN inside
  ELSE BackInto(before, UNION {before[b] : b \in todo} \ (inside \cup todo), inside \cup todo)

\* What reaches a branch back to the header without passing it.
LoopFrom(before, header, latches) ==
  [header |-> header, latches |-> latches, inside |-> BackInto(before, latches \ {header}, {header})]

LoopOf(next, header) ==
  LoopFrom(Back(next), header, {b \in DOMAIN next : header \in ToSet(next[b]) /\ Reaches(next, header, b)})

ExitsOf(next, inside) == UNION {ToSet(next[b]) : b \in inside} \ inside

\* The loops whose header dominates every branch back to it.
LoopsIn(next, headers) ==
  SelectSeq([k \in DOMAIN headers |-> LoopOf(next, headers[k])],
            LAMBDA l : \A b \in l.latches : Dominates(next, l.header, b))

LoopsOf(B) == LoopsIn(Successors(B), Headers(B))

-----------------------------------------------------------------------------
(* The canonical form (src/irutil.cpp canonModule).                        *)

RECURSIVE Postorder(_, _, _)
\* The blocks reached from b that are not among `done`, each after what it branches to.
\* LLVM takes the successor of a true condition first, which is the last operand.
Postorder(next, b, done) ==
  LET below(st) == [st EXCEPT !.out = Append(@, b)]
  IN  IF Contains(done.seen, b) THEN done
      ELSE below(FoldLeft(LAMBDA st, to : Postorder(next, to, st),
                          [done EXCEPT !.seen = Append(@, b)], Reverse(next[b])))

\* Blocks nothing reaches follow the rest.
LaidOut(B) ==
  LET order == Reverse(Postorder(Successors(B), B[1].block, [seen |-> <<>>, out |-> <<>>]).out)
      rest(out) == out \o SelectSeq(BlocksOf(B), LAMBDA b : ~Contains(out, b))
  IN  rest(order)

IndexIn(s, x) == CHOOSE k \in DOMAIN s : s[k] = x

\* Phis take their values in the order of the blocks those come from.
SortedPhi(i, order) ==
  LET places == SetToSortSeq(DOMAIN i.blocks,
                             LAMBDA j, k : IndexIn(order, i.blocks[j]) < IndexIn(order, i.blocks[k]))
      taken(at) == [i EXCEPT !.operands = [k \in DOMAIN at |-> i.operands[at[k]]],
                             !.blocks   = [k \in DOMAIN at |-> i.blocks[at[k]]]]
  IN  IF IsPhi(i) THEN taken(places) ELSE i

\* Every block and value by its place.
RenamedIn(B, order, values) ==
  LET rename(x) == CASE x[1] = "block" -> Block(IndexIn(order, x) - 1)
                     [] x[1] = "val"   -> Val(IndexIn(values, x) - 1)
                     [] OTHER          -> x
      renamed(xs) == [k \in DOMAIN xs |-> rename(xs[k])]
  IN  [k \in DOMAIN B |-> Instr(rename(B[k].block), B[k].op, rename(B[k].value),
                                renamed(B[k].operands), renamed(B[k].blocks))]

LaidIn(B, order) ==
  LET places == FlattenSeq([k \in DOMAIN order |-> PlacesOf(B, order[k])])
  IN  [n \in DOMAIN places |-> SortedPhi(B[places[n]], order)]

CanonIn(B, order) ==
  RenamedIn(B, order, SelectSeq([k \in DOMAIN B |-> B[k].value], LAMBDA x : x # NoName))

CanonOf(B, order) == CanonIn(LaidIn(B, order), order)
Canon(B) == CanonOf(B, LaidOut(B))

\* LLVM's verifier: nothing branches to the entry, phis come first in their block and take
\* one value along each edge into it, the same along edges from one block, each block ends in
\* its only terminator, and where code can be reached a definition dominates its uses.
VerifiedIn(B, next) ==
  LET reached == ToSet(ReachedBy(next, Entry))
      above(d, b, k) ==
        b \notin reached \/ IF B[d].block = b THEN d < k ELSE Dominates(next, B[d].block, b)
      reads(x, b, k) == x[1] # "val" \/ (x \in Defined(B) /\ above(DefinitionOf(B, x), b, k))
      times(b, blocks) == Cardinality({n \in DOMAIN blocks : blocks[n] = b})
  IN  /\ Entry \in DOMAIN next
      /\ \A b \in DOMAIN next : ToSet(next[b]) \subseteq DOMAIN next \ {Entry}
      /\ \A k \in DOMAIN B : IsTerminator(B[k]) <=> k = EndOf(B, B[k].block)
      /\ \A k \in DOMAIN B : LET i == B[k] IN
           IF IsPhi(i)
           THEN /\ k = PlaceOf(B, i.block) \/ IsPhi(B[k - 1])
                /\ ToSet(i.blocks) \subseteq DOMAIN next
                /\ \A p \in DOMAIN next : times(p, i.blocks) = times(i.block, next[p])
                /\ \A m, n \in DOMAIN i.blocks :
                     i.blocks[m] = i.blocks[n] => i.operands[m] = i.operands[n]
                /\ \A n \in DOMAIN i.blocks : reads(i.operands[n], i.blocks[n], Len(B) + 1)
           ELSE \A n \in DOMAIN i.operands : reads(i.operands[n], i.block, k)

Verified(B) == VerifiedIn(B, Successors(B))

-----------------------------------------------------------------------------
(* What running a body does: the reference the algorithms are held to.      *)
(* Integers have one bit. A slot holds poison until something is stored in    *)
(* it, and branching on poison or breaking an assume is undefined behavior.   *)

Poison == 2
Ub     == 3
CutOff == 4      \* the run enters more blocks than it is followed for

Inputs == [{Arg(0), Arg(1)} -> {0, 1}]

Compute(op, xs) ==
  IF \E k \in DOMAIN xs : xs[k] = Poison THEN Poison
  ELSE CASE op = "add" -> (xs[1] + xs[2]) % 2
         [] op \in {"mul", "and"} -> xs[1] * xs[2]
         [] op = "eq" -> IF xs[1] = xs[2] THEN 1 ELSE 0
         [] op = "ne" -> IF xs[1] = xs[2] THEN 0 ELSE 1

\* How far a run got: the values so far, what the slots hold, what it did that can be seen,
\* and how it ended, if it did.
Running == 5

ReadIn(st, x) == IF x[1] = "const" THEN x[2] ELSE st.env[x]

Set(st, x, v) == [st EXCEPT !.env = (x :> v) @@ st.env]

RECURSIVE RunFrom(_, _, _, _)
\* The run of B from place k with `fuel` blocks to enter.
RunFrom(B, k, st, fuel) ==
  LET i        == B[k]
      x(n)     == ReadIn(st, i.operands[n])
      then(s)  == RunFrom(B, k + 1, s, fuel)
      end(how) == [st EXCEPT !.end = how]
      enter(b) ==
        LET at      == PlacesOf(B, b)
            phis    == SelectSeq(at, LAMBDA n : IsPhi(B[n]))
            taken(n) == ReadIn(st, B[n].operands[IndexIn(B[n].blocks, i.block)])
            moved   == [y \in {B[phis[n]].value : n \in DOMAIN phis} |-> taken(DefinitionOf(B, y))]
        IN  IF fuel = 0 THEN end(CutOff)
            ELSE RunFrom(B, at[Len(phis) + 1], [st EXCEPT !.env = moved @@ st.env], fuel - 1)
  IN  CASE i.op = "ret"    -> end(x(1))
        [] i.op = "br" /\ Len(i.operands) = 1 -> enter(i.operands[1])
        [] i.op = "br" /\ Len(i.operands) = 3 ->
             IF x(1) = Poison THEN end(Ub) ELSE enter(i.operands[IF x(1) = 1 THEN 3 ELSE 2])
        [] i.op = "assume" -> IF x(1) = 1 THEN then(st) ELSE end(Ub)
        [] i.op = "use"    -> then([st EXCEPT !.seen = Append(@, x(1))])
        [] i.op = "alloca" -> then([st EXCEPT !.slots = (i.value :> Poison) @@ @])
        [] i.op = "store"  -> then([st EXCEPT !.slots[i.operands[2]] = x(1)])
        [] i.op = "load"   -> then(Set(st, i.value, st.slots[i.operands[1]]))
        [] OTHER           -> then(Set(st, i.value, Compute(i.op, [n \in DOMAIN i.operands |-> x(n)])))

Fuel == 8

NoneSoFar(input) == [env |-> input, slots |-> [s \in {} |-> 0], seen |-> <<>>, end |-> Running]

\* What a run of B shows: what it does in order, and how it ends.
RunOf(B, input) ==
  LET st == RunFrom(B, 1, NoneSoFar(input), Fuel) IN [seen |-> st.seen, end |-> st.end]

\* A run that is cut off has shown only the start of what it does.
Agree(r, s) ==
  \/ r = s
  \/ r.end = CutOff /\ IsPrefix(r.seen, s.seen)
  \/ s.end = CutOff /\ IsPrefix(s.seen, r.seen)

SameRuns(A, B) == \A input \in Inputs : Agree(RunOf(A, input), RunOf(B, input))

\* Whether a run shown as s may stand for one shown as r: undefined behavior allows anything,
\* and poison any value.
Covers(r, s) ==
  LET both == IF Len(r.seen) < Len(s.seen) THEN Len(r.seen) ELSE Len(s.seen)
      fits(x, y) == x = Poison \/ x = y
  IN  \/ r.end = Ub
      \/ /\ \A n \in 1..both : fits(r.seen[n], s.seen[n])
         /\ \/ Len(r.seen) = Len(s.seen) /\ fits(r.end, s.end)
            \/ r.end = CutOff /\ Len(s.seen) >= both
            \/ s.end = CutOff /\ Len(r.seen) >= both

\* Every run of B is one that A allows.
Refines(B, A) == \A input \in Inputs : Covers(RunOf(A, input), RunOf(B, input))
===============================================================================
