------------------------------- MODULE Reshaped -------------------------------
(***************************************************************************)
(* `llops reshaped` (src/reshaped.cpp): whether one body runs as another     *)
(* does, however their control flow is laid out. It walks both runs together *)
(* and keeps, for each pair of edges they may enter by, what the values of    *)
(* `after` hold in terms of the values of `before`.                         *)
(*                                                                         *)
(* A relation `of` gives a value of after the values of before it is equal   *)
(* to and the constants it equals; `holding` gives a constant the values of  *)
(* before that hold it. Switches, metadata, struct types and what stands      *)
(* around the body are left out: a body here has none of them.              *)
(***************************************************************************)
EXTENDS Bodies

Constants == {Const(0), Const(1)}
IsLocal(x) == IsNamed(x)

Nothing == [same |-> {}, equals |-> {}]

\* What holds on both of two paths.
MeetOf(x, y) ==
  [of |-> [a \in DOMAIN x.of \cap DOMAIN y.of |->
             [same   |-> x.of[a].same \cap y.of[a].same,
              equals |-> x.of[a].equals \cap y.of[a].equals]],
   holding |-> [c \in Constants |-> x.holding[c] \cap y.holding[c]]]

-----------------------------------------------------------------------------
(* Branches that go one way.                                               *)

InverseOf(op) == IF op = "eq" THEN "ne" ELSE "eq"
IsCompare(op) == op \in {"eq", "ne"}

RECURSIVE Implies(_, _, _, _)
\* Whether x, once assumed, makes the comparison `op` of these two true.
Implies(B, x, op, sides) ==
  /\ x \in Defined(B)
  /\ LET i == B[DefinitionOf(B, x)]
     IN  \/ IsCompare(i.op) /\ i.op = op /\ i.operands = sides
         \/ i.op = "and" /\ \E n \in 1..2 : Implies(B, i.operands[n], op, sides)

\* The branches on arguments and constants that an assume of the entry block decides, with
\* where each goes.
DecidedIn(B) ==
  LET assumed == {B[k].operands[1] : k \in {n \in 1..Len(B) : B[n].block = Entry /\ B[n].op = "assume"}}
      compare(k) == B[DefinitionOf(B, B[k].operands[1])]
      holds(k, op) == \E x \in assumed : Implies(B, x, op, compare(k).operands)
      tests == {k \in 1..Len(B) :
                  /\ B[k].op = "br" /\ Len(B[k].operands) = 3
                  /\ B[k].operands[1] \in Defined(B)
                  /\ IsCompare(compare(k).op)
                  /\ \A n \in 1..2 : compare(k).operands[n][1] \in {"arg", "const"}}
  IN  [k \in {n \in tests : \E op \in {"eq", "ne"} : holds(n, op)} |->
         B[k].operands[IF holds(k, compare(k).op) THEN 3 ELSE 2]]

\* Where the branch at k goes whatever the values hold, or NoName.
OneWay(B, decided, k) ==
  LET to == B[k].operands
  IN  CASE k \in DOMAIN decided -> decided[k]
        [] k \notin DOMAIN decided /\ B[k].op = "br" /\ Len(to) = 1 -> to[1]
        [] k \notin DOMAIN decided /\ B[k].op = "br" /\ to[1][1] = "const" ->
             to[IF to[1] = Const(1) THEN 3 ELSE 2]
        [] OTHER -> NoName

-----------------------------------------------------------------------------
(* What one side runs from where a block is entered to the next branch that   *)
(* may go two ways: the phis it sets, all of a block at once, and the         *)
(* instructions it applies.                                                *)

Moves(B, from, to) ==
  LET phis == SelectSeq(PlacesOf(B, to), LAMBDA k : IsPhi(B[k]))
  IN  [n \in DOMAIN phis |->
         <<B[phis[n]].value, B[phis[n]].operands[IndexIn(B[phis[n]].blocks, from)]>>]

EventsIn(B, from, to) ==
  LET moves == Moves(B, from, to)
      plain == SelectSeq(PlacesOf(B, to), LAMBDA k : ~IsPhi(B[k]) /\ ~IsTerminator(B[k]))
  IN  (IF moves = <<>> THEN <<>> ELSE <<[moves |-> moves, at |-> 0]>>)
        \o [n \in DOMAIN plain |-> [moves |-> <<>>, at |-> plain[n]]]

RECURSIVE SegmentFrom(_, _, _, _, _, _)
SegmentFrom(B, decided, from, to, seen, events) ==
  LET end == EndOf(B, to)
      on(next, all) ==
        IF next = NoName THEN [ok |-> TRUE, events |-> all, end |-> end, last |-> to]
        ELSE SegmentFrom(B, decided, to, next, seen \cup {to}, all)
  IN  IF to \in seen THEN [ok |-> FALSE]      \* branches that go one way loop
      ELSE on(OneWay(B, decided, end), events \o EventsIn(B, from, to))

SegmentOf(B, from, to) == SegmentFrom(B, DecidedIn(B), from, to, {}, <<>>)

-----------------------------------------------------------------------------
(* Both runs in step.                                                      *)

HeldBy(r, a) ==
  CASE a \in Constants  -> [same |-> r.holding[a], equals |-> {a}]
    [] a \in DOMAIN r.of -> r.of[a]
    [] OTHER             -> Nothing

Same(r, a, b) == b \in IF IsLocal(b) THEN HeldBy(r, a).same ELSE HeldBy(r, a).equals

\* Mutant: what held the old value of v is still said to.
ForgetNothing(r, v) == r

\* The value v of before takes a new value: nothing still holds the old one.
Forget(r, v) ==
  [of      |-> [a \in DOMAIN r.of |-> [r.of[a] EXCEPT !.same = @ \ {v}]],
   holding |-> [c \in Constants |-> r.holding[c] \ {v}]]

MoveAfter(r, moves) ==
  LET taken == [phi \in {moves[n][1] : n \in DOMAIN moves} |->
                  HeldBy(r, (CHOOSE m \in ToSet(moves) : m[1] = phi)[2])]
  IN  [r EXCEPT !.of = taken @@ @]

\* Mutant: the phis of before lose what they held and take nothing.
MoveNothing(r, moves) == FoldLeft(LAMBDA out, m : Forget(out, m[1]), r, moves)

\* Each phi holds what its value held, and all take theirs at once.
MoveBefore(r, moves) ==
  LET left == FoldLeft(LAMBDA out, m : Forget(out, m[1]), r, moves)
      into(held, equal) ==
        {m[1] : m \in {n \in ToSet(moves) : IF IsLocal(n[2]) THEN n[2] \in held ELSE n[2] \in equal}}
  IN  [of      |-> [a \in DOMAIN r.of |->
                      [left.of[a] EXCEPT !.same = @ \cup into(r.of[a].same, r.of[a].equals)]],
       holding |-> [c \in Constants |-> left.holding[c] \cup into(r.holding[c], {c})]]

\* Whether x of after copies y of before, with what holds once both ran. An integer
\* comparison with the inverse predicate passes too, and holds no value of before.
Match(r, x, y) ==
  LET inverse == x.op # y.op /\ IsCompare(x.op) /\ y.op = InverseOf(x.op)
      left    == Forget(r, y.value)
      others  == [a \in DOMAIN left.of \ {x.value} |-> left.of[a]]
  IN  [ok |-> /\ x.op = y.op \/ inverse
              /\ Len(x.operands) = Len(y.operands)
              /\ \A n \in DOMAIN x.operands : Same(r, x.operands[n], y.operands[n]),
       inverse |-> inverse,
       r |-> [left EXCEPT !.of =
                IF inverse \/ x.value = NoName THEN others
                ELSE (x.value :> [same |-> {y.value}, equals |-> {}]) @@ others]]

UsesOf(B, x) ==
  {<<k, n>> \in (1..Len(B)) \X (1..3) : n <= Len(B[k].operands) /\ B[k].operands[n] = x}

NoFlip == <<NoName, NoName>>

RECURSIVE PairFrom(_, _, _, _, _, _, _)
\* The two segments' events in step, each side's phis where they fall. An inverse comparison
\* is followed only into the branch that ends after's segment, its single use.
PairFrom(A, B, r, a, b, end, flip) ==
  CASE a # <<>> /\ Head(a).at = 0 -> PairFrom(A, B, MoveAfter(r, Head(a).moves), Tail(a), b, end, flip)
    [] (a = <<>> \/ Head(a).at # 0) /\ b # <<>> /\ Head(b).at = 0 ->
         PairFrom(A, B, MoveBefore(r, Head(b).moves), a, Tail(b), end, flip)
    [] a = <<>> /\ b = <<>> -> [ok |-> TRUE, r |-> r, flip |-> flip]
    [] a # <<>> /\ b # <<>> /\ Head(a).at # 0 /\ Head(b).at # 0 ->
         LET x == A[Head(a).at]
             y == B[Head(b).at]
             m == Match(r, x, y)
         IN  IF ~m.ok \/ (m.inverse /\ {u[1] : u \in UsesOf(A, x.value)} # {end})
             THEN [ok |-> FALSE]
             ELSE PairFrom(A, B, m.r, Tail(a), Tail(b), end,
                           IF m.inverse THEN <<x.value, y.value>> ELSE flip)
    [] OTHER -> [ok |-> FALSE]                \* one side runs more than the other

\* Whether both segments end the same way, and the pairs of blocks they go on to.
EndsOf(r, x, y, flip) ==
  LET straight == Same(r, x.operands[1], y.operands[1])
  IN  IF x.op # y.op \/ (~straight /\ (x.op = "ret" \/ flip # <<x.operands[1], y.operands[1]>>))
      THEN [ok |-> FALSE]
      ELSE IF x.op = "ret" THEN [ok |-> TRUE, next |-> <<>>]
      ELSE [ok   |-> TRUE,
            next |-> <<<<x.operands[3], y.operands[IF straight THEN 3 ELSE 2]>>,
                       <<x.operands[2], y.operands[IF straight THEN 2 ELSE 3]>>>>]

\* A pair of entering edges is visited again whenever what holds there shrinks.
Visit(st, key, r) ==
  LET visited(held) ==
        IF key \in DOMAIN st.at /\ held = st.at[key] THEN st
        ELSE [at |-> (key :> held) @@ st.at, work |-> Append(st.work, key)]
  IN  visited(IF key \in DOMAIN st.at THEN MeetOf(st.at[key], r) ELSE r)

RECURSIVE WalkFrom(_, _, _)
\* The rest of the walk from the end of two segments.
WalkOn(A, B, st, a, b, r, ends) ==
  /\ ends.ok
  /\ WalkFrom(A, B, FoldLeft(LAMBDA out, to : Visit(out, <<a.last, to[1], b.last, to[2]>>, r), st, ends.next))

WalkSegments(A, B, st, r, a, b) ==
  LET on(both) == both.ok /\ WalkOn(A, B, st, a, b, both.r, EndsOf(both.r, A[a.end], B[b.end], both.flip))
  IN  a.ok /\ b.ok /\ on(PairFrom(A, B, r, a.events, b.events, a.end, NoFlip))

WalkFrom(A, B, st) ==
  LET from(key) == WalkSegments(A, B, [st EXCEPT !.work = Front(@)], st.at[key],
                                SegmentOf(A, key[1], key[2]), SegmentOf(B, key[3], key[4]))
  IN  st.work = <<>> \/ from(Last(st.work))

WalkOf(after, before) ==
  LET start == [of      |-> [x \in {Arg(0), Arg(1)} |-> [same |-> {x}, equals |-> {}]],
                holding |-> [c \in Constants |-> {}]]
      first == <<NoName, Entry, NoName, Entry>>
  IN  WalkFrom(after, before, [at |-> first :> start, work |-> <<first>>])

\* The walk takes each use to be dominated by its definition, as the verifier checks.
IsReshaped(before, after) == Verified(before) /\ Verified(after) /\ WalkOf(after, before)
===============================================================================
