------------------------------- MODULE MCSearch -------------------------------
(* The search over one program: what it does to goals, and not what they claim. *)
(* And the facts of integers of one bit and of two.                             *)
EXTENDS Search, Facts

OneProgram == {1}
SomeOffers ==
  [role \in Roles |->
     CASE role = "root"  -> {"stage", "cut", "nested", "peel"}
       [] role = "outer" -> {"cut", "case"}
       [] role = "lhs"   -> {"steps", "bounded"}
       [] OTHER          -> {}]
SameProgram == {<<1, 1>>}

-----------------------------------------------------------------------------
ShortInts == {"i1", "i2"}
ShortHalf == [t \in ShortInts |-> IF t = "i1" THEN 1 ELSE 2]
BitsIn(m) == {x \in 0..m : \A i \in 0..1 : (x \div 2^i) % 2 <= (m \div 2^i) % 2}

\* What a search may be told of an integer: the bounds, or the bits, that a set of values has.
Known(t) == {v \in [ranges : Ranges(t), bits : Bits(t)] :
               v.bits.unknown \in BitsIn(Wide(t) - 1 - v.bits.one)}

\* A range is true of what it was read off (facts.ts rangeOf).
ASSUME RangesAreTrueHere ==
  \A t \in ShortInts : \A k \in Known(t), v \in Words(t) :
    Between(t, k.ranges, v) /\ BitsOf(k.bits, v) =>
      LET range == RangeOf(t, k.ranges, k.bits)
      IN  range = Nothing \/ InRange(t, range, v)

\* The bounds say no more than the ranges (facts.ts boundsOf).
ASSUME BoundsAreTrueHere ==
  \A t \in ShortInts : \A r \in Ranges(t), v \in Words(t) :
    Between(t, r, v) =>
      \A c \in BoundsOf(t, 1, r) : HoldsOn(c, <<[type |-> t, value |-> v]>>) = TRUE

\* Something guessed of any two integers of one type is broken by a counterexample that has
\* them, and none of what is broken holds of it (facts.ts comparisons, violated).
ASSUME SomethingIsBroken ==
  \A t \in ShortInts : \A v, w \in Words(t) :
    LET broken == Violated(<<[type |-> t, value |-> v], [type |-> t, value |-> w]>>)
    IN  /\ broken # {}
        /\ \A c \in broken : ~PredicateHolds(c, <<[type |-> t, value |-> v], [type |-> t, value |-> w]>>)

\* The unfolds make two loops count alike (loops.ts unfoldToMatch).
ASSUME LoopsMatchHere ==
  \A s, t \in -4..4 \ {0}, budget \in 0..2 :
    LET u == UnfoldToMatch(<<[start |-> 0, step |-> s]>>, <<[start |-> s, step |-> t]>>, budget)
    IN  /\ t = 2 * s /\ budget > 0 => u.callee = 1 /\ u.calleeOfSrc
        /\ t = s /\ budget > 0 => u.callee = 0 /\ u.outer = 1 /\ u.outerOfSrc
===============================================================================
