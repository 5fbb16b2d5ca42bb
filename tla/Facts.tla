-------------------------------- MODULE Facts --------------------------------
(***************************************************************************)
(* What is stated of the inputs of a window or a cut (simple/facts.ts), and *)
(* what is guessed of a loop's (simple/loops.ts).  The analyses of LLVM say *)
(* what they know of a value as ranges and bits; a goal is told it as a     *)
(* half-open range, or as comparisons.                                      *)
(***************************************************************************)
EXTENDS Integers, FiniteSets

CONSTANTS
  IntTypes,     \* the types of integers
  HalfOf,       \* half the number of values an integer type has
  Safe,         \* the largest number a fact can state exactly
  Submasks(_),  \* the words whose bits are bits of one
  Nothing       \* what is not known, not read, poison, or not stated

Wide(t)  == 2 * HalfOf[t]
Words(t) == 0 .. Wide(t) - 1

\* The low bits of a number, read without a sign and with one.
AsUint(t, n) == n % Wide(t)
AsInt(t, n) == IF AsUint(t, n) < HalfOf[t] THEN AsUint(t, n) ELSE AsUint(t, n) - Wide(t)

Signed(t) == -HalfOf[t] .. HalfOf[t] - 1

\* What the analyses may say of a value: between which words it is, read either
\* way, and which of its bits are one and which unknown.
Ranges(t) ==
  [low : Words(t), high : Words(t), signedLow : Signed(t), signedHigh : Signed(t)]

Bits(t) == {b \in [one : Words(t), unknown : Words(t)] : b.one + b.unknown \in Words(t)}

ASSUME FactsAssumption ==
  /\ HalfOf \in [IntTypes -> Nat \ {0}] /\ Safe \in Nat
  /\ Nothing \notin Int
  /\ \A t \in IntTypes : Nothing \notin Ranges(t) /\ \A m \in Words(t) : Submasks(m) \subseteq 0 .. m

\* That it is so of the value v.
Between(t, r, v) ==
  /\ r.low <= v /\ v <= r.high
  /\ r.signedLow <= AsInt(t, v) /\ AsInt(t, v) <= r.signedHigh

BitsOf(b, v) == v - b.one \in Submasks(b.unknown)

-----------------------------------------------------------------------------
(* A half-open range, from min up to max, past the top of the type where it *)
(* has to. *)

InRange(t, range, v) ==
  LET low  == AsUint(t, range.min)
      high == AsUint(t, range.max)
  IN  /\ low # high
      /\ IF low < high THEN low <= v /\ v < high ELSE low <= v \/ v < high

Exact(n) == -Safe <= n /\ n <= Safe

Span(pair) == pair.high - pair.low

\* The pairs of bounds the analyses put on a value, as the code ranks them.
Pairs(r, b) ==
  (IF r = Nothing THEN {}
   ELSE {[rank |-> 1, low |-> r.signedLow, high |-> r.signedHigh],
         [rank |-> 2, low |-> r.low, high |-> r.high]})
  \cup
  (IF b = Nothing THEN {} ELSE {[rank |-> 3, low |-> b.one, high |-> b.one + b.unknown]})

Narrowest(pairs) ==
  CHOOSE p \in pairs : \A q \in pairs :
    Span(p) < Span(q) \/ (Span(p) = Span(q) /\ p.rank <= q.rank)

HalfOpen(t, pair) == [min |-> AsInt(t, pair.low), max |-> AsInt(t, pair.high + 1)]

RangeOf(t, r, b) ==
  LET narrow == {p \in Pairs(r, b) : Span(p) + 1 < Wide(t)}
      range  == HalfOpen(t, Narrowest(narrow))
  IN  IF t \in IntTypes /\ narrow # {} /\ Exact(range.min) /\ Exact(range.max)
      THEN range ELSE Nothing

-----------------------------------------------------------------------------
(* Comparisons of parameters.  An input has a type and a value. *)

Arg(k) == [arg |-> TRUE, is |-> k]
Lit(n) == [arg |-> FALSE, is |-> n]

Read(inputs, x) == IF x.arg THEN inputs[x.is].value ELSE x.is

Ordered(op, x, y) ==
  CASE op = "eq" -> x = y [] op = "ne" -> x # y
    [] op \in {"ult", "slt"} -> x < y [] op \in {"ule", "sle"} -> x <= y
    [] op \in {"ugt", "sgt"} -> x > y [] op \in {"uge", "sge"} -> x >= y

HoldsOn(c, inputs) ==
  LET t == inputs[c.lhs].type
      a == inputs[c.lhs].value
      b == Read(inputs, c.rhs)
      fit(n) == IF c.op \in {"slt", "sle", "sgt", "sge"} THEN AsInt(t, n) ELSE AsUint(t, n)
  IN  IF t \notin IntTypes \/ a = Nothing \/ b = Nothing THEN Nothing
      ELSE Ordered(c.op, fit(a), fit(b))

Compares(op, k, rhs) == [op |-> op, lhs |-> k, rhs |-> rhs]

ORDERS == {"ule", "ult", "sle", "slt"}
WITH_ZERO == {"ne", "sge"}

\* The comparisons guessed of parameters of `types`.
Guessed(types) ==
  LET ints == {i \in DOMAIN types : types[i] \in IntTypes}
      alike == {p \in ints \X ints : p[1] # p[2] /\ types[p[1]] = types[p[2]]}
  IN  {Compares(op, i, Lit(0)) : op \in WITH_ZERO, i \in ints}
      \cup {Compares(op, p[1], Arg(p[2])) : op \in ORDERS, p \in alike}
      \cup {Compares(op, p[1], Arg(p[2])) : op \in {"eq", "ne"}, p \in {q \in alike : q[1] < q[2]}}

\* Those that a counterexample breaks.
Violated(inputs) ==
  {c \in Guessed([i \in DOMAIN inputs |-> inputs[i].type]) : HoldsOn(c, inputs) = FALSE}

\* The bounds on parameter k that say more than its type.
Bound(op, k, at, loose) ==
  IF at # loose /\ Exact(at) THEN {Compares(op, k, Lit(at))} ELSE {}

BoundsOf(t, k, r) ==
  IF t \notin IntTypes \/ r = Nothing THEN {}
  ELSE Bound("uge", k, r.low, 0) \cup Bound("ule", k, r.high, Wide(t) - 1)
       \cup Bound("sge", k, r.signedLow, -HalfOf[t]) \cup Bound("sle", k, r.signedHigh, HalfOf[t] - 1)

\* Its bits, where any is known, as instructions that are no comparison.
KnownOf(t, k, b) ==
  IF t \notin IntTypes \/ b = Nothing THEN {}
  ELSE {Compares("bits", k, x) : x \in {b} \ {[one |-> 0, unknown |-> Wide(t) - 1]}}

-----------------------------------------------------------------------------
(* What a commit and a cut are told.  Of each value the analyses say whether *)
(* it is not poison (defined), its ranges, bits, and attributes as a pointer. *)

Attr(k, name, says) == [on |-> k, name |-> name, says |-> says]

RangeAttrs(k, a) ==
  {Attr(k, "range", says) : says \in {RangeOf(a.type, a.ranges, a.bits)} \ {Nothing}}

PointerAttrs(k, a) == {Attr(k, name, Nothing) : name \in a.pointer}

\* A poison value is told nothing of, as an assumption about it is undefined.
FactsAt(about) ==
  UNION {{Attr(k, "noundef", Nothing)} \cup RangeAttrs(k, about[k]) \cup PointerAttrs(k, about[k]) :
           k \in {k \in DOMAIN about : about[k].defined = TRUE}}

\* A cut states what it knows on a declaration, where a poison value may have a range.
CutAttrs(about) ==
  UNION {CASE about[k].defined = TRUE -> {Attr(k, "noundef", Nothing)} \cup PointerAttrs(k, about[k])
           [] about[k].defined = FALSE -> RangeAttrs(k, about[k])
           [] OTHER -> {} : k \in DOMAIN about}

PredicatesOf(a, k) == BoundsOf(a.type, k, a.ranges) \cup KnownOf(a.type, k, a.bits)

CutPredicates(about) ==
  UNION {PredicatesOf(about[k], k) : k \in {k \in DOMAIN about : about[k].defined = TRUE}}

PredicatesAt(about) == UNION {PredicatesOf(about[k], k) : k \in DOMAIN about}

\* An attribute that is known to hold on an input: one of a pointer never is.
AttrHolds(attr, inputs) ==
  LET input == inputs[attr.on]
  IN  /\ input.value # Nothing
      /\ \/ attr.name = "noundef"
         \/ attr.name = "range" /\ input.type \in IntTypes /\ InRange(input.type, attr.says, input.value)

\* Instructions are never known to hold, nor an order of values of two types.
PredicateHolds(c, inputs) ==
  /\ c.op # "bits"
  /\ c.rhs.arg => inputs[c.lhs].type = inputs[c.rhs.is].type
  /\ ~c.rhs.arg => Exact(c.rhs.is)
  /\ HoldsOn(c, inputs) = TRUE

FactsHoldOn(inputs, attrs, predicates) ==
  /\ \A attr \in attrs : AttrHolds(attr, inputs)
  /\ \A c \in predicates : PredicateHolds(c, inputs)

\* What a goal assumes, of those of its parameters that a cut inside it passes on, by the
\* place it passes them at.
PassedOn(predicates, at) ==
  LET passed == {c \in predicates : c.lhs \in DOMAIN at /\ (c.op # "bits" /\ c.rhs.arg => c.rhs.is \in DOMAIN at)}
  IN  {[c EXCEPT !.lhs = at[@], !.rhs = IF c.op # "bits" /\ c.rhs.arg THEN Arg(at[c.rhs.is]) ELSE @] : c \in passed}

-----------------------------------------------------------------------------
(* Strengthening with candidates.  A preview keeps or drops each predicate,  *)
(* and all the attributes of a parameter together. *)

AttrsOf(K, k) == {a \in K.attrs : a.on = k}

IsContract(K) ==
  /\ K = [attrs |-> K.attrs, predicates |-> K.predicates]
  /\ IsFiniteSet(K.attrs) /\ IsFiniteSet(K.predicates)
  /\ \A a, b \in K.attrs : a.on = b.on /\ a.name = b.name => a = b

Size(K) == Cardinality(K.attrs) + Cardinality(K.predicates)

PreviewOf(K, H) ==
  /\ H.predicates \subseteq K.predicates /\ H.attrs \subseteq K.attrs
  /\ \A a \in H.attrs : AttrsOf(K, a.on) \subseteq H.attrs

\* Noundef alone, of each parameter whose other attributes went with it.
NoundefLost(K, H) ==
  {a \in K.attrs : /\ a.name = "noundef" /\ AttrsOf(H, a.on) = {}
                   /\ AttrsOf(K, a.on) # {a}}

\* What a cut is strengthened with once everything at once was refused: what a
\* preview says holds, and then of the noundef lost what another does.
Holding(H, again) == [H EXCEPT !.attrs = @ \cup again]

\* What a loop is asked to keep next, of what it was asked to.
KeepNext(K, H) == [H EXCEPT !.attrs = @ \cup NoundefLost(K, H)]

\* What is guessed of a loop: comparisons, those with the bounds it tests that hold
\* where it exits too, and that no parameter is poison.
GuessInvariants(types, guards) ==
  [ attrs |-> {Attr(k, "noundef", Nothing) : k \in DOMAIN types},
    predicates |-> Guessed(types) \cup
      {Compares(op, g.lhs, g.rhs) : op \in {"ule", "uge", "sle", "sge"}, g \in {g \in guards : ~g.rhs.arg}} ]

\* The later contract's attributes of a parameter win.
Union(K, L) ==
  [ attrs |-> {a \in K.attrs : AttrsOf(L, a.on) = {}} \cup L.attrs,
    predicates |-> K.predicates \cup L.predicates ]

-----------------------------------------------------------------------------
(* Unfolding a loop whose counters say one side lags.  A counter is what it  *)
(* starts at, where that is known, and what an iteration adds to it. *)

Abs(n) == IF n < 0 THEN -n ELSE n

Times(n, of) == CHOOSE k \in 1 .. Abs(n) : n = k * of

IsMultiple(n, of) == \E k \in 1 .. Abs(n) : n = k * of

\* How many iterations of the src one of the tgt runs, or less how many of the tgt
\* one of the src does.
Ratio(src, tgt) ==
  IF IsMultiple(tgt.step, src.step) THEN Times(tgt.step, src.step)
  ELSE IF IsMultiple(src.step, tgt.step) THEN -Times(src.step, tgt.step) ELSE 0

\* How many iterations later the tgt starts, where both count alike.
Behind(src, tgt) ==
  LET gap == tgt.start - src.start
  IN  IF src.start = Nothing \/ tgt.start = Nothing \/ src.step # tgt.step THEN {}
      ELSE {n \in -Abs(gap) .. Abs(gap) : gap = n * src.step}

\* The parameters that count on both sides.
Counted(mine, theirs) == {k \in DOMAIN mine \cap DOMAIN theirs : mine[k] # Nothing /\ theirs[k] # Nothing}

\* What all of them agree on.
Agreed(S) == IF \E n \in S : S = {n} THEN CHOOSE n \in S : S = {n} ELSE 0

\* Each unfold of an iteration doubles it, so only a power of two matches.
Doublings(r, budget) ==
  LET fits(n) == r # 0 /\ 2^n = Abs(r)
  IN  IF \E n \in 0 .. budget : fits(n) THEN CHOOSE n \in 0 .. budget : fits(n) ELSE 0

\* The unfolds of the callee, of the src if `ahead`, and then of the outer, each of which
\* peels an iteration.
UnfoldToMatch(mine, theirs, budget) ==
  LET both   == Counted(mine, theirs)
      r      == Agreed({Ratio(mine[k], theirs[k]) : k \in both})
      d      == Agreed(UNION {Behind(mine[k], theirs[k]) : k \in both})
      unroll == Doublings(r, budget)
  IN  [ callee |-> unroll, calleeOfSrc |-> r > 0,
        outer  |-> IF Abs(d) <= budget - unroll THEN Abs(d) ELSE 0, outerOfSrc |-> d > 0 ]
=============================================================================
