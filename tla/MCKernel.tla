------------------------------ MODULE MCKernel ------------------------------
(***************************************************************************)
(* Certificates small enough to list: goals that are checked after a chain  *)
(* of one step, and splits of each kind with plain halves, right and wrong. *)
(* And functions small enough to say what they do: the law of splits that   *)
(* the kernel goes by, followed on them.                                    *)
(***************************************************************************)
EXTENDS Kernel, Splits, TLC

CONSTANTS lo, hi, eq, given, with, in, out, none, fst, snd, result,
          callee, itself, nofn, opt, param, attr, before, return, when

\* eq, given and with are the same as hi to every caller, and lo does less. given assumes a
\* predicate, and only `with` states the contract of the callee.
FivePrograms == {lo, hi, eq, given, with}
High         == FivePrograms \ {lo}
FiveRefines  == {<<p, q>> \in FivePrograms \X FivePrograms : p \in High => q \in High}

\* Rewriting takes hi to lo, unfolding swaps hi and eq. The contract does not hold where
\* lo is called, and assuming it of lo allows more.
Optimised(rules, p) == IF p = hi THEN lo ELSE p
Unrolled(p, fn)     == CASE p = hi -> eq [] p = eq -> hi [] OTHER -> p
Stated(p, fn, facts) == IF fn = callee THEN with ELSE p
Supposing(p, fn, facts)       == IF p = with THEN with ELSE given
Joined(fn, outer, half)      ==
  IF outer = eq THEN eq ELSE IF {outer, half} \cap High # {} THEN hi ELSE lo
PutBack(d, side, outer, inner) == Joined(d.callee, outer, inner)
Halved(on, case, p)          == IF p = hi /\ case = "fails" THEN lo ELSE p
Saying(p, fn)                == IF p = with THEN "stated" ELSE "bare"
BothFns     == {callee, itself}
OneWay      == {"inline"}
OneRule     == {opt}
OneParam    == {param}
OneAttr     == {attr}
OneBefore   == {before}
OneReturn   == {return}
OneSplitter == {when}

HavingBodyAttrs == {eq}

NamingOnes == (FivePrograms \X BothFns) \ ({eq} \X BothFns)
BareOnes  == {pf \in NamingOnes : pf[1] # with}
CoveredAt  == {when} \X {lo, hi, given}
SplitAt    == {when} \X {lo, hi, eq}

BothInputs == {in, out}
LoopingHi  == {eq}
DivergeAt  == {<<Pair(s, t), i>> : s \in {lo}, t \in High, i \in {in, none}}

-----------------------------------------------------------------------------
G(start, steps, end, discharge) == [start |-> start, steps |-> steps, end |-> end, discharge |-> discharge]
Leaf == [kind |-> "check"]
M(goals) == [verdict |-> "verified", root |-> 1, goals |-> goals]

SidedSteps ==
  [kind : {"check", "unfold"}, side : Sides, from : FivePrograms, to : FivePrograms]
  \cup [kind : {"rewrite"}, side : Sides, from : {lo, hi}, to : {lo, hi}, rules : {opt}, invoked : {opt}]
WindowSteps ==
  [kind : {"window"}, side : Sides, from : {lo, hi, eq}, to : {lo, hi, eq},
   window : [outer : {lo, hi, eq}, from : {lo, hi}, to : {lo, hi}, callee : {callee}, facts : {{}, {param, before}}]]
Contracts(from, to, facts, by) ==
  [kind |-> "strengthen", from |-> from, to |-> to, facts |-> facts, by |-> by]
OtherSteps == {Contracts(p, Pair(with, with), facts, <<>>) : p \in Pairs, facts \in {{}, {return}}}

EndPairs == {Pair(s, t) : s \in {lo, hi}, t \in {lo, hi, eq}}

\* One step, and then a check, at the pair the step leads to or at another.
OneStep(s, x, e) == M([g \in {1} |-> G(s, <<x>>, e, Leaf)])
Chains == {OneStep(s, x, e) : s \in EndPairs, e \in EndPairs, x \in SidedSteps}
          \cup {OneStep(s, x, MovedBy(x, s)) : s \in EndPairs, x \in WindowSteps}
          \cup {OneStep(s, x, s) : s \in EndPairs, x \in OtherSteps}

Three(root, a, b) == M(1 :> root @@ 2 :> a @@ 3 :> b)
Leaves == {G(s, <<>>, s, Leaf) : s \in EndPairs}

Interposes == {Three(G(s, <<>>, s, [kind |-> "interpose", program |-> p, lhs |-> 2, rhs |-> 3]), a, b) :
                 s \in EndPairs, p \in {lo, hi, eq}, a \in Leaves, b \in Leaves}
CaseSplits == {Three(G(s, <<>>, s, [kind |-> "case", on |-> when, holds |-> 2, fails |-> r]), a, b) :
                 s \in EndPairs, r \in {3, 4}, a \in Leaves, b \in Leaves}

\* The halves of a cut: a proof of the contract with or without an unfold around it, or none,
\* and the contract stated by a step of the outer's, or as what the callee returns.
BarePairs == {Pair(s, t) : s \in {lo, hi}, t \in {lo, hi}}
To(kind, side, from, to) == [kind |-> kind, side |-> side, from |-> from, to |-> to]

Outers == UNION {
  LET states(p) == <<To("check", "src", s["src"], p), To("check", "tgt", s["tgt"], p)>>
      first  == To("unfold", "src", s["src"], Unrolled(s["src"], itself))
      proved == To("check", "src", first.to, given)
      both   == Pair(with, with)
  IN  { G(s, <<>>, s, Leaf),
        G(s, states(with), both, Leaf),
        G(s, states(given), Pair(given, given), Leaf),
        G(s, <<To("check", "src", s["src"], given)>> \o <<To("check", "src", given, with), states(with)[2]>>, both, Leaf),
        G(s, <<first, proved>>, Pair(given, s["tgt"]), Leaf),
        G(s, <<To("check", "src", s["src"], given), To("unfold", "src", given, given)>>, Pair(given, s["tgt"]), Leaf),
        G(s, <<Contracts(s, both, {return}, <<>>)>>, both, Leaf) } : s \in BarePairs }
  \cup {G(Pair(s, eq), <<>>, Pair(s, eq), Leaf) : s \in {lo, hi}}

\* A callee with any facts put on it, alone or together, and the proofs it names.
Agreed(p, facts) == IF facts = {before} THEN given ELSE with
FactSets == {{param}, {attr}, {before}, {return}, {param, attr}, {param, before}, {before, return}}
Iteration(p) == To("check", "src", p, p)

Inners == UNION { UNION {
  LET p    == Agreed(s, facts)
      to   == Pair(p, p)
      once == <<<<2, p>>>>
      both == <<<<2, p>>, <<3, p>>>>
  IN  { G(s, <<Contracts(s, to, facts, <<>>)>>, to, Leaf),
        G(s, <<Contracts(s, to, facts, once)>>, to, Leaf),
        G(s, <<Contracts(s, to, facts, both), Iteration(p)>>, to, Leaf),
        G(s, <<Contracts(s, to, facts, both)>>, to,
          [kind |-> "interpose", program |-> p, lhs |-> 4, rhs |-> 5]) } : facts \in FactSets } : s \in BarePairs }
  \cup {G(s, <<>>, s, Leaf) : s \in BarePairs}

HalfAt(p) == G(Pair(p, p), <<>>, Pair(p, p), Leaf)

\* Put back together as they are, or with the tgt the outer's own.
WholeOf(o, i, alone) ==
  Pair(Joined(callee, o.start["src"], i.start["src"]),
       IF alone THEN o.start["tgt"] ELSE Joined(callee, o.start["tgt"], i.start["tgt"]))

Cut(whole, o, i, hypothesis, alone) ==
  M(1 :> G(whole, <<>>, whole,
           [kind |-> "cut", outer |-> 2, inner |-> 3, callee |-> callee, hypothesis |-> hypothesis,
            way |-> "inline", alone |-> alone])
    @@ 2 :> o @@ 3 :> i @@ 4 :> HalfAt(i.end["src"]) @@ 5 :> HalfAt(i.end["src"]))

Cuts ==
  {Cut(WholeOf(o, i, FALSE), o, i, h, FALSE) : o \in Outers, i \in Inners, h \in {nofn, itself}}
  \cup {Cut(WholeOf(o, i, TRUE), o, i, nofn, TRUE) : o \in Outers, i \in Inners}
  \cup {Cut(whole, o, i, nofn, FALSE) : whole \in BarePairs, o \in Leaves, i \in Leaves}

Refutations == [verdict : {"counterexample"}, pair : Pairs, source : {"alive2", "llubi"},
                input : {in, out, none}, unroll : 0..1]

SmallManifests == Chains \cup Interposes \cup CaseSplits \cup Cuts \cup Refutations

-----------------------------------------------------------------------------
(* Functions of two parameters, of one bit each. *)

TwoParams == {fst, snd}
OneSeen == {result}

Gives(v) == [s \in OneSeen |-> v]
Back(a, r) == {r}

\* A function that makes no call, and does what D says of its input.
Plain(undef, D(_)) ==
  [undef |-> undef, calls |-> 0, reaches |-> {}, passes |-> [a \in Arguments |-> a],
   after |-> [a \in Arguments |-> [r \in Results |-> {r}]],
   does |-> [a \in Arguments |-> D(a)], held |-> FALSE, loops |-> FALSE, differs |-> FALSE]

\* One that calls `name` with its own input, and gives back what that gives.
Calling(name) == [Plain({}, LAMBDA a : {}) EXCEPT !.calls = name, !.reaches = Arguments]

Less(a) == Signed(a[fst]) < Signed(a[snd])
Bad(a) == a[fst] = Poison \/ a[snd] = Poison

\* The lesser of the two, by a branch and by a select.
Branched(undef) == Plain(undef, LAMBDA a :
  IF Bad(a) THEN {UB} ELSE {Gives(IF Less(a) THEN a[fst] ELSE a[snd])})
Selected == Plain({}, LAMBDA a :
  {Gives(IF Bad(a) THEN Poison ELSE IF Less(a) THEN a[fst] ELSE a[snd])})

Frozen == [Plain({}, LAMBDA a : IF a[fst] = Poison THEN {Gives(0), Gives(1)} ELSE {Gives(a[fst])})
             EXCEPT !.differs = TRUE]
First == Plain({}, LAMBDA a : {Gives(a[fst])})
Around == [Branched({}) EXCEPT !.loops = TRUE]

\* Calls the callee where the first parameter is 1, and is done elsewhere.
Guarded == [Plain({}, LAMBDA a : IF a[fst] = Poison THEN {UB} ELSE {Gives(a[fst])})
              EXCEPT !.reaches = {a \in Arguments : a[fst] = 1}]
Whole == Plain({}, LAMBDA a :
  IF a[fst] = Poison THEN {UB} ELSE {Gives(IF a[fst] = 1 THEN a[snd] ELSE a[fst])})
Kept == [Branched({}) EXCEPT !.held = TRUE]
Second == Plain({}, LAMBDA a : {Gives(a[snd])})

Called == {First, Second}

AllFns == Called \cup {Branched({}), Branched({fst, snd}), Selected, Frozen, Around, Calling(3),
                       Guarded, Whole, Kept}

Cmp(op, l, r) == [op |-> op, lhs |-> l, rhs |-> r]
SomeCompared == {Cmp("slt", fst, snd), Cmp("eq", fst, 1)}

AllPosed ==
  {[src |-> Branched({}), tgt |-> Selected], [src |-> Selected, tgt |-> Branched({})],
   [src |-> Branched({fst, snd}), tgt |-> Selected], [src |-> Frozen, tgt |-> Frozen],
   [src |-> First, tgt |-> Frozen], [src |-> Around, tgt |-> Selected],
   [src |-> Whole, tgt |-> Whole], [src |-> Kept, tgt |-> Selected],
   [src |-> First, tgt |-> Calling(3)]}

-----------------------------------------------------------------------------
(* A behaviour is one of the kernel's, while no goal is left to split, or   *)
(* one of the splits', while the kernel is through.                         *)

NothingToSplit ==
  /\ posed = [src |-> Frozen, tgt |-> Frozen] /\ parts = {}
  /\ made = 1 /\ ruled = "proved"

NothingToReplay ==
  /\ manifest = [verdict |-> "counterexample", pair |-> Pair(lo, lo), source |-> "llubi",
                 input |-> none, unroll |-> 0]
  /\ stack = <<>> /\ failed = FALSE /\ said = "refused"

EitherInit ==
  \/ Init /\ NothingToSplit
  \/ SplitInit /\ NothingToReplay

EitherNext ==
  \/ Next /\ UNCHANGED splitVars
  \/ SplitNext /\ UNCHANGED vars

EitherSpec == EitherInit /\ [][EitherNext]_<<vars, splitVars>>
=============================================================================
