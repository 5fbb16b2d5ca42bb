------------------------------- MODULE Splits -------------------------------
(***************************************************************************)
(* What the splits of a goal and the reports of an input rest on: that the  *)
(* goals a split makes together show the goal (state/cases.ts, cuts.ts and  *)
(* interpose.ts), and that a divergence refutes it                          *)
(* (state/counterexamples.ts).  No solver runs when a goal is split, so     *)
(* nothing else in a run asks.                                              *)
(*                                                                         *)
(* A function is what it may do at each input.  It makes at most one call,  *)
(* of a function it does not define, and a goal claims its tgt refines its  *)
(* src whatever the functions called do, two calls of one name being calls  *)
(* of one function.  That a program loops is only known of it: a cut at the *)
(* head of a loop, and the hypothesis it makes, are left out.               *)
(***************************************************************************)
EXTENDS Integers

CONSTANTS
  Params,    \* the parameters of a goal's function
  Half,      \* values are the integers below 2 * Half, and from Half on negative
  Seen,      \* what is observed of a run: its result, the bytes it leaves
  Poison,
  UB,        \* what a run with undefined behaviour comes to
  Fns,       \* the functions a run may meet, before it splits them by cases
  Callees,   \* those of them that may be called, and make no call themselves
  Posed,     \* the pairs a run may be asked about
  Compared,  \* the comparisons a goal may be split on
  MaxMade    \* bound: the goals one run may ever make

Values == 0 .. 2 * Half - 1
Arguments == [Params -> Values \cup {Poison}]
Results == [Seen -> Values \cup {Poison}]
Endings == Results \cup {UB}

NoName == 0

\* undef     the parameters that are noundef
\* calls     the goal after which the function it calls is named
\* reaches   the inputs at which it makes the call, with the arguments `passes`
\* after     what it may do once the call has returned, by what it returned
\* does      what it may do where it makes no call
\* held      it has attributes alive2 applies only to its own instructions
\* loops, differs   it loops; llubi does not treat it as alive2 does
Shapes ==
  [ undef : SUBSET Params, calls : Nat, reaches : SUBSET Arguments,
    passes : [Arguments -> Arguments], after : [Arguments -> [Results -> SUBSET Endings]],
    does : [Arguments -> SUBSET Endings],
    held : BOOLEAN, loops : BOOLEAN, differs : BOOLEAN ]

-----------------------------------------------------------------------------
(* Refinement. *)

\* A run that is undefined allows everything, and one that leaves poison any
\* value there.
Allows(q, o) == q # UB => o # UB /\ \A s \in Seen : q[s] \in {o[s], Poison}

Covers(Q, O) == \A o \in O : \E q \in Q : Allows(q, o)

Undefined(p, a) == \E x \in p.undef : a[x] = Poison

Straight(p) == p.reaches = {}

\* What a function that makes no call may do.
Ends(f, a) == IF Undefined(f, a) THEN {UB} ELSE f.does[a]

Then(p, a, o) == IF o = UB THEN {UB} ELSE p.after[a][o]

Through(p, a, O) == UNION {Then(p, a, o) : o \in O}

\* What a function may do when the one it calls is f.
Acts(p, f, a) ==
  IF Undefined(p, a) THEN {UB}
  ELSE IF a \in p.reaches THEN Through(p, a, Ends(f, p.passes[a]))
  ELSE p.does[a]

RefinesAt(s, t, a) ==
  \A f, g \in Callees :
    (s.calls = t.calls => f = g) => Covers(Acts(s, f, a), Acts(t, g, a))

\* A goal's claim.
Stands(q) == \A a \in Arguments : RefinesAt(q.src, q.tgt, a)

\* What follows a call gets no less defined when the call does.
Monotone(p) ==
  \A a \in Arguments : \A q, r \in Results :
    Allows(q, r) => Covers(p.after[a][q], p.after[a][r])

\* llubi's one run stands for a function only where nothing is left to choose.
ASSUME FnsAssumption ==
  /\ Half \in Nat \ {0} /\ MaxMade \in Nat
  /\ Poison \notin Values /\ UB \notin Results
  /\ Fns \subseteq Shapes
  /\ \A p \in Fns :
       /\ Monotone(p)
       /\ ~p.differs => \A a \in Arguments : \A o, r \in p.does[a] : o = r
  /\ Callees \subseteq {p \in Fns : Straight(p)} /\ Callees # {}
  /\ Posed \subseteq [src : Fns, tgt : Fns]

-----------------------------------------------------------------------------
(* By cases. *)

\* A parameter made noundef.
Noundef(p, x) == [p EXCEPT !.undef = @ \cup {x}]

Poisoned(a, x) == [a EXCEPT ![x] = Poison]

\* A parameter made poison: each use reads poison, or the body is undefined
\* from its start where the parameter is noundef.
MadePoison(p, x) ==
  IF x \in p.undef
  THEN [p EXCEPT !.reaches = {}, !.does = [a \in Arguments |-> {UB}]]
  ELSE [p EXCEPT !.reaches = {a \in Arguments : Poisoned(a, x) \in p.reaches},
                 !.passes  = [a \in Arguments |-> p.passes[Poisoned(a, x)]],
                 !.after   = [a \in Arguments |-> p.after[Poisoned(a, x)]],
                 !.does    = [a \in Arguments |-> p.does[Poisoned(a, x)]]]

Ops == {"eq", "ne", "slt", "sge", "sgt", "sle", "ult", "uge", "ugt", "ule"}

Comparisons == [op : Ops, lhs : Params \cup Values, rhs : Params \cup Values]

INVERSE ==
  [op \in Ops |->
     CASE op = "eq" -> "ne" [] op = "ne" -> "eq"
       [] op = "slt" -> "sge" [] op = "sge" -> "slt" [] op = "sgt" -> "sle" [] op = "sle" -> "sgt"
       [] op = "ult" -> "uge" [] op = "uge" -> "ult" [] op = "ugt" -> "ule" [] op = "ule" -> "ugt"]

Signed(v) == IF v < Half THEN v ELSE v - 2 * Half

Compare(op, v, w) ==
  CASE op = "eq" -> v = w [] op = "ne" -> v # w
    [] op = "slt" -> Signed(v) < Signed(w) [] op = "sge" -> Signed(v) >= Signed(w)
    [] op = "sgt" -> Signed(v) > Signed(w) [] op = "sle" -> Signed(v) <= Signed(w)
    [] op = "ult" -> v < w [] op = "uge" -> v >= w [] op = "ugt" -> v > w [] op = "ule" -> v <= w

ASSUME ComparedAssumption == Compared \subseteq Comparisons

Operand(o, a) == IF o \in Params THEN a[o] ELSE o

\* A comparison of poison is poison, and assuming poison is undefined.
Satisfies(a, c) ==
  /\ Operand(c.lhs, a) # Poison /\ Operand(c.rhs, a) # Poison
  /\ Compare(c.op, Operand(c.lhs, a), Operand(c.rhs, a))

\* A comparison assumed at the start.
Given(p, c) ==
  [p EXCEPT !.reaches = {a \in @ : Satisfies(a, c)},
            !.does = [a \in Arguments |-> IF Satisfies(a, c) THEN p.does[a] ELSE {UB}]]

NamedIn(c) == {c.lhs, c.rhs} \cap Params

\* A bug: a parameter compared may be poison.
FitLoosely(src, c) == NamedIn(c) # {}

\* Each parameter compared is noundef in the src, or a poison one would lie in
\* no case.
Fit(src, c) == NamedIn(c) # {} /\ NamedIn(c) \subseteq src.undef

Inverted(c) == [c EXCEPT !.op = INVERSE[c.op]]

-----------------------------------------------------------------------------
(* By code. *)

\* Putting the halves back together gives the program they were cut from.  Of
\* one with attributes alive2 applies only where they stand, its text does.
GoBack(o, c, p) == p.held \/ \A a \in Arguments : Acts(o, c, a) = Ends(p, a)

\* The outer half o of a cut of p, which calls the callee c.
Outlined(p, o, c) == Straight(p) /\ ~p.held /\ GoBack(o, c, p)

\* The outer half calls the callee by the name made for it.
Named(o, n) == [o EXCEPT !.calls = n]

-----------------------------------------------------------------------------
VARIABLES
  posed,    \* the pair the run was asked about
  parts,    \* the pairs still to show
  made,     \* the goals made so far
  ruled     \* "open", "proved", "refuted"

splitVars == <<posed, parts, made, ruled>>

SplitInit ==
  /\ posed \in Posed
  /\ parts = {posed}
  /\ made = 1
  /\ ruled = "open"

\* A goal becomes two.
Becomes(q, two) ==
  /\ q \in parts /\ made + 2 <= MaxMade
  /\ parts' = (parts \ {q}) \cup two
  /\ made' = made + 2
  /\ UNCHANGED <<posed, ruled>>

ByPoison(q, x) ==
  Becomes(q, {[src |-> Noundef(q.src, x), tgt |-> Noundef(q.tgt, x)],
              [src |-> MadePoison(q.src, x), tgt |-> MadePoison(q.tgt, x)]})

ByComparison(q, c) ==
  /\ Fit(q.src, c)
  /\ Becomes(q, {[src |-> Given(q.src, c), tgt |-> Given(q.tgt, c)],
                 [src |-> Given(q.src, Inverted(c)), tgt |-> Given(q.tgt, Inverted(c))]})

PutBetween(q, p) ==
  /\ p \notin {q.src, q.tgt}
  /\ Becomes(q, {[src |-> q.src, tgt |-> p], [src |-> p, tgt |-> q.tgt]})

\* The callee is named after its goal, the second made.
CalleeName == made + 2

CutBoth(q) ==
  \E os, ot \in Fns, cs, ct \in Callees :
    /\ Outlined(q.src, os, cs) /\ Outlined(q.tgt, ot, ct)
    /\ Becomes(q, {[src |-> Named(os, CalleeName), tgt |-> Named(ot, CalleeName)],
                   [src |-> cs, tgt |-> ct]})

\* The tgt stays as it is, and the callee is the same on both sides.
CutSrc(q) ==
  \E os \in Fns, cs \in Callees :
    /\ Outlined(q.src, os, cs)
    /\ q.tgt.calls # CalleeName
    /\ Becomes(q, {[src |-> Named(os, CalleeName), tgt |-> q.tgt]})

\* A checker says a goal's claim holds.
Show(q) ==
  /\ q \in {p \in parts : Stands(p)}
  /\ parts' = parts \ {q}
  /\ ruled' = IF parts' = {} /\ ruled = "open" THEN "proved" ELSE ruled
  /\ UNCHANGED <<posed, made>>

-----------------------------------------------------------------------------
(* The report of an input. *)

\* What alive2 may say of the pair at one input; over a loop it may call
\* correct what it unrolled.
Decides(q, a) ==
  {"unknown"} \cup
  IF RefinesAt(q.src, q.tgt, a) THEN {"correct"}
  ELSE {"incorrect"} \cup (IF q.src.loops \/ q.tgt.loops THEN {"correct"} ELSE {})

\* A bug: poison in the src is a value like any other.
DivergedStrictly(o, r) == o # UB /\ o # r

\* Whether what the tgt did shows it doing what the src does not allow.
Diverged(o, r) ==
  o # UB /\ (r # UB => \E s \in Seen : o[s] # r[s] /\ o[s] # Poison)

\* llubi runs each program once, where it runs it at all.
Replayed(q, a) ==
  /\ Straight(q.src) /\ Straight(q.tgt) /\ ~q.src.differs
  /\ \E o \in Ends(q.src, a), r \in Ends(q.tgt, a) : Diverged(o, r)

\* Of the pair the run was asked about, whatever became of its goal.
Report(a) ==
  /\ ruled # "proved"
  /\ \E said \in Decides(posed, a) :
       \/ said = "incorrect"
       \/ /\ said = "correct" => posed.src.loops \/ posed.tgt.loops
          /\ Replayed(posed, a)
  /\ ruled' = "refuted"
  /\ UNCHANGED <<posed, parts, made>>

SplitNext ==
  \/ \E q \in parts :
       \/ \E x \in Params : ByPoison(q, x)
       \/ \E c \in Compared : ByComparison(q, c)
       \/ \E p \in Fns : PutBetween(q, p)
       \/ CutBoth(q) \/ CutSrc(q) \/ Show(q)
  \/ \E a \in Arguments : Report(a)

SplitSpec == SplitInit /\ [][SplitNext]_splitVars

-----------------------------------------------------------------------------
(* Properties. *)

\* The goals left to show, shown, show the pair the run was asked about: no
\* input and no code falls between two of them (cases.ts:1, cuts.ts:9).
PartsShow == (\A q \in parts : Stands(q)) => Stands(posed)

\* The two verdicts are right, so no run can reach both: what is proved part by
\* part holds, and an input refutes only a claim that does not
\* (counterexamples.ts:60).
RuledRight ==
  /\ ruled = "proved" => Stands(posed)
  /\ ruled = "refuted" => ~Stands(posed)

\* A goal split by cases is not made harder: where it holds, both cases do
\* (cases.ts:3).
CasesKeep ==
  [][\A q \in parts :
       (\E x \in Params : ByPoison(q, x)) \/ (\E c \in Compared : ByComparison(q, c))
       => (Stands(q) => \A r \in parts' \ parts : Stands(r))]_splitVars
=============================================================================
