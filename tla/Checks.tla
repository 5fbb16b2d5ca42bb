------------------------------- MODULE Checks -------------------------------
(***************************************************************************)
(* How a step of one goal is certified and its pair checked                 *)
(* (engine/core/state/steps.ts): which questions alive2 is asked, in which    *)
(* order and direction, on what budget, and what its answers are taken for;  *)
(* and how the window a step is asked about is found (state/narrow.ts).       *)
(*                                                                         *)
(* A program is a sequence of blocks of lines, of which the first may loop.  *)
(* It takes a value to a value, to undefined behavior, or round for ever.     *)
(* Lines are named and what each does is a constant, so that a window, the     *)
(* outer it leaves and the facts assumed at its entry are programs as well.   *)
(* Phis, names and the values a window is handed are left out. alive2 answers *)
(* right or runs out of its budget.                                          *)
(***************************************************************************)
EXTENDS Integers, Sequences, FiniteSetsExt, SequencesExt

CONSTANTS
  Values,      \* the values a program may be given and hand on
  Stop,        \* the value a loop stops at
  Ops,         \* what a line may be
  Does(_, _),  \* what a line does to a value: a value, or Undefined
  Programs,    \* the programs a side may be stepped to
  Asked,       \* the pairs the goal may start as
  Facts,       \* what may be assumed of the value a window is handed: sets of values
  Unrolls,     \* the unroll factors a check may be asked with
  EagerMs, DefaultMs, CapMs, AskedMs,   \* the budgets, and those a check may be asked for
  MaxSteps, MaxChecks                   \* bounds: the calls of a run

Undefined == -1
Diverges  == -2
CutOff    == -3     \* the run goes on past the iterations alive2 unrolls

NoUnroll == 0

ASSUME ValuesAreNat == Values \subseteq Nat /\ Stop \in Values /\ IsFiniteSet(Values)
ASSUME UnrollsArePositive == Unrolls \subseteq Nat \ {0}
ASSUME BudgetsAreNat == {EagerMs, DefaultMs, CapMs} \cup AskedMs \subseteq Nat
ASSUME BoundsAreNat == MaxSteps \in Nat /\ MaxChecks \in Nat
ASSUME OpsStay == /\ Ops \cap {"assume", "call"} = {}
                  /\ \A op \in Ops, v \in Values : Does(op, v) \in Values \cup {Undefined}

-----------------------------------------------------------------------------
(* What a program does.                                                    *)

Line(op)     == [op |-> op, facts |-> {}]
Assume(vs)   == [op |-> "assume", facts |-> vs]
Call         == Line("call")

\* The lines there are, but for the call an outer is left with.
Lines == {Line(op) : op \in Ops} \cup {Assume(vs) : vs \in SUBSET Values}

\* A program has a block at least, as a function has.
Runnable == [blocks : Seq(Seq(Lines)) \ {<<>>}, loops : BOOLEAN]

ASSUME ProgramsAreRunnable == Programs \subseteq Runnable /\ Asked \subseteq Runnable \X Runnable
ASSUME FactsAreOfValues == Facts \subseteq SUBSET Values

Perform(line, v) ==
  IF line.op = "assume" THEN (IF v \in line.facts THEN v ELSE Undefined) ELSE Does(line.op, v)

\* The value after the last line, each taking the one before it to a value or to nothing.
RunLines(lines, v) ==
  LET after[n \in 0..Len(lines)] ==
        IF n = 0 THEN v
        ELSE IF after[n - 1] = Undefined THEN Undefined ELSE Perform(lines[n], after[n - 1])
  IN  after[Len(lines)]

\* The value after the lines went round n times.
Round(lines, v, n) == RunLines(FlattenSeq([i \in 1..n |-> lines]), v)

\* The value after a first block that goes round until it is Stop, at most `limit` times.
RunLoop(lines, v, limit) ==
  LET ends == {n \in 1..limit : Round(lines, v, n) \in {Stop, Undefined}}
  IN  IF ends = {} THEN CutOff ELSE Round(lines, v, Min(ends))

\* The blocks that run once, in order.
Straightly(p) == IF p.loops THEN Tail(p.blocks) ELSE p.blocks

RunWithin(p, v, limit) ==
  LET first == IF p.loops THEN RunLoop(p.blocks[1], v, limit) ELSE v
  IN  IF first \in {Undefined, CutOff} THEN first
      ELSE RunLines(FlattenSeq(Straightly(p)), first)

\* A loop that goes round more often than there are values never stops.
RunOf(p, v) ==
  LET w == RunWithin(p, v, Cardinality(Values)) IN IF w = CutOff THEN Diverges ELSE w

Refines(q, p) == \A v \in Values : RunOf(p, v) \in {Undefined, RunOf(q, v)}

\* What alive2 shows of a pair that loops: no counterexample ends within `unroll` iterations.
RefinesWithin(q, p, unroll) ==
  \A v \in Values :
    LET r == RunWithin(p, v, unroll)
        s == RunWithin(q, v, unroll)
    IN  CutOff \in {r, s} \/ r \in {Undefined, s}

-----------------------------------------------------------------------------
VARIABLES
  hist,      \* the programs each side has held
  status,    \* open, proved or refuted
  evidence,  \* the certified steps, as the log records them
  history,   \* alive2's last answer to each question it was asked
  call,      \* the step being certified, or NoCall
  said,      \* the latest question that was answered, with its answer
  steps,     \* calls made, for the bounds
  checks

vars == <<hist, status, evidence, history, call, said, steps, checks>>

Sides == {"src", "tgt"}

HeadOf(side) == Last(hist[side])

NoCall   == [at |-> "idle"]
NoWindow == [outer |-> {}]
NoFacts  == Values
NoAnswer == [outcome |-> "none"]

Init ==
  /\ \E pair \in Asked : hist = [src |-> <<pair[1]>>, tgt |-> <<pair[2]>>]
  /\ status = "open"
  /\ evidence = {}
  /\ history = {}
  /\ call = NoCall
  /\ said = NoAnswer
  /\ steps = 0 /\ checks = 0

-----------------------------------------------------------------------------
(* Asking.                                                                 *)

\* On the src the new program has to refine the old, on the tgt the old the new.
Orient(side, before, after) ==
  IF side = "src" THEN [src |-> before, tgt |-> after] ELSE [src |-> after, tgt |-> before]

Loops(pair) == pair.src.loops \/ pair.tgt.loops

Question(pair, unroll) == [src |-> pair.src, tgt |-> pair.tgt, unroll |-> unroll]

Right(q) ==
  LET holds == IF q.unroll = NoUnroll THEN Refines(q.tgt, q.src)
               ELSE RefinesWithin(q.tgt, q.src, q.unroll)
  IN  IF holds THEN "correct" ELSE "incorrect"

\* A bug: an answer that did not come is given again.
KnownAny(q) == {h \in history : h.q = q}

\* Only a definite answer is given again.
Known(q) == {h \in history : h.q = q /\ h.outcome # "unknown"}

\* One question to alive2, as what it may come to. A pair that loops is asked about only with
\* an unroll factor.
Answers(pair, ms, unroll) ==
  LET q        == Question(pair, unroll)
      same     == pair.src = pair.tgt
      unasked(outcome) == [outcome |-> outcome, history |-> history, said |-> said]
      given(h) == [outcome |-> h.outcome, history |-> {k \in history : k.q # q} \cup {h},
                   said |-> [q |-> q, outcome |-> h.outcome, spent |-> h.ms, wanted |-> ms]]
  IN  IF same THEN {unasked("correct")}
      ELSE IF Loops(pair) /\ unroll = NoUnroll THEN {unasked("unknown")}
      ELSE IF Known(q) # {} THEN {given(h) : h \in Known(q)}
      ELSE {given([q |-> q, outcome |-> outcome, ms |-> ms]) : outcome \in {Right(q), "unknown"}}

\* The latest answer is r, and is kept.
Heard(r) == history' = r.history /\ said' = r.said

\* llops answers with no solver where the tgt only lays out the same lines in other blocks.
\* What it may also answer of attributes is left out, as lines have none.
WithoutSolver(pair) ==
  LET p == pair.src
      q == pair.tgt
  IN  /\ p.loops = q.loops
      /\ p.loops => p.blocks[1] = q.blocks[1]
      /\ FlattenSeq(Straightly(p)) = FlattenSeq(Straightly(q))

-----------------------------------------------------------------------------
(* The window an edit touched.                                             *)

Terminator(p, b) ==
  Line(IF b = 1 /\ p.loops THEN "loop" ELSE IF b = Len(p.blocks) THEN "ret" ELSE "br")

LinesOf(p, b) == Append(p.blocks[b], Terminator(p, b))

\* Where block b starts, counting every line of the body.
StartOf(p, b) == Len(FlattenSeq(SubSeq(p.blocks, 1, b - 1))) + b - 1

At(b, from, to) == [block |-> b, from |-> from, to |-> to]

\* How many lines two blocks share at each end, the terminator being no candidate at the second.
Prefix(old, new) ==
  Max({n \in 0..Len(old) : n <= Len(new) /\ \A i \in 1..n : old[i] = new[i]})

Suffix(old, new) ==
  Max({n \in 0..Len(old) : \A k \in 0..n - 1 :
         /\ k + Prefix(old, new) + 1 < Len(old) /\ k + Prefix(old, new) + 1 < Len(new)
         /\ old[Len(old) - 1 - k] = new[Len(new) - 1 - k]})

\* A bug the search could have: it starts past the last line there is to take.
CandidatesUnclamped(before, after) ==
  LET differ == {b \in DOMAIN before.blocks : LinesOf(before, b) # LinesOf(after, b)}
      b    == Min(differ)
      m    == Len(before.blocks[b])
      n    == Len(after.blocks[b])
      from == Prefix(LinesOf(before, b), LinesOf(after, b))
  IN  IF Len(before.blocks) # Len(after.blocks) \/ differ = {} THEN <<>>
      ELSE IF from >= m \/ from >= n THEN <<>>
      ELSE <<[old |-> At(b, from + 1, m), new |-> At(b, from + 1, n)]>>

\* The windows worth trying, tightest first, in the first block the two bodies disagree in:
\* from the first line they disagree on to the last, or to the end of the block while that
\* leaves something out.
Candidates(before, after) ==
  LET differ == {b \in DOMAIN before.blocks : LinesOf(before, b) # LinesOf(after, b)}
      b      == Min(differ)
      m      == Len(before.blocks[b])
      n      == Len(after.blocks[b])
      from   == Min({Prefix(LinesOf(before, b), LinesOf(after, b)), m - 1, n - 1})
      tail   == Min({Suffix(LinesOf(before, b), LinesOf(after, b)), m - 1 - from, n - 1 - from})
      to(t)  == [old |-> At(b, from + 1, m - t), new |-> At(b, from + 1, n - t)]
  IN  IF Len(before.blocks) # Len(after.blocks) \/ differ = {} THEN <<>>
      ELSE IF m = 0 \/ n = 0 THEN <<>>
      ELSE (IF tail > 0 THEN <<to(tail)>> ELSE <<>>)
             \o (IF from > 0 \/ Len(before.blocks) > 1 THEN <<to(0)>> ELSE <<>>)

Half(p, w) == [blocks |-> <<SubSeq(p.blocks[w.block], w.from, w.to)>>, loops |-> FALSE]

Outer(p, w) ==
  [p EXCEPT !.blocks[w.block] =
     SubSeq(@, 1, w.from - 1) \o <<Call>> \o SubSeq(@, w.to + 1, Len(@))]

WithLines(block, lines) ==
  FlattenSeq([i \in DOMAIN block |-> IF block[i] = Call THEN lines ELSE <<block[i]>>])

\* The outer with the lines of a half where it calls the window.
Inline(outer, half) ==
  [outer EXCEPT !.blocks = [b \in DOMAIN @ |-> WithLines(@[b], half.blocks[1])]]

\* A bug: either side's outer will do.
EitherOuter(before, after, w) == {Outer(before, w.old), Outer(after, w.new)}

\* The outers both halves go back into, which shows that the edit stays in the window.
SharedOuters(before, after, w) ==
  {outer \in {Outer(before, w.old), Outer(after, w.new)} :
     Inline(outer, Half(before, w.old)) = before /\ Inline(outer, Half(after, w.new)) = after}

\* A window is a run of lines of one block.
WindowsOf(p) ==
  UNION {UNION {{At(b, i, j) : j \in i..Len(p.blocks[b])} : i \in DOMAIN p.blocks[b]} :
         b \in DOMAIN p.blocks}

OutlineBoth(before, after, w) ==
  IF ~(w.old \in WindowsOf(before) /\ w.new \in WindowsOf(after)) THEN NoWindow
  ELSE IF SharedOuters(before, after, w) = {} THEN NoWindow
  ELSE [outer |-> CHOOSE outer \in SharedOuters(before, after, w) : TRUE,
        from |-> Half(before, w.old), to |-> Half(after, w.new)]

Narrow(before, after) ==
  LET tries == Candidates(before, after)
      found == {i \in DOMAIN tries : OutlineBoth(before, after, tries[i]) # NoWindow}
  IN  IF found = {} THEN NoWindow ELSE OutlineBoth(before, after, tries[Min(found)])

\* A window the caller names in `before` ends as far before its block's terminator in
\* `after`, and starts at the same line of the body.
NarrowAt(before, after, w) ==
  LET n  == Len(after.blocks[w.block])
      at == At(w.block, w.from + StartOf(before, w.block) - StartOf(after, w.block),
               n - (Len(before.blocks[w.block]) - w.to))
  IN  IF Len(before.blocks) # Len(after.blocks) THEN NoWindow
      ELSE OutlineBoth(before, after, [old |-> w, new |-> at])

-----------------------------------------------------------------------------
(* A step, question by question.                                           *)

Workable == status # "refuted"

\* What the log will say of the step: what was asked, and under which facts.
Record(c, by, window, facts) ==
  [side |-> c.side, before |-> HeadOf(c.side), after |-> c.after,
   by |-> by, window |-> window, facts |-> facts]

Certified(c, by, window, facts) ==
  call' = [c EXCEPT !.at = "certified", !.step = Record(c, by, window, facts)]


GoesTo(c, at) == call' = [c EXCEPT !.at = at]

\* A commit: the window the edit touched is looked for, or outlined where the caller names
\* one, and what llops answers for nothing is asked first. The caller may give facts of the
\* window's value, turn the whole function off, and turn off the check that follows.
Commit(side, after) ==
  /\ call = NoCall /\ Workable /\ steps < MaxSteps
  /\ after # HeadOf(side)
  /\ \E named \in {NoWindow} \cup WindowsOf(HeadOf(side)), sought, whole, eager \in BOOLEAN,
        facts \in {NoFacts} \cup Facts :
       LET before == HeadOf(side)
           window == IF ~sought THEN NoWindow
                     ELSE IF named # NoWindow THEN NarrowAt(before, after, named)
                     ELSE Narrow(before, after)
           c == [at |-> "window", side |-> side, after |-> after, window |-> window,
                 sought |-> sought, facts |-> facts, whole |-> whole, eager |-> eager,
                 step |-> {}]
       IN  /\ named # NoWindow => window # NoWindow
           /\ IF WithoutSolver(Orient(side, before, after))
              THEN Certified(c, "llops", NoWindow, NoFacts)
              ELSE GoesTo(c, IF window = NoWindow THEN "whole"
                             ELSE IF facts # NoFacts THEN "facts hold" ELSE "window")
  /\ steps' = steps + 1
  /\ UNCHANGED <<hist, status, evidence, history, said, checks>>

Assuming(half, facts) == [half EXCEPT !.blocks[1] = <<Assume(facts)>> \o @]

\* The outer with the facts assumed where it calls the window, and a half put back there,
\* which is the half under its facts put back.
Assumed(w, half, facts) == Inline(w.outer, Assuming(half, facts))

\* A bug: the facts are always asked about in the program the step leaves.
FactsHoldBefore(c) == [src |-> HeadOf(c.side), tgt |-> Assumed(c.window, c.window.from, c.facts)]

\* The facts hold at the window wherever the program that is replaced in the question is
\* defined: on the src the one before, on the tgt the one after.
FactsHold(c) ==
  IF c.side = "src" THEN [src |-> HeadOf(c.side), tgt |-> Assumed(c.window, c.window.from, c.facts)]
  ELSE [src |-> c.after, tgt |-> Assumed(c.window, c.window.to, c.facts)]

AskFactsHold ==
  LET c == call
  IN  /\ c.at = "facts hold"
      /\ \E r \in Answers(FactsHold(c), DefaultMs, NoUnroll) :
           Heard(r) /\ GoesTo(c, IF r.outcome = "correct" THEN "facts" ELSE "window")
      /\ UNCHANGED <<hist, status, evidence, steps, checks>>

\* What refutes the halves under the facts refutes them without.
AskFacts ==
  LET c == call
  IN  /\ c.at = "facts"
      /\ \E r \in Answers(Orient(c.side, Assuming(c.window.from, c.facts),
                                         Assuming(c.window.to, c.facts)), EagerMs, NoUnroll) :
           /\ Heard(r)
           /\ CASE r.outcome = "correct"   -> Certified(c, "alive2", c.window, c.facts)
                [] r.outcome = "incorrect" -> GoesTo(c, "whole")
                [] OTHER                   -> GoesTo(c, "window")
      /\ UNCHANGED <<hist, status, evidence, steps, checks>>

AskWindow ==
  LET c == call
  IN  /\ c.at = "window"
      /\ \E r \in Answers(Orient(c.side, c.window.from, c.window.to), EagerMs, NoUnroll) :
           /\ Heard(r)
           /\ IF r.outcome = "correct" THEN Certified(c, "alive2", c.window, NoFacts)
              ELSE GoesTo(c, "whole")
      /\ UNCHANGED <<hist, status, evidence, steps, checks>>

\* Only the whole function can refuse a step, and it is not asked where the caller turned
\* that off.
AskWhole ==
  LET c == call
  IN  /\ c.at = "whole"
      /\ IF ~c.whole THEN call' = NoCall /\ UNCHANGED <<history, said>>
         ELSE \E r \in Answers(Orient(c.side, HeadOf(c.side), c.after), DefaultMs, NoUnroll) :
                /\ Heard(r)
                /\ IF r.outcome = "correct" THEN Certified(c, "alive2", NoWindow, NoFacts)
                   ELSE call' = NoCall
      /\ UNCHANGED <<hist, status, evidence, steps, checks>>

\* The rewriter's rules certify what it makes of the src.
Rewrite(after) ==
  LET c == [at |-> "certified", side |-> "src", after |-> after, window |-> NoWindow,
            sought |-> FALSE, facts |-> NoFacts, whole |-> FALSE, eager |-> TRUE, step |-> {}]
  IN  /\ call = NoCall /\ Workable /\ steps < MaxSteps
      /\ after # HeadOf("src")
      /\ Refines(after, HeadOf("src"))
      /\ Certified(c, "llrwt", NoWindow, NoFacts)
      /\ steps' = steps + 1
      /\ UNCHANGED <<hist, status, evidence, history, said, checks>>

\* The step lands, which reopens a proved goal, and the new pair is checked.
Lands(c, outcome) ==
  /\ hist' = [hist EXCEPT ![c.side] = Append(@, c.after)]
  /\ status' = IF outcome = "correct" THEN "proved" ELSE "open"
  /\ evidence' = evidence \cup {c.step}
  /\ call' = NoCall
  /\ UNCHANGED <<steps, checks>>

PairAfter(c) == [s \in Sides |-> IF s = c.side THEN c.after ELSE HeadOf(s)]

Land ==
  LET c == call
      pair == PairAfter(c)
  IN  /\ c.at = "certified"
      /\ IF ~c.eager THEN Lands(c, "unknown") /\ UNCHANGED <<history, said>>
         ELSE IF pair.src # pair.tgt /\ WithoutSolver(pair)
              THEN Lands(c, "correct") /\ UNCHANGED <<history, said>>
         ELSE \E r \in Answers(pair, EagerMs, NoUnroll) : Heard(r) /\ Lands(c, r.outcome)

-----------------------------------------------------------------------------
(* A check of the goal's pair.                                             *)

\* A pair that loops is searched for a counterexample, and never proved.
IsProof(outcome, loops) == outcome = "correct" /\ ~loops

RootPair == \A s \in Sides : HeadOf(s) = hist[s][1]

Concludes(outcome, loops) ==
  status' = CASE IsProof(outcome, loops)              -> "proved"
              [] outcome = "incorrect" /\ RootPair    -> "refuted"
              [] OTHER                                -> status

CheckGoal(ms, unroll) ==
  LET pair  == [s \in Sides |-> HeadOf(s)]
      same  == pair.src = pair.tgt
      loops == ~same /\ Loops(pair)
  IN  /\ call = NoCall /\ Workable /\ checks < MaxChecks
      /\ IF ~same /\ WithoutSolver(pair)
         THEN status' = "proved" /\ UNCHANGED <<history, said>>
         ELSE IF loops /\ unroll = NoUnroll
              THEN UNCHANGED <<status, history, said>>
         ELSE \E r \in Answers(pair, Min({ms, CapMs}), IF loops THEN unroll ELSE NoUnroll) :
                Heard(r) /\ Concludes(r.outcome, loops)
      /\ checks' = checks + 1
      /\ UNCHANGED <<hist, evidence, call, steps>>

\* A pair of the caller's is asked about, and nothing comes of it but the answer.
RefinementCheck(pair, ms, unroll) ==
  /\ call = NoCall /\ checks < MaxChecks
  /\ \E r \in Answers([src |-> pair[1], tgt |-> pair[2]], Min({ms, CapMs}), unroll) : Heard(r)
  /\ checks' = checks + 1
  /\ UNCHANGED <<hist, status, evidence, call, steps>>

Next ==
  \/ \E side \in Sides, after \in Programs : Commit(side, after)
  \/ \E after \in Programs : Rewrite(after)
  \/ AskFactsHold \/ AskFacts \/ AskWindow \/ AskWhole
  \/ Land
  \/ \E ms \in AskedMs, unroll \in {NoUnroll} \cup Unrolls :
       \/ CheckGoal(ms, unroll)
       \/ \E pair \in Asked : RefinementCheck(pair, ms, unroll)

Spec == Init /\ [][Next]_vars

-----------------------------------------------------------------------------
(* What has to hold.                                                       *)

TypeOK ==
  /\ status \in {"open", "proved", "refuted"}
  /\ call.at \in {"idle", "facts hold", "facts", "window", "whole", "certified"}
  /\ call.at \in {"facts hold", "facts", "window"} => call.window # NoWindow
  /\ steps \in 0..MaxSteps /\ checks \in 0..MaxChecks
  /\ \A h, k \in history : h.q = k.q => h = k

\* What is concluded is true (steps.ts checkStep, checkGoal): a step makes its side's claim
\* stronger, whether a window under facts, a window, the whole, llops or the rewriter
\* certified it; a proved pair refines, and a refuted question has a counterexample.
\* Unrolled loops and answers that did not come are never taken for more.
ConclusionsTrue ==
  /\ \A e \in evidence : LET q == Orient(e.side, e.before, e.after) IN Refines(q.tgt, q.src)
  /\ status = "proved" => Refines(HeadOf("tgt"), HeadOf("src"))
  /\ status = "refuted" => ~Refines(hist["tgt"][1], hist["src"][1])

\* What is recorded of a step shows it again (steps.ts step.window, check.py window): both
\* halves go back into the outer, and the small pair refines under the facts written with it
\* and no others.
Replayable ==
  \A e \in evidence : e.window # NoWindow =>
    LET q == Orient(e.side, Assuming(e.window.from, e.facts), Assuming(e.window.to, e.facts))
    IN  /\ Inline(e.window.outer, e.window.from) = e.before
        /\ Inline(e.window.outer, e.window.to) = e.after
        /\ ~q.src.loops /\ ~q.tgt.loops
        /\ Refines(q.tgt, q.src)

\* An answer is one to the question it is given to (steps.ts alive2, history): a definite one
\* is right about the pair and the unroll factor, and one that did not come was waited for
\* as long as this caller asked, which is one of the two set budgets or within the cap.
AnswersFit ==
  /\ said.outcome \in {"correct", "incorrect"} => said.outcome = Right(said.q)
  /\ said.outcome = "unknown" => said.spent = said.wanted /\ said.spent \in {EagerMs, DefaultMs} \cup 0..CapMs

\* The search finds a window wherever there is one that leaves something out (narrow.ts
\* candidates, outlineBoth).
WindowFound ==
  call.at = "whole" /\ call.sought /\ call.window = NoWindow =>
    LET before == HeadOf(call.side)
        wholeBody(w) == Len(before.blocks) = 1 /\ w.from = 1 /\ w.to = Len(before.blocks[1])
    IN  \A old \in WindowsOf(before), new \in WindowsOf(call.after) :
          old.block = new.block /\ SharedOuters(before, call.after, [old |-> old, new |-> new]) # {}
          => wholeBody(old)

=============================================================================
