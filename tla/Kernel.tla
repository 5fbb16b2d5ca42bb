------------------------------- MODULE Kernel -------------------------------
(***************************************************************************)
(* kernel/check.py: the replay of a certificate. A manifest is any value of *)
(* its shape, since nothing here believes it. The replay walks the goals    *)
(* from the root, each along its chain and then into what discharged it.    *)
(*                                                                         *)
(* A run of the checkers is an answer that is right or missing: alive-tv    *)
(* and llops's reshaped and respected answer by Refines. What llops and     *)
(* llrwt make of a program is the same each time, and is a function here.   *)
(***************************************************************************)
EXTENDS GoalTree, FiniteSets

CONSTANTS
  Manifests,   \* the certificates the kernel may be handed
  Inputs,      \* the inputs a counterexample may name
  NoInput,     \* that it names none
  Diverges,    \* the pairs and inputs at which the tgt does what the src does not allow
  Looping,     \* the programs that loop
  FnNames,     \* the functions a cut may name
  NoFn,        \* that it names none
  Ways,        \* how a callee is put back: inlined or reattached, and with which slots or phis
  Rules,       \* the rules a rewrite may name
  ParamFacts, FnFacts, Predicates, RetFacts,  \* what a contract may say
  Splitters    \* what a goal may be split by cases on

\* What llops and llrwt make of a program: canonical, as the kernel compares it.
CONSTANTS
  Rewritten(_, _),              \* rules and a program
  Unfolded(_, _),               \* a program with a loop's body put at its calls of a function
  WithAttrs(_, _, _),           \* attributes put on a function of a program
  AssumedAtStart(_, _, _),      \* facts assumed at the start of a function
  AssumedBeforeCalls(_, _, _),  \* facts assumed before each call of a function
  Inlined(_, _, _),             \* a window's half put back into its outer
  Rebuilt(_, _, _, _),          \* a callee put back into its outer on a side of a cut
  CaseOf(_, _, _)               \* the case of a splitter, holds or fails, of a program

\* What llops says of a program.
CONSTANTS
  Signature(_, _),  \* the types and attributes a function is declared or defined with
  Naming,           \* the programs with the functions they declare or define
  Bare,             \* the programs with those they name without any attribute
  BodyAttrs,        \* the programs whose function has body_attrs
  Covered,          \* the splitters and src in which each parameter compared is noundef
  Splittable        \* the splitters and programs that llops splits

Gids     == Nat \ {NoGoal}
ProofRoles == {"none", "outer", "callee"}
Facts      == ParamFacts \cup FnFacts \cup Predicates \cup RetFacts
EntryFacts == ParamFacts \cup Predicates

Pair(s, t) == [side \in Sides |-> IF side = "src" THEN s ELSE t]
Pairs      == [Sides -> Programs]
Holding(pair) == Claim(pair["src"], pair["tgt"])

\* The pair a step is asked about: the src optimises forward, the tgt deoptimises backward.
Shown(side, from, to) == IF side = "src" THEN <<to, from>> \in Refines ELSE <<from, to>> \in Refines

\* The shape of a manifest, which a reader of the file relies on.
Narrowings == [outer : Programs, from : Programs, to : Programs, callee : FnNames, facts : SUBSET EntryFacts]

Steps ==
  [kind : {"check", "unfold"}, side : Sides, from : Programs, to : Programs]
  \cup [kind : {"rewrite"}, side : Sides, from : Programs, to : Programs, rules : Rules, invoked : Rules]
  \cup [kind : {"window"}, side : Sides, from : Programs, to : Programs, window : Narrowings]
  \cup [kind : {"strengthen"}, from : Pairs, to : Pairs, facts : SUBSET Facts, by : Seq(Gids \X Programs)]

Discharges ==
  [kind : {"check"}]
  \cup [kind : {"interpose"}, program : Programs, lhs : Gids, rhs : Gids]
  \cup [kind : {"case"}, on : Splitters, holds : Gids, fails : Gids]
  \cup [kind : {"cut"}, outer : Gids, inner : Gids, callee : FnNames, hypothesis : FnNames \cup {NoFn},
         way : Ways, alone : BOOLEAN]

ProofGoals == [start : Pairs, steps : Seq(Steps), end : Pairs, discharge : Discharges]

Shaped(m) ==
  \/ /\ m.verdict = "verified"
     /\ m.root \in DOMAIN m.goals
     /\ \A g \in DOMAIN m.goals : m.goals[g] \in ProofGoals
  \/ /\ m.verdict = "counterexample"
     /\ m.pair \in Pairs
     /\ m.input \in Inputs \cup {NoInput}
     /\ m.source \in {"alive2", "llubi"}

ASSUME ManifestsShaped == \A m \in Manifests : Shaped(m)

Sided(step) == step.kind \in {"check", "window", "rewrite", "unfold"}

-----------------------------------------------------------------------------
(* What one step has to show.  A frame says what its goal is to a cut: the  *)
(* role, the function the cut outlined, and the hypothesis of a loop.       *)

Put(p, fn, facts) == IF facts = {} THEN p ELSE WithAttrs(p, fn, facts)

\* Parameter facts on the declaration of a function, predicates before each call of it.
Enforced(p, fn, facts) ==
  LET declared == Put(p, fn, facts \cap ParamFacts)
  IN  IF facts \cap Predicates = {} THEN declared
      ELSE AssumedBeforeCalls(declared, fn, facts \cap Predicates)

\* A bug: the chain goes on from wherever a step says it starts.
GoesOnAnywhere(step, head) == TRUE
GoesOn(step, head) == step.from = head[step.side]

CheckHolds(step, head) == GoesOn(step, head) /\ Shown(step.side, step.from, step.to)

\* The facts of a window hold in the whole that its step starts to be judged from.
FactsHold(side, w) ==
  LET half == IF side = "src" THEN w.from ELSE w.to
  IN  Shown("src", Inlined(w.callee, w.outer, half),
                   Inlined(w.callee, AssumedBeforeCalls(w.outer, w.callee, w.facts), half))

\* A half of a window with the facts put on it.
Supposed(w, half) ==
  LET stated == Put(half, w.callee, w.facts \cap ParamFacts)
  IN  IF w.facts \cap Predicates = {} THEN stated
      ELSE AssumedAtStart(stated, w.callee, w.facts \cap Predicates)

WindowShown(side, w) ==
  /\ Inlined(w.callee, w.outer, w.from) \notin BodyAttrs
  /\ w.facts # {} => FactsHold(side, w)
  /\ Shown(side, Supposed(w, w.from), Supposed(w, w.to))

WindowHolds(step, head) ==
  /\ GoesOn(step, head)
  /\ Inlined(step.window.callee, step.window.outer, step.window.from) = step.from
  /\ Inlined(step.window.callee, step.window.outer, step.window.to) = step.to
  /\ WindowShown(step.side, step.window)

RewriteHolds(step, head) ==
  /\ step.side = "src"
  /\ step.rules = step.invoked
  /\ GoesOn(step, head)
  /\ Rewritten(step.rules, step.from) = step.to

UnfoldHolds(step, f, head) ==
  /\ f.loop # NoFn
  /\ GoesOn(step, head)
  /\ Unfolded(step.from, f.loop) = step.to

\* A callee with a contract put on its definition: of a loop, what it returns is said of
\* the hypothesis too, and the tgt takes the contract before its own calls.
WithContract(p, side, f, facts) ==
  LET returns  == facts \cap RetFacts
      stated   == Put(p, f.fn, facts \cap (ParamFacts \cup FnFacts))
      assumed  == IF facts \cap Predicates = {} THEN stated
                  ELSE AssumedAtStart(stated, f.fn, facts \cap Predicates)
      returned == Put(assumed, f.fn, returns)
      again    == IF f.loop = NoFn THEN returned ELSE Put(returned, f.loop, returns)
  IN  IF side = "tgt" /\ f.loop # NoFn THEN Enforced(again, f.loop, facts) ELSE again

\* What the callee's src owes for facts on the function or on its return, the latter by
\* induction over the calls of the hypothesis, and so alone.
Keeps(step, f) ==
  LET src     == step.from["src"]
      returns == step.facts \cap RetFacts
      assumed == IF f.loop = NoFn THEN src ELSE Put(src, f.loop, returns)
  IN  /\ step.facts \cap FnFacts # {} => Shown("src", src, Put(src, f.fn, step.facts \cap FnFacts))
      /\ returns # {} => step.facts = returns /\ Shown("src", assumed, Put(assumed, f.fn, returns))

CalleeHolds(step, f, head) ==
  /\ step.facts # {}
  /\ step.from = head
  /\ Keeps(step, f)
  /\ \A side \in Sides : WithContract(step.from[side], side, f, step.facts) = step.to[side]

TakesReturns(step) == step.facts # {} /\ step.facts \subseteq RetFacts /\ step.by = <<>>

OuterHolds(step, f, head) ==
  /\ TakesReturns(step)
  /\ step.from = head
  /\ \A side \in Sides : Put(step.from[side], f.fn, step.facts) = step.to[side]

StepHolds(step, f, head) ==
  \/ step.kind = "check" /\ CheckHolds(step, head)
  \/ step.kind = "window" /\ WindowHolds(step, head)
  \/ step.kind = "rewrite" /\ RewriteHolds(step, head)
  \/ step.kind = "unfold" /\ UnfoldHolds(step, f, head)
  \/ step.kind = "strengthen" /\ f.role = "callee" /\ CalleeHolds(step, f, head)
  \/ step.kind = "strengthen" /\ f.role = "outer" /\ OuterHolds(step, f, head)

-----------------------------------------------------------------------------
(* Chains, which the replay walks a step at a time.                        *)

Last(at) == CHOOSE i \in at : \A j \in at : j <= i

Moves(step, side) == Sided(step) => step.side = side
ToOf(step, side)  == IF Sided(step) THEN step.to ELSE step.to[side]

\* The pair a step leaves when it starts at `head`.
MovedBy(step, head) == [side \in Sides |-> IF Moves(step, side) THEN ToOf(step, side) ELSE head[side]]

\* Where a chain is after its first n steps.
HeadAfter(goal, n) ==
  [side \in Sides |->
     LET by == {i \in 1..n : Moves(goal.steps[i], side)}
     IN  IF by = {} THEN goal.start[side] ELSE ToOf(goal.steps[Last(by)], side)]

Strengthens(goal) == {i \in 1..Len(goal.steps) : goal.steps[i].kind = "strengthen"}

StrengthensBy(goal, n) == {i \in Strengthens(goal) : i <= n}

\* The pair a goal's claim is worth something at after its first n steps: contracts are the cut's.
BaseAfter(goal, n) ==
  LET by == StrengthensBy(goal, n)
  IN  IF by = {} THEN goal.start ELSE goal.steps[Last(by)].to

BasePair(goal) == BaseAfter(goal, Len(goal.steps))

\* The first n steps of a goal each show what they have to, where the chain then is.
StepsShown(goal, n, f) == \A i \in 1..n : StepHolds(goal.steps[i], f, HeadAfter(goal, i - 1))

-----------------------------------------------------------------------------
(* The proof that a contract holds at the calls of the callee.             *)

\* Where the proof that made `proved` starts: the first step of the chain to it.
FirstTo(goal, proved) ==
  LET at == {i \in 1..Len(goal.steps) :
               Sided(goal.steps[i]) /\ goal.steps[i].side = "src" /\ goal.steps[i].to = proved}
  IN  {i \in at : \A j \in at : i <= j}

LinksTo(step, gid) == {i \in 1..Len(step.by) : step.by[i][1] = gid}

\* The program a strengthening names as its proof in a goal: the first it names there.
ProvedIn(step, gid) ==
  {step.by[i][2] : i \in {i \in LinksTo(step, gid) : \A j \in LinksTo(step, gid) : i <= j}}

\* The program a callee goal is interposed at, if its strengthen names it as a proof.
Between(m, inner) ==
  LET goal == m.goals[inner]
  IN  IF goal.discharge.kind # "interpose" THEN {}
      ELSE {p \in {goal.discharge.program} :
              \E i \in Strengthens(goal) :
                \E j \in LinksTo(goal.steps[i], inner) : goal.steps[i].by[j][2] = p}

\* The outer's proof, with no unfold after it.
ProofAtCalls(m, d, step, p) ==
  LET steps == m.goals[d.outer].steps
  IN  \E i \in FirstTo(m.goals[d.outer], p) :
        /\ \A j \in i + 1..Len(steps) : steps[j].kind # "unfold"
        /\ Enforced(steps[i].from, d.callee, step.facts) = p

\* One iteration keeps what the entry assumed: the proof starts at the program it is assumed in.
ProofOfIteration(m, d, step, p) ==
  LET goal == m.goals[d.inner]
  IN  /\ \/ \E i \in FirstTo(goal, p) : goal.steps[i].from = step.to["src"]
         \/ FirstTo(goal, p) = {} /\ p \in Between(m, d.inner) /\ goal.end["src"] = step.to["src"]
      /\ Enforced(step.to["src"], d.hypothesis, step.facts) = p

PredicatesHold(m, d, step) ==
  /\ \E p \in ProvedIn(step, d.outer) : ProofAtCalls(m, d, step, p)
  /\ d.hypothesis # NoFn => \E p \in ProvedIn(step, d.inner) : ProofOfIteration(m, d, step, p)

-----------------------------------------------------------------------------
(* A cut.                                                                  *)

CutSides(d) == IF d.alone THEN {"src"} ELSE Sides

Rebuilds(m, goal, d) ==
  \A side \in CutSides(d) :
    /\ Rebuilt(d, side, m.goals[d.outer].start[side], m.goals[d.inner].start[side]) = goal.end[side]
    /\ goal.end[side] \notin BodyAttrs

\* A cut of the src alone: the tgt stays as it is, and knows nothing of the callee.
LeavesTgt(m, goal, d) ==
  d.alone => /\ m.goals[d.outer].start["tgt"] = goal.end["tgt"]
             /\ Strengthens(m.goals[d.outer]) \cup Strengthens(m.goals[d.inner]) = {}
             /\ <<goal.end["tgt"], d.callee>> \notin Naming

SaysTheSame(m, d) ==
  \A side \in CutSides(d) :
    Signature(m.goals[d.outer].end[side], d.callee) = Signature(m.goals[d.inner].end[side], d.callee)

\* The programs a loop's own calls are judged in: of the src, the one between if there is one.
IterationEnds(m, d) ==
  LET between == Between(m, d.inner)
      end     == m.goals[d.inner].end
  IN  {end["tgt"]} \cup (IF between = {} THEN {end["src"]} ELSE between)

\* The hypothesis says what the definition says, no more.
SaysOfItself(m, d) ==
  d.hypothesis # NoFn =>
    \A p \in IterationEnds(m, d) : Signature(p, d.hypothesis) = Signature(p, d.callee)

\* The programs at which the halves start and the functions that are to be bare there.
BareStarts(m, d) ==
  {<<m.goals[d.outer].start[side], d.callee>> : side \in CutSides(d)}
  \cup {<<m.goals[d.inner].start[side], fn>> : side \in Sides, fn \in {d.callee, d.hypothesis} \ {NoFn}}

AddsNothing(m, d) == BareStarts(m, d) \subseteq Bare

\* Predicates are proved before each call, a recursive callee takes no attribute of its own,
\* and an outer takes what one of the callee's own strengthenings showed it returns.
ContractProved(m, d) ==
  LET outer == m.goals[d.outer]
      inner == m.goals[d.inner]
  IN  /\ \A i \in Strengthens(inner) :
           /\ inner.steps[i].facts \cap Predicates # {} => PredicatesHold(m, d, inner.steps[i])
           /\ d.hypothesis # NoFn => inner.steps[i].facts \cap FnFacts = {}
      /\ \A i \in Strengthens(outer) :
           /\ outer.steps[i].facts \cap RetFacts # {}
           /\ \E j \in Strengthens(inner) :
                outer.steps[i].facts \cap RetFacts = inner.steps[j].facts \cap RetFacts

CutHolds(m, goal, d) ==
  /\ Rebuilds(m, goal, d) /\ LeavesTgt(m, goal, d)
  /\ SaysTheSame(m, d) /\ SaysOfItself(m, d)
  /\ AddsNothing(m, d) /\ ContractProved(m, d)

\* A function the kernel asks about is named where it has to be, else it refuses.
NamesFunctions(m, d) ==
  /\ BareStarts(m, d) \subseteq Naming
  /\ \A side \in CutSides(d), g \in {d.outer, d.inner} : <<m.goals[g].end[side], d.callee>> \in Naming
  /\ d.hypothesis # NoFn =>
       \A p \in IterationEnds(m, d), fn \in {d.callee, d.hypothesis} : <<p, fn>> \in Naming

\* A goal as a part of another.
Part(gid, role, fn, loop) == [gid |-> gid, role |-> role, fn |-> fn, loop |-> loop]
Alone(gid)  == Part(gid, "none", NoFn, NoFn)
OuterOf(d)  == Part(d.outer, "outer", d.callee, d.hypothesis)
CalleeOf(d) == Part(d.inner, "callee", d.callee, d.hypothesis)

\* What a goal owes the one it is part of: its claim, and the halves of a cut each step of
\* their chain, their claim from where their contract was assumed, and that of the
\* program between.
Owes(m, part) ==
  LET goal == m.goals[part.gid]
  IN  IF part.role = "none" THEN Holding(goal.start)
      ELSE /\ Holding(BasePair(goal)) /\ Holding(goal.end)
           /\ StepsShown(goal, Len(goal.steps), part)
           /\ HeadAfter(goal, Len(goal.steps)) = goal.end
           /\ Between(m, part.gid) # {} => Holding(Pair(goal.end["src"], goal.discharge.program))

-----------------------------------------------------------------------------
(* What the kernel trusts: of the tools it does not ask twice, and of the   *)
(* rules by which what it asked shows what it did not.                      *)

ASSUME RewriterRight == \A rules \in Rules, p \in Programs : <<Rewritten(rules, p), p>> \in Refines
ASSUME UnfoldingSame ==
  \A p \in Programs, fn \in FnNames :
    <<Unfolded(p, fn), p>> \in Refines /\ <<p, Unfolded(p, fn)>> \in Refines
ASSUME DivergenceRefutes ==
  \A pair \in Pairs, i \in Inputs \cup {NoInput} : <<pair, i>> \in Diverges => ~Holding(pair)

\* A window in its outer does what it does alone, under facts shown of the whole.
ASSUME WindowRule ==
  \A side \in Sides, w \in Narrowings :
    WindowShown(side, w) =>
      Shown(side, Inlined(w.callee, w.outer, w.from), Inlined(w.callee, w.outer, w.to))

\* Every input the src defines lies in one of the cases of a split that is covered.
ASSUME CasesCover ==
  \A on \in Splitters, s, t \in Programs :
    /\ <<on, s>> \in Covered /\ {<<on, s>>, <<on, t>>} \subseteq Splittable
    /\ \A case \in {"holds", "fails"} : Claim(CaseOf(on, case, s), CaseOf(on, case, t))
    => Claim(s, t)

\* The rule of a cut, which the kernel is built on: the pair at the end of a goal holds
\* when all that it checks of the cut and of both halves does.
ASSUME CutRule ==
  \A m \in Manifests : m.verdict = "verified" =>
    \A g \in DOMAIN m.goals :
      LET goal == m.goals[g]
          d    == goal.discharge
      IN  /\ d.kind = "cut"
          /\ {d.outer, d.inner} \subseteq DOMAIN m.goals
          /\ NamesFunctions(m, d) /\ CutHolds(m, goal, d)
          /\ Owes(m, OuterOf(d)) /\ Owes(m, CalleeOf(d))
          => Holding(goal.end)

-----------------------------------------------------------------------------
(* The replay.                                                             *)

VARIABLES
  manifest,   \* the certificate
  stack,      \* the goals being checked, each where its chain has come to
  failed,     \* whether an obligation failed
  said        \* what the kernel says in the end

vars == <<manifest, stack, failed, said>>

Frame(m, part) ==
  [gid |-> part.gid, role |-> part.role, fn |-> part.fn, loop |-> part.loop,
   at |-> 1, head |-> m.goals[part.gid].start]

Init ==
  /\ manifest \in Manifests
  /\ stack = IF manifest.verdict = "verified" THEN <<Frame(manifest, Alone(manifest.root))>> ELSE <<>>
  /\ failed = FALSE
  /\ said = "nothing"

Top  == stack[Len(stack)]
Goal == manifest.goals[Top.gid]
Step == Goal.steps[Top.at]

Replaying == said = "nothing" /\ manifest.verdict = "verified" /\ stack # <<>>
Walking   == Replaying /\ Top.at <= Len(Goal.steps)

\* A program that is missing, is not what its name says or is not canonical, and a tool that
\* does not answer, end the replay.
Refuse ==
  /\ said = "nothing"
  /\ said' = "refused"
  /\ UNCHANGED <<manifest, stack, failed>>

\* An obligation no tool answers fails like one that does not hold. A failure is only counted.
Counted(holds) == failed' \in {failed \/ ~holds, TRUE}

\* A step is taken to be made whether or not it holds.
Walked(head, holds) ==
  /\ stack' = [stack EXCEPT ![Len(stack)].at = @ + 1, ![Len(stack)].head = head]
  /\ Counted(holds)
  /\ UNCHANGED <<manifest, said>>

Moved == MovedBy(Step, Top.head)

CheckStep ==
  /\ Walking /\ Step.kind = "check"
  /\ Walked(Moved, CheckHolds(Step, Top.head))

\* Both halves put back into the window's outer make the two wholes, and the small pair
\* shows the step under facts shown of the whole.
WindowStep ==
  /\ Walking /\ Step.kind = "window"
  /\ Walked(Moved, WindowHolds(Step, Top.head))

RewriteStep ==
  /\ Walking /\ Step.kind = "rewrite"
  /\ Walked(Moved, RewriteHolds(Step, Top.head))

UnfoldStep ==
  /\ Walking /\ Step.kind = "unfold"
  /\ Walked(Moved, UnfoldHolds(Step, Top, Top.head))

\* A strengthening of a callee, which takes some fact.
StrengthenCallee ==
  /\ Walking /\ Step.kind = "strengthen" /\ Top.role = "callee" /\ Step.facts # {}
  /\ Walked(Moved, CalleeHolds(Step, Top, Top.head))

\* Of an outer, which takes return facts alone.
StrengthenOuter ==
  /\ Walking /\ Step.kind = "strengthen" /\ Top.role = "outer"
  /\ Walked(IF TakesReturns(Step) THEN Moved ELSE Top.head, OuterHolds(Step, Top, Top.head))

\* Of a goal that is neither.
StrengthenOther ==
  /\ Walking /\ Step.kind = "strengthen" /\ Top.role = "none"
  /\ Walked(Top.head, FALSE)

-----------------------------------------------------------------------------
(* What discharged a goal, at the end of its chain.                        *)

Popped == SubSeq(stack, 1, Len(stack) - 1)

\* A bug: the pair a goal ends at is not compared with the one its chain came to.
EndsAnywhere == TRUE
EndsThere == Top.head = Goal.end

Ended(kind) == Replaying /\ Top.at > Len(Goal.steps) /\ Goal.discharge.kind = kind

\* The goals `halves` come next, the first of them first, where all that is asked about is there.
Discharged(holds, there, halves) ==
  /\ Counted(EndsThere /\ holds)
  /\ IF there
     THEN /\ stack' = Popped \o [i \in 1..Len(halves) |-> Frame(manifest, halves[Len(halves) + 1 - i])]
          /\ UNCHANGED said
     ELSE stack' = Popped /\ said' = "refused"
  /\ UNCHANGED manifest

AllThere(gids) == gids \subseteq DOMAIN manifest.goals

\* The same program on both sides needs no checker.
DischargeCheck ==
  /\ Ended("check")
  /\ Discharged(Goal.end["src"] = Goal.end["tgt"] \/ Holding(Goal.end), TRUE, <<>>)

StartsAt(gid, pair) == gid \in DOMAIN manifest.goals => manifest.goals[gid].start = pair

\* A bug: only the first half of an interpose is compared.
LhsStarts(d) == StartsAt(d.lhs, Pair(Goal.end["src"], d.program))

HalvesStart(d) ==
  /\ StartsAt(d.lhs, Pair(Goal.end["src"], d.program))
  /\ StartsAt(d.rhs, Pair(d.program, Goal.end["tgt"]))

DischargeInterpose ==
  /\ Ended("interpose")
  /\ LET d == Goal.discharge
     IN  Discharged(HalvesStart(d), AllThere({d.lhs, d.rhs}), <<Alone(d.lhs), Alone(d.rhs)>>)

CasesOf(on, case) == Pair(CaseOf(on, case, Goal.end["src"]), CaseOf(on, case, Goal.end["tgt"]))

CasesStart(d) ==
  /\ <<d.on, Goal.end["src"]>> \in Covered
  /\ StartsAt(d.holds, CasesOf(d.on, "holds"))
  /\ StartsAt(d.fails, CasesOf(d.on, "fails"))

DischargeCase ==
  /\ Ended("case")
  /\ LET d == Goal.discharge
     IN  Discharged(CasesStart(d),
                    /\ AllThere({d.holds, d.fails})
                    /\ {<<d.on, Goal.end[side]>> : side \in Sides} \subseteq Splittable,
                    <<Alone(d.holds), Alone(d.fails)>>)

DischargeCut ==
  /\ Ended("cut")
  /\ LET d     == Goal.discharge
         there == AllThere({d.outer, d.inner})
     IN  Discharged(there => CutHolds(manifest, Goal, d),
                    there /\ NamesFunctions(manifest, d),
                    <<OuterOf(d), CalleeOf(d)>>)

Conclude ==
  /\ said = "nothing" /\ manifest.verdict = "verified" /\ stack = <<>>
  /\ said' = IF failed THEN "not verified" ELSE "verified"
  /\ UNCHANGED <<manifest, stack, failed>>

-----------------------------------------------------------------------------
(* A counterexample.                                                       *)

Loops(pair) == \E side \in Sides : pair[side] \in Looping

\* What alive-tv may say of a pair at an input, its loops unrolled that often.
Answers(pair, input, unroll) ==
  IF ~Loops(pair)
  THEN {"no answer", IF <<pair, input>> \in Diverges THEN "incorrect" ELSE "correct"}
  ELSE {"no answer", "correct"} \cup (IF <<pair, input>> \in Diverges THEN {"incorrect"} ELSE {})

\* alive-tv's no is an answer, unless it is about the iterations it unrolled only.
Decided(pair, answer) == answer = "correct" /\ ~Loops(pair)

\* llubi runs what alive-tv leaves undecided, and only where llubi named the counterexample:
\* a run that errs, or does not stand for the src's, refutes nothing.
Refutes(m, answer, ran) ==
  \/ answer = "incorrect"
  \/ m.source = "llubi" /\ ~Decided(m.pair, answer) /\ ran /\ <<m.pair, m.input>> \in Diverges

Confirm ==
  /\ said = "nothing" /\ manifest.verdict = "counterexample"
  /\ LET m == manifest
         asks == IF Loops(m.pair) /\ m.unroll = 0 THEN {"not asked"} ELSE Answers(m.pair, m.input, m.unroll)
     IN  IF \/ m.source = "llubi" /\ m.input = NoInput
            \/ m.source = "alive2" /\ asks = {"not asked"}
         THEN said' = "refused"
         ELSE \E answer \in asks, ran \in BOOLEAN :
                said' = IF Refutes(m, answer, ran) THEN "counterexample" ELSE "not a counterexample"
  /\ UNCHANGED <<manifest, stack, failed>>

Next ==
  \/ CheckStep \/ WindowStep \/ RewriteStep \/ UnfoldStep
  \/ StrengthenCallee \/ StrengthenOuter \/ StrengthenOther
  \/ DischargeCheck \/ DischargeInterpose \/ DischargeCase \/ DischargeCut
  \/ Conclude \/ Confirm \/ Refuse

Spec == Init /\ [][Next]_vars

-----------------------------------------------------------------------------
(* What has to hold.                                                       *)

Words == {"nothing", "refused", "verified", "not verified", "counterexample", "not a counterexample"}

Frames == [gid : DOMAIN manifest.goals, role : ProofRoles, fn : FnNames \cup {NoFn},
           loop : FnNames \cup {NoFn}, at : Nat \ {0}, head : Pairs]

TypeOK ==
  /\ Shaped(manifest)
  /\ failed \in BOOLEAN
  /\ said \in Words
  /\ IF manifest.verdict = "verified" THEN stack \in Seq(Frames) ELSE stack = <<>>
  /\ \A i \in 1..Len(stack) : stack[i].at <= Len(manifest.goals[stack[i].gid].steps) + 1

\* What the kernel says is true, whatever it was handed (check.py main): a root it calls
\* verified starts at a pair that refines, and a pair it calls refuted does not.
AcceptedTrue ==
  /\ said = "verified" => Holding(manifest.goals[manifest.root].start)
  /\ said = "counterexample" => ~Holding(manifest.pair)

\* Why: what is left on the stack is all the root still needs (check.py chain, goal).
Chained(f) ==
  LET goal == manifest.goals[f.gid]
  IN  /\ StepsShown(goal, f.at - 1, f)
      /\ f.head = HeadAfter(goal, f.at - 1)
      /\ Holding(f.head) => Holding(BaseAfter(goal, f.at - 1))

StackSound ==
  said = "nothing" /\ manifest.verdict = "verified" /\ ~failed =>
    /\ \A i \in 1..Len(stack) : Chained(stack[i])
    /\ (\A i \in 1..Len(stack) : Owes(manifest, stack[i]))
       => Holding(manifest.goals[manifest.root].start)
=============================================================================
