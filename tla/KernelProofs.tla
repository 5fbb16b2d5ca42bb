---------------------------- MODULE KernelProofs ----------------------------
(***************************************************************************)
(* What the kernel says is true of every certificate it may be handed. The  *)
(* invariant is StackSound: once the goals left on the stack hold, the root *)
(* does. Each step keeps it because refinement is transitive and every step *)
(* of a chain is asked about in the direction of its side.                  *)
(*                                                                         *)
(* And what the tools that are asked come to: each of their drivers is an  *)
(* oracle, that answers with the truth or with nothing (Tools).            *)
(*                                                                         *)
(* And why splitting a goal loses nothing, nor a report of an input: what  *)
(* the kernel assumes of splits, from what refinement is (Splits).         *)
(***************************************************************************)
EXTENDS Kernel, Tools, Splits, SequenceTheorems, TLAPS

\* The pair along a chain only ever gets a stronger claim.
LEMMA ClaimsCompose ==
  ASSUME NEW pair \in Pairs, NEW side \in Sides, NEW next \in Pairs,
         \A other \in Sides : other # side => next[other] = pair[other],
         Shown(side, pair[side], next[side]), Holding(next)
  PROVE  Holding(pair)
  <1>1. /\ {pair["src"], pair["tgt"], next["src"], next["tgt"]} \subseteq Programs
        /\ <<next["tgt"], next["src"]>> \in Refines
    BY DEF Pairs, Sides, Holding, Claim
  <1>2. CASE side = "src"
    <2>1. <<pair["tgt"], next["src"]>> \in Refines /\ <<next["src"], pair["src"]>> \in Refines
      BY <1>1, <1>2 DEF Shown, Sides
    <2> QED BY <1>1, <2>1, RefinesIsPreorder DEF Holding, Claim
  <1>3. CASE side = "tgt"
    <2>1. <<next["tgt"], pair["src"]>> \in Refines /\ <<pair["tgt"], next["tgt"]>> \in Refines
      BY <1>1, <1>3 DEF Shown, Sides
    <2> QED BY <1>1, <2>1, RefinesIsPreorder DEF Holding, Claim
  <1> QED BY <1>2, <1>3 DEF Sides

\* The last of a set of places that has n, and nothing after it, is n.
LEMMA LastIs ==
  ASSUME NEW places \in SUBSET Nat, NEW n \in places, \A j \in places : j <= n
  PROVE  Last(places) = n
  <1>1. \A i \in places : (\A j \in places : j <= i) => i = n
    OBVIOUS
  <1> QED BY <1>1 DEF Last

\* A step that is no strengthening leaves the pair the claim goes back to.
LEMMA BaseKept ==
  ASSUME NEW goal \in ProofGoals, NEW n \in 1..Len(goal.steps), goal.steps[n].kind # "strengthen"
  PROVE  BaseAfter(goal, n) = BaseAfter(goal, n - 1)
  <1>1. StrengthensBy(goal, n) = StrengthensBy(goal, n - 1)
    BY DEF StrengthensBy, Strengthens, ProofGoals
  <1> QED BY <1>1 DEF BaseAfter

\* A strengthening is where the claim starts again.
LEMMA BaseMoved ==
  ASSUME NEW goal \in ProofGoals, NEW n \in 1..Len(goal.steps), goal.steps[n].kind = "strengthen"
  PROVE  BaseAfter(goal, n) = goal.steps[n].to
  <1> DEFINE by == StrengthensBy(goal, n)
  <1>1. n \in by /\ by \in SUBSET Nat /\ \A j \in by : j <= n
    BY DEF StrengthensBy, Strengthens, ProofGoals
  <1> QED BY <1>1, LastIs DEF BaseAfter

\* A chain is, after a step, where the step led from where the chain was.
LEMMA HeadMoved ==
  ASSUME NEW goal \in ProofGoals, NEW n \in 1..Len(goal.steps)
  PROVE  HeadAfter(goal, n) = MovedBy(goal.steps[n], HeadAfter(goal, n - 1))
  <1> DEFINE step == goal.steps[n]
             by(k, side) == {i \in 1..k : Moves(goal.steps[i], side)}
             comes(k, side) ==
               IF by(k, side) = {} THEN goal.start[side]
               ELSE ToOf(goal.steps[Last(by(k, side))], side)
  <1>1. n \in Nat \ {0}
    BY DEF ProofGoals
  <1>2. ASSUME NEW side \in Sides
        PROVE  comes(n, side) = IF Moves(step, side) THEN ToOf(step, side) ELSE comes(n - 1, side)
    <2>1. CASE Moves(step, side)
      <3>1. n \in by(n, side) /\ by(n, side) \in SUBSET Nat /\ \A j \in by(n, side) : j <= n
        BY <1>1, <2>1
      <3> HIDE DEF by
      <3>2. Last(by(n, side)) = n
        BY <3>1, LastIs
      <3> QED BY <2>1, <3>1, <3>2
    <2>2. CASE ~Moves(step, side)
      <3>1. by(n, side) = by(n - 1, side)
        <4>1. \A i \in 1..n : i \in 1..n - 1 \/ i = n
          BY <1>1
        <4>2. \A i \in 1..n - 1 : i \in 1..n
          BY <1>1
        <4> QED BY <2>2, <4>1, <4>2
      <3> HIDE DEF by
      <3> QED BY <2>2, <3>1
    <2> QED BY <2>1, <2>2
  <1>3. HeadAfter(goal, n) = [side \in Sides |-> comes(n, side)]
    BY DEF HeadAfter
  <1>4. HeadAfter(goal, n - 1) = [side \in Sides |-> comes(n - 1, side)]
    BY DEF HeadAfter
  <1> HIDE DEF comes
  <1> QED BY <1>2, <1>3, <1>4 DEF MovedBy

\* A chain starts where its goal does.
LEMMA HeadFirst ==
  ASSUME NEW goal \in ProofGoals
  PROVE  HeadAfter(goal, 0) = goal.start
  <1>1. \A side \in Sides : {i \in 1..0 : Moves(goal.steps[i], side)} = {}
    OBVIOUS
  <1>2. HeadAfter(goal, 0) = [side \in Sides |-> goal.start[side]]
    BY <1>1 DEF HeadAfter
  <1>3. goal.start \in [Sides -> Programs]
    BY DEF ProofGoals, Pairs
  <1> QED BY <1>2, <1>3

-----------------------------------------------------------------------------
Inv == TypeOK /\ manifest \in Manifests /\ StackSound /\ AcceptedTrue

Verifying == said = "nothing" /\ manifest.verdict = "verified"

LEMMA GoalsShaped ==
  ASSUME manifest \in Manifests, manifest.verdict = "verified"
  PROVE  /\ manifest.root \in DOMAIN manifest.goals
         /\ \A g \in DOMAIN manifest.goals :
              manifest.goals[g] \in ProofGoals /\ Len(manifest.goals[g].steps) \in Nat
  BY ManifestsShaped DEF Shaped, ProofGoals

LEMMA InitInv == Init => Inv
  <1> SUFFICES ASSUME Init PROVE Inv
    OBVIOUS
  <1>1. CASE manifest.verdict = "verified"
    <2> DEFINE f == Frame(manifest, Alone(manifest.root))
    <2>1. manifest \in Manifests /\ stack = <<f>> /\ failed = FALSE /\ said = "nothing"
      BY <1>1 DEF Init
    <2>2. f \in Frames /\ f.at = 1 /\ f.gid = manifest.root /\ f.role = "none"
          /\ f.head = manifest.goals[f.gid].start
      BY <1>1, <2>1, GoalsShaped DEF Frames, Frame, Alone, Part, ProofGoals, ProofRoles
    <2> HIDE DEF f
    <2>3. TypeOK
      <3>1. stack \in Seq(Frames) /\ Len(stack) = 1 /\ stack[1] = f
        BY <2>1, <2>2
      <3>2. \A i \in 1..Len(stack) : stack[i].at <= Len(manifest.goals[stack[i].gid].steps) + 1
        BY <1>1, <2>1, <2>2, <3>1, GoalsShaped
      <3> QED BY <1>1, <2>1, <3>1, <3>2, ManifestsShaped DEF TypeOK, Words
    <2>4. Chained(f)
      <3>1. \A j \in Strengthens(manifest.goals[f.gid]) : j \in Nat /\ j >= 1
        BY DEF Strengthens
      <3>2. StrengthensBy(manifest.goals[f.gid], 0) = {}
        BY <3>1 DEF StrengthensBy
      <3>3. f.at - 1 = 0 /\ BaseAfter(manifest.goals[f.gid], 0) = manifest.goals[f.gid].start
        BY <2>2, <3>2 DEF BaseAfter
      <3>4. HeadAfter(manifest.goals[f.gid], 0) = manifest.goals[f.gid].start
        BY <1>1, <2>1, <2>2, GoalsShaped, HeadFirst
      <3> QED BY <2>2, <3>3, <3>4 DEF Chained, StepsShown
    <2>5. StackSound
      <3> QED BY <2>1, <2>2, <2>4 DEF StackSound, Owes
    <2> QED BY <2>1, <2>3, <2>5 DEF Inv, AcceptedTrue
  <1>2. CASE manifest.verdict # "verified"
    <2>1. manifest \in Manifests /\ stack = <<>> /\ failed = FALSE /\ said = "nothing"
      BY <1>2 DEF Init
    <2>2. Len(stack) = 0 /\ Shaped(manifest)
      BY <2>1, ManifestsShaped
    <2>3. TypeOK
      <3>1. \A i \in 1..Len(stack) : FALSE
        BY <2>2
      <3>2. failed \in BOOLEAN /\ said \in Words
        BY <2>1 DEF Words
      <3> QED BY <1>2, <2>1, <2>2, <3>1, <3>2 DEF TypeOK
    <2> QED BY <1>2, <2>1, <2>3 DEF Inv, StackSound, AcceptedTrue
  <1> QED BY <1>1, <1>2

-----------------------------------------------------------------------------
(* A step of a chain.                                                      *)

\* What a step has to be for the chain to mean what it did.
Fits(head) ==
  /\ StepHolds(Step, Top, Top.head) /\ head = Moved
  /\ Step.kind # "strengthen" /\ Holding(head) => Holding(Top.head)

LEMMA TopShaped ==
  ASSUME Inv, Replaying
  PROVE  /\ Len(stack) \in Nat \ {0}
         /\ Top \in Frames
         /\ Goal \in ProofGoals
         /\ Len(Goal.steps) \in Nat
         /\ Top.at \in 1..Len(Goal.steps) + 1
         /\ manifest.verdict = "verified"
  <1>1. stack \in Seq(Frames) /\ stack # <<>> /\ manifest.verdict = "verified"
        /\ \A i \in 1..Len(stack) : stack[i].at <= Len(manifest.goals[stack[i].gid].steps) + 1
    BY DEF Inv, TypeOK, Replaying
  <1>2. Len(stack) \in Nat \ {0} /\ Len(stack) \in 1..Len(stack) /\ Top \in Frames
    BY <1>1 DEF Top
  <1>3. Goal \in ProofGoals /\ Len(Goal.steps) \in Nat
    BY <1>1, <1>2, GoalsShaped DEF Inv, Frames, Goal
  <1> QED BY <1>1, <1>2, <1>3 DEF Frames, Goal, Top

\* A strengthening leaves the pair it says it does.
LEMMA StrengthenMoves ==
  ASSUME NEW step \in Steps, step.kind = "strengthen", NEW head
  PROVE  MovedBy(step, head) = step.to
  <1>1. step.to \in [Sides -> Programs]
    BY DEF Steps, Pairs
  <1>2. MovedBy(step, head) = [side \in Sides |-> step.to[side]]
    BY DEF MovedBy, Moves, ToOf, Sided
  <1> QED BY <1>1, <1>2

\* What a step, and a goal, owe is the same of two parts that are the same to their cut.
LEMMA StepsAlike ==
  ASSUME NEW f, NEW g, f.role = g.role, f.fn = g.fn, f.loop = g.loop, NEW step, NEW head
  PROVE  StepHolds(step, f, head) = StepHolds(step, g, head)
  <1>1. UnfoldHolds(step, f, head) = UnfoldHolds(step, g, head)
    BY DEF UnfoldHolds
  <1>2. OuterHolds(step, f, head) = OuterHolds(step, g, head)
    BY DEF OuterHolds
  <1>3. Keeps(step, f) = Keeps(step, g)
    BY DEF Keeps
  <1>4. \A p, side, facts : WithContract(p, side, f, facts) = WithContract(p, side, g, facts)
    BY DEF WithContract
  <1>5. CalleeHolds(step, f, head) = CalleeHolds(step, g, head)
    BY <1>3, <1>4 DEF CalleeHolds
  <1> QED BY <1>1, <1>2, <1>5 DEF StepHolds

LEMMA PartsAlike ==
  ASSUME NEW f, NEW g, f.gid = g.gid, f.role = g.role, f.fn = g.fn, f.loop = g.loop, NEW m
  PROVE  Owes(m, f) = Owes(m, g)
  <1>1. \A step, head : StepHolds(step, f, head) = StepHolds(step, g, head)
    BY StepsAlike
  <1> QED BY <1>1 DEF Owes, StepsShown

LEMMA WalkKeeps ==
  ASSUME Inv, Walking, NEW head \in Pairs, NEW holds \in BOOLEAN, Walked(head, holds),
         ~failed /\ holds /\ StackSound => Fits(head)
  PROVE  Inv'
  <1> DEFINE n == Len(stack)
             f == Top
             h == [gid |-> f.gid, role |-> f.role, fn |-> f.fn, loop |-> f.loop, at |-> f.at + 1, head |-> head]
  <1>1. /\ n \in Nat \ {0}
        /\ f \in Frames
        /\ Goal \in ProofGoals
        /\ f.at \in 1..Len(Goal.steps)
        /\ Len(Goal.steps) \in Nat
        /\ stack \in Seq(Frames)
        /\ manifest.verdict = "verified"
    BY TopShaped DEF Walking, Inv, TypeOK
  <1>2. manifest' = manifest /\ said' = said /\ said = "nothing" /\ failed' \in {failed \/ ~holds, TRUE}
    BY DEF Walked, Walking, Replaying, Counted
  <1>3. stack' = [stack EXCEPT ![n] = h]
    <2>1. stack' = [stack EXCEPT ![n] = [[f EXCEPT !.at = f.at + 1] EXCEPT !.head = head]]
      BY <1>1 DEF Walked, Top
    <2>2. DOMAIN f = {"gid", "role", "fn", "loop", "at", "head"}
      BY <1>1 DEF Frames
    <2>3. DOMAIN [[f EXCEPT !.at = f.at + 1] EXCEPT !.head = head] = DOMAIN h
      BY <2>2
    <2>4. \A x \in DOMAIN h : [[f EXCEPT !.at = f.at + 1] EXCEPT !.head = head][x] = h[x]
      <3> DEFINE e == [f EXCEPT !.at = f.at + 1]
      <3>1. /\ DOMAIN e = DOMAIN f /\ e.at = f.at + 1
            /\ e.gid = f.gid /\ e.role = f.role /\ e.fn = f.fn /\ e.loop = f.loop
        BY <2>2
      <3> HIDE DEF e
      <3>2. /\ [e EXCEPT !.head = head].at = e.at
            /\ [e EXCEPT !.head = head].gid = e.gid
            /\ [e EXCEPT !.head = head].role = e.role
            /\ [e EXCEPT !.head = head].fn = e.fn
            /\ [e EXCEPT !.head = head].loop = e.loop
            /\ [e EXCEPT !.head = head].head = head
        BY <2>2, <3>1
      <3>3. /\ h.gid = f.gid /\ h.role = f.role /\ h.fn = f.fn /\ h.loop = f.loop
            /\ h.at = f.at + 1 /\ h.head = head
            /\ DOMAIN h = {"gid", "role", "fn", "loop", "at", "head"}
        OBVIOUS
      <3> HIDE DEF h, f
      <3>4. \A x \in DOMAIN h : [e EXCEPT !.head = head][x] = h[x]
        BY <3>1, <3>2, <3>3
      <3> QED BY <3>4 DEF e
    <2>5. [[f EXCEPT !.at = f.at + 1] EXCEPT !.head = head] = h
      BY <2>3, <2>4
    <2> QED BY <2>1, <2>5
  <1>4. /\ h \in Frames /\ h.gid = f.gid /\ h.role = f.role /\ h.fn = f.fn /\ h.loop = f.loop
        /\ h.at = f.at + 1 /\ h.head = head
    BY <1>1 DEF Frames
  <1>5. /\ stack' \in Seq(Frames)
        /\ Len(stack') = n
        /\ \A i \in 1..n : stack'[i] = IF i = n THEN h ELSE stack[i]
    <2> HIDE DEF h
    <2> QED BY <1>1, <1>3, <1>4
  <1>6. TypeOK'
    <2>1. \A i \in 1..n : stack'[i].at <= Len(manifest.goals[stack'[i].gid].steps) + 1
      <3> TAKE i \in 1..n
      <3>1. CASE i = n
        <4>1. manifest.goals[h.gid] = Goal
          BY <1>4 DEF Goal
        <4> HIDE DEF h, f
        <4>2. h.at <= Len(Goal.steps) + 1
          BY <1>1, <1>4
        <4> QED BY <1>5, <3>1, <4>1, <4>2
      <3>2. CASE i # n
        <4> HIDE DEF h
        <4> QED BY <1>5, <3>2 DEF Inv, TypeOK
      <3> QED BY <3>1, <3>2
    <2>2. Frames' = Frames
      BY <1>2 DEF Frames
    <2>3. failed' \in BOOLEAN
      BY <1>2 DEF Inv, TypeOK
    <2>4. Shaped(manifest')
      BY <1>2 DEF Inv, TypeOK
    <2> HIDE DEF h, f
    <2> QED BY <1>1, <1>2, <1>5, <2>1, <2>2, <2>3, <2>4 DEF TypeOK, Words
  <1>7. StackSound'
    <2> SUFFICES ASSUME ~failed'
                 PROVE  /\ \A i \in 1..n : Chained(stack'[i])
                        /\ (\A i \in 1..n : Owes(manifest, stack'[i]))
                           => Holding(manifest.goals[manifest.root].start)
      <3> HIDE DEF h, f
      <3> QED BY <1>2, <1>5 DEF StackSound, Chained
    <2>1. ~failed /\ holds /\ StackSound
      BY <1>2 DEF Inv
    <2>2. Fits(head)
      BY <2>1
    <2>3. \A i \in 1..n : Chained(stack[i])
      BY <1>1, <1>2, <2>1 DEF StackSound
    <2>4. Chained(f)
      BY <1>1, <2>3 DEF Top
    <2>5. Chained(h)
      <3> HIDE DEF h, f
      <3>1. /\ Step = Goal.steps[f.at] /\ f = Top /\ Step \in Steps
            /\ StepsShown(Goal, f.at - 1, f)
            /\ f.head = HeadAfter(Goal, f.at - 1)
            /\ Holding(f.head) => Holding(BaseAfter(Goal, f.at - 1))
        BY <1>1, <2>4 DEF Step, f, Chained, Goal, ProofGoals
      <3>2. StepsShown(Goal, f.at, h)
        <4>1. \A i \in 1..f.at : i \in 1..f.at - 1 \/ i = f.at
          BY <1>1
        <4>2. StepsShown(Goal, f.at, f)
          BY <2>2, <3>1, <4>1 DEF StepsShown, Fits
        <4>3. \A step, pair : StepHolds(step, f, pair) = StepHolds(step, h, pair)
          BY <1>4, StepsAlike
        <4> QED BY <4>2, <4>3 DEF StepsShown
      <3>3. Holding(head) => Holding(BaseAfter(Goal, f.at))
        <4>1. CASE Step.kind = "strengthen"
          BY <1>1, <2>2, <3>1, <4>1, BaseMoved, StrengthenMoves DEF Fits, Moved
        <4>2. CASE Step.kind # "strengthen"
          BY <1>1, <2>2, <3>1, <4>2, BaseKept DEF Fits
        <4> QED BY <4>1, <4>2
      <3>4. head = HeadAfter(Goal, f.at)
        BY <1>1, <2>2, <3>1, HeadMoved DEF Fits, Moved
      <3>5. h.at - 1 = f.at /\ manifest.goals[h.gid] = Goal
        BY <1>1, <1>4 DEF Goal, f
      <3> QED BY <1>4, <3>2, <3>3, <3>4, <3>5 DEF Chained
    <2>6. \A i \in 1..n : Owes(manifest, stack'[i]) = Owes(manifest, stack[i])
      <3>1. stack[n] = f
        BY DEF Top
      <3> HIDE DEF h, f
      <3>2. Owes(manifest, h) = Owes(manifest, f)
        BY <1>4, PartsAlike
      <3> QED BY <1>5, <3>1, <3>2
    <2>7. (\A i \in 1..n : Owes(manifest, stack[i]))
           => Holding(manifest.goals[manifest.root].start)
      BY <1>1, <1>2, <2>1 DEF StackSound
    <2> HIDE DEF h, f
    <2> QED BY <1>5, <2>3, <2>5, <2>6, <2>7
  <1>8. AcceptedTrue'
    BY <1>2 DEF AcceptedTrue
  <1> QED BY <1>2, <1>6, <1>7, <1>8 DEF Inv

\* A step the kernel asked about leaves a claim at least as strong.
LEMMA SidedShown ==
  ASSUME NEW step \in Steps, Sided(step), NEW f, f.loop \in FnNames \cup {NoFn}, NEW head \in Pairs,
         StepHolds(step, f, head)
  PROVE  step.from = head[step.side] /\ Shown(step.side, step.from, step.to)
  <1>1. CASE step.kind = "check"
    BY <1>1 DEF StepHolds, CheckHolds, GoesOn
  <1>2. CASE step.kind = "window"
    <2>1. WindowHolds(step, head) /\ step.side \in Sides /\ step.window \in Narrowings
      BY <1>2 DEF StepHolds, Steps
    <2> QED BY <2>1, WindowRule DEF WindowHolds, GoesOn
  <1>3. CASE step.kind = "rewrite"
    <2>1. RewriteHolds(step, head) /\ step.from \in Programs /\ step.rules \in Rules
      BY <1>3 DEF StepHolds, Steps
    <2> QED BY <2>1, RewriterRight DEF RewriteHolds, GoesOn, Shown
  <1>4. CASE step.kind = "unfold"
    <2>1. UnfoldHolds(step, f, head) /\ step.from \in Programs
      BY <1>4 DEF StepHolds, Steps
    <2> QED BY <2>1, UnfoldingSame DEF UnfoldHolds, GoesOn, Shown
  <1> QED BY <1>1, <1>2, <1>3, <1>4 DEF Sided

LEMMA MovedTyped ==
  ASSUME NEW step \in Steps, NEW head \in Pairs
  PROVE  MovedBy(step, head) \in Pairs
  <1>1. \A side \in Sides : (IF Moves(step, side) THEN ToOf(step, side) ELSE head[side]) \in Programs
    <2>1. CASE Sided(step)
      BY <2>1 DEF Steps, Sided, ToOf, Pairs
    <2>2. CASE ~Sided(step)
      BY <2>2 DEF Steps, Sided, ToOf, Pairs
    <2> QED BY <2>1, <2>2
  <1> QED BY <1>1 DEF MovedBy, Pairs

\* Each kind of step that holds moves the claim as it should.
LEMMA HoldsFits ==
  ASSUME Inv, Walking, StepHolds(Step, Top, Top.head)
  PROVE  Fits(Moved)
  <1>1. Top.head \in Pairs /\ Step \in Steps
    BY TopShaped DEF Walking, Frames, ProofGoals, Step
  <1>2. CASE Sided(Step)
    <2>1. Step.from = Top.head[Step.side] /\ Shown(Step.side, Step.from, Step.to)
      <3>1. Top.loop \in FnNames \cup {NoFn}
        BY TopShaped DEF Walking, Frames
      <3> QED BY <1>1, <1>2, <3>1, SidedShown
    <2>2. Step.side \in Sides /\ Moved \in Pairs
      BY <1>1, <1>2, MovedTyped DEF Steps, Sided, Moved
    <2>3. /\ Moved[Step.side] = Step.to
          /\ \A other \in Sides : other # Step.side => Moved[other] = Top.head[other]
      BY <1>2, <2>2 DEF Moved, MovedBy, Moves, ToOf
    <2>4. Holding(Moved) => Holding(Top.head)
      BY <1>1, <2>1, <2>2, <2>3, ClaimsCompose
    <2> QED BY <2>4 DEF Fits
  <1>3. CASE ~Sided(Step)
    <2>1. Step.kind = "strengthen"
      BY <1>1, <1>3 DEF Steps, Sided
    <2> QED BY <2>1 DEF Fits
  <1> QED BY <1>2, <1>3

LEMMA MovedKeeps ==
  ASSUME Inv, Walking, NEW holds \in BOOLEAN, Walked(Moved, holds),
         holds => StepHolds(Step, Top, Top.head)
  PROVE  Inv'
  <1>1. Top.head \in Pairs /\ Step \in Steps
    BY TopShaped DEF Walking, Frames, ProofGoals, Step
  <1>2. Moved \in Pairs
    BY <1>1, MovedTyped DEF Moved
  <1> QED BY <1>2, HoldsFits, WalkKeeps

\* Every kind of step of a chain.
LEMMA WalkingKeeps ==
  ASSUME Inv, CheckStep \/ WindowStep \/ RewriteStep \/ UnfoldStep
              \/ StrengthenCallee \/ StrengthenOuter \/ StrengthenOther
  PROVE  Inv'
  <1>1. CASE CheckStep
    <2>1. CheckHolds(Step, Top.head) \in BOOLEAN
      BY DEF CheckHolds
    <2> QED BY <1>1, <2>1, MovedKeeps DEF CheckStep, StepHolds
  <1>2. CASE WindowStep
    <2>1. WindowHolds(Step, Top.head) \in BOOLEAN
      BY DEF WindowHolds
    <2> QED BY <1>2, <2>1, MovedKeeps DEF WindowStep, StepHolds
  <1>3. CASE RewriteStep
    <2>1. RewriteHolds(Step, Top.head) \in BOOLEAN
      BY DEF RewriteHolds
    <2> QED BY <1>3, <2>1, MovedKeeps DEF RewriteStep, StepHolds
  <1>4. CASE UnfoldStep
    <2>1. UnfoldHolds(Step, Top, Top.head) \in BOOLEAN
      BY DEF UnfoldHolds
    <2> QED BY <1>4, <2>1, MovedKeeps DEF UnfoldStep, StepHolds
  <1>5. CASE StrengthenCallee
    <2>1. CalleeHolds(Step, Top, Top.head) \in BOOLEAN
      BY DEF CalleeHolds
    <2> QED BY <1>5, <2>1, MovedKeeps DEF StrengthenCallee, StepHolds
  <1>6. CASE StrengthenOuter
    <2>1. OuterHolds(Step, Top, Top.head) \in BOOLEAN
      BY DEF OuterHolds
    <2>2. Walking /\ Top.head \in Pairs
      BY <1>6, TopShaped DEF StrengthenOuter, Walking, Frames
    <2>3. CASE TakesReturns(Step)
      BY <1>6, <2>1, <2>2, <2>3, MovedKeeps DEF StrengthenOuter, StepHolds
    <2>4. CASE ~TakesReturns(Step)
      <3>1. Walked(Top.head, OuterHolds(Step, Top, Top.head)) /\ ~OuterHolds(Step, Top, Top.head)
        BY <1>6, <2>4 DEF StrengthenOuter, OuterHolds
      <3> QED BY <2>1, <2>2, <3>1, WalkKeeps
    <2> QED BY <2>3, <2>4
  <1>7. CASE StrengthenOther
    <2>1. Walked(Top.head, FALSE) /\ Walking
      BY <1>7 DEF StrengthenOther
    <2>2. Top.head \in Pairs
      BY <2>1, TopShaped DEF Walking, Frames
    <2> QED BY <2>1, <2>2, WalkKeeps
  <1> QED BY <1>1, <1>2, <1>3, <1>4, <1>5, <1>6, <1>7

-----------------------------------------------------------------------------
(* What discharged a goal.                                                 *)

IsPart(half) == half \in [gid : Gids, role : ProofRoles, fn : FnNames \cup {NoFn}, loop : FnNames \cup {NoFn}]

\* What the pair at the end of a chain is worth to the goal and to the goals above it.
Settles == /\ Holding(Goal.end)
           /\ Between(manifest, Top.gid) # {} =>
                Holding(Pair(Goal.end["src"], Goal.discharge.program))

LEMMA EndedOwes ==
  ASSUME Inv, Replaying, Top.at > Len(Goal.steps), Chained(Top), EndsThere, Settles
  PROVE  Owes(manifest, Top)
  <1>1. /\ Top.at = Len(Goal.steps) + 1 /\ Len(Goal.steps) \in Nat
        /\ Goal = manifest.goals[Top.gid] /\ Goal \in ProofGoals
    BY TopShaped DEF Goal
  <1>2. /\ StepsShown(Goal, Len(Goal.steps), Top)
        /\ HeadAfter(Goal, Len(Goal.steps)) = Goal.end
        /\ Holding(Goal.end) /\ Holding(BasePair(Goal))
    BY <1>1 DEF Chained, BasePair, EndsThere, Settles
  <1>3. CASE Top.role = "none"
    <2>1. Strengthens(Goal) = {}
      <3> SUFFICES ASSUME NEW j \in Strengthens(Goal) PROVE FALSE
        OBVIOUS
      <3>1. j \in 1..Len(Goal.steps) /\ Goal.steps[j].kind = "strengthen"
        BY DEF Strengthens
      <3>2. StepHolds(Goal.steps[j], Top, HeadAfter(Goal, j - 1))
        BY <1>2, <3>1 DEF StepsShown
      <3> QED BY <1>3, <3>1, <3>2 DEF StepHolds
    <2>2. StrengthensBy(Goal, Len(Goal.steps)) = {}
      BY <2>1 DEF StrengthensBy
    <2> QED BY <1>1, <1>2, <1>3, <2>2 DEF Owes, BasePair, BaseAfter
  <1>4. CASE Top.role # "none"
    BY <1>1, <1>2, <1>4 DEF Owes, Settles
  <1> QED BY <1>3, <1>4

LEMMA FreshFrame ==
  ASSUME Inv, Verifying, NEW half, IsPart(half), half.gid \in DOMAIN manifest.goals
  PROVE  LET f == Frame(manifest, half)
         IN  /\ f \in Frames /\ Chained(f) /\ Owes(manifest, f) = Owes(manifest, half)
             /\ f.at <= Len(manifest.goals[f.gid].steps) + 1
  <1> DEFINE f == Frame(manifest, half)
             goal == manifest.goals[half.gid]
  <1>1. goal \in ProofGoals /\ Len(goal.steps) \in Nat
    BY GoalsShaped DEF Inv, Verifying
  <1>2. /\ f \in Frames /\ f.gid = half.gid /\ f.role = half.role /\ f.fn = half.fn /\ f.loop = half.loop
        /\ f.at = 1 /\ f.head = goal.start
    BY <1>1 DEF Frames, Frame, ProofGoals, IsPart
  <1>3. \A j \in Strengthens(goal) : j \in Nat /\ j >= 1
    BY <1>1 DEF Strengthens
  <1>4. StrengthensBy(goal, 0) = {}
    BY <1>3 DEF StrengthensBy
  <1>5. HeadAfter(goal, 0) = goal.start /\ BaseAfter(goal, 0) = goal.start
    BY <1>1, <1>4, HeadFirst DEF BaseAfter
  <1> HIDE DEF f
  <1>6. Chained(f)
    <2>1. f.at - 1 = 0 /\ manifest.goals[f.gid] = goal
      BY <1>2
    <2> QED BY <1>2, <1>5, <2>1 DEF Chained, StepsShown
  <1>7. Owes(manifest, f) = Owes(manifest, half)
    BY <1>2, PartsAlike
  <1> QED BY <1>1, <1>2, <1>6, <1>7 DEF f

LEMMA PoppedShaped ==
  ASSUME Inv, Replaying
  PROVE  /\ Popped \in Seq(Frames)
         /\ Len(Popped) = Len(stack) - 1
         /\ \A i \in 1..Len(stack) - 1 : Popped[i] = stack[i]
  <1>1. stack \in Seq(Frames) /\ Len(stack) \in Nat \ {0}
    BY TopShaped DEF Inv, TypeOK
  <1>2. Len(stack) - 1 \in Int /\ \A i \in 1..Len(stack) - 1 : stack[i] \in Frames
    BY <1>1
  <1> HIDE DEF Frames
  <1>3. /\ Popped \in Seq(Frames)
        /\ Len(Popped) = IF 1 <= Len(stack) - 1 THEN Len(stack) - 1 - 1 + 1 ELSE 0
        /\ \A i \in 1..Len(stack) - 1 - 1 + 1 : Popped[i] = stack[1 + i - 1]
    BY <1>2, SubSeqProperties DEF Popped
  <1>4. Len(Popped) = Len(stack) - 1
    <2>1. \A k \in Nat \ {0} : (IF 1 <= k - 1 THEN k - 1 - 1 + 1 ELSE 0) = k - 1
      OBVIOUS
    <2>2. Len(Popped) = IF 1 <= Len(stack) - 1 THEN Len(stack) - 1 - 1 + 1 ELSE 0
      BY <1>3
    <2> QED BY <1>1, <2>1, <2>2
  <1>5. \A i \in 1..Len(stack) - 1 : Popped[i] = stack[i]
    <2> TAKE i \in 1..Len(stack) - 1
    <2>1. i \in 1..Len(stack) - 1 - 1 + 1 /\ 1 + i - 1 = i
      BY <1>1
    <2> QED BY <1>3, <2>1
  <1> QED BY <1>3, <1>4, <1>5

LEMMA DischargeKeeps ==
  ASSUME Inv, NEW kind, Ended(kind), NEW holds \in BOOLEAN, NEW there \in BOOLEAN, NEW halves,
         \/ halves = <<>>
         \/ \E a, b : IsPart(a) /\ IsPart(b) /\ halves = <<a, b>>,
         Discharged(holds, there, halves),
         there => \A i \in 1..Len(halves) : halves[i].gid \in DOMAIN manifest.goals,
         /\ ~failed /\ holds /\ there /\ EndsThere
         /\ \A i \in 1..Len(halves) : Owes(manifest, halves[i])
         => Settles
  PROVE  Inv'
  <1> DEFINE n == Len(stack)
             k == Len(halves)
             new == [i \in 1..k |-> Frame(manifest, halves[k + 1 - i])]
  <1>1. /\ n \in Nat \ {0} /\ stack \in Seq(Frames) /\ manifest.verdict = "verified"
        /\ said = "nothing" /\ Replaying /\ Top.at > Len(Goal.steps)
    BY TopShaped DEF Ended, Replaying, Inv, TypeOK
  <1>2. /\ manifest' = manifest
        /\ failed' \in {failed \/ ~(EndsThere /\ holds), TRUE}
        /\ failed' \in BOOLEAN
    BY DEF Discharged, Counted, Inv, TypeOK, EndsThere
  <1>3. k \in {0, 2} /\ (\A i \in 1..k : IsPart(halves[i]))
    OBVIOUS
  <1>4. Frames' = Frames /\ Shaped(manifest')
    BY <1>2 DEF Frames, Inv, TypeOK
  <1>5. \A i \in 1..n - 1 : stack[i].at <= Len(manifest.goals[stack[i].gid].steps) + 1
    <2> TAKE i \in 1..n - 1
    <2>1. i \in 1..n
      BY <1>1
    <2> QED BY <2>1 DEF Inv, TypeOK
  <1>6. CASE ~there
    <2>1. stack' = Popped /\ said' = "refused"
      BY <1>6 DEF Discharged
    <2>2. TypeOK'
      BY <1>1, <1>2, <1>4, <1>5, <2>1, PoppedShaped DEF TypeOK, Words
    <2> QED BY <1>1, <1>2, <2>1, <2>2 DEF Inv, StackSound, AcceptedTrue
  <1>7. CASE there
    <2>1. stack' = Popped \o new /\ said' = "nothing"
      BY <1>1, <1>7 DEF Discharged
    <2>2. \A i \in 1..k : /\ new[i] \in Frames /\ Chained(new[i])
                          /\ Owes(manifest, new[i]) = Owes(manifest, halves[k + 1 - i])
                          /\ new[i].at <= Len(manifest.goals[new[i].gid].steps) + 1
      <3> TAKE i \in 1..k
      <3> DEFINE h == halves[k + 1 - i]
      <3>1. k + 1 - i \in 1..k
        BY <1>3
      <3>2. IsPart(h) /\ h.gid \in DOMAIN manifest.goals
        BY <1>3, <1>7, <3>1
      <3>3. new[i] = Frame(manifest, h)
        OBVIOUS
      <3> HIDE DEF h, new
      <3>4. new[i] \in Frames /\ Chained(new[i]) /\ Owes(manifest, new[i]) = Owes(manifest, h)
            /\ new[i].at <= Len(manifest.goals[new[i].gid].steps) + 1
        BY <1>1, <3>2, <3>3, FreshFrame DEF Verifying
      <3> QED BY <3>4 DEF h
    <2>3. new \in Seq(Frames) /\ Len(new) = k
      BY <1>3, <2>2
    <2> HIDE DEF new
    <2>4. /\ stack' \in Seq(Frames) /\ Len(stack') = n - 1 + k
          /\ \A i \in 1..n - 1 : stack'[i] = stack[i]
          /\ \A i \in n..n - 1 + k : stack'[i] = new[i - n + 1]
          /\ \A i \in 1..k : stack'[n - 1 + i] = new[i]
      <3>1. Popped \in Seq(Frames) /\ Len(Popped) = n - 1 /\ \A i \in 1..n - 1 : Popped[i] = stack[i]
        BY <1>1, PoppedShaped
      <3> HIDE DEF Frames, n, k
      <3>2. /\ stack' \in Seq(Frames)
            /\ Len(stack') = n - 1 + k
            /\ \A i \in 1..n - 1 + k : stack'[i] = IF i <= n - 1 THEN Popped[i] ELSE new[i - (n - 1)]
        <4>1. /\ Popped \o new \in Seq(Frames)
              /\ Len(Popped \o new) = Len(Popped) + Len(new)
              /\ \A i \in 1..Len(Popped) + Len(new) :
                   (Popped \o new)[i] = IF i <= Len(Popped) THEN Popped[i] ELSE new[i - Len(Popped)]
          BY <2>3, <3>1, ConcatProperties
        <4>2. Len(Popped) = n - 1 /\ Len(new) = k /\ stack' = Popped \o new
          BY <2>1, <2>3, <3>1
        <4> QED BY <4>1, <4>2
      <3>3. n \in Nat \ {0} /\ k \in Nat
        BY <1>1, <1>3
      <3>4. \A i \in 1..n - 1 : stack'[i] = stack[i]
        BY <3>1, <3>2, <3>3
      <3>5. \A i \in n..n - 1 + k : stack'[i] = new[i - n + 1]
        <4> TAKE i \in n..n - 1 + k
        <4>0. \A a, b, c \in Int : a >= 1 /\ c \in a..a - 1 + b
                => c \in 1..a - 1 + b /\ ~(c <= a - 1) /\ c - (a - 1) = c - a + 1
          OBVIOUS
        <4>1. i \in 1..n - 1 + k /\ ~(i <= n - 1) /\ i - (n - 1) = i - n + 1
          BY <3>3, <4>0
        <4>2. stack'[i] = new[i - (n - 1)]
          BY <3>2, <4>1
        <4> QED BY <4>1, <4>2
      <3>6. \A i \in 1..k : stack'[n - 1 + i] = new[i]
        <4> TAKE i \in 1..k
        <4> DEFINE j == n - 1 + i
        <4>1. j \in 1..n - 1 + k /\ ~(j <= n - 1) /\ j - (n - 1) = i
          BY <3>3
        <4> HIDE DEF j
        <4>2. stack'[j] = new[j - (n - 1)]
          BY <3>2, <4>1
        <4> QED BY <4>1, <4>2 DEF j
      <3> QED BY <3>2, <3>4, <3>5, <3>6
    <2>5. \A i \in 1..n - 1 + k : i \in 1..n - 1 \/ (i \in n..n - 1 + k /\ i - n + 1 \in 1..k)
      BY <1>1, <1>3
    <2>6. TypeOK'
      <3>1. \A i \in 1..Len(stack') : stack'[i].at <= Len(manifest.goals[stack'[i].gid].steps) + 1
        <4> TAKE i \in 1..Len(stack')
        <4>1. CASE i \in 1..n - 1
          BY <1>5, <2>4, <4>1
        <4>2. CASE i \in n..n - 1 + k
          <5>1. i - n + 1 \in 1..k
            BY <1>1, <1>3, <4>2
          <5> QED BY <2>2, <2>4, <4>2, <5>1
        <4> QED BY <2>4, <2>5, <4>1, <4>2
      <3> QED BY <1>1, <1>2, <1>4, <2>1, <2>4, <3>1 DEF TypeOK, Words
    <2>7. StackSound'
      <3> SUFFICES ASSUME ~failed'
                   PROVE  /\ \A i \in 1..n - 1 + k : Chained(stack'[i])
                          /\ (\A i \in 1..n - 1 + k : Owes(manifest, stack'[i]))
                             => Holding(manifest.goals[manifest.root].start)
        BY <1>2, <2>4 DEF StackSound, Chained
      <3>1. ~failed /\ holds /\ EndsThere
        BY <1>2 DEF Inv, TypeOK
      <3>2. /\ \A i \in 1..n : Chained(stack[i])
            /\ (\A i \in 1..n : Owes(manifest, stack[i]))
               => Holding(manifest.goals[manifest.root].start)
        BY <1>1, <3>1 DEF Inv, StackSound
      <3>3. \A i \in 1..n - 1 + k : Chained(stack'[i])
        <4> TAKE i \in 1..n - 1 + k
        <4>1. CASE i \in 1..n - 1
          BY <1>1, <2>4, <3>2, <4>1
        <4>2. CASE i \in n..n - 1 + k
          <5>1. i - n + 1 \in 1..k
            BY <1>1, <1>3, <4>2
          <5> QED BY <2>2, <2>4, <4>2, <5>1
        <4> QED BY <2>5, <4>1, <4>2
      <3>4. ASSUME \A i \in 1..n - 1 + k : Owes(manifest, stack'[i])
            PROVE  \A i \in 1..n : Owes(manifest, stack[i])
        <4>1. \A i \in 1..k : Owes(manifest, new[i])
          <5> TAKE i \in 1..k
          <5>1. n - 1 + i \in 1..n - 1 + k
            BY <1>1, <1>3
          <5>2. stack'[n - 1 + i] = new[i]
            BY <2>4
          <5> QED BY <3>4, <5>1, <5>2
        <4>2. \A i \in 1..k : Owes(manifest, halves[i])
          <5> TAKE i \in 1..k
          <5>1. k + 1 - i \in 1..k /\ k + 1 - (k + 1 - i) = i
            BY <1>3
          <5> QED BY <2>2, <4>1, <5>1
        <4>3. Settles
          BY <1>7, <3>1, <4>2
        <4>4. Chained(Top) /\ Top = stack[n]
          BY <1>1, <3>2 DEF Top
        <4>5. Owes(manifest, stack[n])
          BY <1>1, <3>1, <4>3, <4>4, EndedOwes
        <4> TAKE i \in 1..n
        <4>6. CASE i = n
          BY <4>5, <4>6
        <4>7. CASE i # n
          <5>1. i \in 1..n - 1 /\ i \in 1..n - 1 + k
            BY <1>1, <1>3, <4>7
          <5>2. Owes(manifest, stack'[i]) /\ stack'[i] = stack[i]
            BY <2>4, <3>4, <5>1
          <5> QED BY <5>2
        <4> QED BY <4>6, <4>7
      <3> QED BY <3>2, <3>3, <3>4
    <2>8. AcceptedTrue'
      BY <2>1 DEF AcceptedTrue
    <2> QED BY <1>2, <2>6, <2>7, <2>8 DEF Inv
  <1> QED BY <1>6, <1>7

LEMMA GoalTyped ==
  ASSUME Inv, Replaying
  PROVE  /\ Goal.end \in Pairs /\ Goal.discharge \in Discharges
         /\ Goal.end["src"] \in Programs /\ Goal.end["tgt"] \in Programs
         /\ Top.gid \in DOMAIN manifest.goals /\ Goal = manifest.goals[Top.gid]
  BY TopShaped DEF ProofGoals, Pairs, Sides, Frames, Goal

\* A program in between that is not an interpose's owes nothing.
LEMMA NoneBetween ==
  ASSUME Inv, Replaying, Goal.discharge.kind # "interpose"
  PROVE  Between(manifest, Top.gid) = {}
  BY GoalTyped DEF Between

LEMMA CheckKeeps == Inv /\ DischargeCheck => Inv'
  <1> SUFFICES ASSUME Inv, DischargeCheck PROVE Inv'
    OBVIOUS
  <1> DEFINE holds == Goal.end["src"] = Goal.end["tgt"] \/ Holding(Goal.end)
  <1>1. Ended("check") /\ Replaying /\ Discharged(holds, TRUE, <<>>)
    BY DEF DischargeCheck, Ended
  <1>2. holds => Holding(Goal.end)
    BY <1>1, GoalTyped, RefinesIsPreorder DEF Holding, Claim
  <1>3. holds => Settles
    BY <1>1, <1>2, NoneBetween DEF Settles, Ended
  <1>4. holds \in BOOLEAN
    BY DEF Holding, Claim
  <1>5. \A i \in 1..Len(<<>>) : FALSE
    OBVIOUS
  <1> HIDE DEF holds
  <1> QED BY <1>1, <1>3, <1>4, <1>5, DischargeKeeps

LEMMA InterposeKeeps == Inv /\ DischargeInterpose => Inv'
  <1> SUFFICES ASSUME Inv, DischargeInterpose PROVE Inv'
    OBVIOUS
  <1> DEFINE d == Goal.discharge
             a == Alone(d.lhs)
             b == Alone(d.rhs)
             there == AllThere({d.lhs, d.rhs})
  <1>1. Ended("interpose") /\ Replaying /\ Discharged(HalvesStart(d), there, <<a, b>>)
    BY DEF DischargeInterpose, Ended
  <1>2. d.program \in Programs /\ IsPart(a) /\ IsPart(b)
    BY <1>1, GoalTyped DEF Discharges, Ended, IsPart, Alone, OuterOf, CalleeOf, Part, ProofRoles
  <1>3. ASSUME HalvesStart(d), there, Owes(manifest, a), Owes(manifest, b)
        PROVE  Settles
    <2>1. /\ Holding(Pair(Goal.end["src"], d.program))
          /\ Holding(Pair(d.program, Goal.end["tgt"]))
      BY <1>3 DEF Owes, Alone, Part, HalvesStart, StartsAt, AllThere
    <2>2. Holding(Goal.end)
      BY <1>1, <1>2, <2>1, GoalTyped, RefinesIsPreorder DEF Holding, Claim, Pair, Sides
    <2> QED BY <2>1, <2>2 DEF Settles
  <1>4. HalvesStart(d) \in BOOLEAN /\ there \in BOOLEAN
        /\ (there => {a.gid, b.gid} \subseteq DOMAIN manifest.goals)
    BY DEF HalvesStart, StartsAt, AllThere, Alone, Part
  <1> HIDE DEF a, b, d, there
  <1>5. <<a, b>>[1] = a /\ <<a, b>>[2] = b /\ Len(<<a, b>>) = 2
    OBVIOUS
  <1> QED BY <1>1, <1>2, <1>3, <1>4, <1>5, DischargeKeeps

LEMMA CaseKeeps == Inv /\ DischargeCase => Inv'
  <1> SUFFICES ASSUME Inv, DischargeCase PROVE Inv'
    OBVIOUS
  <1> DEFINE d == Goal.discharge
             a == Alone(d.holds)
             b == Alone(d.fails)
             split == {<<d.on, Goal.end[side]>> : side \in Sides} \subseteq Splittable
             there == AllThere({d.holds, d.fails}) /\ split
  <1>1. Ended("case") /\ Replaying /\ Discharged(CasesStart(d), there, <<a, b>>)
    BY DEF DischargeCase, Ended
  <1>2. IsPart(a) /\ IsPart(b) /\ d.on \in Splitters
    BY <1>1, GoalTyped DEF Discharges, Ended, IsPart, Alone, Part, ProofRoles
  <1>3. ASSUME CasesStart(d), there, Owes(manifest, a), Owes(manifest, b)
        PROVE  Settles
    <2>1. Holding(CasesOf(d.on, "holds")) /\ Holding(CasesOf(d.on, "fails"))
      BY <1>3 DEF Owes, Alone, Part, CasesStart, StartsAt, AllThere
    <2>2. \A case \in {"holds", "fails"} :
            Claim(CaseOf(d.on, case, Goal.end["src"]), CaseOf(d.on, case, Goal.end["tgt"]))
      BY <2>1 DEF Holding, CasesOf, Pair, Sides
    <2>3. /\ <<d.on, Goal.end["src"]>> \in Covered
          /\ {<<d.on, Goal.end["src"]>>, <<d.on, Goal.end["tgt"]>>} \subseteq Splittable
      BY <1>3 DEF CasesStart, Sides
    <2>4. Holding(Goal.end)
      BY <1>1, <1>2, <2>2, <2>3, GoalTyped, CasesCover DEF Holding
    <2> QED BY <1>1, <2>4, NoneBetween DEF Settles, Ended
  <1>4. CasesStart(d) \in BOOLEAN /\ there \in BOOLEAN
        /\ (there => {a.gid, b.gid} \subseteq DOMAIN manifest.goals)
    BY DEF CasesStart, AllThere, Alone, Part
  <1> HIDE DEF a, b, d, there
  <1>5. <<a, b>>[1] = a /\ <<a, b>>[2] = b /\ Len(<<a, b>>) = 2
    OBVIOUS
  <1> QED BY <1>1, <1>2, <1>3, <1>4, <1>5, DischargeKeeps

LEMMA CutKeeps == Inv /\ DischargeCut => Inv'
  <1> SUFFICES ASSUME Inv, DischargeCut PROVE Inv'
    OBVIOUS
  <1> DEFINE d == Goal.discharge
             a == OuterOf(d)
             b == CalleeOf(d)
             both == AllThere({d.outer, d.inner})
             holds == both => CutHolds(manifest, Goal, d)
             there == both /\ NamesFunctions(manifest, d)
  <1>1. Ended("cut") /\ Replaying /\ Discharged(holds, there, <<a, b>>)
    BY DEF DischargeCut, Ended
  <1>2. IsPart(a) /\ IsPart(b)
    BY <1>1, GoalTyped DEF Discharges, Ended, IsPart, OuterOf, CalleeOf, Part, ProofRoles
  <1>3. ASSUME holds, there, Owes(manifest, a), Owes(manifest, b)
        PROVE  Settles
    <2>1. {d.outer, d.inner} \subseteq DOMAIN manifest.goals
          /\ NamesFunctions(manifest, d) /\ CutHolds(manifest, Goal, d)
      BY <1>3 DEF AllThere
    <2>2. manifest \in Manifests /\ manifest.verdict = "verified"
      BY <1>1 DEF Inv, Replaying
    <2>3. Holding(Goal.end)
      BY <1>1, <1>3, <2>1, <2>2, GoalTyped, CutRule DEF Ended
    <2> QED BY <1>1, <2>3, NoneBetween DEF Settles, Ended
  <1>4. holds \in BOOLEAN /\ there \in BOOLEAN
        /\ (there => {a.gid, b.gid} \subseteq DOMAIN manifest.goals)
    BY DEF AllThere, OuterOf, CalleeOf, Part
  <1> HIDE DEF a, b, d, holds, there
  <1>5. <<a, b>>[1] = a /\ <<a, b>>[2] = b /\ Len(<<a, b>>) = 2
    OBVIOUS
  <1> QED BY <1>1, <1>2, <1>3, <1>4, <1>5, DischargeKeeps

-----------------------------------------------------------------------------
LEMMA ConcludeKeeps == Inv /\ Conclude => Inv'
  <1> SUFFICES ASSUME Inv, Conclude PROVE Inv'
    OBVIOUS
  <1>1. /\ manifest.verdict = "verified" /\ stack = <<>> /\ said = "nothing"
        /\ said' = IF failed THEN "not verified" ELSE "verified"
        /\ manifest' = manifest /\ stack' = stack /\ failed' = failed
    BY DEF Conclude
  <1>2. ~failed => Holding(manifest.goals[manifest.root].start)
    BY <1>1 DEF Inv, StackSound
  <1>3. Frames' = Frames
    BY <1>1 DEF Frames
  <1>4. TypeOK'
    BY <1>1, <1>3 DEF Inv, TypeOK, Words
  <1> QED BY <1>1, <1>2, <1>4 DEF Inv, StackSound, AcceptedTrue

LEMMA ConfirmKeeps == Inv /\ Confirm => Inv'
  <1> SUFFICES ASSUME Inv, Confirm PROVE Inv'
    OBVIOUS
  <1>1. /\ manifest.verdict = "counterexample" /\ said = "nothing"
        /\ manifest' = manifest /\ stack' = stack /\ failed' = failed
    BY DEF Confirm
  <1>2. /\ said' \in {"refused", "counterexample", "not a counterexample"}
        /\ said' = "counterexample" => <<manifest.pair, manifest.input>> \in Diverges
    BY <1>1 DEF Confirm, Answers, Refutes
  <1>3. manifest.pair \in Pairs /\ manifest.input \in Inputs \cup {NoInput}
    BY <1>1 DEF Inv, TypeOK, Shaped
  <1>4. said' = "counterexample" => ~Holding(manifest.pair)
    BY <1>2, <1>3, DivergenceRefutes
  <1>5. TypeOK'
    BY <1>1, <1>2 DEF Inv, TypeOK, Words
  <1> QED BY <1>1, <1>2, <1>4, <1>5 DEF Inv, StackSound, AcceptedTrue

LEMMA RefuseKeeps == Inv /\ Refuse => Inv'
  <1> SUFFICES ASSUME Inv, Refuse PROVE Inv'
    OBVIOUS
  <1>1. manifest' = manifest /\ stack' = stack /\ failed' = failed /\ said' = "refused"
    BY DEF Refuse
  <1>2. Frames' = Frames
    BY <1>1 DEF Frames
  <1> QED BY <1>1, <1>2 DEF Inv, TypeOK, Words, StackSound, AcceptedTrue

LEMMA StutterKeeps == Inv /\ UNCHANGED vars => Inv'
  <1> SUFFICES ASSUME Inv, UNCHANGED vars PROVE Inv'
    OBVIOUS
  <1>1. manifest' = manifest /\ stack' = stack /\ failed' = failed /\ said' = said
    BY DEF vars
  <1>2. TypeOK' /\ AcceptedTrue' /\ (manifest \in Manifests)'
    BY <1>1 DEF Inv, TypeOK, AcceptedTrue, Frames
  <1>3. StackSound'
    BY <1>1 DEF Inv, StackSound, Chained
  <1> QED BY <1>2, <1>3 DEF Inv

\* For every certificate, the word the kernel says is true, and at every moment of its
\* replay the goals left on the stack are all the root still needs (check.py main).
THEOREM KernelSound == Spec => [](TypeOK /\ StackSound /\ AcceptedTrue)
  <1>1. Inv /\ [Next]_vars => Inv'
    BY WalkingKeeps, CheckKeeps, InterposeKeeps, CaseKeeps, CutKeeps, ConcludeKeeps, ConfirmKeeps,
       RefuseKeeps, StutterKeeps DEF Next
  <1>2. Inv => TypeOK /\ StackSound /\ AcceptedTrue
    BY DEF Inv
  <1> QED BY InitInv, <1>1, <1>2, PTL DEF Spec

\* Every value the replay keeps has its type, and no chain is walked past its end (chain).
THEOREM KernelTyped == Spec => []TypeOK
  BY KernelSound, PTL

\* While nothing failed, the root needs nothing but the goals on the stack (check.py goal).
THEOREM KernelStack == Spec => []StackSound
  BY KernelSound, PTL

-----------------------------------------------------------------------------
(***************************************************************************)
(* The tools.  A process may be read with any of its lines said.  What the *)
(* drivers make of it never depends on where it was cut off: what tells    *)
(* is said last, or once, or comes with an exit code.                      *)
(***************************************************************************)

Lined == Seq([line : STRING, n : Nat])

LEMMA ScriptIs ==
  ASSUME NEW s \in Scripts
  PROVE  /\ s.tool \in Drivers \cup {"bash"} /\ s.says \in Lined /\ s.exit \in Nat
         /\ Len(s.says) \in Nat
  <1>1. s.tool \in Drivers \cup {"bash"} /\ s.says \in Lined /\ s.exit \in Nat
    BY ScriptsAssumption, Zenon DEF Lined
  <1> QED BY <1>1 DEF Lined

\* What was said first is the beginning of all there is to say.
LEMMA SaidFirst ==
  ASSUME NEW L \in Lined, NEW n \in 0..Len(L)
  PROVE  /\ Len(SubSeq(L, 1, n)) = n
         /\ \A i \in 1..n : SubSeq(L, 1, n)[i] = L[i]
         /\ n = Len(L) => SubSeq(L, 1, n) = L
  <1>1. Len(L) \in Nat /\ n \in Nat /\ n <= Len(L)
    BY DEF Lined
  <1>2. Len(SubSeq(L, 1, n)) = n /\ \A i \in 1..n : SubSeq(L, 1, n)[i] = L[i]
    BY <1>1 DEF Lined
  <1>3. ASSUME n = Len(L) PROVE SubSeq(L, 1, n) = L
    BY <1>1, <1>2, <1>3 DEF Lined
  <1> QED BY <1>2, <1>3

\* A word among the first lines is at its place in the whole.
LEMMA SaidEarly ==
  ASSUME NEW L \in Lined, NEW n \in 0..Len(L), NEW w
  PROVE  Says(SubSeq(L, 1, n), w) <=> \E i \in 1..n : L[i].line = w
  <1>1. DOMAIN SubSeq(L, 1, n) = 1..n
    BY DEF Lined
  <1> QED BY <1>1, SaidFirst DEF Says

LEMMA EarlyPlace ==
  ASSUME NEW N \in Nat, NEW n \in 0..N, NEW i \in 1..n
  PROVE  i \in 1..N /\ (i = N => n = N)
  OBVIOUS

\* What is said last, or once (ScriptsAssumption).
LEMMA ErrorsLast ==
  ASSUME NEW s \in Scripts, s.tool = "alive-tv", NEW i \in DOMAIN s.says, s.says[i].line = "errors"
  PROVE  i = Len(s.says)
  BY ScriptsAssumption

LEMMA ClosedLast ==
  ASSUME NEW s \in Scripts, s.tool = "llops", NEW i \in DOMAIN s.says, s.says[i].line = "}"
  PROVE  i = Len(s.says)
  BY ScriptsAssumption

LEMMA EndsOnce ==
  ASSUME NEW s \in Scripts, s.tool = "llubi", NEW i \in DOMAIN s.says, NEW j \in DOMAIN s.says,
         s.says[i].line = "left"
  PROVE  s.says[j].line # "ub"
  <1> SUFFICES ASSUME s.says[j].line = "ub" PROVE FALSE
    OBVIOUS
  <1>1. i = j
    BY ScriptsAssumption
  <1> QED BY <1>1

\* alive-tv ends with its errors, so a summary that is whole is all it says.
LEMMA SummaryIsLast ==
  ASSUME NEW s \in Scripts, s.tool = "alive-tv", NEW n \in 0..Len(s.says),
         Summarised(SubSeq(s.says, 1, n))
  PROVE  n = Len(s.says) /\ SubSeq(s.says, 1, n) = s.says
  <1>1. s.says \in Lined /\ Len(s.says) \in Nat
    BY ScriptIs
  <1>2. Says(SubSeq(s.says, 1, n), "errors")
    BY DEF Summarised, Counts
  <1>3. PICK i \in 1..n : s.says[i].line = "errors"
    BY <1>1, <1>2, SaidEarly
  <1>4. i \in DOMAIN s.says
    BY <1>1, <1>3, EarlyPlace DEF Lined
  <1>5. i = Len(s.says)
    BY <1>3, <1>4, ErrorsLast
  <1>6. n = Len(s.says)
    BY <1>1, <1>3, <1>5, EarlyPlace
  <1> QED BY <1>1, <1>6, SaidFirst

\* What a reading may have of a process: how many of its lines, and its exit
\* code only when it said them all.
Glimpsed(s, n, code) ==
  n \in 0..Len(s.says) /\ (code = Signalled \/ (n = Len(s.says) /\ code = s.exit))

LEMMA AliveTells ==
  ASSUME NEW s \in Scripts, s.tool = "alive-tv", NEW n \in 0..Len(s.says), NEW killed \in BOOLEAN,
         NEW L, L = SubSeq(s.says, 1, n), NEW a, a = ReadAlive(L, killed)
  PROVE  Meaning(a) \in {Meaning(Own(s)), "none"}
  <1>1. CASE Summarised(L)
    <2>1. L = s.says
      BY <1>1, SummaryIsLast
    <2>2. a = ReadSummary(s.says) /\ Summarised(s.says)
      BY <1>1, <2>1 DEF ReadAlive
    <2>3. Own(s) = ReadSummary(s.says)
      BY <2>2 DEF Own, Read, ReadAlive
    <2> QED BY <2>2, <2>3
  <1>2. CASE ~Summarised(L)
    <2>1. a \in {"clock", "error"}
      BY <1>2 DEF ReadAlive
    <2> QED BY <2>1 DEF Meaning, Telling
  <1> QED BY <1>1, <1>2

LEMMA LlubiTells ==
  ASSUME NEW s \in Scripts, s.tool = "llubi", NEW n \in 0..Len(s.says), NEW killed \in BOOLEAN,
         NEW L, L = SubSeq(s.says, 1, n), NEW a, a = ReadLlubi(L, killed)
  PROVE  Meaning(a) \in {Meaning(Own(s)), "none"}
  <1>1. s.says \in Lined /\ Len(s.says) \in Nat /\ DOMAIN s.says = 1..Len(s.says)
    BY ScriptIs DEF Lined
  <1>2. \A w : Says(L, w) => \E i \in DOMAIN s.says : s.says[i].line = w
    <2> TAKE w
    <2> HAVE Says(L, w)
    <2>1. PICK i \in 1..n : s.says[i].line = w
      BY <1>1, SaidEarly
    <2>2. i \in DOMAIN s.says
      BY <1>1, <2>1, EarlyPlace
    <2> QED BY <2>1, <2>2
  <1>3. Own(s) = ReadLlubi(s.says, FALSE)
    BY DEF Own, Read
  <1>4. CASE killed
    BY <1>4 DEF ReadLlubi, Meaning, Telling
  <1>5. CASE ~killed /\ Says(L, "ub")
    <2>1. Says(s.says, "ub")
      BY <1>2, <1>5 DEF Says
    <2> QED BY <1>3, <1>5, <2>1 DEF ReadLlubi
  <1>6. CASE ~killed /\ ~Says(L, "ub") /\ Says(L, "left")
    <2>1. PICK i \in DOMAIN s.says : s.says[i].line = "left"
      BY <1>2, <1>6
    <2>2. \A j \in DOMAIN s.says : s.says[j].line # "ub"
      BY <2>1, EndsOnce
    <2>3. ~Says(s.says, "ub") /\ Says(s.says, "left")
      BY <2>1, <2>2 DEF Says
    <2> QED BY <1>3, <1>6, <2>3 DEF ReadLlubi
  <1>7. CASE ~killed /\ ~Says(L, "ub") /\ ~Says(L, "left")
    BY <1>7 DEF ReadLlubi, Meaning, Telling
  <1> QED BY <1>4, <1>5, <1>6, <1>7

LEMMA LlopsTells ==
  ASSUME NEW s \in Scripts, s.tool = "llops", NEW n \in 0..Len(s.says), NEW killed \in BOOLEAN,
         NEW L, L = SubSeq(s.says, 1, n), NEW a, a = ReadLlops(L, killed)
  PROVE  Meaning(a) \in {Meaning(Own(s)), "none"}
  <1>1. s.says \in Lined /\ Len(s.says) \in Nat /\ DOMAIN s.says = 1..Len(s.says)
    BY ScriptIs DEF Lined
  <1>2. CASE killed \/ ~Says(L, "}")
    BY <1>2 DEF ReadLlops, Meaning, Telling
  <1>3. CASE ~killed /\ Says(L, "}")
    <2>1. PICK i \in 1..n : s.says[i].line = "}"
      BY <1>1, <1>3, SaidEarly
    <2>2. i \in DOMAIN s.says
      BY <1>1, <2>1, EarlyPlace
    <2>3. i = Len(s.says)
      BY <2>1, <2>2, ClosedLast
    <2>4. n = Len(s.says)
      BY <1>1, <2>1, <2>3, EarlyPlace
    <2>5. L = s.says
      BY <1>1, <2>4, SaidFirst
    <2> QED BY <1>3, <2>5 DEF Own, Read
  <1> QED BY <1>2, <1>3

\* However much of a process was heard, and however it ended, its call answers
\* what it would have answered left alone, or nothing.
LEMMA AnswersTell ==
  ASSUME NEW s \in Scripts, NEW n \in 0..Len(s.says), NEW killed \in BOOLEAN, NEW code,
         Glimpsed(s, n, code), NEW aborted \in BOOLEAN,
         NEW L, L = SubSeq(s.says, 1, n), NEW a, a = Read(s.tool, L, killed, code, aborted)
  PROVE  Meaning(a) \in {Meaning(Own(s)), "none"}
  <1>0. s.tool \in Drivers \cup {"bash"} /\ s.exit \in Nat
    BY ScriptIs
  <1>1. CASE s.tool = "alive-tv"
    BY <1>1, AliveTells DEF Read
  <1>2. CASE s.tool = "llubi"
    BY <1>2, LlubiTells DEF Read
  <1>3. CASE s.tool = "llops"
    BY <1>3, LlopsTells DEF Read
  <1>4. CASE s.tool = "llrwt"
    <2>1. a = ReadLlrwt(L, killed, code) /\ Own(s) = ReadLlrwt(s.says, FALSE, s.exit)
      BY <1>4 DEF Read, Own
    <2>2. CASE code = 0 /\ ~(killed /\ code = Signalled)
      <3>1. code = s.exit
        BY <2>2 DEF Glimpsed, Signalled
      <3>2. a = "ok" /\ Own(s) = "ok"
        BY <2>1, <2>2, <3>1 DEF ReadLlrwt
      <3> QED BY <3>2
    <2>3. CASE code # 0 \/ (killed /\ code = Signalled)
      <3>1. a \in {"clock", "thrown", "unknown_rule", "bridge_error", "verify_error", "timeout",
                   "parse_error"}
        BY <2>1, <2>3 DEF ReadLlrwt
      <3> QED BY <3>1 DEF Meaning, Telling
    <2> QED BY <2>2, <2>3
  <1>5. CASE s.tool = "bash"
    <2>1. a = ReadShell(killed, code, aborted) /\ Own(s) = "exit"
      BY <1>0, <1>5 DEF Read, Own, ReadShell, Signalled
    <2>2. a \in {"aborted", "clock", "died", "exit"}
      BY <2>1 DEF ReadShell
    <2> QED BY <2>1, <2>2 DEF Meaning, Telling
  <1> QED BY <1>0, <1>1, <1>2, <1>3, <1>4, <1>5 DEF Drivers

-----------------------------------------------------------------------------
\* The directory a call is made with.
Held(s) == IF s.tool \in Filed THEN "held" ELSE "none"

\* Where the call made last stands.
Standing ==
  /\ at \in {"closed", "refused", "ready"} =>
       script = Nothing /\ child = "none" /\ jobs = "none" /\ files = "none" /\ abort = "no"
       /\ timer = "off"
  /\ at \in {"preparing", "running", "over"} => script \in Scripts
  /\ at = "preparing" => /\ script.tool = "bash" /\ child = "none" /\ jobs = "none" /\ files = "none"
                         /\ timer \in {"off", "wanted"} /\ abort # "heard"
  /\ at = "running" => /\ child # "none" /\ timer # "wanted"
                       /\ files = Held(script)
  /\ at \notin {"closed", "refused"} => Together(built)

\* What its process has come to, and what became of it.
Outcomes ==
  /\ child = "ended" => written = Len(script.says)
  /\ at \in {"running", "over"} /\ child = "told" => timer = "fired"
  /\ at \in {"running", "over"} /\ script.tool = "bash" => child # "told"
  /\ at = "over" => child \notin {"alive", "told"} /\ timer # "armed"
  /\ at = "over" /\ child = "none" => timer = "off" /\ abort # "heard"
  /\ script.tool # "bash" => abort = "no" /\ jobs = "none"

ToolInv == ToolSafe /\ Standing /\ Outcomes

LEMMA ToolInitStands == ToolInit => ToolInv
  BY DEF ToolInit, ToolInv, ToolSafe, ToolTyped, HeardOut, NotBlamed, FilesHeld, NothingLeft, Standing,
         Outcomes, Nothing

LEMMA InsistKeeps == ToolInv /\ Insist => ToolInv'
  BY DEF Insist, ToolInv, ToolSafe, ToolTyped, HeardOut, NotBlamed, FilesHeld, NothingLeft, Standing,
         Outcomes, Lives

\* A call of a tool is of one of the scripts, and its shell state is what it was.
LEMMA AskKeeps ==
  ASSUME ToolInv, NEW s \in Scripts, AskAlive(s) \/ AskLlrwt(s) \/ AskLlubi(s) \/ AskLlops(s)
  PROVE  ToolInv'
  <1>1. Spawned(s, Held(s)) /\ s.tool # "bash" /\ Len(s.says) \in Nat
    BY ScriptIs DEF AskAlive, AskLlrwt, AskLlubi, AskLlops, Requests, Held, Filed
  <1> QED BY <1>1 DEF Spawned, Fresh, Held, ToolInv, ToolSafe, ToolTyped, HeardOut, NotBlamed, FilesHeld,
                      NothingLeft, Standing, Outcomes, Filed

LEMMA SpawnFailsKeeps == ASSUME ToolInv, NEW s \in Scripts, SpawnFails(s) PROVE ToolInv'
  <1>1. s.tool \in Drivers /\ s.tool # "bash" /\ Len(s.says) \in Nat
    BY ScriptIs DEF SpawnFails, Drivers
  <1> QED BY <1>1 DEF SpawnFails, Fresh, ToolInv, ToolSafe, ToolTyped, HeardOut, NotBlamed, FilesHeld,
                      NothingLeft, Standing, Outcomes

LEMMA WriteFailsKeeps == ASSUME ToolInv, NEW s \in Scripts, WriteFails(s) PROVE ToolInv'
  <1>1. s.tool # "bash" /\ Len(s.says) \in Nat
    BY ScriptIs DEF WriteFails, Filed
  <1> QED BY <1>1 DEF WriteFails, Fresh, ToolInv, ToolSafe, ToolTyped, HeardOut, NotBlamed, FilesHeld,
                      NothingLeft, Standing, Outcomes

LEMMA PrepareKeeps ==
  ASSUME ToolInv, NEW s \in Scripts, NEW limit \in {"off", "wanted"}, Prepare(s, limit)
  PROVE  ToolInv'
  <1>1. Len(s.says) \in Nat
    BY ScriptIs
  <1> QED BY <1>1 DEF Prepare, Fresh, ToolInv, ToolSafe, ToolTyped, HeardOut, NotBlamed, FilesHeld,
                      NothingLeft, Standing, Outcomes

LEMMA PreparedKeeps == ToolInv /\ Prepared => ToolInv'
  BY DEF Prepared, Held, Filed, ToolInv, ToolSafe, ToolTyped, HeardOut, NotBlamed, FilesHeld, NothingLeft,
         Standing, Outcomes

LEMMA PrepareFailsKeeps == ToolInv /\ PrepareFails => ToolInv'
  BY DEF PrepareFails, ToolInv, ToolSafe, ToolTyped, HeardOut, NotBlamed, FilesHeld, NothingLeft,
         Standing, Outcomes

LEMMA AbortKeeps == ToolInv /\ Abort => ToolInv'
  BY DEF Abort, GroupKilled, ToolInv, ToolSafe, ToolTyped, HeardOut, NotBlamed, FilesHeld, NothingLeft,
         Standing, Outcomes

LEMMA JobsKeep == ToolInv /\ (Forks \/ JobEnds) => ToolInv'
  BY DEF Forks, JobEnds, ToolInv, ToolSafe, ToolTyped, HeardOut, NotBlamed, FilesHeld, NothingLeft,
         Standing, Outcomes

LEMMA WritesKeeps == ToolInv /\ Writes => ToolInv'
  <1> SUFFICES ASSUME ToolInv, Writes PROVE ToolInv'
    OBVIOUS
  <1>1. Len(script.says) \in Nat
    BY ScriptIs DEF ToolInv, Standing, Writes
  <1> QED BY <1>1 DEF Writes, Lives, ToolInv, ToolSafe, ToolTyped, HeardOut, NotBlamed, FilesHeld,
                      NothingLeft, Standing, Outcomes

LEMMA EndingKeeps == ToolInv /\ (Exits \/ Dies \/ Obeys) => ToolInv'
  BY DEF Exits, Dies, Obeys, Lives, ToolInv, ToolSafe, ToolTyped, HeardOut, NotBlamed, FilesHeld,
         NothingLeft, Standing, Outcomes

LEMMA FiresKeeps == ToolInv /\ Fires => ToolInv'
  BY DEF Fires, GroupKilled, ToolInv, ToolSafe, ToolTyped, HeardOut, NotBlamed, FilesHeld, NothingLeft,
         Standing, Outcomes

LEMMA RunEndsKeeps == ToolInv /\ RunEnds => ToolInv'
  BY DEF RunEnds, ToolInv, ToolSafe, ToolTyped, HeardOut, NotBlamed, FilesHeld, NothingLeft, Standing,
         Outcomes

\* What was heard of the process that ended, as a reading of its script.
LEMMA RepliesGlimpse ==
  ASSUME ToolInv, Replies
  PROVE  /\ script \in Scripts /\ written \in 0..Len(script.says)
         /\ Glimpsed(script, written, Code) /\ script.says \in Lined
         /\ child = "ended" => Heard = script.says /\ Code = script.exit
         /\ child = "died" => Code = Signalled
  <1>1. script \in Scripts /\ written \in 0..Len(script.says) /\ script.says \in Lined
    BY ScriptIs DEF ToolInv, ToolSafe, ToolTyped, Standing, Replies
  <1>2. child = "ended" => written = Len(script.says)
    BY DEF ToolInv, Outcomes
  <1>3. child = "ended" => Heard = script.says
    BY <1>1, <1>2, SaidFirst DEF Heard
  <1> QED BY <1>1, <1>2, <1>3 DEF Code, Glimpsed, Replies

LEMMA RepliesHearsOut == ASSUME ToolInv, Replies PROVE HeardOut'
  <1> SUFFICES ASSUME child = "ended", abort = "no",
                      \/ script.tool = "llrwt"
                      \/ script.tool = "alive-tv" /\ Summarised(script.says)
                      \/ timer # "fired"
               PROVE  answer' = Own(script)
    BY DEF HeardOut, Replies
  <1>1. answer' = Read(script.tool, script.says, timer = "fired", script.exit, FALSE)
    BY RepliesGlimpse DEF Replies
  <1>2. script.exit # Signalled
    BY RepliesGlimpse, ScriptIs DEF Signalled
  <1>3. CASE timer # "fired"
    BY <1>1, <1>3 DEF Own
  <1>4. CASE script.tool = "llrwt"
    BY <1>1, <1>2, <1>4 DEF Own, Read, ReadLlrwt
  <1>5. CASE script.tool = "alive-tv" /\ Summarised(script.says)
    BY <1>1, <1>5 DEF Own, Read, ReadAlive
  <1> QED BY <1>3, <1>4, <1>5

LEMMA RepliesBlamesNot == ASSUME ToolInv, Replies PROVE NotBlamed'
  <1> SUFFICES ASSUME child = "died", timer = "fired", abort = "no"
               PROVE  \/ answer' = "clock"
                      \/ script.tool = "alive-tv" /\ written = Len(script.says) /\ answer' = Own(script)
    BY DEF NotBlamed, Replies
  <1>1. answer' = Read(script.tool, Heard, TRUE, Signalled, FALSE)
    BY RepliesGlimpse DEF Replies
  <1>2. script \in Scripts /\ written \in 0..Len(script.says)
    BY RepliesGlimpse
  <1>3. CASE script.tool = "alive-tv"
    <2>1. CASE Summarised(Heard)
      <3>1. written = Len(script.says) /\ Heard = script.says
        BY <1>2, <1>3, <2>1, SummaryIsLast DEF Heard
      <3> QED BY <1>1, <1>3, <2>1, <3>1 DEF Own, Read, ReadAlive
    <2>2. CASE ~Summarised(Heard)
      BY <1>1, <1>3, <2>2 DEF Read, ReadAlive
    <2> QED BY <2>1, <2>2
  <1>4. CASE script.tool # "alive-tv"
    BY <1>1, <1>4 DEF Read, ReadLlubi, ReadLlops, ReadLlrwt, ReadShell
  <1> QED BY <1>3, <1>4

LEMMA RepliesKeeps == ToolInv /\ Replies => ToolInv'
  <1> SUFFICES ASSUME ToolInv, Replies PROVE ToolInv'
    OBVIOUS
  <1>1. ToolTyped' /\ FilesHeld' /\ NothingLeft'
    BY DEF ToolInv, ToolSafe, ToolTyped, FilesHeld, NothingLeft, Outcomes, Standing, Replies
  <1>2. Standing' /\ Outcomes'
    BY DEF ToolInv, ToolSafe, ToolTyped, Standing, Outcomes, Replies
  <1> QED BY <1>1, <1>2, RepliesHearsOut, RepliesBlamesNot DEF ToolInv, ToolSafe

LEMMA ToolStutterKeeps == ToolInv /\ UNCHANGED toolVars => ToolInv'
  BY DEF toolVars, ToolInv, ToolSafe, ToolTyped, HeardOut, NotBlamed, FilesHeld, NothingLeft, Standing,
         Outcomes, Held

LEMMA ToolInvKept == ToolInv /\ [ToolNext]_toolVars => ToolInv'
  <1> SUFFICES ASSUME ToolInv, [ToolNext]_toolVars PROVE ToolInv'
    OBVIOUS
  <1>1. CASE \E s \in Scripts : Calls(s)
    BY <1>1, AskKeeps, SpawnFailsKeeps, WriteFailsKeeps, PrepareKeeps DEF Calls
  <1>2. CASE Insist \/ Prepared \/ PrepareFails \/ Abort \/ Forks \/ JobEnds
    BY <1>2, InsistKeeps, PreparedKeeps, PrepareFailsKeeps, AbortKeeps, JobsKeep
  <1>3. CASE Writes \/ Exits \/ Dies \/ Obeys \/ Fires \/ Replies \/ RunEnds
    BY <1>3, WritesKeeps, EndingKeeps, FiresKeeps, RepliesKeeps, RunEndsKeeps
  <1>4. CASE UNCHANGED toolVars
    BY <1>4, ToolStutterKeeps
  <1> QED BY <1>1, <1>2, <1>3, <1>4 DEF ToolNext

\* The state the driver hides: what a call is worth is in HeardOf alone.
LEMMA HeardOfKept ==
  at' = at /\ answer' = answer /\ built' = built => HeardOf' = HeardOf
  BY DEF HeardOf

LEMMA MeaningIs == \A a : Meaning(a) \notin {"waiting", "stopped", "idle"}
  BY DEF Meaning, Telling

\* A call asks the oracle, which may say at once that it knows nothing.
LEMMA CallPoses ==
  ASSUME ToolInv, NEW s \in Scripts, Calls(s)
  PROVE  O!Pose(s)
  <1>1. at \in {"ready", "over"} /\ script' = s /\ built' = built
    BY DEF Calls, AskAlive, AskLlrwt, AskLlubi, AskLlops, Spawned, SpawnFails, WriteFails, Prepare, Fresh
  <1>2. Agree(built) /\ Agree(built')
    BY <1>1 DEF ToolInv, Standing, Together
  <1>3. HeardOf \notin {"waiting", "stopped"}
    BY <1>1, <1>2, MeaningIs DEF HeardOf
  <1>4. at' = "running" \/ at' = "preparing" \/ (at' = "over" /\ answer' \in {"thrown", "unwritten"})
    BY DEF Calls, AskAlive, AskLlrwt, AskLlubi, AskLlops, Spawned, SpawnFails, WriteFails, Prepare
  <1>5. HeardOf' \in {"waiting", "none"}
    BY <1>2, <1>4 DEF HeardOf, Meaning, Telling
  <1> QED BY <1>1, <1>3, <1>5 DEF O!Pose

\* A reply is the oracle's: the truth about what was asked, or nothing.
LEMMA ReplyHears == ASSUME ToolInv, Replies PROVE O!Hear
  <1>1. script \in Scripts /\ written \in 0..Len(script.says) /\ Glimpsed(script, written, Code)
    BY RepliesGlimpse
  <1>2. Agree(built) /\ Agree(built') /\ at = "running" /\ at' = "over" /\ script' = script
    BY DEF ToolInv, Standing, Together, Replies
  <1>3. Meaning(answer') \in {Meaning(Own(script)), "none"}
    <2> DEFINE killed == timer = "fired"
               aborted == abort # "no"
    <2>1. answer' = Read(script.tool, Heard, killed, Code, aborted)
      BY DEF Replies
    <2>2. killed \in BOOLEAN /\ aborted \in BOOLEAN
      OBVIOUS
    <2> HIDE DEF killed, aborted
    <2> QED BY <1>1, <2>1, <2>2, AnswersTell DEF Heard
  <1>4. HeardOf = "waiting" /\ HeardOf' = Meaning(answer')
    BY <1>2 DEF HeardOf
  <1>5. [s \in Scripts |-> Meaning(Own(s))][script] = Meaning(Own(script))
    BY <1>1
  <1> QED BY <1>2, <1>3, <1>4, <1>5 DEF O!Hear

LEMMA PrepareFailsHears == ASSUME ToolInv, PrepareFails PROVE O!Hear
  <1>1. Agree(built) /\ built' = built /\ at = "preparing" /\ at' = "over" /\ script' = script
        /\ answer' = "thrown"
    BY DEF ToolInv, Standing, Together, PrepareFails
  <1>2. HeardOf = "waiting" /\ HeardOf' = "none"
    BY <1>1 DEF HeardOf, Meaning, Telling
  <1> QED BY <1>1, <1>2 DEF O!Hear

LEMMA StepIsOracles == ToolInv /\ [ToolNext]_toolVars => [O!OracleNext]_(O!oracleVars)
  <1> SUFFICES ASSUME ToolInv, [ToolNext]_toolVars PROVE [O!OracleNext]_(O!oracleVars)
    OBVIOUS
  <1>1. CASE \E s \in Scripts : Calls(s)
    BY <1>1, CallPoses DEF O!OracleNext
  <1>2. CASE Insist
    <2>1. script' = script /\ HeardOf = "idle" /\ HeardOf' = "idle"
      BY <1>2 DEF Insist, HeardOf
    <2> QED BY <2>1 DEF O!oracleVars
  <1>3. CASE Prepared
    <2>1. script' = script /\ HeardOf = "waiting" /\ HeardOf' = "waiting"
      BY <1>3 DEF Prepared, HeardOf
    <2> QED BY <2>1 DEF O!oracleVars
  <1>4. CASE PrepareFails
    BY <1>4, PrepareFailsHears DEF O!OracleNext
  <1>5. CASE Abort \/ Forks \/ JobEnds \/ Writes \/ Exits \/ Dies \/ Obeys \/ Fires
    <2>1. script' = script /\ at' = at /\ answer' = answer /\ built' = built
      BY <1>5 DEF Abort, Forks, JobEnds, Writes, Exits, Dies, Obeys, Fires
    <2> QED BY <2>1, HeardOfKept DEF O!oracleVars
  <1>6. CASE Replies
    BY <1>6, ReplyHears DEF O!OracleNext
  <1>7. CASE RunEnds
    <2>1. script' = script /\ HeardOf' = "stopped"
      BY <1>7 DEF RunEnds, HeardOf
    <2> QED BY <2>1 DEF O!Cease, O!OracleNext
  <1>8. CASE UNCHANGED toolVars
    <2>1. script' = script /\ at' = at /\ answer' = answer /\ built' = built
      BY <1>8 DEF toolVars
    <2> QED BY <2>1, HeardOfKept DEF O!oracleVars
  <1> QED BY <1>1, <1>2, <1>3, <1>4, <1>5, <1>6, <1>7, <1>8 DEF ToolNext

\* Whatever the calls, their scripts and what is installed, every call is where its process,
\* its clock and its files are, and is heard out, blamed and cleaned up after as the drivers
\* and the shell mean it (alive2.ts, llubi.ts, llops.ts, llrwt.ts, sandbox.ts).
THEOREM ToolInvHolds == ToolSpec => []ToolInv
  BY ToolInitStands, ToolInvKept, PTL DEF ToolSpec

\* A process that ended by itself is heard out, though its clock ran out meanwhile (llrwt.ts:182).
THEOREM EndedAreHeardOut == ToolSpec => []HeardOut
  <1>1. ToolInv => HeardOut
    BY DEF ToolInv, ToolSafe
  <1> QED BY <1>1, ToolInvHolds, PTL

\* A process a driver stopped is never taken for a broken installation (alive2.ts:140).
THEOREM StoppedAreNotBlamed == ToolSpec => []NotBlamed
  <1>1. ToolInv => NotBlamed
    BY DEF ToolInv, ToolSafe
  <1> QED BY <1>1, ToolInvHolds, PTL

\* The files of a call are there while it runs, and gone once it is over (alive2.ts:146),
\* and a command that was stopped leaves no process of its group behind (sandbox.ts:193).
THEOREM CallsTidyUp == ToolSpec => []TidiesUp
  <1>1. ToolInv => TidiesUp
    BY DEF ToolInv, ToolSafe, TidiesUp
  <1> QED BY <1>1, ToolInvHolds, PTL

\* The drivers are an oracle: in a run that was let start, a call says the truth about what
\* it was asked or nothing, wherever its process was cut off and however it ended.
THEOREM ToolsAreAnOracle == ToolSpec => AnswersOrNone
  <1>1. ToolInit => O!OracleInit
    BY DEF ToolInit, O!OracleInit, HeardOf
  <1> QED BY <1>1, ToolInvHolds, StepIsOracles, PTL DEF ToolSpec, AnswersOrNone, O!OracleSpec

-----------------------------------------------------------------------------
(* Why a split is right, and a report: Splits. *)

GoodFns == {p \in Shapes : Monotone(p)}
GoodPairs == [src : GoodFns, tgt : GoodFns]

LEMMA CoveringComposes ==
  ASSUME NEW Q, NEW R, NEW W, Covers(Q, R), Covers(R, W)
  PROVE  Covers(Q, W)
  <1>1. \A q, r, w : Allows(q, r) /\ Allows(r, w) => Allows(q, w)
    BY DEF Allows
  <1> QED BY <1>1 DEF Covers

LEMMA CoveringItself == ASSUME NEW Q PROVE Covers(Q, Q)
  BY DEF Covers, Allows

LEMMA UndefinedCovers ==
  ASSUME NEW Q, NEW W, UB \in Q
  PROVE  Covers(Q, W)
  BY DEF Covers, Allows

LEMMA EndsTyped ==
  ASSUME NEW p \in Shapes, NEW a \in Arguments
  PROVE  Ends(p, a) \subseteq Endings
  <1>1. p.does[a] \in SUBSET Endings
    BY DEF Shapes
  <1>2. UB \in Endings
    BY DEF Endings
  <1> QED BY <1>1, <1>2 DEF Ends

\* What follows a call is covered when what the call comes to is.
LEMMA ThroughCovers ==
  ASSUME NEW p \in GoodFns, NEW a \in Arguments,
         NEW Q \in SUBSET Endings, NEW W \in SUBSET Endings, Covers(Q, W)
  PROVE  Covers(Through(p, a, Q), Through(p, a, W))
  <1> SUFFICES ASSUME NEW w \in W, NEW e \in Then(p, a, w)
               PROVE  \E d \in Through(p, a, Q) : Allows(d, e)
    BY DEF Covers, Through
  <1>1. PICK q \in Q : Allows(q, w)
    BY DEF Covers
  <1>2. Then(p, a, q) \subseteq Through(p, a, Q)
    BY DEF Through
  <1>3. CASE q = UB
    <2>1. UB \in Through(p, a, Q)
      BY <1>2, <1>3 DEF Then
    <2> QED BY <2>1 DEF Allows
  <1>4. CASE q # UB
    <2>1. w # UB /\ q \in Results /\ w \in Results
      BY <1>1, <1>4 DEF Allows, Endings
    <2>2. Covers(p.after[a][q], p.after[a][w])
      BY <1>1, <2>1 DEF GoodFns, Monotone
    <2>3. e \in p.after[a][w] /\ Then(p, a, q) = p.after[a][q]
      BY <1>4, <2>1 DEF Then
    <2> QED BY <1>2, <2>2, <2>3 DEF Covers
  <1> QED BY <1>3, <1>4

\* The function around a call does what it did when the call is made safer.
LEMMA ActsCovers ==
  ASSUME NEW p \in GoodFns, NEW f \in Shapes, NEW g \in Shapes, NEW a \in Arguments,
         \A b \in Arguments : Covers(Ends(f, b), Ends(g, b))
  PROVE  Covers(Acts(p, f, a), Acts(p, g, a))
  <1>1. p.passes[a] \in Arguments
    BY DEF GoodFns, Shapes
  <1>2. Covers(Through(p, a, Ends(f, p.passes[a])), Through(p, a, Ends(g, p.passes[a])))
    BY <1>1, EndsTyped, ThroughCovers
  <1> QED BY <1>2, CoveringItself DEF Acts

LEMMA StraightActs ==
  ASSUME NEW p, Straight(p), NEW f, NEW a
  PROVE  Acts(p, f, a) = Ends(p, a)
  BY DEF Straight, Acts, Ends

-----------------------------------------------------------------------------
(* By cases. *)

LEMMA NoundefActs ==
  ASSUME NEW p \in Shapes, NEW x \in Params, NEW a \in Arguments, NEW f
  PROVE  /\ a[x] = Poison => Acts(Noundef(p, x), f, a) = {UB}
         /\ a[x] # Poison => Acts(Noundef(p, x), f, a) = Acts(p, f, a)
         /\ Noundef(p, x).calls = p.calls
  <1> DEFINE n == Noundef(p, x)
  <1>1. /\ n.undef = p.undef \cup {x} /\ n.calls = p.calls /\ n.reaches = p.reaches
        /\ n.passes = p.passes /\ n.after = p.after /\ n.does = p.does
    BY DEF Noundef, Shapes
  <1>2. a[x] = Poison => Undefined(n, a)
    BY <1>1 DEF Undefined
  <1>3. a[x] # Poison => (Undefined(n, a) <=> Undefined(p, a))
    BY <1>1 DEF Undefined
  <1>4. \A W : Through(n, a, W) = Through(p, a, W)
    BY <1>1 DEF Through, Then
  <1> QED BY <1>1, <1>2, <1>3, <1>4 DEF Acts

LEMMA PoisonedTyped ==
  ASSUME NEW x \in Params, NEW a \in Arguments
  PROVE  /\ Poisoned(a, x) \in Arguments /\ Poisoned(a, x)[x] = Poison
         /\ \A z \in Params : z # x => Poisoned(a, x)[z] = a[z]
         /\ a[x] = Poison => Poisoned(a, x) = a
  BY DEF Arguments, Poisoned

LEMMA MadePoisonActs ==
  ASSUME NEW p \in Shapes, NEW x \in Params, NEW a \in Arguments, NEW f
  PROVE  /\ Acts(MadePoison(p, x), f, a) = Acts(p, f, Poisoned(a, x))
         /\ MadePoison(p, x).calls = p.calls
  <1> DEFINE n == MadePoison(p, x)
             b == Poisoned(a, x)
  <1>0. n.calls = p.calls /\ n.undef = p.undef
    BY DEF MadePoison, Shapes
  <1>1. CASE x \in p.undef
    <2>1. Undefined(p, b)
      BY <1>1, PoisonedTyped DEF Undefined
    <2>2. n.reaches = {} /\ n.does[a] = {UB}
      BY <1>1 DEF MadePoison, Shapes
    <2>3. Acts(n, f, a) = {UB}
      BY <2>2 DEF Acts
    <2> QED BY <1>0, <2>1, <2>3 DEF Acts
  <1>2. CASE x \notin p.undef
    <2>1. /\ a \in n.reaches <=> b \in p.reaches
          /\ n.passes[a] = p.passes[b] /\ n.after[a] = p.after[b] /\ n.does[a] = p.does[b]
      BY <1>2 DEF MadePoison, Shapes
    <2>2. Undefined(n, a) <=> Undefined(p, b)
      <3>1. \A z \in p.undef : z \in Params /\ z # x
        BY <1>2 DEF Shapes
      <3> QED BY <1>0, <3>1, PoisonedTyped DEF Undefined
    <2>3. \A W : Through(n, a, W) = Through(p, b, W)
      BY <2>1 DEF Through, Then
    <2> QED BY <1>0, <2>1, <2>2, <2>3 DEF Acts
  <1> QED BY <1>1, <1>2

LEMMA GivenActs ==
  ASSUME NEW p \in Shapes, NEW c, NEW a \in Arguments, NEW f
  PROVE  /\ Satisfies(a, c) => Acts(Given(p, c), f, a) = Acts(p, f, a)
         /\ ~Satisfies(a, c) => Acts(Given(p, c), f, a) = {UB}
         /\ Given(p, c).calls = p.calls
  <1> DEFINE n == Given(p, c)
  <1>1. /\ n.undef = p.undef /\ n.calls = p.calls /\ n.passes = p.passes /\ n.after = p.after
        /\ n.reaches = {b \in p.reaches : Satisfies(b, c)}
        /\ n.does[a] = IF Satisfies(a, c) THEN p.does[a] ELSE {UB}
    BY DEF Given, Shapes
  <1>2. Undefined(n, a) <=> Undefined(p, a)
    BY <1>1 DEF Undefined
  <1>3. \A W : Through(n, a, W) = Through(p, a, W)
    BY <1>1 DEF Through, Then
  <1> QED BY <1>1, <1>2, <1>3 DEF Acts

\* Each comparison holds, or its inverse does.
LEMMA OneCompares ==
  ASSUME NEW op \in Ops, NEW v \in Values, NEW w \in Values
  PROVE  INVERSE[op] \in Ops /\ (Compare(op, v, w) \/ Compare(INVERSE[op], v, w))
  <1>1. v \in Int /\ w \in Int /\ Signed(v) \in Int /\ Signed(w) \in Int
    BY FnsAssumption DEF Values, Signed
  <1> HIDE DEF Signed
  <1>2. CASE op = "eq"
    <2>1. INVERSE[op] = "ne"
      BY <1>2 DEF INVERSE, Ops
    <2> QED BY <1>2, <2>1 DEF Compare, Ops
  <1>3. CASE op = "ne"
    <2>1. INVERSE[op] = "eq"
      BY <1>3 DEF INVERSE, Ops
    <2> QED BY <1>1, <1>3, <2>1 DEF Compare, Ops
  <1>4. CASE op = "slt"
    <2>1. INVERSE[op] = "sge"
      BY <1>4 DEF INVERSE, Ops
    <2> QED BY <1>1, <1>4, <2>1 DEF Compare, Ops
  <1>5. CASE op = "sge"
    <2>1. INVERSE[op] = "slt"
      BY <1>5 DEF INVERSE, Ops
    <2> QED BY <1>1, <1>5, <2>1 DEF Compare, Ops
  <1>6. CASE op = "sgt"
    <2>1. INVERSE[op] = "sle"
      BY <1>6 DEF INVERSE, Ops
    <2> QED BY <1>1, <1>6, <2>1 DEF Compare, Ops
  <1>7. CASE op = "sle"
    <2>1. INVERSE[op] = "sgt"
      BY <1>7 DEF INVERSE, Ops
    <2> QED BY <1>1, <1>7, <2>1 DEF Compare, Ops
  <1>8. CASE op = "ult"
    <2>1. INVERSE[op] = "uge"
      BY <1>8 DEF INVERSE, Ops
    <2> QED BY <1>1, <1>8, <2>1 DEF Compare, Ops
  <1>9. CASE op = "uge"
    <2>1. INVERSE[op] = "ult"
      BY <1>9 DEF INVERSE, Ops
    <2> QED BY <1>1, <1>9, <2>1 DEF Compare, Ops
  <1>10. CASE op = "ugt"
    <2>1. INVERSE[op] = "ule"
      BY <1>10 DEF INVERSE, Ops
    <2> QED BY <1>1, <1>10, <2>1 DEF Compare, Ops
  <1>11. CASE op = "ule"
    <2>1. INVERSE[op] = "ugt"
      BY <1>11 DEF INVERSE, Ops
    <2> QED BY <1>1, <1>11, <2>1 DEF Compare, Ops
  <1> QED BY <1>2, <1>3, <1>4, <1>5, <1>6, <1>7, <1>8, <1>9, <1>10, <1>11 DEF Ops

LEMMA OneCase ==
  ASSUME NEW s \in Shapes, NEW c \in Comparisons, Fit(s, c), NEW a \in Arguments,
         ~Undefined(s, a)
  PROVE  Satisfies(a, c) \/ Satisfies(a, Inverted(c))
  <1>1. \A o \in {c.lhs, c.rhs} : Operand(o, a) \in Values /\ Operand(o, a) # Poison
    <2> SUFFICES ASSUME NEW o \in {c.lhs, c.rhs}
                 PROVE  Operand(o, a) \in Values /\ Operand(o, a) # Poison
      OBVIOUS
    <2>1. CASE o \in Params
      <3>1. o \in s.undef /\ a[o] \in Values \cup {Poison}
        BY <2>1 DEF Fit, NamedIn, Arguments
      <3> QED BY <2>1, <3>1 DEF Undefined, Operand
    <2>2. CASE o \notin Params
      <3>1. o \in Values
        BY <2>2 DEF Comparisons
      <3> QED BY <2>2, <3>1, FnsAssumption DEF Operand
    <2> QED BY <2>1, <2>2
  <1>2. /\ Inverted(c).lhs = c.lhs /\ Inverted(c).rhs = c.rhs /\ c.op \in Ops
        /\ Inverted(c).op = INVERSE[c.op]
    BY DEF Inverted, Comparisons
  <1>3. \/ Compare(c.op, Operand(c.lhs, a), Operand(c.rhs, a))
        \/ Compare(INVERSE[c.op], Operand(c.lhs, a), Operand(c.rhs, a))
    BY <1>1, <1>2, OneCompares
  <1> QED BY <1>1, <1>2, <1>3 DEF Satisfies

-----------------------------------------------------------------------------
(* The functions a run makes of those it was given. *)

LEMMA FnsGood == Fns \subseteq GoodFns /\ Callees \subseteq GoodFns /\ Posed \subseteq GoodPairs
  <1>1. Fns \subseteq GoodFns /\ Callees \subseteq Fns
    BY FnsAssumption DEF GoodFns
  <1>2. Posed \subseteq [src : Fns, tgt : Fns]
    BY FnsAssumption
  <1> QED BY <1>1, <1>2 DEF GoodPairs

LEMMA MonotoneAfter ==
  ASSUME NEW p, NEW n, n.after = p.after, Monotone(p)
  PROVE  Monotone(n)
  BY DEF Monotone

LEMMA NoundefGood ==
  ASSUME NEW p \in GoodFns, NEW x \in Params
  PROVE  Noundef(p, x) \in GoodFns
  <1>1. p \in Shapes /\ Monotone(p)
    BY DEF GoodFns
  <1>2. Noundef(p, x) \in Shapes /\ Noundef(p, x).after = p.after
    BY <1>1 DEF Noundef, Shapes
  <1> QED BY <1>1, <1>2, MonotoneAfter DEF GoodFns

LEMMA MadePoisonGood ==
  ASSUME NEW p \in GoodFns, NEW x \in Params
  PROVE  MadePoison(p, x) \in GoodFns
  <1>1. p \in Shapes /\ Monotone(p)
    BY DEF GoodFns
  <1> DEFINE n == MadePoison(p, x)
  <1>2. CASE x \in p.undef
    <2>1. [a \in Arguments |-> {UB}] \in [Arguments -> SUBSET Endings]
      BY DEF Endings
    <2>2. n \in Shapes /\ n.after = p.after
      BY <1>1, <1>2, <2>1 DEF MadePoison, Shapes
    <2> QED BY <1>1, <2>2, MonotoneAfter DEF GoodFns
  <1>3. CASE x \notin p.undef
    <2>1. \A a \in Arguments : Poisoned(a, x) \in Arguments
      BY PoisonedTyped
    <2>2. /\ p.passes \in [Arguments -> Arguments]
          /\ p.after \in [Arguments -> [Results -> SUBSET Endings]]
          /\ p.does \in [Arguments -> SUBSET Endings]
      BY <1>1 DEF Shapes
    <2>3. /\ [a \in Arguments |-> p.passes[Poisoned(a, x)]] \in [Arguments -> Arguments]
          /\ [a \in Arguments |-> p.after[Poisoned(a, x)]]
               \in [Arguments -> [Results -> SUBSET Endings]]
          /\ [a \in Arguments |-> p.does[Poisoned(a, x)]] \in [Arguments -> SUBSET Endings]
      BY <2>1, <2>2
    <2>4. n \in Shapes /\ n.after = [a \in Arguments |-> p.after[Poisoned(a, x)]]
      BY <1>1, <1>3, <2>3 DEF MadePoison, Shapes
    <2>5. Monotone(n)
      <3>1. \A a \in Arguments : n.after[a] = p.after[Poisoned(a, x)]
        BY <2>4
      <3> HIDE DEF n
      <3> QED BY <1>1, <2>1, <3>1 DEF Monotone
    <2> QED BY <2>4, <2>5 DEF GoodFns
  <1> QED BY <1>2, <1>3

LEMMA GivenGood ==
  ASSUME NEW p \in GoodFns, NEW c
  PROVE  Given(p, c) \in GoodFns
  <1>1. p \in Shapes /\ Monotone(p)
    BY DEF GoodFns
  <1>2. [a \in Arguments |-> IF Satisfies(a, c) THEN p.does[a] ELSE {UB}]
          \in [Arguments -> SUBSET Endings]
    BY <1>1 DEF Shapes, Endings
  <1>3. Given(p, c) \in Shapes /\ Given(p, c).after = p.after
    BY <1>1, <1>2 DEF Given, Shapes
  <1> QED BY <1>1, <1>3, MonotoneAfter DEF GoodFns

LEMMA NamedGood ==
  ASSUME NEW p \in GoodFns, NEW n \in Nat
  PROVE  /\ Named(p, n) \in GoodFns /\ Named(p, n).calls = n
         /\ \A f, a : Acts(Named(p, n), f, a) = Acts(p, f, a)
  <1>1. p \in Shapes /\ Monotone(p)
    BY DEF GoodFns
  <1> DEFINE o == Named(p, n)
  <1>2. /\ o \in Shapes /\ o.calls = n
        /\ o.undef = p.undef /\ o.reaches = p.reaches
        /\ o.passes = p.passes /\ o.after = p.after /\ o.does = p.does
    BY <1>1 DEF Named, Shapes
  <1>3. o \in GoodFns
    BY <1>1, <1>2, MonotoneAfter DEF GoodFns
  <1>4. \A a : Undefined(o, a) <=> Undefined(p, a)
    BY <1>2 DEF Undefined
  <1>5. \A a, W : Through(o, a, W) = Through(p, a, W)
    BY <1>2 DEF Through, Then
  <1> QED BY <1>2, <1>3, <1>4, <1>5 DEF Acts

-----------------------------------------------------------------------------
(* Each split shows its goal, and one by cases loses nothing. *)

PoisonParts(q, x) ==
  {[src |-> Noundef(q.src, x), tgt |-> Noundef(q.tgt, x)],
   [src |-> MadePoison(q.src, x), tgt |-> MadePoison(q.tgt, x)]}

LEMMA PoisonShows ==
  ASSUME NEW q \in GoodPairs, NEW x \in Params, \A r \in PoisonParts(q, x) : Stands(r)
  PROVE  Stands(q)
  <1>0. q.src \in Shapes /\ q.tgt \in Shapes
    BY DEF GoodPairs, GoodFns
  <1> SUFFICES ASSUME NEW a \in Arguments, NEW f \in Callees, NEW g \in Callees,
                      q.src.calls = q.tgt.calls => f = g
               PROVE  Covers(Acts(q.src, f, a), Acts(q.tgt, g, a))
    BY DEF Stands, RefinesAt
  <1>1. CASE a[x] = Poison
    <2>1. RefinesAt(MadePoison(q.src, x), MadePoison(q.tgt, x), a)
      BY DEF PoisonParts, Stands
    <2>2. Covers(Acts(MadePoison(q.src, x), f, a), Acts(MadePoison(q.tgt, x), g, a))
      BY <1>0, <2>1, MadePoisonActs DEF RefinesAt
    <2> QED BY <1>0, <1>1, <2>2, MadePoisonActs, PoisonedTyped
  <1>2. CASE a[x] # Poison
    <2>1. RefinesAt(Noundef(q.src, x), Noundef(q.tgt, x), a)
      BY DEF PoisonParts, Stands
    <2>2. Covers(Acts(Noundef(q.src, x), f, a), Acts(Noundef(q.tgt, x), g, a))
      BY <1>0, <2>1, NoundefActs DEF RefinesAt
    <2> QED BY <1>0, <1>2, <2>2, NoundefActs
  <1> QED BY <1>1, <1>2

LEMMA PoisonKeeps ==
  ASSUME NEW q \in GoodPairs, NEW x \in Params, Stands(q), NEW r \in PoisonParts(q, x)
  PROVE  Stands(r)
  <1>0. q.src \in Shapes /\ q.tgt \in Shapes
    BY DEF GoodPairs, GoodFns
  <1> SUFFICES ASSUME NEW a \in Arguments, NEW f \in Callees, NEW g \in Callees,
                      r.src.calls = r.tgt.calls => f = g
               PROVE  Covers(Acts(r.src, f, a), Acts(r.tgt, g, a))
    BY DEF Stands, RefinesAt
  <1>1. CASE r = [src |-> Noundef(q.src, x), tgt |-> Noundef(q.tgt, x)]
    <2>1. r.src = Noundef(q.src, x) /\ r.tgt = Noundef(q.tgt, x)
      BY <1>1
    <2>2. q.src.calls = q.tgt.calls => f = g
      BY <1>0, <2>1, NoundefActs
    <2>3. Covers(Acts(q.src, f, a), Acts(q.tgt, g, a))
      BY <2>2 DEF Stands, RefinesAt
    <2>4. CASE a[x] = Poison
      <3>1. Acts(r.src, f, a) = {UB} /\ Acts(r.tgt, g, a) = {UB}
        BY <1>0, <2>1, <2>4, NoundefActs
      <3> QED BY <3>1, CoveringItself
    <2>5. CASE a[x] # Poison
      <3>1. Acts(r.src, f, a) = Acts(q.src, f, a) /\ Acts(r.tgt, g, a) = Acts(q.tgt, g, a)
        BY <1>0, <2>1, <2>5, NoundefActs
      <3> QED BY <2>3, <3>1
    <2> QED BY <2>4, <2>5
  <1>2. CASE r = [src |-> MadePoison(q.src, x), tgt |-> MadePoison(q.tgt, x)]
    <2>1. r.src = MadePoison(q.src, x) /\ r.tgt = MadePoison(q.tgt, x)
      BY <1>2
    <2>2. q.src.calls = q.tgt.calls => f = g
      BY <1>0, <2>1, MadePoisonActs
    <2>3. Covers(Acts(q.src, f, Poisoned(a, x)), Acts(q.tgt, g, Poisoned(a, x)))
      BY <2>2, PoisonedTyped DEF Stands, RefinesAt
    <2> QED BY <1>0, <2>1, <2>3, MadePoisonActs
  <1> QED BY <1>1, <1>2 DEF PoisonParts

ComparisonParts(q, c) ==
  {[src |-> Given(q.src, c), tgt |-> Given(q.tgt, c)],
   [src |-> Given(q.src, Inverted(c)), tgt |-> Given(q.tgt, Inverted(c))]}

LEMMA ComparisonShows ==
  ASSUME NEW q \in GoodPairs, NEW c \in Comparisons, Fit(q.src, c),
         \A r \in ComparisonParts(q, c) : Stands(r)
  PROVE  Stands(q)
  <1>0. q.src \in Shapes /\ q.tgt \in Shapes
    BY DEF GoodPairs, GoodFns
  <1> SUFFICES ASSUME NEW a \in Arguments, NEW f \in Callees, NEW g \in Callees,
                      q.src.calls = q.tgt.calls => f = g
               PROVE  Covers(Acts(q.src, f, a), Acts(q.tgt, g, a))
    BY DEF Stands, RefinesAt
  <1>1. CASE Undefined(q.src, a)
    <2>1. UB \in Acts(q.src, f, a)
      BY <1>1 DEF Acts
    <2> QED BY <2>1, UndefinedCovers
  <1>2. CASE ~Undefined(q.src, a)
    <2>1. PICK d \in {c, Inverted(c)} : Satisfies(a, d)
      BY <1>0, <1>2, OneCase
    <2>2. RefinesAt(Given(q.src, d), Given(q.tgt, d), a)
      BY DEF ComparisonParts, Stands
    <2>3. Covers(Acts(Given(q.src, d), f, a), Acts(Given(q.tgt, d), g, a))
      BY <1>0, <2>2, GivenActs DEF RefinesAt
    <2> QED BY <1>0, <2>1, <2>3, GivenActs
  <1> QED BY <1>1, <1>2

LEMMA ComparisonKeeps ==
  ASSUME NEW q \in GoodPairs, NEW c, Stands(q), NEW r \in ComparisonParts(q, c)
  PROVE  Stands(r)
  <1>0. q.src \in Shapes /\ q.tgt \in Shapes
    BY DEF GoodPairs, GoodFns
  <1>1. PICK d : r = [src |-> Given(q.src, d), tgt |-> Given(q.tgt, d)]
    BY DEF ComparisonParts
  <1>2. r.src = Given(q.src, d) /\ r.tgt = Given(q.tgt, d)
    BY <1>1
  <1> SUFFICES ASSUME NEW a \in Arguments, NEW f \in Callees, NEW g \in Callees,
                      r.src.calls = r.tgt.calls => f = g
               PROVE  Covers(Acts(r.src, f, a), Acts(r.tgt, g, a))
    BY DEF Stands, RefinesAt
  <1>3. r.src.calls = q.src.calls /\ r.tgt.calls = q.tgt.calls
    BY <1>0, <1>2 DEF Given, Shapes
  <1>4. Covers(Acts(q.src, f, a), Acts(q.tgt, g, a))
    BY <1>3 DEF Stands, RefinesAt
  <1>5. CASE Satisfies(a, d)
    <2>1. Acts(r.src, f, a) = Acts(q.src, f, a) /\ Acts(r.tgt, g, a) = Acts(q.tgt, g, a)
      BY <1>0, <1>2, <1>5, GivenActs
    <2> QED BY <1>4, <2>1
  <1>6. CASE ~Satisfies(a, d)
    <2>1. Acts(r.src, f, a) = {UB} /\ Acts(r.tgt, g, a) = {UB}
      BY <1>0, <1>2, <1>6, GivenActs
    <2> QED BY <2>1, CoveringItself
  <1> QED BY <1>5, <1>6

\* The function in the middle calls whatever the one it agrees with in name does.
LEMMA BetweenShows ==
  ASSUME NEW s, NEW p, NEW t, Stands([src |-> s, tgt |-> p]), Stands([src |-> p, tgt |-> t])
  PROVE  Stands([src |-> s, tgt |-> t])
  <1> SUFFICES ASSUME NEW a \in Arguments, NEW f \in Callees, NEW g \in Callees,
                      s.calls = t.calls => f = g
               PROVE  Covers(Acts(s, f, a), Acts(t, g, a))
    BY DEF Stands, RefinesAt
  <1>1. RefinesAt(s, p, a) /\ RefinesAt(p, t, a)
    BY DEF Stands
  <1>2. PICK h \in Callees : (s.calls = p.calls => f = h) /\ (p.calls = t.calls => h = g)
    <2>1. CASE s.calls = p.calls
      BY <2>1
    <2>2. CASE s.calls # p.calls
      BY <2>2
    <2> QED BY <2>1, <2>2
  <1>3. Covers(Acts(s, f, a), Acts(p, h, a)) /\ Covers(Acts(p, h, a), Acts(t, g, a))
    BY <1>1, <1>2 DEF RefinesAt
  <1> QED BY <1>3, CoveringComposes

\* A half put back is the program it was cut from, whatever that calls.
LEMMA HalfBack ==
  ASSUME NEW p, NEW o, NEW c, Outlined(p, o, c), NEW a \in Arguments, NEW f
  PROVE  Acts(p, f, a) = Acts(o, c, a)
  BY StraightActs DEF Outlined, GoBack

LEMMA CutBothShows ==
  ASSUME NEW q, NEW os \in Fns, NEW ot \in Fns, NEW cs \in Callees, NEW ct \in Callees,
         Outlined(q.src, os, cs), Outlined(q.tgt, ot, ct), NEW n \in Nat,
         Stands([src |-> Named(os, n), tgt |-> Named(ot, n)]),
         Stands([src |-> cs, tgt |-> ct])
  PROVE  Stands(q)
  <1> SUFFICES ASSUME NEW a \in Arguments, NEW f \in Callees, NEW g \in Callees
               PROVE  Covers(Acts(q.src, f, a), Acts(q.tgt, g, a))
    BY DEF Stands, RefinesAt
  <1>1. /\ os \in GoodFns /\ ot \in GoodFns /\ cs \in Shapes /\ ct \in Shapes
        /\ Straight(cs) /\ Straight(ct)
    BY FnsGood, FnsAssumption DEF GoodFns
  <1>2. Covers(Acts(os, ct, a), Acts(ot, ct, a))
    <2>1. RefinesAt(Named(os, n), Named(ot, n), a)
      BY DEF Stands
    <2>2. Covers(Acts(Named(os, n), ct, a), Acts(Named(ot, n), ct, a))
      BY <2>1 DEF RefinesAt
    <2> QED BY <1>1, <2>2, NamedGood
  <1>3. \A b \in Arguments : Covers(Ends(cs, b), Ends(ct, b))
    <2> SUFFICES ASSUME NEW b \in Arguments PROVE Covers(Ends(cs, b), Ends(ct, b))
      OBVIOUS
    <2>1. RefinesAt(cs, ct, b)
      BY DEF Stands
    <2>2. Covers(Acts(cs, f, b), Acts(ct, f, b))
      BY <2>1 DEF RefinesAt
    <2> QED BY <1>1, <2>2, StraightActs
  <1>4. Covers(Acts(os, cs, a), Acts(os, ct, a))
    BY <1>1, <1>3, ActsCovers
  <1>5. Covers(Acts(os, cs, a), Acts(ot, ct, a))
    BY <1>2, <1>4, CoveringComposes
  <1> QED BY <1>5, HalfBack

\* The callee of the src is one of those the tgt's own call may meet.
LEMMA CutSrcShows ==
  ASSUME NEW q, NEW os \in Fns, NEW cs \in Callees, Outlined(q.src, os, cs),
         NEW n \in Nat, q.tgt.calls # n, Stands([src |-> Named(os, n), tgt |-> q.tgt])
  PROVE  Stands(q)
  <1> SUFFICES ASSUME NEW a \in Arguments, NEW f \in Callees, NEW g \in Callees
               PROVE  Covers(Acts(q.src, f, a), Acts(q.tgt, g, a))
    BY DEF Stands, RefinesAt
  <1>1. os \in GoodFns
    BY FnsGood
  <1>2. RefinesAt(Named(os, n), q.tgt, a)
    BY DEF Stands
  <1>3. Covers(Acts(Named(os, n), cs, a), Acts(q.tgt, g, a))
    BY <1>1, <1>2, NamedGood DEF RefinesAt
  <1>4. Covers(Acts(os, cs, a), Acts(q.tgt, g, a))
    BY <1>1, <1>3, NamedGood
  <1> QED BY <1>4, HalfBack

\* A claim is one about every function called: it holds of a program and
\* itself, and composes (interpose.ts:1).
THEOREM ClaimsAreAPreorder ==
  /\ \A p \in GoodFns : Stands([src |-> p, tgt |-> p])
  /\ \A s, p, t \in GoodFns :
       Stands([src |-> s, tgt |-> p]) /\ Stands([src |-> p, tgt |-> t])
       => Stands([src |-> s, tgt |-> t])
  <1>1. \A p \in GoodFns : Stands([src |-> p, tgt |-> p])
    <2> SUFFICES ASSUME NEW p \in GoodFns, NEW a \in Arguments, NEW f \in Callees
                 PROVE  Covers(Acts(p, f, a), Acts(p, f, a))
      BY DEF Stands, RefinesAt
    <2> QED BY CoveringItself
  <1> QED BY <1>1, BetweenShows

-----------------------------------------------------------------------------
(* The invariant: what is left shows what was posed. *)

SplitInv ==
  /\ posed \in Posed
  /\ parts \subseteq GoodPairs
  /\ made \in Nat
  /\ PartsShow
  /\ RuledRight

LEMMA BecomesKeeps ==
  ASSUME SplitInv, NEW q, NEW two \in SUBSET GoodPairs, Becomes(q, two),
         (\A r \in two : Stands(r)) => Stands(q)
  PROVE  SplitInv'
  <1>1. /\ parts' = (parts \ {q}) \cup two /\ made' = made + 2
        /\ posed' = posed /\ ruled' = ruled
    BY DEF Becomes
  <1>2. PartsShow'
    BY <1>1 DEF SplitInv, PartsShow
  <1> QED BY <1>1, <1>2 DEF SplitInv, RuledRight

LEMMA ByPoisonKeeps ==
  ASSUME SplitInv, NEW q \in parts, NEW x \in Params, ByPoison(q, x)
  PROVE  SplitInv'
  <1>1. q \in GoodPairs /\ q.src \in GoodFns /\ q.tgt \in GoodFns
    BY DEF SplitInv, GoodPairs
  <1>2. PoisonParts(q, x) \subseteq GoodPairs
    BY <1>1, NoundefGood, MadePoisonGood DEF PoisonParts, GoodPairs
  <1>3. Becomes(q, PoisonParts(q, x))
    BY DEF ByPoison, PoisonParts
  <1> QED BY <1>1, <1>2, <1>3, PoisonShows, BecomesKeeps

LEMMA ByComparisonKeeps ==
  ASSUME SplitInv, NEW q \in parts, NEW c \in Compared, ByComparison(q, c)
  PROVE  SplitInv'
  <1>1. /\ q \in GoodPairs /\ q.src \in GoodFns /\ q.tgt \in GoodFns
        /\ c \in Comparisons /\ Fit(q.src, c)
    BY ComparedAssumption DEF SplitInv, GoodPairs, ByComparison
  <1>2. ComparisonParts(q, c) \subseteq GoodPairs
    BY <1>1, GivenGood DEF ComparisonParts, GoodPairs
  <1>3. Becomes(q, ComparisonParts(q, c))
    BY DEF ByComparison, ComparisonParts
  <1> QED BY <1>1, <1>2, <1>3, ComparisonShows, BecomesKeeps

LEMMA PutBetweenKeeps ==
  ASSUME SplitInv, NEW q \in parts, NEW p \in Fns, PutBetween(q, p)
  PROVE  SplitInv'
  <1> DEFINE two == {[src |-> q.src, tgt |-> p], [src |-> p, tgt |-> q.tgt]}
  <1>1. q \in GoodPairs /\ q.src \in GoodFns /\ q.tgt \in GoodFns /\ p \in GoodFns
    BY FnsGood DEF SplitInv, GoodPairs
  <1>2. two \in SUBSET GoodPairs
    BY <1>1 DEF GoodPairs
  <1>3. Becomes(q, two)
    BY DEF PutBetween
  <1>4. q = [src |-> q.src, tgt |-> q.tgt]
    BY <1>1 DEF GoodPairs
  <1>5. (\A r \in two : Stands(r)) => Stands(q)
    BY <1>4, BetweenShows
  <1> QED BY <1>2, <1>3, <1>5, BecomesKeeps

LEMMA CutBothKeeps ==
  ASSUME SplitInv, NEW q \in parts, CutBoth(q)
  PROVE  SplitInv'
  <1>1. PICK os \in Fns, ot \in Fns, cs \in Callees, ct \in Callees :
          /\ Outlined(q.src, os, cs) /\ Outlined(q.tgt, ot, ct)
          /\ Becomes(q, {[src |-> Named(os, CalleeName), tgt |-> Named(ot, CalleeName)],
                         [src |-> cs, tgt |-> ct]})
    BY DEF CutBoth
  <1> DEFINE two == {[src |-> Named(os, CalleeName), tgt |-> Named(ot, CalleeName)],
                     [src |-> cs, tgt |-> ct]}
  <1>2. CalleeName \in Nat
    BY DEF SplitInv, CalleeName
  <1> HIDE DEF CalleeName
  <1>3. two \in SUBSET GoodPairs
    BY <1>2, FnsGood, NamedGood DEF GoodPairs
  <1>4. (\A r \in two : Stands(r)) => Stands(q)
    BY <1>1, <1>2, CutBothShows
  <1> QED BY <1>1, <1>3, <1>4, BecomesKeeps

LEMMA CutSrcKeeps ==
  ASSUME SplitInv, NEW q \in parts, CutSrc(q)
  PROVE  SplitInv'
  <1>1. PICK os \in Fns, cs \in Callees :
          /\ Outlined(q.src, os, cs) /\ q.tgt.calls # CalleeName
          /\ Becomes(q, {[src |-> Named(os, CalleeName), tgt |-> q.tgt]})
    BY DEF CutSrc
  <1> DEFINE one == {[src |-> Named(os, CalleeName), tgt |-> q.tgt]}
  <1>2. CalleeName \in Nat /\ q.tgt \in GoodFns
    BY DEF SplitInv, CalleeName, GoodPairs
  <1> HIDE DEF CalleeName
  <1>3. one \in SUBSET GoodPairs
    BY <1>2, FnsGood, NamedGood DEF GoodPairs
  <1>4. (\A r \in one : Stands(r)) => Stands(q)
    BY <1>1, <1>2, CutSrcShows
  <1> QED BY <1>1, <1>3, <1>4, BecomesKeeps

LEMMA ShowKeeps ==
  ASSUME SplitInv, NEW q \in parts, Show(q)
  PROVE  SplitInv'
  <1>1. /\ Stands(q) /\ parts' = parts \ {q} /\ posed' = posed /\ made' = made
        /\ ruled' = IF parts' = {} /\ ruled = "open" THEN "proved" ELSE ruled
    BY DEF Show
  <1>2. PartsShow'
    BY <1>1 DEF SplitInv, PartsShow
  <1>3. RuledRight'
    <2>1. CASE parts' = {} /\ ruled = "open"
      BY <1>1, <1>2, <2>1 DEF PartsShow, RuledRight
    <2>2. CASE ~(parts' = {} /\ ruled = "open")
      BY <1>1, <2>2 DEF SplitInv, RuledRight
    <2> QED BY <2>1, <2>2
  <1> QED BY <1>1, <1>2, <1>3 DEF SplitInv

\* What the two runs of llubi show, the claim does not allow: the src's is the
\* only way it may end.
LEMMA ReplayRefutes ==
  ASSUME NEW q \in [src : Fns, tgt : Fns], NEW a \in Arguments, Replayed(q, a)
  PROVE  ~RefinesAt(q.src, q.tgt, a)
  <1>1. /\ Straight(q.src) /\ Straight(q.tgt) /\ ~q.src.differs
        /\ q.src \in Fns
    BY DEF Replayed
  <1>2. PICK o \in Ends(q.src, a), r \in Ends(q.tgt, a) : Diverged(o, r)
    BY DEF Replayed
  <1>3. PICK f \in Callees : TRUE
    BY FnsAssumption
  <1>4. ASSUME RefinesAt(q.src, q.tgt, a) PROVE FALSE
    <2>1. Covers(Acts(q.src, f, a), Acts(q.tgt, f, a))
      BY <1>4 DEF RefinesAt
    <2>2. Covers(Ends(q.src, a), Ends(q.tgt, a))
      BY <1>1, <2>1, StraightActs
    <2>3. PICK w \in Ends(q.src, a) : Allows(w, r)
      BY <2>2 DEF Covers
    <2>4. w = o
      <3>1. \A b, d \in q.src.does[a] : b = d
        BY <1>1, FnsAssumption
      <3> QED BY <1>2, <2>3, <3>1 DEF Ends
    <2> QED BY <1>2, <2>3, <2>4 DEF Diverged, Allows
  <1> QED BY <1>4

LEMMA ReportKeeps ==
  ASSUME SplitInv, NEW a \in Arguments, Report(a)
  PROVE  SplitInv'
  <1>1. posed \in [src : Fns, tgt : Fns]
    BY FnsAssumption DEF SplitInv
  <1>2. ~RefinesAt(posed.src, posed.tgt, a)
    <2>1. \/ "incorrect" \in Decides(posed, a) \/ Replayed(posed, a)
      BY DEF Report
    <2>2. "incorrect" \in Decides(posed, a) => ~RefinesAt(posed.src, posed.tgt, a)
      BY DEF Decides
    <2> QED BY <1>1, <2>1, <2>2, ReplayRefutes
  <1>3. ~Stands(posed)
    BY <1>2 DEF Stands
  <1>4. ruled' = "refuted" /\ posed' = posed /\ parts' = parts /\ made' = made
    BY DEF Report
  <1> QED BY <1>3, <1>4 DEF SplitInv, PartsShow, RuledRight

LEMMA SplitStarts == SplitInit => SplitInv
  BY FnsGood DEF SplitInit, SplitInv, PartsShow, RuledRight

LEMMA SplitSteps == SplitInv /\ [SplitNext]_splitVars => SplitInv'
  <1> SUFFICES ASSUME SplitInv, [SplitNext]_splitVars PROVE SplitInv'
    OBVIOUS
  <1>1. ASSUME NEW q \in parts, NEW x \in Params, ByPoison(q, x) PROVE SplitInv'
    BY <1>1, ByPoisonKeeps
  <1>2. ASSUME NEW q \in parts, NEW c \in Compared, ByComparison(q, c) PROVE SplitInv'
    BY <1>2, ByComparisonKeeps
  <1>3. ASSUME NEW q \in parts, NEW p \in Fns, PutBetween(q, p) PROVE SplitInv'
    BY <1>3, PutBetweenKeeps
  <1>4. ASSUME NEW q \in parts, CutBoth(q) PROVE SplitInv'
    BY <1>4, CutBothKeeps
  <1>5. ASSUME NEW q \in parts, CutSrc(q) PROVE SplitInv'
    BY <1>5, CutSrcKeeps
  <1>6. ASSUME NEW q \in parts, Show(q) PROVE SplitInv'
    BY <1>6, ShowKeeps
  <1>7. ASSUME NEW a \in Arguments, Report(a) PROVE SplitInv'
    BY <1>7, ReportKeeps
  <1>8. CASE UNCHANGED splitVars
    BY <1>8 DEF splitVars, SplitInv, PartsShow, RuledRight
  <1> QED BY <1>1, <1>2, <1>3, <1>4, <1>5, <1>6, <1>7, <1>8 DEF SplitNext

THEOREM SplitInvHolds == SplitSpec => []SplitInv
  <1> QED BY SplitStarts, SplitSteps, PTL DEF SplitSpec

\* Goals shown one by one show the pair a run was asked about, in whatever
\* order and however deep they were split: what the kernel's law of splits
\* stands for (cases.ts:1, cuts.ts:9, interpose.ts:1).
THEOREM PartsShowAlways == SplitSpec => []PartsShow
  <1>1. SplitInv => PartsShow
    BY DEF SplitInv
  <1> QED BY <1>1, SplitInvHolds, PTL

\* A run's verdict is right, by its goals or by an input (counterexamples.ts:60).
THEOREM VerdictsAreRight == SplitSpec => []RuledRight
  <1>1. SplitInv => RuledRight
    BY DEF SplitInv
  <1> QED BY <1>1, SplitInvHolds, PTL

\* A case of a goal that holds holds: none is given up by splitting (cases.ts:3).
THEOREM CasesLoseNothing == SplitSpec => CasesKeep
  <1>1. SplitInv =>
          \A q \in parts :
            (\E x \in Params : ByPoison(q, x)) \/ (\E c \in Compared : ByComparison(q, c))
            => (Stands(q) => \A r \in parts' \ parts : Stands(r))
    <2> SUFFICES ASSUME SplitInv, NEW q \in parts, Stands(q), NEW r \in parts' \ parts,
                        \/ \E x \in Params : ByPoison(q, x)
                        \/ \E c \in Compared : ByComparison(q, c)
                 PROVE  Stands(r)
      OBVIOUS
    <2>1. q \in GoodPairs
      BY DEF SplitInv
    <2>2. ASSUME NEW x \in Params, ByPoison(q, x) PROVE Stands(r)
      <3>1. r \in PoisonParts(q, x)
        BY <2>2 DEF ByPoison, Becomes, PoisonParts
      <3> QED BY <2>1, <3>1, PoisonKeeps
    <2>3. ASSUME NEW c \in Compared, ByComparison(q, c) PROVE Stands(r)
      <3>1. r \in ComparisonParts(q, c)
        BY <2>3 DEF ByComparison, Becomes, ComparisonParts
      <3> QED BY <2>1, <3>1, ComparisonKeeps
    <2> QED BY <2>2, <2>3
  <1> QED BY <1>1, SplitInvHolds, PTL DEF CasesKeep
=============================================================================
