# A verification project for alive-next

alive-next proves that one LLVM function refines another, or finds an input on which it
does not. It keeps a tree of *goals*. Each goal is a pair of programs, src and tgt, and
claims that tgt refines src. A *session* plays moves on the tree: it steps one side to
another program, cuts a pair in two, strengthens what the halves assume of each other, takes
any of it back, and asks alive2 about a pair. A finished session is exported as a
certificate that a small kernel replays.

This directory models that program in TLA+, checks small instances with TLC and proves
theorems about every instance with TLAPS. Every definition is translated from the code
named for it in `PROJECT.json` (`map`: definition, file, lines).

1. Inventory. 2. The modules. 3. The runs. 4. What the runs found. 5. The proofs.
6. What is only model-checked. 7. What is not modelled. 8. What is left to do.

## 1. Inventory

Paths are below `src/`.

| component | code | state | operations | modules |
|---|---|---|---|---|
| goal tree | `engine/core/state/goals.ts` | goals by id: parent, children, a history per side, status | the fold (`apply`) of 16 effects; `settle`, `unsettle`, `discard`, `verdict` | `GoalTree` |
| session | `engine/core/session.ts` | the log's entries, the tree they fold to, a count of calls | `start`, `resume`, one method per move, `act`, `finish` | `Session`, `Verdict` |
| transactions | `engine/core/state/transactions.ts` | at most one scratch: goal, side, base, text | `begin`, `edit`, `commit`, `abort` | `Session` |
| splits | `state/cuts.ts`, `interpose.ts`, `cases.ts` | none | `cut`, `interpose`, `case`, and the undo of each | `Session`; why they are right in `Splits` |
| strengthen | `state/strengthen.ts` | none | facts on parameters, on the function, on its return, as an invariant of a loop | `Session` |
| checks and narrowing | `state/steps.ts`, `narrow.ts` | answers by question | `checkStep`, `checkGoal`, `rewrite`; the ladder of windows | `Checks` |
| counterexamples | `state/counterexamples.ts` | none | replay an input on the pair the run was asked about | `Session`, `Splits`, `Kernel` |
| trajectory and store | `state/trajectory.ts`, `store.ts` | a file of lines chained by hash; a file per program | `append`, `parse`; `put`, `get` | `Run`, `RunPromise` |
| run | `core/run.ts` | a deadline | `startRun`, `closeRun`, `boundRun` | `Run` |
| agent | `engine/agent/` | a budget; the assistant's own state | the turns, the give-up, the close of a run | `Run` |
| certificate | `engine/cert/` | none | `include` the proved tree, and the chain of each goal | `Certificate` |
| kernel | `kernel/check.py` | the manifest, a stack of goals | replay every step and every discharge | `Kernel` |
| simple search | `engine/simple/search.ts`, `limits.ts` | an agenda of goals, each with the undo of its split | try each move, split, settle, repair, undo | `Search` |
| simple strategies | the rest of `engine/simple/` | none | which windows, copies and cuts to ask for, which facts to state, how often to unfold | `Regions`, `Windows`, `Strategies`, `Facts` |
| llops | `llops/` | none (C++ over LLVM) | number, canonicalise, edit, outline, `reshaped` | `Bodies`, `Edits`, `Reshaped` |
| drivers | `core/drivers/`, `core/toolchain.ts` | a subprocess, a clock and maybe a directory for each call | spawn alive-tv, llops, llrwt or llubi, and read what it said | `Tools`, `Oracle` |
| agent tools | `engine/agent/tools/` | a sandbox; a group of processes for each command | run a command until it ends, its clock runs out or it is aborted | `Tools` |
| browser session | `web/src/controllers/session.ts`, `services/runtime.ts`, `alive-simple.worker.ts` | one worker, its checkers, the log so far | start, stop, reset; messages between page, search and checkers | `Browser` |
| browser reports and editor | `web/src/controllers/reports.ts`, `editor.ts` | one report per kind in flight, the text | view, save, load a file | `Browser` |
| views, visualizer, scripts, examples | `web/src/views/`, `scripts/`, `engine/examples/` | none | draw, build, replay scripted runs | not modelled |

**How they interact.** The search and the agent call the session's methods one at a time.
A method hands the tree to a mover (steps, cuts, strengthen, ...), which asks the drivers,
changes the tree through `apply`, and returns the effects it applied. `act` appends the
call and the result to the trajectory and folds the whole log again. The certificate is made
from the log alone, and the kernel trusts only the programs and its own checkers. In the
browser the search runs in a worker that asks the page to run the checkers, and both sides
can be stopped at any time.

**What is hard.** There is little parallelism in the core and much history: a proof settles
goals above it, any later move below has to take exactly that back, a contract is spread
over two goals that can afterwards each be stepped, reverted, cut again or discarded, and a
transaction stays open across all of it. Around the core are the crash and resume of the
log, a deadline that fires in the middle of a move, answers that are kept and given again,
the agenda of a search that undoes splits, and the late messages of workers in the browser.
`PROJECT.json` lists each of these (`hazards`) at the line where it bites, with the properties
about it.

**What makes each part correct.**

- Goal tree: one tree, ids never given twice, a proof stands on something that still
  stands, and is carried up as far as it reaches.
- Session with its movers: the verdict is right about the pair the run was asked about,
  a counterexample is final, a contract a strengthen made is never taken back in part.
- Transactions: a commit is about the program the scratch began from.
- Checks: only definite answers are reused, only for the question they answer, and what is
  certified about a window is true of the whole function.
- Log, store and run: what was logged can be read again, names programs that are stored, and
  each verdict line is the verdict of the log before it.
- Certificate and kernel: a verified run exports, and what the kernel accepts is true.
- Search: it ends, forgets no goal, and gives up with its splits undone.
- Strategies: a copy changes no run, a cut or a window is where the diff says it is, and a
  fact stated of an input is true of it.
- Drivers and tools: an answer is true of its question or says nothing, and a call that is
  over, however it ended, leaves no process and no file behind.
- Browser: nothing of a stopped or replaced session reaches the one that follows.

## 2. The modules

### The session: GoalTree, Session, Verdict

**GoalTree** holds the operators of `goals.ts` on a tree `G`, a function from ids to goals.
A program is an opaque value, because the code compares hashes only. The constant `Refines`
says which program refines which, so that a proof can be right or wrong. Each effect is one
operator (`Stepped`, `Reverted`, `Strengthened`, `CutIn`, `InterposedAt`, `CasedIn`,
`Unsplit`, `Proved`, `Refuted`); the three recursive walks are least closed sets
(`Settled`, `Unsettled`, `Below`), which is what the recursion computes and what a proof can
use. What `apply` refuses of an undo is `CanUncut`, `CanUninterpose`, `CanUncase`.

**Session** has the state `tree`, `nextGoal`, `txn` (the one transaction), `log` and
`broken`. There is an action for each move of a caller, which covers everything from the
session's own refusals to the last effect, the eager check included:

| actions | code |
|---|---|
| `Revert`, `Rewrite`, `Unfold` | `session.ts` `revert`, `rewrite`, `unfold`; `steps.ts` |
| `Begin`, `Edit`, `CommitCertified`, `CommitRefused`, `Abort` | `transactions.ts` |
| `Cut`, `CutAlone`, `Uncut` | `cuts.ts` |
| `InterposeProgram`, `InterposeScratch`, `Uninterpose`, `Case`, `Uncase` | `interpose.ts`, `cases.ts`, `session.ts` |
| `Strengthen`, `StrengthenLoop`, `StrengthenNested`, `StrengthenReturn` | `strengthen.ts`, one for each way a contract lands |
| `CheckProves`, `CheckRefutes`, `ReportCex` | `steps.ts` `checkGoal`, `counterexamples.ts` |
| `Resume` | `session.ts` `resume` |

`log` keeps the entries as what later guards read off them: the programs strengthens
landed and the proofs contracts rest on (`landed`, `by`, `keeps`, read by `revert`, `unfold` and
`uninterpose`), and the pair of each goal's latest proof (`shown`). `broken` is set when
an undo appends an effect the fold refuses.

The checkers and llops are outside. A checker answers right or not at all, so a check that
could prove may always find nothing. A cut, a case and a contract are *any* programs whose
children together show the claim of the parent (`Discharges`): what llops and the direct
conditions of `strengthen.ts` are trusted for, and no more. Where the model lets a program
be chosen that llops would never make, it has more behaviours than the code.

**Verdict** is what a caller sees: a question that is true or false, and a verdict that is
found, may be retracted when it is a proof, and is final when it is a counterexample.
`PromiseKept` says `Session` implements it, with `VerdictOf(tree)` for the verdict and the
claim of the root's first pair for the question. `KeptSpec` is `Spec` without the steps that
take the proof of a contract back (`TakesBackProof`), which section 4 is about.

### Certificate and Kernel

**Certificate** extends `Session` with `effects`, what each move appends to the log, goal by
goal, and defines on it what `manifest.ts` writes: who made each program a side still holds
(`MadeBy`: `Played` along the effects), the chain of steps that survived (`ChainOf`: `Chained`
along them) and the goals that are included (`Parts`, `Included`). `CKeptSpec` is
`CSpec` without `TakesBackProof`, as `KeptSpec` is of `Session`.

**Kernel** is `check.py`: a manifest is any value of its shape (`Shaped`), since the kernel
believes nothing of it, and the replay walks a `stack` of goals from the root, each along its
chain (`CheckStep`, `WindowStep`, `RewriteStep`, `UnfoldStep`, the three `Strengthen...`) and
then into what discharged it (`DischargeCheck`, `...Interpose`, `...Case`, `...Cut`).
`Conclude` says the word on a proof, `Confirm` on a counterexample, and `Refuse` may end any
replay, as a missing program or a tool that does not answer does. A frame of the stack says what
its goal is to a cut: the role, the function that was outlined, and the hypothesis of a loop. A
contract (`strengthen`) is any set of parameter attributes, function attributes, predicates and
return facts together, and what the kernel asks depends on which of them it has: a proof at the
calls (`PredicatesHold`) only for predicates, what the src keeps (`Keeps`) only for attributes of
the function and facts of its return, and the signatures (`SaysTheSame`, `SaysOfItself`) for all.
A window has its outer, its halves and its facts (`WindowShown`). What llops and llrwt make of a
program are constant functions, and what alive-tv says is `Refines`.

What the kernel does not ask is assumed, each time of everything it does ask and no less:

| assumption | what is assumed | given what the kernel checked |
|---|---|---|
| `RewriterRight`, `UnfoldingSame` | the rewriter's output refines its input; an unfold changes nothing | that the tool, run again, gives the program recorded |
| `WindowRule` | the wholes refine as the halves do | `WindowShown`: no `body_attrs`, the facts shown of the whole, the halves shown under them |
| `CasesCover` | a pair holds when both its cases do | that llops splits both programs, and each parameter compared is noundef in the src |
| `CutRule` | the pair at the end of a goal holds | `NamesFunctions` and `CutHolds` (rebuilt on each side, `body_attrs`, a tgt left as it is and not naming the callee, the signatures of callee and hypothesis, bare starts, the contract's proofs) and what both halves owe (`Owes`: every step of their chains, their claims from where the contract was assumed and at their ends, and that of the program a callee is interposed at) |
| `DivergenceRefutes` | a pair that diverges at an input does not refine | what alive-tv or llubi said there |

### Splits

Why a split shows its goal and a report refutes it, which the session and the kernel assume.
A function here is data: what it may do at each input, whether it calls another there, with
what, and how it goes on (`Shapes`); refinement is defined from that (`Covers`, `Stands`), with
poison and undefined behaviour. `ByPoison` and `ByComparison` are `cases.ts`: what becomes
of each half's programs, the refusals of `unfit`, the comparison turned round by `INVERSE`.
`CutBoth` and `CutSrc` are `cuts.ts`: halves that go back together to the program (`GoBack`,
`unbuilt`), and the name of a callee no other goal has. `PutBetween` is `interpose.ts`, and
`Report` is `counterexamples.ts`, with what alive2 and llubi may say at an input. The state is
the question `posed`, the `parts` still to show, and what was `ruled`.

### Tools and Oracle

**Tools** is one call after another of a process outside: alive-tv, llubi, llops, llrwt, and the
agent's shell. A call is a script, the lines its process says left alone and its exit code. The
process writes them one at a time and ends, may crash or be killed between any two, and races
its clock (`Fires`), an abort (`Abort`), jobs it left in the background (`Forks`) and the end of
the run (`RunEnds`); `Replies` reads what was said by then as each driver does (`ReadAlive`,
`ReadLlubi`, `ReadLlops`, `ReadLlrwt`, `ReadShell`). Before them all `Insist` checks that the
tools installed belong together. **Oracle** is what every other module takes a tool for:
asked one question, it says the truth about it or nothing. `AnswersOrNone` maps a call to it.

### Checks

One goal, and how a step of it is certified (`steps.ts`, `narrow.ts`). A program here is a
sequence of blocks of lines, the first of which may loop, and what a line does to a value is a
constant; so windows, the outer functions they leave and facts assumed at their entry are
programs too, and refinement is what running them says (`RunOf`, `Refines`). `Commit` finds
the window (`Candidates`, `OutlineBoth`, `NarrowAt`), and then the call goes down the ladder:
`AskFactsHold`, `AskFacts`, `AskWindow`, `AskWhole`, until something certifies it or it
fails; `Land` lands it and checks the new pair, `CheckGoal` checks with or without unrolling,
`RefinementCheck` asks about any pair. `Answers` is the only way to alive2: same programs are
never asked about, a pair that loops only with an unroll factor, a definite answer is
remembered, a missing one is not.

### Run and RunPromise

**Run** is one run directory: the `file` of lines, each naming the place of the one before
it (its hash), the `store` of programs, and for each process its memory. A process starts or
resumes, moves (`BeginMove`, `StoreProgram`, `LandContract`, `LandCrossCheck`, `EndMove`,
`LogCall`, `LogResult`), has turns and a budget, and closes; it may be killed anywhere
(`Crash`, of a program `CrashInPut`, of a line `CrashInLine`), and another may work in the
directory at the same time. A line and its newline are one write: cut short in the line it leaves
what is no JSON (`Torn`), cut short before the newline a line that is read as any other, but that
takes what is appended next into itself (`Appended`), and then neither is read. **RunPromise** is
what a reader is promised: moves that land whole, verdicts that say what landed before them, and
nothing lost but what such a line said. `KeepsPromise` maps the readable prefix of the file to it.

### Search

The agenda of the simple searcher over the goals of `GoalTree`, last entry in hand. Each
entry has the moves it has not made and how to undo the split that left the goals above it.
There is an action for each move and each of its outcomes, for the stages the root is walked
through, for `Settle`, `Exhaust`, and for what follows a counterexample of a half (`RefuteRun`,
`StrengthenAgainst`, `StrengthenThrows`, `Undo`). The checker answers as it likes. A root
that loops is peeled at most once, and what is left is checked before it is searched
(`CheckPeeled`).

### Bodies, Edits, Reshaped, Regions, Windows, Strategies

**Bodies** is the body of a function as `llops number` lists it: instructions in blocks,
branches, phis, slots, one-bit integers; what `Canon` names, what `Verified` refuses (a block nothing
reaches, and two edges from one block to another, are no reason to), and what running it does
(`SameRuns`). **Edits** has copy_block, peel, hoist and splice; **Reshaped**
the walk of two bodies that certifies a step with no solver; **Regions** the diff of two
bodies (`regions.ts`); **Windows** what a region asks for, where a goal is cut and what is
copied first (`windows.ts`, `cuts.ts`, `loops.ts`). They are pure operators, some recursive.
**Strategies** plays them on one goal: the windows stepped one by one and grown, the copies
before a cut, the cut that is refused, and what it restores.

### Facts

The arithmetic of `facts.ts` and of the guesses of `loops.ts`, as operators on integers of any
width: the range an analysis allows a value, stated half-open and signed (`RangeOf`) or as
comparisons (`BoundsOf`); what is told of a window and of a cut (`FactsAt`, `CutAttrs`,
`CutPredicates`), whether it holds on a counterexample (`FactsHoldOn`, `Violated`), what a cut
passes on (`PassedOn`); what a loop is asked to keep next, from what a preview says (`KeepNext`);
and how often the loop of one side is unfolded to count like the other (`UnfoldToMatch`).

### Browser

The page, its search workers, its checkers and their downloads, the reports and the editor.
Each thread runs one task at a time, every message is queued (`toPage`, `toWorker`), a
promise the page awaits goes on in a microtask (`awaits`, `GoOn`), and a terminated worker
takes no step while what it posted stays queued. A worker may fail to load, or post what cannot
be read, at any time (`WorkerFails`). Ids of calls are given again by the next run,
as in the code.

The `MC...` modules name the programs, manifests or bodies of the instances.

## 3. The runs

| run | what it asks |
|---|---|
| `moves_of_a_session` | `TypeOK`, `Forest`, `SettledExactly`, `TxnCurrent`, `GoalNamesFresh`, `SoundInv`, `VerdictSound`, `ContractStands`, `PromiseKept`, of a true and of a false question: a transaction with every move between its edits, on one split at a time; and, with none open, splits below splits, every kind of contract on a plain cut and on a loop, unfolds before and after, reverts and undos |
| `certificate_of_a_session` | `ExportedWhole` (`Exported` and `ContractsProved`): the chain of each goal of a verified run accounts for every program it holds, can be walked by the kernel, and the proofs its contracts name are written with it, in the runs that take no such proof back (`CKeptSpec`), but for a goal interposed twice (section 4, 2) |
| `replay_of_a_certificate` | `AcceptedTrue`, `StackSound` over every certificate of one chain and of one split of each kind, right and wrong in every field; and `PartsShow`, `RuledRight` over nine pairs of functions, split up to twice in every order, with an input reported at any time. The two machines share no variable: `EitherSpec` moves one of them while the other rests |
| `certified_steps` | `ConclusionsTrue`, `Replayable`, `AnswersFit`, `WindowFound`: one step of either side with every option, between two checks, and every answer right or late |
| `a_run_and_its_tools` | `NamedIsStored`, `ResultsPaired`, the refinement `KeepsPromise` and the liveness `Ends` with two processes that start, resume, are cut short and are killed; and `HeardOut`, `NotBlamed`, `TidiesUp`, the refinement `AnswersOrNone` and the liveness `RidOfInTime`: every install, then calls of every tool, each cut off anywhere. The two share no variable here either: one of them moves |
| `agenda_of_a_search` | `AgendaStands`, `NoneForgotten`, `GivesUpWhole`, and that the search `Finishes`. Its module also has TLC evaluate the laws of `Facts` on every range, all bits and every value of integers of one bit and of two (`RangesAreTrueHere`, `BoundsAreTrueHere`, `SomethingIsBroken`, `LoopsMatchHere`) |
| `strategies_on_a_goal` | `WalkExact` (`ReshapedTrue` and `CopiesReshaped`), `RegionsHold` (`StillThere` and `PartnersAgree`), `SlotTrue`, `OneEntry` on small goals, some after edits of an agent |
| `pages_of_the_browser` | `WholeHistory`, `NothingRunsOn`, `ReportIsCurrent`, `LatestText`, `Answered` with two searches one after the other and every order of their messages |
| `undo_of_a_proved_interpose` | finds `LogFolds` violated |
| `proof_of_a_contract_taken_back` | finds `ProofsStand` violated |
| `proof_of_its_own` | finds `AsProved` violated |
| `line_without_its_end` | finds `ContinuesChain` violated |

Each property of a passing run has a mutant in `PROJECT.json`: a plausible bug in one mapped
definition with which the same run finds it violated.

**Bounds.** In the session: `MaxGoals` (ids ever given, so undone splits count),
`MaxHistory` (programs on a side), `Asked` (the questions), `Scratches` (what edits may
leave) and `Moves` (which moves are enabled). Two programs, one refining the other, are the
least that make claims both true and false. Three ids allow one split below the root, enough
to prove through children, step above them and undo under a transaction; five allow a split
of a half, a second split of a reopened goal, and a strengthen's own interpose inside a cut. A
history of three has the two steps a contract lands on one side, one program twice
with a strengthen between, and an unfold after a contract. `SmallSpec` takes the
steps that stay within one of two bounds: `OneSplit` (three ids, no plain cut and no case, one
side of one goal a step away from where it began, a transaction open or not) or `OneCut` (five
ids, no transaction, only the root is cut, and histories stay shorter where another split or no
contract is in play). They leave out runs and could hide a violation, so of the nine properties
of this run all are proved without them (section 5), of `Spec` or of `KeptSpec`. `OneCut` also
bounds `certificate_of_a_session`. `NestedSpec`, of `proof_of_a_contract_taken_back`, takes the
steps that stay where a contract's proof can be lost: three programs, seven ids, the root alone is
cut, and a callee alone is split by cases, into goals of its own two programs.

In the others: certificates of one step, or of one split with halves of up to three
(`MCKernel`), with contracts of every kind of fact and of two at once, with and without the
proofs they need; two processes and one turn, with moves that begin in logs of up
to two lines, which is a start, a first check, a call and its result of one process with the other
anywhere between, one in a terminal, with no deadline, that checks the root at once (`Eager`), one
that prints, with a deadline (`Headless`, `Bounded`); two cuts and a repair in the
search, which nest once and undo once; two runs of a page, the first with up to three calls,
so that ids come again; a step between two checks, with values 0 to 2, and unroll factors 1
and 2 on loops of up to three rounds; six bodies of at most four blocks, and two edits; functions
of two parameters of one bit, two splits deep; scripts of up to five lines, which have every line
a driver looks for. Longer runs are left to the proofs.

**Deadlock** is checked where the program never just stops: the search (`Over` is the end it
reaches). A session whose log does not fold stops, and so does the model (`broken`); a settled
run may have no move left within its bounds; a directory whose processes ended stays; a page may
wait for its user; a kernel says its word and ends; a refuted goal takes no step; a searcher is
done once it made every move; a run whose tools are refused never starts. These runs say `CHECK_DEADLOCK FALSE`.

**Fairness.** A session owes nobody a next move, so its specification has none, nor have
`Kernel`, `Checks`, `Certificate` and `Strategies`, whose properties are safety. `Run` has weak
fairness of what a process with a deadline does with no answer of the model or the checker: it
writes what it has to, and its timer fires. A process has one if it prints and was given
`--max-seconds` (`agent/main.ts:131`); nothing is said of any other, which may wait for ever. `Search` has weak fairness of its one loop, since
every answer it waits for is bounded by a timeout; it is written out (`FairSpec`), which TLC
checks much faster. `Browser` has what browsers do: messages arrive, microtasks run, timers
fire. A download, a checker and a file read may take for ever. In `Tools` timers fire, a process
that is told to end does, and the event loop gets to a process that has ended; nothing says
that a process or a job ends by itself, or that the sandbox ever comes up.

## 4. What the runs found

1. `interpose.ts:76` and `cases.ts:86` undo a split when the goal *has* such a split, while
   the fold (`goals.ts:246`, `253`) requires its status to be `split`. Interpose, prove both
   halves, uninterpose: the line is appended, the fold throws, and every later append and
   resume throws with it. `session.ts:822` says a move that throws changed nothing. `uncut`
   (`cuts.ts`) does ask for the status. Run `undo_of_a_proved_interpose`.
2. `include` (`manifest.ts:293`) writes a goal that has children as discharged by them,
   whatever proved it. A goal proved through its children keeps them when a step reopens it
   (`goals.ts:336`), and the check after the step may prove the new pair by itself: the
   manifest then says the old halves discharge it, and the kernel refuses it.
   `docs/design.md:79` says the certificate has the goals and steps that actually discharged
   the root. Run `proof_of_its_own`. It has the same cause that a goal with the children of two
   splits of one kind is written with the first: a callee that was interposed, proved, and
   interposed again by a strengthen that reopens it is not written with the proof its contract
   names. `ContractsProved` excuses such a goal (`InterposedTwice`) and no other.
3. `unfold` (`session.ts:521`) refuses a loop whose contract was proved by a program of its own
   src chain, and no other. Where one iteration loops itself, the strengthen proves the contract
   by an interpose of the callee, whose program is in the chain of a child: once both halves are
   proved the callee can be worked on again, and unfold lets it through although
   `session.ts:519` says unfolding comes before strengthening. The verdict then rests on calls
   no proof covers. Run `proof_of_a_contract_taken_back`. The undo of a split by cases
   (`session.ts:696`) does the same to a callee that had cases before it was strengthened: it
   discards all children and does not ask, as `uninterpose` does, whether a strengthen made one
   of its splits. TLC finds that one in the same run when `"unfold"` is taken out of
   `NestedMoves`.
4. `append` (`trajectory.ts:272`) writes a line and its newline at once. A kill between the two
   leaves a line that `parse` accepts and a run is resumed from, move and all; the constructor
   (261) goes on from its hash and does not end it, so the first line of the resumed run is joined
   onto it. The log is refused from then on, and the last move of the killed process, which had
   landed, is lost with it. `trajectory.ts:258` says that appending continues the chain of the
   lines that are there. Run `line_without_its_end`. `KeepsPromise` excuses that line (`Lose`),
   and no other.

Smaller things met on the way, which no run is about:

- `floor` (`windows.ts:109`) stops a growing window at the previous region only if that region
  holds something of the src: it passes an insertion, though the comment at 106 speaks of the
  previous region, whichever it is.
- The src block that `blockCut` takes for the tgt's sake (`loops.ts:110`) is not passed through
  `entryFirst`; `OneEntry` leaves it out, and such a cut is refused by llops.
- Undoing the split of a goal that was split in another way too throws (`search.ts:237`,
  `cuts.ts:297`), and nothing catches it: the search ends there (`threw` in `Search`).
- An agent that quits in the middle of a move may leave a settled log without its verdict line
  (`agent/main.ts:196`).
- The budgets of a configuration are not compared with the cap (`config.ts` `readTimeouts`), so
  only what a tool asks for is within the cap. `AnswersFit` says so.
- llubi, llops, and alive-tv before its summary, answer for the clock when it runs out after the
  process has ended and before the driver has read it; llrwt looks at the exit code first
  (`llrwt.ts:182`). `HeardOut` says of which calls more is true.
- An abort that comes while the sandbox is prepared is not heard: the listener is added after
  (`sandbox.ts:214`). A sandbox that failed to come up once fails every later command, since the
  failed promise is kept.
- A directory made for a call stays when its files cannot be written, and when the run ends under
  the call. What a command left in the background outlives a run that is out of time: `pkill -P`
  reaches the run's own children.
- `web/src/visualizer-data.ts:221` takes the last verdict of a log for its end and throws on one that says
  `unknown` and was settled by a later move just before a crash.
- The refused copies of a prepared cut stay in both programs (`search.ts:366`); what is left is
  certified, so only work is lost, and no property is about it.

## 5. The proofs

Eight modules hold them; `PROJECT.json` lists the theorems. All assume of the constants only
what the modules state with `ASSUME`, and TLC evaluates those assumptions in the runs.

### Trees and sessions: GoalTreeProofs, SessionProofs

`GoalTreeProofs` says what each operator of the tree returns, from its definition alone:
that the walks are closed and least, that `Below` is what is younger than the goal, and that
each effect keeps `Linked`, `Paired` and `Sound`. `SessionProofs` lifts this to the moves.

The invariant is `TreeInv`. What the theorems say is not inductive alone, because:

- `Backed` needs to know that a reopened goal took back everything that rested on it. That is the
  closure of `Unsettled` along parents, which needs `Linked` (each goal is a child of its
  parent and of no other) to relate parents to children.
- `NothingLeftToSettle` needs the same of `Settled`, and that a split goal has children, one
  of which is not proved, before each effect.
- the moves that strengthen name children by their role, so `Paired`: a goal with one of a
  pair of roles below it has the other, or `Child` would choose from nothing.
- `Split` takes two ids, so all ids are below `nextGoal`.
- `TxnCurrent` needs each move to leave the side under edit alone, and an undo to leave
  its goal alive.

Given `TreeInv`, one lemma per action shows that it is kept, `NextKeeps` joins them, and
the theorems follow with one temporal step each:

| theorem | statement |
|---|---|
| `TreeInvHolds` | `Spec => []TreeInv` |
| `TypeCorrect` | `Spec => []TypeOK` |
| `ForestStands` | `Spec => []Forest` |
| `StatusesExact` | `Spec => []SettledExactly`, which is `Backed` and `NothingLeftToSettle` |
| `TransactionStands` | `Spec => []TxnCurrent` |
| `NamesStayFresh` | `Spec => GoalNamesFresh` |
| `RefutationStands` | `Spec => RefutedIsFinal` |

`RefutedIsFinal` is no property of a run of its own: `PromiseKept` implies it there. The last two
are about steps. Each operator of the tree is followed from the tree before the
move (`Proceeds`): which ids may appear, and that a refuted root stays. What can touch the root
at all is a move of the root itself, which `Workable` refuses, or a walk up: `Settled` changes
split goals, `Unsettled` proved ones, and `Below` never holds the root because nothing is its
parent. None of these theorems uses that a checker is right: they hold of a session whatever
its checkers answer.

### Why a verdict is right: SessionProofs

| theorem | statement |
|---|---|
| `InvariantSound` | `KeptSpec => []SoundInv` |
| `VerdictIsSound` | `KeptSpec => []VerdictSound` |
| `ContractsStand` | `KeptSpec => []ContractStands` |
| `PromiseStands` | `KeptSpec => PromiseKept`: a session implements `Verdict` |
| `PromiseOfPlainContracts` | `"nested" \notin Moves => (Spec => PromiseKept /\ []VerdictSound)` |

The hypothesis `KeptSpec` leaves out one kind of step: the goal that a strengthen interposed, to
prove that a loop inside a loop keeps a contract, is unfolded once proved, or left without that
proof by the undo of a split by cases it has too. With those steps `ContractStands` is false,
and a verdict may rest on what nothing shows (section 4, 3). The last theorem drops the hypothesis
where no contract is proved by an interpose; then no such step exists.

`SoundInv` is what the runs check and what is inductive, together with `TreeInv`: every proved
goal is true; the steps of a side that a revert may still go back over only ever strengthened
the claim (`StepsSound`, from the place `BaseAt` that no revert passes); every split is one
whose children show the parent's claim at any such place (`SplitsSound`); a goal waits for the
proof that its loop keeps a contract only while it is split (`ContractsKept`); and contracts stay
pinned (`ContractsPinned`). A move of several effects breaks it between two of them: it is
stated as `SoundBut(tree, log, E)`, which excuses the splits of the goals in E, and a move is
followed through its effects with the goal it is splitting in E. `PromiseStands` maps each step
to one of `Verdict`'s or to a stutter: the question never changes because the first pair
of the root's histories never does (`SameQuestion`).

### Why a settled session has a certificate: SessionProofs

| theorem | statement |
|---|---|
| `CertificateExported` | `CSpec => []Exported` |
| `CertificateWhole` | `CKeptSpec => []ExportedWhole` |

`manifest.ts` plays the effects of a goal twice, once to learn who made each program it still
holds and once to chain the survivors. The invariant says what the first comes to. `Accounted`:
of each side of each goal `MadeBy` gives exactly the programs of its history, with effects that
come in the order of the programs and each of which makes its program from the one before; and
a strengthen is never lost, since what it put on a side is landed and no revert passes it. That
order is what makes the second pass whole: the survivors are met one by one as the effects go
by, and those on both sides at once are met at the same place of both (`ChainIsWhole`). Each
move is shown to add what keeps this (`Tallied`): a plain move (`Plainly`), an undo, which takes
goals with their effects (`Undone`), or a contract on two goals (`Contracted`). With `Twins`, that
the two children of a split are there or gone together, this gives `Exported`, with nothing
assumed of unfolds and undos.

`ContractsProved` adds `ContractInv`: the proofs a contract names are of its own goal or of the
outer beside it (`NamesNear`), so the certificate that holds the contract holds them; and each is
a step of the src chain that no revert passes, or the program its goal is interposed at
(`ProofsThere`). The second half is what an undo could take, hence `CKeptSpec`.

### What the kernel says: KernelProofs

| theorem | statement |
|---|---|
| `KernelTyped` | `Spec => []TypeOK` |
| `KernelStack` | `Spec => []StackSound` |
| `KernelSound` | `Spec => [](TypeOK /\ StackSound /\ AcceptedTrue)` |

For any manifest of its shape. `StackSound` is the inductive part: while no obligation failed,
the goals left on the stack, each with what is left of its chain, are all that the root still
needs. Refinement is transitive, every step of a chain is asked about in the direction of its
side, and a discharge replaces a goal by children that show it, by `CasesCover` and `CutRule`.
The theorem is about the replay: that no step, no end and no half goes unchecked, in any order and
at any depth, whatever a certificate claims. That the rules themselves are sound is what section 2
lists as assumed.

### Why a split shows its goal: KernelProofs, on Splits

| theorem | statement |
|---|---|
| `ClaimsAreAPreorder` | a function refines itself, and claims compose |
| `PartsShowAlways` | `SplitSpec => []PartsShow` |
| `VerdictsAreRight` | `SplitSpec => []RuledRight` |
| `CasesLoseNothing` | `SplitSpec => CasesKeep`: both cases of a goal that holds hold |

For any parameters, any width, any functions of these shapes and any number of splits. Of a
function they assume that what follows a call gets no less defined when the call does
(`Monotone`), and that one llubi treats as alive2 does has nothing to choose. They show, from what
functions do, what `GoalTree` assumes of refinement and of splits (`RefinesIsPreorder`) and, of
`Kernel`, `CasesCover`, `DivergenceRefutes` and `CutRule` for a cut without a contract or a loop: no input falls between two cases, because
a parameter compared is noundef in the src and `INVERSE` turns each comparison into what it is
not; no code falls between two halves, because they go back together and the callee's name is
new. `SplitInv` is the invariant: the parts, shown, show what was posed. Left out are the
hypothesis that a cut at the head of a loop makes, the facts of a contract and a function with more
than one call: of these the assumptions stand as assumptions.

### What a tool says: KernelProofs, on Tools

| theorem | statement |
|---|---|
| `ToolInvHolds` | `ToolSpec => []ToolInv` |
| `EndedAreHeardOut` | `ToolSpec => []HeardOut` |
| `StoppedAreNotBlamed` | `ToolSpec => []NotBlamed` |
| `CallsTidyUp` | `ToolSpec => []TidiesUp` |
| `ToolsAreAnOracle` | `ToolSpec => AnswersOrNone`: a tool implements `Oracle` |

For any calls and any lines their processes say, as far as `ScriptsAssumption` orders them: the
last count of alive-tv is its last line, llubi reports one ending, the JSON of llops is
whole when it is closed. `ToolInv` adds to the properties which states of a process, a clock, an
abort, background jobs and files go together (`Together` of the install, once a run has
started, among them). The step that matters is `Replies`: what was said of a script cut off
anywhere is read as the whole script would be, or as nothing (`AnswersTell`). The refinement then
goes action by action: spawning poses a question, `Replies` hears, `RunEnds` ceases, and
everything else stutters.

### What is certified is so: ChecksProofs

| theorem | statement |
|---|---|
| `ChecksInvHolds` | `Spec => []ChecksInv` |
| `ConclusionsAreTrue` | `Spec => []ConclusionsTrue` |
| `RecordsReplay` | `Spec => []Replayable` |
| `AnswersAreToTheQuestion` | `Spec => []AnswersFit` |
| `ChecksTyped` | `Spec => []TypeOK` |

For any values, lines and what they do, any programs with or without a loop, any facts and
unroll factors. `ChecksInv` adds to the three properties that every answer kept is right
(`RightAll`) and that the call under way is about its own heads, with a good window and with
facts that were shown to hold there (`CallHeld`): an answer is used several steps after it was
heard. The rest is about programs, not steps. That a window certifies the whole function needs
that inlining is monotone (`InlineBelow`): runs are below each other line by line (`LinesBelow`),
so are their concatenations (`BelowFlatten`), and so is what a loop does round by round
(`LoopBelow`). That assuming the facts loses nothing needs `AssumingIs` and that the outer hands
the window only values at which they hold. A counterexample found within an unroll factor is
one of the whole run because a loop that goes round more often than there are values never ends
(`LoopWithinValues`, by the pigeonhole principle; `RunOfIs`).

### What a search keeps: SearchProofs

| theorem | statement |
|---|---|
| `SearchInvHolds` | `Spec => []SearchInv` |
| `AgendaStandsAlways` | `Spec => []AgendaStands` |
| `NoneIsForgotten` | `Spec => []NoneForgotten` |
| `GivesUpWholly` | `Spec => []GivesUpWhole` |
| `SearchTyped` | `Spec => []TypeOK` |

For any moves offered, stages, comparisons and quotas, and any answers. `SearchInv` says, while
the run is undecided, four things of the agenda (`Good`):

- It stands in the tree (`Stood`). Each goal is there once. The entry that left another is the last
  below it whose split may be undone (`LeftBy`), and the goal is that one's child, or a child's
  child where a half was split in turn (`Near`). Nothing below an entry in the agenda is under
  it in the tree, so that an undo, which discards a subtree, takes no goal but those above. And
  the goals of a half that was split in turn come before the callee of the cut it is of
  (`InTurn`): without this a strengthen could put the half back while they are still queued.
- A goal whose split may be undone is split or proved (`Worked`).
- An open goal is queued or was given up (`Kept`).
- The first entry is of the goal the search began at, which while split says how to undo it
  (`Based`): an empty agenda then means that nothing is left split.

The tree is only asked to hang together (`Whole`: `Sound` of `SessionProofs`, with every pair
counted as shown). What a move does to it is put in terms of `Follows` (only the goal in
hand changes but for statuses above it) and `Proves` (more goals are proved), and each kind of
move is one lemma about an agenda and two trees: the top is exchanged (`TopKeeps`), leaves
(`PopKeeps`), is split (`SplitKeeps`), has its split or the one that left it undone
(`UndoneKeeps`), or has its brothers put back under it (`RequeueKeeps`). `SearchTyped` has an invariant of its own:
no quota of cuts is overdrawn (`QuotaInv`), and the quota an entry spends is its own or one of an
entry below it (`Owned`).

### What is stated of an input: SearchProofs, on Facts

| theorem | statement |
|---|---|
| `RangesAreTrue` | a range stated of an integer holds of every value the analyses allow |
| `BoundsSayTheRange` | the comparisons stated of it hold exactly of the values within its bounds |
| `TrueFactsAreHeld`, `CutsAreToldTrue` | what a window and a cut are told of an input the analyses know rightly is found to hold on it |
| `PassedOnSayTheSame` | a fact passed on to a cut says of its parameters what it said of the goal's |
| `ContractsStayContracts` | what is joined of two contracts, or of a preview and what it lost, is a contract |
| `LoopKeepsLess` | a loop that does not keep all it is asked to is asked for less next |
| `UnfoldsMatchTheSteps` | the unfolds are within the budget and make the counters step alike |

For integers of every width: that reading a word with a sign and back loses nothing (`ReadBack`),
that a range up to the last value comes round to the first, and that one of at most three pairs
of bounds is the narrowest (`NarrowestIsOne`). Assumed are only that a word's submasks are at most
the word and that `Nothing` is no value. TLC evaluates bounded forms of these laws first.
`LoopKeepsLess` is what makes the loop of `strengthenLoop` end, and is the reason `noundef` may be
put back: it is put back alone, so something else was lost.

### What a directory keeps: RunProofs, with FlattenProofs

| theorem | statement |
|---|---|
| `RunTyped` | `Spec => []Types` |
| `LogNamesWhatIsStored` | `Spec => []NamedIsStored` |
| `ResultsStandWithCalls` | `Spec => []ResultsPaired` |
| `DirectoryKeepsPromise` | `Spec => KeepsPromise` |
| `TreesAreDerived` | `Spec => []TypeOK` |

For any number of processes, lines and turns. `NamedIsStored` needs that what a process is about
to name is stored already (`AboutToName`); `ResultsPaired` that the log a process answers in ends
with its call, as far as it is still readable (`CallsHeld`, `ResultsNameCalls`); the refinement
that what a process holds is a readable prefix of the file, unless a line was torn in it
(`TornBy`), or the file has moved on, and then what it appends no reader parses (`LogsHeld`). A
line never stops being torn (`TornStays`) nor a broken log being broken (`BrokenStays`), so the
promise of a broken log is over. Then each append is a move of `RunPromise`, a word of it, or
nothing, and one that is joined onto a line without its end loses what that line says: for a
verdict that it was right (`LastSaysRight`), and for a move its effects. `TypeOK` needs that between two moves the tree a process holds is the one its
log derives (`TreesHeld`).

`FlattenProofs` has what the proofs about logs and about programs share: sets of naturals have
least numbers, induction over sets of naturals and of sequences (with a set for the predicate),
and what `FlattenSeq` does to a sequence with one more at its end.

### What a page keeps: BrowserProofs

| theorem | statement |
|---|---|
| `PageInvHolds` | `Spec => []PageInv` |
| `HistoryIsWhole` | `Spec => []WholeHistory` |
| `NothingOutlivesItsRun` | `Spec => []NothingRunsOn` |
| `ReportsAreCurrent` | `Spec => []ReportIsCurrent` |
| `TextIsLatest` | `Spec => LatestText` |
| `PageTyped` | `Spec => []TypeOK` |

For any number of runs, moves, calls and acts. `PageInv` is types (`Shapes`), that jobs and
deadlines are of the worker the page owns (`JobsOfWorker`), that one search lives (`OneLives`),
the text (`OfTheText`), the reports (`ReportsHold`), and `LinesCome`: that the page has a run's
first n lines says nothing of the next message unless the queue is known, so `Queue` says that
lines n + 1 to m wait in it in order, each after its program and before the progress that counts
it, and the result after them all. `PageTyped` has an invariant of its own (`InRange`).

## 6. What is only model-checked

- Liveness (`Finishes`, `Ends`, `Answered`, `RidOfInTime`), and anything with ENABLED: out of the prover's
  reach.
- `WindowFound`, that a step which only changes lines inside one block finds a window: an
  existence over the search of `Candidates`.
- Everything about `Strategies` and the modules below it, which use recursive operators that
  the prover cannot read: `WalkExact`, `RegionsHold`, `SlotTrue`, `OneEntry`.
- What a recursive definition computes on every input. The walks of the tree are least closed
  sets and the runs of a program recursive functions for this reason.

## 7. What is not modelled

- **Session**: the names p1, p2, ... of programs, the transcript, the counters of results: no
  guard reads them. A move is one step in `Session`; crashes and deadlines inside one are in `Run`.
- **Strengthen**: in `Session` a contract is the programs it makes; which facts the searcher
  states is in `Facts`, and what a preview offers is left out.
- **Splits**: loops and their hypotheses, functions that call more than once, and memory other
  than what is seen at the end.
- **Checks**: phis, names, the values a window reads, what llops refuses beyond the bounds of a
  window, and what it says of attributes.
- **Certificate**: who checked a step, the versions of the tools, the manifest of a
  counterexample, and commits and unfolds, which append what a rewrite does.
- **Kernel**: how the tools are run, found and timed, and the report. A field of the wrong type, a
  kind of step, discharge or checker it does not know, and a file that is not what its name says
  are one `Refuse`, or a failure, that may come at any time: a manifest is of its shape (`Shaped`).
  That the package is about two given files (`--src`, `--tgt`) is left out. Why llubi may not
  settle a pair, an error or a src it treats differently, is one choice (`ran`); the pair at an
  input stands for what `instantiate` makes of it.
- **Search**: what a move does to the programs of a goal; a second peel of the root.
- **Strategies and llops**: integers are of one bit, loops of a body are run at most eight rounds
  (`Fuel`), and cuts are always refused or undone, which makes the searcher try every move. The
  relations offered, views of phis and the rules of rewriting are left out, and of
  llops switches, metadata, struct types, attributes, outlining, detaching and respected.
- **Browser**: the request that shows the programs of a goal, which only reads; progress and
  finish lines other than what they count; what an archive holds.
- **Drivers and tools**: the text of requests and reports beyond the lines that decide an answer,
  and two calls at once: each has a process, a clock and a directory of its own. The agent's file
  tools and the check of paths are I/O; its other tools are one move of the session each.
- **Views, visualizer, scripts and examples** only draw, build or replay.

## 8. What is left to do

`WindowFound` for every pair of functions, which asks for a witness of the search along `Candidates`;
and `Strategies` with recursive functions in place of its recursive operators, so that what is
checked of the copies could be proved.
