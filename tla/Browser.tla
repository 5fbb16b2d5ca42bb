------------------------------- MODULE Browser -------------------------------
(***************************************************************************)
(* The browser build: a page (web/src/app.ts) that owns one search worker    *)
(* (alive-simple.worker.ts), the workers of its checkers                    *)
(* (services/runtime.ts), its reports (controllers/reports.ts) and its       *)
(* editor (controllers/editor.ts).                                          *)
(*                                                                         *)
(* Each thread runs one task at a time and posts messages to the others. A   *)
(* worker that is terminated takes no further step, while what it posted     *)
(* stays queued on the page. A promise the page awaits goes on in a          *)
(* microtask: after the task that settled it, before any other.              *)
(***************************************************************************)
EXTENDS Integers, Sequences, SequencesExt, FiniteSets

CONSTANTS
  MaxRuns,      \* search workers ever made
  MaxMoves,     \* moves of one search, each a program, a line and a progress
  MaxCalls,     \* checker requests of each search
  MaxActs,      \* edits, file loads and runs of the user
  MaxReports,   \* reports the user asks for
  NoJob         \* stands for no report

ASSUME BoundsAssumption ==
  /\ {MaxRuns, MaxMoves, MaxActs, MaxReports} \subseteq Nat
  /\ MaxCalls \in [1..MaxRuns -> Nat]

VARIABLES
  \* The page's session (controllers/session.ts).
  worker,       \* the run whose worker the page owns, 0 for none
  runs,         \* how many workers were made
  status,
  history,      \* the lines recorded, as pairs of a run and a number
  programs,     \* the programs recorded, likewise
  standing,     \* how many moves the goals shown have seen
  checks,       \* the answers shown, as the calls they were given to
  input,        \* the text captured at Run
  timers,       \* the runs whose deadline is armed
  awaits,       \* the microtasks of receive: calls whose promise is settled
  \* Its checkers (services/runtime.ts). A call is a pair of a run and an id.
  jobs,         \* the run that holds each id in use
  loading,      \* the calls whose tool is being downloaded
  tools,        \* the calls whose checker runs
  said,         \* the calls whose checker posted what it found
  \* The search workers (alive-simple.worker.ts).
  search,       \* what each is doing
  moves,        \* how many moves each made
  serial,       \* the last id each gave
  pending,      \* for each, its unanswered ids and whether a timer kills them
  awaited,      \* the ids its search cannot go on without
  toPage,       \* what each posted and the page has not received
  toWorker,     \* what the page posted to each
  \* The editor and the reports.
  text,         \* the act whose text is in the editor
  acts,         \* how many times the user edited, loaded or ran
  revision,     \* of the editor
  reads,        \* the file reads in flight
  viewing, saving,   \* the reports in flight
  shown,        \* the report on display
  asked         \* how many reports were asked for

session == <<worker, runs, status, history, programs, standing, checks, input, timers, awaits>>
runtime == <<jobs, loading, tools, said>>
inside  == <<search, moves, serial, pending, awaited, toWorker>>
workers == <<inside, toPage>>
editor  == <<text, acts, revision, reads>>
reports == <<viewing, saving, shown, asked>>
vars    == <<session, runtime, workers, editor, reports>>

Runs  == 1..MaxRuns
Ids   == UNION {1..MaxCalls[r] : r \in Runs}
Calls == Runs \X Ids

Running   == status = "running"
HasReport == history # <<>>
Idle      == awaits = <<>>     \* a task starts when no microtask is left
UserActs  == Idle /\ acts < MaxActs /\ acts' = acts + 1

-----------------------------------------------------------------------------
(* The checkers of the page (services/runtime.ts).                          *)

\* A bug: an id alone names a job.
ById(call) == call[2] \in DOMAIN jobs

\* Identity, rather than the id, tells a job from an earlier one of the same id.
Active(call) == call[2] \in DOMAIN jobs /\ jobs[call[2]] = call[1]

Settled(call, result) == [call |-> call, result |-> result]

\* close, and the promise of execute settled: its await goes on in a microtask.
CloseJob(call, result) ==
  /\ jobs' = [id \in DOMAIN jobs \ {call[2]} |-> jobs[id]]
  /\ tools' = tools \ {call}
  /\ awaits' = Append(awaits, Settled(call, result))

\* A bug: only a checker that runs can be killed.
KillsRunning(id) ==
  IF id \in DOMAIN jobs /\ <<jobs[id], id>> \in tools THEN CloseJob(<<jobs[id], id>>, "killed")
  ELSE UNCHANGED <<jobs, tools, awaits>>

\* kill: an exit like any other, so that the driver that waits for it goes on.
KillJob(id) ==
  IF id \in DOMAIN jobs THEN CloseJob(<<jobs[id], id>>, "killed")
  ELSE UNCHANGED <<jobs, tools, awaits>>

\* cancel: a kill of every job.
CancelJobs ==
  /\ jobs' = <<>>
  /\ tools' = {c \in tools : ~Active(c)}
  /\ awaits' = awaits \o SetToSeq({Settled(<<jobs[id], id>>, "killed") : id \in DOMAIN jobs})

\* execute: an id in use is refused.
Execute(call) ==
  IF call[2] \in DOMAIN jobs
  THEN awaits' = Append(awaits, Settled(call, "error")) /\ UNCHANGED <<jobs, loading>>
  ELSE /\ jobs' = [id \in DOMAIN jobs \cup {call[2]} |->
                     IF id = call[2] THEN call[1] ELSE jobs[id]]
       /\ loading' = loading \cup {call}
       /\ UNCHANGED awaits

\* A download ends, perhaps after its call was killed and its id given again.
Loaded(call) ==
  /\ Idle /\ call \in loading
  /\ loading' = loading \ {call}
  /\ tools' = IF Active(call) THEN tools \cup {call} ELSE tools
  /\ UNCHANGED <<session, jobs, said, workers, editor, reports>>

LoadFails(call) ==
  /\ Idle /\ call \in loading
  /\ loading' = loading \ {call}
  /\ IF Active(call) THEN CloseJob(call, "error") ELSE UNCHANGED <<jobs, tools, awaits>>
  /\ UNCHANGED <<worker, runs, status, history, programs, standing, checks, input, timers, said,
                 workers, editor, reports>>

\* A checker posts what it found, or that it failed (tool.worker.ts).
ToolPosts(call) ==
  /\ call \in tools \ said
  /\ said' = said \cup {call}
  /\ UNCHANGED <<session, jobs, loading, tools, workers, editor, reports>>

\* The page takes it, perhaps after it terminated the worker that posted it.
ToolReplies(call, result) ==
  /\ Idle /\ call \in said
  /\ said' = said \ {call}
  /\ IF Active(call) THEN CloseJob(call, result) ELSE UNCHANGED <<jobs, tools, awaits>>
  /\ UNCHANGED <<worker, runs, status, history, programs, standing, checks, input, timers, loading,
                 workers, editor, reports>>

-----------------------------------------------------------------------------
(* The session of the page (controllers/session.ts).                        *)

\* A bug: what is being saved goes on.
KeepsSaving == viewing' = NoJob /\ shown' = NoJob /\ UNCHANGED saving

\* reset of the reports: what is in flight is cancelled, and the dialog closed.
ResetReports == viewing' = NoJob /\ saving' = NoJob /\ shown' = NoJob

Kept == <<history, programs, standing, checks, input>>

\* What a terminated worker knew goes with it.
Forgotten(f, none) == [r \in Runs |-> IF r = worker THEN none ELSE f[r]]

\* dispose: the worker is terminated, and its checkers and its deadline are stopped. At Run
\* a new one takes its place at once.
Replace(next) ==
  /\ worker' = next
  /\ timers' = IF next = 0 THEN {} ELSE {next}
  /\ search' = [r \in Runs |-> CASE r = worker -> "dead" [] r = next -> "made"
                                 [] OTHER -> search[r]]
  /\ toWorker' = [r \in Runs |-> CASE r = worker -> <<>> [] r = next -> <<[type |-> "run"]>>
                                   [] OTHER -> toWorker[r]]
  /\ moves' = Forgotten(moves, 0) /\ serial' = Forgotten(serial, 0)
  /\ pending' = Forgotten(pending, <<>>) /\ awaited' = Forgotten(awaited, {})
  /\ CancelJobs

Dispose == Replace(0)

\* fail: what was recorded stays.
Fail == Dispose /\ status' = "error" /\ UNCHANGED Kept

Emptied == history' = <<>> /\ programs' = {} /\ standing' = 0 /\ checks' = {}

\* Stop, by the user or the deadline.
Stop ==
  /\ Idle /\ Running
  /\ Dispose /\ status' = "stopped"
  /\ UNCHANGED <<runs, Kept, loading, said, toPage, editor,
                 reports>>

\* Run (app.ts start, session.ts start). Text that is too long fails the session. (So would a
\* budget validateBudget refuses, but the fields of the form let none through.)
Start(fits) ==
  /\ Idle /\ ~Running
  /\ ResetReports /\ Emptied
  /\ input' = text
  /\ IF fits
     THEN /\ UserActs /\ runs < MaxRuns
          /\ Replace(runs + 1) /\ runs' = runs + 1 /\ status' = "running"
          /\ revision' = revision + 1      \* setRunning: a read in flight is out of date
     ELSE Dispose /\ status' = "error" /\ UNCHANGED <<runs, revision, acts>>
  /\ UNCHANGED <<loading, said, toPage, text, reads, asked>>

\* onerror and onmessageerror: the worker does not load, throws outside the promise of prove
\* or posts what the page cannot read, at any moment and whatever its search waits for.
WorkerFails ==
  /\ Idle /\ worker # 0
  /\ Fail
  /\ UNCHANGED <<runs, loading, said, toPage, editor, reports>>

\* A bug: every message is taken.
FromAny(r) == TRUE

\* receive: a message of a worker the page has replaced is dropped.
FromCurrent(r) == r = worker

Receive(r) ==
  LET m == Head(toPage[r]) IN
  /\ Idle /\ toPage[r] # <<>>
  /\ toPage' = [toPage EXCEPT ![r] = Tail(@)]
  /\ \/ /\ ~FromCurrent(r)
        /\ UNCHANGED <<session, jobs, loading, tools, inside>>
     \/ /\ FromCurrent(r) /\ m.type = "program"
        /\ programs' = programs \cup {<<r, m.n>>}
        /\ UNCHANGED <<worker, runs, status, history, standing, checks, input, timers, awaits,
                       jobs, loading, tools, inside>>
     \/ /\ FromCurrent(r) /\ m.type = "trajectory"
        /\ history' = Append(history, <<r, m.n>>)
        /\ UNCHANGED <<worker, runs, status, programs, standing, checks, input, timers, awaits,
                       jobs, loading, tools, inside>>
     \/ /\ FromCurrent(r) /\ m.type = "progress"
        /\ standing' = IF Running THEN m.n ELSE standing
        /\ UNCHANGED <<worker, runs, status, history, programs, checks, input, timers, awaits,
                       jobs, loading, tools, inside>>
     \/ /\ FromCurrent(r) /\ m.type = "exec"
        /\ Execute(<<r, m.n>>)
        /\ UNCHANGED <<worker, runs, status, Kept, timers, tools, inside>>
     \/ /\ FromCurrent(r) /\ m.type = "kill"
        /\ KillJob(m.n)
        /\ UNCHANGED <<worker, runs, status, Kept, timers, loading, inside>>
     \/ /\ FromCurrent(r) /\ m.type = "result"
        /\ timers' = {} /\ standing' = m.n /\ status' = "finished"
        /\ UNCHANGED <<worker, runs, history, programs, checks, input, awaits, jobs, loading, tools,
                       inside>>
     \/ /\ FromCurrent(r) /\ m.type = "error"
        /\ Fail
        /\ UNCHANGED <<runs, loading>>
  /\ UNCHANGED <<said, editor, reports>>

\* The await of receive goes on: the answer is shown and posted, unless the worker that asked
\* has been replaced.
GoOn ==
  LET s == Head(awaits)
      r == s.call[1]
  IN
  /\ awaits # <<>>
  /\ awaits' = Tail(awaits)
  /\ IF FromCurrent(r)
     THEN /\ checks' = IF s.result = "error" THEN checks ELSE checks \cup {s.call}
          /\ toWorker' = [toWorker EXCEPT ![r] =
               Append(@, [type |-> "execution", n |-> s.call[2], ok |-> s.result # "error"])]
     ELSE UNCHANGED <<checks, toWorker>>
  /\ UNCHANGED <<worker, runs, status, history, programs, standing, input, timers, runtime, search,
                 moves, serial, pending, awaited, toPage, editor, reports>>

-----------------------------------------------------------------------------
(* A search worker (alive-simple.worker.ts), with the processes of its       *)
(* drivers (platform/process.ts, core/drivers).                             *)

Posts(r, messages) == toPage' = [toPage EXCEPT ![r] = @ \o messages]

Exec(n)    == [type |-> "exec", n |-> n]
GoesOn(r)  == search[r] = "searching" /\ awaited[r] = {}

\* execute: calls go out together where a driver asks about both sides. Most have a timer
\* that kills them; the split of the input and the version of a tool do not.
Ask(r, k, timed) ==
  LET ids == serial[r] + 1 .. serial[r] + k IN
  /\ serial[r] + k <= MaxCalls[r]
  /\ serial' = [serial EXCEPT ![r] = @ + k]
  /\ pending' = [pending EXCEPT ![r] = [id \in DOMAIN @ \cup ids |->
       IF id \notin ids THEN @[id] ELSE IF timed THEN "timed" ELSE "bare"]]
  /\ awaited' = [awaited EXCEPT ![r] = ids]
  /\ Posts(r, [i \in 1..k |-> Exec(serial[r] + i)])

\* prove: it begins with the split of the input.
Boot(r) ==
  /\ search[r] = "made" /\ toWorker[r] # <<>>
  /\ toWorker' = [toWorker EXCEPT ![r] = Tail(@)]
  /\ search' = [search EXCEPT ![r] = "searching"]
  /\ Ask(r, 1, FALSE)
  /\ UNCHANGED <<session, runtime, moves, editor, reports>>

Call(r, k, timed) ==
  /\ GoesOn(r)
  /\ Ask(r, k, timed)
  /\ UNCHANGED <<session, runtime, search, moves, toWorker, editor, reports>>

\* A move stores its program, appends its line and then shows where the goals stand. (Its two
\* lines are one here, and the line of finish, which names no program, none.)
Move(r) ==
  /\ GoesOn(r) /\ moves[r] < MaxMoves
  /\ moves' = [moves EXCEPT ![r] = @ + 1]
  /\ Posts(r, [i \in 1..3 |-> [type |-> <<"program", "trajectory", "progress">>[i],
                               n    |-> moves[r] + 1]])
  /\ UNCHANGED <<session, runtime, search, serial, pending, awaited, toWorker, editor, reports>>

\* The timer of a driver fires while its call is unanswered.
KillTimer(r, id) ==
  /\ search[r] \in {"searching", "settled"}
  /\ id \in DOMAIN pending[r] /\ pending[r][id] = "timed"
  /\ pending' = [pending EXCEPT ![r][id] = "killed"]
  /\ Posts(r, <<[type |-> "kill", n |-> id]>>)
  /\ UNCHANGED <<session, runtime, search, moves, serial, awaited, toWorker, editor, reports>>


\* An error ends the wait for the calls that were made together.
WaitsAfter(waits, m) == IF m.ok \/ m.n \notin waits THEN waits \ {m.n} ELSE {}

TakeAnswer(r) ==
  LET m == Head(toWorker[r]) IN
  /\ search[r] \in {"searching", "settled"} /\ toWorker[r] # <<>>
  /\ toWorker' = [toWorker EXCEPT ![r] = Tail(@)]
  /\ pending' = [pending EXCEPT ![r] = [id \in DOMAIN @ \ {m.n} |-> @[id]]]
  /\ awaited' = [awaited EXCEPT ![r] = WaitsAfter(@, m)]
  /\ UNCHANGED <<session, runtime, search, moves, serial, toPage, editor, reports>>

\* The search ends and the worker stays, for the programs of its goals.
Settle(r) ==
  /\ GoesOn(r)
  /\ search' = [search EXCEPT ![r] = "settled"]
  /\ Posts(r, <<[type |-> "result", n |-> moves[r]]>>)
  /\ UNCHANGED <<session, runtime, moves, serial, pending, awaited, toWorker, editor, reports>>

\* The promise of prove is rejected, which it tells the page in a message.
Throw(r) ==
  /\ GoesOn(r)
  /\ search' = [search EXCEPT ![r] = "settled"]
  /\ Posts(r, <<[type |-> "error"]>>)
  /\ UNCHANGED <<session, runtime, moves, serial, pending, awaited, toWorker, editor, reports>>

-----------------------------------------------------------------------------
(* The editor (controllers/editor.ts, locked while a search runs) and the    *)
(* reports (controllers/reports.ts).                                        *)

\* change: new text ends the session of the old (app.ts).
Change(t) ==
  /\ text' = t /\ revision' = revision + 1
  /\ ResetReports
  /\ Dispose /\ Emptied /\ status' = "ready" /\ input' = 0

Edit ==
  /\ UserActs /\ ~Running
  /\ Change(acts')
  /\ UNCHANGED <<runs, loading, said, toPage, reads, asked>>

\* load: a read cannot be cancelled, so it carries the revision it began at.
Load(fits) ==
  /\ UserActs /\ ~Running
  /\ revision' = revision + 1
  /\ IF fits
     THEN /\ reads' = reads \cup {[at |-> revision', text |-> acts']}
          /\ UNCHANGED <<session, jobs, tools, inside>>
     ELSE Fail /\ UNCHANGED <<runs, reads>>
  /\ UNCHANGED <<loading, said, toPage, text, reports>>

\* A bug: a read is never out of date.
AnyRevision(f) == TRUE

UpToDate(f) == f.at = revision

ReadEnds(f) ==
  /\ Idle /\ f \in reads /\ reads' = reads \ {f}
  /\ IF UpToDate(f) /\ ~Running THEN Change(f.text) /\ UNCHANGED runs
     ELSE UNCHANGED <<session, jobs, tools, inside, text, revision, reports>>
  /\ UNCHANGED <<loading, said, toPage, acts, asked>>

ReadFails(f) ==
  /\ Idle /\ f \in reads /\ reads' = reads \ {f}
  /\ IF UpToDate(f) THEN Fail /\ UNCHANGED runs
     ELSE UNCHANGED <<session, jobs, tools, inside>>
  /\ UNCHANGED <<loading, said, toPage, text, acts, revision,
                 reports>>

\* A report is made of what is recorded when it is asked for.
Snapshot == [lines |-> history, programs |-> programs, input |-> input]

Asks == Idle /\ asked < MaxReports /\ asked' = asked + 1

Open ==
  /\ Asks /\ HasReport
  /\ viewing' = Snapshot /\ shown' = NoJob
  /\ UNCHANGED <<session, runtime, workers, editor, saving>>

Viewed(ok) ==
  /\ Idle /\ viewing # NoJob
  /\ viewing' = NoJob /\ shown' = IF ok THEN viewing ELSE shown
  /\ UNCHANGED <<session, runtime, workers, editor, saving, asked>>

Close ==
  /\ Idle /\ {viewing, shown} # {NoJob}
  /\ viewing' = NoJob /\ shown' = NoJob
  /\ UNCHANGED <<session, runtime, workers, editor, saving, asked>>

Save ==
  /\ Asks /\ HasReport /\ saving = NoJob
  /\ saving' = Snapshot
  /\ UNCHANGED <<session, runtime, workers, editor, viewing, shown>>

\* The archive is downloaded, or it could not be made.
Saved ==
  /\ Idle /\ saving # NoJob
  /\ saving' = NoJob
  /\ UNCHANGED <<session, runtime, workers, editor, viewing, shown, asked>>

-----------------------------------------------------------------------------
Init ==
  /\ worker = 0 /\ runs = 0 /\ status = "ready" /\ history = <<>> /\ programs = {}
  /\ standing = 0 /\ checks = {} /\ input = 0 /\ timers = {} /\ awaits = <<>>
  /\ jobs = <<>> /\ loading = {} /\ tools = {} /\ said = {}
  /\ search = [r \in Runs |-> "none"] /\ moves = [r \in Runs |-> 0]
  /\ serial = [r \in Runs |-> 0] /\ pending = [r \in Runs |-> <<>>]
  /\ awaited = [r \in Runs |-> {}] /\ toPage = [r \in Runs |-> <<>>]
  /\ toWorker = [r \in Runs |-> <<>>]
  /\ text = 0 /\ acts = 0 /\ revision = 0 /\ reads = {}
  /\ viewing = NoJob /\ saving = NoJob /\ shown = NoJob
  /\ asked = 0

ToolStep ==
  \/ \E c \in Calls : Loaded(c) \/ LoadFails(c) \/ ToolPosts(c)
  \/ \E c \in Calls, result \in {"answer", "error"} : ToolReplies(c, result)

PageStep ==
  \/ GoOn
  \/ Stop
  \/ \E fits \in BOOLEAN : Start(fits)
  \/ WorkerFails
  \/ \E r \in Runs : Receive(r)

SearchStep ==
  \E r \in Runs :
    \/ Boot(r)
    \/ \E k \in 1..2, timed \in BOOLEAN : Call(r, k, timed)
    \/ Move(r)
    \/ \E id \in Ids : KillTimer(r, id)
    \/ TakeAnswer(r)
    \/ Settle(r)
    \/ Throw(r)

EditorStep ==
  \/ Edit
  \/ \E fits \in BOOLEAN : Load(fits)
  \/ \E f \in reads : ReadEnds(f) \/ ReadFails(f)

ReportStep == Open \/ (\E ok \in BOOLEAN : Viewed(ok)) \/ Close \/ Save \/ Saved

Next == ToolStep \/ PageStep \/ SearchStep \/ EditorStep \/ ReportStep

Spec == Init /\ [][Next]_vars

\* What browsers do: messages arrive, microtasks run and timers fire. A download, a checker and
\* a file read may take for ever, and the user and the search owe nothing.
FairSpec ==
  /\ Spec
  /\ WF_vars(GoOn)
  /\ \A r \in Runs : WF_vars(Receive(r)) /\ WF_vars(TakeAnswer(r))
  /\ \A r \in Runs, id \in Ids : WF_vars(KillTimer(r, id))

-----------------------------------------------------------------------------
(* Properties.                                                              *)

TypeOK ==
  /\ worker \in {0, runs} /\ runs \in 0..MaxRuns
  /\ status \in {"ready", "running", "finished", "stopped", "error"}
  /\ history \in Seq(Runs \X (1..MaxMoves)) /\ programs \subseteq Runs \X (1..MaxMoves)
  /\ standing \in 0..MaxMoves /\ checks \subseteq Calls
  /\ DOMAIN jobs \subseteq Ids /\ \A id \in DOMAIN jobs : jobs[id] \in Runs
  /\ loading \cup tools \cup said \subseteq Calls
  /\ \A r \in Runs : DOMAIN pending[r] \subseteq 1..serial[r] /\ awaited[r] \subseteq DOMAIN pending[r]
  /\ text \in 0..acts /\ input \in {0, text} /\ reads \subseteq [at : 0..revision, text : 1..acts]

\* What the page keeps is one run's, the last one's: its lines from the first on and in
\* order, the program of each, no answer to another run, and goals that have seen no more
\* than the lines kept (session.ts receive).
WholeHistory ==
  /\ \A i \in DOMAIN history : history[i] = <<runs, i>> /\ <<runs, i>> \in programs
  /\ \A c \in programs \cup checks : c[1] = runs
  /\ standing <= Len(history)
  /\ status = "finished" => Len(history) = moves[runs]

\* Nothing of a run goes on after it: whatever worker, checker or deadline there is belongs to
\* the worker the page owns, and the deadline to a run that goes on (session.ts dispose,
\* runtime.ts execute).
NothingRunsOn ==
  /\ \A id \in DOMAIN jobs : jobs[id] = worker
  /\ \A c \in tools : c[2] \in DOMAIN jobs /\ jobs[c[2]] = c[1]
  /\ \A r \in Runs : search[r] \in {"made", "searching", "settled"} => r = worker
  /\ timers = IF Running THEN {worker} ELSE {}

\* A report on display, or about to be or to be saved, is of the text in the editor and of the
\* history the page has, up to some line of it with all its programs (reports.ts).
ReportIsCurrent ==
  \A job \in {viewing, saving, shown} \ {NoJob} :
    /\ job.input = text
    /\ IsPrefix(job.lines, history)
    /\ ToSet(job.lines) \subseteq job.programs

\* The text in the editor changes only to what the user asked for last, and never under a
\* search (editor.ts load).
LatestText == [][text' # text => text' = acts' /\ ~Running]_vars

\* A call with a timer does not hang: its driver gets an answer or the run is over, whatever
\* downloads and checkers do (runtime.ts kill).
Answered ==
  \A r \in Runs : \A id \in 1..MaxCalls[r] :
    (id \in DOMAIN pending[r] /\ pending[r][id] # "bare")
      ~> (id \notin DOMAIN pending[r] \/ search[r] = "dead")
=============================================================================
