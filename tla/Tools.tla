------------------------------- MODULE Tools --------------------------------
(***************************************************************************)
(* The tools of a run, each call a process of its own: alive-tv, llubi,    *)
(* llops and llrwt behind their drivers (core/drivers), the agent's shell  *)
(* (agent/tools/sandbox.ts), the check that the installed tools belong     *)
(* together (core/toolchain.ts) and the end of a run that is out of time   *)
(* (core/run.ts).                                                          *)
(*                                                                         *)
(* A process says its lines one at a time and then ends; it may die with   *)
(* any of them said, and a driver reads what was said by then.  Its clock  *)
(* may run out at any time before the driver has its answer, also after    *)
(* the process has ended.                                                  *)
(***************************************************************************)
EXTENDS Integers, Sequences

CONSTANTS
  Scripts,     \* the calls there are, each with all that its process would say
  Releases     \* the releases of LLVM a binary may report

Drivers == {"alive-tv", "llubi", "llops", "llrwt"}

\* The tools that must be of one LLVM.
CheckedTools == {"llops", "alive-tv", "llubi"}
Translators == {"mlir-translate", "mlir-opt"}

\* The tools whose input travels in files of a directory made for the call.
Filed == {"alive-tv", "llrwt"}

Counts == {"correct", "incorrect", "failed", "errors"}

\* The exit code of a process a signal ended.
Signalled == -1

Says(lines, w) == \E i \in DOMAIN lines : lines[i].line = w
Number(lines, w) == lines[CHOOSE i \in DOMAIN lines : lines[i].line = w].n

\* A call is a tool, the lines its process says left alone, and its exit code.
\* alive-tv ends with its four counts; llubi reports undefined behaviour or
\* that main was left, and not both; the JSON of llops is whole when it is
\* closed.
ASSUME ScriptsAssumption ==
  \A s \in Scripts :
    /\ s.tool \in Drivers \cup {"bash"}
    /\ s.says \in Seq([line : STRING, n : Nat])
    /\ s.exit \in Nat
    /\ s.tool = "alive-tv" =>
         \A i \in DOMAIN s.says : s.says[i].line = "errors" => i = Len(s.says)
    /\ s.tool = "llubi" =>
         \A i, j \in DOMAIN s.says :
           s.says[i].line \in {"ub", "left"} /\ s.says[j].line \in {"ub", "left"} => i = j
    /\ s.tool = "llops" =>
         \A i \in DOMAIN s.says : s.says[i].line = "}" => i = Len(s.says)

-----------------------------------------------------------------------------
(* Reading what a process said. *)

\* Whether alive-tv printed its whole summary.
Summarised(lines) == \A c \in Counts : Says(lines, c)

\* What alive-tv found, from its four counts; the report of a budget that ran
\* out begins with the error that says so.
ReadSummary(lines) ==
  IF Number(lines, "incorrect") > 0 THEN "incorrect"
  ELSE IF Number(lines, "errors") > 0 THEN "error"
  ELSE IF Number(lines, "failed") > 0
       THEN IF Says(lines, "timeout") THEN "timeout" ELSE "unknown"
  ELSE IF Number(lines, "correct") > 0 THEN "correct"
  ELSE "error"

\* A bug: a check we stopped is read like any other.
ReadAliveAlways(lines, killed) ==
  IF Summarised(lines) THEN ReadSummary(lines) ELSE "error"

ReadAlive(lines, killed) ==
  IF Summarised(lines) THEN ReadSummary(lines)
  ELSE IF killed THEN "clock" ELSE "error"

ReadLlubi(lines, killed) ==
  IF killed THEN "clock"
  ELSE IF Says(lines, "ub") THEN "ub"
  ELSE IF Says(lines, "left") THEN "returned" ELSE "error"

\* "thrown" is a broken installation: the run ends with it.
ReadLlops(lines, killed) ==
  IF killed THEN "clock"
  ELSE IF ~Says(lines, "}") THEN "thrown"
  ELSE IF Says(lines, "ok") THEN "ok"
  ELSE IF Says(lines, "code") THEN "refused" ELSE "thrown"

\* A bug: a clock that ran out has the last word.
ReadLlrwtLate(lines, killed, code) ==
  IF killed THEN "clock" ELSE IF code = 0 THEN "ok" ELSE "parse_error"

ReadLlrwt(lines, killed, code) ==
  IF killed /\ code = Signalled THEN "clock"
  ELSE IF code = 0 THEN "ok"
  ELSE IF code = 2 /\ ~Says(lines, "unknown rule") /\ ~Says(lines, "mlir-opt") THEN "thrown"
  ELSE IF Says(lines, "unknown rule") THEN "unknown_rule"
  ELSE IF Says(lines, "mlir-opt") THEN "bridge_error"
  ELSE IF Says(lines, "verify") THEN "verify_error"
  ELSE IF Says(lines, "timed out") THEN "timeout" ELSE "parse_error"

\* The shell's output goes to the agent as it comes: only how it ended is read.
ReadShell(killed, code, aborted) ==
  IF aborted THEN "aborted"
  ELSE IF killed THEN "clock"
  ELSE IF code = Signalled THEN "died" ELSE "exit"

Read(tool, lines, killed, code, aborted) ==
  IF tool = "alive-tv" THEN ReadAlive(lines, killed)
  ELSE IF tool = "llubi" THEN ReadLlubi(lines, killed)
  ELSE IF tool = "llops" THEN ReadLlops(lines, killed)
  ELSE IF tool = "llrwt" THEN ReadLlrwt(lines, killed, code)
  ELSE ReadShell(killed, code, aborted)

\* What a call answers when its process is left alone.
Own(s) == Read(s.tool, s.says, FALSE, s.exit, FALSE)

-----------------------------------------------------------------------------
VARIABLES
  built,    \* what is installed: the LLVM each checked tool reports, whether
            \* llrwt says a version, and the translators there are
  shell,    \* the sandbox runtime: "cold", "up", or "broken" once it failed
  at,       \* "closed", "refused", "ready", "preparing", "running", "over", "gone"
  script,   \* the call made last
  child,    \* its process: "none", "alive", "told" to end, "ended", "died"
  written,  \* how many of its lines it has said
  jobs,     \* what a shell left in the background: "none", "held" (with the
            \* pipes), "loose" (without), "gone" when it was killed
  timer,    \* "off", "wanted", "armed", "fired"
  abort,    \* "no", "heard", or "unheard" when it came before the listener
  files,    \* the directory of the call: "none", "held", "left" behind
  answer    \* what the call came to, "none" until then

toolVars == <<built, shell, at, script, child, written, jobs, timer, abort, files, answer>>

Nothing == [tool |-> "none", says |-> <<>>, exit |-> 0]

Installs ==
  [llvm : [CheckedTools -> Releases \cup {"absent", "mute"}],
   rewriter : BOOLEAN, translators : SUBSET Translators]

ToolInit ==
  /\ built \in Installs
  /\ shell = "cold" /\ at = "closed" /\ script = Nothing
  /\ child = "none" /\ written = 0 /\ jobs = "none"
  /\ timer = "off" /\ abort = "no" /\ files = "none" /\ answer = "none"

Agree(b) == \A s, t \in CheckedTools : b.llvm[s] = b.llvm[t]

\* A bug: the releases are not compared.
TogetherEach(b) ==
  /\ \A t \in CheckedTools : b.llvm[t] \in Releases
  /\ b.rewriter /\ b.translators = Translators

\* Every checked tool names its LLVM, llrwt a version, the translators are
\* there, and the LLVMs named are one.
Together(b) ==
  /\ \A t \in CheckedTools : b.llvm[t] \in Releases
  /\ b.rewriter
  /\ b.translators = Translators
  /\ Agree(b)

\* Start a run, or throw before there is one.
Insist ==
  /\ at = "closed"
  /\ at' = IF Together(built) THEN "ready" ELSE "refused"
  /\ UNCHANGED <<built, shell, script, child, written, jobs, timer, abort, files, answer>>

\* A new call, with nothing left of the one before.
Fresh(s) ==
  /\ at \in {"ready", "over"}
  /\ script' = s /\ written' = 0 /\ jobs' = "none" /\ abort' = "no"
  /\ UNCHANGED built

\* A driver spawns its process and arms its clock in one go, what its question
\* is in a file or on its standard input.
Spawned(s, held) ==
  /\ Fresh(s)
  /\ at' = "running" /\ child' = "alive" /\ timer' = "armed"
  /\ files' = held /\ answer' = "none"
  /\ UNCHANGED shell

\* A bug: the call answers before its process has, and the files go with it.
AskAliveBriefly(s) == s.tool = "alive-tv" /\ Spawned(s, "none")

AskAlive(s) == s.tool = "alive-tv" /\ Spawned(s, "held")
AskLlrwt(s) == s.tool = "llrwt" /\ Spawned(s, "held")
AskLlubi(s) == s.tool = "llubi" /\ Spawned(s, "none")

\* Every subcommand of llops is one request to one process.
Requests(s) == s.tool = "llops"
AskLlops(s) == Requests(s) /\ Spawned(s, "none")

\* The process cannot be spawned: the files are removed on the way out.
SpawnFails(s) ==
  /\ s.tool \in Drivers
  /\ Fresh(s)
  /\ at' = "over" /\ child' = "none" /\ timer' = "off"
  /\ files' = "none" /\ answer' = "thrown"
  /\ UNCHANGED shell

\* The files cannot be written.  The directory is made before the try, so
\* one that was made stays.
WriteFails(s) ==
  /\ s.tool \in Filed
  /\ Fresh(s)
  /\ at' = "over" /\ child' = "none" /\ timer' = "off"
  /\ files' \in {"none", "left"} /\ answer' = "unwritten"
  /\ UNCHANGED shell

-----------------------------------------------------------------------------
(* The agent's shell. *)

\* A command waits for the sandbox, with or without a time limit.
Prepare(s, limit) ==
  /\ s.tool = "bash"
  /\ Fresh(s)
  /\ at' = "preparing" /\ child' = "none" /\ timer' = limit
  /\ files' = "none" /\ answer' = "none"
  /\ UNCHANGED shell

\* The sandbox is up: the command is spawned, its clock armed, and only now
\* is an abort listened for.
Prepared ==
  /\ at = "preparing" /\ shell # "broken"
  /\ shell' = "up" /\ at' = "running" /\ child' = "alive"
  /\ timer' = IF timer = "wanted" THEN "armed" ELSE "off"
  /\ UNCHANGED <<built, script, written, jobs, abort, files, answer>>

\* The sandbox fails, and one that failed to come up fails every command
\* after; or bash itself is not there.
PrepareFails ==
  /\ at = "preparing"
  /\ shell' \in IF shell = "cold" THEN {"broken", "up"} ELSE {shell}
  /\ at' = "over" /\ timer' = "off" /\ answer' = "thrown"
  /\ UNCHANGED <<built, script, child, written, jobs, abort, files>>

\* A bug: only the shell is killed.
ShellKilled ==
  /\ child' = IF child = "alive" THEN "died" ELSE child
  /\ UNCHANGED jobs

\* What SIGKILL to the process group of a command leaves.
GroupKilled ==
  /\ child' = IF child = "alive" THEN "died" ELSE child
  /\ jobs' = IF jobs = "none" THEN "none" ELSE "gone"

\* The agent is stopped.  A command being prepared does not hear of it.
Abort ==
  /\ script.tool = "bash" /\ abort = "no"
  /\ \/ at = "preparing" /\ abort' = "unheard" /\ UNCHANGED <<child, jobs>>
     \/ at = "running" /\ abort' = "heard" /\ GroupKilled
  /\ UNCHANGED <<built, shell, at, script, written, timer, files, answer>>

\* A command leaves a job in the background, in its group.
Forks ==
  /\ at = "running" /\ script.tool = "bash" /\ child = "alive" /\ jobs = "none"
  /\ jobs' \in {"held", "loose"}
  /\ UNCHANGED <<built, shell, at, script, child, written, timer, abort, files, answer>>

JobEnds ==
  /\ jobs \in {"held", "loose"}
  /\ jobs' = "none"
  /\ UNCHANGED <<built, shell, at, script, child, written, timer, abort, files, answer>>

-----------------------------------------------------------------------------
(* A process and its clock. *)

Lives == child \in {"alive", "told"}

Writes ==
  /\ at = "running" /\ Lives /\ written < Len(script.says)
  /\ written' = written + 1
  /\ UNCHANGED <<built, shell, at, script, child, jobs, timer, abort, files, answer>>

Exits ==
  /\ at = "running" /\ Lives /\ written = Len(script.says)
  /\ child' = "ended"
  /\ UNCHANGED <<built, shell, at, script, written, jobs, timer, abort, files, answer>>

\* It crashes, or something outside kills it.
Dies ==
  /\ at = "running" /\ Lives
  /\ child' = "died"
  /\ UNCHANGED <<built, shell, at, script, written, jobs, timer, abort, files, answer>>

\* It was told to end, and does.
Obeys ==
  /\ child = "told"
  /\ child' = "died"
  /\ UNCHANGED <<built, shell, at, script, written, jobs, timer, abort, files, answer>>

\* A bug: the clock is noted and nothing is killed.
FiresOnly ==
  /\ at = "running" /\ timer = "armed" /\ timer' = "fired"
  /\ UNCHANGED <<built, shell, at, script, child, written, jobs, abort, files, answer>>

\* The clock runs out.  llrwt is killed outright, a command with its whole
\* group; the others are told to end.  A process that ended is past killing.
Fires ==
  /\ at = "running" /\ timer = "armed"
  /\ timer' = "fired"
  /\ IF script.tool = "bash" THEN GroupKilled
     ELSE /\ child' = IF child # "alive" THEN child
                      ELSE IF script.tool = "llrwt" THEN "died" ELSE "told"
          /\ UNCHANGED jobs
  /\ UNCHANGED <<built, shell, at, script, written, abort, files, answer>>

Heard == SubSeq(script.says, 1, written)
Code == IF child = "ended" THEN script.exit ELSE Signalled

\* The process has ended and its pipes are closed: what it said is read.
Replies ==
  /\ at = "running" /\ child \in {"ended", "died"} /\ jobs # "held"
  /\ at' = "over"
  /\ answer' = Read(script.tool, Heard, timer = "fired", Code, abort # "no")
  /\ timer' = IF timer = "fired" THEN "fired" ELSE "off"
  /\ files' = "none"
  /\ UNCHANGED <<built, shell, script, child, written, jobs, abort>>

\* A bug: the run exits with its processes running.
RunExits ==
  /\ at \in {"ready", "preparing", "running", "over"} /\ at' = "gone"
  /\ UNCHANGED <<built, shell, script, child, written, jobs, timer, abort, files, answer>>

\* The run is out of time: its processes are told to end, it writes its
\* verdict and exits, and no call in flight gets to clean up.
RunEnds ==
  /\ at \in {"ready", "preparing", "running", "over"}
  /\ at' = "gone"
  /\ child' = IF child = "alive" THEN "told" ELSE child
  /\ UNCHANGED <<built, shell, script, written, jobs, timer, abort, files, answer>>

-----------------------------------------------------------------------------
Calls(s) ==
  \/ AskAlive(s) \/ AskLlrwt(s) \/ AskLlubi(s) \/ AskLlops(s)
  \/ SpawnFails(s) \/ WriteFails(s)
  \/ \E limit \in {"off", "wanted"} : Prepare(s, limit)

ToolNext ==
  \/ Insist
  \/ \E s \in Scripts : Calls(s)
  \/ Prepared \/ PrepareFails \/ Abort \/ Forks \/ JobEnds
  \/ Writes \/ Exits \/ Dies \/ Obeys \/ Fires \/ Replies \/ RunEnds

\* Timers fire, a process told to end does, and the event loop gets to a
\* process that has ended.  Nothing says that a process or a job ends by
\* itself, or that the sandbox ever comes up.
ToolFairness == WF_toolVars(Fires) /\ WF_toolVars(Obeys) /\ WF_toolVars(Replies)

ToolSpec == ToolInit /\ [][ToolNext]_toolVars /\ ToolFairness

-----------------------------------------------------------------------------
(* What a caller counts on. *)

ToolTyped ==
  /\ built \in Installs
  /\ shell \in {"cold", "up", "broken"}
  /\ at \in {"closed", "refused", "ready", "preparing", "running", "over", "gone"}
  /\ script \in Scripts \cup {Nothing}
  /\ child \in {"none", "alive", "told", "ended", "died"}
  /\ written \in 0..Len(script.says)
  /\ jobs \in {"none", "held", "loose", "gone"}
  /\ timer \in {"off", "wanted", "armed", "fired"}
  /\ abort \in {"no", "heard", "unheard"}
  /\ files \in {"none", "held", "left"}

\* A process that ended by itself is heard out: its call answers what it would
\* have with no clock at all, though the clock ran out while it ended.  Once it
\* ran out llubi and llops answer for the clock, and so does an alive-tv that
\* printed no summary (alive2.ts:144, llrwt.ts:182).
HeardOut ==
  /\ at = "over" /\ child = "ended" /\ abort = "no"
  /\ \/ script.tool = "llrwt"
     \/ script.tool = "alive-tv" /\ Summarised(script.says)
     \/ timer # "fired"
  => answer = Own(script)

\* A process the driver stopped is never taken for a broken installation, nor
\* for one that failed: it comes to nothing, or to the whole summary it had
\* printed (alive2.ts:140, llops.ts:522, llubi.ts:103).
NotBlamed ==
  at = "over" /\ child = "died" /\ timer = "fired" /\ abort = "no"
  => \/ answer = "clock"
     \/ script.tool = "alive-tv" /\ written = Len(script.says) /\ answer = Own(script)

\* The files of a call are there as long as its process may read them, and
\* none outlives a call that spawned one (alive2.ts:146, llrwt.ts:205).
FilesHeld ==
  /\ at = "running" /\ script.tool \in Filed => files = "held"
  /\ at = "over" /\ answer # "unwritten" => files = "none"

\* A command stopped by its clock or by an abort leaves no process of its
\* group behind, and none is waited for (sandbox.ts:193).
NothingLeft ==
  at \in {"running", "over"} /\ (timer = "fired" \/ abort = "heard")
  /\ script.tool = "bash"
  => child # "alive" /\ jobs \in {"none", "gone"}

\* What a call takes it gives back, and not before the call is done with it.
TidiesUp == FilesHeld /\ NothingLeft

ToolSafe == ToolTyped /\ HeardOut /\ NotBlamed /\ FilesHeld /\ NothingLeft

\* A call whose clock is armed, and a command whose abort was heard, ends.
CallsEnd ==
  at = "running" /\ (timer = "armed" \/ abort = "heard") ~> at \in {"over", "gone"}

\* No check outlives a run that is out of time (run.ts:74).
NoneOutlives == at = "gone" ~> ~Lives

\* Whatever a process does, the call that waits for it and the run that asked are rid of
\* it in the end.
RidOfInTime == CallsEnd /\ NoneOutlives

(* Refinement: a tool is an oracle. *)

\* The answers that say something of the question.
Telling == {"correct", "incorrect", "ub", "returned", "ok", "refused", "exit"}
Meaning(a) == IF a \in Telling THEN a ELSE "none"

\* Answers of tools that read a module differently would say nothing true.
HeardOf ==
  IF at \in {"closed", "refused", "ready"} THEN "idle"
  ELSE IF at = "gone" THEN "stopped"
  ELSE IF at # "over" THEN "waiting"
  ELSE IF Agree(built) THEN Meaning(answer) ELSE "mixed"

O == INSTANCE Oracle WITH
  Questions <- Scripts, Truths <- [s \in Scripts |-> Meaning(Own(s))],
  asked <- script, heard <- HeardOf

AnswersOrNone == O!OracleSpec
=============================================================================
