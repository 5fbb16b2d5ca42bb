---------------------------------- MODULE Run ----------------------------------
(***************************************************************************)
(* One run directory and the processes that work in it: trajectory.jsonl   *)
(* (core/state/trajectory.ts), the program store (core/state/store.ts),    *)
(* the two lines a session writes around each move (core/session.ts), the  *)
(* deadline and the closing of a run (core/run.ts), and the turns of the   *)
(* agent (agent/agent.ts, agent/main.ts, agent/budget.ts).                 *)
(*                                                                         *)
(* A process may be killed anywhere, in the middle of a line or of a       *)
(* program included, and another may start or resume in the directory at   *)
(* any time, the first still running or not.  The goal tree is abstracted  *)
(* to the verdict it stands at, both verdicts that settle a run to one.  The  *)
(* file is only ever appended to, so the place of a line names it, and     *)
(* stands for its sha256.                                                  *)
(***************************************************************************)
EXTENDS Integers, Sequences, SequencesExt, FiniteSetsExt

CONSTANTS Procs,     \* the processes that may work in the directory, each of them once
          MaxLines,  \* no move begins in a longer log, or in one that is broken
          MaxTurns,  \* the agent's --max-steps; no turn past it leaves the tree unsettled
          Headless,  \* the processes without a terminal, which end with the agent's loop
          Bounded,   \* those of them given --max-seconds, whose timer boundRun arms
          Eager      \* the processes that ask for the check of the root pair at once

ASSUME RunAssumption ==
  /\ MaxLines \in Nat /\ MaxTurns \in Nat \ {0}
  /\ Headless \subseteq Procs /\ Bounded \subseteq Headless /\ Eager \subseteq Procs

VARIABLES file,      \* the lines of trajectory.jsonl
          store,     \* what lies under each program's hash
          mem        \* what each process holds in memory

vars == <<file, store, mem>>

Verdicts == {"unknown", "settled"}
Programs == {"root", "next"}
Kinds == {"start", "tool_call", "tool_result", "framework", "verdict"}
Genesis == 0

(***************************************************************************)
(* Effects, and the tree they fold to.                                     *)
(***************************************************************************)
Effects == {"change", "settle"}

(* A proof or a refutation settles the run, and what changes a goal opens it again. *)
Applied(verdict, effect) == IF effect = "settle" THEN "settled" ELSE "unknown"

VerdictOf(effects) == FoldLeft(Applied, "unknown", effects)
EffectsOf(lines) == FlattenSeq([i \in DOMAIN lines |-> lines[i].effects])
Derive(lines) == VerdictOf(EffectsOf(lines))

(* The programs a line names: the pair, or the one a change put in place. *)
NamedBy(line) ==
  (IF line.kind = "start" THEN {"root"} ELSE {})
    \cup {"next" : i \in {j \in DOMAIN line.effects : line.effects[j] = "change"}}

(***************************************************************************)
(* The log.  A line and its end go to the file in one write, which a kill  *)
(* may cut short: in the middle of the line, which is then torn and no     *)
(* JSON, or before its end, which leaves it entire but not ended.  parse   *)
(* refuses a torn line, and one that does not follow the line before it,   *)
(* with the whole log.  `by` is a ghost: which process wrote the line.     *)
(***************************************************************************)
Line(p, kind, id, effects, outcome) ==
  [kind |-> kind, id |-> id, effects |-> effects, outcome |-> outcome,
   prev |-> mem[p].last, by |-> p, torn |-> FALSE, ended |-> TRUE]

(* What is no JSON says nothing to a reader. *)
Torn(line) == [line EXCEPT !.kind = "framework", !.id = 0, !.effects = <<>>,
                           !.outcome = "none", !.prev = Genesis, !.torn = TRUE]

(* A bug: a line is read wherever it stands. *)
FollowsAnything(lines, i) == TRUE

Follows(lines, i) == lines[i].prev = i - 1
Parsed(lines, i) == ~lines[i].torn /\ Follows(lines, i)
Readable(lines) == \A i \in DOMAIN lines : Parsed(lines, i)

(* The lines before the first that parse refuses. *)
Prefix(lines) ==
  LET refused == {i \in DOMAIN lines : ~Parsed(lines, i)}
  IN  IF refused = {} THEN lines ELSE SubSeq(lines, 1, Min(refused) - 1)

LastOpen == file # <<>> /\ ~Last(file).ended

(* What is appended to a line that has no end becomes part of it, and the two are no JSON. *)
Appended(line) ==
  IF LastOpen THEN [file EXCEPT ![Len(file)] = Torn(line)] ELSE Append(file, line)

(***************************************************************************)
(* The store.  A program lands under its hash by rename, so one killed     *)
(* while it is written leaves a stray .part file and nothing under the     *)
(* hash.  One that is there already is not written again.                  *)
(***************************************************************************)
Put(program) ==
  IF store[program] = "absent" THEN [store EXCEPT ![program] = "whole"] ELSE store

(* A bug: a program is written in place. *)
PutTornInPlace(program) ==
  [store EXCEPT ![program] = IF store[program] = "whole" THEN "whole" ELSE "half"]

PutCutShort(program) == store

(***************************************************************************)
(* A process.                                                              *)
(***************************************************************************)
Out(where) == [at |-> where, entries |-> <<>>, last |-> Genesis, tree |-> "unknown",
               calls |-> 0, landing |-> <<>>, turns |-> 0, closed |-> "none"]

Init == /\ file = <<>>
        /\ store = [program \in Programs |-> "absent"]
        /\ mem = [p \in Procs |-> Out("off")]

At(p, where) == mem[p].at = where

(* Session.append: the line lands in the file, and the tree is derived anew. *)
Recording(p, line) ==
  LET entries == Append(mem[p].entries, line)
  IN  [mem[p] EXCEPT !.entries = entries, !.last = Len(file) + 1,
                     !.tree = Derive(entries)]

Records(p, line, then) ==
  /\ file' = Appended(line)
  /\ mem' = [mem EXCEPT ![p] = [Recording(p, line) EXCEPT !.at = then]]

(* Session.start in a directory that holds no run. *)
Start(p) ==
  /\ At(p, "off") /\ file = <<>>
  /\ mem' = [mem EXCEPT ![p] = [Out("off") EXCEPT !.at = "starting"]]
  /\ UNCHANGED <<file, store>>

(* The pair is stored before the line that names it. *)
StorePair(p) ==
  /\ At(p, "starting")
  /\ store' = Put("root")
  /\ mem' = [mem EXCEPT ![p].at = "stored"]
  /\ UNCHANGED file

StartLine(p) == Line(p, "start", 0, <<>>, "none")
FrameworkLine(p, effects) == Line(p, "framework", 0, effects, "none")

LogStart(p) ==
  /\ At(p, "stored")
  /\ Records(p, StartLine(p), IF p \in Eager THEN "eager" ELSE "opening")
  /\ UNCHANGED store

(* The eager check of the root pair, the run's first move. *)
FirstAnswers == {<<>>, <<"settle">>}

EagerCheck(p) ==
  /\ At(p, "eager")
  /\ \E effects \in FirstAnswers : Records(p, FrameworkLine(p, effects), "opening")
  /\ UNCHANGED store

(* Session.resume replays the log, and counts its calls from nothing again. *)
Resume(p) ==
  /\ At(p, "off") /\ file # <<>> /\ Readable(file)
  /\ mem' = [mem EXCEPT ![p] = [Out("off") EXCEPT !.at = "idle", !.entries = file,
                                                  !.last = Len(file), !.tree = Derive(file)]]
  /\ UNCHANGED <<file, store>>

(***************************************************************************)
(* A move.  Most moves leave the tree alone and answer with effects; a     *)
(* strengthen lands what it certified in the tree it was given and then    *)
(* asks the checker about both halves, landing what that proves.           *)
(***************************************************************************)
InMove == {"moving", "placing", "crossing"}

BeginMove(p) ==
  /\ At(p, "idle") /\ Len(file) <= MaxLines /\ Readable(file)
  /\ mem' = [mem EXCEPT ![p].at = "moving", ![p].landing = <<>>]
  /\ UNCHANGED <<file, store>>

(* The program of a step is stored before the checker is asked of it. *)
StoreProgram(p) ==
  /\ At(p, "moving")
  /\ store' = Put("next")
  /\ mem' = [mem EXCEPT ![p].at = "placing"]
  /\ UNCHANGED file

(* Strengthen.land, while the move is still under way. *)
Lands(p, effect) ==
  mem' = [mem EXCEPT ![p].at = "crossing", ![p].landing = Append(@, effect),
                     ![p].tree = Applied(@, effect)]

LandContract(p) ==
  /\ At(p, "placing") /\ Lands(p, "change")
  /\ UNCHANGED <<file, store>>

LandCrossCheck(p) ==
  /\ At(p, "crossing") /\ mem[p].landing = <<"change">> /\ Lands(p, "settle")
  /\ UNCHANGED <<file, store>>

(* What a move may answer with when it ends where it is. *)
Answers(p) ==
  CASE At(p, "moving") -> {<<"settle">>}
    [] At(p, "placing") -> {<<"change">>}
    [] At(p, "crossing") -> {mem[p].landing}

Moves == {<<>>, <<"settle">>, <<"change">>, <<"change", "settle">>}

(* act, once the move returns, or throws and is logged with no effects. *)
EndMove(p) ==
  /\ mem[p].at \in InMove
  /\ \E effects \in Answers(p) \cup {<<>>} :
       mem' = [mem EXCEPT ![p].at = "logging", ![p].landing = effects]
  /\ UNCHANGED <<file, store>>

(* The two lines of a move, which nothing of the same process comes between. *)
CallLine(p) == Line(p, "tool_call", mem[p].calls + 1, <<>>, "none")
ResultLine(p) == Line(p, "tool_result", mem[p].calls, mem[p].landing, "none")

LogCall(p) ==
  /\ At(p, "logging")
  /\ file' = Appended(CallLine(p))
  /\ mem' = [mem EXCEPT ![p] = [Recording(p, CallLine(p)) EXCEPT !.at = "answering",
                                                                 !.calls = @ + 1]]
  /\ UNCHANGED store

LogResult(p) ==
  /\ At(p, "answering")
  /\ file' = Appended(ResultLine(p))
  /\ mem' = [mem EXCEPT ![p] = [Recording(p, ResultLine(p)) EXCEPT !.at = "idle",
                                                                   !.landing = <<>>]]
  /\ UNCHANGED store

(***************************************************************************)
(* Closing a run.                                                          *)
(***************************************************************************)
(* A bug: the verdict of the tree in memory is written. *)
FinishesInMemory(p) == mem[p].tree

(* finish reads the verdict off the log, and not off a tree in the middle of a move. *)
Outcome(p) == Derive(mem[p].entries)

VerdictLine(p) == Line(p, "verdict", 0, <<>>, Outcome(p))
Said(p) == mem[p].closed = mem[p].tree

(* finishRun, once for each verdict that the tree in memory stands at. *)
Close(p, then) ==
  LET left == IF Said(p) THEN mem[p]
              ELSE [Recording(p, VerdictLine(p)) EXCEPT !.closed = Outcome(p)]
  IN  /\ file' = IF Said(p) THEN file ELSE Appended(VerdictLine(p))
      /\ mem' = [mem EXCEPT ![p] = IF then = "gone" THEN Out("gone")
                                   ELSE [left EXCEPT !.at = then, !.landing = <<>>]]
      /\ UNCHANGED store

(* The eager check may settle the run before the model is asked anything. *)
Opening(p) ==
  /\ At(p, "opening")
  /\ IF mem[p].tree # "unknown" THEN Close(p, "gone")
     ELSE /\ mem' = [mem EXCEPT ![p].at = "idle"]
          /\ UNCHANGED <<file, store>>

(* shouldStopAfterTurn: the tree settled, the model gave up, or the budget is spent.  A turn
   that would only close the run again is left out. *)
EndTurn(p) ==
  /\ At(p, "idle")
  /\ \/ /\ ~Said(p)
        /\ \/ mem[p].tree # "unknown"
           \/ Last(mem[p].entries).kind = "tool_result" /\ Last(mem[p].entries).effects = <<>>
        /\ mem' = [mem EXCEPT ![p].at = "stopping"]
     \/ /\ mem[p].tree = "unknown" /\ mem[p].turns < MaxTurns
        /\ LET spent == mem[p].turns + 1 >= MaxTurns
           IN  mem' = [mem EXCEPT ![p].turns = @ + 1,
                                  ![p].at = IF spent THEN "spent" ELSE "idle"]
  /\ UNCHANGED <<file, store>>

NoteBudget(p) ==
  /\ At(p, "spent")
  /\ Records(p, FrameworkLine(p, <<>>), "stopping")
  /\ UNCHANGED store

(* The loop ended.  The process ends with it where it prints; the TUI waits for another turn. *)
EndLoop(p) == At(p, "stopping") /\ Close(p, IF p \in Headless THEN "gone" ELSE "idle")

(* A bug: the timer is looked at between two moves. *)
BetweenMoves == {"idle"}

(* Where the process waits for an answer, the only place another event can reach it. *)
Interruptible == {"idle"} \cup InMove

(* The deadline of boundRun, or the user of a TUI quitting: a move under way is cut short. *)
MayQuit(p) == mem[p].at \in Interruptible /\ (p \in Bounded \/ p \notin Headless)

Quit(p) == MayQuit(p) /\ Close(p, "gone")

(***************************************************************************)
(* Crashes.                                                                *)
(***************************************************************************)
Crash(p) ==
  /\ mem[p].at \notin {"off", "gone"}
  /\ mem' = [mem EXCEPT ![p] = Out("gone")]
  /\ UNCHANGED <<file, store>>

Closes(p) ==
  /\ ~Said(p)
  /\ (At(p, "opening") /\ mem[p].tree # "unknown") \/ At(p, "stopping") \/ MayQuit(p)

(* The lines a process may be writing. *)
Due(p) ==
  CASE At(p, "stored")    -> {StartLine(p)}
    [] At(p, "eager")     -> {FrameworkLine(p, effects) : effects \in FirstAnswers}
    [] At(p, "logging")   -> {CallLine(p)}
    [] At(p, "answering") -> {ResultLine(p)}
    [] At(p, "spent")     -> {FrameworkLine(p, <<>>)}
    [] Closes(p)          -> {VerdictLine(p)}
    [] OTHER              -> {}

(* A kill in the middle of a line, or between the line and its end. *)
CrashInLine(p) ==
  /\ \E line \in Due(p) : \E left \in {line, Torn(line)} :
       file' = Appended([left EXCEPT !.ended = FALSE])
  /\ mem' = [mem EXCEPT ![p] = Out("gone")]
  /\ UNCHANGED store

CrashInPut(p) ==
  /\ mem[p].at \in {"starting", "moving"}
  /\ store' = PutCutShort(IF At(p, "starting") THEN "root" ELSE "next")
  /\ mem' = [mem EXCEPT ![p] = Out("gone")]
  /\ UNCHANGED file

Next ==
  \E p \in Procs :
    \/ Start(p) \/ StorePair(p) \/ LogStart(p) \/ EagerCheck(p) \/ Opening(p) \/ Resume(p)
    \/ BeginMove(p) \/ StoreProgram(p) \/ LandContract(p) \/ LandCrossCheck(p) \/ EndMove(p)
    \/ LogCall(p) \/ LogResult(p) \/ EndTurn(p) \/ NoteBudget(p) \/ EndLoop(p)
    \/ Quit(p) \/ Crash(p) \/ CrashInLine(p) \/ CrashInPut(p)

Spec == Init /\ [][Next]_vars

(* What a process does with no answer of the checker or the model: it writes what it has to
   write, and the timer fires that bounds it.  Nothing bounds one that has no timer. *)
Runs(p) == LogCall(p) \/ LogResult(p) \/ NoteBudget(p) \/ EndLoop(p) \/ Quit(p)

RunFairness == \A p \in Bounded : WF_vars(Runs(p))

FairSpec == Spec /\ RunFairness

(***************************************************************************)
(* Properties.                                                             *)
(***************************************************************************)
(* A type invariant: the tree a process holds is the one its log derives, but for what a
   strengthen under way has landed in it (session.ts append, strengthen.ts land). *)
TypeOK ==
  /\ store \in [Programs -> {"absent", "half", "whole"}]
  /\ \A i \in DOMAIN file : file[i].kind \in Kinds /\ file[i].effects \in Moves
  /\ \A p \in Procs :
       /\ mem[p].landing \in Moves
       /\ mem[p].tree = IF At(p, "crossing") \/ At(p, "logging")
                        THEN mem[p].tree ELSE Derive(mem[p].entries)

(* Every program that a line of the log names lies whole in the store, whenever the process
   that stored it was killed (session.ts start, store.ts put). *)
NamedIsStored ==
  \A i \in DOMAIN file : \A program \in NamedBy(file[i]) : store[program] = "whole"

(* In a log that parses, a result comes right after the call it answers, of the same process:
   that sessions after a resume give their calls the same ids, that a crash leaves a call with
   no result, and that two processes write at once, never pairs a result with the call of
   another (trajectory.ts parse, session.ts logged). *)
ResultsPaired ==
  LET lines == Prefix(file) IN
  \A i \in DOMAIN lines : lines[i].kind = "tool_result" =>
    /\ i > 1 /\ lines[i - 1].kind = "tool_call"
    /\ lines[i - 1].id = lines[i].id /\ lines[i - 1].by = lines[i].by

(* The directory keeps its promise through every crash, deadline and second process: each move
   lands whole or not at all, each verdict says what landed before it, and nothing is lost but
   what the last line says, if it had no end when more was appended to it (session.ts act,
   finish; trajectory.ts append, parse). *)
SaidOf(lines) ==
  {<<Len(EffectsOf(SubSeq(lines, 1, i))), lines[i].outcome>> :
     i \in {j \in DOMAIN lines : lines[j].kind = "verdict"}}

Held == IF ~Readable(file) THEN "broken" ELSE IF LastOpen THEN "hanging" ELSE "open"

Promise == INSTANCE RunPromise
  WITH landed <- EffectsOf(Prefix(file)), said <- SaidOf(Prefix(file)), held <- Held

KeepsPromise == Promise!Spec

(* A process with a deadline ends, in the middle of a move that never answers too (run.ts
   boundRun). *)
Ends == \A p \in Bounded : mem[p].at \in InMove ~> At(p, "gone")

(* A process that read a log, and is alone in appending to it since, continues its chain, as
   the constructor of Trajectory says that every one does that finds lines (trajectory.ts
   258-260).  It does not where the last line it found has no end. *)
ContinuesChain ==
  [][\A p \in Procs :
       /\ Readable(file) /\ mem[p].last = Len(file)
       /\ file' # file /\ mem'[p] # mem[p] /\ ~At(p, "gone")'
       => Readable(file')]_vars

=============================================================================
