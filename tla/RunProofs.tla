------------------------------- MODULE RunProofs -------------------------------
(***************************************************************************)
(* What a run directory keeps, proved for any number of processes, of      *)
(* lines and of turns.                                                     *)
(***************************************************************************)
EXTENDS Run, FlattenProofs

-----------------------------------------------------------------------------
(* Types, and what a step of a process may be.                             *)

Ats == {"off", "starting", "stored", "eager", "opening", "idle", "moving", "placing",
        "crossing", "logging", "answering", "spent", "stopping", "gone"}

Outcomes == {"none"} \cup {VerdictOf(effects) : effects \in Seq(Effects)}

Lines == [kind : Kinds, id : Nat, effects : Moves, outcome : Outcomes, prev : Nat,
          by : Procs, torn : BOOLEAN, ended : BOOLEAN]

Memories == [at : Ats, entries : Seq(Lines), last : Nat, tree : Verdicts \cup Outcomes,
             calls : Nat, landing : Moves, turns : Nat, closed : Verdicts \cup Outcomes]

Typed == /\ file \in Seq(Lines)
         /\ store \in [Programs -> {"absent", "whole"}]
         /\ mem \in [Procs -> Memories]

(* What a move under way has landed, by where it is. *)
LandingIs ==
  \A p \in Procs : /\ mem[p].at \in {"moving", "placing"} => mem[p].landing = <<>>
                   /\ At(p, "crossing") =>
                        mem[p].landing \in {<<"change">>, <<"change", "settle">>}

(* Where a process may stand after a step: its log kept, let go, or read from the file. *)
LogKept(p) == mem'[p].entries = mem[p].entries /\ mem'[p].last = mem[p].last
LogLeft(p) == mem'[p].entries = <<>> /\ mem'[p].last = Genesis
LogRead(p) == Readable(file) /\ mem'[p].entries = file /\ mem'[p].last = Len(file)
LogGrown(p, line) ==
  mem'[p].entries = Append(mem[p].entries, line) /\ mem'[p].last = Len(file) + 1

(* The line a process writes follows the last it knows of, and says what it holds. *)
Ours(p, line) ==
  /\ ~line.torn /\ line.prev = mem[p].last /\ line.by = p
  /\ line.kind = "start" => At(p, "stored")
  /\ line.kind = "tool_result" =>
       At(p, "answering") /\ line.id = mem[p].calls /\ line.effects = mem[p].landing
  /\ line.kind # "tool_result" => \A i \in DOMAIN line.effects : line.effects[i] # "change"
  /\ line.kind = "verdict" => line.effects = <<>> /\ line.outcome = Derive(mem[p].entries)

(* Every line a step may write: one of its own, with its end or not, or the start of one. *)
Writing(p) ==
  \E line \in Lines :
    /\ file' = Appended(line)
    /\ \/ /\ line.torn /\ line.kind = "framework" /\ line.effects = <<>>
          /\ LogLeft(p) /\ mem'[p].at = "gone"
       \/ /\ Ours(p, line)
          /\ LogLeft(p) \/ LogGrown(p, line)
          /\ mem'[p].at = "answering" =>
               LogGrown(p, line) /\ line.kind = "tool_call" /\ line.id = mem'[p].calls

(* A step of p leaves what the others hold alone, and writes one line or none. *)
StepOf(p) ==
  /\ \A q \in Procs \ {p} : mem'[q] = mem[q]
  /\ \/ /\ file' = file /\ mem'[p].at # "answering"
        /\ LogKept(p) \/ LogLeft(p) \/ LogRead(p)
     \/ Writing(p)

\* The effects of a log are effects, and those of a line that is added come after them.
LEMMA EffectsOfAppend ==
  ASSUME NEW lines \in Seq(Lines), NEW line \in Lines
  PROVE  /\ EffectsOf(lines) \in Seq(Effects)
         /\ EffectsOf(Append(lines, line)) = EffectsOf(lines) \o line.effects
<1> DEFINE s == [i \in DOMAIN lines |-> lines[i].effects]
           t == [i \in DOMAIN Append(lines, line) |-> Append(lines, line)[i].effects]
<1>1. Moves \subseteq Seq(Effects)
  BY DEF Moves, Effects
<1>2. s \in Seq(Seq(Effects)) /\ line.effects \in Seq(Effects) /\ Len(s) = Len(lines)
  <2>1. \A l \in Lines : l.effects \in Seq(Effects)
    BY <1>1 DEF Lines
  <2>2. \A i \in 1..Len(lines) : lines[i] \in Lines
    OBVIOUS
  <2>3. \A i \in 1..Len(lines) : lines[i].effects \in Seq(Effects)
    BY <2>1, <2>2
  <2>4. s = [i \in 1..Len(lines) |-> lines[i].effects] /\ Len(lines) \in Nat
    OBVIOUS
  <2> QED BY <2>1, <2>3, <2>4, IsASeq, LenProperties
<1>3. t = Append(s, line.effects)
  <2>1. /\ Append(lines, line) \in Seq(Lines)
        /\ Len(Append(lines, line)) = Len(lines) + 1
        /\ \A i \in 1..Len(lines) : Append(lines, line)[i] = lines[i]
        /\ Append(lines, line)[Len(lines) + 1] = line
    BY AppendProperties
  <2>2. t \in Seq(Seq(Effects)) /\ Len(t) = Len(lines) + 1
    <3>1. \A l \in Lines : l.effects \in Seq(Effects)
      BY <1>1 DEF Lines
    <3> DEFINE u == Append(lines, line)
    <3>2. \A i \in 1..Len(u) : u[i] \in Lines
      BY <2>1
    <3>3. \A i \in 1..Len(u) : u[i].effects \in Seq(Effects)
      BY <3>1, <3>2
    <3>4. t = [i \in 1..Len(u) |-> u[i].effects] /\ Len(u) \in Nat
      BY <2>1
    <3> HIDE DEF u
    <3> QED BY <2>1, <3>3, <3>4, IsASeq, LenProperties DEF u
  <2>3. /\ Append(s, line.effects) \in Seq(Seq(Effects))
        /\ Len(Append(s, line.effects)) = Len(lines) + 1
        /\ \A i \in 1..Len(lines) : Append(s, line.effects)[i] = s[i]
        /\ Append(s, line.effects)[Len(lines) + 1] = line.effects
    BY <1>2, AppendProperties
  <2>4. \A i \in 1..(Len(lines) + 1) : t[i] = Append(s, line.effects)[i]
    <3> HIDE DEF s
    <3> TAKE i \in 1..(Len(lines) + 1)
    <3>1. CASE i = Len(lines) + 1
      BY <2>1, <2>3, <3>1
    <3>2. CASE i # Len(lines) + 1
      <4>1. i \in 1..Len(lines)
        BY <3>2
      <4> QED BY <2>1, <2>3, <4>1 DEF s
    <3> QED BY <3>1, <3>2
  <2> HIDE DEF s, t
  <2> QED BY <2>2, <2>3, <2>4, SeqEqual
<1> HIDE DEF s, t
<1>4. FlattenSeq(s) \in Seq(Effects) /\ FlattenSeq(t) = FlattenSeq(s) \o line.effects
  BY <1>2, <1>3, FlattenAppend
<1> QED
  BY <1>4 DEF EffectsOf, s, t

\* What a log comes to is an outcome.
LEMMA DeriveIs ==
  ASSUME NEW lines \in Seq(Lines), Procs # {}
  PROVE  Derive(lines) \in Outcomes
<1>1. PICK p \in Procs : TRUE
  OBVIOUS
<1>2. [kind |-> "framework", id |-> 0, effects |-> <<>>, outcome |-> "none", prev |-> 0,
       by |-> p, torn |-> FALSE, ended |-> TRUE] \in Lines
  BY DEF Lines, Kinds, Moves, Outcomes
<1>3. EffectsOf(lines) \in Seq(Effects)
  BY <1>2, EffectsOfAppend
<1> QED
  BY <1>3 DEF Derive, Outcomes

(* What every step keeps, and what it is. *)
Types == Typed /\ LandingIs
Steps(p) == Types' /\ StepOf(p)

\* A step that changes nothing but what a process holds.
LEMMA MemoryStep ==
  ASSUME Types, NEW p \in Procs, NEW m \in Memories,
         mem' = [mem EXCEPT ![p] = m],
         m.at \in {"moving", "placing"} => m.landing = <<>>,
         m.at = "crossing" => m.landing \in {<<"change">>, <<"change", "settle">>}
  PROVE  /\ mem' \in [Procs -> Memories] /\ mem'[p] = m
         /\ \A q \in Procs \ {p} : mem'[q] = mem[q]
         /\ LandingIs'
<1>1. mem \in [Procs -> Memories]
  BY DEF Types, Typed
<1>2. mem' \in [Procs -> Memories] /\ mem'[p] = m /\ \A q \in Procs \ {p} : mem'[q] = mem[q]
  BY <1>1
<1>3. \A q \in Procs :
        /\ mem'[q].at \in {"moving", "placing"} => mem'[q].landing = <<>>
        /\ mem'[q].at = "crossing" => mem'[q].landing \in {<<"change">>, <<"change", "settle">>}
  BY <1>2 DEF Types, LandingIs, At
<1> QED
  BY <1>2, <1>3 DEF LandingIs, At

\* A quiet step: the file stays, and what was put in the store is whole.
LEMMA QuietStep ==
  ASSUME Types, NEW p \in Procs, NEW m \in Memories,
         file' = file, store' \in [Programs -> {"absent", "whole"}],
         mem' = [mem EXCEPT ![p] = m],
         m.at \in {"moving", "placing"} => m.landing = <<>>,
         m.at = "crossing" => m.landing \in {<<"change">>, <<"change", "settle">>},
         m.at # "answering",
         \/ m.entries = mem[p].entries /\ m.last = mem[p].last
         \/ m.entries = <<>> /\ m.last = Genesis
         \/ Readable(file) /\ m.entries = file /\ m.last = Len(file)
  PROVE  Steps(p)
<1>1. /\ mem' \in [Procs -> Memories] /\ mem'[p] = m
      /\ \A q \in Procs \ {p} : mem'[q] = mem[q]
      /\ LandingIs'
  BY MemoryStep
<1>2. Typed'
  BY <1>1 DEF Types, Typed
<1>3. LogKept(p) \/ LogLeft(p) \/ LogRead(p)
  BY <1>1 DEF LogKept, LogLeft, LogRead
<1> QED
  BY <1>1, <1>2, <1>3 DEF Steps, StepOf, Types

\* A line that is no JSON says nothing, and names nothing.
LEMMA TornIs ==
  ASSUME NEW line \in Lines
  PROVE  /\ Torn(line) \in Lines /\ Torn(line).torn /\ Torn(line).kind = "framework"
         /\ Torn(line).effects = <<>>
BY DEF Torn, Lines, Kinds, Moves, Outcomes, Genesis

\* What the file is once a line was added to it: one line longer, or torn where it was open.
LEMMA AppendedIs ==
  ASSUME file \in Seq(Lines), NEW line \in Lines
  PROVE  /\ Appended(line) \in Seq(Lines)
         /\ ~LastOpen => Appended(line) = Append(file, line)
         /\ LastOpen => /\ Len(file) \in 1..Len(file) /\ Len(Appended(line)) = Len(file)
                        /\ Appended(line)[Len(file)] = Torn(line)
                        /\ \A i \in 1..(Len(file) - 1) : Appended(line)[i] = file[i]
<1>1. CASE ~LastOpen
  BY <1>1, AppendProperties DEF Appended
<1>2. CASE LastOpen
  <2> DEFINE n == Len(file)
             longer == [i \in 1..n |-> IF i = n THEN Torn(line) ELSE file[i]]
  <2>1. file # <<>> /\ n \in 1..n
    BY <1>2 DEF LastOpen
  <2>2. Appended(line) = longer
    <3>1. Appended(line) = [file EXCEPT ![n] = Torn(line)]
      BY <1>2 DEF Appended
    <3>2. DOMAIN file = 1..n
      OBVIOUS
    <3> QED BY <3>1, <3>2
  <2>3. \A i \in 1..n : longer[i] \in Lines
    BY TornIs
  <2>4. longer \in Seq(Lines) /\ Len(longer) = n
    <3>1. n \in Nat
      OBVIOUS
    <3> QED BY <2>3, <3>1, IsASeq, LenProperties
  <2> QED BY <1>2, <2>1, <2>2, <2>4
<1> QED
  BY <1>1, <1>2

\* A step that writes a line of its own.
LEMMA WritingStep ==
  ASSUME Types, NEW p \in Procs, NEW m \in Memories, NEW line \in Lines,
         file' = Appended(line), store' = store,
         mem' = [mem EXCEPT ![p] = m],
         m.at \notin {"moving", "placing", "crossing"},
         \/ /\ line.torn /\ line.kind = "framework" /\ line.effects = <<>>
            /\ m.entries = <<>> /\ m.last = Genesis /\ m.at = "gone"
         \/ /\ Ours(p, line)
            /\ \/ m.entries = <<>> /\ m.last = Genesis
               \/ m.entries = Append(mem[p].entries, line) /\ m.last = Len(file) + 1
            /\ m.at = "answering" =>
                 /\ m.entries = Append(mem[p].entries, line) /\ m.last = Len(file) + 1
                 /\ line.kind = "tool_call" /\ line.id = m.calls
  PROVE  Steps(p)
<1>1. /\ mem' \in [Procs -> Memories] /\ mem'[p] = m
      /\ \A q \in Procs \ {p} : mem'[q] = mem[q]
      /\ LandingIs'
  BY MemoryStep
<1>2. file' \in Seq(Lines)
  BY AppendedIs DEF Types, Typed
<1>3. Typed'
  BY <1>1, <1>2 DEF Types, Typed
<1>4. Writing(p)
  BY <1>1 DEF Writing, LogLeft, LogGrown
<1> QED
  BY <1>1, <1>3, <1>4 DEF Steps, StepOf, Types

\* What a process holds once it has written a line.
LEMMA RecordingIs ==
  ASSUME Types, NEW p \in Procs, NEW line \in Lines
  PROVE  /\ Recording(p, line) \in Memories
         /\ Recording(p, line).entries = Append(mem[p].entries, line)
         /\ Recording(p, line).last = Len(file) + 1
         /\ Recording(p, line).calls = mem[p].calls
         /\ Derive(mem[p].entries) \in Outcomes
<1>1. mem[p] \in Memories /\ file \in Seq(Lines)
  BY DEF Types, Typed
<1>2. mem[p].entries \in Seq(Lines)
  BY <1>1 DEF Memories
<1>3. Append(mem[p].entries, line) \in Seq(Lines) /\ Len(file) + 1 \in Nat
  BY <1>1, <1>2, AppendProperties
<1>4. Derive(Append(mem[p].entries, line)) \in Outcomes /\ Derive(mem[p].entries) \in Outcomes
  BY <1>2, <1>3, DeriveIs
<1> QED
  BY <1>1, <1>3, <1>4 DEF Recording, Memories

\* A line as a process writes it.
LEMMA LineIs ==
  ASSUME Types, NEW p \in Procs, NEW kind \in Kinds, NEW id \in Nat, NEW effects \in Moves,
         NEW outcome \in Outcomes
  PROVE  /\ Line(p, kind, id, effects, outcome) \in Lines
         /\ Line(p, kind, id, effects, outcome).kind = kind
         /\ Line(p, kind, id, effects, outcome).id = id
         /\ Line(p, kind, id, effects, outcome).effects = effects
         /\ Line(p, kind, id, effects, outcome).outcome = outcome
         /\ Line(p, kind, id, effects, outcome).prev = mem[p].last
         /\ Line(p, kind, id, effects, outcome).by = p
         /\ ~Line(p, kind, id, effects, outcome).torn
<1>1. mem[p].last \in Nat
  BY DEF Types, Typed, Memories
<1> QED
  BY <1>1 DEF Line, Lines

\* The kinds, effects and outcomes that lines are written with.
LEMMA WrittenWith ==
  /\ "start" \in Kinds /\ "tool_call" \in Kinds /\ "tool_result" \in Kinds
  /\ "framework" \in Kinds /\ "verdict" \in Kinds
  /\ <<>> \in Moves /\ <<"settle">> \in Moves /\ "none" \in Outcomes /\ 0 \in Nat
BY DEF Kinds, Moves, Outcomes

\* What a process holds, with some of it replaced.
LEMMA MemoriesWith ==
  ASSUME NEW m \in Memories, NEW where \in Ats
  PROVE  /\ [m EXCEPT !.at = where] \in Memories
         /\ [m EXCEPT !.at = where].at = where
         /\ [m EXCEPT !.at = where].entries = m.entries
         /\ [m EXCEPT !.at = where].last = m.last
         /\ [m EXCEPT !.at = where].calls = m.calls
BY DEF Memories

\* A process that is out holds nothing.
LEMMA OutIs ==
  ASSUME NEW where \in Ats
  PROVE  /\ Out(where) \in Memories /\ Out(where).at = where
         /\ Out(where).entries = <<>> /\ Out(where).last = Genesis
         /\ Out(where).landing = <<>>
BY DEF Out, Memories, Verdicts, Outcomes, Moves, Genesis

-----------------------------------------------------------------------------
(* The steps, one by one.                                                  *)

\* The first lines of a run keep the types.
LEMMA OpeningSteps ==
  ASSUME Types, NEW p \in Procs,
         Start(p) \/ StorePair(p) \/ LogStart(p) \/ EagerCheck(p) \/ Resume(p)
  PROVE  Steps(p)
<1>0. mem \in [Procs -> Memories] /\ mem[p] \in Memories /\ file \in Seq(Lines)
        /\ store \in [Programs -> {"absent", "whole"}]
  BY DEF Types, Typed
<1>1. CASE Start(p)
  <2>1. Out("off") \in Memories /\ Out("off").entries = <<>> /\ Out("off").last = Genesis
    BY OutIs DEF Ats
  <2> DEFINE m == [Out("off") EXCEPT !.at = "starting"]
  <2>2. m \in Memories /\ m.at = "starting" /\ m.entries = <<>> /\ m.last = Genesis
    BY <2>1 DEF Memories, Ats
  <2>3. mem' = [mem EXCEPT ![p] = m] /\ file' = file /\ store' = store
    BY <1>1 DEF Start
  <2> HIDE DEF m
  <2> QED BY <1>0, <2>2, <2>3, QuietStep
<1>2. CASE StorePair(p)
  <2> DEFINE m == [mem[p] EXCEPT !.at = "stored"]
  <2>1. m \in Memories /\ m.at = "stored" /\ m.entries = mem[p].entries /\ m.last = mem[p].last
    BY <1>0 DEF Memories, Ats
  <2>2. mem' = [mem EXCEPT ![p] = m] /\ file' = file
    BY <1>2 DEF StorePair
  <2>3. store' \in [Programs -> {"absent", "whole"}]
    BY <1>0, <1>2 DEF StorePair, Put
  <2> HIDE DEF m
  <2> QED BY <2>1, <2>2, <2>3, QuietStep
<1>3. CASE LogStart(p)
  <2> DEFINE line == StartLine(p)
             then == IF p \in Eager THEN "eager" ELSE "opening"
             m == [Recording(p, line) EXCEPT !.at = then]
  <2>1. /\ line \in Lines /\ line.kind = "start" /\ line.effects = <<>> /\ ~line.torn
        /\ line.prev = mem[p].last /\ line.by = p
    BY LineIs, WrittenWith DEF StartLine
  <2>0. then \in {"eager", "opening"}
    OBVIOUS
  <2>3. mem' = [mem EXCEPT ![p] = m] /\ file' = Appended(line) /\ store' = store
    BY <1>3 DEF LogStart, Records
  <2> HIDE DEF line, then
  <2>2. /\ m \in Memories /\ m.at = then /\ m.entries = Append(mem[p].entries, line)
        /\ m.last = Len(file) + 1
    <3>1. /\ Recording(p, line) \in Memories
          /\ Recording(p, line).entries = Append(mem[p].entries, line)
          /\ Recording(p, line).last = Len(file) + 1
      BY <2>1, RecordingIs
    <3>2. then \in Ats
      BY <2>0 DEF Ats
    <3> QED BY <3>1, <3>2, MemoriesWith, ZenonT(60)
  <2>4. Ours(p, line)
    BY <1>3, <2>1 DEF LogStart, Ours
  <2> HIDE DEF m
  <2> QED BY <2>0, <2>1, <2>2, <2>3, <2>4, WritingStep
<1>4. CASE EagerCheck(p)
  <2>0. PICK effects \in {<<>>, <<"settle">>} :
          Records(p, FrameworkLine(p, effects), "opening")
    BY <1>4 DEF EagerCheck, FirstAnswers
  <2> DEFINE line == FrameworkLine(p, effects)
             m == [Recording(p, line) EXCEPT !.at = "opening"]
  <2>1. /\ line \in Lines /\ line.kind = "framework" /\ line.effects = effects /\ ~line.torn
        /\ line.prev = mem[p].last /\ line.by = p
    <3>1. line = Line(p, "framework", 0, effects, "none") /\ effects \in Moves
      BY WrittenWith DEF FrameworkLine
    <3>2. "framework" \in Kinds /\ 0 \in Nat /\ "none" \in Outcomes
      BY WrittenWith
    <3> DEFINE other == Line(p, "framework", 0, effects, "none")
    <3>3. /\ other \in Lines /\ other.kind = "framework" /\ other.effects = effects
          /\ ~other.torn /\ other.prev = mem[p].last /\ other.by = p
      BY <3>1, <3>2, LineIs
    <3> HIDE DEF line, other
    <3> QED BY <3>1, <3>3 DEF other
  <2> HIDE DEF line
  <2>2. /\ m \in Memories /\ m.at = "opening" /\ m.entries = Append(mem[p].entries, line)
        /\ m.last = Len(file) + 1
    <3>1. /\ Recording(p, line) \in Memories
          /\ Recording(p, line).entries = Append(mem[p].entries, line)
          /\ Recording(p, line).last = Len(file) + 1
      BY <2>1, RecordingIs
    <3> QED BY <3>1, MemoriesWith, ZenonT(60) DEF Ats
  <2>3. mem' = [mem EXCEPT ![p] = m] /\ file' = Appended(line) /\ store' = store
    BY <1>4, <2>0 DEF EagerCheck, Records, line
  <2>4. Ours(p, line)
    BY <2>1 DEF Ours
  <2> HIDE DEF m
  <2> QED BY <2>1, <2>2, <2>3, <2>4, WritingStep
<1>5. CASE Resume(p)
  <2> DEFINE m == [Out("off") EXCEPT !.at = "idle", !.entries = file,
                                     !.last = Len(file), !.tree = Derive(file)]
  <2>1. Out("off") \in Memories
    BY OutIs DEF Ats
  <2>2. Derive(file) \in Outcomes
    BY <1>0, DeriveIs
  <2>3. m \in Memories /\ m.at = "idle" /\ m.entries = file /\ m.last = Len(file)
    <3>1. Len(file) \in Nat /\ "idle" \in Ats /\ Derive(file) \in Verdicts \cup Outcomes
      BY <1>0, <2>2 DEF Ats
    <3> QED BY <1>0, <2>1, <3>1 DEF Memories
  <2>4. mem' = [mem EXCEPT ![p] = m] /\ file' = file /\ store' = store /\ Readable(file)
    BY <1>5 DEF Resume
  <2> HIDE DEF m
  <2> QED BY <1>0, <2>3, <2>4, QuietStep
<1> QED
  BY <1>1, <1>2, <1>3, <1>4, <1>5

\* A move keeps the types until it is logged.
LEMMA MoveSteps ==
  ASSUME Types, NEW p \in Procs,
         \/ BeginMove(p) \/ StoreProgram(p) \/ LandContract(p) \/ LandCrossCheck(p)
         \/ EndMove(p)
  PROVE  Steps(p)
<1>0. mem \in [Procs -> Memories] /\ mem[p] \in Memories /\ file \in Seq(Lines)
        /\ store \in [Programs -> {"absent", "whole"}]
  BY DEF Types, Typed
<1>1. CASE BeginMove(p)
  <2> DEFINE m == [mem[p] EXCEPT !.at = "moving", !.landing = <<>>]
  <2>1. /\ m \in Memories /\ m.at = "moving" /\ m.entries = mem[p].entries
        /\ m.last = mem[p].last /\ m.landing = <<>>
    BY <1>0 DEF Memories, Ats, Moves
  <2>2. mem' = [mem EXCEPT ![p] = m] /\ file' = file /\ store' = store
    BY <1>0, <1>1 DEF BeginMove, Memories
  <2> HIDE DEF m
  <2> QED BY <1>0, <2>1, <2>2, QuietStep
<1>2. CASE StoreProgram(p)
  <2> DEFINE m == [mem[p] EXCEPT !.at = "placing"]
  <2>1. /\ m \in Memories /\ m.at = "placing" /\ m.entries = mem[p].entries
        /\ m.last = mem[p].last /\ m.landing = <<>>
    BY <1>0, <1>2 DEF Memories, Ats, StoreProgram, Types, LandingIs, At
  <2>2. mem' = [mem EXCEPT ![p] = m] /\ file' = file
    BY <1>2 DEF StoreProgram
  <2>3. store' \in [Programs -> {"absent", "whole"}]
    BY <1>0, <1>2 DEF StoreProgram, Put
  <2> HIDE DEF m
  <2> QED BY <2>1, <2>2, <2>3, QuietStep
<1>3. CASE LandContract(p) \/ LandCrossCheck(p)
  <2>1. PICK effect : /\ Lands(p, effect) /\ file' = file /\ store' = store
                      /\ Append(mem[p].landing, effect) \in {<<"change">>, <<"change", "settle">>}
    <3>1. CASE LandContract(p)
      <4>1. mem[p].landing = <<>>
        BY <3>1 DEF LandContract, Types, LandingIs, At
      <4>2. Append(mem[p].landing, "change") = <<"change">>
        BY <4>1
      <4> QED BY <3>1, <4>2 DEF LandContract
    <3>2. CASE LandCrossCheck(p)
      <4>1. Append(mem[p].landing, "settle") = <<"change", "settle">>
        <5>1. mem[p].landing = <<"change">>
          BY <3>2 DEF LandCrossCheck
        <5>2. Append(<<"change">>, "settle") = <<"change", "settle">>
          <6> DEFINE l == Append(<<"change">>, "settle")
          <6>1. <<"change">> \in Seq(Effects) /\ "settle" \in Effects
            BY DEF Effects
          <6>2. l \in Seq(Effects) /\ Len(l) = 2 /\ l[1] = "change" /\ l[2] = "settle"
            BY <6>1, AppendProperties
          <6> HIDE DEF l
          <6>3. <<"change", "settle">> \in Seq(Effects)
            BY DEF Effects
          <6>4. l = <<"change", "settle">>
            BY <6>2, <6>3, SeqEqual
          <6> QED BY <6>4 DEF l
        <5> QED BY <5>1, <5>2
      <4> QED BY <3>2, <4>1 DEF LandCrossCheck
    <3> QED BY <1>3, <3>1, <3>2
  <2> DEFINE m == [mem[p] EXCEPT !.at = "crossing", !.landing = Append(mem[p].landing, effect),
                                 !.tree = Applied(mem[p].tree, effect)]
  <2>2. Applied(mem[p].tree, effect) \in Verdicts
    BY DEF Applied, Verdicts
  <2>3. /\ m \in Memories /\ m.at = "crossing" /\ m.entries = mem[p].entries
        /\ m.last = mem[p].last /\ m.landing \in {<<"change">>, <<"change", "settle">>}
    BY <1>0, <2>1, <2>2 DEF Memories, Ats, Moves
  <2>4. mem' = [mem EXCEPT ![p] = m]
    BY <1>0, <2>1 DEF Lands, Memories
  <2> HIDE DEF m
  <2> QED BY <1>0, <2>1, <2>3, <2>4, QuietStep
<1>4. CASE EndMove(p)
  <2>1. PICK effects \in Answers(p) \cup {<<>>} :
          mem' = [mem EXCEPT ![p].at = "logging", ![p].landing = effects]
    BY <1>4 DEF EndMove
  <2>2. effects \in Moves
    BY <1>0, <1>4, <2>1 DEF EndMove, InMove, Answers, At, Moves, Memories
  <2> DEFINE m == [mem[p] EXCEPT !.at = "logging", !.landing = effects]
  <2>3. /\ m \in Memories /\ m.at = "logging" /\ m.entries = mem[p].entries
        /\ m.last = mem[p].last
    BY <1>0, <2>2 DEF Memories, Ats
  <2>4. mem' = [mem EXCEPT ![p] = m] /\ file' = file /\ store' = store
    BY <1>0, <1>4, <2>1 DEF EndMove, Memories
  <2> HIDE DEF m
  <2> QED BY <1>0, <2>3, <2>4, QuietStep
<1> QED
  BY <1>1, <1>2, <1>3, <1>4

\* The two lines of a move, and the other lines of a turn, keep the types.
LEMMA LoggingSteps ==
  ASSUME Types, NEW p \in Procs, LogCall(p) \/ LogResult(p) \/ NoteBudget(p)
  PROVE  Steps(p)
<1>0. mem \in [Procs -> Memories] /\ mem[p] \in Memories /\ mem[p].calls \in Nat
        /\ mem[p].landing \in Moves
  BY DEF Types, Typed, Memories
<1>1. CASE LogCall(p)
  <2> DEFINE id == mem[p].calls + 1
             line == CallLine(p)
             m == [Recording(p, line) EXCEPT !.at = "answering", !.calls = id]
  <2>0. id \in Nat
    BY <1>0
  <2>1. /\ line \in Lines /\ line.kind = "tool_call" /\ line.effects = <<>> /\ ~line.torn
        /\ line.prev = mem[p].last /\ line.by = p /\ line.id = id
    <3>1. line = Line(p, "tool_call", id, <<>>, "none")
      BY DEF CallLine
    <3> HIDE DEF id, line
    <3> QED BY <2>0, <3>1, LineIs, WrittenWith
  <2>2. mem' = [mem EXCEPT ![p] = m] /\ file' = Appended(line) /\ store' = store
    <3>1. Recording(p, line).calls = mem[p].calls
      BY <2>1, RecordingIs
    <3> HIDE DEF line
    <3> QED BY <1>1, <3>1 DEF LogCall, line
  <2> HIDE DEF id, line
  <2>3. /\ Recording(p, line) \in Memories
        /\ Recording(p, line).entries = Append(mem[p].entries, line)
        /\ Recording(p, line).last = Len(file) + 1
    BY <2>1, RecordingIs
  <2>4. /\ m \in Memories /\ m.at = "answering" /\ m.entries = Append(mem[p].entries, line)
        /\ m.last = Len(file) + 1 /\ m.calls = id
    BY <2>0, <2>3 DEF Memories, Ats
  <2>5. Ours(p, line)
    BY <2>1 DEF Ours
  <2> HIDE DEF m
  <2> QED BY <2>1, <2>2, <2>4, <2>5, WritingStep
<1>2. CASE LogResult(p)
  <2> DEFINE line == ResultLine(p)
             m == [Recording(p, line) EXCEPT !.at = "idle", !.landing = <<>>]
  <2>1. /\ line \in Lines /\ line.kind = "tool_result" /\ line.effects = mem[p].landing
        /\ ~line.torn /\ line.prev = mem[p].last /\ line.by = p /\ line.id = mem[p].calls
    BY <1>0, LineIs, WrittenWith DEF ResultLine
  <2>2. mem' = [mem EXCEPT ![p] = m] /\ file' = Appended(line) /\ store' = store
    BY <1>2 DEF LogResult
  <2>5. Ours(p, line)
    BY <1>2, <2>1 DEF Ours, LogResult
  <2> HIDE DEF line
  <2>3. /\ Recording(p, line) \in Memories
        /\ Recording(p, line).entries = Append(mem[p].entries, line)
        /\ Recording(p, line).last = Len(file) + 1
    BY <2>1, RecordingIs
  <2>4. /\ m \in Memories /\ m.at = "idle" /\ m.entries = Append(mem[p].entries, line)
        /\ m.last = Len(file) + 1
    BY <2>3, WrittenWith DEF Memories, Ats
  <2> HIDE DEF m
  <2> QED BY <2>1, <2>2, <2>4, <2>5, WritingStep
<1>3. CASE NoteBudget(p)
  <2> DEFINE line == FrameworkLine(p, <<>>)
             m == [Recording(p, line) EXCEPT !.at = "stopping"]
  <2>1. /\ line \in Lines /\ line.kind = "framework" /\ line.effects = <<>> /\ ~line.torn
        /\ line.prev = mem[p].last /\ line.by = p
    BY LineIs, WrittenWith DEF FrameworkLine
  <2>2. mem' = [mem EXCEPT ![p] = m] /\ file' = Appended(line) /\ store' = store
    BY <1>3 DEF NoteBudget, Records
  <2> HIDE DEF line
  <2>3. /\ Recording(p, line) \in Memories
        /\ Recording(p, line).entries = Append(mem[p].entries, line)
        /\ Recording(p, line).last = Len(file) + 1
    BY <2>1, RecordingIs
  <2>4. /\ m \in Memories /\ m.at = "stopping" /\ m.entries = Append(mem[p].entries, line)
        /\ m.last = Len(file) + 1
    BY <2>3, MemoriesWith DEF Ats
  <2>5. Ours(p, line)
    BY <2>1 DEF Ours
  <2> HIDE DEF m
  <2> QED BY <2>1, <2>2, <2>4, <2>5, WritingStep
<1> QED
  BY <1>1, <1>2, <1>3

\* Closing a run keeps the types, whatever the process does after it.
LEMMA CloseSteps ==
  ASSUME Types, NEW p \in Procs, NEW then \in {"idle", "gone"}, Close(p, then)
  PROVE  Steps(p)
<1>0. mem \in [Procs -> Memories] /\ mem[p] \in Memories /\ file \in Seq(Lines)
        /\ store \in [Programs -> {"absent", "whole"}]
  BY DEF Types, Typed
<1> DEFINE line == VerdictLine(p)
           left == IF mem[p].closed = mem[p].tree THEN mem[p]
                   ELSE [Recording(p, line) EXCEPT !.closed = Outcome(p)]
           m == IF then = "gone" THEN Out("gone")
                ELSE [left EXCEPT !.at = then, !.landing = <<>>]
<1>1. /\ mem' = [mem EXCEPT ![p] = m] /\ store' = store
      /\ file' = IF mem[p].closed = mem[p].tree THEN file ELSE Appended(line)
  BY DEF Close, Said
<1>2. Outcome(p) \in Outcomes /\ Outcome(p) = Derive(mem[p].entries)
  <2>1. mem[p].entries \in Seq(Lines)
    BY <1>0 DEF Memories
  <2> QED BY <2>1, DeriveIs DEF Outcome
<1>3. /\ line \in Lines /\ line.kind = "verdict" /\ line.effects = <<>> /\ ~line.torn
      /\ line.prev = mem[p].last /\ line.by = p /\ line.outcome = Outcome(p)
  BY <1>2, LineIs, WrittenWith DEF VerdictLine
<1> HIDE DEF line
<1>4. Ours(p, line)
  BY <1>2, <1>3 DEF Ours
<1>5. /\ Recording(p, line) \in Memories
      /\ Recording(p, line).entries = Append(mem[p].entries, line)
      /\ Recording(p, line).last = Len(file) + 1
  BY <1>3, RecordingIs
<1>6. /\ left \in Memories
      /\ mem[p].closed = mem[p].tree =>
           left.entries = mem[p].entries /\ left.last = mem[p].last
      /\ mem[p].closed # mem[p].tree =>
           left.entries = Append(mem[p].entries, line) /\ left.last = Len(file) + 1
  BY <1>0, <1>2, <1>5 DEF Memories
<1> HIDE DEF left
<1>7. /\ m \in Memories /\ m.at = then
      /\ \/ m.entries = <<>> /\ m.last = Genesis
         \/ m.entries = left.entries /\ m.last = left.last
  <2>1. CASE then = "gone"
    BY <2>1, OutIs DEF Ats
  <2>2. CASE then = "idle"
    <3>1. [left EXCEPT !.at = "idle", !.landing = <<>>] \in Memories
      BY <1>6, WrittenWith DEF Memories, Ats
    <3>2. m = [left EXCEPT !.at = "idle", !.landing = <<>>]
      BY <2>2
    <3>3. m.at = "idle" /\ m.entries = left.entries /\ m.last = left.last
      BY <1>6, <3>2 DEF Memories
    <3> QED BY <2>2, <3>1, <3>2, <3>3
  <2> QED BY <2>1, <2>2
<1> HIDE DEF m
<1>8. CASE mem[p].closed = mem[p].tree
  BY <1>0, <1>1, <1>6, <1>7, <1>8, QuietStep
<1>9. CASE mem[p].closed # mem[p].tree
  BY <1>1, <1>3, <1>4, <1>6, <1>7, <1>9, WritingStep
<1> QED
  BY <1>8, <1>9

\* A line that a process may be writing is one of its own.
LEMMA DueIs ==
  ASSUME Types, NEW p \in Procs, NEW line \in Due(p)
  PROVE  line \in Lines /\ Ours(p, line)
<1>0. mem[p] \in Memories /\ mem[p].calls \in Nat /\ mem[p].landing \in Moves
        /\ mem[p].entries \in Seq(Lines)
  BY DEF Types, Typed, Memories
<1>6. mem[p].at \in {"stored", "eager", "spent", "logging", "answering"} => ~Closes(p)
  BY DEF Closes, MayQuit, Interruptible, InMove, At
<1>1. CASE At(p, "stored")
  <2>1. line = Line(p, "start", 0, <<>>, "none")
    <3>1. Due(p) = {StartLine(p)}
      BY <1>1, <1>6 DEF Due, At
    <3> QED BY <3>1 DEF StartLine
  <2>2. /\ line \in Lines /\ line.kind = "start" /\ line.effects = <<>> /\ ~line.torn
        /\ line.prev = mem[p].last /\ line.by = p
    BY <2>1, LineIs, WrittenWith
  <2> QED BY <1>1, <2>2 DEF Ours
<1>2. CASE At(p, "eager") \/ At(p, "spent")
  <2>1. PICK effects \in {<<>>, <<"settle">>} : line = Line(p, "framework", 0, effects, "none")
    <3>1. CASE At(p, "eager")
      <4>1. Due(p) = {FrameworkLine(p, effects) : effects \in FirstAnswers}
        BY <1>6, <3>1 DEF Due, At
      <4> QED BY <4>1 DEF FrameworkLine, FirstAnswers
    <3>2. CASE At(p, "spent")
      <4>1. Due(p) = {FrameworkLine(p, <<>>)}
        BY <1>6, <3>2 DEF Due, At
      <4> QED BY <4>1 DEF FrameworkLine
    <3> QED BY <1>2, <3>1, <3>2
  <2>2. /\ line \in Lines /\ line.kind = "framework" /\ line.effects = effects /\ ~line.torn
        /\ line.prev = mem[p].last /\ line.by = p
    BY <2>1, LineIs, WrittenWith
  <2> QED BY <2>2 DEF Ours
<1>3. CASE At(p, "logging")
  <2>1. line = Line(p, "tool_call", mem[p].calls + 1, <<>>, "none")
    <3>1. Due(p) = {CallLine(p)}
      BY <1>3, <1>6 DEF Due, At
    <3> QED BY <3>1 DEF CallLine
  <2>2. mem[p].calls + 1 \in Nat
    BY <1>0
  <2>3. /\ line \in Lines /\ line.kind = "tool_call" /\ line.effects = <<>> /\ ~line.torn
        /\ line.prev = mem[p].last /\ line.by = p
    BY <2>1, <2>2, LineIs, WrittenWith
  <2> QED BY <2>3 DEF Ours
<1>4. CASE At(p, "answering")
  <2>1. line = Line(p, "tool_result", mem[p].calls, mem[p].landing, "none")
    <3>1. Due(p) = {ResultLine(p)}
      BY <1>4, <1>6 DEF Due, At
    <3> QED BY <3>1 DEF ResultLine
  <2>2. /\ line \in Lines /\ line.kind = "tool_result" /\ line.effects = mem[p].landing
        /\ ~line.torn /\ line.prev = mem[p].last /\ line.by = p /\ line.id = mem[p].calls
    BY <1>0, <2>1, LineIs, WrittenWith
  <2> QED BY <1>4, <2>2 DEF Ours
<1>5. CASE /\ ~At(p, "stored") /\ ~At(p, "eager") /\ ~At(p, "spent") /\ ~At(p, "logging")
           /\ ~At(p, "answering")
  <2>1. line = Line(p, "verdict", 0, <<>>, Outcome(p))
    <3>1. Due(p) \subseteq {VerdictLine(p)}
      <4>1. CASE Closes(p)
        BY <1>5, <4>1 DEF Due
      <4>2. CASE ~Closes(p)
        BY <1>5, <4>2 DEF Due
      <4> QED BY <4>1, <4>2
    <3> QED BY <3>1 DEF VerdictLine
  <2>2. Outcome(p) \in Outcomes /\ Outcome(p) = Derive(mem[p].entries)
    BY <1>0, DeriveIs DEF Outcome
  <2>3. /\ line \in Lines /\ line.kind = "verdict" /\ line.effects = <<>> /\ ~line.torn
        /\ line.prev = mem[p].last /\ line.by = p /\ line.outcome = Outcome(p)
    BY <2>1, <2>2, LineIs, WrittenWith
  <2> QED BY <2>2, <2>3 DEF Ours
<1> QED
  BY <1>1, <1>2, <1>3, <1>4, <1>5

\* The ends of a turn, of a loop and of a process keep the types.
LEMMA EndingSteps ==
  ASSUME Types, NEW p \in Procs,
         \/ Opening(p) \/ EndTurn(p) \/ EndLoop(p) \/ Quit(p) \/ Crash(p) \/ CrashInLine(p)
         \/ CrashInPut(p)
  PROVE  Steps(p)
<1>0. mem \in [Procs -> Memories] /\ mem[p] \in Memories /\ file \in Seq(Lines)
        /\ store \in [Programs -> {"absent", "whole"}]
  BY DEF Types, Typed
<1>1. CASE (Opening(p) /\ mem[p].tree # "unknown") \/ EndLoop(p) \/ Quit(p)
  <2>1. PICK then \in {"idle", "gone"} : Close(p, then)
    BY <1>1 DEF Opening, EndLoop, Quit
  <2> QED BY <2>1, CloseSteps
<1>2. CASE Opening(p) /\ mem[p].tree = "unknown"
  <2> DEFINE m == [mem[p] EXCEPT !.at = "idle"]
  <2>1. m \in Memories /\ m.at = "idle" /\ m.entries = mem[p].entries /\ m.last = mem[p].last
    BY <1>0, MemoriesWith DEF Ats
  <2>2. mem' = [mem EXCEPT ![p] = m] /\ file' = file /\ store' = store
    BY <1>2 DEF Opening
  <2> HIDE DEF m
  <2> QED BY <1>0, <2>1, <2>2, QuietStep
<1>3. CASE EndTurn(p)
  <2>1. PICK turns \in Nat, at \in {"idle", "spent", "stopping"} :
          mem' = [mem EXCEPT ![p] = [mem[p] EXCEPT !.turns = turns, !.at = at]]
    <3>1. CASE mem' = [mem EXCEPT ![p].at = "stopping"]
      <4>1. mem[p].turns \in Nat /\ mem[p] = [mem[p] EXCEPT !.turns = mem[p].turns]
        BY <1>0 DEF Memories
      <4>2. mem' = [mem EXCEPT ![p] = [mem[p] EXCEPT !.at = "stopping"]]
        BY <3>1
      <4>3. [mem[p] EXCEPT !.at = "stopping"]
              = [mem[p] EXCEPT !.turns = mem[p].turns, !.at = "stopping"]
        BY <1>0 DEF Memories
      <4> QED BY <4>1, <4>2, <4>3
    <3>2. CASE /\ mem[p].turns + 1 \in Nat
               /\ \E at \in {"idle", "spent"} :
                    mem' = [mem EXCEPT ![p].turns = @ + 1, ![p].at = at]
      <4>1. PICK at \in {"idle", "spent"} :
              mem' = [mem EXCEPT ![p].turns = @ + 1, ![p].at = at]
        BY <3>2
      <4>2. mem' = [mem EXCEPT ![p] = [mem[p] EXCEPT !.turns = mem[p].turns + 1, !.at = at]]
        BY <1>0, <4>1 DEF Memories
      <4> QED BY <3>2, <4>2
    <3>3. mem[p].turns + 1 \in Nat
      BY <1>0 DEF Memories
    <3> QED BY <1>3, <3>1, <3>2, <3>3 DEF EndTurn
  <2> DEFINE m == [mem[p] EXCEPT !.turns = turns, !.at = at]
  <2>2. m \in Memories /\ m.at = at /\ m.entries = mem[p].entries /\ m.last = mem[p].last
    BY <1>0 DEF Memories, Ats
  <2>3. mem' = [mem EXCEPT ![p] = m] /\ file' = file /\ store' = store
    BY <1>3, <2>1 DEF EndTurn
  <2> HIDE DEF m
  <2> QED BY <1>0, <2>2, <2>3, QuietStep
<1>4. CASE Crash(p) \/ CrashInPut(p)
  <2> DEFINE m == Out("gone")
  <2>1. m \in Memories /\ m.at = "gone" /\ m.entries = <<>> /\ m.last = Genesis
    BY OutIs DEF Ats
  <2>2. mem' = [mem EXCEPT ![p] = m] /\ file' = file /\ store' = store
    BY <1>4 DEF Crash, CrashInPut, PutCutShort
  <2> HIDE DEF m
  <2> QED BY <1>0, <2>1, <2>2, QuietStep
<1>5. CASE CrashInLine(p)
  <2> DEFINE m == Out("gone")
  <2>1. m \in Memories /\ m.at = "gone" /\ m.entries = <<>> /\ m.last = Genesis
    BY OutIs DEF Ats
  <2>2. PICK line \in Due(p) : \E left \in {line, Torn(line)} :
          file' = Appended([left EXCEPT !.ended = FALSE])
    BY <1>5 DEF CrashInLine
  <2>3. PICK left \in {line, Torn(line)} : file' = Appended([left EXCEPT !.ended = FALSE])
    BY <2>2
  <2>4. mem' = [mem EXCEPT ![p] = m] /\ store' = store
    BY <1>5 DEF CrashInLine
  <2>5. line \in Lines /\ Ours(p, line)
    BY DueIs
  <2> DEFINE cut == [left EXCEPT !.ended = FALSE]
  <2>6. /\ cut \in Lines
        /\ \/ cut.torn /\ cut.kind = "framework" /\ cut.effects = <<>>
           \/ Ours(p, cut)
    <3>1. CASE left = line
      <4>1. /\ cut \in Lines /\ cut.torn = line.torn /\ cut.kind = line.kind
            /\ cut.effects = line.effects /\ cut.id = line.id /\ cut.prev = line.prev
            /\ cut.by = line.by /\ cut.outcome = line.outcome
        BY <2>5, <3>1 DEF Lines
      <4> HIDE DEF cut
      <4> QED BY <2>5, <4>1 DEF Ours
    <3>2. CASE left = Torn(line)
      <4>1. /\ left \in Lines /\ left.torn /\ left.kind = "framework" /\ left.effects = <<>>
        BY <2>5, <3>2, TornIs
      <4> QED BY <4>1 DEF Lines
    <3> QED BY <3>1, <3>2
  <2>7. file' = Appended(cut)
    BY <2>3
  <2> HIDE DEF m, cut
  <2> QED BY <2>1, <2>4, <2>6, <2>7, WritingStep
<1> QED
  BY <1>1, <1>2, <1>3, <1>4, <1>5

\* So does every step: it is one of a process, and keeps the types.
LEMMA NextIs ==
  ASSUME Types, Next
  PROVE  \E p \in Procs : Steps(p)
BY OpeningSteps, MoveSteps, LoggingSteps, EndingSteps DEF Next

\* Every reachable state has its types, and what a move landed is where the move is.
THEOREM RunTyped == Spec => []Types
<1>1. Init => Types
  <2> SUFFICES ASSUME Init PROVE Types
    OBVIOUS
  <2>1. Out("off") \in Memories /\ Out("off").at = "off"
    BY OutIs DEF Ats
  <2>2. mem \in [Procs -> Memories] /\ \A p \in Procs : mem[p].at = "off"
    BY <2>1 DEF Init
  <2>3. file \in Seq(Lines) /\ store \in [Programs -> {"absent", "whole"}]
    BY DEF Init
  <2> QED BY <2>2, <2>3 DEF Types, Typed, LandingIs, At
<1>2. Types /\ [Next]_vars => Types'
  <2> SUFFICES ASSUME Types, [Next]_vars PROVE Types'
    OBVIOUS
  <2>1. CASE Next
    BY <2>1, NextIs DEF Steps
  <2>2. CASE UNCHANGED vars
    BY <2>2 DEF vars, Types, Typed, LandingIs, At
  <2> QED BY <2>1, <2>2
<1> QED
  BY <1>1, <1>2, PTL DEF Spec

-----------------------------------------------------------------------------
(* What a line names is in the store.                                      *)

Whole(program) == store[program] = "whole"

Changes(effects) == \E i \in DOMAIN effects : effects[i] = "change"

(* The programs a process is about to name, in a line it has yet to write. *)
AboutToName ==
  \A p \in Procs : /\ At(p, "stored") => Whole("root")
                   /\ mem[p].at \in {"placing", "crossing"} => Whole("next")
                   /\ Changes(mem[p].landing) => Whole("next")

\* Nothing leaves the store.
LEMMA StoreGrows ==
  ASSUME Types, Next
  PROVE  \A program \in Programs : Whole(program) => Whole(program)'
<1>1. store \in [Programs -> {"absent", "whole"}]
  BY DEF Types, Typed
<1>2. PICK p \in Procs : store' = store \/ StorePair(p) \/ StoreProgram(p)
  BY DEF Next, Start, LogStart, EagerCheck, Records, Resume, BeginMove, LandContract,
         LandCrossCheck, EndMove, LogCall, LogResult, Opening, Close, EndTurn, NoteBudget,
         EndLoop, Quit, Crash, CrashInLine, CrashInPut, PutCutShort
<1> QED
  BY <1>1, <1>2 DEF StorePair, StoreProgram, Put, Whole

\* What a process is about to name is in the store before it writes the line.
LEMMA AboutToNameKept ==
  ASSUME Types, AboutToName, Next
  PROVE  AboutToName'
<1>0. mem \in [Procs -> Memories] /\ store \in [Programs -> {"absent", "whole"}]
  BY DEF Types, Typed
<1>1. "root" \in Programs /\ "next" \in Programs
  BY DEF Programs
<1> DEFINE Ready(m) == /\ m.at = "stored" => Whole("root")'
                       /\ m.at \in {"placing", "crossing"} => Whole("next")'
                       /\ Changes(m.landing) => Whole("next")'
           Calm(m) == m.at \notin {"stored", "placing", "crossing"}
<1>2. \A q \in Procs : mem'[q] = mem[q] => Ready(mem'[q])
  BY <1>1, StoreGrows DEF AboutToName, At
<1>3. \A m : Calm(m) /\ m.landing = <<>> => Ready(m)
  BY DEF Changes
<1>4. \A q \in Procs : \A m : Calm(m) /\ m.landing = mem[q].landing => Ready(m)
  BY <1>1, StoreGrows DEF AboutToName
<1>5. PICK p \in Procs :
        \/ Start(p) \/ StorePair(p) \/ LogStart(p) \/ EagerCheck(p) \/ Opening(p) \/ Resume(p)
        \/ BeginMove(p) \/ StoreProgram(p) \/ LandContract(p) \/ LandCrossCheck(p) \/ EndMove(p)
        \/ LogCall(p) \/ LogResult(p) \/ EndTurn(p) \/ NoteBudget(p) \/ EndLoop(p)
        \/ Quit(p) \/ Crash(p) \/ CrashInLine(p) \/ CrashInPut(p)
  BY DEF Next
<1>6. mem[p] \in Memories /\ p \in Procs
  BY <1>0
<1>7. SUFFICES Ready(mem'[p]) /\ \A q \in Procs \ {p} : mem'[q] = mem[q]
  BY <1>2 DEF AboutToName, At
<1> HIDE DEF Ready
<1>8. ASSUME NEW where \in Ats, Calm([at |-> where]), mem' = [mem EXCEPT ![p] = Out(where)]
      PROVE  Ready(mem'[p]) /\ \A q \in Procs \ {p} : mem'[q] = mem[q]
  <2>1. mem'[p] = Out(where) /\ \A q \in Procs \ {p} : mem'[q] = mem[q]
    BY <1>0, <1>8
  <2>2. Calm(Out(where)) /\ Out(where).landing = <<>>
    BY <1>8, OutIs
  <2> QED BY <1>3, <2>1, <2>2
<1>9. ASSUME NEW m, Calm(m), m.landing \in {<<>>, mem[p].landing}, mem' = [mem EXCEPT ![p] = m]
      PROVE  Ready(mem'[p]) /\ \A q \in Procs \ {p} : mem'[q] = mem[q]
  <2>1. mem'[p] = m /\ \A q \in Procs \ {p} : mem'[q] = mem[q]
    BY <1>0, <1>9
  <2> QED BY <1>3, <1>4, <1>9, <2>1
<1>10. CASE Crash(p) \/ CrashInLine(p) \/ CrashInPut(p)
  BY <1>8, <1>10 DEF Crash, CrashInLine, CrashInPut, Ats
<1>11. CASE Start(p) \/ Resume(p)
  <2>1. Out("off") \in Memories /\ Out("off").landing = <<>>
    BY OutIs DEF Ats
  <2>2. CASE Start(p)
    <3> DEFINE m == [Out("off") EXCEPT !.at = "starting"]
    <3>1. m.at = "starting" /\ m.landing = <<>>
      BY <2>1 DEF Memories
    <3>2. mem' = [mem EXCEPT ![p] = m]
      BY <2>2 DEF Start
    <3> HIDE DEF m
    <3> QED BY <1>9, <3>1, <3>2
  <2>3. CASE Resume(p)
    <3> DEFINE m == [Out("off") EXCEPT !.at = "idle", !.entries = file,
                                       !.last = Len(file), !.tree = Derive(file)]
    <3>1. m.at = "idle" /\ m.landing = <<>>
      BY <2>1 DEF Memories
    <3>2. mem' = [mem EXCEPT ![p] = m]
      BY <2>3 DEF Resume
    <3> HIDE DEF m
    <3> QED BY <1>9, <3>1, <3>2
  <2> QED BY <1>11, <2>2, <2>3
<1>12. CASE StorePair(p)
  <2>1. mem'[p] = [mem[p] EXCEPT !.at = "stored"] /\ \A q \in Procs \ {p} : mem'[q] = mem[q]
    BY <1>0, <1>12 DEF StorePair
  <2>2. mem'[p].at = "stored" /\ mem'[p].landing = mem[p].landing
    BY <1>6, <2>1 DEF Memories
  <2>3. Whole("root")'
    BY <1>0, <1>1, <1>12 DEF StorePair, Put, Whole
  <2> QED BY <1>1, <2>1, <2>2, <2>3, StoreGrows DEF Ready, AboutToName
<1>13. CASE StoreProgram(p)
  <2>1. mem'[p] = [mem[p] EXCEPT !.at = "placing"] /\ \A q \in Procs \ {p} : mem'[q] = mem[q]
    BY <1>0, <1>13 DEF StoreProgram
  <2>2. mem'[p].at = "placing"
    BY <1>6, <2>1 DEF Memories
  <2>3. Whole("next")'
    BY <1>0, <1>1, <1>13 DEF StoreProgram, Put, Whole
  <2> QED BY <2>1, <2>2, <2>3 DEF Ready
<1>14. CASE LandContract(p) \/ LandCrossCheck(p)
  <2>1. Whole("next")
    BY <1>14 DEF LandContract, LandCrossCheck, AboutToName, At
  <2>2. PICK effect : Lands(p, effect)
    BY <1>14 DEF LandContract, LandCrossCheck
  <2>3. /\ mem'[p].at = "crossing" /\ \A q \in Procs \ {p} : mem'[q] = mem[q]
    BY <1>0, <1>6, <2>2 DEF Lands, Memories
  <2> QED BY <1>1, <2>1, <2>3, StoreGrows DEF Ready
<1>15. CASE EndMove(p)
  <2>1. PICK effects \in Answers(p) \cup {<<>>} :
          mem' = [mem EXCEPT ![p].at = "logging", ![p].landing = effects]
    BY <1>15 DEF EndMove
  <2>2. /\ mem'[p].at = "logging" /\ mem'[p].landing = effects
        /\ \A q \in Procs \ {p} : mem'[q] = mem[q]
    BY <1>0, <1>6, <2>1 DEF Memories
  <2>3. Changes(effects) => Whole("next")
    <3>1. CASE effects = <<>> \/ At(p, "moving")
      <4>1. effects = <<>> \/ effects = <<"settle">>
        BY <2>1, <3>1 DEF Answers, At
      <4> QED BY <4>1 DEF Changes
    <3>2. CASE mem[p].at \in {"placing", "crossing"}
      BY <3>2 DEF AboutToName
    <3> QED BY <1>15, <3>1, <3>2 DEF EndMove, InMove, At
  <2> QED BY <1>1, <2>2, <2>3, StoreGrows DEF Ready
<1>16. CASE BeginMove(p)
  <2>1. /\ mem'[p].at = "moving" /\ mem'[p].landing = <<>>
        /\ \A q \in Procs \ {p} : mem'[q] = mem[q]
    BY <1>0, <1>6, <1>16 DEF BeginMove, Memories
  <2> QED BY <1>3, <2>1
<1>17. CASE EndTurn(p) \/ (Opening(p) /\ mem[p].tree = "unknown")
  <2>1. /\ mem'[p].at \in {"idle", "spent", "stopping"} /\ mem'[p].landing = mem[p].landing
        /\ \A q \in Procs \ {p} : mem'[q] = mem[q]
    <3>1. CASE EndTurn(p)
      <4>1. CASE mem' = [mem EXCEPT ![p].at = "stopping"]
        BY <1>0, <1>6, <4>1 DEF Memories
      <4>2. ASSUME NEW at \in {"idle", "spent"},
                   mem' = [mem EXCEPT ![p].turns = @ + 1, ![p].at = at]
            PROVE  /\ mem'[p].at = at /\ mem'[p].landing = mem[p].landing
                   /\ \A q \in Procs \ {p} : mem'[q] = mem[q]
        BY <1>0, <1>6, <4>2 DEF Memories
      <4> QED BY <3>1, <4>1, <4>2 DEF EndTurn
    <3>2. CASE Opening(p) /\ mem[p].tree = "unknown"
      BY <1>0, <1>6, <3>2 DEF Memories, Opening
    <3> QED BY <1>17, <3>1, <3>2
  <2> QED BY <1>4, <2>1
<1>18. CASE LogStart(p) \/ EagerCheck(p) \/ LogCall(p) \/ LogResult(p) \/ NoteBudget(p)
  <2> DEFINE Rec(e, n, t) == [mem[p] EXCEPT !.entries = e, !.last = n, !.tree = t]
  <2>0. \A e, n, t : /\ Rec(e, n, t).landing = mem[p].landing
                     /\ {"at", "landing", "calls"} \subseteq DOMAIN Rec(e, n, t)
    BY <1>6 DEF Memories
  <2>1. ASSUME NEW line
        PROVE  /\ Recording(p, line).landing = mem[p].landing
               /\ {"at", "landing", "calls"} \subseteq DOMAIN Recording(p, line)
    <3>1. Recording(p, line) = Rec(Append(mem[p].entries, line), Len(file) + 1,
                                   Derive(Append(mem[p].entries, line)))
      BY DEF Recording
    <3> HIDE DEF Rec
    <3> QED BY <2>0, <3>1
  <2> HIDE DEF Rec
  <2>2. CASE \E where \in {"eager", "opening", "stopping"} : \E line :
               mem' = [mem EXCEPT ![p] = [Recording(p, line) EXCEPT !.at = where]]
    <3>1. /\ mem'[p].at \in {"eager", "opening", "stopping"}
          /\ mem'[p].landing = mem[p].landing /\ \A q \in Procs \ {p} : mem'[q] = mem[q]
      BY <1>0, <2>1, <2>2
    <3> QED BY <1>4, <3>1
  <2>3. CASE LogCall(p)
    <3>1. /\ mem'[p].at = "answering"
          /\ mem'[p].landing = mem[p].landing /\ \A q \in Procs \ {p} : mem'[q] = mem[q]
      BY <1>0, <2>1, <2>3 DEF LogCall
    <3> QED BY <1>4, <3>1
  <2>4. CASE LogResult(p)
    <3>1. /\ mem'[p].at = "idle"
          /\ mem'[p].landing = <<>> /\ \A q \in Procs \ {p} : mem'[q] = mem[q]
      BY <1>0, <1>6, <2>1, <2>4 DEF Memories, LogResult
    <3> QED BY <1>3, <3>1
  <2> QED BY <1>18, <2>2, <2>3, <2>4 DEF LogStart, EagerCheck, NoteBudget, Records
<1>19. ASSUME NEW then \in {"idle", "gone"}, Close(p, then)
       PROVE  Ready(mem'[p]) /\ \A q \in Procs \ {p} : mem'[q] = mem[q]
  <2>1. CASE then = "gone"
    BY <1>8, <1>19, <2>1 DEF Close, Ats
  <2>2. CASE then = "idle"
    <3>1. PICK left : /\ left \in Memories
                      /\ mem' = [mem EXCEPT ![p] = [left EXCEPT !.at = "idle", !.landing = <<>>]]
      <4>1. CASE mem[p].closed = mem[p].tree
        BY <1>6, <1>19, <2>2, <4>1 DEF Close, Said
      <4>2. CASE mem[p].closed # mem[p].tree
        <5> DEFINE line == VerdictLine(p)
                   left == [Recording(p, line) EXCEPT !.closed = Outcome(p)]
        <5>1. mem[p].entries \in Seq(Lines)
          BY <1>6 DEF Memories
        <5>2. Outcome(p) \in Outcomes
          BY <5>1, DeriveIs DEF Outcome
        <5>3. line \in Lines
          BY <5>2, LineIs, WrittenWith DEF VerdictLine
        <5>4. left \in Memories
          <6> HIDE DEF line
          <6>1. Recording(p, line) \in Memories
            BY <5>3, RecordingIs
          <6> QED BY <5>2, <6>1 DEF Memories
        <5>5. mem' = [mem EXCEPT ![p] = [left EXCEPT !.at = "idle", !.landing = <<>>]]
          BY <1>19, <2>2, <4>2 DEF Close, Said
        <5> QED BY <5>4, <5>5
      <4> QED BY <4>1, <4>2
    <3>2. /\ mem'[p].at = "idle" /\ mem'[p].landing = <<>>
          /\ \A q \in Procs \ {p} : mem'[q] = mem[q]
      BY <1>0, <3>1 DEF Memories
    <3> QED BY <1>3, <3>2
  <2> QED BY <2>1, <2>2
<1>20. CASE (Opening(p) /\ mem[p].tree # "unknown") \/ EndLoop(p) \/ Quit(p)
  BY <1>19, <1>20 DEF Opening, EndLoop, Quit
<1> QED
  BY <1>5, <1>10, <1>11, <1>12, <1>13, <1>14, <1>15, <1>16, <1>17, <1>18, <1>20

\* The line a step writes names what is in the store, and the lines before it stay where they are.
LEMMA NamedIsStoredKept ==
  ASSUME Types, NamedIsStored, AboutToName, Next
  PROVE  NamedIsStored'
<1>1. PICK p \in Procs : Types' /\ StepOf(p)
  BY NextIs DEF Steps
<1>2. \A program \in Programs : Whole(program) => Whole(program)'
  BY StoreGrows
<1>3. file \in Seq(Lines)
  BY DEF Types, Typed
<1>4. \A line : NamedBy(line) \subseteq Programs
  BY DEF NamedBy, Programs
<1>5. CASE file' = file
  BY <1>2, <1>4, <1>5 DEF NamedIsStored, Whole
<1>6. CASE \E line \in Lines : file' = Append(file, line) /\
                               \A program \in NamedBy(line) : Whole(program)
  <2>1. PICK line \in Lines : file' = Append(file, line) /\
                              \A program \in NamedBy(line) : Whole(program)
    BY <1>6
  <2>2. \A i \in DOMAIN file' : file'[i] = line \/ (i \in DOMAIN file /\ file'[i] = file[i])
    BY <1>3, <2>1, AppendProperties
  <2>3. \A i \in DOMAIN file' : \A program \in NamedBy(file'[i]) : Whole(program)
    BY <2>1, <2>2 DEF NamedIsStored, Whole
  <2> QED BY <1>2, <1>4, <2>3 DEF NamedIsStored, Whole
<1>7. ASSUME NEW line \in Lines, line.kind # "start", ~Changes(line.effects)
      PROVE  NamedBy(line) = {}
  BY <1>7 DEF NamedBy, Changes
<1>8. ASSUME NEW line \in Lines, Ours(p, line)
      PROVE  \A program \in NamedBy(line) : Whole(program)
  <2>1. line.kind = "start" => Whole("root")
    BY <1>8 DEF Ours, AboutToName
  <2>2. Changes(line.effects) => Whole("next")
    BY <1>8 DEF Ours, AboutToName, Changes
  <2> QED BY <2>1, <2>2 DEF NamedBy, Changes
<1>9. ASSUME NEW line \in Lines, line.kind = "framework", line.effects = <<>>
      PROVE  NamedBy(line) = {}
  BY <1>7, <1>9 DEF Changes
<1>10. CASE Writing(p)
  <2>1. PICK line \in Lines : /\ file' = Appended(line)
                              /\ \A program \in NamedBy(line) : Whole(program)
    BY <1>8, <1>9, <1>10 DEF Writing
  <2>2. CASE ~LastOpen
    BY <1>3, <1>6, <2>1, <2>2, AppendedIs
  <2>3. CASE LastOpen
    <3>1. /\ Len(file) \in 1..Len(file) /\ Len(file') = Len(file)
          /\ file' \in Seq(Lines) /\ file'[Len(file)] = Torn(line)
          /\ \A i \in 1..(Len(file) - 1) : file'[i] = file[i]
      BY <1>3, <2>1, <2>3, AppendedIs
    <3>2. NamedBy(Torn(line)) = {}
      BY <1>9, TornIs
    <3>3. ASSUME NEW i \in DOMAIN file', NEW program \in NamedBy(file'[i])
          PROVE  store'[program] = "whole"
      <4>1. i \in 1..(Len(file) - 1)
        BY <3>1, <3>2, <3>3
      <4>2. i \in DOMAIN file /\ file'[i] = file[i]
        BY <3>1, <4>1
      <4> QED BY <1>2, <1>4, <3>3, <4>2 DEF NamedIsStored, Whole
    <3> QED BY <3>3 DEF NamedIsStored
  <2> QED BY <2>2, <2>3
<1> QED
  BY <1>1, <1>5, <1>10 DEF StepOf

\* Every program a line of the log names lies whole in the store, whatever process was killed
\* where.
THEOREM LogNamesWhatIsStored == Spec => []NamedIsStored
<1>1. Init => NamedIsStored /\ AboutToName
  <2> SUFFICES ASSUME Init PROVE NamedIsStored /\ AboutToName
    OBVIOUS
  <2>1. \A p \in Procs : mem[p].at = "off" /\ mem[p].landing = <<>>
    BY OutIs DEF Init, Ats
  <2> QED BY <2>1 DEF Init, NamedIsStored, AboutToName, At, Changes
<1>2. /\ Types /\ NamedIsStored /\ AboutToName /\ [Next]_vars
      => NamedIsStored' /\ AboutToName'
  <2> SUFFICES ASSUME Types, NamedIsStored, AboutToName, [Next]_vars
               PROVE  NamedIsStored' /\ AboutToName'
    OBVIOUS
  <2>1. CASE Next
    BY <2>1, NamedIsStoredKept, AboutToNameKept
  <2>2. CASE UNCHANGED vars
    BY <2>2 DEF vars, NamedIsStored, AboutToName, At, Whole
  <2> QED BY <2>1, <2>2
<1> QED
  BY <1>1, <1>2, RunTyped, PTL DEF Spec

-----------------------------------------------------------------------------
(* What a process holds of the log, and which call a result answers.       *)

(* A line at one of the first n places fell into one that had no end, or the other way round. *)
TornBy(n) == \E i \in DOMAIN file : i <= n /\ file[i].torn

\* A line of the file stays what it is, or is torn.
LEMMA FileGrows ==
  ASSUME Types, NEW p \in Procs, StepOf(p)
  PROVE  /\ file \in Seq(Lines) /\ Len(file) \in Nat /\ Len(file') \in Nat
         /\ Len(file) <= Len(file')
         /\ \A i \in 1..Len(file) : file'[i] = file[i] \/ file'[i].torn
         /\ \A i \in 1..(Len(file) - 1) : file'[i] = file[i]
         /\ ~LastOpen => \A i \in 1..Len(file) : file'[i] = file[i]
<1>1. file \in Seq(Lines)
  BY DEF Types, Typed
<1>2. CASE file' = file
  BY <1>1, <1>2
<1>3. ASSUME NEW line \in Lines, file' = Appended(line)
      PROVE  /\ Len(file') \in Nat /\ Len(file) <= Len(file')
             /\ \A i \in 1..Len(file) : file'[i] = file[i] \/ file'[i].torn
             /\ \A i \in 1..(Len(file) - 1) : file'[i] = file[i]
             /\ ~LastOpen => \A i \in 1..Len(file) : file'[i] = file[i]
  <2>1. CASE ~LastOpen
    <3>1. file' = Append(file, line)
      BY <1>1, <1>3, <2>1, AppendedIs
    <3>2. /\ file' \in Seq(Lines) /\ Len(file') = Len(file) + 1
          /\ \A i \in 1..Len(file) : file'[i] = file[i]
      BY <1>1, <3>1, AppendProperties
    <3> QED BY <1>1, <3>2
  <2>2. CASE LastOpen
    <3>1. /\ Len(file) \in 1..Len(file) /\ Len(file') = Len(file)
          /\ file'[Len(file)].torn
          /\ \A i \in 1..(Len(file) - 1) : file'[i] = file[i]
      BY <1>1, <1>3, <2>2, AppendedIs, TornIs
    <3> QED BY <1>1, <2>2, <3>1
  <2> QED BY <2>1, <2>2
<1> QED
  BY <1>1, <1>2, <1>3 DEF StepOf, Writing

\* What is torn stays torn, what parse refuses it goes on refusing, and as far as it reads the
\* file nothing changed in it.
LEMMA TornStays ==
  ASSUME Types, NEW p \in Procs, StepOf(p), file' \in Seq(Lines)
  PROVE  /\ \A n \in Nat : TornBy(n) => TornBy(n)'
         /\ \A i \in 1..Len(file) : Parsed(file', i) => Parsed(file, i) /\ file'[i] = file[i]
         /\ \A n \in 0..Len(file) : Readable(SubSeq(file', 1, n)) =>
              SubSeq(file', 1, n) = SubSeq(file, 1, n)
<1>1. /\ file \in Seq(Lines) /\ Len(file) \in Nat /\ Len(file') \in Nat
      /\ Len(file) <= Len(file')
      /\ \A i \in 1..Len(file) : file'[i] = file[i] \/ file'[i].torn
  BY FileGrows
<1>2. ASSUME NEW n \in Nat, TornBy(n) PROVE TornBy(n)'
  <2>1. PICK i \in DOMAIN file : i <= n /\ file[i].torn
    BY <1>2 DEF TornBy
  <2>2. i \in DOMAIN file' /\ file'[i].torn
    BY <1>1, <2>1
  <2> QED BY <2>1, <2>2 DEF TornBy
<1>3. \A i \in 1..Len(file) : Parsed(file', i) => Parsed(file, i) /\ file'[i] = file[i]
  BY <1>1 DEF Parsed, Follows
<1>4. ASSUME NEW n \in 0..Len(file), Readable(SubSeq(file', 1, n))
      PROVE  SubSeq(file', 1, n) = SubSeq(file, 1, n)
  <2>1. /\ SubSeq(file', 1, n) \in Seq(Lines) /\ SubSeq(file, 1, n) \in Seq(Lines)
        /\ Len(SubSeq(file', 1, n)) = n /\ Len(SubSeq(file, 1, n)) = n
        /\ \A i \in 1..n : SubSeq(file', 1, n)[i] = file'[i] /\ SubSeq(file, 1, n)[i] = file[i]
    BY <1>1
  <2>2. \A i \in 1..n : ~file'[i].torn
    <3>1. DOMAIN SubSeq(file', 1, n) = 1..n
      BY <2>1
    <3>2. \A i \in 1..n : ~SubSeq(file', 1, n)[i].torn
      BY <1>4, <3>1 DEF Readable, Parsed
    <3> QED BY <2>1, <3>2
  <2>3. \A i \in 1..n : SubSeq(file', 1, n)[i] = SubSeq(file, 1, n)[i]
    BY <1>1, <2>1, <2>2
  <2> QED BY <2>1, <2>3, SeqEqual
<1> QED
  BY <1>2, <1>3, <1>4

(* What a process holds is what the file held when it last wrote or read it, unless a line was
   torn before the last line it knows of, or that one is. *)
LogsHeld ==
  \A p \in Procs :
    /\ mem[p].last <= Len(file) \/ TornBy(mem[p].last)
    /\ mem[p].last <= Len(file) /\ Readable(SubSeq(file, 1, mem[p].last))
         => mem[p].entries = SubSeq(file, 1, mem[p].last)

\* Each step keeps what the processes hold of the log in line with the file.
LEMMA LogsHeldKept ==
  ASSUME Types, LogsHeld, Next
  PROVE  LogsHeld'
<1>1. PICK p \in Procs : Types' /\ StepOf(p)
  BY NextIs DEF Steps
<1>2. /\ file \in Seq(Lines) /\ Len(file) \in Nat /\ Len(file') \in Nat /\ file' \in Seq(Lines)
      /\ Len(file) <= Len(file') /\ \A i \in 1..(Len(file) - 1) : file'[i] = file[i]
  BY <1>1, FileGrows DEF Types, Typed
<1>3. \A q \in Procs : mem[q].last \in Nat /\ mem'[q].last \in Nat
  BY <1>1 DEF Types, Typed, Memories
<1> DEFINE torn(n) == \E i \in DOMAIN file' : i <= n /\ file'[i].torn
           Stands(q) == /\ mem'[q].last <= Len(file') \/ torn(mem'[q].last)
                        /\ mem'[q].last <= Len(file') /\ Readable(SubSeq(file', 1, mem'[q].last))
                             => mem'[q].entries = SubSeq(file', 1, mem'[q].last)
<1>4. SUFFICES \A q \in Procs : Stands(q)
  BY DEF LogsHeld, Readable, Parsed, Follows, TornBy
<1>5. /\ \A n \in Nat : TornBy(n) => torn(n)
      /\ \A i \in 1..Len(file) : Parsed(file', i) => Parsed(file, i) /\ file'[i] = file[i]
      /\ \A n \in 0..Len(file) : Readable(SubSeq(file', 1, n)) =>
           SubSeq(file', 1, n) = SubSeq(file, 1, n)
  <2>1. \A n \in Nat : TornBy(n) => TornBy(n)'
    BY <1>1, <1>2, TornStays
  <2>2. \A n \in Nat : TornBy(n)' <=> torn(n)
    BY DEF TornBy
  <2> HIDE DEF torn
  <2> QED BY <1>1, <1>2, <2>1, <2>2, TornStays
<1>10. \A n \in Nat : torn(n) /\ n <= Len(file') => ~Readable(SubSeq(file', 1, n))
  <2> SUFFICES ASSUME NEW n \in Nat, NEW i \in DOMAIN file', i <= n, file'[i].torn, n <= Len(file')
               PROVE  ~Readable(SubSeq(file', 1, n))
    OBVIOUS
  <2>1. i \in DOMAIN SubSeq(file', 1, n) /\ SubSeq(file', 1, n)[i] = file'[i]
    BY <1>2
  <2> QED BY <2>1 DEF Readable, Parsed
<1> HIDE DEF torn
<1>6. ASSUME NEW q \in Procs, mem'[q].last = mem[q].last, mem'[q].entries = mem[q].entries
      PROVE  Stands(q)
  <2>1. CASE mem[q].last <= Len(file)
    <3>1. mem[q].last \in 0..Len(file) /\ mem[q].last <= Len(file')
      BY <1>2, <1>3, <2>1
    <3> QED BY <1>5, <1>6, <2>1, <3>1 DEF LogsHeld
  <2>2. CASE ~(mem[q].last <= Len(file))
    <3>1. torn(mem'[q].last)
      BY <1>3, <1>5, <1>6, <2>2 DEF LogsHeld
    <3> QED BY <1>3, <1>10, <3>1
  <2> QED BY <2>1, <2>2
<1>7. \A q \in Procs \ {p} : Stands(q)
  <2>1. \A q \in Procs \ {p} : mem'[q] = mem[q]
    BY <1>1 DEF StepOf
  <2> HIDE DEF Stands
  <2> QED BY <1>6, <2>1
<1>8. CASE LogKept(p)
  BY <1>6, <1>7, <1>8 DEF LogKept
<1>9. CASE LogLeft(p)
  <2>1. SubSeq(file', 1, 0) = <<>>
    BY <1>2, SubSeqEmpty
  <2>2. mem'[p].last = 0 /\ mem'[p].entries = <<>> /\ mem'[p].last <= Len(file')
    BY <1>2, <1>9 DEF LogLeft, Genesis
  <2>3. Stands(p)
    BY <2>1, <2>2
  <2> HIDE DEF Stands
  <2> QED BY <1>7, <2>3
<1>11. CASE LogRead(p) /\ file' = file
  <2>1. SubSeq(file, 1, Len(file)) = file
    BY <1>2, SubSeqFull
  <2> QED BY <1>2, <1>7, <1>11, <2>1 DEF LogRead
<1>12. CASE \E line \in Lines : file' = Appended(line) /\ Ours(p, line) /\ LogGrown(p, line)
  <2>1. PICK line \in Lines : file' = Appended(line) /\ Ours(p, line) /\ LogGrown(p, line)
    BY <1>12
  <2>2. mem'[p].last = Len(file) + 1 /\ mem'[p].entries = Append(mem[p].entries, line)
    BY <2>1 DEF LogGrown
  <2>3. CASE LastOpen
    <3>1. /\ Len(file) \in 1..Len(file) /\ Len(file') = Len(file) /\ file'[Len(file)].torn
      BY <1>2, <2>1, <2>3, AppendedIs, TornIs
    <3>2. torn(Len(file) + 1) /\ ~(Len(file) + 1 <= Len(file'))
      BY <1>2, <3>1 DEF torn
    <3>3. Stands(p)
      BY <2>2, <3>2
    <3> HIDE DEF Stands
    <3> QED BY <1>7, <3>3
  <2>4. CASE ~LastOpen
    <3>1. file' = Append(file, line)
      BY <1>2, <2>1, <2>4, AppendedIs
    <3>2. /\ Len(file') = Len(file) + 1 /\ file'[Len(file) + 1] = line
          /\ \A i \in 1..Len(file) : file'[i] = file[i]
      BY <1>2, <3>1, AppendProperties
    <3>3. SubSeq(file', 1, mem'[p].last) = file'
      BY <1>2, <2>2, <3>2, SubSeqFull
    <3>4. ASSUME Readable(file') PROVE mem[p].entries = file
      <4>1. Readable(file)
        BY <1>2, <3>2, <3>4 DEF Readable, Parsed, Follows
      <4>2. mem[p].last = Len(file)
        <5>1. Len(file) + 1 \in DOMAIN file'
          BY <1>2, <3>2
        <5>2. file'[Len(file) + 1].prev = Len(file) + 1 - 1
          BY <3>4, <5>1 DEF Readable, Parsed, Follows
        <5> QED BY <1>2, <2>1, <3>2, <5>2 DEF Ours
      <4>3. SubSeq(file, 1, mem[p].last) = file /\ mem[p].last <= Len(file)
        BY <1>2, <4>2, SubSeqFull
      <4> QED BY <4>1, <4>3 DEF LogsHeld
    <3>5. Stands(p)
      <4> DEFINE held == SubSeq(file', 1, mem'[p].last)
      <4>1. mem'[p].last <= Len(file')
        BY <1>2, <2>2, <3>2
      <4>2. Readable(file') => mem'[p].entries = file'
        BY <2>2, <3>1, <3>4
      <4>3. held = file'
        BY <3>3
      <4>4. Readable(held) => mem'[p].entries = held
        <5> HIDE DEF held
        <5> QED BY <4>2, <4>3
      <4> QED BY <4>1, <4>4
    <3> HIDE DEF Stands
    <3> QED BY <1>7, <3>5
  <2> QED BY <2>3, <2>4
<1> QED
  BY <1>1, <1>8, <1>9, <1>11, <1>12 DEF StepOf, Writing

(* A call a result may answer. *)
CallIn(lines, i, id, p) == /\ i \in DOMAIN lines /\ lines[i].kind = "tool_call"
                           /\ lines[i].id = id /\ lines[i].by = p

(* A process about to answer holds the line of its call, unless a line up to it is torn. *)
CallsHeld ==
  \A p \in Procs : At(p, "answering") =>
    CallIn(file, mem[p].last, mem[p].calls, p) \/ TornBy(mem[p].last)

(* Every result in the file, those parse refuses included, names the line of its call, unless a
   line up to that one is torn. *)
ResultsNameCalls ==
  \A i \in DOMAIN file : file[i].kind = "tool_result" =>
    CallIn(file, file[i].prev, file[i].id, file[i].by) \/ TornBy(file[i].prev)

\* Each step keeps the results of the file with their calls.
LEMMA CallsKept ==
  ASSUME Types, CallsHeld, ResultsNameCalls, Next
  PROVE  CallsHeld' /\ ResultsNameCalls'
<1>1. PICK p \in Procs : Types' /\ StepOf(p)
  BY NextIs DEF Steps
<1>2. /\ file \in Seq(Lines) /\ Len(file) \in Nat /\ Len(file') \in Nat /\ file' \in Seq(Lines)
      /\ Len(file) <= Len(file')
      /\ \A i \in 1..Len(file) : file'[i] = file[i] \/ file'[i].torn
  BY <1>1, FileGrows DEF Types, Typed
<1> DEFINE torn(n) == \E i \in DOMAIN file' : i <= n /\ file'[i].torn
           Calls(n, id, q) == CallIn(file', n, id, q) \/ torn(n)
<1>3. \A n \in Nat : TornBy(n) => torn(n)
  <2>1. \A n \in Nat : TornBy(n) => TornBy(n)'
    BY <1>1, <1>2, TornStays
  <2> QED BY <2>1 DEF TornBy
<1>4. \A n \in Nat : \A id, q : CallIn(file, n, id, q) \/ TornBy(n) => Calls(n, id, q)
  <2> SUFFICES ASSUME NEW n \in Nat, NEW id, NEW q, CallIn(file, n, id, q)
               PROVE  Calls(n, id, q)
    BY <1>3
  <2>1. n \in 1..Len(file) /\ n \in DOMAIN file'
    BY <1>2 DEF CallIn
  <2>2. CASE file'[n].torn
    BY <1>2, <2>1, <2>2
  <2>3. CASE file'[n] = file[n]
    BY <2>1, <2>3 DEF CallIn
  <2> QED BY <1>2, <2>1, <2>2, <2>3
<1>5. SUFFICES /\ \A q \in Procs : mem'[q].at = "answering" => Calls(mem'[q].last, mem'[q].calls, q)
               /\ \A i \in DOMAIN file' : file'[i].kind = "tool_result" =>
                    Calls(file'[i].prev, file'[i].id, file'[i].by)
  BY DEF CallsHeld, ResultsNameCalls, TornBy, CallIn, At
<1>6. \A q \in Procs : mem[q].last \in Nat
  BY DEF Types, Typed, Memories
<1>7. \A i \in DOMAIN file : file[i].prev \in Nat
  <2>1. \A i \in DOMAIN file : file[i] \in Lines
    BY <1>2
  <2> QED BY <2>1 DEF Lines
<1> HIDE DEF Calls
<1>8. \A q \in Procs : mem[q].at = "answering" => Calls(mem[q].last, mem[q].calls, q)
  BY <1>4, <1>6 DEF CallsHeld, At
<1>9. \A q \in Procs \ {p} :
        mem'[q].at = "answering" => Calls(mem'[q].last, mem'[q].calls, q)
  BY <1>1, <1>8 DEF StepOf
<1>10. \A i \in DOMAIN file : file'[i] = file[i] /\ file'[i].kind = "tool_result" =>
         Calls(file'[i].prev, file'[i].id, file'[i].by)
  BY <1>4, <1>7 DEF ResultsNameCalls
<1>11. CASE file' = file /\ mem'[p].at # "answering"
  BY <1>9, <1>10, <1>11
<1>12. CASE Writing(p)
  <2>1. PICK line \in Lines :
          /\ file' = Appended(line)
          /\ \/ line.kind = "framework" /\ mem'[p].at = "gone"
             \/ /\ Ours(p, line)
                /\ mem'[p].at = "answering" =>
                     LogGrown(p, line) /\ line.kind = "tool_call" /\ line.id = mem'[p].calls
    BY <1>12 DEF Writing
  <2>2. mem'[p].at = "answering" =>
          /\ mem'[p].last = Len(file) + 1 /\ line.by = p /\ line.kind = "tool_call"
          /\ line.id = mem'[p].calls
    BY <2>1 DEF LogGrown, Ours
  <2>3. CASE ~LastOpen
    <3>1. file' = Append(file, line)
      BY <1>2, <2>1, <2>3, AppendedIs
    <3>2. /\ Len(file') = Len(file) + 1 /\ file'[Len(file) + 1] = line
          /\ DOMAIN file' = 1..(Len(file) + 1) /\ \A i \in 1..Len(file) : file'[i] = file[i]
      BY <1>2, <3>1, AppendProperties
    <3>3. mem'[p].at = "answering" => Calls(mem'[p].last, mem'[p].calls, p)
      BY <1>2, <2>2, <3>2 DEF CallIn, Calls
    <3>4. line.kind = "tool_result" => Calls(line.prev, line.id, line.by)
      BY <1>8, <2>1 DEF Ours, At
    <3>5. ASSUME NEW i \in DOMAIN file', file'[i].kind = "tool_result"
          PROVE  Calls(file'[i].prev, file'[i].id, file'[i].by)
      <4>1. CASE i = Len(file) + 1
        BY <3>2, <3>4, <3>5, <4>1
      <4>2. CASE i # Len(file) + 1
        <5>1. i \in DOMAIN file /\ file'[i] = file[i]
          BY <1>2, <3>2, <4>2
        <5> QED BY <1>10, <3>5, <5>1
      <4> QED BY <4>1, <4>2
    <3> QED BY <1>9, <3>3, <3>5
  <2>4. CASE LastOpen
    <3>1. /\ Len(file) \in 1..Len(file) /\ Len(file') = Len(file)
          /\ file'[Len(file)].torn /\ file'[Len(file)].kind = "framework"
          /\ \A i \in 1..(Len(file) - 1) : file'[i] = file[i]
      BY <1>2, <2>1, <2>4, AppendedIs, TornIs
    <3>2. torn(Len(file) + 1)
      BY <1>2, <3>1
    <3>3. mem'[p].at = "answering" => Calls(mem'[p].last, mem'[p].calls, p)
      BY <2>2, <3>2 DEF Calls
    <3>4. ASSUME NEW i \in DOMAIN file', file'[i].kind = "tool_result"
          PROVE  Calls(file'[i].prev, file'[i].id, file'[i].by)
      <4>1. i \in 1..(Len(file) - 1)
        BY <1>2, <3>1, <3>4
      <4> QED BY <1>2, <1>10, <3>1, <3>4, <4>1
    <3> QED BY <1>9, <3>3, <3>4
  <2> QED BY <2>3, <2>4
<1> QED
  BY <1>1, <1>11, <1>12 DEF StepOf

\* What parse accepts of a log, and what it does not.
LEMMA PrefixIs ==
  ASSUME NEW lines \in Seq(Lines)
  PROVE  /\ Readable(lines) => Prefix(lines) = lines
         /\ ~Readable(lines) => \E n \in 1..Len(lines) :
              /\ ~Parsed(lines, n) /\ \A i \in 1..(n - 1) : Parsed(lines, i)
              /\ Prefix(lines) = SubSeq(lines, 1, n - 1)
<1> DEFINE refused == {i \in DOMAIN lines : ~Parsed(lines, i)}
<1>1. Readable(lines) <=> refused = {}
  BY DEF Readable
<1>2. CASE refused = {}
  BY <1>1, <1>2 DEF Prefix
<1>3. CASE refused # {}
  <2>1. refused \subseteq Nat /\ Len(lines) \in Nat
    OBVIOUS
  <2>2. \E x \in refused : \A y \in refused : x <= y
    <3> HIDE DEF refused
    <3> QED BY <1>3, <2>1, LeastNat
  <2>3. Min(refused) \in refused /\ \A y \in refused : Min(refused) <= y
    <3> HIDE DEF refused
    <3> QED BY <2>2 DEF Min
  <2>4. Prefix(lines) = SubSeq(lines, 1, Min(refused) - 1)
    BY <1>3 DEF Prefix
  <2> DEFINE n == Min(refused)
  <2> HIDE DEF n
  <2>5. n \in refused /\ \A y \in refused : n <= y
    BY <2>3 DEF n
  <2>6. n \in 1..Len(lines) /\ ~Parsed(lines, n)
    BY <2>5
  <2>7. \A i \in 1..(n - 1) : Parsed(lines, i)
    <3> SUFFICES ASSUME NEW i \in 1..(n - 1), ~Parsed(lines, i) PROVE FALSE
      OBVIOUS
    <3>1. i \in refused
      BY <2>6
    <3>2. n <= i
      BY <2>5, <3>1
    <3> QED BY <2>6, <3>2
  <2> QED BY <1>1, <1>3, <2>4, <2>6, <2>7 DEF n
<1> QED
  BY <1>2, <1>3

\* In a log that parses, a result comes right after its call, however many processes wrote it.
THEOREM ResultsStandWithCalls == Spec => []ResultsPaired
<1>1. Init => CallsHeld /\ ResultsNameCalls
  <2> SUFFICES ASSUME Init PROVE CallsHeld /\ ResultsNameCalls
    OBVIOUS
  <2>1. \A p \in Procs : mem[p].at = "off"
    BY OutIs DEF Init, Ats
  <2> QED BY <2>1 DEF Init, CallsHeld, ResultsNameCalls, At
<1>2. Types /\ CallsHeld /\ ResultsNameCalls /\ [Next]_vars => CallsHeld' /\ ResultsNameCalls'
  <2> SUFFICES ASSUME Types, CallsHeld, ResultsNameCalls, [Next]_vars
               PROVE  CallsHeld' /\ ResultsNameCalls'
    OBVIOUS
  <2>1. CASE Next
    BY <2>1, CallsKept
  <2>2. CASE UNCHANGED vars
    BY <2>2 DEF vars, CallsHeld, ResultsNameCalls, CallIn, At, TornBy
  <2> QED BY <2>1, <2>2
<1>3. Types /\ ResultsNameCalls => ResultsPaired
  <2> SUFFICES ASSUME Types, ResultsNameCalls,
                      NEW i \in DOMAIN Prefix(file), Prefix(file)[i].kind = "tool_result"
               PROVE  /\ i > 1 /\ Prefix(file)[i - 1].kind = "tool_call"
                      /\ Prefix(file)[i - 1].id = Prefix(file)[i].id
                      /\ Prefix(file)[i - 1].by = Prefix(file)[i].by
    BY DEF ResultsPaired
  <2>1. file \in Seq(Lines)
    BY DEF Types, Typed
  <2>2. PICK n \in 0..Len(file) : /\ DOMAIN Prefix(file) = 1..n
                                  /\ \A j \in 1..n : Prefix(file)[j] = file[j] /\ Parsed(file, j)
    <3>1. CASE Readable(file)
      BY <2>1, <3>1, PrefixIs DEF Readable
    <3>2. CASE ~Readable(file)
      <4>1. PICK m \in 1..Len(file) : /\ \A j \in 1..(m - 1) : Parsed(file, j)
                                      /\ Prefix(file) = SubSeq(file, 1, m - 1)
        BY <2>1, <3>2, PrefixIs
      <4>2. m - 1 \in 0..Len(file)
        BY <2>1
      <4>3. /\ DOMAIN SubSeq(file, 1, m - 1) = 1..(m - 1)
            /\ \A j \in 1..(m - 1) : SubSeq(file, 1, m - 1)[j] = file[j]
        BY <2>1, <4>2
      <4> QED BY <4>1, <4>2, <4>3
    <3> QED BY <3>1, <3>2
  <2>3. i \in 1..n /\ Prefix(file)[i] = file[i] /\ file[i].prev = i - 1 /\ i \in DOMAIN file
    BY <2>1, <2>2 DEF Parsed, Follows
  <2>4. CallIn(file, i - 1, file[i].id, file[i].by)
    <3>1. ~TornBy(i - 1)
      <4> SUFFICES ASSUME NEW j \in DOMAIN file, j <= i - 1, file[j].torn PROVE FALSE
        BY DEF TornBy
      <4>1. j \in 1..n
        BY <2>1, <2>3
      <4> QED BY <2>2, <4>1 DEF Parsed
    <3> QED BY <2>3, <3>1 DEF ResultsNameCalls
  <2>5. i - 1 \in 1..n /\ Prefix(file)[i - 1] = file[i - 1]
    BY <2>1, <2>2, <2>3, <2>4 DEF CallIn
  <2> QED BY <2>3, <2>4, <2>5 DEF CallIn
<1> QED
  BY <1>1, <1>2, <1>3, RunTyped, PTL DEF Spec

-----------------------------------------------------------------------------
(* What the directory promises a reader, step by step.                     *)

\* A step leaves the file, adds a line to it, or tears its last one.
LEMMA FileSteps ==
  ASSUME Types, Next
  PROVE  /\ file \in Seq(Lines) /\ file' \in Seq(Lines)
         /\ \/ file' = file
            \/ \E p \in Procs, line \in Lines :
                 file' = Append(file, line) /\ ~LastOpen /\ (line.torn \/ Ours(p, line))
            \/ /\ LastOpen /\ Len(file) \in 1..Len(file) /\ Len(file') = Len(file)
               /\ file'[Len(file)].torn
               /\ \A i \in 1..(Len(file) - 1) : file'[i] = file[i]
<1>1. PICK p \in Procs : Types' /\ StepOf(p)
  BY NextIs DEF Steps
<1>2. file \in Seq(Lines) /\ file' \in Seq(Lines)
  BY <1>1 DEF Types, Typed
<1>3. CASE Writing(p)
  <2>1. PICK line \in Lines : file' = Appended(line) /\ (line.torn \/ Ours(p, line))
    BY <1>3 DEF Writing
  <2> QED BY <1>2, <2>1, AppendedIs, TornIs
<1> QED
  BY <1>1, <1>2, <1>3 DEF StepOf

\* Where parse stops it goes on stopping.
LEMMA BrokenStays ==
  ASSUME Types, Next, ~Readable(file)
  PROVE  ~Readable(file') /\ Prefix(file') = Prefix(file)
<1>1. PICK p \in Procs : Types' /\ StepOf(p)
  BY NextIs DEF Steps
<1>2. /\ file \in Seq(Lines) /\ Len(file) \in Nat /\ Len(file') \in Nat /\ file' \in Seq(Lines)
      /\ Len(file) <= Len(file') /\ \A i \in 1..(Len(file) - 1) : file'[i] = file[i]
  BY <1>1, FileGrows DEF Types, Typed
<1>3. \A i \in 1..Len(file) : Parsed(file', i) => Parsed(file, i)
  BY <1>1, <1>2, TornStays
<1>4. PICK n \in 1..Len(file) : /\ ~Parsed(file, n)
                                /\ \A i \in 1..(n - 1) : Parsed(file, i)
                                /\ Prefix(file) = SubSeq(file, 1, n - 1)
  BY <1>2, PrefixIs
<1>5. n \in DOMAIN file' /\ ~Parsed(file', n)
  BY <1>2, <1>3, <1>4
<1>6. ~Readable(file')
  BY <1>5 DEF Readable
<1>7. PICK m \in 1..Len(file') : /\ ~Parsed(file', m)
                                 /\ \A i \in 1..(m - 1) : Parsed(file', i)
                                 /\ Prefix(file') = SubSeq(file', 1, m - 1)
  BY <1>2, <1>6, PrefixIs
<1>8. \A i \in 1..(n - 1) : Parsed(file', i)
  <2>1. \A i \in 1..(n - 1) : i \in 1..(Len(file) - 1)
    BY <1>2
  <2>2. \A i \in 1..(n - 1) : file'[i] = file[i] /\ Parsed(file, i)
    BY <1>2, <1>4, <2>1
  <2> QED BY <2>2 DEF Parsed, Follows
<1>9. m = n
  <2>1. ~(n \in 1..(m - 1)) /\ ~(m \in 1..(n - 1))
    BY <1>5, <1>7, <1>8
  <2> QED BY <1>2, <2>1
<1>10. SubSeq(file', 1, n - 1) = SubSeq(file, 1, n - 1)
  <2>1. n - 1 \in 0..Len(file)
    BY <1>2
  <2>2. /\ SubSeq(file', 1, n - 1) \in Seq(Lines) /\ SubSeq(file, 1, n - 1) \in Seq(Lines)
        /\ Len(SubSeq(file', 1, n - 1)) = n - 1 /\ Len(SubSeq(file, 1, n - 1)) = n - 1
        /\ \A i \in 1..(n - 1) : /\ SubSeq(file', 1, n - 1)[i] = file'[i]
                                 /\ SubSeq(file, 1, n - 1)[i] = file[i]
    BY <1>2, <2>1
  <2>3. \A i \in 1..(n - 1) : SubSeq(file', 1, n - 1)[i] = SubSeq(file, 1, n - 1)[i]
    BY <1>2, <2>2
  <2> QED BY <2>2, <2>3, SeqEqual
<1> QED
  BY <1>4, <1>6, <1>7, <1>9, <1>10

\* A line that parse accepts was written by a process that held the whole log before it, so a
\* verdict says what the log comes to.
LEMMA LineAdded ==
  ASSUME Types, LogsHeld, NEW p \in Procs, NEW line \in Lines, file' = Append(file, line),
         line.torn \/ Ours(p, line)
  PROVE  /\ Readable(file') => /\ Readable(file)
                               /\ line.kind = "verdict" =>
                                    line.effects = <<>> /\ line.outcome = Derive(file)
         /\ Readable(file) /\ ~Readable(file') => Prefix(file') = file
<1>1. /\ file \in Seq(Lines) /\ Len(file) \in Nat /\ Len(file') = Len(file) + 1
      /\ file' \in Seq(Lines) /\ file'[Len(file) + 1] = line
      /\ \A i \in 1..Len(file) : file'[i] = file[i]
  BY AppendProperties DEF Types, Typed
<1>2. \A i \in 1..Len(file) : Parsed(file', i) <=> Parsed(file, i)
  BY <1>1 DEF Parsed, Follows
<1>3. ASSUME Readable(file') PROVE Readable(file)
  BY <1>1, <1>2, <1>3 DEF Readable
<1>4. ASSUME Readable(file'), line.kind = "verdict"
      PROVE  line.effects = <<>> /\ line.outcome = Derive(file)
  <2>1. ~line.torn /\ line.prev = Len(file)
    <3>1. Len(file) + 1 \in DOMAIN file'
      BY <1>1
    <3>2. Parsed(file', Len(file) + 1)
      BY <1>4, <3>1 DEF Readable
    <3> QED BY <1>1, <3>2 DEF Parsed, Follows
  <2>2. Ours(p, line) /\ mem[p].last = Len(file)
    BY <2>1 DEF Ours
  <2>3. SubSeq(file, 1, mem[p].last) = file /\ mem[p].last <= Len(file)
    BY <1>1, <2>2, SubSeqFull
  <2>4. mem[p].entries = file
    BY <1>3, <1>4, <2>3 DEF LogsHeld
  <2> QED BY <1>4, <2>2, <2>4 DEF Ours
<1>5. ASSUME Readable(file), ~Readable(file') PROVE Prefix(file') = file
  <2>1. PICK m \in 1..Len(file') : ~Parsed(file', m) /\ Prefix(file') = SubSeq(file', 1, m - 1)
    BY <1>1, <1>5, PrefixIs
  <2>2. m = Len(file) + 1
    <3>1. ~(m \in 1..Len(file))
      BY <1>1, <1>2, <1>5, <2>1 DEF Readable
    <3> QED BY <1>1, <3>1
  <2>3. /\ SubSeq(file', 1, Len(file)) \in Seq(Lines) /\ Len(SubSeq(file', 1, Len(file))) = Len(file)
        /\ \A i \in 1..Len(file) : SubSeq(file', 1, Len(file))[i] = file[i]
    BY <1>1
  <2>4. SubSeq(file', 1, Len(file)) = file
    BY <1>1, <2>3, SeqEqual
  <2> QED BY <1>1, <2>1, <2>2, <2>4
<1> QED
  BY <1>3, <1>4, <1>5

(* A verdict that stands last in a log says what the log before it comes to. *)
LastSaysRight ==
  Readable(file) /\ file # <<>> /\ file[Len(file)].kind = "verdict" =>
    /\ file[Len(file)].effects = <<>>
    /\ file[Len(file)].outcome = Derive(SubSeq(file, 1, Len(file) - 1))

\* Each step keeps the verdict that stands last right.
LEMMA LastSaysRightKept ==
  ASSUME Types, LogsHeld, LastSaysRight, Next
  PROVE  LastSaysRight'
<1>1. file \in Seq(Lines) /\ file' \in Seq(Lines)
  BY FileSteps
<1>2. CASE file' = file
  BY <1>2 DEF LastSaysRight, Readable, Parsed, Follows
<1>3. ASSUME NEW p \in Procs, NEW line \in Lines,
             file' = Append(file, line), line.torn \/ Ours(p, line)
      PROVE  LastSaysRight'
  <2>1. /\ Len(file) \in Nat /\ Len(file') = Len(file) + 1 /\ file'[Len(file) + 1] = line
        /\ \A i \in 1..Len(file) : file'[i] = file[i]
    BY <1>1, <1>3, AppendProperties
  <2>2. SubSeq(file', 1, Len(file)) = file
    <3>1. /\ SubSeq(file', 1, Len(file)) \in Seq(Lines)
          /\ Len(SubSeq(file', 1, Len(file))) = Len(file)
          /\ \A i \in 1..Len(file) : SubSeq(file', 1, Len(file))[i] = file[i]
      BY <1>1, <2>1
    <3> QED BY <1>1, <3>1, SeqEqual
  <2>3. Readable(file') /\ line.kind = "verdict" =>
          line.effects = <<>> /\ line.outcome = Derive(file)
    BY <1>3, LineAdded
  <2>4. Len(file') - 1 = Len(file) /\ file'[Len(file')] = line
    BY <2>1
  <2>5. Readable(file') /\ file'[Len(file')].kind = "verdict" =>
          /\ file'[Len(file')].effects = <<>>
          /\ file'[Len(file')].outcome = Derive(SubSeq(file', 1, Len(file') - 1))
    BY <2>2, <2>3, <2>4
  <2> QED BY <2>5 DEF LastSaysRight, Readable, Parsed, Follows, Derive, EffectsOf
<1>4. ASSUME Len(file) \in 1..Len(file), Len(file') = Len(file), file'[Len(file)].torn
      PROVE  LastSaysRight'
  <2>1. Len(file) \in DOMAIN file' /\ ~Parsed(file', Len(file))
    BY <1>1, <1>4 DEF Parsed
  <2> QED BY <2>1 DEF LastSaysRight, Readable, Parsed, Follows
<1> QED
  BY <1>2, <1>3, <1>4, FileSteps

\* The verdicts a log says, with one more line.
LEMMA SaidOfAppend ==
  ASSUME NEW lines \in Seq(Lines), NEW line \in Lines
  PROVE  SaidOf(Append(lines, line)) =
           SaidOf(lines) \cup (IF line.kind = "verdict"
                               THEN {<<Len(EffectsOf(Append(lines, line))), line.outcome>>}
                               ELSE {})
<1> DEFINE longer == Append(lines, line)
           n == Len(lines) + 1
           said(l, i) == <<Len(EffectsOf(SubSeq(l, 1, i))), l[i].outcome>>
           verdicts(l) == {j \in DOMAIN l : l[j].kind = "verdict"}
<1>1. /\ longer \in Seq(Lines) /\ Len(longer) = n /\ longer[n] = line
      /\ \A i \in 1..Len(lines) : longer[i] = lines[i]
      /\ Len(lines) \in Nat
  BY AppendProperties
<1> HIDE DEF longer
<1>2. \A i \in 1..Len(lines) : said(longer, i) = said(lines, i)
  <2> TAKE i \in 1..Len(lines)
  <2>1. /\ SubSeq(longer, 1, i) \in Seq(Lines) /\ SubSeq(lines, 1, i) \in Seq(Lines)
        /\ Len(SubSeq(longer, 1, i)) = i /\ Len(SubSeq(lines, 1, i)) = i
        /\ \A j \in 1..i : /\ SubSeq(longer, 1, i)[j] = longer[j]
                           /\ SubSeq(lines, 1, i)[j] = lines[j]
    BY <1>1
  <2>2. \A j \in 1..i : SubSeq(longer, 1, i)[j] = SubSeq(lines, 1, i)[j]
    BY <1>1, <2>1
  <2>3. SubSeq(longer, 1, i) = SubSeq(lines, 1, i)
    BY <2>1, <2>2, SeqEqual
  <2> QED BY <1>1, <2>3
<1>3. said(longer, n) = <<Len(EffectsOf(longer)), line.outcome>>
  BY <1>1, SubSeqFull
<1>4. verdicts(longer) = verdicts(lines) \cup (IF line.kind = "verdict" THEN {n} ELSE {})
  BY <1>1
<1>5. SaidOf(longer) = {said(longer, i) : i \in verdicts(longer)}
        /\ SaidOf(lines) = {said(lines, i) : i \in verdicts(lines)}
  BY DEF SaidOf
<1>6. verdicts(lines) \subseteq 1..Len(lines)
  OBVIOUS
<1> HIDE DEF said, verdicts, n
<1>7. {said(longer, i) : i \in verdicts(lines)} = {said(lines, i) : i \in verdicts(lines)}
  BY <1>2, <1>6
<1>8. SaidOf(longer) = SaidOf(lines) \cup
        (IF line.kind = "verdict" THEN {<<Len(EffectsOf(longer)), line.outcome>>} ELSE {})
  BY <1>3, <1>4, <1>5, <1>7
<1> QED
  BY <1>8 DEF longer

\* Every step of the processes moves what a reader may rely on by a whole move, says a verdict of
\* all that landed, breaks the log, or leaves it as it is; and what it loses is what the last line
\* said.
LEMMA StepIsPromised ==
  ASSUME Types, LogsHeld, LastSaysRight, Next
  PROVE  [Promise!Next]_Promise!vars
<1>1. file \in Seq(Lines) /\ file' \in Seq(Lines)
  BY FileSteps
<1> DEFINE Landed(f) == EffectsOf(Prefix(f))
           Says(f) == SaidOf(Prefix(f))
           Open(f) == f = <<>> \/ f[Len(f)].ended
           HeldOf(f) == IF ~Readable(f) THEN "broken" ELSE IF Open(f) THEN "open" ELSE "hanging"
<1>2. /\ Held = HeldOf(file) /\ Held' = HeldOf(file') /\ (LastOpen <=> ~Open(file))
  BY DEF Held, LastOpen, Last, Readable, Parsed, Follows
<1>3. SUFFICES
        \/ /\ HeldOf(file) = "open" /\ HeldOf(file') \in {"open", "hanging"}
           /\ \E effects \in Moves : Landed(file') = Landed(file) \o effects
           /\ Says(file') = Says(file)
        \/ /\ HeldOf(file) = "open" /\ HeldOf(file') \in {"open", "hanging"}
           /\ Says(file') = Says(file) \cup {<<Len(Landed(file)), VerdictOf(Landed(file))>>}
           /\ Landed(file') = Landed(file)
        \/ /\ HeldOf(file) = "open" /\ HeldOf(file') = "broken"
           /\ Landed(file') = Landed(file) /\ Says(file') = Says(file)
        \/ /\ HeldOf(file) = "hanging" /\ HeldOf(file') = "broken"
           /\ \/ /\ \E effects \in Moves : Landed(file) = Landed(file') \o effects
                 /\ Says(file') = Says(file)
              \/ /\ Says(file) =
                      Says(file') \cup {<<Len(Landed(file)), VerdictOf(Landed(file))>>}
                 /\ Landed(file') = Landed(file)
        \/ HeldOf(file') = HeldOf(file) /\ Landed(file') = Landed(file) /\ Says(file') = Says(file)
  <2> HIDE DEF HeldOf
  <2> QED BY <1>2, <1>3 DEF Promise!Next, Promise!Move, Promise!Say, Promise!Break,
                            Promise!Lose, Promise!vars, EffectsOf, Prefix, SaidOf, Parsed, Follows
<1>4. ASSUME NEW lines \in Seq(Lines), NEW line \in Lines,
             line.kind = "verdict" => line.effects = <<>> /\ line.outcome = Derive(lines)
      PROVE  \/ /\ \E effects \in Moves :
                     EffectsOf(Append(lines, line)) = EffectsOf(lines) \o effects
                /\ SaidOf(Append(lines, line)) = SaidOf(lines)
             \/ /\ SaidOf(Append(lines, line)) =
                     SaidOf(lines) \cup {<<Len(EffectsOf(lines)), VerdictOf(EffectsOf(lines))>>}
                /\ EffectsOf(Append(lines, line)) = EffectsOf(lines)
  <2>1. /\ EffectsOf(lines) \in Seq(Effects)
        /\ EffectsOf(Append(lines, line)) = EffectsOf(lines) \o line.effects
    BY EffectsOfAppend
  <2>2. line.effects \in Moves
    BY DEF Lines
  <2>3. CASE line.kind # "verdict"
    <3>1. SaidOf(Append(lines, line)) = SaidOf(lines)
      BY <2>3, SaidOfAppend
    <3> QED BY <2>1, <2>2, <3>1
  <2>4. CASE line.kind = "verdict"
    <3>1. EffectsOf(Append(lines, line)) = EffectsOf(lines)
      BY <1>4, <2>1, <2>4, ConcatEmptySeq
    <3>2. SaidOf(Append(lines, line)) =
            SaidOf(lines) \cup {<<Len(EffectsOf(lines)), VerdictOf(EffectsOf(lines))>>}
      BY <1>4, <2>4, <3>1, SaidOfAppend DEF Derive
    <3> QED BY <3>1, <3>2
  <2> QED BY <2>3, <2>4
<1>5. CASE file' = file
  BY <1>5
<1>6. CASE ~Readable(file)
  BY <1>6, BrokenStays
<1>7. ASSUME Readable(file), NEW p \in Procs, NEW line \in Lines,
             file' = Append(file, line), ~LastOpen, line.torn \/ Ours(p, line)
      PROVE  \/ /\ HeldOf(file) = "open" /\ HeldOf(file') \in {"open", "hanging"}
                /\ \/ /\ \E effects \in Moves : Landed(file') = Landed(file) \o effects
                      /\ Says(file') = Says(file)
                   \/ /\ Says(file') =
                           Says(file) \cup {<<Len(Landed(file)), VerdictOf(Landed(file))>>}
                      /\ Landed(file') = Landed(file)
             \/ /\ HeldOf(file) = "open" /\ HeldOf(file') = "broken"
                /\ Landed(file') = Landed(file) /\ Says(file') = Says(file)
  <2>1. HeldOf(file) = "open" /\ Prefix(file) = file
    BY <1>1, <1>2, <1>7, PrefixIs
  <2>2. CASE ~Readable(file')
    <3>1. Prefix(file') = file
      BY <1>7, <2>2, LineAdded
    <3> QED BY <2>1, <2>2, <3>1
  <2>3. CASE Readable(file')
    <3>1. HeldOf(file') \in {"open", "hanging"} /\ Prefix(file') = Append(file, line)
      BY <1>1, <1>7, <2>3, PrefixIs
    <3>2. line.kind = "verdict" => line.effects = <<>> /\ line.outcome = Derive(file)
      BY <1>7, <2>3, LineAdded
    <3>3. \/ /\ \E effects \in Moves :
                     EffectsOf(Append(file, line)) = EffectsOf(file) \o effects
             /\ SaidOf(Append(file, line)) = SaidOf(file)
          \/ /\ SaidOf(Append(file, line)) =
                  SaidOf(file) \cup {<<Len(EffectsOf(file)), VerdictOf(EffectsOf(file))>>}
             /\ EffectsOf(Append(file, line)) = EffectsOf(file)
      BY <1>1, <1>4, <3>2
    <3> HIDE DEF HeldOf
    <3> QED BY <2>1, <3>1, <3>3
  <2> QED BY <2>2, <2>3
<1>8. ASSUME Readable(file), LastOpen, Len(file) \in 1..Len(file), Len(file') = Len(file),
             file'[Len(file)].torn, \A i \in 1..(Len(file) - 1) : file'[i] = file[i]
      PROVE  /\ HeldOf(file) = "hanging" /\ HeldOf(file') = "broken"
             /\ \/ /\ \E effects \in Moves : Landed(file) = Landed(file') \o effects
                   /\ Says(file') = Says(file)
                \/ /\ Says(file) =
                        Says(file') \cup {<<Len(Landed(file)), VerdictOf(Landed(file))>>}
                   /\ Landed(file') = Landed(file)
  <2> DEFINE n == Len(file)
             front == SubSeq(file, 1, n - 1)
             last == file[n]
  <2>1. n \in Nat \ {0} /\ last \in Lines /\ n \in DOMAIN file' /\ ~Parsed(file', n)
    BY <1>1, <1>8 DEF Parsed
  <2>2. /\ front \in Seq(Lines) /\ Len(front) = n - 1
        /\ \A i \in 1..(n - 1) : front[i] = file[i] /\ SubSeq(file', 1, n - 1)[i] = file'[i]
        /\ SubSeq(file', 1, n - 1) \in Seq(Lines) /\ Len(SubSeq(file', 1, n - 1)) = n - 1
    BY <1>1, <1>8, <2>1
  <2>3. SubSeq(file', 1, n - 1) = front
    <3>1. \A i \in 1..(n - 1) : SubSeq(file', 1, n - 1)[i] = front[i]
      BY <1>8, <2>2
    <3> HIDE DEF front
    <3> QED BY <2>2, <3>1, SeqEqual
  <2>4. file = Append(front, last)
    <3> HIDE DEF front, last
    <3>1. /\ Append(front, last) \in Seq(Lines) /\ Len(Append(front, last)) = n
          /\ \A i \in 1..(n - 1) : Append(front, last)[i] = front[i]
          /\ Append(front, last)[n] = last
      BY <2>1, <2>2, AppendProperties
    <3>2. \A i \in 1..n : file[i] = Append(front, last)[i]
      BY <2>1, <2>2, <3>1 DEF last
    <3> QED BY <1>1, <3>1, <3>2, SeqEqual
  <2>5. ~Readable(file')
    BY <2>1 DEF Readable
  <2>6. Prefix(file') = front
    <3>1. PICK m \in 1..Len(file') : /\ ~Parsed(file', m)
                                     /\ \A i \in 1..(m - 1) : Parsed(file', i)
                                     /\ Prefix(file') = SubSeq(file', 1, m - 1)
      BY <1>1, <2>5, PrefixIs
    <3>2. \A i \in 1..(n - 1) : Parsed(file', i)
      <4>1. \A i \in 1..(n - 1) : i \in DOMAIN file
        BY <1>1, <2>1
      <4>2. \A i \in 1..(n - 1) : file'[i] = file[i] /\ Parsed(file, i)
        BY <1>8, <4>1 DEF Readable
      <4> QED BY <4>2 DEF Parsed, Follows
    <3>3. m = n
      BY <1>8, <3>1, <3>2, <2>1
    <3> QED BY <2>3, <3>1, <3>3
  <2>7. Prefix(file) = file
    BY <1>1, <1>8, PrefixIs
  <2>8. last.kind = "verdict" => last.effects = <<>> /\ last.outcome = Derive(front)
    BY <1>8, <2>1 DEF LastSaysRight
  <2>9. HeldOf(file) = "hanging" /\ HeldOf(file') = "broken"
    BY <1>2, <1>8, <2>5
  <2> HIDE DEF front, last, HeldOf
  <2>10. \/ /\ \E effects \in Moves : EffectsOf(file) = EffectsOf(front) \o effects
            /\ SaidOf(file) = SaidOf(front)
         \/ /\ SaidOf(file) =
                 SaidOf(front) \cup {<<Len(EffectsOf(front)), VerdictOf(EffectsOf(front))>>}
            /\ EffectsOf(file) = EffectsOf(front)
    BY <1>4, <2>1, <2>2, <2>4, <2>8
  <2> QED BY <2>6, <2>7, <2>9, <2>10
<1> HIDE DEF HeldOf, Landed, Says
<1> QED
  BY <1>5, <1>6, <1>7, <1>8, FileSteps DEF HeldOf, Landed, Says

\* What a reader of the file sees is what the directory promises: each move lands whole or not at
\* all, each verdict says what landed before it, and nothing is lost but what a last line with no
\* end says, through every crash, deadline and second process.
THEOREM DirectoryKeepsPromise == Spec => KeepsPromise
<1>1. Init => LogsHeld /\ LastSaysRight /\ Promise!Init
  <2> SUFFICES ASSUME Init PROVE LogsHeld /\ LastSaysRight /\ Promise!Init
    OBVIOUS
  <2>1. \A p \in Procs : mem[p].entries = <<>> /\ mem[p].last = 0
    BY OutIs DEF Init, Ats, Genesis
  <2>2. SubSeq(<<>>, 1, 0) = <<>>
    OBVIOUS
  <2>3. LogsHeld
    <3>1. file = <<>> /\ Len(file) = 0
      BY DEF Init
    <3>2. \A p \in Procs : /\ mem[p].last <= Len(file)
                           /\ mem[p].entries = SubSeq(file, 1, mem[p].last)
      <4>1. SubSeq(file, 1, 0) = <<>>
        BY <2>2, <3>1
      <4> SUFFICES ASSUME NEW p \in Procs
                   PROVE  /\ mem[p].last <= Len(file)
                          /\ mem[p].entries = SubSeq(file, 1, mem[p].last)
        OBVIOUS
      <4>2. mem[p].last = 0 /\ mem[p].entries = <<>>
        BY <2>1
      <4> QED BY <3>1, <4>1, <4>2
    <3> QED BY <3>2 DEF LogsHeld
  <2>4. Prefix(<<>>) = <<>>
    BY DEF Prefix
  <2>5. [i \in DOMAIN <<>> |-> <<>>[i].effects] = <<>>
    OBVIOUS
  <2>6. EffectsOf(<<>>) = <<>>
    BY <2>5 DEF EffectsOf, FlattenSeq
  <2>7. SaidOf(<<>>) = {}
    BY DEF SaidOf
  <2>8. Held = "open" /\ LastSaysRight
    BY DEF Init, Held, Readable, LastOpen, LastSaysRight
  <2> QED BY <2>3, <2>4, <2>6, <2>7, <2>8 DEF Init, Promise!Init
<1>2. /\ Types /\ LogsHeld /\ LastSaysRight /\ [Next]_vars
      => LogsHeld' /\ LastSaysRight' /\ [Promise!Next]_Promise!vars
  <2> SUFFICES ASSUME Types, LogsHeld, LastSaysRight, [Next]_vars
               PROVE  LogsHeld' /\ LastSaysRight' /\ [Promise!Next]_Promise!vars
    OBVIOUS
  <2>1. CASE Next
    BY <2>1, LogsHeldKept, LastSaysRightKept, StepIsPromised
  <2>2. CASE UNCHANGED vars
    <3>1. LogsHeld' /\ LastSaysRight'
      BY <2>2 DEF vars, LogsHeld, TornBy, LastSaysRight, Readable, Parsed, Follows, Derive,
                  EffectsOf
    <3>2. UNCHANGED Promise!vars
      BY <2>2 DEF vars, Promise!vars, Held, LastOpen, Readable, Parsed, Follows
    <3> QED BY <3>1, <3>2
  <2> QED BY <2>1, <2>2
<1> QED
  BY <1>1, <1>2, RunTyped, PTL DEF Spec, KeepsPromise, Promise!Spec

-----------------------------------------------------------------------------
(* The tree a process holds.                                               *)

\* A log with no effects is one of a run that knows nothing yet.
LEMMA NothingDerived == Derive(<<>>) = "unknown"
<1> DEFINE Body(it, s) == IF s = {} THEN "unknown"
                          ELSE LET x == Max(s) IN Applied(it[s \ {x}], <<>>[x])
           first == [s \in SUBSET {} |-> "unknown"]
           it == CHOOSE it : it = [s \in SUBSET {} |-> Body(it, s)]
<1>1. first = [s \in SUBSET {} |-> Body(first, s)]
  <2>1. \A s \in SUBSET {} : s = {}
    OBVIOUS
  <2>2. \A s \in SUBSET {} : Body(first, s) = "unknown"
    BY <2>1
  <2> QED BY <2>2
<1>2. it = [s \in SUBSET {} |-> Body(it, s)]
  <2> HIDE DEF first, Body
  <2> QED BY <1>1
<1>3. it[{}] = "unknown"
  <2>1. {} \in SUBSET {}
    OBVIOUS
  <2>2. Body(it, {}) = "unknown"
    OBVIOUS
  <2> HIDE DEF it, Body
  <2> QED BY <1>2, <2>1, <2>2
<1>4. DOMAIN <<>> = {}
  OBVIOUS
<1>5. VerdictOf(<<>>) = it[DOMAIN <<>>]
  BY <1>4 DEF VerdictOf, FoldLeft, MapThenFoldSet
<1>6. EffectsOf(<<>>) = <<>>
  <2>1. [i \in DOMAIN <<>> |-> <<>>[i].effects] = <<>>
    OBVIOUS
  <2> QED BY <2>1 DEF EffectsOf, FlattenSeq
<1> QED
  BY <1>3, <1>4, <1>5, <1>6 DEF Derive

(* The tree a process holds is the one its log derives, but for what a strengthen under way
   has landed in it. *)
TreeHeld(m) == m.at \in {"crossing", "logging"} \/ m.tree = Derive(m.entries)

TreesHeld == \A p \in Procs : TreeHeld(mem[p])

\* A process that is out holds no tree.
LEMMA OutHolds ==
  ASSUME NEW where
  PROVE  TreeHeld(Out(where)) /\ Out(where).tree = "unknown" /\ Out(where).entries = <<>>
BY NothingDerived DEF TreeHeld, Out

\* What is written is what the tree is derived from.
LEMMA RecordingHolds ==
  ASSUME Types, NEW p \in Procs, NEW line
  PROVE  Recording(p, line).tree = Derive(Recording(p, line).entries)
<1>1. mem[p] \in Memories
  BY DEF Types, Typed
<1> QED
  BY <1>1 DEF Recording, Memories

\* Every step keeps the trees: of the process that takes it, and of the others.
LEMMA TreesKept ==
  ASSUME Types, TreesHeld, Next
  PROVE  TreesHeld'
<1>0. mem \in [Procs -> Memories]
  BY DEF Types, Typed
<1>1. PICK p \in Procs :
        \/ Start(p) \/ StorePair(p) \/ LogStart(p) \/ EagerCheck(p) \/ Opening(p) \/ Resume(p)
        \/ BeginMove(p) \/ StoreProgram(p) \/ LandContract(p) \/ LandCrossCheck(p) \/ EndMove(p)
        \/ LogCall(p) \/ LogResult(p) \/ EndTurn(p) \/ NoteBudget(p) \/ EndLoop(p)
        \/ Quit(p) \/ Crash(p) \/ CrashInLine(p) \/ CrashInPut(p)
  BY DEF Next
<1>2. ASSUME NEW m, TreeHeld(m), mem' = [mem EXCEPT ![p] = m]
      PROVE  TreesHeld'
  <2>1. mem'[p] = m /\ \A q \in Procs \ {p} : mem'[q] = mem[q]
    BY <1>0, <1>2
  <2>2. \A q \in Procs : TreeHeld(mem'[q])
    BY <1>2, <2>1 DEF TreesHeld
  <2> QED BY <2>2 DEF TreesHeld, TreeHeld
<1>3. mem[p] \in Memories /\ TreeHeld(mem[p])
  BY <1>0 DEF TreesHeld
<1>4. ASSUME NEW m, ~At(p, "crossing"), ~At(p, "logging"),
             m.tree = mem[p].tree, m.entries = mem[p].entries, mem' = [mem EXCEPT ![p] = m]
      PROVE  TreesHeld'
  <2>1. TreeHeld(m)
    BY <1>3, <1>4 DEF TreeHeld, At
  <2> QED BY <1>2, <1>4, <2>1
<1>5. ASSUME NEW m, NEW line,
             m.tree = Recording(p, line).tree, m.entries = Recording(p, line).entries,
             mem' = [mem EXCEPT ![p] = m]
      PROVE  TreesHeld'
  <2>1. Recording(p, line).tree = Derive(Recording(p, line).entries)
    BY RecordingHolds
  <2>2. TreeHeld(m)
    BY <1>5, <2>1 DEF TreeHeld
  <2> QED BY <1>2, <1>5, <2>2
<1>6. ASSUME NEW where, mem' = [mem EXCEPT ![p] = Out(where)]
      PROVE  TreesHeld'
  BY <1>2, <1>6, OutHolds
<1>7. ASSUME NEW line, NEW where, mem' = [mem EXCEPT ![p] = [Recording(p, line) EXCEPT !.at = where]]
      PROVE  TreesHeld'
  <2> DEFINE m == [Recording(p, line) EXCEPT !.at = where]
  <2>1. m.tree = Recording(p, line).tree /\ m.entries = Recording(p, line).entries
    BY DEF Recording
  <2> HIDE DEF m
  <2> QED BY <1>5, <1>7, <2>1 DEF m
<1>8. CASE Start(p)
  <2> DEFINE m == [Out("off") EXCEPT !.at = "starting"]
  <2>1. m = Out("starting")
    BY DEF Out
  <2> QED BY <1>6, <1>8, <2>1 DEF Start
<1>9. CASE StorePair(p) \/ BeginMove(p) \/ StoreProgram(p) \/ EndTurn(p)
  <2>1. ~At(p, "crossing") /\ ~At(p, "logging")
    BY <1>9 DEF StorePair, BeginMove, StoreProgram, EndTurn, At
  <2>2. \E m : m.tree = mem[p].tree /\ m.entries = mem[p].entries /\ mem' = [mem EXCEPT ![p] = m]
    <3>1. CASE StorePair(p)
      <4> WITNESS [mem[p] EXCEPT !.at = "stored"]
      <4> QED BY <1>0, <1>3, <3>1 DEF StorePair, Memories
    <3>2. CASE BeginMove(p)
      <4> WITNESS [mem[p] EXCEPT !.at = "moving", !.landing = <<>>]
      <4> QED BY <1>0, <1>3, <3>2 DEF BeginMove, Memories
    <3>3. CASE StoreProgram(p)
      <4> WITNESS [mem[p] EXCEPT !.at = "placing"]
      <4> QED BY <1>0, <1>3, <3>3 DEF StoreProgram, Memories
    <3>4. CASE EndTurn(p)
      <4>1. CASE mem' = [mem EXCEPT ![p].at = "stopping"]
        <5> WITNESS [mem[p] EXCEPT !.at = "stopping"]
        <5> QED BY <1>0, <1>3, <4>1 DEF Memories
      <4>2. ASSUME NEW where, mem' = [mem EXCEPT ![p].turns = @ + 1, ![p].at = where]
            PROVE  \E m : m.tree = mem[p].tree /\ m.entries = mem[p].entries
                          /\ mem' = [mem EXCEPT ![p] = m]
        <5> WITNESS [mem[p] EXCEPT !.turns = @ + 1, !.at = where]
        <5> QED BY <1>0, <1>3, <4>2 DEF Memories
      <4> QED BY <3>4, <4>1, <4>2 DEF EndTurn
    <3> QED BY <1>9, <3>1, <3>2, <3>3, <3>4
  <2> QED BY <1>4, <2>1, <2>2
<1>10. CASE LogStart(p) \/ EagerCheck(p) \/ NoteBudget(p)
  BY <1>7, <1>10 DEF LogStart, EagerCheck, NoteBudget, Records
<1>11. CASE LogCall(p)
  <2> DEFINE line == CallLine(p)
             m == [Recording(p, line) EXCEPT !.at = "answering", !.calls = mem[p].calls + 1]
  <2>1. m.tree = Recording(p, line).tree /\ m.entries = Recording(p, line).entries
    BY DEF Recording
  <2>2. mem' = [mem EXCEPT ![p] = m]
    <3>1. Recording(p, line).calls = mem[p].calls
      BY <1>3 DEF Recording, Memories
    <3> QED BY <1>11, <3>1 DEF LogCall
  <2> HIDE DEF m
  <2> QED BY <1>5, <2>1, <2>2
<1>12. CASE LogResult(p)
  <2> DEFINE line == ResultLine(p)
             m == [Recording(p, line) EXCEPT !.at = "idle", !.landing = <<>>]
  <2>1. m.tree = Recording(p, line).tree /\ m.entries = Recording(p, line).entries
    BY DEF Recording
  <2>2. mem' = [mem EXCEPT ![p] = m]
    BY <1>12 DEF LogResult
  <2> HIDE DEF m
  <2> QED BY <1>5, <2>1, <2>2
<1>13. CASE LandContract(p) \/ LandCrossCheck(p)
  <2>1. PICK effect : Lands(p, effect)
    BY <1>13 DEF LandContract, LandCrossCheck
  <2> DEFINE m == [mem[p] EXCEPT !.at = "crossing", !.landing = Append(@, effect),
                                 !.tree = Applied(@, effect)]
  <2>2. m.at = "crossing" /\ mem' = [mem EXCEPT ![p] = m]
    BY <1>0, <1>3, <2>1 DEF Lands, Memories
  <2> HIDE DEF m
  <2>3. TreeHeld(m)
    BY <2>2 DEF TreeHeld
  <2> QED BY <1>2, <2>2, <2>3
<1>14. CASE EndMove(p)
  <2>1. PICK effects : mem' = [mem EXCEPT ![p].at = "logging", ![p].landing = effects]
    BY <1>14 DEF EndMove
  <2> DEFINE m == [mem[p] EXCEPT !.at = "logging", !.landing = effects]
  <2>2. m.at = "logging" /\ mem' = [mem EXCEPT ![p] = m]
    BY <1>0, <1>3, <2>1 DEF Memories
  <2> HIDE DEF m
  <2>3. TreeHeld(m)
    BY <2>2 DEF TreeHeld
  <2> QED BY <1>2, <2>2, <2>3
<1>15. CASE Quit(p)
  BY <1>6, <1>15 DEF Quit, Close
<1>16. CASE Crash(p) \/ CrashInLine(p) \/ CrashInPut(p)
  BY <1>6, <1>16 DEF Crash, CrashInLine, CrashInPut
<1>17. CASE Opening(p)
  <2>1. CASE mem[p].tree # "unknown"
    BY <1>6, <1>17, <2>1 DEF Opening, Close
  <2>2. CASE mem[p].tree = "unknown"
    <3> DEFINE m == [mem[p] EXCEPT !.at = "idle"]
    <3>1. /\ m.tree = mem[p].tree /\ m.entries = mem[p].entries /\ mem' = [mem EXCEPT ![p] = m]
          /\ ~At(p, "crossing") /\ ~At(p, "logging")
      BY <1>0, <1>3, <1>17, <2>2 DEF Opening, Memories, At
    <3> HIDE DEF m
    <3> QED BY <1>4, <3>1
  <2> QED BY <2>1, <2>2
<1>18. CASE Resume(p)
  <2> DEFINE m == [Out("off") EXCEPT !.at = "idle", !.entries = file, !.last = Len(file),
                                     !.tree = Derive(file)]
  <2>1. m.tree = Derive(m.entries)
    BY DEF Out
  <2>2. mem' = [mem EXCEPT ![p] = m]
    BY <1>18 DEF Resume
  <2> HIDE DEF m
  <2> QED BY <1>2, <2>1, <2>2 DEF TreeHeld
<1>19. CASE EndLoop(p)
  <2>1. CASE p \in Headless
    BY <1>6, <1>19, <2>1 DEF EndLoop, Close
  <2>2. CASE p \notin Headless
    <3> DEFINE line == VerdictLine(p)
    <3>1. ASSUME NEW left, mem' = [mem EXCEPT ![p] = [left EXCEPT !.at = "idle", !.landing = <<>>]],
                 left \in {mem[p], [Recording(p, line) EXCEPT !.closed = Outcome(p)]}
          PROVE  TreesHeld'
      <4> DEFINE m == [left EXCEPT !.at = "idle", !.landing = <<>>]
      <4>1. CASE left = mem[p]
        <5>1. m.tree = mem[p].tree /\ m.entries = mem[p].entries
          BY <1>3, <4>1 DEF Memories
        <5>2. ~At(p, "crossing") /\ ~At(p, "logging")
          BY <1>19 DEF EndLoop, At
        <5> HIDE DEF m
        <5> QED BY <1>4, <3>1, <5>1, <5>2 DEF m
      <4>2. CASE left = [Recording(p, line) EXCEPT !.closed = Outcome(p)]
        <5>1. m.tree = Recording(p, line).tree /\ m.entries = Recording(p, line).entries
          BY <4>2 DEF Recording
        <5> HIDE DEF m
        <5> QED BY <1>5, <3>1, <5>1 DEF m
      <4> QED BY <3>1, <4>1, <4>2
    <3> QED BY <1>19, <2>2, <3>1 DEF EndLoop, Close, Said
  <2> QED BY <2>1, <2>2
<1> QED
  BY <1>1, <1>8, <1>9, <1>10, <1>11, <1>12, <1>13, <1>14, <1>15, <1>16, <1>17, <1>18, <1>19

\* A type invariant whose point is the tree: between two moves the tree a process works on is
\* the one its log derives, so what it acts on is what a resume would find (session.ts append,
\* strengthen.ts land).
THEOREM TreesAreDerived == Spec => []TypeOK
<1>1. Init => TreesHeld
  BY OutHolds DEF Init, TreesHeld
<1>2. Types /\ TreesHeld /\ [Next]_vars => TreesHeld'
  <2> SUFFICES ASSUME Types, TreesHeld, [Next]_vars PROVE TreesHeld'
    OBVIOUS
  <2>1. CASE Next
    BY <2>1, TreesKept
  <2>2. CASE UNCHANGED vars
    BY <2>2 DEF vars, TreesHeld, TreeHeld
  <2> QED BY <2>1, <2>2
<1>3. Types /\ TreesHeld => TypeOK
  <2> SUFFICES ASSUME Types, TreesHeld PROVE TypeOK
    OBVIOUS
  <2>1. store \in [Programs -> {"absent", "half", "whole"}]
    BY DEF Types, Typed
  <2>2. \A i \in DOMAIN file : file[i] \in Lines
    BY DEF Types, Typed
  <2>3. \A i \in DOMAIN file : file[i].kind \in Kinds /\ file[i].effects \in Moves
    BY <2>2 DEF Lines
  <2>4. \A p \in Procs : mem[p].landing \in Moves
    BY DEF Types, Typed, Memories
  <2>5. \A p \in Procs : mem[p].tree = IF At(p, "crossing") \/ At(p, "logging")
                                       THEN mem[p].tree ELSE Derive(mem[p].entries)
    BY DEF TreesHeld, TreeHeld, At
  <2> QED BY <2>1, <2>3, <2>4, <2>5 DEF TypeOK
<1> QED
  BY <1>1, <1>2, <1>3, RunTyped, PTL DEF Spec

=============================================================================
