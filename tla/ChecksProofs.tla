------------------------------ MODULE ChecksProofs ------------------------------
(***************************************************************************)
(* That what is certified is so, for any values, any lines and what they   *)
(* do, any programs, facts and unroll factors.                             *)
(***************************************************************************)
EXTENDS Checks, FlattenProofs, FiniteSetTheorems

-----------------------------------------------------------------------------
(* What lines do.                                                          *)

States == Values \cup {Undefined}

(* f holds the value before the first line and after each. *)
Runs(f, lines, v) ==
  f = [n \in 0..Len(lines) |->
         IF n = 0 THEN v
         ELSE IF f[n - 1] = Undefined THEN Undefined ELSE Perform(lines[n], f[n - 1])]

\* There is such an f ...
LEMMA RunsExists ==
  ASSUME NEW lines \in Seq(Lines), NEW v
  PROVE  \E f : Runs(f, lines, v)
<1> DEFINE Up(f, m) == f = [n \in 0..m |->
                              IF n = 0 THEN v
                              ELSE IF f[n - 1] = Undefined THEN Undefined
                              ELSE Perform(lines[n], f[n - 1])]
           T == {n \in Nat : ~ \E f : Up(f, n)}
<1>0. Len(lines) \in Nat
  OBVIOUS
<1>1. SUFFICES T = {}
  BY <1>0 DEF Runs
<1>2. SUFFICES ASSUME T # {} PROVE FALSE
  OBVIOUS
<1>3. PICK m \in T : \A y \in T : m <= y
  <2>1. T \subseteq Nat
    OBVIOUS
  <2> HIDE DEF T
  <2> QED BY <1>2, <2>1, LeastNat
<1>4. m # 0
  <2>1. Up([n \in 0..0 |-> v], 0)
    OBVIOUS
  <2> QED BY <2>1
<1>5. m - 1 \in Nat /\ m - 1 \notin T /\ m \in Nat
  <2>1. m \in Nat /\ ~ (m <= m - 1)
    BY <1>3
  <2> HIDE DEF T
  <2> QED BY <1>3, <1>4, <2>1
<1>6. PICK f : Up(f, m - 1)
  BY <1>5
<1> DEFINE Step(h, n) == IF h = Undefined THEN Undefined ELSE Perform(lines[n], h)
<1>7. \A n \in 0..(m - 1) : f[n] = IF n = 0 THEN v ELSE Step(f[n - 1], n)
  BY <1>6
<1> DEFINE g == [n \in 0..m |-> IF n = 0 THEN v ELSE Step(f[n - 1], n)]
<1> HIDE DEF Step
<1>8. \A n \in 0..(m - 1) : g[n] = f[n]
  BY <1>5, <1>7
<1>9. \A n \in 0..m : n # 0 => n - 1 \in 0..(m - 1)
  BY <1>5
<1>10. g = [n \in 0..m |-> IF n = 0 THEN v ELSE Step(g[n - 1], n)]
  <2>1. \A n \in 0..m : (IF n = 0 THEN v ELSE Step(f[n - 1], n))
                          = (IF n = 0 THEN v ELSE Step(g[n - 1], n))
    BY <1>8, <1>9
  <2> QED BY <2>1
<1>11. Up(g, m)
  <2> HIDE DEF g
  <2> QED BY <1>10 DEF Step
<1> QED
  BY <1>3, <1>11

\* ... and only one.
LEMMA RunsUnique ==
  ASSUME NEW lines \in Seq(Lines), NEW v, NEW f, Runs(f, lines, v), NEW g, Runs(g, lines, v)
  PROVE  f = g
<1> DEFINE Step(h, n) == IF h = Undefined THEN Undefined ELSE Perform(lines[n], h)
<1>0. Len(lines) \in Nat
  OBVIOUS
<1>1. /\ f = [n \in 0..Len(lines) |-> IF n = 0 THEN v ELSE Step(f[n - 1], n)]
      /\ g = [n \in 0..Len(lines) |-> IF n = 0 THEN v ELSE Step(g[n - 1], n)]
  BY DEF Runs
<1> HIDE DEF Step
<1>2. \A n \in 0..Len(lines) : /\ f[n] = (IF n = 0 THEN v ELSE Step(f[n - 1], n))
                               /\ g[n] = (IF n = 0 THEN v ELSE Step(g[n - 1], n))
  BY <1>1
<1> DEFINE T == {n \in 0..Len(lines) : f[n] # g[n]}
<1>3. T = {}
  <2> SUFFICES ASSUME T # {} PROVE FALSE
    OBVIOUS
  <2>1. T \subseteq Nat
    BY <1>0
  <2>2. PICK m \in T : \A y \in T : m <= y
    <3> HIDE DEF T
    <3> QED BY <2>1, LeastNat
  <2>3. m # 0
    BY <1>2
  <2>4. m - 1 \in 0..Len(lines) /\ ~ (m <= m - 1)
    BY <1>0, <2>3
  <2>5. f[m - 1] = g[m - 1]
    BY <2>2, <2>4
  <2> QED BY <1>2, <2>3, <2>5
<1>4. \A n \in 0..Len(lines) : f[n] = g[n]
  BY <1>3
<1>5. /\ DOMAIN f = 0..Len(lines) /\ DOMAIN g = 0..Len(lines)
      /\ f = [n \in DOMAIN f |-> f[n]] /\ g = [n \in DOMAIN g |-> g[n]]
  BY <1>1
<1> QED
  BY <1>4, <1>5

\* What lines come to is the last of those values.
LEMMA RunLinesIs ==
  ASSUME NEW lines \in Seq(Lines), NEW v
  PROVE  \E f : Runs(f, lines, v) /\ RunLines(lines, v) = f[Len(lines)]
<1> DEFINE h == CHOOSE f : Runs(f, lines, v)
<1>1. Runs(h, lines, v)
  BY RunsExists
<1>2. RunLines(lines, v) = h[Len(lines)]
  BY DEF RunLines, Runs
<1> QED
  BY <1>1, <1>2

\* No line leaves a value as it is ...
LEMMA RunLinesEmpty ==
  ASSUME NEW v
  PROVE  RunLines(<<>>, v) = v
<1>1. <<>> \in Seq(Lines) /\ Len(<<>>) = 0
  BY EmptySeq
<1>2. PICK f : Runs(f, <<>>, v) /\ RunLines(<<>>, v) = f[Len(<<>>)]
  BY <1>1, RunLinesIs
<1> QED
  BY <1>1, <1>2 DEF Runs

\* ... and one more does what it does to the value the others leave.
LEMMA RunLinesAppend ==
  ASSUME NEW lines \in Seq(Lines), NEW line \in Lines, NEW v
  PROVE  RunLines(Append(lines, line), v) =
           LET w == RunLines(lines, v)
           IN  IF w = Undefined THEN Undefined ELSE Perform(line, w)
<1> DEFINE more == Append(lines, line)
           Step(h, x) == IF h = Undefined THEN Undefined ELSE Perform(x, h)
<1>0. /\ more \in Seq(Lines) /\ Len(more) = Len(lines) + 1 /\ more[Len(lines) + 1] = line
      /\ \A n \in 1..Len(lines) : more[n] = lines[n]
      /\ Len(lines) \in Nat
  BY AppendProperties
<1> HIDE DEF more
<1>1. PICK f : Runs(f, more, v) /\ RunLines(more, v) = f[Len(more)]
  BY <1>0, RunLinesIs
<1>2. PICK g : Runs(g, lines, v) /\ RunLines(lines, v) = g[Len(lines)]
  BY RunLinesIs
<1>3. f = [n \in 0..Len(more) |-> IF n = 0 THEN v ELSE Step(f[n - 1], more[n])]
  BY <1>1 DEF Runs
<1> HIDE DEF Step
<1>4. \A n \in 0..Len(more) : f[n] = IF n = 0 THEN v ELSE Step(f[n - 1], more[n])
  BY <1>3
<1> DEFINE r == [n \in 0..Len(lines) |-> f[n]]
<1>5. r = [n \in 0..Len(lines) |-> IF n = 0 THEN v ELSE Step(r[n - 1], lines[n])]
  <2>1. \A n \in 0..Len(lines) : n # 0 => n - 1 \in 0..Len(lines) /\ n \in 1..Len(lines)
    BY <1>0
  <2>2. \A n \in 0..Len(lines) : n # 0 => r[n - 1] = f[n - 1] /\ more[n] = lines[n]
    BY <1>0, <2>1
  <2>3. \A n \in 0..Len(lines) : n \in 0..Len(more)
    BY <1>0
  <2>4. \A n \in 0..Len(lines) : f[n] = IF n = 0 THEN v ELSE Step(r[n - 1], lines[n])
    BY <1>4, <2>2, <2>3
  <2> QED BY <2>4
<1>6. Runs(r, lines, v)
  <2> HIDE DEF r
  <2> QED BY <1>5 DEF Runs, Step
<1>7. g = r
  <2> HIDE DEF r
  <2> QED BY <1>2, <1>6, RunsUnique
<1>8. f[Len(lines)] = g[Len(lines)]
  BY <1>0, <1>7
<1>9. f[Len(more)] = Step(f[Len(lines)], line)
  BY <1>0, <1>4
<1> QED
  BY <1>1, <1>2, <1>8, <1>9 DEF Step, more
-----------------------------------------------------------------------------
(* What lines do after other lines.                                        *)

\* What stands for no value is none.
LEMMA UndefinedIsNoValue == Undefined \notin Values /\ CutOff \notin States /\ Diverges \notin States
  BY ValuesAreNat DEF Undefined, CutOff, Diverges, States

\* A line takes a value to a value or to undefined behavior ...
LEMMA PerformStays ==
  ASSUME NEW line \in Lines, NEW v \in Values
  PROVE  Perform(line, v) \in States
<1>1. CASE \E op \in Ops : line = Line(op)
  BY <1>1, OpsStay DEF Line, Perform, States
<1>2. CASE \E vs \in SUBSET Values : line = Assume(vs)
  BY <1>2 DEF Assume, Perform, States
<1> QED
  BY <1>1, <1>2 DEF Lines

\* ... and so do lines, which do not come back from undefined behavior.
LEMMA RunLinesStays ==
  ASSUME NEW lines \in Seq(Lines)
  PROVE  /\ RunLines(lines, Undefined) = Undefined
         /\ \A v \in States : RunLines(lines, v) \in States
<1> DEFINE G == {b \in Seq(Lines) : /\ RunLines(b, Undefined) = Undefined
                                    /\ \A v \in States : RunLines(b, v) \in States}
<1>1. G \subseteq Seq(Lines)
  OBVIOUS
<1>2. <<>> \in G
  BY EmptySeq, RunLinesEmpty
<1>3. ASSUME NEW b \in G, NEW x \in Lines PROVE Append(b, x) \in G
  <2>1. Append(b, x) \in Seq(Lines)
    BY AppendProperties
  <2>2. \A v : RunLines(Append(b, x), v) =
                 IF RunLines(b, v) = Undefined THEN Undefined ELSE Perform(x, RunLines(b, v))
    BY RunLinesAppend
  <2>3. \A v \in States : RunLines(b, v) = Undefined \/ RunLines(b, v) \in Values
    BY DEF States
  <2>4. \A v \in States : RunLines(Append(b, x), v) \in States
    BY <2>2, <2>3, PerformStays DEF States
  <2> QED BY <2>1, <2>2, <2>4
<1> HIDE DEF G
<1>4. \A b \in Seq(Lines) : b \in G
  BY <1>1, <1>2, <1>3, SeqInduct
<1> QED
  BY <1>4 DEF G

\* Lines put after others go on with what those leave.
LEMMA RunLinesConcat ==
  ASSUME NEW a \in Seq(Lines), NEW b \in Seq(Lines), NEW v
  PROVE  RunLines(a \o b, v) = RunLines(b, RunLines(a, v))
<1> DEFINE w == RunLines(a, v)
           G == {c \in Seq(Lines) : RunLines(a \o c, v) = RunLines(c, w)}
<1>1. G \subseteq Seq(Lines)
  OBVIOUS
<1>2. <<>> \in G
  BY EmptySeq, ConcatEmptySeq, RunLinesEmpty
<1>3. ASSUME NEW c \in G, NEW x \in Lines PROVE Append(c, x) \in G
  <2>1. a \o Append(c, x) = Append(a \o c, x)
    <3>1. \A s \in Seq(Lines) : Append(s, x) = s \o <<x>>
      BY AppendIsConcat
    <3>2. a \o c \in Seq(Lines) /\ <<x>> \in Seq(Lines) /\ c \in Seq(Lines)
      BY ConcatProperties
    <3> QED BY <3>1, <3>2, ConcatAssociative
  <2>2. a \o c \in Seq(Lines) /\ Append(c, x) \in Seq(Lines)
    BY ConcatProperties, AppendProperties
  <2>3. RunLines(Append(a \o c, x), v) =
          IF RunLines(a \o c, v) = Undefined THEN Undefined ELSE Perform(x, RunLines(a \o c, v))
    BY <2>2, RunLinesAppend
  <2>4. RunLines(Append(c, x), w) =
          IF RunLines(c, w) = Undefined THEN Undefined ELSE Perform(x, RunLines(c, w))
    BY RunLinesAppend
  <2> HIDE DEF w
  <2> QED BY <2>1, <2>2, <2>3, <2>4
<1> HIDE DEF G
<1>4. \A c \in Seq(Lines) : c \in G
  BY <1>1, <1>2, <1>3, SeqInduct
<1> QED
  BY <1>4 DEF G

-----------------------------------------------------------------------------
(* Programs that do as much, block by block.                               *)

\* u may stand where w stood.
Below(w, u) == w \in {Undefined, u}

LinesBelow(a, b) == \A v \in Values : Below(RunLines(a, v), RunLines(b, v))

PiecesBelow(s, t) == Len(s) = Len(t) /\ \A i \in 1..Len(s) : LinesBelow(s[i], t[i])

\* What may stand for two pieces of a block may stand for both at once ...
LEMMA BelowConcat ==
  ASSUME NEW a \in Seq(Lines), NEW b \in Seq(Lines), NEW c \in Seq(Lines), NEW d \in Seq(Lines),
         LinesBelow(a, b), LinesBelow(c, d)
  PROVE  LinesBelow(a \o c, b \o d)
<1> SUFFICES ASSUME NEW v \in Values PROVE Below(RunLines(a \o c, v), RunLines(b \o d, v))
  BY DEF LinesBelow
<1>1. /\ RunLines(a \o c, v) = RunLines(c, RunLines(a, v))
      /\ RunLines(b \o d, v) = RunLines(d, RunLines(b, v))
  BY RunLinesConcat
<1>2. RunLines(a, v) \in States
  BY RunLinesStays DEF States
<1>3. CASE RunLines(a, v) = Undefined
  <2>1. RunLines(c, Undefined) = Undefined
    BY RunLinesStays
  <2> QED BY <1>1, <1>3, <2>1 DEF Below
<1>4. CASE RunLines(a, v) # Undefined
  <2>1. RunLines(a, v) \in Values /\ RunLines(b, v) = RunLines(a, v)
    BY <1>2, <1>4 DEF States, LinesBelow, Below
  <2> QED BY <1>1, <2>1 DEF LinesBelow
<1> QED
  BY <1>3, <1>4

\* No blocks are no lines.
LEMMA FlattenEmpty == FlattenSeq(<<>>) = <<>>
  BY DEF FlattenSeq

\* ... and for any number of them.
LEMMA BelowFlatten ==
  ASSUME NEW s \in Seq(Seq(Lines)), NEW t \in Seq(Seq(Lines)), PiecesBelow(s, t)
  PROVE  LinesBelow(FlattenSeq(s), FlattenSeq(t))
<1> DEFINE P(a) == \A b \in Seq(Seq(Lines)) :
                     PiecesBelow(a, b) => LinesBelow(FlattenSeq(a), FlattenSeq(b))
           G == {a \in Seq(Seq(Lines)) : P(a)}
<1>1. G \subseteq Seq(Seq(Lines))
  OBVIOUS
<1>2. <<>> \in G
  <2>1. <<>> \in Seq(Seq(Lines))
    BY EmptySeq
  <2>2. ASSUME NEW b \in Seq(Seq(Lines)), PiecesBelow(<<>>, b)
        PROVE  LinesBelow(FlattenSeq(<<>>), FlattenSeq(b))
    <3>1. b = <<>>
      BY <2>2, EmptySeq DEF PiecesBelow
    <3> QED BY <3>1 DEF LinesBelow, Below
  <2> QED BY <2>1, <2>2
<1>3. ASSUME NEW a \in G, NEW x \in Seq(Lines) PROVE Append(a, x) \in G
  <2>0. /\ Append(a, x) \in Seq(Seq(Lines)) /\ Len(Append(a, x)) = Len(a) + 1
        /\ Append(a, x)[Len(a) + 1] = x /\ Len(a) \in Nat /\ a \in Seq(Seq(Lines))
        /\ \A i \in 1..Len(a) : Append(a, x)[i] = a[i]
    BY AppendIs
  <2>1. ASSUME NEW b \in Seq(Seq(Lines)), PiecesBelow(Append(a, x), b)
        PROVE  LinesBelow(FlattenSeq(Append(a, x)), FlattenSeq(b))
    <3> DEFINE n == Len(a)
    <3>1. Len(b) = n + 1 /\ \A i \in 1..(n + 1) : LinesBelow(Append(a, x)[i], b[i])
      BY <2>0, <2>1 DEF PiecesBelow
    <3>2. PICK c \in Seq(Seq(Lines)) : \E z \in Seq(Lines) :
            b = Append(c, z) /\ Len(c) = n /\ z = b[n + 1] /\ \A i \in 1..n : c[i] = b[i]
      <4>1. n \in Nat /\ Len(b) = n + 1
        BY <2>0, <3>1
      <4> DEFINE LL == Seq(Lines)
      <4> HIDE DEF n, LL
      <4>2. ASSUME b \in Seq(LL)
            PROVE  \E c \in Seq(LL) : \E z \in LL :
                     b = Append(c, z) /\ Len(c) = n /\ z = b[n + 1] /\ \A i \in 1..n : c[i] = b[i]
        BY <4>1, <4>2, LastApart
      <4> QED BY <4>2 DEF LL
    <3>3. PICK y \in Seq(Lines) :
            b = Append(c, y) /\ Len(c) = n /\ y = b[n + 1] /\ \A i \in 1..n : c[i] = b[i]
      BY <3>2
    <3>7. \A i \in 1..n : LinesBelow(a[i], c[i])
      <4>1. \A i \in 1..n : i \in 1..(n + 1) /\ Append(a, x)[i] = a[i] /\ b[i] = c[i]
        BY <2>0, <3>3
      <4> QED BY <3>1, <4>1, Zenon
    <3>8. LinesBelow(x, y)
      <4>1. n + 1 \in 1..(n + 1)
        BY <2>0
      <4>2. LinesBelow(Append(a, x)[n + 1], b[n + 1])
        BY <3>1, <4>1, Zenon
      <4> QED BY <2>0, <3>3, <4>2, Zenon
    <3>9. LinesBelow(FlattenSeq(a), FlattenSeq(c))
      BY <3>3, <3>7 DEF PiecesBelow
    <3>10. /\ FlattenSeq(Append(a, x)) = FlattenSeq(a) \o x /\ FlattenSeq(a) \in Seq(Lines)
           /\ FlattenSeq(Append(c, y)) = FlattenSeq(c) \o y /\ FlattenSeq(c) \in Seq(Lines)
      BY <2>0, FlattenAppend
    <3>11. LinesBelow(FlattenSeq(a) \o x, FlattenSeq(c) \o y)
      BY <3>8, <3>9, <3>10, BelowConcat
    <3> QED BY <3>3, <3>10, <3>11
  <2> QED BY <2>0, <2>1
<1> HIDE DEF G
<1>4. \A a \in Seq(Seq(Lines)) : a \in G
  BY <1>1, <1>2, <1>3, SeqInduct
<1> QED
  BY <1>4 DEF G

-----------------------------------------------------------------------------
(* Loops.                                                                  *)

\* A least number is the least.
LEMMA MinIs ==
  ASSUME NEW T, T \subseteq Nat, T # {}
  PROVE  Min(T) \in T /\ \A y \in T : Min(T) <= y
<1>1. \E x \in T : \A y \in T : x <= y
  BY LeastNat
<1> QED
  BY <1>1 DEF Min

\* The lines of n rounds, and of one more.
LEMMA RepeatIs ==
  ASSUME NEW lines \in Seq(Lines), NEW n \in Nat
  PROVE  LET s == [i \in 1..n |-> lines]
         IN  /\ s \in Seq(Seq(Lines)) /\ Len(s) = n /\ FlattenSeq(s) \in Seq(Lines)
             /\ FlattenSeq([i \in 1..(n + 1) |-> lines]) = FlattenSeq(s) \o lines
<1> DEFINE s == [i \in 1..n |-> lines]
           t == [i \in 1..(n + 1) |-> lines]
<1>1. s \in Seq(Seq(Lines)) /\ Len(s) = n /\ \A i \in 1..n : s[i] = lines
  OBVIOUS
<1>2. t \in Seq(Seq(Lines)) /\ Len(t) = n + 1 /\ \A i \in 1..(n + 1) : t[i] = lines
  <2>1. n + 1 \in Nat
    OBVIOUS
  <2> QED BY <2>1
<1> HIDE DEF s, t
<1>3. t = Append(s, lines)
  <2>1. /\ Append(s, lines) \in Seq(Seq(Lines)) /\ Len(Append(s, lines)) = n + 1
        /\ Append(s, lines)[n + 1] = lines
        /\ \A i \in 1..n : Append(s, lines)[i] = lines
    BY <1>1, AppendIs
  <2>2. \A i \in 1..Len(t) : t[i] = Append(s, lines)[i]
    BY <1>2, <2>1
  <2> QED BY <1>2, <2>1, <2>2, SeqEqual
<1>4. FlattenSeq(t) = FlattenSeq(s) \o lines /\ FlattenSeq(s) \in Seq(Lines)
  BY <1>1, <1>3, FlattenAppend
<1> QED
  BY <1>1, <1>4 DEF s, t

\* One round more goes on with what the rounds before left, ...
LEMMA RoundIs ==
  ASSUME NEW lines \in Seq(Lines), NEW v
  PROVE  /\ Round(lines, v, 0) = v
         /\ \A n \in Nat : Round(lines, v, n + 1) = RunLines(lines, Round(lines, v, n))
<1>1. Round(lines, v, 0) = v
  <2>1. [i \in 1..0 |-> lines] = <<>>
    OBVIOUS
  <2> QED BY <2>1, FlattenEmpty, RunLinesEmpty DEF Round
<1>2. ASSUME NEW n \in Nat PROVE Round(lines, v, n + 1) = RunLines(lines, Round(lines, v, n))
  <2> DEFINE s == FlattenSeq([i \in 1..n |-> lines])
             t == FlattenSeq([i \in 1..(n + 1) |-> lines])
  <2>1. s \in Seq(Lines) /\ t = s \o lines
    BY RepeatIs, Zenon
  <2>2. Round(lines, v, n) = RunLines(s, v) /\ Round(lines, v, n + 1) = RunLines(t, v)
    BY DEF Round
  <2> HIDE DEF s, t
  <2>3. RunLines(s \o lines, v) = RunLines(lines, RunLines(s, v))
    BY <2>1, RunLinesConcat
  <2> QED BY <2>1, <2>2, <2>3
<1> QED
  BY <1>1, <1>2

\* ... to a value or undefined behavior.
LEMMA RoundStays ==
  ASSUME NEW lines \in Seq(Lines), NEW v \in Values, NEW n \in Nat
  PROVE  Round(lines, v, n) \in States
<1>1. FlattenSeq([i \in 1..n |-> lines]) \in Seq(Lines)
  BY RepeatIs, Zenon
<1> QED
  BY <1>1, RunLinesStays DEF Round, States

Over(w) == w \in {Stop, Undefined}

\* A loop ends in its first round that is over, or is cut off.
LEMMA LoopIs ==
  ASSUME NEW lines \in Seq(Lines), NEW v, NEW limit \in Nat
  PROVE  \/ /\ RunLoop(lines, v, limit) = CutOff
            /\ \A n \in 1..limit : ~Over(Round(lines, v, n))
         \/ \E m \in 1..limit :
              /\ RunLoop(lines, v, limit) = Round(lines, v, m) /\ Over(Round(lines, v, m))
              /\ \A n \in 1..(m - 1) : ~Over(Round(lines, v, n))
<1> DEFINE ends == {n \in 1..limit : Over(Round(lines, v, n))}
<1>1. RunLoop(lines, v, limit) = IF ends = {} THEN CutOff ELSE Round(lines, v, Min(ends))
  BY DEF RunLoop, Over
<1>2. CASE ends = {}
  BY <1>1, <1>2
<1>3. CASE ends # {}
  <2>1. ends \subseteq Nat
    OBVIOUS
  <2>2. Min(ends) \in ends /\ \A y \in ends : Min(ends) <= y
    <3> HIDE DEF ends
    <3> QED BY <1>3, <2>1, MinIs
  <2> DEFINE m == Min(ends)
  <2>3. m \in ends /\ \A y \in ends : m <= y
    BY <2>2
  <2>4. RunLoop(lines, v, limit) = Round(lines, v, m)
    BY <1>1, <1>3
  <2> HIDE DEF m
  <2>5. \A n \in 1..(m - 1) : n \in 1..limit /\ ~ (m <= n)
    BY <2>3
  <2> QED BY <2>3, <2>4, <2>5
<1> QED
  BY <1>2, <1>3

\* There is no other such round.
LEMMA LoopEnds ==
  ASSUME NEW lines \in Seq(Lines), NEW v, NEW limit \in Nat, NEW m \in 1..limit,
         Over(Round(lines, v, m)), \A n \in 1..(m - 1) : ~Over(Round(lines, v, n))
  PROVE  RunLoop(lines, v, limit) = Round(lines, v, m)
<1> DEFINE R(n) == Round(lines, v, n)
<1>1. \/ /\ RunLoop(lines, v, limit) = CutOff
         /\ \A n \in 1..limit : ~Over(R(n))
      \/ \E k \in 1..limit : /\ RunLoop(lines, v, limit) = R(k) /\ Over(R(k))
                             /\ \A n \in 1..(k - 1) : ~Over(R(n))
  BY LoopIs
<1> HIDE DEF R
<1>2. Over(R(m)) /\ \A n \in 1..(m - 1) : ~Over(R(n))
  BY DEF R
<1>3. PICK k \in 1..limit : /\ RunLoop(lines, v, limit) = R(k) /\ Over(R(k))
                            /\ \A n \in 1..(k - 1) : ~Over(R(n))
  BY <1>1, <1>2
<1>4. ~ (k < m) /\ ~ (m < k)
  BY <1>2, <1>3
<1>5. k = m
  BY <1>4
<1> QED
  BY <1>3, <1>5 DEF R

\* A loop hands on a value, is undefined or cut off.
LEMMA LoopStays ==
  ASSUME NEW lines \in Seq(Lines), NEW v \in Values, NEW limit \in Nat
  PROVE  RunLoop(lines, v, limit) \in States \cup {CutOff}
  BY LoopIs, RoundStays

\* What may stand for the lines of a loop may do so in every round, ...
LEMMA RoundBelow ==
  ASSUME NEW a \in Seq(Lines), NEW b \in Seq(Lines), LinesBelow(a, b),
         NEW v \in Values, NEW n \in Nat
  PROVE  Below(Round(a, v, n), Round(b, v, n))
<1> DEFINE s == [i \in 1..n |-> a]
           t == [i \in 1..n |-> b]
<1>1. s \in Seq(Seq(Lines)) /\ Len(s) = n /\ t \in Seq(Seq(Lines)) /\ Len(t) = n
  BY RepeatIs, Zenon
<1>2. \A i \in 1..n : s[i] = a /\ t[i] = b
  OBVIOUS
<1> HIDE DEF s, t
<1>3. PiecesBelow(s, t)
  BY <1>1, <1>2 DEF PiecesBelow
<1>4. LinesBelow(FlattenSeq(s), FlattenSeq(t))
  BY <1>1, <1>3, BelowFlatten
<1> QED
  BY <1>4 DEF LinesBelow, Round, s, t

\* ... and in the loop.
LEMMA LoopBelow ==
  ASSUME NEW a \in Seq(Lines), NEW b \in Seq(Lines), LinesBelow(a, b),
         NEW v \in Values, NEW limit \in Nat
  PROVE  Below(RunLoop(a, v, limit), RunLoop(b, v, limit))
<1> DEFINE R(n) == Round(a, v, n)
           Q(n) == Round(b, v, n)
<1>1. \A n \in Nat : R(n) # Undefined => Q(n) = R(n)
  BY RoundBelow DEF Below
<1>2. CASE RunLoop(a, v, limit) = CutOff /\ \A n \in 1..limit : ~Over(R(n))
  <2>1. \A n \in 1..limit : ~Over(Q(n))
    BY <1>1, <1>2 DEF Over
  <2>2. RunLoop(b, v, limit) = CutOff
    BY <2>1, LoopIs
  <2> QED BY <1>2, <2>2 DEF Below
<1>3. CASE \E m \in 1..limit : /\ RunLoop(a, v, limit) = R(m) /\ Over(R(m))
                               /\ \A n \in 1..(m - 1) : ~Over(R(n))
  <2>1. PICK m \in 1..limit : /\ RunLoop(a, v, limit) = R(m) /\ Over(R(m))
                              /\ \A n \in 1..(m - 1) : ~Over(R(n))
    BY <1>3
  <2>2. CASE R(m) = Undefined
    BY <2>1, <2>2 DEF Below
  <2>3. CASE R(m) # Undefined
    <3>1. Q(m) = R(m) /\ Over(Q(m))
      BY <1>1, <2>1, <2>3
    <3>2. \A n \in 1..(m - 1) : n \in Nat /\ R(n) # Undefined
      BY <2>1 DEF Over
    <3>3. \A n \in 1..(m - 1) : ~Over(Q(n))
      BY <1>1, <2>1, <3>2
    <3>4. RunLoop(b, v, limit) = Q(m)
      BY <3>1, <3>3, LoopEnds
    <3> QED BY <2>1, <3>1, <3>4 DEF Below
  <2> QED BY <2>2, <2>3
<1> QED
  BY <1>2, <1>3, LoopIs

\* A loop that goes round more often than there are values comes back to one it had, and
\* never ends.
LEMMA LoopWithinValues ==
  ASSUME NEW lines \in Seq(Lines), NEW v \in Values, NEW limit \in Nat,
         RunLoop(lines, v, limit) # CutOff
  PROVE  RunLoop(lines, v, Cardinality(Values)) = RunLoop(lines, v, limit)
<1> DEFINE R(n) == Round(lines, v, n)
           C == Cardinality(Values)
<1>1. PICK m \in 1..limit : /\ RunLoop(lines, v, limit) = R(m) /\ Over(R(m))
                            /\ \A n \in 1..(m - 1) : ~Over(R(n))
  BY LoopIs
<1>2. C \in Nat /\ IsFiniteSet(Values) /\ Stop \in Values
  BY ValuesAreNat, FS_CardinalityType
<1>3. \A n \in Nat : R(n + 1) = RunLines(lines, R(n)) /\ R(n) \in States
  <2> SUFFICES ASSUME NEW n \in Nat PROVE R(n + 1) = RunLines(lines, R(n)) /\ R(n) \in States
    OBVIOUS
  <2>1. Round(lines, v, n + 1) = RunLines(lines, Round(lines, v, n))
    <3> HIDE DEF R
    <3> QED BY RoundIs
  <2>2. Round(lines, v, n) \in States
    BY RoundStays
  <2> QED BY <2>1, <2>2
<1> HIDE DEF R, C
<1>4. m <= C
  <2> SUFFICES ASSUME ~ (m <= C) PROVE FALSE
    OBVIOUS
  <2> DEFINE T == Values \ {Stop}
             f == [n \in 1..C |-> R(n)]
  <2>1. \A n \in 1..C : n \in 1..(m - 1) /\ n \in Nat
    BY <1>2
  <2>2. \A n \in 1..C : R(n) \in T
    BY <1>1, <1>3, <2>1 DEF Over, States
  <2>3. f \in [1..C -> T]
    BY <2>2
  <2>4. IsFiniteSet(T) /\ Cardinality(T) = C - 1
    BY <1>2, FS_RemoveElement DEF C
  <2>5. IsFiniteSet(1..C) /\ Cardinality(1..C) = C
    <3>1. 1 \in Int /\ C \in Int
      BY <1>2
    <3>2. IsFiniteSet(1..C) /\ Cardinality(1..C) = IF 1 > C THEN 0 ELSE C - 1 + 1
      BY <3>1, FS_Interval
    <3> QED BY <1>2, <3>2
  <2>6. PICK i, j \in 1..C : i # j /\ f[i] = f[j]
    <3>1. Cardinality(T) < Cardinality(1..C)
      BY <1>2, <2>4, <2>5
    <3> HIDE DEF f, T
    <3> QED BY <2>3, <2>4, <2>5, <3>1, FS_PigeonHole
  <2>7. ASSUME NEW x \in 1..C, NEW y \in 1..C, x < y, R(x) = R(y) PROVE FALSE
    <3> DEFINE G == {k \in Nat : R(x + k) = R(y + k)}
    <3>1. G \subseteq Nat /\ 0 \in G
      BY <2>7
    <3>2. ASSUME NEW k \in G PROVE k + 1 \in G
      <4>1. x + k \in Nat /\ y + k \in Nat /\ x + (k + 1) = (x + k) + 1
            /\ y + (k + 1) = (y + k) + 1 /\ k + 1 \in Nat
        BY <1>2
      <4>2. R((x + k) + 1) = R((y + k) + 1)
        BY <1>3, <4>1
      <4> QED BY <4>1, <4>2
    <3>3. \A k \in Nat : k \in G
      <4> HIDE DEF G
      <4> QED BY <3>1, <3>2, NatInduct
    <3>4. m - y \in Nat /\ y + (m - y) = m /\ x + (m - y) \in 1..(m - 1)
      BY <2>1, <2>7
    <3>5. R(x + (m - y)) = R(m)
      BY <3>3, <3>4
    <3> QED BY <1>1, <3>4, <3>5
  <2>8. f[i] = R(i) /\ f[j] = R(j)
    OBVIOUS
  <2> HIDE DEF f, T
  <2>9. i < j \/ j < i
    BY <2>6
  <2> QED BY <2>6, <2>7, <2>8, <2>9
<1>5. m \in 1..C
  BY <1>2, <1>4
<1>6. RunLoop(lines, v, C) = R(m)
  BY <1>1, <1>2, <1>5, LoopEnds DEF R
<1> QED
  BY <1>1, <1>6 DEF C

-----------------------------------------------------------------------------
(* Programs.                                                               *)

\* A program that can be run has an entry block, and the lines after its loop are lines.
LEMMA ProgramIs ==
  ASSUME NEW p \in Runnable
  PROVE  /\ p.blocks \in Seq(Seq(Lines)) /\ p.blocks # <<>> /\ Len(p.blocks) \in Nat \ {0}
         /\ p.blocks[1] \in Seq(Lines)
         /\ Straightly(p) \in Seq(Seq(Lines)) /\ FlattenSeq(Straightly(p)) \in Seq(Lines)
<1>1. p.blocks \in Seq(Seq(Lines)) /\ p.blocks # <<>>
  BY DEF Runnable
<1>2. Len(p.blocks) \in Nat \ {0}
  BY <1>1, EmptySeq
<1>3. p.blocks[1] \in Seq(Lines)
  BY <1>1, <1>2, ElementOfSeq
<1>4. Straightly(p) \in Seq(Seq(Lines))
  BY <1>1, HeadTailProperties DEF Straightly
<1>5. ASSUME NEW s \in Seq(Seq(Lines)) PROVE FlattenSeq(s) \in Seq(Lines)
  BY <1>3, FlattenAppend
<1> QED
  BY <1>1, <1>2, <1>3, <1>4, <1>5

\* Where a program is cut off is its loop.
First(p, v, limit) == IF p.loops THEN RunLoop(p.blocks[1], v, limit) ELSE v

\* A run through at most limit rounds: its loop first, and the rest only from a value; only
\* the loop can cut it off.
LEMMA RunWithinIs ==
  ASSUME NEW p \in Runnable, NEW v \in Values, NEW limit \in Nat
  PROVE  LET w == First(p, v, limit)
         IN  /\ w \in Values => RunWithin(p, v, limit) = RunLines(FlattenSeq(Straightly(p)), w)
             /\ w \notin Values => w \in {Undefined, CutOff} /\ RunWithin(p, v, limit) = w
             /\ RunWithin(p, v, limit) \in States \cup {CutOff}
             /\ RunWithin(p, v, limit) = CutOff <=> w = CutOff
<1> DEFINE w == First(p, v, limit)
           rest == RunLines(FlattenSeq(Straightly(p)), w)
<1>1. w \in Values \cup {Undefined, CutOff}
  BY ProgramIs, LoopStays DEF First, States
<1>2. RunWithin(p, v, limit) = IF w \in {Undefined, CutOff} THEN w ELSE rest
  BY DEF RunWithin, First
<1>3. w \in Values => rest \in States
  BY ProgramIs, RunLinesStays DEF States
<1> HIDE DEF w, rest
<1>4. w \in Values => w \notin {Undefined, CutOff}
  BY UndefinedIsNoValue DEF States
<1>5. CutOff \notin States /\ CutOff # Undefined
  BY UndefinedIsNoValue DEF States
<1>6. /\ w \in Values => RunWithin(p, v, limit) = rest
      /\ w \notin Values => w \in {Undefined, CutOff} /\ RunWithin(p, v, limit) = w
  BY <1>1, <1>2, <1>4
<1>7. /\ RunWithin(p, v, limit) \in States \cup {CutOff}
      /\ RunWithin(p, v, limit) = CutOff <=> w = CutOff
  BY <1>1, <1>3, <1>4, <1>5, <1>6 DEF States
<1> QED
  BY <1>6, <1>7 DEF w, rest

ProgramBelow(p, q) == p.loops = q.loops /\ PiecesBelow(p.blocks, q.blocks)

\* What may stand for each block of a program may stand for the program.
LEMMA RunWithinBelow ==
  ASSUME NEW p \in Runnable, NEW q \in Runnable, ProgramBelow(p, q),
         NEW v \in Values, NEW limit \in Nat
  PROVE  Below(RunWithin(p, v, limit), RunWithin(q, v, limit))
<1> DEFINE s == Straightly(p)
           t == Straightly(q)
<1>1. /\ p.loops = q.loops /\ Len(p.blocks) = Len(q.blocks)
      /\ \A i \in 1..Len(p.blocks) : LinesBelow(p.blocks[i], q.blocks[i])
  BY DEF ProgramBelow, PiecesBelow
<1>2. PiecesBelow(s, t)
  <2>1. CASE p.loops
    <3>1. /\ s = Tail(p.blocks) /\ t = Tail(q.blocks)
      BY <1>1, <2>1 DEF Straightly
    <3>2. /\ Len(s) = Len(p.blocks) - 1 /\ \A i \in 1..Len(s) : s[i] = p.blocks[i + 1]
          /\ Len(t) = Len(q.blocks) - 1 /\ \A i \in 1..Len(t) : t[i] = q.blocks[i + 1]
      <4> HIDE DEF s, t
      <4> QED BY <3>1, ProgramIs, HeadTailProperties
    <3> HIDE DEF s, t
    <3>3. Len(p.blocks) \in Nat /\ Len(s) = Len(t)
      BY <1>1, <3>2, ProgramIs
    <3>4. \A i \in 1..Len(s) : i + 1 \in 1..Len(p.blocks)
      BY <3>2, <3>3
    <3>5. \A i \in 1..Len(s) : LinesBelow(p.blocks[i + 1], q.blocks[i + 1])
      BY <1>1, <3>4, Zenon
    <3>6. \A i \in 1..Len(s) : LinesBelow(s[i], t[i])
      BY <3>2, <3>3, <3>5
    <3> QED BY <3>3, <3>6 DEF PiecesBelow
  <2>2. CASE ~p.loops
    BY <1>1, <2>2 DEF Straightly, ProgramBelow
  <2> QED BY <2>1, <2>2
<1>3. LinesBelow(FlattenSeq(s), FlattenSeq(t))
  BY <1>2, ProgramIs, BelowFlatten
<1>4. Below(First(p, v, limit), First(q, v, limit))
  <2>1. LinesBelow(p.blocks[1], q.blocks[1])
    <3>1. 1 \in 1..Len(p.blocks)
      BY ProgramIs
    <3> QED BY <1>1, <3>1, Zenon
  <2>2. Below(RunLoop(p.blocks[1], v, limit), RunLoop(q.blocks[1], v, limit))
    BY <2>1, ProgramIs, LoopBelow
  <2> QED BY <1>1, <2>2 DEF First, Below
<1>5. CASE First(p, v, limit) = Undefined
  <2>1. RunWithin(p, v, limit) = Undefined
    BY <1>5, RunWithinIs, UndefinedIsNoValue
  <2> QED BY <2>1 DEF Below
<1>6. CASE First(p, v, limit) # Undefined
  <2> DEFINE w == First(p, v, limit)
  <2>1. First(q, v, limit) = w
    BY <1>4, <1>6 DEF Below
  <2>2. CASE w \in Values
    <3>1. /\ RunWithin(p, v, limit) = RunLines(FlattenSeq(s), w)
          /\ RunWithin(q, v, limit) = RunLines(FlattenSeq(t), w)
      BY <2>1, <2>2, RunWithinIs
    <3> QED BY <1>3, <2>2, <3>1 DEF LinesBelow
  <2>3. CASE w \notin Values
    <3>1. RunWithin(p, v, limit) = w /\ RunWithin(q, v, limit) = w
      BY <2>1, <2>3, RunWithinIs
    <3> QED BY <3>1 DEF Below
  <2> QED BY <2>2, <2>3
<1> QED
  BY <1>5, <1>6

\* A run that a limit does not cut off is the program's run.
LEMMA RunOfIs ==
  ASSUME NEW p \in Runnable, NEW v \in Values
  PROVE  /\ Cardinality(Values) \in Nat
         /\ \A limit \in Nat : RunWithin(p, v, limit) # CutOff =>
              RunOf(p, v) = RunWithin(p, v, limit)
<1>1. Cardinality(Values) \in Nat
  BY ValuesAreNat, FS_CardinalityType
<1>2. ASSUME NEW limit \in Nat, RunWithin(p, v, limit) # CutOff
      PROVE  RunOf(p, v) = RunWithin(p, v, limit)
  <2>1. First(p, v, limit) # CutOff
    BY <1>2, RunWithinIs
  <2>2. First(p, v, Cardinality(Values)) = First(p, v, limit)
    BY <2>1, ProgramIs, LoopWithinValues DEF First
  <2>3. RunWithin(p, v, Cardinality(Values)) = RunWithin(p, v, limit)
    BY <2>2 DEF RunWithin, First
  <2> QED BY <1>2, <2>3 DEF RunOf
<1> QED
  BY <1>1, <1>2

\* A program refines what it may stand for.
LEMMA RefinesBelow ==
  ASSUME NEW p \in Runnable, NEW q \in Runnable, ProgramBelow(p, q)
  PROVE  Refines(q, p)
<1> SUFFICES ASSUME NEW v \in Values PROVE RunOf(p, v) \in {Undefined, RunOf(q, v)}
  BY DEF Refines
<1>1. Below(RunWithin(p, v, Cardinality(Values)), RunWithin(q, v, Cardinality(Values)))
  BY RunWithinBelow, RunOfIs
<1>2. Undefined # CutOff
  BY DEF Undefined, CutOff
<1> QED
  BY <1>1, <1>2 DEF RunOf, Below

\* Every program refines itself: the question alive_tv.ts answers without the solver.
LEMMA RefinesItself ==
  ASSUME NEW p PROVE Refines(p, p)
  BY DEF Refines

\* A step after a step: refinement goes on from head to head.
LEMMA RefinesOn ==
  ASSUME NEW p, NEW q, NEW r, Refines(q, p), Refines(r, q) PROVE Refines(r, p)
  BY DEF Refines

\* A counterexample that ends within the rounds alive2 unrolls is one.
LEMMA WithinIsAll ==
  ASSUME NEW p \in Runnable, NEW q \in Runnable, NEW unroll \in Nat,
         ~RefinesWithin(q, p, unroll)
  PROVE  ~Refines(q, p)
<1>1. PICK v \in Values :
        LET r == RunWithin(p, v, unroll)
            s == RunWithin(q, v, unroll)
        IN  CutOff \notin {r, s} /\ r \notin {Undefined, s}
  BY DEF RefinesWithin
<1>2. RunOf(p, v) = RunWithin(p, v, unroll) /\ RunOf(q, v) = RunWithin(q, v, unroll)
  BY <1>1, RunOfIs
<1> QED
  BY <1>1, <1>2 DEF Refines

\* The same lines in other blocks do the same.
LEMMA SameLines ==
  ASSUME NEW pair, pair.src \in Runnable, pair.tgt \in Runnable, WithoutSolver(pair)
  PROVE  Refines(pair.tgt, pair.src)
<1>1. \A v, limit : RunWithin(pair.tgt, v, limit) = RunWithin(pair.src, v, limit)
  BY DEF WithoutSolver, RunWithin
<1> QED
  BY <1>1 DEF Refines, RunOf

-----------------------------------------------------------------------------
(* Halves, outers and what is put back.                                    *)

Halves == {[blocks |-> <<lines>>, loops |-> FALSE] : lines \in Seq(Lines)}

Outers == [blocks : Seq(Seq(Lines \cup {Call})) \ {<<>>}, loops : BOOLEAN]

\* One block is its lines.
LEMMA FlattenOne ==
  ASSUME NEW lines \in Seq(Lines)
  PROVE  <<lines>> \in Seq(Seq(Lines)) /\ FlattenSeq(<<lines>>) = lines
<1>1. <<>> \in Seq(Seq(Lines)) /\ Append(<<>>, lines) = <<lines>>
  BY EmptySeq
<1>2. FlattenSeq(Append(<<>>, lines)) = FlattenSeq(<<>>) \o lines
  BY <1>1, FlattenAppend
<1>3. <<lines>> \in Seq(Seq(Lines))
  OBVIOUS
<1> QED
  BY <1>1, <1>2, <1>3, FlattenEmpty, ConcatEmptySeq

\* A half is a program that does what its lines do.
LEMMA HalfIs ==
  ASSUME NEW h \in Halves
  PROVE  /\ h \in Runnable /\ h.loops = FALSE /\ h.blocks[1] \in Seq(Lines)
         /\ \A v \in Values : RunOf(h, v) = RunLines(h.blocks[1], v)
<1>1. PICK lines \in Seq(Lines) : h = [blocks |-> <<lines>>, loops |-> FALSE]
  BY DEF Halves
<1>2. h.blocks = <<lines>> /\ h.loops = FALSE /\ h.blocks[1] = lines
  BY <1>1
<1>3. <<lines>> \in Seq(Seq(Lines)) /\ FlattenSeq(<<lines>>) = lines /\ <<lines>> # <<>>
  BY FlattenOne
<1>4. h \in Runnable
  <2> DEFINE one == <<lines>>
  <2>1. one \in Seq(Seq(Lines)) \ {<<>>} /\ h = [blocks |-> one, loops |-> FALSE]
    BY <1>1, <1>3
  <2> HIDE DEF one
  <2> QED BY <2>1 DEF Runnable
<1>5. ASSUME NEW v \in Values PROVE RunOf(h, v) = RunLines(lines, v)
  <2>1. First(h, v, 0) = v
    BY <1>2 DEF First
  <2>2. RunWithin(h, v, 0) = RunLines(FlattenSeq(Straightly(h)), v)
    BY <1>4, <2>1, RunWithinIs
  <2>3. RunWithin(h, v, 0) # CutOff
    BY <1>4, <2>1, RunWithinIs, UndefinedIsNoValue DEF States
  <2>4. RunOf(h, v) = RunWithin(h, v, 0)
    BY <1>4, <2>3, RunOfIs
  <2>5. Straightly(h) = <<lines>>
    BY <1>2 DEF Straightly
  <2> QED BY <1>3, <2>2, <2>4, <2>5
<1> QED
  BY <1>2, <1>4, <1>5

\* Of two halves of a window one refines the other when its lines do, value by value.
LEMMA HalvesBelow ==
  ASSUME NEW h \in Halves, NEW k \in Halves
  PROVE  Refines(k, h) <=> LinesBelow(h.blocks[1], k.blocks[1])
  BY HalfIs DEF Refines, LinesBelow, Below

\* A block with lines put where it calls the window.
LEMMA WithLinesIs ==
  ASSUME NEW block \in Seq(Lines \cup {Call}), NEW a \in Seq(Lines), NEW b \in Seq(Lines)
  PROVE  /\ WithLines(block, a) \in Seq(Lines)
         /\ LinesBelow(a, b) => LinesBelow(WithLines(block, a), WithLines(block, b))
<1> DEFINE piece(i, lines) == IF block[i] = Call THEN lines ELSE <<block[i]>>
           s == [i \in DOMAIN block |-> piece(i, a)]
           t == [i \in DOMAIN block |-> piece(i, b)]
<1>1. DOMAIN block = 1..Len(block) /\ Len(block) \in Nat
      /\ \A i \in 1..Len(block) : block[i] = Call \/ block[i] \in Lines
  OBVIOUS
<1>2. \A i \in DOMAIN block : piece(i, a) \in Seq(Lines) /\ piece(i, b) \in Seq(Lines)
  BY <1>1
<1>3. /\ WithLines(block, a) = FlattenSeq(s) /\ WithLines(block, b) = FlattenSeq(t)
  BY DEF WithLines
<1>4. ASSUME LinesBelow(a, b)
      PROVE  \A i \in DOMAIN block : LinesBelow(piece(i, a), piece(i, b))
  <2> SUFFICES ASSUME NEW i \in DOMAIN block PROVE LinesBelow(piece(i, a), piece(i, b))
    OBVIOUS
  <2>1. CASE block[i] = Call
    BY <1>4, <2>1
  <2>2. CASE block[i] # Call
    BY <2>2 DEF LinesBelow, Below
  <2> QED BY <2>1, <2>2
<1> HIDE DEF piece
<1>5. /\ s \in Seq(Seq(Lines)) /\ Len(s) = Len(block) /\ \A i \in 1..Len(block) : s[i] = piece(i, a)
      /\ t \in Seq(Seq(Lines)) /\ Len(t) = Len(block) /\ \A i \in 1..Len(block) : t[i] = piece(i, b)
  BY <1>1, <1>2
<1> HIDE DEF s, t
<1>6. FlattenSeq(s) \in Seq(Lines)
  <2>1. a \in Seq(Lines)
    OBVIOUS
  <2> QED BY <1>5, <2>1, FlattenAppend
<1>7. ASSUME LinesBelow(a, b) PROVE LinesBelow(FlattenSeq(s), FlattenSeq(t))
  <2>1. \A i \in 1..Len(s) : LinesBelow(s[i], t[i])
    BY <1>1, <1>4, <1>5, <1>7
  <2>2. PiecesBelow(s, t)
    BY <1>5, <2>1 DEF PiecesBelow
  <2> QED BY <1>5, <2>2, BelowFlatten
<1> QED
  BY <1>3, <1>6, <1>7

\* What is put back into an outer is a program, and a better half makes a better one.
LEMMA InlineIs ==
  ASSUME NEW outer \in Outers, NEW h \in Halves
  PROVE  Inline(outer, h) \in Runnable
<1> DEFINE put == [b \in DOMAIN outer.blocks |-> WithLines(outer.blocks[b], h.blocks[1])]
<1>1. outer.blocks \in Seq(Seq(Lines \cup {Call})) /\ outer.blocks # <<>>
      /\ outer.loops \in BOOLEAN /\ outer = [blocks |-> outer.blocks, loops |-> outer.loops]
  BY DEF Outers
<1>2. /\ DOMAIN outer.blocks = 1..Len(outer.blocks) /\ Len(outer.blocks) \in Nat \ {0}
      /\ \A b \in DOMAIN outer.blocks : outer.blocks[b] \in Seq(Lines \cup {Call})
  BY <1>1, EmptySeq
<1>3. h.blocks[1] \in Seq(Lines)
  BY HalfIs
<1>4. \A b \in DOMAIN outer.blocks : WithLines(outer.blocks[b], h.blocks[1]) \in Seq(Lines)
  BY <1>2, <1>3, WithLinesIs
<1>5. put \in Seq(Seq(Lines)) /\ Len(put) = Len(outer.blocks) /\ put # <<>>
  <2> DEFINE n == Len(outer.blocks)
  <2>1. put \in [1..n -> Seq(Lines)] /\ n \in Nat \ {0}
    BY <1>2, <1>4
  <2> HIDE DEF put, n
  <2>2. put \in Seq(Seq(Lines)) /\ Len(put) = n
    BY <2>1
  <2> QED BY <2>1, <2>2, EmptySeq DEF n
<1>6. Inline(outer, h) = [blocks |-> put, loops |-> outer.loops]
  BY <1>1 DEF Inline
<1> HIDE DEF put
<1> QED
  BY <1>1, <1>5, <1>6 DEF Runnable

\* Inlining is monotone: the half that refines the other does so in every outer function.
LEMMA InlineBelow ==
  ASSUME NEW outer \in Outers, NEW h \in Halves, NEW k \in Halves, Refines(k, h)
  PROVE  Refines(Inline(outer, k), Inline(outer, h))
<1> DEFINE p == Inline(outer, h)
           q == Inline(outer, k)
<1>1. p \in Runnable /\ q \in Runnable
  BY InlineIs
<1>2. /\ DOMAIN outer.blocks = 1..Len(outer.blocks) /\ Len(outer.blocks) \in Nat
      /\ \A b \in DOMAIN outer.blocks : outer.blocks[b] \in Seq(Lines \cup {Call})
      /\ outer = [blocks |-> outer.blocks, loops |-> outer.loops]
  BY DEF Outers
<1>3. /\ p.blocks = [b \in DOMAIN outer.blocks |-> WithLines(outer.blocks[b], h.blocks[1])]
      /\ q.blocks = [b \in DOMAIN outer.blocks |-> WithLines(outer.blocks[b], k.blocks[1])]
      /\ p.loops = outer.loops /\ q.loops = outer.loops
  BY <1>2 DEF Inline
<1>4. LinesBelow(h.blocks[1], k.blocks[1]) /\ h.blocks[1] \in Seq(Lines) /\ k.blocks[1] \in Seq(Lines)
  BY HalvesBelow, HalfIs
<1> HIDE DEF p, q
<1>5. Len(p.blocks) = Len(outer.blocks) /\ Len(q.blocks) = Len(outer.blocks)
  BY <1>2, <1>3
<1>6. ASSUME NEW b \in 1..Len(outer.blocks) PROVE LinesBelow(p.blocks[b], q.blocks[b])
  <2>1. /\ p.blocks[b] = WithLines(outer.blocks[b], h.blocks[1])
        /\ q.blocks[b] = WithLines(outer.blocks[b], k.blocks[1])
        /\ outer.blocks[b] \in Seq(Lines \cup {Call})
    BY <1>2, <1>3
  <2> QED BY <1>4, <2>1, WithLinesIs
<1>7. ProgramBelow(p, q)
  BY <1>3, <1>5, <1>6 DEF ProgramBelow, PiecesBelow
<1> QED
  BY <1>1, <1>7, RefinesBelow DEF p, q

\* A half under facts is a half that is undefined where they do not hold, and assuming what
\* holds of every value changes nothing.
LEMMA AssumingIs ==
  ASSUME NEW h \in Halves, NEW facts \in SUBSET Values
  PROVE  /\ Assuming(h, facts) \in Halves /\ Refines(h, Assuming(h, facts))
         /\ facts = Values => Refines(Assuming(h, facts), h)
<1> DEFINE assume == <<Assume(facts)>>
           k == Assuming(h, facts)
<1>1. PICK lines \in Seq(Lines) : h = [blocks |-> <<lines>>, loops |-> FALSE]
  BY DEF Halves
<1>2. Assume(facts) \in Lines
  BY DEF Lines
<1>3. assume \in Seq(Lines) /\ assume = Append(<<>>, Assume(facts)) /\ <<>> \in Seq(Lines)
  BY <1>2, EmptySeq
<1>4. ASSUME NEW v \in Values
      PROVE  RunLines(assume, v) = IF v \in facts THEN v ELSE Undefined
  <2>1. RunLines(Append(<<>>, Assume(facts)), v) =
          IF RunLines(<<>>, v) = Undefined THEN Undefined
          ELSE Perform(Assume(facts), RunLines(<<>>, v))
    BY <1>2, <1>3, RunLinesAppend
  <2>2. RunLines(<<>>, v) = v /\ v # Undefined
    BY RunLinesEmpty, UndefinedIsNoValue
  <2>3. Perform(Assume(facts), v) = IF v \in facts THEN v ELSE Undefined
    BY DEF Perform, Assume
  <2> QED BY <1>3, <2>1, <2>2, <2>3
<1> HIDE DEF assume
<1>5. k = [blocks |-> <<assume \o lines>>, loops |-> FALSE]
  <2>1. k = [h EXCEPT !.blocks = [h.blocks EXCEPT ![1] = assume \o h.blocks[1]]]
    BY DEF Assuming, assume
  <2>2. h.blocks = <<lines>> /\ h.blocks[1] = lines
    BY <1>1
  <2>3. ASSUME NEW x PROVE [<<lines>> EXCEPT ![1] = x] = <<x>>
    OBVIOUS
  <2> QED BY <1>1, <2>1, <2>2, <2>3
<1> HIDE DEF k
<1>6. assume \o lines \in Seq(Lines)
  BY <1>3, ConcatProperties
<1>7. k \in Halves /\ k.blocks[1] = assume \o lines /\ h.blocks[1] = lines
  <2>1. k \in Halves
    BY <1>5, <1>6 DEF Halves
  <2> QED BY <1>1, <1>5, <2>1
<1>8. \A v \in Values : RunLines(assume \o lines, v) = RunLines(lines, RunLines(assume, v))
  BY <1>3, RunLinesConcat
<1>9. RunLines(lines, Undefined) = Undefined
  BY RunLinesStays
<1>10. LinesBelow(assume \o lines, lines)
  BY <1>4, <1>8, <1>9 DEF LinesBelow, Below
<1>11. ASSUME facts = Values PROVE LinesBelow(lines, assume \o lines)
  BY <1>4, <1>8, <1>11 DEF LinesBelow, Below
<1>12. Refines(h, k) /\ (facts = Values => Refines(k, h))
  BY <1>7, <1>10, <1>11, HalvesBelow
<1> QED
  BY <1>7, <1>12 DEF k

-----------------------------------------------------------------------------
(* Windows.                                                                *)

\* Both halves go back into the outer.
GoodWindow(w, before, after) ==
  /\ w.outer \in Outers /\ w.from \in Halves /\ w.to \in Halves
  /\ Inline(w.outer, w.from) = before /\ Inline(w.outer, w.to) = after

\* A run of lines of one block is a half, and leaves an outer.
LEMMA OutlinedIs ==
  ASSUME NEW p \in Runnable, NEW w \in WindowsOf(p)
  PROVE  Half(p, w) \in Halves /\ Outer(p, w) \in Outers
<1>1. PICK b \in DOMAIN p.blocks : \E i \in DOMAIN p.blocks[b] : \E j \in i..Len(p.blocks[b]) :
        w = At(b, i, j)
  BY DEF WindowsOf
<1>2. PICK i \in DOMAIN p.blocks[b] : \E j \in i..Len(p.blocks[b]) : w = At(b, i, j)
  BY <1>1
<1>3. PICK j \in i..Len(p.blocks[b]) : w = At(b, i, j)
  BY <1>2
<1> DEFINE block == p.blocks[b]
           L == Lines \cup {Call}
           out == SubSeq(block, 1, i - 1) \o <<Call>> \o SubSeq(block, j + 1, Len(block))
<1>4. w.block = b /\ w.from = i /\ w.to = j
  BY <1>3 DEF At
<1>5. p.blocks \in Seq(Seq(Lines)) /\ p.blocks # <<>> /\ p.loops \in BOOLEAN
      /\ p = [blocks |-> p.blocks, loops |-> p.loops] /\ b \in 1..Len(p.blocks)
  BY DEF Runnable
<1>6. block \in Seq(Lines) /\ Len(block) \in Nat /\ i \in 1..Len(block) /\ j \in Nat
      /\ i <= j /\ j <= Len(block)
  BY <1>3, <1>5, ElementOfSeq
<1> HIDE DEF block
<1>7. \A k \in 1..Len(block) : block[k] \in Lines /\ block[k] \in L
  BY <1>6, ElementOfSeq
<1>8. SubSeq(block, i, j) \in Seq(Lines)
  <2>1. i \in Int /\ j \in Int /\ \A k \in i..j : block[k] \in Lines
    BY <1>6, <1>7
  <2> QED BY <2>1, SubSeqProperties
<1> HIDE DEF L
<1>9. SubSeq(block, 1, i - 1) \in Seq(L)
  <2>1. 1 \in Int /\ i - 1 \in Int /\ \A k \in 1..(i - 1) : block[k] \in L
    BY <1>6, <1>7
  <2> QED BY <2>1, SubSeqProperties
<1>10. SubSeq(block, j + 1, Len(block)) \in Seq(L)
  <2>1. j + 1 \in Int /\ Len(block) \in Int /\ \A k \in (j + 1)..Len(block) : block[k] \in L
    BY <1>6, <1>7
  <2> QED BY <2>1, SubSeqProperties
<1>11. out \in Seq(L)
  <2>1. <<Call>> \in Seq(L)
    BY DEF L
  <2>2. SubSeq(block, 1, i - 1) \o <<Call>> \in Seq(L)
    BY <1>9, <2>1, ConcatProperties
  <2> QED BY <1>10, <2>2, ConcatProperties
<1>12. Half(p, w) = [blocks |-> <<SubSeq(block, i, j)>>, loops |-> FALSE]
  BY <1>4 DEF Half, block
<1>13. Outer(p, w) = [blocks |-> [p.blocks EXCEPT ![b] = out], loops |-> p.loops]
  <2>1. Outer(p, w) = [p EXCEPT !.blocks = [p.blocks EXCEPT ![b] = out]]
    BY <1>4 DEF Outer, block
  <2> HIDE DEF out
  <2> QED BY <1>5, <2>1
<1> HIDE DEF out
<1>14. /\ [p.blocks EXCEPT ![b] = out] \in Seq(Seq(L))
       /\ Len([p.blocks EXCEPT ![b] = out]) = Len(p.blocks)
  <2>1. \A s \in Seq(Lines) : s \in Seq(L)
    BY SeqMonotonic DEF L
  <2>2. p.blocks \in Seq(Seq(L))
    BY <1>5, <2>1, SeqMonotonic
  <2> QED BY <1>5, <1>11, <2>2, ExceptSeq
<1>15. [p.blocks EXCEPT ![b] = out] # <<>>
  BY <1>5, <1>14, EmptySeq
<1>16. Half(p, w) \in Halves
  BY <1>8, <1>12 DEF Halves
<1>17. Outer(p, w) \in Outers
  <2> DEFINE bs == [p.blocks EXCEPT ![b] = out]
  <2>1. bs \in Seq(Seq(L)) \ {<<>>} /\ Outer(p, w) = [blocks |-> bs, loops |-> p.loops]
    BY <1>13, <1>14, <1>15
  <2> HIDE DEF bs
  <2> QED BY <1>5, <2>1 DEF Outers, L
<1> QED
  BY <1>16, <1>17

\* What llops outlines from both programs is a good window of them: one outer function,
\* into which each half inlines back.
LEMMA OutlineIs ==
  ASSUME NEW before \in Runnable, NEW after \in Runnable, NEW w,
         OutlineBoth(before, after, w) # NoWindow
  PROVE  GoodWindow(OutlineBoth(before, after, w), before, after)
<1> DEFINE shared == SharedOuters(before, after, w)
           outer == CHOOSE o \in shared : TRUE
<1>1. w.old \in WindowsOf(before) /\ w.new \in WindowsOf(after) /\ shared # {}
  BY DEF OutlineBoth
<1>2. OutlineBoth(before, after, w) =
        [outer |-> outer, from |-> Half(before, w.old), to |-> Half(after, w.new)]
  BY <1>1 DEF OutlineBoth
<1>3. outer \in shared
  BY <1>1
<1> HIDE DEF outer
<1>4. /\ outer \in {Outer(before, w.old), Outer(after, w.new)}
      /\ Inline(outer, Half(before, w.old)) = before /\ Inline(outer, Half(after, w.new)) = after
  BY <1>3 DEF SharedOuters
<1>5. outer \in Outers /\ Half(before, w.old) \in Halves /\ Half(after, w.new) \in Halves
  BY <1>1, <1>4, OutlinedIs
<1> QED
  BY <1>2, <1>4, <1>5 DEF GoodWindow

\* So is the window a commit finds for itself, and the one it is told to take.
LEMMA NarrowIs ==
  ASSUME NEW before \in Runnable, NEW after \in Runnable
  PROVE  /\ Narrow(before, after) # NoWindow => GoodWindow(Narrow(before, after), before, after)
         /\ \A w : NarrowAt(before, after, w) # NoWindow =>
                     GoodWindow(NarrowAt(before, after, w), before, after)
<1>1. \E x : Narrow(before, after) \in {NoWindow, OutlineBoth(before, after, x)}
  BY DEF Narrow
<1>2. \A w : \E x : NarrowAt(before, after, w) \in {NoWindow, OutlineBoth(before, after, x)}
  BY DEF NarrowAt
<1> QED
  BY <1>1, <1>2, OutlineIs

-----------------------------------------------------------------------------
(* Steps.                                                                  *)

Halved(e) ==
  LET q == Orient(e.side, Assuming(e.window.from, e.facts), Assuming(e.window.to, e.facts))
  IN  /\ Inline(e.window.outer, e.window.from) = e.before
      /\ Inline(e.window.outer, e.window.to) = e.after
      /\ ~q.src.loops /\ ~q.tgt.loops
      /\ Refines(q.tgt, q.src)

Claimed(side, before, after) ==
  LET q == Orient(side, before, after) IN Refines(q.tgt, q.src)

\* A step that is true, and shows it again.
GoodStep(e) == Claimed(e.side, e.before, e.after) /\ (e.window # NoWindow => Halved(e))

\* The facts hold at the window of c wherever the program that is replaced is defined.
FactsShown(side, before, after, w, facts) ==
  IF side = "src" THEN Refines(Assumed(w, w.from, facts), before)
  ELSE Refines(Assumed(w, w.to, facts), after)

\* What is claimed of the halves is claimed of the programs they go back into.
LEMMA HalvesClaim ==
  ASSUME NEW side \in Sides, NEW before, NEW after, NEW w, GoodWindow(w, before, after),
         NEW facts \in SUBSET Values,
         Claimed(side, Assuming(w.from, facts), Assuming(w.to, facts)),
         facts = Values \/ FactsShown(side, before, after, w, facts)
  PROVE  /\ Claimed(side, before, after)
         /\ ~Assuming(w.from, facts).loops /\ ~Assuming(w.to, facts).loops
<1> DEFINE A == Assuming(w.from, facts)
           B == Assuming(w.to, facts)
           In(h) == Inline(w.outer, h)
<1>1. /\ w.outer \in Outers /\ w.from \in Halves /\ w.to \in Halves
      /\ In(w.from) = before /\ In(w.to) = after
  BY DEF GoodWindow
<1>2. /\ A \in Halves /\ B \in Halves /\ Refines(w.from, A) /\ Refines(w.to, B)
      /\ facts = Values => Refines(A, w.from) /\ Refines(B, w.to)
  BY <1>1, AssumingIs
<1>3. Assumed(w, w.from, facts) = In(A) /\ Assumed(w, w.to, facts) = In(B)
  BY DEF Assumed
<1> HIDE DEF A, B
<1>4. ASSUME NEW h \in Halves, NEW k \in Halves, Refines(k, h) PROVE Refines(In(k), In(h))
  BY <1>1, <1>4, InlineBelow
<1> HIDE DEF In
<1>5. CASE side = "src"
  <2>1. Refines(B, A)
    BY <1>5 DEF Claimed, Orient, A, B
  <2>2. Refines(In(A), before)
    BY <1>1, <1>2, <1>3, <1>4, <1>5 DEF FactsShown
  <2>3. Refines(In(B), In(A)) /\ Refines(after, In(B))
    BY <1>1, <1>2, <1>4, <2>1
  <2>4. Refines(after, before)
    BY <2>2, <2>3, RefinesOn
  <2> QED BY <1>2, <1>5, <2>4, HalfIs DEF Claimed, Orient, A, B
<1>6. CASE side = "tgt"
  <2>1. Refines(A, B)
    BY <1>6 DEF Claimed, Orient, A, B
  <2>2. Refines(In(B), after)
    BY <1>1, <1>2, <1>3, <1>4, <1>6 DEF FactsShown
  <2>3. Refines(In(A), In(B)) /\ Refines(before, In(A))
    BY <1>1, <1>2, <1>4, <2>1
  <2>4. Refines(before, after)
    BY <2>2, <2>3, RefinesOn
  <2> QED BY <1>2, <1>6, <2>4, HalfIs DEF Claimed, Orient, A, B
<1> QED
  BY <1>5, <1>6 DEF Sides

\* The halves as they are, or under facts of any value, claim the same.
LEMMA NoFactsClaim ==
  ASSUME NEW side \in Sides, NEW h \in Halves, NEW k \in Halves, Claimed(side, h, k)
  PROVE  Claimed(side, Assuming(h, NoFacts), Assuming(k, NoFacts))
<1>1. /\ Refines(h, Assuming(h, Values)) /\ Refines(Assuming(h, Values), h)
      /\ Refines(k, Assuming(k, Values)) /\ Refines(Assuming(k, Values), k)
  BY AssumingIs
<1>2. CASE side = "src"
  <2>1. Refines(k, h)
    BY <1>2 DEF Claimed, Orient
  <2>2. Refines(Assuming(k, Values), Assuming(h, Values))
    BY <1>1, <2>1, RefinesOn
  <2> QED BY <1>2, <2>2 DEF Claimed, Orient, NoFacts
<1>3. CASE side = "tgt"
  <2>1. Refines(h, k)
    BY <1>3 DEF Claimed, Orient
  <2>2. Refines(Assuming(h, Values), Assuming(k, Values))
    BY <1>1, <2>1, RefinesOn
  <2> QED BY <1>3, <2>2 DEF Claimed, Orient, NoFacts
<1> QED
  BY <1>2, <1>3 DEF Sides

\* A step by its window is good, ...
LEMMA WindowStep ==
  ASSUME NEW e, e.side \in Sides, e.facts \in SUBSET Values,
         GoodWindow(e.window, e.before, e.after),
         Claimed(e.side, Assuming(e.window.from, e.facts), Assuming(e.window.to, e.facts)),
         \/ e.facts = Values
         \/ FactsShown(e.side, e.before, e.after, e.window, e.facts)
  PROVE  GoodStep(e)
<1> DEFINE side == e.side
           A == Assuming(e.window.from, e.facts)
           B == Assuming(e.window.to, e.facts)
<1>1. Claimed(side, e.before, e.after) /\ ~A.loops /\ ~B.loops
  BY HalvesClaim
<1>2. Inline(e.window.outer, e.window.from) = e.before /\ Inline(e.window.outer, e.window.to) = e.after
  BY DEF GoodWindow
<1>3. Claimed(side, A, B)
  OBVIOUS
<1> HIDE DEF side, A, B
<1>4. Orient(side, A, B).src \in {A, B} /\ Orient(side, A, B).tgt \in {A, B}
  BY DEF Orient
<1>5. ~Orient(side, A, B).src.loops /\ ~Orient(side, A, B).tgt.loops
  BY <1>1, <1>4
<1>6. Halved(e)
  BY <1>2, <1>3, <1>5 DEF Halved, Claimed, side, A, B
<1> QED
  BY <1>1, <1>6 DEF GoodStep, side

-----------------------------------------------------------------------------
(* Answers.                                                                *)

Budgets == {EagerMs, DefaultMs} \cup 0..CapMs

RightAll(H) ==
  \A h \in H : /\ h.outcome \in {"correct", "incorrect", "unknown"}
               /\ h.outcome # "unknown" => h.outcome = Right(h.q)

Fits(s) ==
  /\ s.outcome \in {"correct", "incorrect"} => s.outcome = Right(s.q)
  /\ s.outcome = "unknown" => s.spent = s.wanted /\ s.spent \in Budgets

\* The answer a question has is one of the two that conclude.
LEMMA RightIs == \A q : Right(q) \in {"correct", "incorrect"}
  BY DEF Right

\* What is heard is right, is kept, and says what it says of the pair that was asked about.
LEMMA AnswersAre ==
  ASSUME RightAll(history), Fits(said), NEW pair, NEW ms \in Budgets, NEW unroll,
         NEW r \in Answers(pair, ms, unroll)
  PROVE  /\ RightAll(r.history) /\ Fits(r.said)
         /\ r.outcome = "correct" =>
              pair.src = pair.tgt \/ Right(Question(pair, unroll)) = "correct"
         /\ r.outcome = "incorrect" => Right(Question(pair, unroll)) = "incorrect"
<1> DEFINE q == Question(pair, unroll)
           unasked(outcome) == [outcome |-> outcome, history |-> history, said |-> said]
           given(h) == [outcome |-> h.outcome, history |-> {k \in history : k.q # q} \cup {h},
                        said |-> [q |-> q, outcome |-> h.outcome, spent |-> h.ms, wanted |-> ms]]
           fresh(outcome) == given([q |-> q, outcome |-> outcome, ms |-> ms])
<1>1. \/ r = unasked("correct") /\ pair.src = pair.tgt
      \/ r = unasked("unknown")
      \/ \E h \in Known(q) : r = given(h)
      \/ \E outcome \in {Right(q), "unknown"} : r = fresh(outcome)
  BY DEF Answers
<1> HIDE DEF q
<1>2. CASE r = unasked("correct") /\ pair.src = pair.tgt
  BY <1>2
<1>3. CASE r = unasked("unknown")
  BY <1>3
<1>4. CASE \E h \in Known(q) : r = given(h)
  <2>1. PICK h \in history : h.q = q /\ h.outcome # "unknown" /\ r = given(h)
    BY <1>4 DEF Known
  <2>2. h.outcome = Right(q) /\ h.outcome \in {"correct", "incorrect"}
    BY <2>1 DEF RightAll
  <2>3. /\ r.outcome = Right(q) /\ r.history = {k \in history : k.q # q} \cup {h}
        /\ r.said.outcome = Right(q) /\ r.said.q = q
    BY <2>1, <2>2
  <2>4. RightAll(r.history)
    BY <2>3 DEF RightAll
  <2>5. Fits(r.said)
    BY <2>2, <2>3 DEF Fits
  <2> QED BY <2>3, <2>4, <2>5 DEF q
<1>5. CASE \E outcome \in {Right(q), "unknown"} : r = fresh(outcome)
  <2>1. PICK outcome \in {Right(q), "unknown"} : r = fresh(outcome)
    BY <1>5
  <2> DEFINE h == [q |-> q, outcome |-> outcome, ms |-> ms]
  <2>2. outcome \in {"correct", "incorrect", "unknown"} /\ h.q = q /\ h.outcome = outcome
    BY RightIs
  <2>3. /\ r.outcome = outcome /\ r.history = {k \in history : k.q # q} \cup {h}
        /\ r.said.outcome = outcome /\ r.said.q = q /\ r.said.spent = ms /\ r.said.wanted = ms
    BY <2>1
  <2> HIDE DEF h
  <2>4. RightAll(r.history)
    BY <2>1, <2>2, <2>3 DEF RightAll
  <2>5. Fits(r.said)
    BY <2>1, <2>2, <2>3 DEF Fits
  <2>6. outcome # "unknown" => outcome = Right(q)
    BY <2>1
  <2> QED BY <2>3, <2>4, <2>5, <2>6 DEF q
<1> QED
  BY <1>1, <1>2, <1>3, <1>4, <1>5

\* An answer to a question without an unroll factor is one about all runs.
LEMMA AnswersClaim ==
  ASSUME RightAll(history), Fits(said), NEW pair, NEW ms \in Budgets,
         NEW r \in Answers(pair, ms, NoUnroll)
  PROVE  /\ RightAll(r.history) /\ Fits(r.said)
         /\ r.outcome = "correct" => Refines(pair.tgt, pair.src)
         /\ r.outcome = "incorrect" => ~Refines(pair.tgt, pair.src)
<1> DEFINE q == Question(pair, NoUnroll)
<1>1. /\ RightAll(r.history) /\ Fits(r.said)
      /\ r.outcome = "correct" => pair.src = pair.tgt \/ Right(q) = "correct"
      /\ r.outcome = "incorrect" => Right(q) = "incorrect"
  BY AnswersAre
<1>2. q.src = pair.src /\ q.tgt = pair.tgt /\ q.unroll = NoUnroll
  BY DEF Question
<1> HIDE DEF q
<1>3. Right(q) = IF Refines(pair.tgt, pair.src) THEN "correct" ELSE "incorrect"
  BY <1>2 DEF Right
<1>4. Refines(pair.src, pair.src)
  BY RefinesItself
<1> QED
  BY <1>1, <1>3, <1>4

-----------------------------------------------------------------------------
(* The invariant.                                                          *)

Held == hist \in [Sides -> Seq(Runnable) \ {<<>>}]

\* The call under way is of a step from `before` that has a window it fits, facts that hold
\* there once they were asked about, and a good record once it is certified.
GoodCall(c, before) ==
  /\ c = [at |-> c.at, side |-> c.side, after |-> c.after, window |-> c.window,
          sought |-> c.sought, facts |-> c.facts, whole |-> c.whole, eager |-> c.eager,
          step |-> c.step]
  /\ c.at \in {"facts hold", "facts", "window", "whole", "certified"}
  /\ c.side \in Sides /\ c.after \in Runnable /\ c.facts \in SUBSET Values
  /\ c.window # NoWindow => GoodWindow(c.window, before, c.after)
  /\ c.at \in {"facts hold", "facts", "window"} => c.window # NoWindow
  /\ c.at = "facts" => FactsShown(c.side, before, c.after, c.window, c.facts)
  /\ c.at = "certified" =>
       /\ c.step.side = c.side /\ c.step.before = before /\ c.step.after = c.after
       /\ GoodStep(c.step)

CallHeld == call = NoCall \/ GoodCall(call, HeadOf(call.side))

Concluded ==
  /\ \A e \in evidence : GoodStep(e)
  /\ status = "proved" => Refines(HeadOf("tgt"), HeadOf("src"))
  /\ status = "refuted" => ~Refines(hist["tgt"][1], hist["src"][1])

ChecksInv == Held /\ RightAll(history) /\ Fits(said) /\ CallHeld /\ Concluded

\* The invariant gives the three properties the run checks.
LEMMA InvSays ==
  ASSUME ChecksInv
  PROVE  AnswersFit /\ Replayable /\ ConclusionsTrue
<1>1. AnswersFit
  BY DEF ChecksInv, Fits, AnswersFit, Budgets
<1>2. Replayable
  BY DEF ChecksInv, Concluded, GoodStep, Halved, Replayable
<1>3. ConclusionsTrue
  BY DEF ChecksInv, Concluded, GoodStep, Claimed, ConclusionsTrue
<1> QED
  BY <1>1, <1>2, <1>3

\* A side of a goal has a head, and the program it was opened with.
LEMMA HeadIs ==
  ASSUME Held, NEW s \in Sides
  PROVE  HeadOf(s) \in Runnable /\ hist[s][1] \in Runnable
<1>1. hist[s] \in Seq(Runnable) /\ hist[s] # <<>>
  BY DEF Held
<1>2. Len(hist[s]) \in Nat \ {0}
  BY <1>1, EmptySeq
<1> QED
  BY <1>1, <1>2, ElementOfSeq DEF HeadOf, Last

\* A step that asks changes nothing but the call and what was answered.
LEMMA AskingKeeps ==
  ASSUME ChecksInv, UNCHANGED <<hist, status, evidence>>, RightAll(history'), Fits(said'),
         \/ call' = NoCall
         \/ \E c : call' = c /\ GoodCall(c, HeadOf(c.side))
  PROVE  ChecksInv'
<1>1. \A s : HeadOf(s)' = HeadOf(s)
  BY DEF HeadOf
<1>2. Held' /\ Concluded'
  BY <1>1 DEF ChecksInv, Held, Concluded
<1>3. CallHeld'
  BY <1>1 DEF CallHeld
<1> QED
  BY <1>2, <1>3 DEF ChecksInv

\* A call goes on to ask, or is certified.
LEMMA CallGoes ==
  ASSUME NEW c, NEW before, GoodCall(c, before), NEW at \in {"facts", "window", "whole"},
         at # "whole" => c.window # NoWindow,
         at = "facts" => FactsShown(c.side, before, c.after, c.window, c.facts)
  PROVE  GoodCall([c EXCEPT !.at = at], before) /\ [c EXCEPT !.at = at].side = c.side
<1> DEFINE d == [c EXCEPT !.at = at]
<1>1. c = [at |-> c.at, side |-> c.side, after |-> c.after, window |-> c.window,
           sought |-> c.sought, facts |-> c.facts, whole |-> c.whole, eager |-> c.eager,
           step |-> c.step]
  BY DEF GoodCall
<1>2. d = [at |-> at, side |-> c.side, after |-> c.after, window |-> c.window,
           sought |-> c.sought, facts |-> c.facts, whole |-> c.whole, eager |-> c.eager,
           step |-> c.step]
  BY <1>1
<1> HIDE DEF d
<1>3. /\ d.at = at /\ d.side = c.side /\ d.after = c.after /\ d.window = c.window
      /\ d.sought = c.sought /\ d.facts = c.facts /\ d.whole = c.whole /\ d.eager = c.eager
      /\ d.step = c.step
  BY <1>2
<1>4. GoodCall(d, before)
  BY <1>2, <1>3 DEF GoodCall
<1> QED
  BY <1>3, <1>4 DEF d

\* A call given a good step of its own programs is a good call again.
LEMMA CallCertified ==
  ASSUME NEW c, NEW before, GoodCall(c, before), NEW e, GoodStep(e),
         e.side = c.side, e.before = before, e.after = c.after
  PROVE  /\ GoodCall([c EXCEPT !.at = "certified", !.step = e], before)
         /\ [c EXCEPT !.at = "certified", !.step = e].side = c.side
<1> DEFINE d == [c EXCEPT !.at = "certified", !.step = e]
<1>1. c = [at |-> c.at, side |-> c.side, after |-> c.after, window |-> c.window,
           sought |-> c.sought, facts |-> c.facts, whole |-> c.whole, eager |-> c.eager,
           step |-> c.step]
  BY DEF GoodCall
<1>2. d = [at |-> "certified", side |-> c.side, after |-> c.after, window |-> c.window,
           sought |-> c.sought, facts |-> c.facts, whole |-> c.whole, eager |-> c.eager,
           step |-> e]
  <2> DEFINE m == [c EXCEPT !.at = "certified"]
  <2>1. m = [at |-> "certified", side |-> c.side, after |-> c.after, window |-> c.window,
             sought |-> c.sought, facts |-> c.facts, whole |-> c.whole, eager |-> c.eager,
             step |-> c.step]
    BY <1>1
  <2>2. d = [m EXCEPT !.step = e]
    OBVIOUS
  <2> HIDE DEF m, d
  <2> QED BY <2>1, <2>2
<1> HIDE DEF d
<1>3. /\ d.at = "certified" /\ d.side = c.side /\ d.after = c.after /\ d.window = c.window
      /\ d.sought = c.sought /\ d.facts = c.facts /\ d.whole = c.whole /\ d.eager = c.eager
      /\ d.step = e
  BY <1>2
<1>4. GoodCall(d, before)
  BY <1>2, <1>3 DEF GoodCall
<1> QED
  BY <1>3, <1>4 DEF d

\* A call as it is made.
LEMMA CallMade ==
  ASSUME NEW before, NEW side \in Sides, NEW after \in Runnable, NEW window, NEW sought,
         NEW facts \in SUBSET Values, NEW whole, NEW eager, NEW step,
         NEW at \in {"facts hold", "window", "whole", "certified"},
         window # NoWindow => GoodWindow(window, before, after),
         at \in {"facts hold", "window"} => window # NoWindow,
         at = "certified" => step.side = side /\ step.before = before /\ step.after = after
                             /\ GoodStep(step)
  PROVE  LET d == [at |-> at, side |-> side, after |-> after, window |-> window,
                   sought |-> sought, facts |-> facts, whole |-> whole, eager |-> eager,
                   step |-> step]
         IN  GoodCall(d, before) /\ d.side = side
<1> DEFINE d == [at |-> at, side |-> side, after |-> after, window |-> window,
                 sought |-> sought, facts |-> facts, whole |-> whole, eager |-> eager,
                 step |-> step]
<1>1. /\ d.at = at /\ d.side = side /\ d.after = after /\ d.window = window
      /\ d.sought = sought /\ d.facts = facts /\ d.whole = whole /\ d.eager = eager
      /\ d.step = step
  OBVIOUS
<1>2. d = [at |-> d.at, side |-> d.side, after |-> d.after, window |-> d.window,
           sought |-> d.sought, facts |-> d.facts, whole |-> d.whole, eager |-> d.eager,
           step |-> d.step]
  OBVIOUS
<1> HIDE DEF d
<1>3. GoodCall(d, before)
  BY <1>1, <1>2 DEF GoodCall
<1> QED
  BY <1>1, <1>3 DEF d

\* What the record of a step says: its side, its programs, its window and its facts.
LEMMA RecordIs ==
  ASSUME NEW c, NEW by, NEW window, NEW facts
  PROVE  LET e == Record(c, by, window, facts)
         IN  /\ e.side = c.side /\ e.before = HeadOf(c.side) /\ e.after = c.after
             /\ e.window = window /\ e.facts = facts
  BY DEF Record

\* What the whole function, llops or the rewriter certifies is a good step.
LEMMA WholeStep ==
  ASSUME NEW c, NEW by, Claimed(c.side, HeadOf(c.side), c.after)
  PROVE  GoodStep(Record(c, by, NoWindow, NoFacts))
  BY RecordIs DEF GoodStep

\* A call that was found good goes on as it is certified.
LEMMA CertifiedKeeps ==
  ASSUME ChecksInv, UNCHANGED <<hist, status, evidence>>, RightAll(history'), Fits(said'),
         NEW c, GoodCall(c, HeadOf(c.side)), NEW by, NEW window, NEW facts,
         GoodStep(Record(c, by, window, facts)), Certified(c, by, window, facts)
  PROVE  ChecksInv'
<1> DEFINE e == Record(c, by, window, facts)
           d == [c EXCEPT !.at = "certified", !.step = e]
<1>1. e.side = c.side /\ e.before = HeadOf(c.side) /\ e.after = c.after
  BY RecordIs
<1>2. call' = d
  BY DEF Certified
<1>3. GoodStep(e)
  OBVIOUS
<1> HIDE DEF e
<1>4. GoodCall(d, HeadOf(c.side)) /\ d.side = c.side
  BY <1>1, <1>3, CallCertified
<1> HIDE DEF d
<1>5. call' = d /\ GoodCall(d, HeadOf(d.side))
  BY <1>2, <1>4
<1> QED
  BY <1>5, AskingKeeps

\* A call that goes on to the next question keeps the invariant.
LEMMA GoesKeeps ==
  ASSUME ChecksInv, UNCHANGED <<hist, status, evidence>>, RightAll(history'), Fits(said'),
         NEW c, GoodCall(c, HeadOf(c.side)), NEW at \in {"facts", "window", "whole"},
         at # "whole" => c.window # NoWindow,
         at = "facts" => FactsShown(c.side, HeadOf(c.side), c.after, c.window, c.facts),
         GoesTo(c, at)
  PROVE  ChecksInv'
<1> DEFINE d == [c EXCEPT !.at = at]
<1>1. call' = d
  BY DEF GoesTo
<1>2. GoodCall(d, HeadOf(c.side)) /\ d.side = c.side
  BY CallGoes
<1> HIDE DEF d
<1>3. call' = d /\ GoodCall(d, HeadOf(d.side))
  BY <1>1, <1>2
<1> QED
  BY <1>3, AskingKeeps

-----------------------------------------------------------------------------
(* The actions.                                                            *)

\* The goals the session opens.
LEMMA InitHolds ==
  ASSUME Init
  PROVE  ChecksInv
<1>1. PICK pair \in Asked : hist = [src |-> <<pair[1]>>, tgt |-> <<pair[2]>>]
  BY DEF Init
<1>2. pair[1] \in Runnable /\ pair[2] \in Runnable
  BY ProgramsAreRunnable
<1>3. ASSUME NEW p \in Runnable PROVE <<p>> \in Seq(Runnable) \ {<<>>}
  OBVIOUS
<1>4. Held
  <2> DEFINE a == <<pair[1]>>
             b == <<pair[2]>>
             X == Seq(Runnable) \ {<<>>}
  <2>1. a \in X /\ b \in X
    BY <1>2, <1>3
  <2>2. hist = [src |-> a, tgt |-> b]
    BY <1>1
  <2> HIDE DEF a, b, X
  <2>3. hist = [s \in {"src", "tgt"} |-> IF s = "src" THEN a ELSE b]
    BY <2>2
  <2>4. hist \in [{"src", "tgt"} -> X]
    BY <2>1, <2>3
  <2> QED BY <2>4 DEF Held, Sides, X
<1>5. RightAll(history) /\ Fits(said) /\ CallHeld /\ Concluded
  BY DEF Init, RightAll, Fits, NoAnswer, CallHeld, Concluded
<1> QED
  BY <1>4, <1>5 DEF ChecksInv

\* A commit starts its call with a good window, or with none.
LEMMA CommitKeeps ==
  ASSUME ChecksInv, NEW side \in Sides, NEW after \in Programs, Commit(side, after)
  PROVE  ChecksInv'
<1> DEFINE before == HeadOf(side)
<1>1. before \in Runnable /\ after \in Runnable
  BY HeadIs, ProgramsAreRunnable DEF ChecksInv
<1>2. UNCHANGED <<hist, status, evidence>> /\ RightAll(history') /\ Fits(said')
  BY DEF Commit, ChecksInv
<1>3. PICK named \in {NoWindow} \cup WindowsOf(HeadOf(side)), sought, whole, eager \in BOOLEAN,
           facts \in {NoFacts} \cup Facts :
        LET window == IF ~sought THEN NoWindow
                      ELSE IF named # NoWindow THEN NarrowAt(before, after, named)
                      ELSE Narrow(before, after)
            c == [at |-> "window", side |-> side, after |-> after, window |-> window,
                  sought |-> sought, facts |-> facts, whole |-> whole, eager |-> eager,
                  step |-> {}]
        IN  /\ named # NoWindow => window # NoWindow
            /\ IF WithoutSolver(Orient(side, before, after))
               THEN Certified(c, "llops", NoWindow, NoFacts)
               ELSE GoesTo(c, IF window = NoWindow THEN "whole"
                              ELSE IF facts # NoFacts THEN "facts hold" ELSE "window")
  BY DEF Commit
<1> DEFINE window == IF ~sought THEN NoWindow
                     ELSE IF named # NoWindow THEN NarrowAt(before, after, named)
                     ELSE Narrow(before, after)
           c == [at |-> "window", side |-> side, after |-> after, window |-> window,
                 sought |-> sought, facts |-> facts, whole |-> whole, eager |-> eager,
                 step |-> {}]
           next == IF window = NoWindow THEN "whole"
                   ELSE IF facts # NoFacts THEN "facts hold" ELSE "window"
<1>4. window # NoWindow => GoodWindow(window, before, after)
  BY <1>1, NarrowIs
<1>5. facts \in SUBSET Values
  BY FactsAreOfValues DEF NoFacts
<1> HIDE DEF window
<1>6. CASE WithoutSolver(Orient(side, before, after))
  <2> DEFINE e == Record(c, "llops", NoWindow, NoFacts)
             d == [at |-> "certified", side |-> side, after |-> after, window |-> window,
                   sought |-> sought, facts |-> facts, whole |-> whole, eager |-> eager,
                   step |-> e]
  <2>1. call' = [c EXCEPT !.at = "certified", !.step = e]
    BY <1>3, <1>6 DEF Certified, window
  <2>2. Claimed(side, before, after)
    <3>1. Orient(side, before, after).src \in Runnable /\ Orient(side, before, after).tgt \in Runnable
      BY <1>1 DEF Orient
    <3> QED BY <1>6, <3>1, SameLines DEF Claimed
  <2>3. c.side = side /\ c.after = after
    OBVIOUS
  <2>4. e.side = side /\ e.before = before /\ e.after = after /\ GoodStep(e)
    <3> HIDE DEF c, before
    <3>1. GoodStep(e)
      BY <2>2, <2>3, WholeStep DEF before
    <3> QED BY <2>3, <3>1, RecordIs DEF before
  <2> HIDE DEF e
  <2>5. call' = d
    BY <2>1
  <2>6. GoodCall(d, before) /\ d.side = side
    <3> DEFINE at == "certified"
    <3>1. at \in {"facts hold", "window", "whole", "certified"} /\ at = "certified"
          /\ (at \in {"facts hold", "window"} => window # NoWindow)
      OBVIOUS
    <3> HIDE DEF before, at
    <3>2. LET g == [at |-> at, side |-> side, after |-> after, window |-> window,
                    sought |-> sought, facts |-> facts, whole |-> whole, eager |-> eager,
                    step |-> e]
          IN  GoodCall(g, before) /\ g.side = side
      BY <1>1, <1>4, <1>5, <2>4, <3>1, CallMade, Zenon
    <3> QED BY <3>2 DEF at
  <2> HIDE DEF d
  <2>7. call' = d /\ GoodCall(d, HeadOf(d.side))
    BY <2>5, <2>6
  <2> QED BY <1>2, <2>7, AskingKeeps
<1>7. CASE ~WithoutSolver(Orient(side, before, after))
  <2> DEFINE d == [at |-> next, side |-> side, after |-> after, window |-> window,
                   sought |-> sought, facts |-> facts, whole |-> whole, eager |-> eager,
                   step |-> {}]
  <2>1. call' = [c EXCEPT !.at = next]
    BY <1>3, <1>7 DEF GoesTo, window
  <2>2. /\ next \in {"facts hold", "window", "whole", "certified"} /\ next # "certified"
        /\ next \in {"facts hold", "window"} => window # NoWindow
    OBVIOUS
  <2> HIDE DEF next
  <2>3. call' = d
    BY <2>1
  <2>4. GoodCall(d, before) /\ d.side = side
    <3> HIDE DEF before
    <3> QED BY <1>1, <1>4, <1>5, <2>2, CallMade, Zenon
  <2> HIDE DEF d
  <2>5. call' = d /\ GoodCall(d, HeadOf(d.side))
    BY <2>3, <2>4
  <2> QED BY <1>2, <2>5, AskingKeeps
<1> QED
  BY <1>6, <1>7

\* A rewrite is certified at once: what llrwt writes refines its source.
LEMMA RewriteKeeps ==
  ASSUME ChecksInv, NEW after \in Programs, Rewrite(after)
  PROVE  ChecksInv'
<1> DEFINE before == HeadOf("src")
           c == [at |-> "certified", side |-> "src", after |-> after, window |-> NoWindow,
                 sought |-> FALSE, facts |-> NoFacts, whole |-> FALSE, eager |-> TRUE,
                 step |-> {}]
           e == Record(c, "llrwt", NoWindow, NoFacts)
           d == [at |-> "certified", side |-> "src", after |-> after, window |-> NoWindow,
                 sought |-> FALSE, facts |-> NoFacts, whole |-> FALSE, eager |-> TRUE,
                 step |-> e]
<1>1. before \in Runnable /\ after \in Runnable /\ "src" \in Sides
  BY HeadIs, ProgramsAreRunnable DEF ChecksInv, Sides
<1>2. UNCHANGED <<hist, status, evidence>> /\ RightAll(history') /\ Fits(said')
  BY DEF Rewrite, ChecksInv
<1>3. call' = [c EXCEPT !.at = "certified", !.step = e] /\ Refines(after, before)
  BY DEF Rewrite, Certified
<1>4. c.side = "src" /\ c.after = after
  OBVIOUS
<1>5. Claimed("src", before, after)
  BY <1>3 DEF Claimed, Orient
<1>6. e.side = "src" /\ e.before = before /\ e.after = after /\ GoodStep(e)
  <2> HIDE DEF c, before
  <2>1. GoodStep(e)
    BY <1>4, <1>5, WholeStep DEF before
  <2> QED BY <1>4, <2>1, RecordIs DEF before
<1> HIDE DEF e
<1>7. call' = d
  BY <1>3
<1>8. GoodCall(d, before) /\ d.side = "src"
  <2>1. NoFacts \in SUBSET Values
    BY DEF NoFacts
  <2> HIDE DEF before
  <2> QED BY <1>1, <1>6, <2>1, CallMade, Zenon
<1> HIDE DEF d
<1>9. call' = d /\ GoodCall(d, HeadOf(d.side))
  BY <1>7, <1>8
<1> QED
  BY <1>2, <1>9, AskingKeeps

\* The call of an action that asks is good.
LEMMA CallIs ==
  ASSUME ChecksInv, call.at # "idle"
  PROVE  GoodCall(call, HeadOf(call.side)) /\ HeadOf(call.side) \in Runnable
<1>1. NoCall.at = "idle"
  BY DEF NoCall
<1>2. GoodCall(call, HeadOf(call.side))
  BY <1>1 DEF ChecksInv, CallHeld
<1>3. call.side \in Sides
  BY <1>2 DEF GoodCall
<1> QED
  BY <1>2, <1>3, HeadIs DEF ChecksInv

\* Every budget a call waits with is one of Budgets: no tool's own wish is above the cap.
LEMMA BudgetsAre ==
  /\ EagerMs \in Budgets /\ DefaultMs \in Budgets
  /\ \A ms \in AskedMs : Min({ms, CapMs}) \in Budgets
<1>1. ASSUME NEW ms \in AskedMs PROVE Min({ms, CapMs}) \in Budgets
  <2>1. ms \in Nat /\ CapMs \in Nat
    BY BudgetsAreNat
  <2> DEFINE T == {ms, CapMs}
  <2>2. T \subseteq Nat /\ T # {} /\ CapMs \in T
    BY <2>1
  <2> HIDE DEF T
  <2>3. Min(T) \in T /\ Min(T) <= CapMs
    BY <2>2, MinIs
  <2>4. Min(T) \in 0..CapMs
    <3> DEFINE m == Min(T)
    <3>1. m \in Nat /\ m <= CapMs
      BY <2>2, <2>3
    <3> HIDE DEF m
    <3>2. m \in 0..CapMs
      BY <2>1, <3>1
    <3> QED BY <3>2 DEF m
  <2> QED BY <2>4 DEF T, Budgets
<1> QED
  BY <1>1 DEF Budgets

\* Asking whether the facts hold at the window: only a yes goes on to the facts.
LEMMA AskFactsHoldKeeps ==
  ASSUME ChecksInv, AskFactsHold
  PROVE  ChecksInv'
<1> DEFINE c == call
<1>1. PICK r \in Answers(FactsHold(c), DefaultMs, NoUnroll) :
        Heard(r) /\ GoesTo(c, IF r.outcome = "correct" THEN "facts" ELSE "window")
  BY DEF AskFactsHold
<1>2. UNCHANGED <<hist, status, evidence>> /\ c.at = "facts hold"
  BY DEF AskFactsHold
<1>3. GoodCall(c, HeadOf(c.side))
  BY <1>2, CallIs
<1>4. /\ RightAll(r.history) /\ Fits(r.said)
      /\ r.outcome = "correct" => Refines(FactsHold(c).tgt, FactsHold(c).src)
  BY AnswersClaim, BudgetsAre DEF ChecksInv
<1>5. RightAll(history') /\ Fits(said')
  BY <1>1, <1>4 DEF Heard
<1>6. r.outcome = "correct" =>
        FactsShown(c.side, HeadOf(c.side), c.after, c.window, c.facts)
  BY <1>4 DEF FactsHold, FactsShown
<1>7. c.window # NoWindow
  BY <1>2, <1>3 DEF GoodCall
<1> HIDE DEF c
<1>8. CASE r.outcome = "correct"
  <2>1. GoesTo(c, "facts")
    BY <1>1, <1>8
  <2> QED BY <1>2, <1>3, <1>5, <1>6, <1>7, <1>8, <2>1, GoesKeeps
<1>9. CASE r.outcome # "correct"
  <2>1. GoesTo(c, "window")
    BY <1>1, <1>9
  <2> QED BY <1>2, <1>3, <1>5, <1>7, <2>1, GoesKeeps
<1> QED
  BY <1>8, <1>9

\* Asking about the halves under the facts: a yes certifies the step with window and facts.
LEMMA AskFactsKeeps ==
  ASSUME ChecksInv, AskFacts
  PROVE  ChecksInv'
<1> DEFINE c == call
           w == c.window
           before == HeadOf(c.side)
           pair == Orient(c.side, Assuming(w.from, c.facts), Assuming(w.to, c.facts))
<1>1. PICK r \in Answers(pair, EagerMs, NoUnroll) :
        /\ Heard(r)
        /\ CASE r.outcome = "correct"   -> Certified(c, "alive2", c.window, c.facts)
             [] r.outcome = "incorrect" -> GoesTo(c, "whole")
             [] OTHER                   -> GoesTo(c, "window")
  BY DEF AskFacts
<1>2. UNCHANGED <<hist, status, evidence>> /\ c.at = "facts"
  BY DEF AskFacts
<1>3. GoodCall(c, before)
  BY <1>2, CallIs
<1>4. RightAll(r.history) /\ Fits(r.said) /\ (r.outcome = "correct" => Refines(pair.tgt, pair.src))
  BY AnswersClaim, BudgetsAre DEF ChecksInv
<1>5. RightAll(history') /\ Fits(said')
  BY <1>1, <1>4 DEF Heard
<1>6. /\ c.side \in Sides /\ c.facts \in SUBSET Values /\ w # NoWindow
      /\ GoodWindow(w, before, c.after)
      /\ FactsShown(c.side, before, c.after, w, c.facts)
  BY <1>2, <1>3 DEF GoodCall
<1>7. CASE r.outcome = "correct"
  <2> DEFINE e == Record(c, "alive2", c.window, c.facts)
  <2>1. Claimed(c.side, Assuming(w.from, c.facts), Assuming(w.to, c.facts))
    BY <1>4, <1>7 DEF Claimed
  <2>2. e.side = c.side /\ e.before = before /\ e.after = c.after /\ e.window = w /\ e.facts = c.facts
    BY RecordIs
  <2> HIDE DEF e, w, before, c
  <2>3. GoodStep(e)
    BY <1>6, <2>1, <2>2, WindowStep
  <2>4. Certified(c, "alive2", c.window, c.facts)
    BY <1>1, <1>7
  <2> QED BY <1>2, <1>3, <1>5, <2>3, <2>4, CertifiedKeeps DEF e, before
<1>8. CASE r.outcome = "incorrect"
  <2>1. GoesTo(c, "whole")
    BY <1>1, <1>8
  <2> HIDE DEF c
  <2> QED BY <1>2, <1>3, <1>5, <2>1, GoesKeeps
<1>9. CASE r.outcome # "correct" /\ r.outcome # "incorrect"
  <2>1. GoesTo(c, "window")
    BY <1>1, <1>9
  <2> HIDE DEF c
  <2> QED BY <1>2, <1>3, <1>5, <1>6, <2>1, GoesKeeps
<1> QED
  BY <1>7, <1>8, <1>9

\* Asking about the halves alone: a yes certifies the step with its window.
LEMMA AskWindowKeeps ==
  ASSUME ChecksInv, AskWindow
  PROVE  ChecksInv'
<1> DEFINE c == call
           w == c.window
           before == HeadOf(c.side)
           pair == Orient(c.side, w.from, w.to)
<1>1. PICK r \in Answers(pair, EagerMs, NoUnroll) :
        /\ Heard(r)
        /\ IF r.outcome = "correct" THEN Certified(c, "alive2", c.window, NoFacts)
           ELSE GoesTo(c, "whole")
  BY DEF AskWindow
<1>2. UNCHANGED <<hist, status, evidence>> /\ c.at = "window"
  BY DEF AskWindow
<1>3. GoodCall(c, before)
  BY <1>2, CallIs
<1>4. RightAll(r.history) /\ Fits(r.said) /\ (r.outcome = "correct" => Refines(pair.tgt, pair.src))
  BY AnswersClaim, BudgetsAre DEF ChecksInv
<1>5. RightAll(history') /\ Fits(said')
  BY <1>1, <1>4 DEF Heard
<1>6. c.side \in Sides /\ w # NoWindow /\ GoodWindow(w, before, c.after)
  BY <1>2, <1>3 DEF GoodCall
<1>7. CASE r.outcome = "correct"
  <2> DEFINE e == Record(c, "alive2", c.window, NoFacts)
  <2>1. Claimed(c.side, w.from, w.to) /\ w.from \in Halves /\ w.to \in Halves
    BY <1>4, <1>6, <1>7 DEF Claimed, GoodWindow
  <2>2. e.side = c.side /\ e.before = before /\ e.after = c.after /\ e.window = w /\ e.facts = NoFacts
    BY RecordIs
  <2> HIDE DEF e, w, before, c
  <2>3. Claimed(c.side, Assuming(w.from, NoFacts), Assuming(w.to, NoFacts))
    BY <1>6, <2>1, NoFactsClaim
  <2>4. NoFacts \in SUBSET Values /\ NoFacts = Values
    BY DEF NoFacts
  <2>5. GoodStep(e)
    BY <1>6, <2>2, <2>3, <2>4, WindowStep
  <2>6. Certified(c, "alive2", c.window, NoFacts)
    BY <1>1, <1>7
  <2> QED BY <1>2, <1>3, <1>5, <2>5, <2>6, CertifiedKeeps DEF e, before
<1>8. CASE r.outcome # "correct"
  <2>1. GoesTo(c, "whole")
    BY <1>1, <1>8
  <2> HIDE DEF c
  <2> QED BY <1>2, <1>3, <1>5, <2>1, GoesKeeps
<1> QED
  BY <1>7, <1>8

\* Asking about the whole functions, where nothing has been taken out.
LEMMA AskWholeKeeps ==
  ASSUME ChecksInv, AskWhole
  PROVE  ChecksInv'
<1> DEFINE c == call
           before == HeadOf(c.side)
           pair == Orient(c.side, before, c.after)
<1>1. UNCHANGED <<hist, status, evidence>> /\ c.at = "whole"
  BY DEF AskWhole
<1>2. GoodCall(c, before)
  BY <1>1, CallIs
<1>3. CASE ~c.whole
  <2>1. call' = NoCall /\ history' = history /\ said' = said
    BY <1>3 DEF AskWhole
  <2>2. RightAll(history') /\ Fits(said')
    BY <2>1 DEF ChecksInv
  <2> QED BY <1>1, <2>1, <2>2, AskingKeeps
<1>4. CASE c.whole
  <2>1. PICK r \in Answers(pair, DefaultMs, NoUnroll) :
          /\ Heard(r)
          /\ IF r.outcome = "correct" THEN Certified(c, "alive2", NoWindow, NoFacts)
             ELSE call' = NoCall
    BY <1>4 DEF AskWhole
  <2>2. RightAll(r.history) /\ Fits(r.said) /\ (r.outcome = "correct" => Refines(pair.tgt, pair.src))
    BY AnswersClaim, BudgetsAre DEF ChecksInv
  <2>3. RightAll(history') /\ Fits(said')
    BY <2>1, <2>2 DEF Heard
  <2>4. CASE r.outcome = "correct"
    <3>1. Claimed(c.side, before, c.after)
      BY <2>2, <2>4 DEF Claimed
    <3>2. Certified(c, "alive2", NoWindow, NoFacts)
      BY <2>1, <2>4
    <3> HIDE DEF c
    <3>3. GoodStep(Record(c, "alive2", NoWindow, NoFacts))
      BY <3>1, WholeStep
    <3> QED BY <1>1, <1>2, <2>3, <3>2, <3>3, CertifiedKeeps
  <2>5. CASE r.outcome # "correct"
    <3>1. call' = NoCall
      BY <2>1, <2>5
    <3> QED BY <1>1, <2>3, <3>1, AskingKeeps
  <2> QED BY <2>4, <2>5
<1> QED
  BY <1>3, <1>4

\* A step that lands is at the end of its side, and leaves the first program as it was.
LEMMA LandsIs ==
  ASSUME Held, NEW side \in Sides, NEW after \in Runnable,
         hist' = [hist EXCEPT ![side] = Append(@, after)]
  PROVE  /\ Held'
         /\ \A s \in Sides : /\ HeadOf(s)' = IF s = side THEN after ELSE HeadOf(s)
                             /\ hist'[s][1] = hist[s][1]
<1>1. /\ hist[side] \in Seq(Runnable) /\ Len(hist[side]) \in Nat \ {0}
      /\ DOMAIN hist = Sides
  BY EmptySeq DEF Held
<1> DEFINE more == Append(hist[side], after)
<1>2. /\ more \in Seq(Runnable) /\ Len(more) = Len(hist[side]) + 1
      /\ more[Len(more)] = after /\ more[1] = hist[side][1]
  BY <1>1, AppendIs
<1>3. \A s \in Sides : hist'[s] = IF s = side THEN more ELSE hist[s]
  BY <1>1
<1> HIDE DEF more
<1>4. more # <<>>
  BY <1>1, <1>2, EmptySeq
<1>5. hist' = [s \in Sides |-> IF s = side THEN more ELSE hist[s]]
  BY <1>1 DEF more
<1>6. Held'
  BY <1>2, <1>4, <1>5 DEF Held
<1>7. \A s \in Sides : HeadOf(s)' = IF s = side THEN after ELSE HeadOf(s)
  BY <1>2, <1>3 DEF HeadOf, Last
<1> QED
  BY <1>2, <1>3, <1>6, <1>7

\* With the right conclusion, landing keeps the invariant.
LEMMA LandsKeeps ==
  ASSUME ChecksInv, NEW c, GoodCall(c, HeadOf(c.side)), c.at = "certified",
         NEW outcome, Lands(c, outcome), RightAll(history'), Fits(said'),
         outcome = "correct" => Refines(PairAfter(c)["tgt"], PairAfter(c)["src"])
  PROVE  ChecksInv'
<1>1. /\ c.side \in Sides /\ c.after \in Runnable /\ GoodStep(c.step)
  BY DEF GoodCall
<1>2. /\ hist' = [hist EXCEPT ![c.side] = Append(@, c.after)]
      /\ status' = IF outcome = "correct" THEN "proved" ELSE "open"
      /\ evidence' = evidence \cup {c.step} /\ call' = NoCall
  BY DEF Lands
<1>3. /\ Held'
      /\ \A s \in Sides : HeadOf(s)' = IF s = c.side THEN c.after ELSE HeadOf(s)
  BY <1>1, <1>2, LandsIs DEF ChecksInv
<1>4. \A s \in Sides : PairAfter(c)[s] = HeadOf(s)'
  BY <1>3 DEF PairAfter
<1>5. "src" \in Sides /\ "tgt" \in Sides
  BY DEF Sides
<1>6. status' = "proved" => Refines(HeadOf("tgt")', HeadOf("src")')
  BY <1>2, <1>4, <1>5
<1>7. status' # "refuted"
  BY <1>2
<1>8. \A e \in evidence' : GoodStep(e)
  BY <1>1, <1>2 DEF ChecksInv, Concluded
<1>9. Concluded'
  BY <1>6, <1>7, <1>8 DEF Concluded
<1>10. CallHeld'
  BY <1>2 DEF CallHeld
<1> QED
  BY <1>3, <1>9, <1>10 DEF ChecksInv

\* Landing a certified step: the head moves on, refined or refining as its side wants it,
\* and the goal is proved only by what is known of its new pair.
LEMMA LandKeeps ==
  ASSUME ChecksInv, Land
  PROVE  ChecksInv'
<1> DEFINE c == call
           pair == PairAfter(c)
<1>1. c.at = "certified"
  BY DEF Land
<1>2. GoodCall(c, HeadOf(c.side))
  BY <1>1, CallIs
<1>3. pair.src = pair["src"] /\ pair.tgt = pair["tgt"] /\ pair.src \in Runnable /\ pair.tgt \in Runnable
  <2>1. c.after \in Runnable /\ "src" \in Sides /\ "tgt" \in Sides
    BY <1>2 DEF GoodCall, Sides
  <2>2. HeadOf("src") \in Runnable /\ HeadOf("tgt") \in Runnable
    BY <2>1, HeadIs DEF ChecksInv
  <2> QED BY <2>1, <2>2 DEF PairAfter
<1>4. CASE ~c.eager
  <2>1. Lands(c, "unknown") /\ history' = history /\ said' = said
    BY <1>4 DEF Land
  <2>2. RightAll(history') /\ Fits(said')
    BY <2>1 DEF ChecksInv
  <2> HIDE DEF c
  <2> QED BY <1>1, <1>2, <2>1, <2>2, LandsKeeps
<1>5. CASE c.eager /\ pair.src # pair.tgt /\ WithoutSolver(pair)
  <2>1. Lands(c, "correct") /\ history' = history /\ said' = said
    BY <1>5 DEF Land
  <2>2. RightAll(history') /\ Fits(said')
    BY <2>1 DEF ChecksInv
  <2>3. Refines(pair.tgt, pair.src)
    <3> HIDE DEF pair
    <3> QED BY <1>3, <1>5, SameLines
  <2>4. Refines(pair["tgt"], pair["src"])
    BY <2>3
  <2> HIDE DEF c
  <2> QED BY <1>1, <1>2, <2>1, <2>2, <2>4, LandsKeeps
<1>6. CASE c.eager /\ ~(pair.src # pair.tgt /\ WithoutSolver(pair))
  <2>1. PICK r \in Answers(pair, EagerMs, NoUnroll) : Heard(r) /\ Lands(c, r.outcome)
    BY <1>6 DEF Land
  <2>2. RightAll(r.history) /\ Fits(r.said) /\ (r.outcome = "correct" => Refines(pair.tgt, pair.src))
    BY AnswersClaim, BudgetsAre DEF ChecksInv
  <2>3. RightAll(history') /\ Fits(said')
    BY <2>1, <2>2 DEF Heard
  <2>4. r.outcome = "correct" => Refines(pair["tgt"], pair["src"])
    BY <2>2
  <2> HIDE DEF c
  <2> QED BY <1>1, <1>2, <2>1, <2>3, <2>4, LandsKeeps
<1> QED
  BY <1>4, <1>5, <1>6

\* A check that concludes what is true keeps the invariant.
LEMMA ConcludesKeeps ==
  ASSUME ChecksInv, UNCHANGED <<hist, evidence, call>>, RightAll(history'), Fits(said'),
         status' = "proved" => status = "proved" \/ Refines(HeadOf("tgt"), HeadOf("src")),
         status' = "refuted" =>
           status = "refuted" \/ ~Refines(hist["tgt"][1], hist["src"][1])
  PROVE  ChecksInv'
<1>1. \A s : HeadOf(s)' = HeadOf(s)
  BY DEF HeadOf
<1>2. Held' /\ CallHeld'
  BY <1>1 DEF ChecksInv, Held, CallHeld
<1>3. Concluded'
  BY <1>1 DEF ChecksInv, Concluded
<1> QED
  BY <1>2, <1>3 DEF ChecksInv

\* Checking a goal: proved by a check of the heads, refuted only by a counterexample of the
\* pair the goal was opened with.
LEMMA CheckGoalKeeps ==
  ASSUME ChecksInv, NEW ms \in AskedMs, NEW unroll \in {NoUnroll} \cup Unrolls,
         CheckGoal(ms, unroll)
  PROVE  ChecksInv'
<1> DEFINE pair  == [s \in Sides |-> HeadOf(s)]
           same  == pair.src = pair.tgt
           loops == ~same /\ Loops(pair)
           used  == IF loops THEN unroll ELSE NoUnroll
<1>1. UNCHANGED <<hist, evidence, call>>
  BY DEF CheckGoal
<1>2. /\ pair.src = HeadOf("src") /\ pair.tgt = HeadOf("tgt")
      /\ pair.src \in Runnable /\ pair.tgt \in Runnable
  <2>1. "src" \in Sides /\ "tgt" \in Sides
    BY DEF Sides
  <2> QED BY <2>1, HeadIs DEF ChecksInv
<1>3. \/ ~same /\ WithoutSolver(pair) /\ status' = "proved" /\ UNCHANGED <<history, said>>
      \/ UNCHANGED <<status, history, said>>
      \/ /\ ~(loops /\ unroll = NoUnroll)
         /\ \E r \in Answers(pair, Min({ms, CapMs}), used) : Heard(r) /\ Concludes(r.outcome, loops)
  BY DEF CheckGoal
<1>4. CASE ~same /\ WithoutSolver(pair) /\ status' = "proved" /\ UNCHANGED <<history, said>>
  <2>1. Refines(pair.tgt, pair.src)
    <3> HIDE DEF pair
    <3> QED BY <1>2, <1>4, SameLines
  <2>2. Refines(HeadOf("tgt"), HeadOf("src"))
    BY <1>2, <2>1
  <2>3. RightAll(history') /\ Fits(said')
    BY <1>4 DEF ChecksInv
  <2> QED BY <1>1, <1>4, <2>2, <2>3, ConcludesKeeps
<1>5. CASE UNCHANGED <<status, history, said>>
  <2>1. RightAll(history') /\ Fits(said')
    BY <1>5 DEF ChecksInv
  <2> QED BY <1>1, <1>5, <2>1, ConcludesKeeps
<1>6. CASE /\ ~(loops /\ unroll = NoUnroll)
           /\ \E r \in Answers(pair, Min({ms, CapMs}), used) :
                Heard(r) /\ Concludes(r.outcome, loops)
  <2> HIDE DEF pair, loops
  <2>1. PICK r \in Answers(pair, Min({ms, CapMs}), used) : Heard(r) /\ Concludes(r.outcome, loops)
    BY <1>6
  <2>2. Min({ms, CapMs}) \in Budgets
    BY BudgetsAre
  <2>3. /\ RightAll(r.history) /\ Fits(r.said)
        /\ r.outcome = "correct" =>
             pair.src = pair.tgt \/ Right(Question(pair, used)) = "correct"
        /\ r.outcome = "incorrect" => Right(Question(pair, used)) = "incorrect"
    BY <2>2, AnswersAre DEF ChecksInv
  <2>4. RightAll(history') /\ Fits(said')
    BY <2>1, <2>3 DEF Heard
  <2>5. /\ ~loops => Right(Question(pair, used)) =
                       IF Refines(pair.tgt, pair.src) THEN "correct" ELSE "incorrect"
        /\ loops => Right(Question(pair, used)) =
                      IF RefinesWithin(pair.tgt, pair.src, unroll) THEN "correct" ELSE "incorrect"
    <3>1. /\ Question(pair, used).src = pair.src /\ Question(pair, used).tgt = pair.tgt
          /\ Question(pair, used).unroll = used
      BY DEF Question
    <3>2. loops => used = unroll /\ used # NoUnroll
      BY <1>6
    <3>3. ~loops => used = NoUnroll
      OBVIOUS
    <3> HIDE DEF used
    <3> QED BY <3>1, <3>2, <3>3 DEF Right
  <2>6. unroll \in Nat
    BY UnrollsArePositive DEF NoUnroll
  <2>7. r.outcome = "incorrect" => ~Refines(pair.tgt, pair.src)
    BY <1>2, <2>3, <2>5, <2>6, WithinIsAll
  <2>8. r.outcome = "correct" /\ ~loops => Refines(pair.tgt, pair.src)
    <3>1. Refines(pair.src, pair.src)
      BY RefinesItself
    <3> QED BY <2>3, <2>5, <3>1
  <2>9. status' = CASE r.outcome = "correct" /\ ~loops        -> "proved"
                    [] r.outcome = "incorrect" /\ RootPair -> "refuted"
                    [] OTHER                               -> status
    BY <2>1 DEF Concludes, IsProof
  <2>10. status' = "proved" => status = "proved" \/ (r.outcome = "correct" /\ ~loops)
    BY <2>9
  <2>11. status' = "refuted" => status = "refuted" \/ (r.outcome = "incorrect" /\ RootPair)
    BY <2>9
  <2>12. RootPair => HeadOf("tgt") = hist["tgt"][1] /\ HeadOf("src") = hist["src"][1]
    BY DEF RootPair, Sides
  <2>13. status' = "proved" => status = "proved" \/ Refines(HeadOf("tgt"), HeadOf("src"))
    BY <1>2, <2>8, <2>10
  <2>14. status' = "refuted" => status = "refuted" \/ ~Refines(hist["tgt"][1], hist["src"][1])
    BY <1>2, <2>7, <2>11, <2>12
  <2> QED BY <1>1, <2>4, <2>13, <2>14, ConcludesKeeps
<1> QED
  BY <1>3, <1>4, <1>5, <1>6

\* A check of any two programs: it changes no goal.
LEMMA RefinementCheckKeeps ==
  ASSUME ChecksInv, NEW ms \in AskedMs, NEW pair, NEW unroll, RefinementCheck(pair, ms, unroll)
  PROVE  ChecksInv'
<1> DEFINE asked == [src |-> pair[1], tgt |-> pair[2]]
<1>1. PICK r \in Answers(asked, Min({ms, CapMs}), unroll) : Heard(r)
  BY DEF RefinementCheck
<1>2. UNCHANGED <<hist, status, evidence, call>>
  BY DEF RefinementCheck
<1>3. RightAll(r.history) /\ Fits(r.said)
  BY AnswersAre, BudgetsAre DEF ChecksInv
<1>4. RightAll(history') /\ Fits(said')
  BY <1>1, <1>3 DEF Heard
<1> QED
  BY <1>2, <1>4, ConcludesKeeps

\* Every step of the next-state relation keeps the invariant.
LEMMA StepKeeps ==
  ASSUME ChecksInv, [Next]_vars
  PROVE  ChecksInv'
<1>1. CASE \E side \in Sides, after \in Programs : Commit(side, after)
  BY <1>1, CommitKeeps
<1>2. CASE \E after \in Programs : Rewrite(after)
  BY <1>2, RewriteKeeps
<1>3. CASE AskFactsHold \/ AskFacts \/ AskWindow \/ AskWhole
  BY <1>3, AskFactsHoldKeeps, AskFactsKeeps, AskWindowKeeps, AskWholeKeeps
<1>4. CASE Land
  BY <1>4, LandKeeps
<1>5. CASE \E ms \in AskedMs, unroll \in {NoUnroll} \cup Unrolls : CheckGoal(ms, unroll)
  BY <1>5, CheckGoalKeeps
<1>6. CASE \E ms \in AskedMs, unroll \in {NoUnroll} \cup Unrolls :
             \E pair \in Asked : RefinementCheck(pair, ms, unroll)
  BY <1>6, RefinementCheckKeeps
<1>7. CASE UNCHANGED vars
  <2>1. UNCHANGED <<hist, status, evidence, history, call, said>>
    BY <1>7 DEF vars
  <2>2. RightAll(history') /\ Fits(said')
    BY <2>1 DEF ChecksInv
  <2> QED BY <2>1, <2>2, ConcludesKeeps
<1> QED
  BY <1>1, <1>2, <1>3, <1>4, <1>5, <1>6, <1>7 DEF Next

-----------------------------------------------------------------------------
(* The theorems.                                                           *)

\* The inductive invariant: every definite answer kept is right, the call under way has a
\* window both halves go back into and facts that were shown to hold there, and every step
\* that landed, and every conclusion, is true.
THEOREM ChecksInvHolds == Spec => []ChecksInv
<1> QED
  BY InitHolds, StepKeeps, PTL DEF Spec

\* What is concluded is true: a certified step makes its side's claim stronger, a proved pair
\* refines, and a refuted goal has a counterexample, loops unrolled or not (steps.ts
\* checkStep, checkGoal, goalOutcome).
THEOREM ConclusionsAreTrue == Spec => []ConclusionsTrue
<1> QED
  BY InvSays, ChecksInvHolds, PTL

\* What is recorded of a window shows the step again: both halves go back into the outer, and
\* the small pair refines under the facts written with it (steps.ts step.window).
THEOREM RecordsReplay == Spec => []Replayable
<1> QED
  BY InvSays, ChecksInvHolds, PTL

\* An answer is one to the question it is given to, and one that did not come was waited for as
\* long as this caller asked (steps.ts alive2).
THEOREM AnswersAreToTheQuestion == Spec => []AnswersFit
<1> QED
  BY InvSays, ChecksInvHolds, PTL

-----------------------------------------------------------------------------
(* Bounds, and one answer to a question.                                   *)

(* No two of the answers kept are to one question. *)
OneEach(answers) == \A h, k \in answers : h.q = k.q => h = k

InBounds ==
  /\ status \in {"open", "proved", "refuted"}
  /\ steps \in 0..MaxSteps /\ checks \in 0..MaxChecks
  /\ OneEach(history)

\* An answer takes the place of the one that was kept of its question.
LEMMA AnswersReplace ==
  ASSUME OneEach(history), NEW pair, NEW ms, NEW unroll, NEW r \in Answers(pair, ms, unroll)
  PROVE  OneEach(r.history)
<1> DEFINE q == Question(pair, unroll)
           unasked(outcome) == [outcome |-> outcome, history |-> history, said |-> said]
           given(h) == [outcome |-> h.outcome, history |-> {k \in history : k.q # q} \cup {h},
                        said |-> [q |-> q, outcome |-> h.outcome, spent |-> h.ms, wanted |-> ms]]
<1>1. \/ r \in {unasked("correct"), unasked("unknown")}
      \/ \E h \in Known(q) : r = given(h)
      \/ \E outcome \in {Right(q), "unknown"} : r = given([q |-> q, outcome |-> outcome, ms |-> ms])
  BY DEF Answers
<1>2. \A h \in Known(q) : h \in history /\ h.q = q
  BY DEF Known
<1> HIDE DEF q
<1>3. ASSUME NEW h, h.q = q
      PROVE  OneEach(given(h).history)
  BY <1>3 DEF OneEach
<1>4. CASE r \in {unasked("correct"), unasked("unknown")}
  BY <1>4
<1>5. CASE \E h \in Known(q) : r = given(h)
  <2>1. PICK h \in Known(q) : r = given(h)
    BY <1>5
  <2> QED BY <1>2, <1>3, <2>1
<1>6. CASE \E outcome \in {Right(q), "unknown"} :
             r = given([q |-> q, outcome |-> outcome, ms |-> ms])
  <2>1. PICK outcome \in {Right(q), "unknown"} :
          r = given([q |-> q, outcome |-> outcome, ms |-> ms])
    BY <1>6
  <2> DEFINE h == [q |-> q, outcome |-> outcome, ms |-> ms]
  <2>2. h.q = q
    OBVIOUS
  <2> HIDE DEF h
  <2> QED BY <1>3, <2>1, <2>2 DEF h
<1> QED
  BY <1>1, <1>4, <1>5, <1>6

\* What is heard, or not asked, leaves one answer to each question.
LEMMA OneEachKept ==
  ASSUME OneEach(history), Next
  PROVE  OneEach(history')
<1>1. CASE history' = history
  BY <1>1
<1>2. ASSUME NEW pair, NEW ms, NEW unroll,
             \E r \in Answers(pair, ms, unroll) : Heard(r)
      PROVE  OneEach(history')
  <2>1. PICK r \in Answers(pair, ms, unroll) : Heard(r)
    BY <1>2
  <2> QED BY <2>1, AnswersReplace DEF Heard
<1>3. CASE \E side \in Sides, after \in Programs : Commit(side, after)
  BY <1>1, <1>3 DEF Commit
<1>4. CASE \E after \in Programs : Rewrite(after)
  BY <1>1, <1>4 DEF Rewrite
<1>5. CASE AskFactsHold
  BY <1>2, <1>5 DEF AskFactsHold
<1>6. CASE AskFacts
  BY <1>2, <1>6 DEF AskFacts
<1>7. CASE AskWindow
  BY <1>2, <1>7 DEF AskWindow
<1>8. CASE AskWhole
  BY <1>1, <1>2, <1>8 DEF AskWhole
<1>9. CASE Land
  BY <1>1, <1>2, <1>9 DEF Land
<1>10. CASE \E ms \in AskedMs, unroll \in {NoUnroll} \cup Unrolls : CheckGoal(ms, unroll)
  <2>1. PICK ms \in AskedMs, unroll \in {NoUnroll} \cup Unrolls : CheckGoal(ms, unroll)
    BY <1>10
  <2> QED BY <1>1, <1>2, <2>1 DEF CheckGoal
<1>11. CASE \E ms \in AskedMs, unroll \in {NoUnroll} \cup Unrolls :
              \E pair \in Asked : RefinementCheck(pair, ms, unroll)
  <2>1. PICK ms \in AskedMs, unroll \in {NoUnroll} \cup Unrolls, pair \in Asked :
          RefinementCheck(pair, ms, unroll)
    BY <1>11
  <2> QED BY <1>2, <2>1 DEF RefinementCheck
<1> QED
  BY <1>3, <1>4, <1>5, <1>6, <1>7, <1>8, <1>9, <1>10, <1>11 DEF Next

\* A step counts at most once, and only below its bound.
LEMMA CountsKept ==
  ASSUME InBounds, Next
  PROVE  steps' \in 0..MaxSteps /\ checks' \in 0..MaxChecks
<1>1. /\ steps' = steps \/ (steps < MaxSteps /\ steps' = steps + 1)
      /\ checks' = checks \/ (checks < MaxChecks /\ checks' = checks + 1)
  <2>1. CASE \E side \in Sides, after \in Programs : Commit(side, after)
    BY <2>1 DEF Commit
  <2>2. CASE \E after \in Programs : Rewrite(after)
    BY <2>2 DEF Rewrite
  <2>3. CASE AskFactsHold \/ AskFacts \/ AskWindow \/ AskWhole
    BY <2>3 DEF AskFactsHold, AskFacts, AskWindow, AskWhole
  <2>4. CASE Land
    BY <2>4 DEF Land, Lands
  <2>5. CASE \E ms \in AskedMs, unroll \in {NoUnroll} \cup Unrolls :
               \/ CheckGoal(ms, unroll)
               \/ \E pair \in Asked : RefinementCheck(pair, ms, unroll)
    BY <2>5 DEF CheckGoal, RefinementCheck
  <2> QED BY <2>1, <2>2, <2>3, <2>4, <2>5 DEF Next
<1> QED
  BY <1>1, BoundsAreNat DEF InBounds

\* A goal is open, proved or refuted.
LEMMA StatusKept ==
  ASSUME InBounds, Next
  PROVE  status' \in {"open", "proved", "refuted"}
<1>1. CASE status' = status
  BY <1>1 DEF InBounds
<1>2. ASSUME NEW outcome, NEW loops, Concludes(outcome, loops)
      PROVE  status' \in {"open", "proved", "refuted"}
  BY <1>2 DEF Concludes, InBounds
<1>3. CASE Land
  <2>1. \E c, outcome : Lands(c, outcome)
    BY <1>3 DEF Land
  <2> QED BY <2>1 DEF Lands
<1>4. CASE \E ms \in AskedMs, unroll \in {NoUnroll} \cup Unrolls : CheckGoal(ms, unroll)
  <2>1. PICK ms \in AskedMs, unroll \in {NoUnroll} \cup Unrolls : CheckGoal(ms, unroll)
    BY <1>4
  <2>2. status' = "proved" \/ status' = status \/ \E outcome, loops : Concludes(outcome, loops)
    BY <2>1 DEF CheckGoal
  <2> QED BY <1>1, <1>2, <2>2
<1>5. CASE \E ms \in AskedMs, unroll \in {NoUnroll} \cup Unrolls :
             \E pair \in Asked : RefinementCheck(pair, ms, unroll)
  BY <1>1, <1>5 DEF RefinementCheck
<1>6. CASE \E side \in Sides, after \in Programs : Commit(side, after)
  BY <1>1, <1>6 DEF Commit
<1>7. CASE \E after \in Programs : Rewrite(after)
  BY <1>1, <1>7 DEF Rewrite
<1>8. CASE AskFactsHold \/ AskFacts \/ AskWindow \/ AskWhole
  BY <1>1, <1>8 DEF AskFactsHold, AskFacts, AskWindow, AskWhole
<1> QED
  BY <1>3, <1>4, <1>5, <1>6, <1>7, <1>8 DEF Next

\* Of a question one answer is kept, a step that is being certified is in one of its phases,
\* and one whose window is asked about has one (cache.ts, steps.ts checkStep).
THEOREM ChecksTyped == Spec => []TypeOK
<1>1. Init => InBounds
  BY BoundsAreNat DEF Init, InBounds, OneEach
<1>2. InBounds /\ [Next]_vars => InBounds'
  <2> SUFFICES ASSUME InBounds, [Next]_vars PROVE InBounds'
    OBVIOUS
  <2>1. CASE Next
    BY <2>1, OneEachKept, CountsKept, StatusKept DEF InBounds, OneEach
  <2>2. CASE UNCHANGED vars
    BY <2>2 DEF vars, InBounds, OneEach
  <2> QED BY <2>1, <2>2
<1>3. ChecksInv /\ InBounds => TypeOK
  <2> SUFFICES ASSUME ChecksInv, InBounds PROVE TypeOK
    OBVIOUS
  <2>1. CASE call = NoCall
    BY <2>1 DEF InBounds, OneEach, TypeOK, NoCall
  <2>2. CASE GoodCall(call, HeadOf(call.side))
    BY <2>2 DEF InBounds, OneEach, TypeOK, GoodCall
  <2> QED BY <2>1, <2>2 DEF ChecksInv, CallHeld
<1> QED
  BY <1>1, <1>2, <1>3, ChecksInvHolds, PTL DEF Spec

=============================================================================
