----------------------------- MODULE BrowserProofs -----------------------------
(***************************************************************************)
(* What a page of the browser keeps of its searches, its editor and its    *)
(* reports, proved for any number of runs, moves, calls and acts.          *)
(***************************************************************************)
EXTENDS Browser, SequenceTheorems, FiniteSetTheorems, TLAPS

-----------------------------------------------------------------------------
(* What a worker posted and the page has not received.                     *)

Messages == [type : {"exec", "kill", "program", "trajectory", "progress", "result"}, n : Nat]
              \cup [type : {"error"}]

IsLine(m) == m.type = "trajectory"

(* The messages q of run r, whose page holds n of its m lines and the programs P; `done` says
   that the search ended.  The lines n + 1 to m wait in order, each after its program and before
   the progress that counts it, and the result after them all. *)
Queue(q, r, n, m, P, done) ==
  /\ n <= m
  /\ \A i \in DOMAIN q : IsLine(q[i]) => q[i].n > n /\ q[i].n <= m
  /\ \A k \in n + 1..m : \E i \in DOMAIN q : IsLine(q[i]) /\ q[i].n = k
  /\ \A i, j \in DOMAIN q : i < j /\ IsLine(q[i]) /\ IsLine(q[j]) => q[i].n < q[j].n
  /\ \A i \in DOMAIN q : IsLine(q[i]) =>
       \/ <<r, q[i].n>> \in P
       \/ \E j \in DOMAIN q : j < i /\ q[j].type = "program" /\ q[j].n = q[i].n
  /\ \A i \in DOMAIN q : q[i].type = "progress" =>
       \/ q[i].n <= n
       \/ \E j \in DOMAIN q : j < i /\ IsLine(q[j]) /\ q[j].n = q[i].n
  /\ \A i \in DOMAIN q : q[i].type = "result" =>
       q[i].n = m /\ done /\ \A j \in DOMAIN q : IsLine(q[j]) => j < i

(* A message the page's history has nothing to do with. *)
Other(m) == m.type \in {"exec", "kill", "error"}

\* What is put behind a queue, and what is left behind its head.
LEMMA ConcatIs ==
  ASSUME NEW S, NEW q \in Seq(S), NEW ms \in Seq(S)
  PROVE  /\ q \o ms \in Seq(S) /\ Len(q \o ms) = Len(q) + Len(ms)
         /\ DOMAIN (q \o ms) = 1..(Len(q) + Len(ms))
         /\ \A i \in DOMAIN q : i \in DOMAIN (q \o ms) /\ (q \o ms)[i] = q[i]
         /\ \A i \in DOMAIN (q \o ms) : i \notin DOMAIN q =>
              i - Len(q) \in DOMAIN ms /\ (q \o ms)[i] = ms[i - Len(q)]
OBVIOUS

LEMMA TailIs ==
  ASSUME NEW S, NEW q \in Seq(S), q # <<>>
  PROVE  /\ Tail(q) \in Seq(S) /\ DOMAIN Tail(q) = 1..(Len(q) - 1) /\ DOMAIN q = 1..Len(q)
         /\ Len(q) \in Nat /\ 1 \in DOMAIN q /\ Head(q) = q[1] /\ Head(q) \in S
         /\ \A i \in DOMAIN Tail(q) : i + 1 \in DOMAIN q /\ Tail(q)[i] = q[i + 1]
         /\ \A i \in DOMAIN q : i # 1 => i - 1 \in DOMAIN Tail(q) /\ Tail(q)[i - 1] = q[i]
BY HeadTailProperties, EmptySeq

\* Messages that say nothing of the history change nothing behind or before the others.
LEMMA QueueOthers ==
  ASSUME NEW q \in Seq(Messages), NEW ms \in Seq(Messages), NEW r, NEW n \in Nat, NEW m \in Nat,
         NEW P, NEW done, NEW still, done => still,
         Queue(q, r, n, m, P, done), \A i \in DOMAIN ms : Other(ms[i])
  PROVE  Queue(q \o ms, r, n, m, P, still)
<1> DEFINE t == q \o ms
<1>1. /\ \A i \in DOMAIN q : i \in DOMAIN t /\ t[i] = q[i]
      /\ \A i \in DOMAIN t : i \notin DOMAIN q => Other(t[i])
  BY ConcatIs
<1>2. \A x : Other(x) => ~IsLine(x) /\ x.type # "program" /\ x.type # "progress"
                           /\ x.type # "result"
  BY DEF Other, IsLine
<1> HIDE DEF t
<1>3. \A i \in DOMAIN t : i \in DOMAIN q \/ Other(t[i])
  BY <1>1
<1> HIDE DEF Other, IsLine
<1>4. \A i \in DOMAIN t : IsLine(t[i]) \/ t[i].type \in {"program", "progress", "result"} =>
        i \in DOMAIN q /\ t[i] = q[i]
  BY <1>1, <1>2, <1>3
<1>5. \A k \in n + 1..m : \E i \in DOMAIN t : IsLine(t[i]) /\ t[i].n = k
  BY <1>1 DEF Queue
<1>6. \A i \in DOMAIN t : IsLine(t[i]) =>
        \/ <<r, t[i].n>> \in P
        \/ \E j \in DOMAIN t : j < i /\ t[j].type = "program" /\ t[j].n = t[i].n
  BY <1>1, <1>4 DEF Queue
<1>7. \A i \in DOMAIN t : t[i].type = "progress" =>
        \/ t[i].n <= n
        \/ \E j \in DOMAIN t : j < i /\ IsLine(t[j]) /\ t[j].n = t[i].n
  BY <1>1, <1>4 DEF Queue
<1>8. \A i \in DOMAIN t : t[i].type = "result" =>
        t[i].n = m /\ still /\ \A j \in DOMAIN t : IsLine(t[j]) => j < i
  BY <1>4 DEF Queue
<1>9. /\ n <= m
      /\ \A i \in DOMAIN t : IsLine(t[i]) => t[i].n > n /\ t[i].n <= m
      /\ \A i, j \in DOMAIN t : i < j /\ IsLine(t[i]) /\ IsLine(t[j]) => t[i].n < t[j].n
  BY <1>4 DEF Queue
<1>10. Queue(t, r, n, m, P, still)
  BY <1>5, <1>6, <1>7, <1>8, <1>9 DEF Queue
<1> QED
  BY <1>10 DEF t

(* The first message is what the page can take: the line it lacks, with its program, a progress
   that counts no more than it has, or the result when it lacks none. *)
NextFits(q, r, n, m, P) ==
  /\ IsLine(Head(q)) => Head(q).n = n + 1 /\ <<r, n + 1>> \in P
  /\ Head(q).type = "progress" => Head(q).n <= n
  /\ Head(q).type = "result" => Head(q).n = m /\ n = m

\* The page takes the head of the queue: a line is the next it lacks, with its program, and a
\* progress counts no more than the lines it has.
LEMMA QueueTail ==
  ASSUME NEW q \in Seq(Messages), NEW r, NEW n \in Nat, NEW m \in Nat,
         NEW P, NEW done, q # <<>>, Queue(q, r, n, m, P, done),
         NEW R, P \subseteq R, Head(q).type = "program" => <<r, Head(q).n>> \in R,
         NEW k \in Nat, k = (IF IsLine(Head(q)) THEN n + 1 ELSE n)
  PROVE  Queue(Tail(q), r, k, m, R, done) /\ NextFits(q, r, n, m, P)
<1> DEFINE t == Tail(q)
<1>1. /\ DOMAIN t = 1..(Len(q) - 1) /\ DOMAIN q = 1..Len(q)
      /\ Len(q) \in Nat /\ 1 \in DOMAIN q /\ Head(q) = q[1]
      /\ \A i \in DOMAIN t : i + 1 \in DOMAIN q /\ t[i] = q[i + 1]
      /\ \A i \in DOMAIN q : i # 1 => i - 1 \in DOMAIN t /\ t[i - 1] = q[i]
  BY TailIs
<1> HIDE DEF t
<1>2. \A j \in DOMAIN q : ~(j < 1)
  BY <1>1
<1>3. IsLine(q[1]) => q[1].n = n + 1 /\ <<r, n + 1>> \in P
  <2> SUFFICES ASSUME IsLine(q[1]) PROVE q[1].n = n + 1 /\ <<r, n + 1>> \in P
    OBVIOUS
  <2>1. q[1].n > n /\ q[1].n <= m /\ q[1].n \in Nat
    <3>1. q[1] \in Messages
      BY <1>1
    <3>2. q[1].n \in Nat
      BY <3>1 DEF Messages, IsLine
    <3> QED BY <1>1, <3>2 DEF Queue
  <2>2. n + 1 \in n + 1..m
    BY <2>1
  <2>3. PICK i \in DOMAIN q : IsLine(q[i]) /\ q[i].n = n + 1
    BY <2>2 DEF Queue
  <2>4. 1 < i => q[1].n < n + 1
    BY <1>1, <2>3 DEF Queue
  <2>5. i = 1
    BY <1>1, <2>1, <2>3, <2>4
  <2>6. <<r, q[1].n>> \in P
    BY <1>1, <1>2 DEF Queue
  <2> QED BY <2>3, <2>5, <2>6
<1>4. k <= m /\ \A i \in DOMAIN t : IsLine(t[i]) => t[i].n > k /\ t[i].n <= m
  <2>1. n <= m
    BY DEF Queue
  <2>2. k <= m
    BY <1>1, <1>3, <2>1 DEF Queue
  <2>3. ASSUME NEW i \in DOMAIN t, IsLine(t[i]) PROVE t[i].n > k /\ t[i].n <= m
    <3>1. i + 1 \in DOMAIN q /\ t[i] = q[i + 1] /\ 1 < i + 1
      BY <1>1
    <3>2. q[i + 1].n > n /\ q[i + 1].n <= m
      BY <2>3, <3>1 DEF Queue
    <3>3. IsLine(q[1]) => q[1].n < q[i + 1].n
      BY <1>1, <2>3, <3>1 DEF Queue
    <3> QED BY <1>1, <1>3, <3>1, <3>2, <3>3
  <2> QED BY <2>2, <2>3
<1>5. \A l \in k + 1..m : \E i \in DOMAIN t : IsLine(t[i]) /\ t[i].n = l
  <2> TAKE l \in k + 1..m
  <2>1. l \in n + 1..m
    OBVIOUS
  <2>2. PICK i \in DOMAIN q : IsLine(q[i]) /\ q[i].n = l
    BY <2>1 DEF Queue
  <2>3. i # 1
    BY <1>1, <1>3, <2>2
  <2> QED BY <1>1, <2>2, <2>3
<1>6. \A i, j \in DOMAIN t : i < j /\ IsLine(t[i]) /\ IsLine(t[j]) => t[i].n < t[j].n
  <2> TAKE i, j \in DOMAIN t
  <2>1. i + 1 \in DOMAIN q /\ j + 1 \in DOMAIN q /\ t[i] = q[i + 1] /\ t[j] = q[j + 1]
    BY <1>1
  <2>2. i < j => i + 1 < j + 1
    BY <1>1
  <2> QED BY <2>1, <2>2 DEF Queue
<1>7. \A i \in DOMAIN t : IsLine(t[i]) =>
        \/ <<r, t[i].n>> \in R
        \/ \E j \in DOMAIN t : j < i /\ t[j].type = "program" /\ t[j].n = t[i].n
  <2> SUFFICES ASSUME NEW i \in DOMAIN t, IsLine(t[i]), <<r, t[i].n>> \notin R
               PROVE  \E j \in DOMAIN t : j < i /\ t[j].type = "program" /\ t[j].n = t[i].n
    OBVIOUS
  <2>1. i + 1 \in DOMAIN q /\ t[i] = q[i + 1]
    BY <1>1
  <2>2. PICK j \in DOMAIN q : j < i + 1 /\ q[j].type = "program" /\ q[j].n = q[i + 1].n
    BY <2>1 DEF Queue
  <2>3. j # 1
    BY <1>1, <2>1, <2>2
  <2>4. j - 1 \in DOMAIN t /\ t[j - 1] = q[j] /\ j - 1 < i
    BY <1>1, <2>2, <2>3
  <2> QED BY <2>1, <2>2, <2>4
<1>8. \A i \in DOMAIN t : t[i].type = "progress" =>
        \/ t[i].n <= k
        \/ \E j \in DOMAIN t : j < i /\ IsLine(t[j]) /\ t[j].n = t[i].n
  <2> SUFFICES ASSUME NEW i \in DOMAIN t, t[i].type = "progress", ~(t[i].n <= k)
               PROVE  \E j \in DOMAIN t : j < i /\ IsLine(t[j]) /\ t[j].n = t[i].n
    OBVIOUS
  <2>1. i + 1 \in DOMAIN q /\ t[i] = q[i + 1]
    BY <1>1
  <2>2. q[i + 1].n \in Nat
    BY <2>1 DEF Messages
  <2>3. ~(q[i + 1].n <= n)
    BY <2>1, <2>2
  <2>4. PICK j \in DOMAIN q : j < i + 1 /\ IsLine(q[j]) /\ q[j].n = q[i + 1].n
    BY <2>1, <2>3 DEF Queue
  <2>5. j # 1
    BY <1>1, <1>3, <2>1, <2>2, <2>4
  <2>6. j - 1 \in DOMAIN t /\ t[j - 1] = q[j] /\ j - 1 < i
    BY <1>1, <2>4, <2>5
  <2> QED BY <2>1, <2>4, <2>6
<1>9. \A i \in DOMAIN t : t[i].type = "result" =>
        t[i].n = m /\ done /\ \A j \in DOMAIN t : IsLine(t[j]) => j < i
  <2> SUFFICES ASSUME NEW i \in DOMAIN t, t[i].type = "result"
               PROVE  t[i].n = m /\ done /\ \A j \in DOMAIN t : IsLine(t[j]) => j < i
    OBVIOUS
  <2>1. i + 1 \in DOMAIN q /\ t[i] = q[i + 1]
    BY <1>1
  <2>2. q[i + 1].n = m /\ done /\ \A j \in DOMAIN q : IsLine(q[j]) => j < i + 1
    BY <2>1 DEF Queue
  <2>3. ASSUME NEW j \in DOMAIN t, IsLine(t[j]) PROVE j < i
    <3>1. j + 1 \in DOMAIN q /\ t[j] = q[j + 1]
      BY <1>1
    <3> QED BY <1>1, <2>2, <2>3, <3>1
  <2> QED BY <2>1, <2>2, <2>3
<1>10. Queue(t, r, k, m, R, done)
  BY <1>4, <1>5, <1>6, <1>7, <1>8, <1>9 DEF Queue
<1>11. q[1].type = "progress" => q[1].n <= n
  BY <1>1, <1>2 DEF Queue
<1>12. q[1].type = "result" => q[1].n = m /\ n = m
  <2> SUFFICES ASSUME q[1].type = "result" PROVE q[1].n = m /\ n = m
    OBVIOUS
  <2>1. q[1].n = m /\ \A j \in DOMAIN q : ~IsLine(q[j])
    BY <1>1, <1>2 DEF Queue
  <2>2. n + 1 \in n + 1..m => FALSE
    BY <2>1 DEF Queue
  <2> QED BY <2>1, <2>2 DEF Queue
<1> QED
  BY <1>1, <1>3, <1>10, <1>11, <1>12 DEF t, NextFits

\* A move puts its program, its line and its progress behind the others.
LEMMA QueueMove ==
  ASSUME NEW q \in Seq(Messages), NEW ms \in Seq(Messages), NEW r, NEW n \in Nat, NEW m \in Nat,
         NEW P, Queue(q, r, n, m, P, FALSE),
         Len(ms) = 3, ms[1].type = "program", IsLine(ms[2]), ms[3].type = "progress",
         \A i \in DOMAIN ms : ms[i].n = m + 1
  PROVE  Queue(q \o ms, r, n, m + 1, P, FALSE)
<1> DEFINE t == q \o ms
<1>0. Len(q) \in Nat /\ DOMAIN q = 1..Len(q) /\ DOMAIN ms = 1..3
  OBVIOUS
<1>1. /\ DOMAIN t = 1..(Len(q) + 3)
      /\ \A i \in DOMAIN q : t[i] = q[i]
      /\ t[Len(q) + 1] = ms[1] /\ t[Len(q) + 2] = ms[2] /\ t[Len(q) + 3] = ms[3]
  <2>0. /\ DOMAIN t = 1..(Len(q) + Len(ms)) /\ \A i \in DOMAIN q : t[i] = q[i]
        /\ \A i \in DOMAIN t : i \notin DOMAIN q => t[i] = ms[i - Len(q)]
    <3>1. DOMAIN t = 1..(Len(q) + Len(ms))
      <4>1. t \in Seq(Messages) /\ Len(t) = Len(q) + Len(ms)
        BY ConcatIs
      <4> HIDE DEF t
      <4> QED BY <4>1
    <3>2. \A i \in DOMAIN q : i \in DOMAIN t /\ t[i] = q[i]
      BY ConcatIs
    <3>3. \A i \in DOMAIN t : i \notin DOMAIN q => t[i] = ms[i - Len(q)]
      BY ConcatIs
    <3> QED BY <3>1, <3>2, <3>3
  <2>1. /\ DOMAIN t = 1..(Len(q) + 3)
        /\ \A i \in DOMAIN q : t[i] = q[i]
        /\ \A i \in DOMAIN t : i \notin DOMAIN q => t[i] = ms[i - Len(q)]
    <3> HIDE DEF t
    <3> QED BY <2>0
  <2>2. \A k \in 1..3 : Len(q) + k \in DOMAIN t /\ Len(q) + k \notin DOMAIN q
                         /\ (Len(q) + k) - Len(q) = k
    BY <1>0, <2>1
  <2>3. \A k \in 1..3 : t[Len(q) + k] = ms[k]
    <3> HIDE DEF t
    <3> QED BY <2>1, <2>2
  <2> QED BY <2>1, <2>3
<1>2. ms[1].n = m + 1 /\ ms[2].n = m + 1 /\ ms[3].n = m + 1
  BY <1>0
<1> HIDE DEF t
<1>3. /\ ~IsLine(ms[1]) /\ ~IsLine(ms[3]) /\ ms[2].type = "trajectory"
      /\ \A x : x.type = "progress" => ~IsLine(x)
      /\ \A x : x.type = "result" => ~IsLine(x)
  BY DEF IsLine
<1>4. \A i \in DOMAIN t : i \in DOMAIN q \/ i = Len(q) + 1 \/ i = Len(q) + 2 \/ i = Len(q) + 3
  BY <1>0, <1>1
<1>5. \A i \in DOMAIN t : IsLine(t[i]) => (i \in DOMAIN q /\ t[i] = q[i]) \/ i = Len(q) + 2
  BY <1>1, <1>3, <1>4
<1>6. \A i \in DOMAIN t : t[i].type = "progress" =>
        (i \in DOMAIN q /\ t[i] = q[i]) \/ i = Len(q) + 3
  BY <1>1, <1>3, <1>4
<1>7. \A i \in DOMAIN t : t[i].type # "result"
  <2>1. \A i \in DOMAIN q : q[i].type # "result"
    BY DEF Queue
  <2> QED BY <1>1, <1>3, <1>4, <2>1
<1>8. /\ n <= m + 1
      /\ \A i \in DOMAIN t : IsLine(t[i]) => t[i].n > n /\ t[i].n <= m + 1
  <2>1. n <= m
    BY DEF Queue
  <2>2. ASSUME NEW i \in DOMAIN t, IsLine(t[i]) PROVE t[i].n > n /\ t[i].n <= m + 1
    <3>1. CASE i \in DOMAIN q /\ t[i] = q[i]
      <4>1. q[i].n > n /\ q[i].n <= m /\ q[i] \in Messages
        BY <2>2, <3>1 DEF Queue
      <4>2. q[i].n \in Nat
        BY <2>2, <3>1, <4>1 DEF Messages, IsLine
      <4> QED BY <3>1, <4>1, <4>2
    <3>2. CASE i = Len(q) + 2
      BY <1>1, <1>2, <2>1, <3>2
    <3> QED BY <1>5, <2>2, <3>1, <3>2
  <2> QED BY <2>1, <2>2
<1>9. \A l \in n + 1..m + 1 : \E i \in DOMAIN t : IsLine(t[i]) /\ t[i].n = l
  <2> TAKE l \in n + 1..m + 1
  <2>1. CASE l = m + 1
    <3>1. Len(q) + 2 \in DOMAIN t
      BY <1>0, <1>1
    <3> QED BY <1>1, <1>2, <2>1, <3>1
  <2>2. CASE l # m + 1
    <3>1. l \in n + 1..m
      BY <2>2
    <3>2. PICK i \in DOMAIN q : IsLine(q[i]) /\ q[i].n = l
      BY <3>1 DEF Queue
    <3> QED BY <1>0, <1>1, <3>2
  <2> QED BY <2>1, <2>2
<1>10. \A i, j \in DOMAIN t : i < j /\ IsLine(t[i]) /\ IsLine(t[j]) => t[i].n < t[j].n
  <2> SUFFICES ASSUME NEW i \in DOMAIN t, NEW j \in DOMAIN t, i < j, IsLine(t[i]), IsLine(t[j])
               PROVE  t[i].n < t[j].n
    OBVIOUS
  <2>1. i \in DOMAIN q /\ t[i] = q[i]
    BY <1>0, <1>1, <1>5
  <2>2. CASE j \in DOMAIN q /\ t[j] = q[j]
    BY <2>1, <2>2 DEF Queue
  <2>3. CASE j = Len(q) + 2
    <3>1. q[i].n <= m /\ q[i] \in Messages
      BY <2>1 DEF Queue
    <3>2. q[i].n \in Nat
      BY <2>1, <3>1 DEF Messages, IsLine
    <3> QED BY <1>1, <1>2, <2>1, <2>3, <3>1, <3>2
  <2> QED BY <1>5, <2>2, <2>3
<1>11. \A i \in DOMAIN t : IsLine(t[i]) =>
         \/ <<r, t[i].n>> \in P
         \/ \E j \in DOMAIN t : j < i /\ t[j].type = "program" /\ t[j].n = t[i].n
  <2> SUFFICES ASSUME NEW i \in DOMAIN t, IsLine(t[i]), <<r, t[i].n>> \notin P
               PROVE  \E j \in DOMAIN t : j < i /\ t[j].type = "program" /\ t[j].n = t[i].n
    OBVIOUS
  <2>1. CASE i \in DOMAIN q /\ t[i] = q[i]
    <3>1. PICK j \in DOMAIN q : j < i /\ q[j].type = "program" /\ q[j].n = q[i].n
      BY <2>1 DEF Queue
    <3> QED BY <1>0, <1>1, <2>1, <3>1
  <2>2. CASE i = Len(q) + 2
    <3>1. Len(q) + 1 \in DOMAIN t /\ Len(q) + 1 < i
      BY <1>0, <1>1, <2>2
    <3> QED BY <1>1, <1>2, <2>2, <3>1
  <2> QED BY <1>5, <2>1, <2>2
<1>12. \A i \in DOMAIN t : t[i].type = "progress" =>
         \/ t[i].n <= n
         \/ \E j \in DOMAIN t : j < i /\ IsLine(t[j]) /\ t[j].n = t[i].n
  <2> SUFFICES ASSUME NEW i \in DOMAIN t, t[i].type = "progress", ~(t[i].n <= n)
               PROVE  \E j \in DOMAIN t : j < i /\ IsLine(t[j]) /\ t[j].n = t[i].n
    OBVIOUS
  <2>1. CASE i \in DOMAIN q /\ t[i] = q[i]
    <3>1. PICK j \in DOMAIN q : j < i /\ IsLine(q[j]) /\ q[j].n = q[i].n
      BY <2>1 DEF Queue
    <3> QED BY <1>0, <1>1, <2>1, <3>1
  <2>2. CASE i = Len(q) + 3
    <3>1. Len(q) + 2 \in DOMAIN t /\ Len(q) + 2 < i
      BY <1>0, <1>1, <2>2
    <3> QED BY <1>1, <1>2, <2>2, <3>1
  <2> QED BY <1>6, <2>1, <2>2
<1>13. Queue(t, r, n, m + 1, P, FALSE)
  BY <1>7, <1>8, <1>9, <1>10, <1>11, <1>12 DEF Queue
<1> QED
  BY <1>13 DEF t

\* The result of a search goes behind all of its lines.
LEMMA QueueResult ==
  ASSUME NEW q \in Seq(Messages), NEW ms \in Seq(Messages), NEW r, NEW n \in Nat, NEW m \in Nat,
         NEW P, Queue(q, r, n, m, P, FALSE),
         Len(ms) = 1, ms[1].type = "result", ms[1].n = m
  PROVE  Queue(q \o ms, r, n, m, P, TRUE)
<1> DEFINE t == q \o ms
<1>0. Len(q) \in Nat /\ DOMAIN q = 1..Len(q) /\ DOMAIN ms = 1..1
  OBVIOUS
<1>1. /\ DOMAIN t = 1..(Len(q) + 1)
      /\ \A i \in DOMAIN q : t[i] = q[i] /\ i \in DOMAIN t
      /\ t[Len(q) + 1] = ms[1]
  BY <1>0, ConcatIs
<1> HIDE DEF t
<1>2. /\ ~IsLine(ms[1]) /\ ms[1].type # "program" /\ ms[1].type # "progress"
  BY DEF IsLine
<1>3. \A i \in DOMAIN t : i \in DOMAIN q \/ i = Len(q) + 1
  BY <1>0, <1>1
<1>4. \A i \in DOMAIN t : IsLine(t[i]) \/ t[i].type = "progress" =>
        i \in DOMAIN q /\ t[i] = q[i]
  BY <1>1, <1>2, <1>3
<1>5. \A k \in n + 1..m : \E i \in DOMAIN t : IsLine(t[i]) /\ t[i].n = k
  BY <1>1 DEF Queue
<1>6. \A i \in DOMAIN t : IsLine(t[i]) =>
        \/ <<r, t[i].n>> \in P
        \/ \E j \in DOMAIN t : j < i /\ t[j].type = "program" /\ t[j].n = t[i].n
  <2> SUFFICES ASSUME NEW i \in DOMAIN t, IsLine(t[i]), <<r, t[i].n>> \notin P
               PROVE  \E j \in DOMAIN t : j < i /\ t[j].type = "program" /\ t[j].n = t[i].n
    OBVIOUS
  <2>1. i \in DOMAIN q /\ t[i] = q[i]
    BY <1>4
  <2>2. PICK j \in DOMAIN q : j < i /\ q[j].type = "program" /\ q[j].n = q[i].n
    BY <2>1 DEF Queue
  <2> QED BY <1>1, <2>1, <2>2
<1>7. \A i \in DOMAIN t : t[i].type = "progress" =>
        \/ t[i].n <= n
        \/ \E j \in DOMAIN t : j < i /\ IsLine(t[j]) /\ t[j].n = t[i].n
  <2> SUFFICES ASSUME NEW i \in DOMAIN t, t[i].type = "progress", ~(t[i].n <= n)
               PROVE  \E j \in DOMAIN t : j < i /\ IsLine(t[j]) /\ t[j].n = t[i].n
    OBVIOUS
  <2>1. i \in DOMAIN q /\ t[i] = q[i]
    BY <1>4
  <2>2. PICK j \in DOMAIN q : j < i /\ IsLine(q[j]) /\ q[j].n = q[i].n
    BY <2>1 DEF Queue
  <2> QED BY <1>1, <2>1, <2>2
<1>8. \A i \in DOMAIN t : t[i].type = "result" =>
        t[i].n = m /\ TRUE /\ \A j \in DOMAIN t : IsLine(t[j]) => j < i
  <2> SUFFICES ASSUME NEW i \in DOMAIN t, t[i].type = "result"
               PROVE  t[i].n = m /\ \A j \in DOMAIN t : IsLine(t[j]) => j < i
    OBVIOUS
  <2>1. i = Len(q) + 1
    <3>1. \A j \in DOMAIN q : q[j].type # "result"
      BY DEF Queue
    <3> QED BY <1>1, <1>3, <3>1
  <2> QED BY <1>0, <1>1, <1>4, <2>1
<1>9. /\ n <= m
      /\ \A i \in DOMAIN t : IsLine(t[i]) => t[i].n > n /\ t[i].n <= m
      /\ \A i, j \in DOMAIN t : i < j /\ IsLine(t[i]) /\ IsLine(t[j]) => t[i].n < t[j].n
  BY <1>4 DEF Queue
<1>10. Queue(t, r, n, m, P, TRUE)
  BY <1>5, <1>6, <1>7, <1>8, <1>9 DEF Queue
<1> QED
  BY <1>10 DEF t

-----------------------------------------------------------------------------
(* The invariant.                                                          *)

Settlements == [call : Runs \X Nat, result : {"answer", "error", "killed"}]
Live(r)     == search[r] \in {"made", "searching", "settled"}

(* What the variables hold. *)
Shapes ==
  /\ runs \in Nat /\ runs <= MaxRuns /\ worker \in {0, runs}
  /\ history \in Seq(Runs \X Nat)
  /\ toPage \in [Runs -> Seq(Messages)]
  /\ moves \in [Runs -> Nat] /\ serial \in [Runs -> Nat]
  /\ search \in [Runs -> {"none", "made", "searching", "settled", "dead"}]
  /\ acts \in Nat /\ revision \in Nat

(* Whatever job there is belongs to the worker the page owns, and whatever checker to a job. *)
JobsOfWorker ==
  /\ IsFiniteSet(DOMAIN jobs) /\ DOMAIN jobs \subseteq Nat
  /\ \A id \in DOMAIN jobs : jobs[id] = worker /\ worker \in Runs
  /\ tools \subseteq Runs \X Nat
  /\ \A c \in tools : c[2] \in DOMAIN jobs /\ jobs[c[2]] = c[1]
  /\ awaits \in Seq(Settlements)

(* A run that was not made did nothing, and one that goes on is the one the page owns. *)
OneLives ==
  /\ \A r \in Runs : r > runs => toPage[r] = <<>> /\ moves[r] = 0 /\ search[r] = "none"
  /\ \A r \in Runs : Live(r) => r = worker
  /\ Running => worker # 0
  /\ status = "finished" => worker # 0 /\ search[worker] = "settled"
  /\ timers = IF Running THEN {worker} ELSE {}

(* The page has the lines of its run up to some one, and its worker posted the rest. *)
LinesCome ==
  /\ WholeHistory /\ standing \in Nat
  /\ worker # 0 => Queue(toPage[worker], worker, Len(history), moves[worker], programs,
                         search[worker] = "settled")

(* What was recorded is of the text in the editor, and a read is out of date once the user acted. *)
OfTheText ==
  /\ (worker = 0 /\ history = <<>>) \/ input = text
  /\ \A f \in reads : f.at \in Nat /\ f.at <= revision /\ (f.at = revision => f.text = acts)

ReportsHold ==
  /\ ReportIsCurrent
  /\ \A job \in {viewing, saving, shown} \ {NoJob} : job.lines \in Seq(Runs \X Nat)

-----------------------------------------------------------------------------
(* Jobs and checkers.                                                      *)

\* Any finite set has a sequence of its elements.
LEMMA SetToSeqIs ==
  ASSUME NEW T, IsFiniteSet(T)
  PROVE  SetToSeq(T) \in Seq(T)
<1>1. Cardinality(T) \in Nat /\ ExistsBijection(1..Cardinality(T), T)
  BY FS_CardinalityType
<1>2. PICK f : f \in Bijection(1..Cardinality(T), T)
  BY <1>1 DEF ExistsBijection
<1>3. f \in [1..Cardinality(T) -> T] /\ IsInjective(f)
  BY <1>2 DEF Bijection, Injection
<1>4. SetToSeq(T) \in [1..Cardinality(T) -> T]
  BY <1>3 DEF SetToSeq
<1> QED
  BY <1>1, <1>4

\* A job that ends takes its checker with it, and the page goes on with its call.
LEMMA CloseKeeps ==
  ASSUME JobsOfWorker, UNCHANGED worker, NEW call \in Runs \X Nat,
         NEW result \in {"answer", "error", "killed"}, CloseJob(call, result),
         call[2] \in DOMAIN jobs, jobs[call[2]] = call[1]
  PROVE  JobsOfWorker'
<1>1. IsFiniteSet(DOMAIN jobs \ {call[2]})
  BY FS_RemoveElement DEF JobsOfWorker
<1>2. DOMAIN jobs' = DOMAIN jobs \ {call[2]} /\ \A id \in DOMAIN jobs' : jobs'[id] = jobs[id]
  BY DEF CloseJob
<1>3. Settled(call, result) \in Settlements
  BY DEF Settled, Settlements
<1>4. awaits' \in Seq(Settlements)
  BY <1>3 DEF CloseJob, JobsOfWorker
<1>5. ASSUME NEW c \in tools' PROVE c[2] \in DOMAIN jobs' /\ jobs'[c[2]] = c[1]
  <2>1. c \in tools /\ c # call /\ c \in Runs \X Nat
    BY DEF CloseJob, JobsOfWorker
  <2>2. c[2] \in DOMAIN jobs /\ jobs[c[2]] = c[1]
    BY <2>1 DEF JobsOfWorker
  <2>3. c[2] # call[2]
    BY <2>1, <2>2
  <2> QED BY <1>2, <2>2, <2>3
<1>6. tools' \subseteq Runs \X Nat
  BY DEF CloseJob, JobsOfWorker
<1> QED
  BY <1>1, <1>2, <1>4, <1>5, <1>6 DEF JobsOfWorker

\* A kill of an id in use is such an end; of any other it is nothing.
LEMMA KillKeeps ==
  ASSUME JobsOfWorker, UNCHANGED worker, NEW id \in Nat, KillJob(id)
  PROVE  JobsOfWorker'
<1>1. CASE id \in DOMAIN jobs
  <2>1. jobs[id] \in Runs
    BY <1>1 DEF JobsOfWorker
  <2>2. <<jobs[id], id>> \in Runs \X Nat /\ CloseJob(<<jobs[id], id>>, "killed")
    BY <1>1, <2>1 DEF KillJob
  <2>3. <<jobs[id], id>>[2] = id /\ <<jobs[id], id>>[1] = jobs[id]
    OBVIOUS
  <2> QED BY <1>1, <2>2, <2>3, CloseKeeps
<1>2. CASE id \notin DOMAIN jobs
  BY <1>2 DEF KillJob, JobsOfWorker
<1> QED
  BY <1>1, <1>2

\* When the page replaces its worker no job and no checker is left.
LEMMA CancelKeeps ==
  ASSUME JobsOfWorker, CancelJobs
  PROVE  JobsOfWorker' /\ jobs' = <<>> /\ tools' = {}
<1> DEFINE T == {Settled(<<jobs[id], id>>, "killed") : id \in DOMAIN jobs}
           f == [id \in DOMAIN jobs |-> Settled(<<jobs[id], id>>, "killed")]
<1>1. f \in Surjection(DOMAIN jobs, T)
  BY DEF Surjection
<1>2. IsFiniteSet(T)
  <2> HIDE DEF T, f
  <2> QED BY <1>1, FS_Surjection DEF JobsOfWorker
<1>3. T \subseteq Settlements
  BY DEF Settled, Settlements, JobsOfWorker
<1>4. SetToSeq(T) \in Seq(T) /\ awaits' = awaits \o SetToSeq(T)
  BY <1>2, SetToSeqIs DEF CancelJobs
<1>5. awaits' \in Seq(Settlements)
  <2> HIDE DEF T
  <2>1. SetToSeq(T) \in Seq(Settlements) /\ awaits \in Seq(Settlements)
    BY <1>3, <1>4 DEF JobsOfWorker
  <2> QED BY <1>4, <2>1
<1>6. tools' = {} /\ jobs' = <<>> /\ DOMAIN jobs' = {}
  BY DEF CancelJobs, JobsOfWorker, Active
<1> QED
  BY <1>5, <1>6, FS_EmptySet DEF JobsOfWorker

\* A call the page is asked to make takes an id that is free.
LEMMA ExecuteKeeps ==
  ASSUME JobsOfWorker, UNCHANGED <<worker, tools>>, NEW id \in Nat, worker \in Runs,
         Execute(<<worker, id>>)
  PROVE  JobsOfWorker'
<1>1. CASE id \in DOMAIN jobs
  <2>1. Settled(<<worker, id>>, "error") \in Settlements
    BY DEF Settled, Settlements
  <2>2. awaits' = Append(awaits, Settled(<<worker, id>>, "error")) /\ UNCHANGED jobs
    BY <1>1 DEF Execute
  <2>3. awaits' \in Seq(Settlements)
    BY <2>1, <2>2 DEF JobsOfWorker
  <2> QED BY <2>2, <2>3 DEF JobsOfWorker
<1>2. CASE id \notin DOMAIN jobs
  <2>1. /\ DOMAIN jobs' = DOMAIN jobs \cup {id}
        /\ \A x \in DOMAIN jobs' : jobs'[x] = IF x = id THEN worker ELSE jobs[x]
        /\ UNCHANGED awaits
    BY <1>2 DEF Execute
  <2>2. IsFiniteSet(DOMAIN jobs \cup {id})
    BY FS_AddElement DEF JobsOfWorker
  <2> QED BY <1>2, <2>1, <2>2 DEF JobsOfWorker
<1> QED
  BY <1>1, <1>2

\* A checker request is a run and an id.
LEMMA CallsAre ==
  ASSUME BoundsAssumption
  PROVE  Calls \subseteq Runs \X Nat /\ Ids \subseteq Nat
<1>1. \A r \in Runs : MaxCalls[r] \in Nat
  BY DEF BoundsAssumption, Runs
<1>2. Ids \subseteq Nat
  BY <1>1 DEF Ids
<1> QED
  BY <1>2 DEF Calls

\* A checker starts for a job that is still its own, or its job ends.
LEMMA ToolStepKeeps ==
  ASSUME JobsOfWorker, ToolStep
  PROVE  JobsOfWorker'
<1>1. ASSUME NEW c \in Calls, Loaded(c) PROVE JobsOfWorker'
  <2>1. UNCHANGED <<worker, jobs, awaits>>
    BY <1>1 DEF Loaded, session
  <2>2. CASE Active(c)
    <3>1. tools' = tools \cup {c} /\ c \in Runs \X Nat
      BY <1>1, <2>2, BoundsAssumption, CallsAre DEF Loaded
    <3> QED BY <2>1, <2>2, <3>1 DEF JobsOfWorker, Active
  <2>3. CASE ~Active(c)
    BY <1>1, <2>1, <2>3 DEF Loaded, JobsOfWorker
  <2> QED BY <2>2, <2>3
<1>2. ASSUME NEW c \in Calls, NEW result \in {"answer", "error"}, UNCHANGED worker,
             IF Active(c) THEN CloseJob(c, result) ELSE UNCHANGED <<jobs, tools, awaits>>
      PROVE  JobsOfWorker'
  <2>1. CASE Active(c)
    <3>1. c \in Runs \X Nat
      BY BoundsAssumption, CallsAre
    <3>2. c[2] \in DOMAIN jobs /\ jobs[c[2]] = c[1] /\ CloseJob(c, result)
      BY <1>2, <2>1 DEF Active
    <3> QED BY <1>2, <3>1, <3>2, CloseKeeps
  <2>2. CASE ~Active(c)
    BY <1>2, <2>2 DEF JobsOfWorker
  <2> QED BY <2>1, <2>2
<1>3. ASSUME NEW c \in Calls, LoadFails(c) PROVE JobsOfWorker'
  BY <1>2, <1>3 DEF LoadFails
<1>4. ASSUME NEW c \in Calls, ToolPosts(c) PROVE JobsOfWorker'
  BY <1>4 DEF ToolPosts, session, JobsOfWorker
<1>5. ASSUME NEW c \in Calls, NEW result \in {"answer", "error"}, ToolReplies(c, result)
      PROVE  JobsOfWorker'
  BY <1>2, <1>5 DEF ToolReplies
<1> QED
  BY <1>1, <1>3, <1>4, <1>5 DEF ToolStep

\* A page that takes a message makes a job, ends one, or ends all.
LEMMA ReceiveKeepsJobs ==
  ASSUME Shapes, JobsOfWorker, NEW r \in Runs, Receive(r)
  PROVE  JobsOfWorker'
<1> DEFINE m == Head(toPage[r])
<1>1. toPage[r] \in Seq(Messages) /\ toPage[r] # <<>> /\ m \in Messages
  <2>1. toPage[r] \in Seq(Messages) /\ toPage[r] # <<>>
    BY DEF Shapes, Receive
  <2> QED BY <2>1, TailIs
<1>2. CASE UNCHANGED <<worker, jobs, tools, awaits>>
  BY <1>2 DEF JobsOfWorker
<1>3. CASE FromCurrent(r) /\ m.type = "exec" /\ Execute(<<r, m.n>>) /\ UNCHANGED <<worker, tools>>
  <2>1. r = worker /\ m.n \in Nat
    BY <1>1, <1>3 DEF FromCurrent, Messages
  <2> HIDE DEF m
  <2> QED BY <1>3, <2>1, ExecuteKeeps
<1>4. CASE FromCurrent(r) /\ m.type = "kill" /\ KillJob(m.n) /\ UNCHANGED worker
  <2>1. m.n \in Nat
    BY <1>1, <1>4 DEF Messages
  <2> HIDE DEF m
  <2> QED BY <1>4, <2>1, KillKeeps
<1>5. CASE Fail
  BY <1>5, CancelKeeps DEF Fail, Dispose, Replace
<1> QED
  BY <1>2, <1>3, <1>4, <1>5 DEF Receive, session

\* No step leaves a job to a worker that is gone.
LEMMA JobsStep ==
  ASSUME Shapes, JobsOfWorker, [Next]_vars
  PROVE  JobsOfWorker'
<1>1. CASE UNCHANGED <<session, jobs, tools>>
  BY <1>1 DEF JobsOfWorker, session
<1>2. CASE ToolStep
  BY <1>2, ToolStepKeeps
<1>3. CASE CancelJobs
  BY <1>3, CancelKeeps
<1>4. CASE PageStep
  <2>1. CASE GoOn
    <3>1. awaits # <<>> /\ awaits' = Tail(awaits) /\ UNCHANGED <<worker, jobs, tools>>
      BY <2>1 DEF GoOn, runtime
    <3>2. awaits' \in Seq(Settlements)
      BY <3>1 DEF JobsOfWorker
    <3> QED BY <3>1, <3>2 DEF JobsOfWorker
  <2>2. CASE Stop
    BY <1>3, <2>2 DEF Stop, Dispose, Replace
  <2>3. ASSUME NEW fits \in BOOLEAN, Start(fits) PROVE CancelJobs
    BY <2>3 DEF Start, Dispose, Replace
  <2>4. ASSUME NEW r \in Runs, Receive(r) PROVE JobsOfWorker'
    BY <2>4, ReceiveKeepsJobs
  <2>5. CASE WorkerFails
    BY <1>3, <2>5 DEF WorkerFails, Fail, Dispose, Replace
  <2> QED BY <1>3, <1>4, <2>1, <2>2, <2>3, <2>4, <2>5 DEF PageStep
<1>5. CASE SearchStep
  BY <1>1, <1>5
     DEF SearchStep, Boot, Call, Move, KillTimer, TakeAnswer, Settle, Throw, runtime
<1>6. CASE EditorStep
  <2>1. CASE Edit
    BY <1>3, <2>1 DEF Edit, Change, Dispose, Replace
  <2>2. ASSUME NEW fits \in BOOLEAN, Load(fits)
        PROVE  CancelJobs \/ UNCHANGED <<session, jobs, tools>>
    BY <2>2 DEF Load, Fail, Dispose, Replace
  <2>3. ASSUME NEW f \in reads, ReadEnds(f)
        PROVE  CancelJobs \/ UNCHANGED <<session, jobs, tools>>
    BY <2>3 DEF ReadEnds, Change, Dispose, Replace
  <2>4. ASSUME NEW f \in reads, ReadFails(f)
        PROVE  CancelJobs \/ UNCHANGED <<session, jobs, tools>>
    BY <2>4 DEF ReadFails, Fail, Dispose, Replace
  <2> QED BY <1>1, <1>3, <1>6, <2>1, <2>2, <2>3, <2>4 DEF EditorStep
<1>7. CASE ReportStep
  BY <1>1, <1>7 DEF ReportStep, Open, Viewed, Close, Save, Saved, runtime
<1>8. CASE UNCHANGED vars
  BY <1>1, <1>8 DEF vars, runtime
<1> QED
  BY <1>2, <1>4, <1>5, <1>6, <1>7, <1>8 DEF Next

-----------------------------------------------------------------------------
(* The worker that lives.                                                  *)

\* When the page replaces its worker, what the old one knew goes and the others are as before.
LEMMA ReplaceIs ==
  ASSUME NEW next, Replace(next), Shapes, next \in {0, runs + 1}
  PROVE  /\ worker' = next /\ timers' = IF next = 0 THEN {} ELSE {next}
         /\ \A r \in Runs : search'[r] = IF r = worker THEN "dead" ELSE
                                         IF r = next THEN "made" ELSE search[r]
         /\ \A r \in Runs : moves'[r] = IF r = worker THEN 0 ELSE moves[r]
         /\ search' \in [Runs -> {"none", "made", "searching", "settled", "dead"}]
         /\ moves' \in [Runs -> Nat] /\ serial' \in [Runs -> Nat]
<1> DEFINE was(r) == CASE r = worker -> "dead" [] r = next -> "made" [] OTHER -> search[r]
<1>1. \A r \in Runs : was(r) = IF r = worker THEN "dead" ELSE
                                IF r = next THEN "made" ELSE search[r]
  <2>1. \A r \in Runs : ~(r = worker /\ r = next)
    BY DEF Shapes, Runs
  <2> TAKE r \in Runs
  <2>2. CASE r = worker
    <3>1. ~(r = next)
      BY <2>1, <2>2
    <3> QED BY <2>2, <3>1
  <2>3. CASE r # worker /\ r = next
    BY <2>3
  <2>4. CASE r # worker /\ r # next
    BY <2>4
  <2> QED BY <2>2, <2>3, <2>4
<1>2. search' = [r \in Runs |-> was(r)]
  BY DEF Replace
<1> HIDE DEF was
<1>3. search' = [r \in Runs |-> IF r = worker THEN "dead" ELSE IF r = next THEN "made"
                                ELSE search[r]]
  BY <1>1, <1>2
<1>4. search' \in [Runs -> {"none", "made", "searching", "settled", "dead"}]
  BY <1>3 DEF Shapes
<1>5. /\ moves' = [r \in Runs |-> IF r = worker THEN 0 ELSE moves[r]]
      /\ serial' = [r \in Runs |-> IF r = worker THEN 0 ELSE serial[r]]
  BY DEF Replace, Forgotten
<1>6. moves' \in [Runs -> Nat] /\ serial' \in [Runs -> Nat]
  BY <1>5 DEF Shapes
<1>7. worker' = next /\ timers' = IF next = 0 THEN {} ELSE {next}
  BY DEF Replace
<1> QED
  BY <1>3, <1>4, <1>5, <1>6, <1>7

-----------------------------------------------------------------------------
(* The kinds of steps.                                                     *)

(* What is recorded of the runs, and what they do, stays, but for an answer shown. *)
Quiet ==
  /\ UNCHANGED <<worker, runs, status, timers, history, programs, standing, search, moves, serial,
                 toPage>>
  /\ checks' = checks \/ GoOn

(* The worker is terminated, and what was recorded stays or goes. *)
Disposed ==
  /\ Dispose /\ status' \notin {"running", "finished"} /\ UNCHANGED <<runs, toPage>>
  /\ UNCHANGED <<history, programs, standing, checks>> \/ Emptied

(* A worker that lives posts what the history has nothing to do with, a move, or its result. *)
PostsOthers(r, ms) ==
  /\ \A i \in DOMAIN ms : Other(ms[i])
  /\ moves' = moves
  /\ search[r] = "settled" => search'[r] = "settled"

PostsMove(r, ms) ==
  /\ search[r] = "searching" /\ search' = search
  /\ moves' = [moves EXCEPT ![r] = moves[r] + 1]
  /\ Len(ms) = 3 /\ ms[1].type = "program" /\ IsLine(ms[2]) /\ ms[3].type = "progress"
  /\ \A i \in DOMAIN ms : ms[i].n = moves[r] + 1

PostsResult(r, ms) ==
  /\ search[r] = "searching" /\ search'[r] = "settled" /\ moves' = moves
  /\ Len(ms) = 1 /\ ms[1].type = "result" /\ ms[1].n = moves[r]

Posted(r, ms) ==
  /\ Live(r) /\ UNCHANGED session
  /\ toPage' = [toPage EXCEPT ![r] = toPage[r] \o ms]
  /\ search' \in [Runs -> {"none", "made", "searching", "settled", "dead"}]
  /\ Live(r)' /\ \A s \in Runs : s # r => search'[s] = search[s]
  /\ serial' \in [Runs -> Nat]
  /\ PostsOthers(r, ms) \/ PostsMove(r, ms) \/ PostsResult(r, ms)

SaysOthers(r) ==
  \E ms \in Seq(Messages) : /\ toPage' = [toPage EXCEPT ![r] = toPage[r] \o ms]
                            /\ \A i \in DOMAIN ms : Other(ms[i])

\* A worker asks for its checkers in messages of their own.
LEMMA AskIs ==
  ASSUME Shapes, NEW r \in Runs, NEW k \in 1..2, NEW timed \in BOOLEAN, Ask(r, k, timed)
  PROVE  serial' \in [Runs -> Nat] /\ SaysOthers(r)
<1> DEFINE ms == [i \in 1..k |-> Exec(serial[r] + i)]
<1>1. serial[r] \in Nat /\ k \in Nat
  BY DEF Shapes
<1>2. serial' = [serial EXCEPT ![r] = serial[r] + k]
  BY DEF Ask
<1>3. serial' \in [Runs -> Nat]
  BY <1>1, <1>2 DEF Shapes
<1>4. \A i \in 1..k : ms[i] \in Messages /\ Other(ms[i])
  BY <1>1 DEF Exec, Messages, Other
<1>5. toPage' = [toPage EXCEPT ![r] = toPage[r] \o ms]
  BY DEF Ask, Posts
<1>6. ms \in Seq(Messages) /\ DOMAIN ms = 1..k
  BY <1>1, <1>4
<1> HIDE DEF ms
<1> QED
  BY <1>3, <1>4, <1>5, <1>6 DEF SaysOthers

\* What each step of a worker is.
LEMMA SearchStepIs ==
  ASSUME Shapes, SearchStep
  PROVE  Quiet \/ \E r \in Runs, ms \in Seq(Messages) : Posted(r, ms)
<1> USE DEF Live
<1>0. PICK r \in Runs :
        \/ Boot(r)
        \/ \E k \in 1..2, timed \in BOOLEAN : Call(r, k, timed)
        \/ Move(r)
        \/ \E id \in Ids : KillTimer(r, id)
        \/ TakeAnswer(r)
        \/ Settle(r)
        \/ Throw(r)
  BY DEF SearchStep
<1>1. CASE Boot(r)
  <2>0. Ask(r, 1, FALSE) /\ 1 \in 1..2
    <3>1. Ask(r, 1, FALSE)
      BY <1>1 DEF Boot
    <3>2. 1 \in 1..2
      OBVIOUS
    <3> QED BY <3>1, <3>2
  <2>1. SaysOthers(r)
    BY <2>0, AskIs
  <2>2. PICK ms \in Seq(Messages) : /\ toPage' = [toPage EXCEPT ![r] = toPage[r] \o ms]
                                    /\ \A i \in DOMAIN ms : Other(ms[i])
    BY <2>1 DEF SaysOthers
  <2>3. serial' \in [Runs -> Nat]
    BY <2>0, AskIs
  <2>4. /\ search[r] = "made" /\ search' = [search EXCEPT ![r] = "searching"]
        /\ UNCHANGED <<session, moves>>
    BY <1>1 DEF Boot
  <2> QED BY <2>2, <2>3, <2>4 DEF Posted, PostsOthers, Shapes
<1>2. ASSUME NEW k \in 1..2, NEW timed \in BOOLEAN, Call(r, k, timed)
      PROVE  \E ms \in Seq(Messages) : Posted(r, ms)
  <2>0. Ask(r, k, timed) /\ k \in 1..2 /\ timed \in BOOLEAN
    BY <1>2 DEF Call
  <2>1. SaysOthers(r)
    BY <2>0, AskIs
  <2>2. PICK ms \in Seq(Messages) : /\ toPage' = [toPage EXCEPT ![r] = toPage[r] \o ms]
                                    /\ \A i \in DOMAIN ms : Other(ms[i])
    BY <2>1 DEF SaysOthers
  <2>3. serial' \in [Runs -> Nat]
    BY <2>0, AskIs
  <2>4. search[r] = "searching" /\ UNCHANGED <<session, moves, search>>
    BY <1>2 DEF Call, GoesOn
  <2> QED BY <2>2, <2>3, <2>4 DEF Posted, PostsOthers, Shapes
<1>3. CASE Move(r)
  <2> DEFINE ms == [i \in 1..3 |-> [type |-> <<"program", "trajectory", "progress">>[i],
                                    n    |-> moves[r] + 1]]
  <2>1. moves[r] + 1 \in Nat
    BY DEF Shapes
  <2>2. ms \in Seq(Messages) /\ Len(ms) = 3 /\ DOMAIN ms = 1..3
    <3>1. \A i \in 1..3 : ms[i] \in Messages
      BY <2>1 DEF Messages
    <3> QED BY <3>1
  <2>3. /\ ms[1].type = "program" /\ IsLine(ms[2]) /\ ms[3].type = "progress"
        /\ \A i \in 1..3 : ms[i].n = moves[r] + 1
    BY DEF IsLine
  <2>4. toPage' = [toPage EXCEPT ![r] = toPage[r] \o ms]
    BY <1>3 DEF Move, Posts
  <2>5. /\ search[r] = "searching" /\ moves' = [moves EXCEPT ![r] = moves[r] + 1]
        /\ UNCHANGED <<session, search, serial>>
    BY <1>3 DEF Move, GoesOn
  <2> HIDE DEF ms
  <2>6. PostsMove(r, ms)
    BY <2>2, <2>3, <2>5 DEF PostsMove
  <2>7. Posted(r, ms)
    BY <2>4, <2>5, <2>6 DEF Posted, Shapes
  <2> QED BY <2>2, <2>7
<1>4. ASSUME NEW id \in Ids, KillTimer(r, id) PROVE \E ms \in Seq(Messages) : Posted(r, ms)
  <2> DEFINE ms == <<[type |-> "kill", n |-> id]>>
  <2>1. id \in Nat
    BY BoundsAssumption, CallsAre
  <2>2. ms \in Seq(Messages) /\ \A i \in DOMAIN ms : Other(ms[i])
    BY <2>1 DEF Messages, Other
  <2>3. /\ search[r] \in {"searching", "settled"} /\ UNCHANGED <<session, search, moves, serial>>
        /\ toPage' = [toPage EXCEPT ![r] = toPage[r] \o ms]
    BY <1>4 DEF KillTimer, Posts
  <2> HIDE DEF ms
  <2> QED BY <2>2, <2>3 DEF Posted, PostsOthers, Shapes
<1>5. CASE TakeAnswer(r)
  BY <1>5 DEF TakeAnswer, Quiet, session
<1>6. CASE Settle(r)
  <2> DEFINE ms == <<[type |-> "result", n |-> moves[r]]>>
  <2>1. ms \in Seq(Messages) /\ Len(ms) = 1 /\ ms[1].type = "result" /\ ms[1].n = moves[r]
    BY DEF Messages, Shapes
  <2>2. /\ search[r] = "searching" /\ search' = [search EXCEPT ![r] = "settled"]
        /\ UNCHANGED <<session, moves, serial>>
        /\ toPage' = [toPage EXCEPT ![r] = toPage[r] \o ms]
    BY <1>6 DEF Settle, GoesOn, Posts
  <2> HIDE DEF ms
  <2>3. PostsResult(r, ms)
    BY <2>1, <2>2 DEF PostsResult, Shapes
  <2> QED BY <2>1, <2>2, <2>3 DEF Posted, Shapes
<1>7. CASE Throw(r)
  <2> DEFINE ms == <<[type |-> "error"]>>
  <2>1. ms \in Seq(Messages) /\ \A i \in DOMAIN ms : Other(ms[i])
    BY DEF Messages, Other
  <2>2. /\ search[r] = "searching" /\ search' = [search EXCEPT ![r] = "settled"]
        /\ UNCHANGED <<session, moves, serial>>
        /\ toPage' = [toPage EXCEPT ![r] = toPage[r] \o ms]
    BY <1>7 DEF Throw, GoesOn, Posts
  <2> HIDE DEF ms
  <2> QED BY <2>1, <2>2 DEF Posted, PostsOthers, Shapes
<1> QED
  BY <1>0, <1>1, <1>2, <1>3, <1>4, <1>5, <1>6, <1>7

\* What each step is.
LEMMA StepIs ==
  ASSUME Shapes, [Next]_vars
  PROVE  \/ Quiet \/ Disposed \/ Start(TRUE)
         \/ \E r \in Runs : Receive(r)
         \/ \E r \in Runs, ms \in Seq(Messages) : Posted(r, ms)
<1> USE DEF Quiet, Disposed
<1>1. CASE ToolStep
  BY <1>1 DEF ToolStep, Loaded, LoadFails, ToolPosts, ToolReplies, session, workers, inside
<1>2. CASE PageStep
  <2>1. CASE GoOn
    BY <2>1 DEF GoOn
  <2>2. CASE Stop
    BY <2>2 DEF Stop, Kept
  <2>3. CASE Start(FALSE)
    BY <2>3 DEF Start
  <2>4. CASE WorkerFails
    BY <2>4 DEF WorkerFails, Fail, Kept
  <2> QED BY <1>2, <2>1, <2>2, <2>3, <2>4 DEF PageStep
<1>3. CASE SearchStep
  BY <1>3, SearchStepIs
<1>4. CASE EditorStep
  <2>1. CASE Edit
    BY <2>1 DEF Edit, Change
  <2>2. ASSUME NEW fits \in BOOLEAN, Load(fits) PROVE Quiet \/ Disposed
    BY <2>2 DEF Load, Fail, Kept, session, inside
  <2>3. ASSUME NEW f \in reads, ReadEnds(f) PROVE Quiet \/ Disposed
    BY <2>3 DEF ReadEnds, Change, session, inside
  <2>4. ASSUME NEW f \in reads, ReadFails(f) PROVE Quiet \/ Disposed
    BY <2>4 DEF ReadFails, Fail, Kept, session, inside
  <2> QED BY <1>4, <2>1, <2>2, <2>3, <2>4 DEF EditorStep
<1>5. CASE ReportStep
  BY <1>5 DEF ReportStep, Open, Viewed, Close, Save, Saved, session, workers, inside
<1>6. CASE UNCHANGED vars
  BY <1>6 DEF vars, session, workers, inside
<1> QED
  BY <1>1, <1>2, <1>3, <1>4, <1>5, <1>6 DEF Next

\* The page takes the first message of a run.
LEMMA ReceiveIs ==
  ASSUME Shapes, NEW r \in Runs, Receive(r)
  PROVE  /\ toPage[r] # <<>> /\ toPage[r] \in Seq(Messages) /\ Head(toPage[r]) \in Messages
         /\ toPage' = [toPage EXCEPT ![r] = Tail(toPage[r])]
         /\ Tail(toPage[r]) \in Seq(Messages)
         /\ runs' = runs
<1>1. toPage[r] # <<>> /\ toPage[r] \in Seq(Messages)
  BY DEF Receive, Shapes
<1>2. toPage' = [toPage EXCEPT ![r] = Tail(toPage[r])] /\ runs' = runs
  BY DEF Receive, session
<1> QED
  BY <1>1, <1>2, TailIs

\* The variables keep to what they hold.
LEMMA ShapesStep ==
  ASSUME Shapes, [Next]_vars
  PROVE  Shapes'
<1>1. acts' \in Nat /\ revision' \in Nat
  <2>1. CASE ToolStep
    BY <2>1 DEF ToolStep, Loaded, LoadFails, ToolPosts, ToolReplies, editor, Shapes
  <2>2. CASE PageStep
    <3>1. CASE GoOn \/ Stop \/ WorkerFails
      BY <3>1 DEF GoOn, Stop, WorkerFails, editor, Shapes
    <3>2. ASSUME NEW fits \in BOOLEAN, Start(fits) PROVE acts' \in Nat /\ revision' \in Nat
      BY <3>2 DEF Start, UserActs, Shapes
    <3>3. ASSUME NEW r \in Runs, Receive(r) PROVE acts' \in Nat /\ revision' \in Nat
      BY <3>3 DEF Receive, editor, Shapes
    <3> QED BY <2>2, <3>1, <3>2, <3>3 DEF PageStep
  <2>3. CASE SearchStep
    BY <2>3
       DEF SearchStep, Boot, Call, Move, KillTimer, TakeAnswer, Settle, Throw, editor, Shapes
  <2>4. CASE EditorStep
    BY <2>4
       DEF EditorStep, Edit, Load, ReadEnds, ReadFails, Change, UserActs, Shapes
  <2>5. CASE ReportStep
    BY <2>5 DEF ReportStep, Open, Viewed, Close, Save, Saved, editor, Shapes
  <2>6. CASE UNCHANGED vars
    BY <2>6 DEF vars, editor, Shapes
  <2> QED BY <2>1, <2>2, <2>3, <2>4, <2>5, <2>6 DEF Next
<1> DEFINE Rest == /\ runs' \in Nat /\ runs' <= MaxRuns /\ worker' \in {0, runs'}
                   /\ history' \in Seq(Runs \X Nat)
                   /\ toPage' \in [Runs -> Seq(Messages)]
                   /\ moves' \in [Runs -> Nat] /\ serial' \in [Runs -> Nat]
                   /\ search' \in [Runs -> {"none", "made", "searching", "settled", "dead"}]
<1>2. ASSUME Quiet PROVE Rest
  BY <1>2 DEF Quiet, Shapes
<1>3. ASSUME Disposed PROVE Rest
  <2>1. Replace(0) /\ UNCHANGED <<runs, toPage>> /\ (history' = history \/ history' = <<>>)
    BY <1>3 DEF Disposed, Dispose, Emptied
  <2>2. 0 \in {0, runs + 1}
    OBVIOUS
  <2>3. /\ worker' = 0 /\ moves' \in [Runs -> Nat] /\ serial' \in [Runs -> Nat]
        /\ search' \in [Runs -> {"none", "made", "searching", "settled", "dead"}]
    BY <2>1, <2>2, ReplaceIs
  <2>4. history' \in Seq(Runs \X Nat)
    <3>1. history \in Seq(Runs \X Nat) /\ <<>> \in Seq(Runs \X Nat)
      BY EmptySeq DEF Shapes
    <3>2. history' = history \/ history' = <<>>
      BY <2>1
    <3> QED BY <3>1, <3>2
  <2>5. runs' = runs /\ toPage' = toPage
    BY <2>1
  <2>6. runs \in Nat /\ runs <= MaxRuns /\ toPage \in [Runs -> Seq(Messages)]
    BY DEF Shapes
  <2> QED BY <2>3, <2>4, <2>5, <2>6
<1>4. ASSUME Start(TRUE) PROVE Rest
  <2>1. Replace(runs + 1) /\ runs' = runs + 1 /\ toPage' = toPage /\ history' = <<>>
        /\ runs < MaxRuns
    BY <1>4 DEF Start, Emptied
  <2>2. MaxRuns \in Nat
    BY BoundsAssumption DEF BoundsAssumption
  <2>3. /\ worker' = runs + 1 /\ moves' \in [Runs -> Nat] /\ serial' \in [Runs -> Nat]
        /\ search' \in [Runs -> {"none", "made", "searching", "settled", "dead"}]
    BY <2>1, ReplaceIs
  <2> QED BY <2>1, <2>2, <2>3 DEF Shapes
<1>5. ASSUME NEW r \in Runs, Receive(r) PROVE Rest
  <2> DEFINE m == Head(toPage[r])
  <2>1. /\ m \in Messages /\ Tail(toPage[r]) \in Seq(Messages) /\ runs' = runs
        /\ toPage' = [toPage EXCEPT ![r] = Tail(toPage[r])]
    BY <1>5, ReceiveIs
  <2>2. toPage' \in [Runs -> Seq(Messages)]
    BY <2>1 DEF Shapes
  <2>3. CASE Replace(0) /\ history' = history
    BY <2>1, <2>2, <2>3, ReplaceIs DEF Shapes
  <2>4. CASE UNCHANGED <<worker, search, moves, serial>> /\ history' = history
    BY <2>1, <2>2, <2>4 DEF Shapes
  <2>5. CASE /\ UNCHANGED <<worker, search, moves, serial>>
             /\ m.type = "trajectory" /\ history' = Append(history, <<r, m.n>>)
    <3>1. m.n \in Nat
      BY <2>1, <2>5 DEF Messages
    <3>2. history' \in Seq(Runs \X Nat)
      BY <2>5, <3>1 DEF Shapes
    <3> QED BY <2>1, <2>2, <2>5, <3>2 DEF Shapes
  <2> QED BY <1>5, <2>3, <2>4, <2>5 DEF Receive, session, inside, Kept, Fail, Dispose
<1>6. ASSUME NEW r \in Runs, NEW ms \in Seq(Messages), Posted(r, ms) PROVE Rest
  <2>1. moves' \in [Runs -> Nat]
    <3>1. moves \in [Runs -> Nat] /\ moves[r] + 1 \in Nat
      BY DEF Shapes
    <3>2. moves' = moves \/ moves' = [moves EXCEPT ![r] = moves[r] + 1]
      BY <1>6 DEF Posted, PostsOthers, PostsMove, PostsResult
    <3> QED BY <3>1, <3>2
  <2>2. toPage[r] \o ms \in Seq(Messages)
    BY ConcatIs DEF Shapes
  <2>3. toPage' \in [Runs -> Seq(Messages)]
    BY <1>6, <2>2 DEF Posted, Shapes
  <2> QED BY <1>6, <2>1, <2>3 DEF Posted, session, Shapes
<1>7. Rest
  <2> HIDE DEF Rest
  <2> QED BY <1>2, <1>3, <1>4, <1>5, <1>6, StepIs
<1> QED
  BY <1>1, <1>7 DEF Shapes

-----------------------------------------------------------------------------
(* One run lives, and its lines come.                                      *)

\* A worker that posted nothing and made no move owes nothing.
LEMMA QueueEmpty ==
  ASSUME NEW r, NEW done
  PROVE  Queue(<<>>, r, 0, 0, {}, done)
BY DEF Queue

\* When the page replaces its worker no other lives, and none that was not made did anything.
LEMMA ReplaceLeavesOne ==
  ASSUME Shapes, OneLives, NEW next \in {0, runs + 1}, Replace(next), toPage' = toPage,
         runs' \in Nat, next = 0 => runs' = runs, next = runs + 1 => runs' = runs + 1
  PROVE  /\ \A r \in Runs : r > runs' => toPage'[r] = <<>> /\ moves'[r] = 0 /\ search'[r] = "none"
         /\ \A r \in Runs : Live(r)' => r = worker'
<1>1. /\ worker' = next
      /\ \A r \in Runs : search'[r] = IF r = worker THEN "dead" ELSE
                                      IF r = next THEN "made" ELSE search[r]
      /\ \A r \in Runs : moves'[r] = IF r = worker THEN 0 ELSE moves[r]
  BY ReplaceIs
<1>2. runs \in Nat /\ worker \in {0, runs} /\ \A r \in Runs : r \in Nat /\ r # 0
  BY DEF Shapes, Runs
<1>3. \A r \in Runs : r > runs' => r > runs /\ r # worker /\ r # next
  BY <1>2
<1>4. \A r \in Runs : r > runs => toPage[r] = <<>> /\ moves[r] = 0 /\ search[r] = "none"
  BY DEF OneLives
<1>5. \A r \in Runs : r > runs' => toPage'[r] = <<>> /\ moves'[r] = 0 /\ search'[r] = "none"
  BY <1>1, <1>3, <1>4
<1>6. \A r \in Runs : Live(r)' => r = worker'
  <2> TAKE r \in Runs
  <2>1. CASE r = worker
    BY <1>1, <2>1 DEF Live
  <2>2. CASE r # worker /\ r # next
    <3>1. ~Live(r)
      BY <2>2 DEF OneLives
    <3>2. search'[r] = search[r]
      BY <1>1, <2>2
    <3> QED BY <3>1, <3>2 DEF Live
  <2>3. CASE r = next
    BY <1>1, <2>3
  <2> QED BY <2>1, <2>2, <2>3
<1> QED
  BY <1>5, <1>6

\* A step leaves at most one worker alive, the one the page owns.
LEMMA OneStep ==
  ASSUME Shapes, OneLives, LinesCome, [Next]_vars
  PROVE  OneLives'
<1>1. CASE Quiet
  BY <1>1 DEF Quiet, OneLives, Live, Running
<1>2. ASSUME Replace(0), UNCHANGED <<runs, toPage>>, status' \notin {"running", "finished"}
      PROVE  OneLives'
  <2>1. /\ \A r \in Runs : r > runs' => toPage'[r] = <<>> /\ moves'[r] = 0 /\ search'[r] = "none"
        /\ \A r \in Runs : Live(r)' => r = worker'
    BY <1>2, ReplaceLeavesOne DEF Shapes
  <2>2. timers' = {} /\ ~Running'
    BY <1>2, ReplaceIs DEF Running
  <2> QED BY <1>2, <2>1, <2>2 DEF OneLives
<1>3. CASE Disposed
  BY <1>2, <1>3 DEF Disposed, Dispose
<1>4. CASE Start(TRUE)
  <2>1. Replace(runs + 1) /\ runs' = runs + 1 /\ toPage' = toPage /\ status' = "running"
    BY <1>4 DEF Start
  <2>2. runs + 1 \in Nat /\ runs + 1 # 0
    BY DEF Shapes
  <2>3. /\ \A r \in Runs : r > runs' => toPage'[r] = <<>> /\ moves'[r] = 0 /\ search'[r] = "none"
        /\ \A r \in Runs : Live(r)' => r = worker'
    BY <2>1, <2>2, ReplaceLeavesOne
  <2>4. timers' = {runs + 1} /\ worker' = runs + 1 /\ Running'
    BY <2>1, <2>2, ReplaceIs DEF Running
  <2> QED BY <2>1, <2>2, <2>3, <2>4 DEF OneLives
<1>5. ASSUME NEW r \in Runs, Receive(r) PROVE OneLives'
  <2> DEFINE m == Head(toPage[r])
  <2>1. /\ toPage[r] # <<>> /\ toPage[r] \in Seq(Messages) /\ runs' = runs
        /\ toPage' = [toPage EXCEPT ![r] = Tail(toPage[r])]
    BY <1>5, ReceiveIs
  <2>2. \A s \in Runs : s > runs => toPage'[s] = <<>>
    BY <2>1 DEF OneLives, Shapes
  <2>3. CASE UNCHANGED <<worker, status, timers, search, moves>>
    BY <2>1, <2>2, <2>3 DEF OneLives, Live, Running
  <2>4. CASE Fail
    <3>1. Replace(0) /\ status' = "error"
      BY <2>4 DEF Fail, Dispose
    <3>2. /\ timers' = {} /\ ~Running' /\ worker' = 0
          /\ \A s \in Runs : search'[s] = IF s = worker THEN "dead" ELSE
                                          IF s = 0 THEN "made" ELSE search[s]
          /\ \A s \in Runs : moves'[s] = IF s = worker THEN 0 ELSE moves[s]
      BY <3>1, ReplaceIs DEF Running
    <3>3. \A s \in Runs : s # 0 /\ (s > runs => s # worker)
      BY DEF Shapes, Runs
    <3>4. \A s \in Runs : s > runs' => toPage'[s] = <<>> /\ moves'[s] = 0 /\ search'[s] = "none"
      BY <2>1, <2>2, <3>2, <3>3 DEF OneLives
    <3>5. \A s \in Runs : ~Live(s)'
      BY <3>2, <3>3 DEF OneLives, Live
    <3> QED BY <3>1, <3>2, <3>4, <3>5 DEF OneLives
  <2>5. CASE /\ r = worker /\ m.type = "result" /\ timers' = {} /\ status' = "finished"
             /\ UNCHANGED <<worker, search, moves>>
    <3>1. worker # 0
      BY <2>5 DEF Runs
    <3>2. Queue(toPage[r], r, Len(history), moves[r], programs, search[r] = "settled")
      BY <2>5, <3>1 DEF LinesCome
    <3>3. m = toPage[r][1] /\ 1 \in DOMAIN toPage[r]
      BY <2>1, TailIs
    <3>4. search[r] = "settled"
      BY <2>5, <3>2, <3>3 DEF Queue
    <3> QED BY <2>1, <2>2, <2>5, <3>1, <3>4 DEF OneLives, Live, Running
  <2> QED BY <1>5, <2>3, <2>4, <2>5 DEF Receive, FromCurrent, session, inside
<1>6. ASSUME NEW r \in Runs, NEW ms \in Seq(Messages), Posted(r, ms) PROVE OneLives'
  <2>1. r = worker /\ r \in Nat /\ ~(r > runs) /\ UNCHANGED <<worker, runs, status, timers>>
    BY <1>6 DEF Posted, OneLives, session, Shapes, Runs
  <2>2. \A s \in Runs : s # r =>
          search'[s] = search[s] /\ moves'[s] = moves[s] /\ toPage'[s] = toPage[s]
    <3>1. moves' = moves \/ moves' = [moves EXCEPT ![r] = moves[r] + 1]
      BY <1>6 DEF Posted, PostsOthers, PostsMove, PostsResult
    <3> QED BY <1>6, <3>1 DEF Posted, Shapes
  <2>3. \A s \in Runs : s > runs => s # r
    BY <2>1
  <2>4. \A s \in Runs : s > runs' => toPage'[s] = <<>> /\ moves'[s] = 0 /\ search'[s] = "none"
    BY <2>1, <2>2, <2>3 DEF OneLives
  <2>5. \A s \in Runs : Live(s)' => s = worker'
    BY <2>1, <2>2 DEF OneLives, Live
  <2>6. search[r] = "settled" => search'[r] = "settled"
    BY <1>6 DEF Posted, PostsOthers, PostsMove, PostsResult
  <2> QED BY <2>1, <2>4, <2>5, <2>6 DEF OneLives, Running
<1> QED
  BY <1>1, <1>3, <1>4, <1>5, <1>6, StepIs

\* An answer shown is one to the run the page owns.
LEMMA ShownIsOurs ==
  ASSUME Shapes, JobsOfWorker, GoOn
  PROVE  \A c \in checks' : c \in checks \/ c[1] = runs
<1> DEFINE s == Head(awaits)
<1>1. awaits # <<>> /\ awaits \in Seq(Settlements)
  BY DEF GoOn, JobsOfWorker
<1>2. s \in Settlements
  BY <1>1, TailIs
<1>3. s.call[1] \in Runs
  BY <1>2 DEF Settlements
<1>4. checks' = checks \/ (s.call[1] = worker /\ (checks' = checks \/ checks' = checks \cup {s.call}))
  BY DEF GoOn, FromCurrent
<1>5. s.call[1] = worker => s.call[1] = runs
  BY <1>3 DEF Shapes, Runs
<1> HIDE DEF s
<1> QED
  BY <1>4, <1>5

\* What is recorded is of one run still, when the page takes a message of it.
LEMMA ReceiveKeepsLines ==
  ASSUME Shapes, OneLives, LinesCome, NEW r \in Runs, Receive(r)
  PROVE  LinesCome'
<1> DEFINE q == toPage[r]
           m == Head(q)
           n == Len(history)
<1>1. /\ q # <<>> /\ q \in Seq(Messages) /\ runs' = runs /\ m \in Messages
      /\ toPage' = [toPage EXCEPT ![r] = Tail(q)]
  BY ReceiveIs
<1>2. n \in Nat /\ history \in Seq(Runs \X Nat) /\ DOMAIN history = 1..n
  BY DEF Shapes
<1>3. CASE ~FromCurrent(r) /\ UNCHANGED <<session, search, moves>>
  <2>1. worker # 0 => worker \in Runs
    BY DEF Shapes, Runs, BoundsAssumption
  <2>2. worker' # 0 => toPage'[worker'] = toPage[worker]
    BY <1>1, <1>3, <2>1 DEF session, FromCurrent, Shapes
  <2> QED BY <1>1, <1>3, <2>2 DEF LinesCome, WholeHistory, session
<1>4. CASE Fail
  <2>1. worker' = 0 /\ status' = "error" /\ UNCHANGED <<history, programs, checks, standing>>
    BY <1>4, ReplaceIs DEF Fail, Dispose, Kept
  <2> QED BY <1>1, <2>1 DEF LinesCome, WholeHistory
<1>5. ASSUME r = worker, UNCHANGED <<worker, search, moves>>
      PROVE  LinesCome'
  <2>1. worker # 0 /\ runs = r /\ r \in Nat
    BY <1>5 DEF Runs, Shapes
  <2>2. Queue(q, r, n, moves[r], programs, search[r] = "settled")
    BY <1>5, <2>1 DEF LinesCome
  <2>3. moves[r] \in Nat
    BY DEF Shapes
  <2>4. toPage'[r] = Tail(q)
    BY <1>1 DEF Shapes
  <2> DEFINE done == search[r] = "settled"
  <2>5. ASSUME NEW R, programs \subseteq R, m.type = "program" => <<r, m.n>> \in R,
               NEW k \in Nat, k = (IF IsLine(m) THEN n + 1 ELSE n)
        PROVE  /\ Queue(Tail(q), r, k, moves[r], R, done)
               /\ IsLine(m) => m.n = n + 1 /\ <<r, n + 1>> \in programs
               /\ m.type = "progress" => m.n <= n
               /\ m.type = "result" => m.n = moves[r] /\ n = moves[r]
    <3> HIDE DEF n
    <3>1. done \in BOOLEAN
      OBVIOUS
    <3> HIDE DEF q, done
    <3>2. Queue(q, r, n, moves[r], programs, done)
      BY <2>2 DEF done
    <3>3. m = Head(q)
      OBVIOUS
    <3>4. q # <<>> /\ q \in Seq(Messages) /\ n \in Nat /\ moves[r] \in Nat
      BY <1>1, <1>2, <2>3
    <3> HIDE DEF m
    <3>5. /\ Head(q).type = "program" => <<r, Head(q).n>> \in R
          /\ k = IF IsLine(Head(q)) THEN n + 1 ELSE n
      BY <2>5, <3>3
    <3>6. /\ Queue(Tail(q), r, k, moves[r], R, done)
          /\ IsLine(Head(q)) => Head(q).n = n + 1 /\ <<r, n + 1>> \in programs
          /\ Head(q).type = "progress" => Head(q).n <= n
          /\ Head(q).type = "result" => Head(q).n = moves[r] /\ n = moves[r]
      <4> DEFINE mm == moves[r]
      <4>1. /\ mm \in Nat /\ Queue(q, r, n, mm, programs, done)
            /\ k \in Nat /\ programs \subseteq R
        BY <2>5, <3>2, <3>4
      <4> HIDE DEF mm
      <4>2. Queue(Tail(q), r, k, mm, R, done) /\ NextFits(q, r, n, mm, programs)
        BY <3>4, <3>5, <4>1, QueueTail
      <4> QED BY <4>2 DEF mm, NextFits
    <3> QED BY <3>3, <3>6
  <2>6. CASE m.type = "program" /\ programs' = programs \cup {<<r, m.n>>}
             /\ UNCHANGED <<history, status, standing, checks>>
    <3>1. ~IsLine(m)
      BY <2>6 DEF IsLine
    <3>2. Queue(Tail(q), r, n, moves[r], programs', done)
      BY <1>2, <2>5, <2>6, <3>1
    <3>3. WholeHistory' /\ standing' \in Nat
      BY <1>1, <1>5, <2>1, <2>6 DEF LinesCome, WholeHistory
    <3> QED BY <1>5, <2>4, <2>6, <3>2, <3>3 DEF LinesCome
  <2>7. CASE m.type = "trajectory" /\ history' = Append(history, <<r, m.n>>)
             /\ UNCHANGED <<programs, status, standing, checks>>
    <3>1. IsLine(m) /\ m.type # "program"
      BY <2>7 DEF IsLine
    <3>2. /\ Queue(Tail(q), r, n + 1, moves[r], programs, done)
          /\ m.n = n + 1 /\ <<r, n + 1>> \in programs
      <4>1. n + 1 \in Nat /\ n + 1 = IF IsLine(m) THEN n + 1 ELSE n
        BY <1>2, <3>1
      <4> HIDE DEF n, q, m, done
      <4> QED BY <2>5, <3>1, <4>1
    <3>3. Len(history') = n + 1 /\ DOMAIN history' = 1..(n + 1) /\ history'[n + 1] = <<r, n + 1>>
          /\ \A i \in 1..n : history'[i] = history[i]
      BY <1>2, <2>7, <3>2
    <3>4. \A i \in DOMAIN history' : history'[i] = <<runs', i>> /\ <<runs', i>> \in programs'
      <4> TAKE i \in DOMAIN history'
      <4>1. CASE i = n + 1
        BY <1>1, <2>1, <2>7, <3>2, <3>3, <4>1
      <4>2. CASE i # n + 1
        <5>1. i \in 1..n
          BY <1>2, <3>3, <4>2
        <5>2. history[i] = <<runs, i>> /\ <<runs, i>> \in programs
          BY <1>2, <5>1 DEF LinesCome, WholeHistory
        <5> QED BY <1>1, <2>7, <3>3, <5>1, <5>2
      <4> QED BY <4>1, <4>2
    <3>5. status # "finished"
      <4>1. status = "finished" => n = moves[r]
        BY <2>1 DEF LinesCome, WholeHistory
      <4>2. n + 1 <= moves[r]
        BY <3>2 DEF Queue
      <4> QED BY <1>2, <2>3, <4>1, <4>2
    <3>6. standing' <= n + 1
      BY <1>2, <2>7 DEF LinesCome, WholeHistory
    <3>7. \A c \in programs' \cup checks' : c[1] = runs'
      BY <1>1, <2>7 DEF LinesCome, WholeHistory
    <3>8. WholeHistory' /\ standing' \in Nat
      BY <2>7, <3>3, <3>4, <3>5, <3>6, <3>7 DEF LinesCome, WholeHistory
    <3> QED BY <1>5, <2>4, <2>7, <3>2, <3>3, <3>8 DEF LinesCome
  <2>8. CASE m.type = "progress" /\ standing' \in {standing, m.n}
             /\ UNCHANGED <<history, programs, status, checks>>
    <3>1. ~IsLine(m)
      BY <2>8 DEF IsLine
    <3>2. Queue(Tail(q), r, n, moves[r], programs, done) /\ m.n <= n
      BY <1>2, <2>5, <2>8, <3>1
    <3>3. WholeHistory' /\ standing' \in Nat
      <4>1. m.n \in Nat
        BY <1>1, <2>8 DEF Messages
      <4> QED BY <1>1, <1>5, <2>8, <3>2, <4>1 DEF LinesCome, WholeHistory
    <3> QED BY <1>5, <2>4, <2>8, <3>2, <3>3 DEF LinesCome
  <2>9. CASE m.type \in {"exec", "kill"} /\ UNCHANGED <<history, programs, status, standing, checks>>
    <3>1. ~IsLine(m) /\ m.type # "program"
      BY <2>9 DEF IsLine
    <3>2. Queue(Tail(q), r, n, moves[r], programs, done)
      BY <1>2, <2>5, <3>1
    <3>3. WholeHistory' /\ standing' \in Nat
      BY <1>1, <1>5, <2>9 DEF LinesCome, WholeHistory
    <3> QED BY <1>5, <2>4, <2>9, <3>2, <3>3 DEF LinesCome
  <2>10. CASE m.type = "result" /\ standing' = m.n /\ status' = "finished"
              /\ UNCHANGED <<history, programs, checks>>
    <3>1. ~IsLine(m) /\ m.type # "program"
      BY <2>10 DEF IsLine
    <3>2. Queue(Tail(q), r, n, moves[r], programs, done) /\ m.n = moves[r] /\ n = moves[r]
      BY <1>2, <2>5, <2>10, <3>1
    <3>3. WholeHistory' /\ standing' \in Nat
      BY <1>1, <1>2, <1>5, <2>3, <2>1, <2>10, <3>2 DEF LinesCome, WholeHistory
    <3> QED BY <1>5, <2>4, <2>10, <3>2, <3>3 DEF LinesCome
  <2>11. \/ m.type = "program" /\ programs' = programs \cup {<<r, m.n>>}
             /\ UNCHANGED <<history, status, standing, checks>>
         \/ m.type = "trajectory" /\ history' = Append(history, <<r, m.n>>)
             /\ UNCHANGED <<programs, status, standing, checks>>
         \/ m.type = "progress" /\ standing' \in {standing, m.n}
             /\ UNCHANGED <<history, programs, status, checks>>
         \/ m.type \in {"exec", "kill"} /\ UNCHANGED <<history, programs, status, standing, checks>>
         \/ m.type = "result" /\ standing' = m.n /\ status' = "finished"
              /\ UNCHANGED <<history, programs, checks>>
         \/ Fail
    BY <1>5 DEF Receive, FromCurrent, Kept
  <2> QED BY <1>4, <2>6, <2>7, <2>8, <2>9, <2>10, <2>11
<1> QED
  BY <1>3, <1>4, <1>5 DEF Receive, FromCurrent, inside

\* What a worker posts is put behind what the page has to receive.
LEMMA PostedKeepsLines ==
  ASSUME Shapes, OneLives, LinesCome, NEW r \in Runs, NEW ms \in Seq(Messages), Posted(r, ms)
  PROVE  LinesCome'
<1> DEFINE q == toPage[r]
           n == Len(history)
           mm == moves[r]
           done == search[r] = "settled"
           still == search'[r] = "settled"
<1>1. /\ r = worker /\ worker' = worker /\ worker # 0 /\ runs = r
      /\ UNCHANGED <<runs, history, programs, checks, standing, status>>
  BY DEF Posted, OneLives, session, Shapes, Runs
<1>2. q \in Seq(Messages) /\ n \in Nat /\ mm \in Nat
  BY DEF Shapes
<1>3. Queue(q, r, n, mm, programs, done)
  BY <1>1 DEF LinesCome
<1>4. toPage'[r] = q \o ms
  BY DEF Posted, Shapes
<1>5. CASE PostsOthers(r, ms)
  <2>1. (done => still) /\ \A i \in DOMAIN ms : Other(ms[i])
    BY <1>5 DEF PostsOthers
  <2>2. moves'[r] = mm
    BY <1>5 DEF PostsOthers
  <2> HIDE DEF q, n, mm, done, still
  <2>3. Queue(q \o ms, r, n, mm, programs, still)
    BY <1>2, <1>3, <2>1, QueueOthers
  <2>4. Queue(toPage'[r], r, Len(history'), moves'[r], programs', search'[r] = "settled")
    BY <1>1, <1>4, <2>2, <2>3 DEF n, still
  <2>5. moves'[runs] = moves[runs]
    BY <1>1, <2>2 DEF mm
  <2> QED BY <1>1, <2>4, <2>5 DEF LinesCome, WholeHistory
<1>6. CASE PostsMove(r, ms)
  <2>1. ~done /\ ~still /\ moves'[r] = mm + 1
    BY <1>6 DEF PostsMove, Shapes
  <2>2. /\ Len(ms) = 3 /\ ms[1].type = "program" /\ IsLine(ms[2]) /\ ms[3].type = "progress"
        /\ \A i \in DOMAIN ms : ms[i].n = mm + 1
    BY <1>6 DEF PostsMove
  <2>3. status # "finished"
    BY <1>1, <2>1 DEF OneLives
  <2>4. done = FALSE /\ still = FALSE
    BY <2>1
  <2> HIDE DEF q, n, mm, done, still
  <2>5. Queue(q, r, n, mm, programs, FALSE)
    BY <1>3, <2>4
  <2>6. Queue(q \o ms, r, n, mm + 1, programs, FALSE)
    BY <1>2, <2>2, <2>5, QueueMove
  <2>7. Queue(toPage'[r], r, Len(history'), moves'[r], programs', search'[r] = "settled")
    <3>1. (search'[r] = "settled") = FALSE
      BY <2>4 DEF still
    <3> QED BY <1>1, <1>4, <2>1, <2>6, <3>1 DEF n
  <2> QED BY <1>1, <2>3, <2>7 DEF LinesCome, WholeHistory
<1>7. CASE PostsResult(r, ms)
  <2>1. ~done /\ still /\ moves'[r] = mm
    BY <1>7 DEF PostsResult
  <2>2. Len(ms) = 1 /\ ms[1].type = "result" /\ ms[1].n = mm
    BY <1>7 DEF PostsResult
  <2>3. done = FALSE /\ still = TRUE
    BY <2>1
  <2> HIDE DEF q, n, mm, done, still
  <2>4. Queue(q, r, n, mm, programs, FALSE)
    BY <1>3, <2>3
  <2>5. Queue(q \o ms, r, n, mm, programs, TRUE)
    BY <1>2, <2>2, <2>4, QueueResult
  <2>6. Queue(toPage'[r], r, Len(history'), moves'[r], programs', search'[r] = "settled")
    <3>1. (search'[r] = "settled") = TRUE
      BY <2>3 DEF still
    <3> QED BY <1>1, <1>4, <2>1, <2>5, <3>1 DEF n
  <2>7. moves'[runs] = moves[runs]
    BY <1>1, <2>1 DEF mm
  <2> QED BY <1>1, <2>6, <2>7 DEF LinesCome, WholeHistory
<1> QED
  BY <1>5, <1>6, <1>7 DEF Posted

\* A step keeps what is recorded to one run, and its lines in order.
LEMMA LinesStep ==
  ASSUME Shapes, JobsOfWorker, OneLives, LinesCome, [Next]_vars
  PROVE  LinesCome'
<1>1. CASE Quiet
  <2>1. \A c \in checks' : c[1] = runs
    BY <1>1, ShownIsOurs DEF Quiet, LinesCome, WholeHistory
  <2>2. WholeHistory'
    BY <1>1, <2>1 DEF Quiet, LinesCome, WholeHistory
  <2> QED BY <1>1, <2>2 DEF Quiet, LinesCome
<1>2. CASE Disposed
  <2>1. worker' = 0 /\ runs' = runs /\ status' # "finished"
    BY <1>2, ReplaceIs DEF Disposed, Dispose
  <2>2. CASE UNCHANGED <<history, programs, standing, checks>>
    BY <2>1, <2>2 DEF LinesCome, WholeHistory
  <2>3. CASE Emptied
    <3>1. history' = <<>> /\ programs' = {} /\ standing' = 0 /\ checks' = {} /\ Len(<<>>) = 0
      BY <2>3 DEF Emptied
    <3> QED BY <2>1, <3>1 DEF LinesCome, WholeHistory
  <2> QED BY <1>2, <2>2, <2>3 DEF Disposed
<1>3. CASE Start(TRUE)
  <2>1. /\ Replace(runs + 1) /\ runs' = runs + 1 /\ toPage' = toPage /\ status' = "running"
        /\ history' = <<>> /\ programs' = {} /\ standing' = 0 /\ checks' = {} /\ Len(<<>>) = 0
        /\ runs < MaxRuns
    BY <1>3 DEF Start, Emptied
  <2>2. MaxRuns \in Nat
    BY BoundsAssumption DEF BoundsAssumption
  <2>3. runs + 1 \in Runs /\ runs + 1 > runs /\ runs + 1 # worker
    BY <2>1, <2>2 DEF Shapes, Runs
  <2>4. worker' = runs + 1 /\ moves'[runs + 1] = moves[runs + 1]
    BY <2>1, <2>3, ReplaceIs
  <2>5. toPage'[runs + 1] = <<>> /\ moves'[runs + 1] = 0
    BY <2>1, <2>3, <2>4 DEF OneLives
  <2>6. Queue(<<>>, runs + 1, 0, 0, {}, search'[runs + 1] = "settled")
    BY QueueEmpty
  <2>7. WholeHistory'
    BY <2>1 DEF WholeHistory
  <2> QED BY <2>1, <2>4, <2>5, <2>6, <2>7 DEF LinesCome
<1> QED
  BY <1>1, <1>2, <1>3, ReceiveKeepsLines, PostedKeepsLines, StepIs

-----------------------------------------------------------------------------
(* The text and the reports.                                               *)

\* A step of the page that leaves the editor alone keeps what was recorded to its text.
LEMMA PageKeepsText ==
  ASSUME Shapes, OfTheText, UNCHANGED editor, UNCHANGED input,
         \/ UNCHANGED <<worker, history>>
         \/ worker' = 0 /\ history' = history
         \/ worker # 0
  PROVE  OfTheText'
BY DEF OfTheText, editor

\* New text ends the session of the old.
LEMMA ChangeKeepsText ==
  ASSUME Shapes, OfTheText, NEW t, Change(t), acts' \in Nat, reads' \subseteq reads
  PROVE  OfTheText'
<1>1. worker' = 0 /\ history' = <<>> /\ revision' = revision + 1 /\ revision \in Nat
  BY ReplaceIs DEF Change, Dispose, Emptied, Shapes
<1>2. \A f \in reads' : f.at \in Nat /\ f.at <= revision' /\ f.at # revision'
  BY <1>1 DEF OfTheText
<1> QED
  BY <1>1, <1>2 DEF OfTheText

\* What is recorded stays of the text in the editor, and a read that is up to date of the last act.
LEMMA TextStep ==
  ASSUME Shapes, OfTheText, [Next]_vars
  PROVE  OfTheText'
<1>1. CASE UNCHANGED <<session, editor>>
  BY <1>1 DEF OfTheText, session, editor
<1>2. CASE ToolStep
  BY <1>2, PageKeepsText DEF ToolStep, Loaded, LoadFails, ToolPosts, ToolReplies, session
<1>3. CASE PageStep
  <2>1. CASE GoOn
    BY <2>1, PageKeepsText DEF GoOn
  <2>2. CASE Stop
    BY <2>2, PageKeepsText, ReplaceIs DEF Stop, Dispose, Kept
  <2>3. CASE Start(TRUE)
    <3>1. /\ input' = text /\ text' = text /\ reads' = reads
          /\ revision' = revision + 1 /\ revision \in Nat
      BY <2>3 DEF Start, Shapes
    <3>2. \A f \in reads' : f.at \in Nat /\ f.at <= revision' /\ f.at # revision'
      BY <3>1 DEF OfTheText
    <3> QED BY <3>1, <3>2 DEF OfTheText
  <2>4. CASE Start(FALSE)
    BY <2>4 DEF Start, OfTheText
  <2>5. ASSUME NEW r \in Runs, Receive(r) PROVE OfTheText'
    <3>1. UNCHANGED editor /\ input' = input
      BY <2>5 DEF Receive, session, Kept, Fail
    <3>2. CASE FromCurrent(r)
      <4>1. worker # 0
        BY <3>2 DEF FromCurrent, Runs
      <4> QED BY <3>1, <4>1, PageKeepsText
    <3>3. CASE ~FromCurrent(r)
      BY <2>5, <3>1, <3>3, PageKeepsText DEF Receive, session
    <3> QED BY <3>2, <3>3
  <2>6. CASE WorkerFails
    BY <2>6, PageKeepsText DEF WorkerFails, Fail, Kept
  <2> QED BY <1>3, <2>1, <2>2, <2>3, <2>4, <2>5, <2>6 DEF PageStep
<1>4. CASE SearchStep
  BY <1>1, <1>4 DEF SearchStep, Boot, Call, Move, KillTimer, TakeAnswer, Settle, Throw
<1>5. CASE EditorStep
  <2>1. CASE Edit
    BY <2>1, ChangeKeepsText DEF Edit, UserActs, Shapes
  <2>2. ASSUME NEW fits \in BOOLEAN, Load(fits) PROVE OfTheText'
    <3>1. acts' = acts + 1 /\ revision' = revision + 1 /\ text' = text /\ input' = input
          /\ history' = history /\ revision \in Nat /\ acts \in Nat
      BY <2>2 DEF Load, UserActs, Fail, Kept, session, Shapes
    <3>2. worker' = worker \/ worker' = 0
      BY <2>2, ReplaceIs DEF Load, Fail, Dispose, session
    <3>3. reads' = reads \/ reads' = reads \cup {[at |-> revision', text |-> acts']}
      BY <2>2 DEF Load
    <3>4. \A f \in reads' : f.at \in Nat /\ f.at <= revision' /\ (f.at = revision' => f.text = acts')
      <4> TAKE f \in reads'
      <4>1. CASE f \in reads
        BY <3>1, <4>1 DEF OfTheText
      <4>2. CASE f = [at |-> revision', text |-> acts']
        BY <3>1, <4>2
      <4> QED BY <3>3, <4>1, <4>2
    <3> QED BY <3>1, <3>2, <3>4 DEF OfTheText
  <2>3. ASSUME NEW f \in reads, ReadEnds(f) PROVE OfTheText'
    <3>1. reads' = reads \ {f} /\ acts' = acts
      BY <2>3 DEF ReadEnds
    <3>2. CASE Change(f.text)
      BY <3>1, <3>2, ChangeKeepsText DEF Shapes
    <3>3. CASE UNCHANGED <<session, text, revision>>
      BY <3>1, <3>3 DEF OfTheText, session
    <3> QED BY <2>3, <3>2, <3>3 DEF ReadEnds
  <2>4. ASSUME NEW f \in reads, ReadFails(f) PROVE OfTheText'
    <3>1. reads' = reads \ {f} /\ UNCHANGED <<acts, text, revision>>
      BY <2>4 DEF ReadFails
    <3>2. (worker' = worker \/ worker' = 0) /\ UNCHANGED <<history, input>>
      BY <2>4, ReplaceIs DEF ReadFails, Fail, Dispose, Kept, session
    <3> QED BY <3>1, <3>2 DEF OfTheText
  <2> QED BY <1>5, <2>1, <2>2, <2>3, <2>4 DEF EditorStep
<1>6. CASE ReportStep
  BY <1>1, <1>6 DEF ReportStep, Open, Viewed, Close, Save, Saved
<1>7. CASE UNCHANGED vars
  BY <1>1, <1>7 DEF vars
<1> QED
  BY <1>2, <1>3, <1>4, <1>5, <1>6, <1>7 DEF Next

\* A prefix of a history is one of a longer history.
LEMMA PrefixOfMore ==
  ASSUME NEW S, NEW h \in Seq(S), NEW l \in Seq(S), NEW x \in S
  PROVE  /\ IsPrefix(h, h)
         /\ IsPrefix(l, h) => IsPrefix(l, Append(h, x))
BY DEF IsPrefix

Jobs == {viewing, saving, shown} \ {NoJob}

\* A report holds while the text stays and the history grows by a line at most.
LEMMA KeptReportsHold ==
  ASSUME Shapes, ReportsHold, text' = text, Jobs' \subseteq Jobs,
         history' = history \/ \E x \in Runs \X Nat : history' = Append(history, x)
  PROVE  ReportsHold'
<1>1. ASSUME NEW job \in Jobs'
      PROVE  /\ job.input = text' /\ IsPrefix(job.lines, history')
             /\ ToSet(job.lines) \subseteq job.programs /\ job.lines \in Seq(Runs \X Nat)
  <2>1. /\ job.input = text /\ IsPrefix(job.lines, history)
        /\ ToSet(job.lines) \subseteq job.programs /\ job.lines \in Seq(Runs \X Nat)
    BY DEF ReportsHold, ReportIsCurrent, Jobs
  <2>2. IsPrefix(job.lines, history')
    BY <2>1, PrefixOfMore DEF Shapes
  <2> QED BY <2>1, <2>2
<1> QED
  BY <1>1 DEF ReportsHold, ReportIsCurrent, Jobs

\* A report is made of what the page has.
LEMMA SnapshotHolds ==
  ASSUME Shapes, LinesCome, OfTheText, ReportsHold, HasReport, UNCHANGED <<text, history>>,
         Jobs' \subseteq Jobs \cup {Snapshot}
  PROVE  ReportsHold'
<1>1. /\ Snapshot.input = text /\ IsPrefix(Snapshot.lines, history)
      /\ ToSet(Snapshot.lines) \subseteq Snapshot.programs
      /\ Snapshot.lines \in Seq(Runs \X Nat)
  <2>1. Snapshot.lines = history /\ Snapshot.programs = programs /\ Snapshot.input = input
    BY DEF Snapshot
  <2>2. history \in Seq(Runs \X Nat) /\ input = text
    BY DEF Shapes, OfTheText, HasReport
  <2>3. IsPrefix(history, history)
    BY <2>2 DEF IsPrefix
  <2>4. ToSet(history) \subseteq programs
    BY DEF ToSet, LinesCome, WholeHistory
  <2> QED BY <2>1, <2>2, <2>3, <2>4
<1>2. ASSUME NEW job \in Jobs'
      PROVE  /\ job.input = text' /\ IsPrefix(job.lines, history')
             /\ ToSet(job.lines) \subseteq job.programs /\ job.lines \in Seq(Runs \X Nat)
  <2>1. CASE job = Snapshot
    BY <1>1, <2>1
  <2>2. CASE job \in Jobs
    BY <2>2 DEF ReportsHold, ReportIsCurrent, Jobs
  <2> QED BY <2>1, <2>2
<1> QED
  BY <1>2 DEF ReportsHold, ReportIsCurrent, Jobs

\* A step leaves no report of another text or of another history.
LEMMA ReportsStep ==
  ASSUME Shapes, LinesCome, OfTheText, ReportsHold, [Next]_vars
  PROVE  ReportsHold'
<1>1. CASE UNCHANGED <<text, history, reports>>
  <2>1. Jobs' = Jobs /\ text' = text /\ history' = history
    BY <1>1 DEF reports, Jobs
  <2> QED BY <2>1, KeptReportsHold
<1>2. CASE ResetReports
  BY <1>2 DEF ResetReports, ReportsHold, ReportIsCurrent
<1>3. CASE ToolStep
  BY <1>1, <1>3 DEF ToolStep, Loaded, LoadFails, ToolPosts, ToolReplies, session, editor
<1>4. CASE PageStep
  <2>1. CASE GoOn \/ Stop \/ WorkerFails
    BY <1>1, <2>1 DEF GoOn, Stop, WorkerFails, Fail, Kept, editor
  <2>2. ASSUME NEW fits \in BOOLEAN, Start(fits) PROVE ReportsHold'
    BY <1>2, <2>2 DEF Start
  <2>3. ASSUME NEW r \in Runs, Receive(r) PROVE ReportsHold'
    <3> DEFINE m == Head(toPage[r])
    <3>1. m \in Messages
      BY <2>3, ReceiveIs
    <3>2. text' = text /\ UNCHANGED reports
      BY <2>3 DEF Receive, editor
    <3>3. CASE history' = history
      BY <1>1, <3>2, <3>3
    <3>4. CASE m.type = "trajectory" /\ history' = Append(history, <<r, m.n>>)
      <4>1. <<r, m.n>> \in Runs \X Nat
        BY <3>1, <3>4 DEF Messages
      <4>2. Jobs' = Jobs
        BY <3>2 DEF reports, Jobs
      <4> QED BY <3>2, <3>4, <4>1, <4>2, KeptReportsHold
    <3> QED BY <2>3, <3>3, <3>4 DEF Receive, session, Kept, Fail
  <2> QED BY <1>4, <2>1, <2>2, <2>3 DEF PageStep
<1>5. CASE SearchStep
  BY <1>1, <1>5
     DEF SearchStep, Boot, Call, Move, KillTimer, TakeAnswer, Settle, Throw, session, editor
<1>6. CASE EditorStep
  <2>1. CASE Edit
    BY <1>2, <2>1 DEF Edit, Change
  <2>2. ASSUME NEW fits \in BOOLEAN, Load(fits) PROVE ReportsHold'
    BY <1>1, <2>2 DEF Load, Fail, Kept, session
  <2>3. ASSUME NEW f \in reads, ReadEnds(f) PROVE ReportsHold'
    BY <1>1, <1>2, <2>3 DEF ReadEnds, Change, session
  <2>4. ASSUME NEW f \in reads, ReadFails(f) PROVE ReportsHold'
    BY <1>1, <2>4 DEF ReadFails, Fail, Kept, session
  <2> QED BY <1>6, <2>1, <2>2, <2>3, <2>4 DEF EditorStep
<1>7. CASE ReportStep
  <2>1. UNCHANGED <<text, history>>
    BY <1>7 DEF ReportStep, Open, Viewed, Close, Save, Saved, session, editor
  <2>2. CASE Open
    BY <2>1, <2>2, SnapshotHolds DEF Open, Jobs
  <2>3. CASE Save
    BY <2>1, <2>3, SnapshotHolds DEF Save, Jobs
  <2>4. CASE (\E ok \in BOOLEAN : Viewed(ok)) \/ Close \/ Saved
    <3>1. Jobs' \subseteq Jobs
      BY <2>4 DEF Viewed, Close, Saved, Jobs
    <3> QED BY <2>1, <3>1, KeptReportsHold
  <2> QED BY <1>7, <2>2, <2>3, <2>4 DEF ReportStep
<1>8. CASE UNCHANGED vars
  BY <1>1, <1>8 DEF vars, session, editor
<1> QED
  BY <1>3, <1>4, <1>5, <1>6, <1>7, <1>8 DEF Next

-----------------------------------------------------------------------------
(* The invariant holds.                                                    *)

PageInv == Shapes /\ JobsOfWorker /\ OneLives /\ LinesCome /\ OfTheText /\ ReportsHold

\* A page that was just opened has nothing.
LEMMA PageInit ==
  ASSUME Init
  PROVE  PageInv
<1>1. worker = 0 /\ runs = 0 /\ status = "ready" /\ history = <<>> /\ MaxRuns \in Nat
  BY BoundsAssumption DEF Init, BoundsAssumption
<1>2. Shapes
  <2>1. <<>> \in Seq(Runs \X Nat) /\ <<>> \in Seq(Messages)
    BY EmptySeq
  <2>2. toPage \in [Runs -> Seq(Messages)]
    BY <2>1 DEF Init
  <2> QED BY <1>1, <2>1, <2>2 DEF Init, Shapes
<1>3. JobsOfWorker
  <2>1. awaits \in Seq(Settlements)
    BY EmptySeq DEF Init
  <2>2. DOMAIN jobs = {} /\ tools = {}
    BY DEF Init
  <2> QED BY <2>1, <2>2, FS_EmptySet DEF JobsOfWorker
<1>4. OneLives
  BY <1>1 DEF Init, OneLives, Live, Running, Runs
<1>5. LinesCome
  <2>1. programs = {} /\ checks = {} /\ standing = 0 /\ Len(history) = 0 /\ DOMAIN history = {}
    BY <1>1 DEF Init
  <2> QED BY <1>1, <2>1 DEF LinesCome, WholeHistory
<1>6. OfTheText /\ ReportsHold
  BY DEF Init, OfTheText, ReportsHold, ReportIsCurrent
<1> QED
  BY <1>2, <1>3, <1>4, <1>5, <1>6 DEF PageInv

\* In every state of the page the six hold together.
THEOREM PageInvHolds == Spec => []PageInv
<1>1. Init => PageInv
  BY PageInit
<1>2. PageInv /\ [Next]_vars => PageInv'
  BY ShapesStep, JobsStep, OneStep, LinesStep, TextStep, ReportsStep DEF PageInv
<1> QED
  BY <1>1, <1>2, PTL DEF Spec

\* What the page keeps is one run's, the last one's, from its first line on and in order, each
\* with its program, however messages, answers, stops and restarts interleave (session.ts
\* receive).
THEOREM HistoryIsWhole == Spec => []WholeHistory
<1>1. PageInv => WholeHistory
  BY DEF PageInv, LinesCome
<1> QED
  BY <1>1, PageInvHolds, PTL

\* No worker, no checker and no deadline outlives the run it belongs to (session.ts dispose,
\* runtime.ts execute, kill and cancel).
THEOREM NothingOutlivesItsRun == Spec => []NothingRunsOn
<1>1. PageInv => NothingRunsOn
  BY DEF PageInv, JobsOfWorker, OneLives, Live, NothingRunsOn
<1> QED
  BY <1>1, PageInvHolds, PTL

\* A report is of the text in the editor and of the history the page has (reports.ts).
THEOREM ReportsAreCurrent == Spec => []ReportIsCurrent
<1>1. PageInv => ReportIsCurrent
  BY DEF PageInv, ReportsHold
<1> QED
  BY <1>1, PageInvHolds, PTL

\* Only the last thing the user asked for changes the text, and never under a search, even when
\* the reads of files end in another order than they began (editor.ts load).
THEOREM TextIsLatest == Spec => LatestText
<1> DEFINE A == text' # text => text' = acts' /\ ~Running
<1>1. ASSUME PageInv, [Next]_vars PROVE A
  <2>1. CASE text' = text
    BY <2>1
  <2>2. CASE Edit
    BY <2>2 DEF Edit, Change
  <2>3. ASSUME NEW f \in reads, ReadEnds(f) PROVE A
    <3>1. CASE UpToDate(f) /\ ~Running
      <4>1. text' = f.text /\ acts' = acts
        BY <2>3, <3>1 DEF ReadEnds, Change
      <4>2. f.text = acts
        BY <1>1, <3>1 DEF UpToDate, PageInv, OfTheText
      <4> QED BY <3>1, <4>1, <4>2
    <3>2. CASE ~(UpToDate(f) /\ ~Running)
      BY <2>3, <3>2 DEF ReadEnds
    <3> QED BY <3>1, <3>2
  <2>4. CASE ToolStep
    BY <2>4 DEF ToolStep, Loaded, LoadFails, ToolPosts, ToolReplies, editor
  <2>5. CASE PageStep
    BY <2>5 DEF PageStep, GoOn, Stop, Start, WorkerFails, Receive, editor
  <2>6. CASE SearchStep
    BY <2>6 DEF SearchStep, Boot, Call, Move, KillTimer, TakeAnswer, Settle, Throw, editor
  <2>7. CASE EditorStep
    BY <2>2, <2>3, <2>7 DEF EditorStep, Load, ReadFails
  <2>8. CASE ReportStep
    BY <2>8 DEF ReportStep, Open, Viewed, Close, Save, Saved, editor
  <2>9. CASE UNCHANGED vars
    BY <2>9 DEF vars, editor
  <2> QED BY <1>1, <2>4, <2>5, <2>6, <2>7, <2>8, <2>9 DEF Next
<1>2. PageInv /\ [Next]_vars => [A]_vars
  BY <1>1
<1> QED
  BY <1>2, PageInvHolds, PTL DEF Spec, LatestText

-----------------------------------------------------------------------------
(* The ranges of the variables.                                            *)

(* A message asks for an id its run may give, or counts moves its run may make. *)
FitsIn(m) ==
  /\ m.type = "exec" => m.n \in Ids
  /\ m.type \in {"program", "trajectory", "progress"} => m.n \in 1..MaxMoves
  /\ m.type = "result" => m.n \in 0..MaxMoves

QueuesFit == \A r \in Runs : \A i \in DOMAIN toPage[r] : FitsIn(toPage[r][i])

LinesFit ==
  /\ history \in Seq(Runs \X (1..MaxMoves)) /\ programs \subseteq Runs \X (1..MaxMoves)
  /\ standing \in 0..MaxMoves
  /\ \A r \in Runs : moves[r] \in 0..MaxMoves

CallsFit ==
  /\ DOMAIN jobs \subseteq Ids
  /\ loading \cup said \cup checks \subseteq Calls
  /\ awaits \in Seq([call : Calls, result : {"answer", "error", "killed"}])

(* A search waits for ids it gave and has no answer of. *)
WaitsFit ==
  /\ pending = [r \in Runs |-> pending[r]] /\ awaited = [r \in Runs |-> awaited[r]]
  /\ \A r \in Runs : DOMAIN pending[r] \subseteq 1..serial[r] /\ awaited[r] \subseteq DOMAIN pending[r]

TextFits ==
  /\ status \in {"ready", "running", "finished", "stopped", "error"}
  /\ text \in 0..acts /\ input \in {0, text}
  /\ reads \subseteq [at : 0..revision, text : 1..acts]

\* What a worker posts that fits leaves queues that fit.
LEMMA PostFits ==
  ASSUME Shapes, QueuesFit, NEW r \in Runs, NEW ms \in Seq(Messages),
         \A i \in DOMAIN ms : FitsIn(ms[i]),
         toPage' = [toPage EXCEPT ![r] = toPage[r] \o ms]
  PROVE  QueuesFit'
<1> DEFINE t == toPage[r] \o ms
<1>1. toPage \in [Runs -> Seq(Messages)] /\ toPage[r] \in Seq(Messages)
  BY DEF Shapes
<1>2. \A i \in DOMAIN t : FitsIn(t[i])
  <2> TAKE i \in DOMAIN t
  <2>1. CASE i \in DOMAIN toPage[r]
    <3>1. t[i] = toPage[r][i]
      BY <1>1, <2>1, ConcatIs
    <3> QED BY <2>1, <3>1 DEF QueuesFit
  <2>2. CASE i \notin DOMAIN toPage[r]
    <3>1. i - Len(toPage[r]) \in DOMAIN ms /\ t[i] = ms[i - Len(toPage[r])]
      BY <1>1, <2>2, ConcatIs
    <3> QED BY <3>1
  <2> QED BY <2>1, <2>2
<1> HIDE DEF t
<1>3. \A s \in Runs : toPage'[s] = IF s = r THEN t ELSE toPage[s]
  BY <1>1 DEF t
<1>4. \A s \in Runs : \A i \in DOMAIN toPage'[s] : FitsIn(toPage'[s][i])
  BY <1>2, <1>3 DEF QueuesFit
<1> QED
  BY <1>4 DEF QueuesFit, FitsIn

\* The requests of a search keep to the ids it may give.
LEMMA AskFits ==
  ASSUME Shapes, QueuesFit, NEW r \in Runs, NEW k \in 1..2, NEW timed \in BOOLEAN,
         Ask(r, k, timed)
  PROVE  QueuesFit'
<1> DEFINE ms == [i \in 1..k |-> Exec(serial[r] + i)]
<1>1. serial[r] \in Nat /\ k \in Nat /\ serial[r] + k <= MaxCalls[r] /\ MaxCalls[r] \in Nat
  BY BoundsAssumption DEF Shapes, Ask, BoundsAssumption, Runs
<1>2. \A i \in 1..k : serial[r] + i \in 1..MaxCalls[r] /\ serial[r] + i \in Nat
  BY <1>1
<1>3. \A i \in 1..k : serial[r] + i \in Ids
  BY <1>2 DEF Ids
<1>4. \A i \in 1..k : ms[i] \in Messages /\ FitsIn(ms[i])
  BY <1>2, <1>3 DEF Exec, Messages, FitsIn
<1>5. ms \in Seq(Messages) /\ DOMAIN ms = 1..k
  BY <1>1, <1>4
<1>6. toPage' = [toPage EXCEPT ![r] = toPage[r] \o ms]
  BY DEF Ask, Posts
<1> HIDE DEF ms
<1> QED
  BY <1>4, <1>5, <1>6, PostFits

\* So does all that a search posts.
LEMMA SearchFits ==
  ASSUME Shapes, QueuesFit, LinesFit, SearchStep
  PROVE  QueuesFit'
<1>0. PICK r \in Runs :
        \/ Boot(r)
        \/ \E k \in 1..2, timed \in BOOLEAN : Call(r, k, timed)
        \/ Move(r)
        \/ \E id \in Ids : KillTimer(r, id)
        \/ TakeAnswer(r)
        \/ Settle(r)
        \/ Throw(r)
  BY DEF SearchStep
<1>1. CASE Boot(r)
  <2>1. Ask(r, 1, FALSE)
    BY <1>1 DEF Boot
  <2>2. 1 \in 1..2
    OBVIOUS
  <2> QED BY <2>1, <2>2, AskFits
<1>2. ASSUME NEW k \in 1..2, NEW timed \in BOOLEAN, Call(r, k, timed)
      PROVE  QueuesFit'
  <2>1. Ask(r, k, timed)
    BY <1>2 DEF Call
  <2> QED BY <2>1, AskFits
<1>3. CASE Move(r)
  <2> DEFINE ms == [i \in 1..3 |-> [type |-> <<"program", "trajectory", "progress">>[i],
                                    n    |-> moves[r] + 1]]
  <2>1. moves[r] + 1 \in Nat /\ moves[r] + 1 \in 1..MaxMoves /\ MaxMoves \in Nat
    BY <1>3, BoundsAssumption DEF Shapes, Move, BoundsAssumption
  <2>2. \A i \in 1..3 : ms[i] \in Messages /\ ms[i].n = moves[r] + 1
                        /\ ms[i].type \in {"program", "trajectory", "progress"}
    BY <2>1 DEF Messages
  <2>3. ms \in Seq(Messages) /\ DOMAIN ms = 1..3
    BY <2>2
  <2>4. toPage' = [toPage EXCEPT ![r] = toPage[r] \o ms]
    BY <1>3 DEF Move, Posts
  <2> HIDE DEF ms
  <2>5. \A i \in DOMAIN ms : FitsIn(ms[i])
    BY <2>1, <2>2, <2>3 DEF FitsIn
  <2> QED BY <2>3, <2>4, <2>5, PostFits
<1>4. ASSUME NEW id \in Ids, KillTimer(r, id) PROVE QueuesFit'
  <2> DEFINE ms == <<[type |-> "kill", n |-> id]>>
  <2>1. id \in Nat
    BY BoundsAssumption, CallsAre
  <2>2. ms \in Seq(Messages) /\ \A i \in DOMAIN ms : FitsIn(ms[i])
    BY <2>1 DEF Messages, FitsIn
  <2>3. toPage' = [toPage EXCEPT ![r] = toPage[r] \o ms]
    BY <1>4 DEF KillTimer, Posts
  <2> HIDE DEF ms
  <2> QED BY <2>2, <2>3, PostFits
<1>5. CASE TakeAnswer(r)
  BY <1>5 DEF TakeAnswer, QueuesFit, FitsIn
<1>6. CASE Settle(r)
  <2> DEFINE ms == <<[type |-> "result", n |-> moves[r]]>>
  <2>1. moves[r] \in Nat /\ moves[r] \in 0..MaxMoves
    BY DEF Shapes, LinesFit
  <2>2. ms \in Seq(Messages) /\ \A i \in DOMAIN ms : FitsIn(ms[i])
    BY <2>1 DEF Messages, FitsIn
  <2>3. toPage' = [toPage EXCEPT ![r] = toPage[r] \o ms]
    BY <1>6 DEF Settle, Posts
  <2> HIDE DEF ms
  <2> QED BY <2>2, <2>3, PostFits
<1>7. CASE Throw(r)
  <2> DEFINE ms == <<[type |-> "error"]>>
  <2>1. ms \in Seq(Messages) /\ \A i \in DOMAIN ms : FitsIn(ms[i])
    BY DEF Messages, FitsIn
  <2>2. toPage' = [toPage EXCEPT ![r] = toPage[r] \o ms]
    BY <1>7 DEF Throw, Posts
  <2> HIDE DEF ms
  <2> QED BY <2>1, <2>2, PostFits
<1> QED
  BY <1>0, <1>1, <1>2, <1>3, <1>4, <1>5, <1>6, <1>7

\* And the page only takes what is there.
LEMMA QueuesStep ==
  ASSUME Shapes, QueuesFit, LinesFit, [Next]_vars
  PROVE  QueuesFit'
<1>1. CASE toPage' = toPage
  BY <1>1 DEF QueuesFit, FitsIn
<1>2. ASSUME NEW r \in Runs, Receive(r) PROVE QueuesFit'
  <2> DEFINE t == Tail(toPage[r])
  <2>1. /\ toPage[r] # <<>> /\ toPage[r] \in Seq(Messages)
        /\ toPage' = [toPage EXCEPT ![r] = t]
    BY <1>2, ReceiveIs
  <2>2. \A i \in DOMAIN t : i + 1 \in DOMAIN toPage[r] /\ t[i] = toPage[r][i + 1]
    BY <2>1, TailIs
  <2>3. \A i \in DOMAIN t : FitsIn(t[i])
    BY <2>2 DEF QueuesFit
  <2> HIDE DEF t
  <2>4. \A s \in Runs : toPage'[s] = IF s = r THEN t ELSE toPage[s]
    BY <2>1 DEF Shapes
  <2>5. \A s \in Runs : \A i \in DOMAIN toPage'[s] : FitsIn(toPage'[s][i])
    BY <2>3, <2>4 DEF QueuesFit
  <2> QED BY <2>5 DEF QueuesFit, FitsIn
<1>3. CASE SearchStep
  BY <1>3, SearchFits
<1>4. CASE ToolStep
  BY <1>1, <1>4 DEF ToolStep, Loaded, LoadFails, ToolPosts, ToolReplies, workers
<1>5. CASE PageStep
  BY <1>1, <1>2, <1>5 DEF PageStep, GoOn, Stop, Start, WorkerFails
<1>6. CASE EditorStep
  BY <1>1, <1>6 DEF EditorStep, Edit, Load, ReadEnds, ReadFails
<1>7. CASE ReportStep
  BY <1>1, <1>7 DEF ReportStep, Open, Viewed, Close, Save, Saved, workers
<1>8. CASE UNCHANGED vars
  BY <1>1, <1>8 DEF vars, workers
<1> QED
  BY <1>3, <1>4, <1>5, <1>6, <1>7, <1>8 DEF Next

\* The message the page takes fits.
LEMMA HeadFits ==
  ASSUME Shapes, QueuesFit, NEW r \in Runs, Receive(r)
  PROVE  Head(toPage[r]) \in Messages /\ FitsIn(Head(toPage[r]))
<1>1. toPage[r] # <<>> /\ toPage[r] \in Seq(Messages) /\ Head(toPage[r]) \in Messages
  BY ReceiveIs
<1>2. 1 \in DOMAIN toPage[r] /\ Head(toPage[r]) = toPage[r][1]
  BY <1>1, TailIs
<1> QED
  BY <1>1, <1>2 DEF QueuesFit

\* What is recorded of a run counts moves it made.
LEMMA LinesFitStep ==
  ASSUME Shapes, QueuesFit, LinesFit, [Next]_vars
  PROVE  LinesFit'
<1>0. MaxMoves \in Nat /\ 0 \in 0..MaxMoves
  BY BoundsAssumption DEF BoundsAssumption
<1> DEFINE Recorded == /\ history' \in Seq(Runs \X (1..MaxMoves))
                       /\ programs' \subseteq Runs \X (1..MaxMoves)
                       /\ standing' \in 0..MaxMoves
           Made == \A r \in Runs : moves'[r] \in 0..MaxMoves
<1>1. UNCHANGED <<history, programs, standing>> => Recorded
  BY DEF LinesFit
<1>2. moves' = moves => Made
  BY DEF LinesFit
<1>3. Emptied => Recorded
  <2>1. <<>> \in Seq(Runs \X (1..MaxMoves))
    BY EmptySeq
  <2> QED BY <1>0, <2>1 DEF Emptied
<1>4. CASE Quiet
  BY <1>1, <1>2, <1>4 DEF Quiet, LinesFit
<1>5. ASSUME NEW next, Replace(next), next \in {0, runs + 1} PROVE Made
  <2>1. \A r \in Runs : moves'[r] = IF r = worker THEN 0 ELSE moves[r]
    BY <1>5, ReplaceIs
  <2> QED BY <1>0, <2>1 DEF LinesFit
<1>6. CASE Disposed
  <2>1. Recorded
    BY <1>1, <1>3, <1>6 DEF Disposed
  <2>2. Made
    BY <1>5, <1>6 DEF Disposed, Dispose
  <2> QED BY <2>1, <2>2 DEF LinesFit
<1>7. CASE Start(TRUE)
  <2>1. Recorded
    BY <1>3, <1>7 DEF Start
  <2>2. Made
    BY <1>5, <1>7 DEF Start
  <2> QED BY <2>1, <2>2 DEF LinesFit
<1>8. ASSUME NEW r \in Runs, Receive(r) PROVE LinesFit'
  <2> DEFINE m == Head(toPage[r])
  <2>1. m \in Messages /\ FitsIn(m)
    BY <1>8, HeadFits
  <2> HIDE DEF m
  <2>2. Made
    BY <1>2, <1>5, <1>8 DEF Receive, inside, Fail, Dispose
  <2>3. Recorded
    <3>1. CASE UNCHANGED <<history, programs, standing>>
      BY <1>1, <3>1
    <3>2. CASE m.type = "program" /\ programs' = programs \cup {<<r, m.n>>}
               /\ UNCHANGED <<history, standing>>
      BY <2>1, <3>2 DEF FitsIn, LinesFit
    <3>3. CASE m.type = "trajectory" /\ history' = Append(history, <<r, m.n>>)
               /\ UNCHANGED <<programs, standing>>
      <4>1. <<r, m.n>> \in Runs \X (1..MaxMoves)
        BY <2>1, <3>3 DEF FitsIn
      <4>2. history' \in Seq(Runs \X (1..MaxMoves))
        BY <3>3, <4>1, AppendProperties DEF LinesFit
      <4> QED BY <3>3, <4>2 DEF LinesFit
    <3>4. CASE m.type \in {"progress", "result"} /\ standing' \in {m.n, standing}
               /\ UNCHANGED <<history, programs>>
      <4>1. m.n \in 0..MaxMoves
        BY <1>0, <2>1, <3>4 DEF FitsIn
      <4> QED BY <3>4, <4>1 DEF LinesFit
    <3> QED BY <1>8, <3>1, <3>2, <3>3, <3>4 DEF Receive, session, Kept, Fail, m
  <2> QED BY <2>2, <2>3 DEF LinesFit
<1>9. CASE SearchStep
  <2>1. Recorded
    BY <1>1, <1>9 DEF SearchStep, Boot, Call, Move, KillTimer, TakeAnswer, Settle, Throw, session
  <2>2. Made
    <3>1. CASE moves' = moves
      BY <1>2, <3>1
    <3>2. ASSUME NEW r \in Runs, Move(r) PROVE Made
      <4>1. moves[r] < MaxMoves /\ moves' = [moves EXCEPT ![r] = moves[r] + 1]
        BY <3>2 DEF Move
      <4>2. moves[r] + 1 \in 0..MaxMoves /\ moves \in [Runs -> Nat]
        BY <1>0, <4>1 DEF Shapes
      <4> QED BY <4>1, <4>2 DEF LinesFit
    <3> QED BY <1>9, <3>1, <3>2
            DEF SearchStep, Boot, Call, KillTimer, TakeAnswer, Settle, Throw
  <2> QED BY <2>1, <2>2 DEF LinesFit
<1>10. CASE UNCHANGED <<history, programs, standing, moves>>
  BY <1>1, <1>2, <1>10 DEF LinesFit
<1>11. ASSUME ~SearchStep
       PROVE  \/ Quiet \/ Disposed \/ Start(TRUE) \/ (\E r \in Runs : Receive(r))
              \/ UNCHANGED <<history, programs, standing, moves>>
  <2> USE DEF Quiet, Disposed
  <2>1. CASE ToolStep
    BY <2>1 DEF ToolStep, Loaded, LoadFails, ToolPosts, ToolReplies, session, workers, inside
  <2>2. CASE PageStep
    <3>1. CASE GoOn
      BY <3>1 DEF GoOn
    <3>2. CASE Stop
      BY <3>2 DEF Stop, Kept
    <3>3. CASE Start(FALSE)
      BY <3>3 DEF Start
    <3>4. CASE WorkerFails
      BY <3>4 DEF WorkerFails, Fail, Kept
    <3> QED BY <2>2, <3>1, <3>2, <3>3, <3>4 DEF PageStep
  <2>3. CASE EditorStep
    <3>1. CASE Edit
      BY <3>1 DEF Edit, Change
    <3>2. ASSUME NEW fits \in BOOLEAN, Load(fits) PROVE Quiet \/ Disposed
      BY <3>2 DEF Load, Fail, Kept, session, inside
    <3>3. ASSUME NEW f \in reads, ReadEnds(f) PROVE Quiet \/ Disposed
      BY <3>3 DEF ReadEnds, Change, session, inside
    <3>4. ASSUME NEW f \in reads, ReadFails(f) PROVE Quiet \/ Disposed
      BY <3>4 DEF ReadFails, Fail, Kept, session, inside
    <3> QED BY <2>3, <3>1, <3>2, <3>3, <3>4 DEF EditorStep
  <2>4. CASE ReportStep
    BY <2>4 DEF ReportStep, Open, Viewed, Close, Save, Saved, session, workers, inside
  <2>5. CASE UNCHANGED vars
    BY <2>5 DEF vars, session, workers, inside
  <2> QED BY <1>11, <2>1, <2>2, <2>3, <2>4, <2>5 DEF Next
<1> QED
  BY <1>4, <1>6, <1>7, <1>8, <1>9, <1>10, <1>11

(* What the page goes on with: a call, and what came of it. *)
Awaited == [call : Calls, result : {"answer", "error", "killed"}]

(* The page's jobs and the calls it goes on with, of the calls there may be. *)
JobsFit == DOMAIN jobs \subseteq Ids /\ awaits \in Seq(Awaited)

\* A job that ends is one of a call there may be ...
LEMMA CloseFits ==
  ASSUME JobsFit, NEW call \in Calls, NEW result \in {"answer", "error", "killed"},
         CloseJob(call, result)
  PROVE  JobsFit'
<1>1. Settled(call, result) \in Awaited
  BY DEF Settled, Awaited
<1>2. awaits' = Append(awaits, Settled(call, result)) /\ DOMAIN jobs' \subseteq DOMAIN jobs
  BY DEF CloseJob
<1>3. awaits' \in Seq(Awaited)
  BY <1>1, <1>2 DEF JobsFit
<1> QED
  BY <1>2, <1>3 DEF JobsFit, Awaited

\* ... and so is each that a kill or the end of the worker ends.
LEMMA EndsFit ==
  ASSUME JobsFit, JobsOfWorker, CancelJobs \/ \E id : KillJob(id)
  PROVE  JobsFit'
<1>1. \A id \in DOMAIN jobs : id \in Ids /\ jobs[id] \in Runs
  BY DEF JobsFit, JobsOfWorker
<1>2. CASE CancelJobs
  <2> DEFINE T == {Settled(<<jobs[id], id>>, "killed") : id \in DOMAIN jobs}
             f == [id \in DOMAIN jobs |-> Settled(<<jobs[id], id>>, "killed")]
  <2>1. f \in Surjection(DOMAIN jobs, T)
    BY DEF Surjection
  <2>2. IsFiniteSet(T)
    <3> HIDE DEF T, f
    <3> QED BY <2>1, FS_Surjection DEF JobsOfWorker
  <2>3. T \subseteq Awaited
    BY <1>1 DEF Settled, Awaited, Calls
  <2>4. SetToSeq(T) \in Seq(T) /\ awaits' = awaits \o SetToSeq(T)
    BY <1>2, <2>2, SetToSeqIs DEF CancelJobs
  <2> HIDE DEF T
  <2>5. awaits' \in Seq(Awaited)
    <3>1. SetToSeq(T) \in Seq(Awaited) /\ awaits \in Seq(Awaited)
      BY <2>3, <2>4 DEF JobsFit
    <3> QED BY <2>4, <3>1
  <2>6. DOMAIN jobs' = {}
    BY <1>2 DEF CancelJobs
  <2> QED BY <2>5, <2>6 DEF JobsFit, Awaited
<1>3. ASSUME NEW id, KillJob(id) PROVE JobsFit'
  <2>1. CASE id \in DOMAIN jobs
    <3>1. <<jobs[id], id>> \in Calls
      BY <1>1, <2>1 DEF Calls
    <3>2. CloseJob(<<jobs[id], id>>, "killed")
      BY <1>3, <2>1 DEF KillJob
    <3> QED BY <3>1, <3>2, CloseFits
  <2>2. CASE id \notin DOMAIN jobs
    BY <1>3, <2>2 DEF KillJob, JobsFit, Awaited
  <2> QED BY <2>1, <2>2
<1> QED
  BY <1>2, <1>3

\* A call the page is asked to make is one there may be.
LEMMA ExecuteFits ==
  ASSUME JobsFit, NEW call \in Calls, Execute(call)
  PROVE  JobsFit' /\ loading' \subseteq loading \cup {call}
<1>1. CASE call[2] \in DOMAIN jobs
  <2>1. Settled(call, "error") \in Awaited
    BY DEF Settled, Awaited
  <2>2. awaits' = Append(awaits, Settled(call, "error")) /\ UNCHANGED <<jobs, loading>>
    BY <1>1 DEF Execute
  <2>3. awaits' \in Seq(Awaited)
    BY <2>1, <2>2 DEF JobsFit
  <2> QED BY <2>2, <2>3 DEF JobsFit, Awaited
<1>2. CASE call[2] \notin DOMAIN jobs
  <2>1. call[2] \in Ids
    BY DEF Calls
  <2>2. /\ DOMAIN jobs' = DOMAIN jobs \cup {call[2]} /\ UNCHANGED awaits
        /\ loading' = loading \cup {call}
    BY <1>2 DEF Execute
  <2> QED BY <2>1, <2>2 DEF JobsFit, Awaited
<1> QED
  BY <1>1, <1>2

\* What is downloaded, posted and shown is of a call there may be.
LEMMA CallsFitStep ==
  ASSUME Shapes, JobsOfWorker, QueuesFit, CallsFit, [Next]_vars
  PROVE  CallsFit'
<1>0. JobsFit
  BY DEF CallsFit, JobsFit, Awaited
<1> DEFINE Shown == loading' \cup said' \cup checks' \subseteq Calls
<1>1. ASSUME JobsFit', Shown PROVE CallsFit'
  BY <1>1 DEF CallsFit, JobsFit, Awaited
<1>2. ASSUME UNCHANGED <<jobs, awaits>> PROVE JobsFit'
  BY <1>0, <1>2 DEF JobsFit, Awaited
<1>3. ASSUME UNCHANGED <<loading, said>>, checks' \in {checks, {}} PROVE Shown
  BY <1>3 DEF CallsFit
<1>4. ASSUME CancelJobs, UNCHANGED <<loading, said>>, checks' \in {checks, {}} PROVE CallsFit'
  BY <1>0, <1>1, <1>3, <1>4, EndsFit
<1>5. ASSUME UNCHANGED <<jobs, awaits, loading, said, checks>> PROVE CallsFit'
  BY <1>1, <1>2, <1>3, <1>5
<1>6. CASE ToolStep
  <2>1. ASSUME NEW c \in Calls, Loaded(c) \/ LoadFails(c) \/ ToolPosts(c) PROVE Shown
    BY <2>1 DEF Loaded, LoadFails, ToolPosts, session, CallsFit
  <2>2. ASSUME NEW c \in Calls, NEW result \in {"answer", "error"}, ToolReplies(c, result)
        PROVE  Shown
    BY <2>2 DEF ToolReplies, CallsFit
  <2>3. ASSUME NEW c \in Calls, NEW result \in {"answer", "error"},
               IF Active(c) THEN CloseJob(c, result) ELSE UNCHANGED <<jobs, tools, awaits>>
        PROVE  JobsFit'
    BY <1>0, <1>2, <2>3, CloseFits
  <2>4. ASSUME NEW c \in Calls, Loaded(c) \/ ToolPosts(c) PROVE JobsFit'
    BY <1>2, <2>4 DEF Loaded, ToolPosts, session
  <2>5. ASSUME NEW c \in Calls, LoadFails(c) PROVE JobsFit'
    BY <2>3, <2>5 DEF LoadFails
  <2>6. ASSUME NEW c \in Calls, NEW result \in {"answer", "error"}, ToolReplies(c, result)
        PROVE  JobsFit'
    BY <2>3, <2>6 DEF ToolReplies
  <2> QED BY <1>1, <1>6, <2>1, <2>2, <2>4, <2>5, <2>6 DEF ToolStep
<1>7. CASE GoOn
  <2>1. awaits # <<>> /\ awaits \in Seq(Awaited) /\ awaits' = Tail(awaits)
    BY <1>0, <1>7 DEF GoOn, JobsFit
  <2>2. Head(awaits) \in Awaited /\ awaits' \in Seq(Awaited)
    BY <2>1, TailIs
  <2>3. JobsFit'
    BY <1>0, <1>7, <2>2 DEF GoOn, runtime, JobsFit, Awaited
  <2>4. Head(awaits).call \in Calls
    BY <2>2 DEF Awaited
  <2>5. UNCHANGED <<loading, said>> /\ checks' \subseteq checks \cup {Head(awaits).call}
    BY <1>7 DEF GoOn, runtime
  <2>6. Shown
    BY <2>4, <2>5 DEF CallsFit
  <2> QED BY <1>1, <2>3, <2>6
<1>8. CASE Stop
  BY <1>4, <1>8 DEF Stop, Dispose, Replace, Kept
<1>9. ASSUME NEW fits \in BOOLEAN, Start(fits) PROVE CallsFit'
  BY <1>4, <1>9 DEF Start, Dispose, Replace, Emptied
<1>10. ASSUME NEW r \in Runs, Receive(r) PROVE CallsFit'
  <2> DEFINE m == Head(toPage[r])
  <2>1. m \in Messages /\ FitsIn(m)
    BY <1>10, HeadFits
  <2> HIDE DEF m
  <2>2. CASE UNCHANGED <<jobs, awaits, loading, checks>>
    BY <1>5, <1>10, <2>2 DEF Receive
  <2>3. CASE m.type = "exec" /\ Execute(<<r, m.n>>) /\ UNCHANGED checks
    <3>1. <<r, m.n>> \in Calls
      BY <2>1, <2>3 DEF FitsIn, Calls
    <3>2. JobsFit' /\ loading' \subseteq loading \cup {<<r, m.n>>}
      BY <1>0, <2>3, <3>1, ExecuteFits
    <3>3. said' = said
      BY <1>10 DEF Receive
    <3>4. Shown
      BY <2>3, <3>1, <3>2, <3>3 DEF CallsFit
    <3> QED BY <1>1, <3>2, <3>4
  <2>4. CASE KillJob(m.n) /\ UNCHANGED <<checks, loading>>
    <3>1. JobsFit'
      BY <1>0, <2>4, EndsFit
    <3>2. said' = said
      BY <1>10 DEF Receive
    <3> QED BY <1>1, <1>3, <2>4, <3>1, <3>2
  <2>5. CASE Fail /\ UNCHANGED loading
    <3>1. said' = said
      BY <1>10 DEF Receive
    <3> QED BY <1>4, <2>5, <3>1 DEF Fail, Dispose, Replace, Kept
  <2> QED BY <1>10, <2>2, <2>3, <2>4, <2>5 DEF Receive, session, Kept, m
<1>11. CASE SearchStep
  BY <1>5, <1>11
     DEF SearchStep, Boot, Call, Move, KillTimer, TakeAnswer, Settle, Throw, session, runtime
<1>12. CASE EditorStep
  <2>1. CASE Edit
    BY <1>4, <2>1 DEF Edit, Change, Dispose, Replace, Emptied
  <2>2. ASSUME NEW fits \in BOOLEAN, Load(fits) PROVE CallsFit'
    BY <1>4, <1>5, <2>2 DEF Load, Fail, Dispose, Replace, Kept, session
  <2>3. ASSUME NEW f \in reads, ReadEnds(f) PROVE CallsFit'
    BY <1>4, <1>5, <2>3 DEF ReadEnds, Change, Dispose, Replace, Emptied, session
  <2>4. ASSUME NEW f \in reads, ReadFails(f) PROVE CallsFit'
    BY <1>4, <1>5, <2>4 DEF ReadFails, Fail, Dispose, Replace, Kept, session
  <2> QED BY <1>12, <2>1, <2>2, <2>3, <2>4 DEF EditorStep
<1>13. CASE ReportStep
  BY <1>5, <1>13 DEF ReportStep, Open, Viewed, Close, Save, Saved, session, runtime
<1>14. CASE UNCHANGED vars
  BY <1>5, <1>14 DEF vars, session, runtime
<1>15. CASE WorkerFails
  BY <1>4, <1>15 DEF WorkerFails, Fail, Dispose, Replace, Kept
<1> QED
  BY <1>6, <1>7, <1>8, <1>9, <1>10, <1>11, <1>12, <1>13, <1>14, <1>15 DEF Next, PageStep

\* A search waits for ids it gave and has no answer of, whatever it asks, takes or kills.
LEMMA WaitsFitStep ==
  ASSUME Shapes, WaitsFit, [Next]_vars
  PROVE  WaitsFit'
<1> DEFINE Waits(P, A, S) ==
             /\ P = [r \in Runs |-> P[r]] /\ A = [r \in Runs |-> A[r]]
             /\ \A r \in Runs : DOMAIN P[r] \subseteq 1..S[r] /\ A[r] \subseteq DOMAIN P[r]
<1>0. Waits(pending, awaited, serial)
  BY DEF WaitsFit
<1>1. SUFFICES Waits(pending', awaited', serial')
  BY DEF WaitsFit
<1>2. ASSUME UNCHANGED <<pending, awaited, serial>>
      PROVE  Waits(pending', awaited', serial')
  BY <1>0, <1>2
<1>3. ASSUME NEW next, Replace(next) PROVE Waits(pending', awaited', serial')
  <2>1. /\ pending' = [r \in Runs |-> IF r = worker THEN <<>> ELSE pending[r]]
        /\ awaited' = [r \in Runs |-> IF r = worker THEN {} ELSE awaited[r]]
        /\ serial'  = [r \in Runs |-> IF r = worker THEN 0 ELSE serial[r]]
    BY <1>3 DEF Replace, Forgotten
  <2>2. ASSUME NEW r \in Runs
        PROVE  DOMAIN pending'[r] \subseteq 1..serial'[r] /\ awaited'[r] \subseteq DOMAIN pending'[r]
    <3>1. CASE r = worker
      <4>1. pending'[r] = <<>> /\ awaited'[r] = {}
        BY <2>1, <3>1
      <4> QED BY <4>1
    <3>2. CASE r # worker
      <4>1. pending'[r] = pending[r] /\ awaited'[r] = awaited[r] /\ serial'[r] = serial[r]
        BY <2>1, <3>2
      <4> QED BY <1>0, <4>1
    <3> QED BY <3>1, <3>2
  <2>3. pending' = [r \in Runs |-> pending'[r]] /\ awaited' = [r \in Runs |-> awaited'[r]]
    BY <2>1
  <2> QED BY <2>2, <2>3
<1>4. ASSUME NEW r \in Runs, NEW p, NEW a, NEW n,
             pending' = [pending EXCEPT ![r] = p], awaited' = [awaited EXCEPT ![r] = a],
             serial' = [serial EXCEPT ![r] = n],
             DOMAIN p \subseteq 1..n, a \subseteq DOMAIN p
      PROVE  Waits(pending', awaited', serial')
  <2>1. serial = [s \in Runs |-> serial[s]]
    BY DEF Shapes
  <2>2. \A s \in Runs : /\ pending'[s] = IF s = r THEN p ELSE pending[s]
                        /\ awaited'[s] = IF s = r THEN a ELSE awaited[s]
                        /\ serial'[s] = IF s = r THEN n ELSE serial[s]
    BY <1>0, <1>4, <2>1
  <2>3. pending' = [s \in Runs |-> pending'[s]] /\ awaited' = [s \in Runs |-> awaited'[s]]
    BY <1>0, <1>4
  <2>4. ASSUME NEW s \in Runs
        PROVE  DOMAIN pending'[s] \subseteq 1..serial'[s] /\ awaited'[s] \subseteq DOMAIN pending'[s]
    BY <1>0, <1>4, <2>2
  <2> QED BY <2>3, <2>4
<1>5. ASSUME NEW r \in Runs, NEW k \in 1..2, NEW timed, Ask(r, k, timed)
      PROVE  Waits(pending', awaited', serial')
  <2> DEFINE ids == serial[r] + 1 .. serial[r] + k
             p == [id \in DOMAIN pending[r] \cup ids |->
                     IF id \notin ids THEN pending[r][id] ELSE IF timed THEN "timed" ELSE "bare"]
  <2>1. /\ pending' = [pending EXCEPT ![r] = p] /\ awaited' = [awaited EXCEPT ![r] = ids]
        /\ serial' = [serial EXCEPT ![r] = serial[r] + k]
    BY <1>5 DEF Ask
  <2>2. DOMAIN p = DOMAIN pending[r] \cup ids
    OBVIOUS
  <2>3. serial[r] \in Nat /\ ids \subseteq 1..(serial[r] + k) /\ 1..serial[r] \subseteq 1..(serial[r] + k)
    BY DEF Shapes
  <2> HIDE DEF ids, p
  <2>4. DOMAIN p \subseteq 1..(serial[r] + k) /\ ids \subseteq DOMAIN p
    BY <1>0, <2>2, <2>3
  <2> QED BY <1>4, <2>1, <2>4
<1>6. serial = [serial EXCEPT ![worker] = serial[worker]]
      /\ \A r \in Runs : /\ serial = [serial EXCEPT ![r] = serial[r]]
                         /\ awaited = [awaited EXCEPT ![r] = awaited[r]]
  BY <1>0 DEF Shapes
<1>7. ASSUME NEW r \in Runs, NEW id \in Ids, KillTimer(r, id)
      PROVE  Waits(pending', awaited', serial')
  <2> DEFINE p == [pending[r] EXCEPT ![id] = "killed"]
  <2>1. pending' = [pending EXCEPT ![r] = p] /\ UNCHANGED <<awaited, serial>>
    BY <1>0, <1>7 DEF KillTimer
  <2>2. DOMAIN p = DOMAIN pending[r]
    OBVIOUS
  <2> HIDE DEF p
  <2> QED BY <1>0, <1>4, <1>6, <2>1, <2>2
<1>8. ASSUME NEW r \in Runs, TakeAnswer(r)
      PROVE  Waits(pending', awaited', serial')
  <2> DEFINE m == Head(toWorker[r])
             p == [id \in DOMAIN pending[r] \ {m.n} |-> pending[r][id]]
             a == WaitsAfter(awaited[r], m)
  <2>1. /\ pending' = [pending EXCEPT ![r] = p] /\ awaited' = [awaited EXCEPT ![r] = a]
        /\ serial' = serial
    BY <1>8 DEF TakeAnswer
  <2>2. DOMAIN p = DOMAIN pending[r] \ {m.n}
    OBVIOUS
  <2>3. a \subseteq awaited[r] \ {m.n}
    BY DEF WaitsAfter
  <2> HIDE DEF p, a, m
  <2>4. DOMAIN p \subseteq 1..serial[r] /\ a \subseteq DOMAIN p
    BY <1>0, <2>2, <2>3
  <2> QED BY <1>4, <1>6, <2>1, <2>4
<1> HIDE DEF Waits
<1>9. CASE SearchStep
  <2>1. PICK r \in Runs :
          \/ Boot(r)
          \/ \E k \in 1..2, timed \in BOOLEAN : Call(r, k, timed)
          \/ Move(r)
          \/ \E id \in Ids : KillTimer(r, id)
          \/ TakeAnswer(r)
          \/ Settle(r)
          \/ Throw(r)
    BY <1>9 DEF SearchStep
  <2>2. 1 \in 1..2
    OBVIOUS
  <2>3. CASE Boot(r)
    BY <1>5, <2>2, <2>3 DEF Boot
  <2>4. CASE \E k \in 1..2, timed \in BOOLEAN : Call(r, k, timed)
    BY <1>5, <2>4 DEF Call
  <2> QED BY <1>2, <1>7, <1>8, <2>1, <2>3, <2>4 DEF Move, Settle, Throw
<1>10. CASE ToolStep
  BY <1>2, <1>10 DEF ToolStep, Loaded, LoadFails, ToolPosts, ToolReplies, workers, inside
<1>11. CASE PageStep
  <2>1. CASE GoOn
    BY <1>2, <2>1 DEF GoOn
  <2>2. CASE Stop
    BY <1>3, <2>2 DEF Stop, Dispose
  <2>3. ASSUME NEW fits \in BOOLEAN, Start(fits) PROVE \E next : Replace(next)
    BY <2>3 DEF Start, Dispose
  <2>4. ASSUME NEW r \in Runs, Receive(r)
        PROVE  UNCHANGED <<pending, awaited, serial>> \/ Replace(0)
    BY <2>4 DEF Receive, inside, Fail, Dispose
  <2>5. CASE WorkerFails
    BY <1>3, <2>5 DEF WorkerFails, Fail, Dispose
  <2> QED BY <1>2, <1>3, <1>11, <2>1, <2>2, <2>3, <2>4, <2>5 DEF PageStep
<1>12. CASE EditorStep
  <2>1. CASE Edit
    BY <1>3, <2>1 DEF Edit, Change, Dispose
  <2>2. ASSUME NEW fits \in BOOLEAN, Load(fits)
        PROVE  UNCHANGED <<pending, awaited, serial>> \/ Replace(0)
    BY <2>2 DEF Load, Fail, Dispose, inside
  <2>3. ASSUME NEW f \in reads, ReadEnds(f)
        PROVE  UNCHANGED <<pending, awaited, serial>> \/ Replace(0)
    BY <2>3 DEF ReadEnds, Change, Dispose, inside
  <2>4. ASSUME NEW f \in reads, ReadFails(f)
        PROVE  UNCHANGED <<pending, awaited, serial>> \/ Replace(0)
    BY <2>4 DEF ReadFails, Fail, Dispose, inside
  <2> QED BY <1>2, <1>3, <1>12, <2>1, <2>2, <2>3, <2>4 DEF EditorStep
<1>13. CASE ReportStep
  BY <1>2, <1>13 DEF ReportStep, Open, Viewed, Close, Save, Saved, workers, inside
<1>14. CASE UNCHANGED vars
  BY <1>2, <1>14 DEF vars, workers, inside
<1> QED
  BY <1>9, <1>10, <1>11, <1>12, <1>13, <1>14 DEF Next

\* What the editor shows is of an act there was, and what was recorded is of it or of nothing.
LEMMA TextFitsStep ==
  ASSUME Shapes, TextFits, [Next]_vars
  PROVE  TextFits'
<1> DEFINE Says == status' \in {"ready", "running", "finished", "stopped", "error"}
<1>0. acts \in Nat /\ revision \in Nat
  BY DEF Shapes
<1>1. ASSUME Says, UNCHANGED editor, input' \in {input, text} PROVE TextFits'
  BY <1>1 DEF TextFits, editor
<1>2. ASSUME UNCHANGED <<session, editor>> PROVE TextFits'
  BY <1>2 DEF TextFits, session, editor
<1>3. ASSUME NEW t \in 0..acts', Change(t), reads' \subseteq reads, acts' \in {acts, acts + 1}
      PROVE  TextFits'
  <2>1. text' = t /\ input' = 0 /\ status' = "ready" /\ revision' = revision + 1
    BY <1>3 DEF Change
  <2>2. 0..revision \subseteq 0..revision' /\ 1..acts \subseteq 1..acts'
    BY <1>0, <1>3, <2>1
  <2>3. reads' \subseteq [at : 0..revision', text : 1..acts']
    BY <1>3, <2>2 DEF TextFits
  <2> QED BY <1>3, <2>1, <2>3 DEF TextFits
<1>4. CASE ToolStep
  BY <1>1, <1>4
     DEF ToolStep, Loaded, LoadFails, ToolPosts, ToolReplies, session, TextFits
<1>5. CASE PageStep
  <2>1. CASE GoOn
    BY <1>1, <2>1 DEF GoOn, TextFits
  <2>2. CASE Stop
    BY <1>1, <2>2 DEF Stop, Kept
  <2>3. CASE Start(TRUE)
    <3>1. /\ input' = text /\ text' = text /\ reads' = reads /\ status' = "running"
          /\ revision' = revision + 1 /\ acts' = acts + 1
      BY <2>3 DEF Start, UserActs
    <3>2. 0..revision \subseteq 0..revision' /\ 1..acts \subseteq 1..acts' /\ 0..acts \subseteq 0..acts'
      BY <1>0, <3>1
    <3>3. reads' \subseteq [at : 0..revision', text : 1..acts']
      BY <3>1, <3>2 DEF TextFits
    <3> QED BY <3>1, <3>2, <3>3 DEF TextFits
  <2>4. CASE Start(FALSE)
    BY <1>1, <2>4 DEF Start, editor
  <2>5. ASSUME NEW r \in Runs, Receive(r) PROVE TextFits'
    BY <1>1, <2>5 DEF Receive, session, Kept, Fail, TextFits
  <2>6. CASE WorkerFails
    BY <1>1, <2>6 DEF WorkerFails, Fail, Kept
  <2> QED BY <1>5, <2>1, <2>2, <2>3, <2>4, <2>5, <2>6 DEF PageStep
<1>6. CASE SearchStep
  BY <1>2, <1>6 DEF SearchStep, Boot, Call, Move, KillTimer, TakeAnswer, Settle, Throw
<1>7. CASE EditorStep
  <2>1. CASE Edit
    <3>1. acts' = acts + 1 /\ Change(acts') /\ reads' = reads
      BY <2>1 DEF Edit, UserActs
    <3>2. acts' \in 0..acts'
      BY <1>0, <3>1
    <3> QED BY <1>3, <3>1, <3>2
  <2>2. ASSUME NEW fits \in BOOLEAN, Load(fits) PROVE TextFits'
    <3>1. acts' = acts + 1 /\ revision' = revision + 1 /\ text' = text /\ input' = input
          /\ status' \in {status, "error"}
      BY <2>2 DEF Load, UserActs, Fail, Kept, session
    <3>2. 0..revision \subseteq 0..revision' /\ 1..acts \subseteq 1..acts' /\ 0..acts \subseteq 0..acts'
          /\ revision' \in 0..revision' /\ acts' \in 1..acts'
      BY <1>0, <3>1
    <3>3. reads' \subseteq reads \cup {[at |-> revision', text |-> acts']}
      BY <2>2 DEF Load
    <3>4. reads' \subseteq [at : 0..revision', text : 1..acts']
      BY <3>2, <3>3 DEF TextFits
    <3> QED BY <3>1, <3>2, <3>4 DEF TextFits
  <2>3. ASSUME NEW f \in reads, ReadEnds(f) PROVE TextFits'
    <3>1. reads' = reads \ {f} /\ acts' = acts /\ f.text \in 0..acts
      BY <1>0, <2>3 DEF ReadEnds, TextFits
    <3>2. CASE Change(f.text)
      BY <1>3, <3>1, <3>2
    <3>3. CASE UNCHANGED <<session, text, revision>>
      BY <3>1, <3>3 DEF TextFits, session
    <3> QED BY <2>3, <3>2, <3>3 DEF ReadEnds
  <2>4. ASSUME NEW f \in reads, ReadFails(f) PROVE TextFits'
    <3>1. reads' = reads \ {f} /\ UNCHANGED <<acts, text, revision, input>>
          /\ status' \in {status, "error"}
      BY <2>4 DEF ReadFails, Fail, Kept, session
    <3> QED BY <3>1 DEF TextFits
  <2> QED BY <1>7, <2>1, <2>2, <2>3, <2>4 DEF EditorStep
<1>8. CASE ReportStep
  BY <1>2, <1>8 DEF ReportStep, Open, Viewed, Close, Save, Saved
<1>9. CASE UNCHANGED vars
  BY <1>2, <1>9 DEF vars
<1> QED
  BY <1>4, <1>5, <1>6, <1>7, <1>8, <1>9 DEF Next

(* Every variable in its range. *)
InRange == QueuesFit /\ LinesFit /\ CallsFit /\ WaitsFit /\ TextFits

\* A page keeps to its ranges: it knows calls a search may have made and moves it may have
\* made, a search waits for ids it gave and has no answer of, and a read that is under way is
\* of an act there was (session.ts receive, runtime.ts execute, alive-simple.worker.ts).
THEOREM PageTyped == Spec => []TypeOK
<1>1. Init => InRange
  <2> SUFFICES ASSUME Init PROVE InRange
    OBVIOUS
  <2>1. MaxMoves \in Nat /\ 0 \in 0..MaxMoves
    BY BoundsAssumption DEF BoundsAssumption
  <2>2. <<>> \in Seq(Runs \X (1..MaxMoves))
        /\ <<>> \in Seq([call : Calls, result : {"answer", "error", "killed"}])
    BY EmptySeq
  <2>3. QueuesFit
    BY DEF Init, QueuesFit
  <2>4. LinesFit
    BY <2>1, <2>2 DEF Init, LinesFit
  <2>5. CallsFit
    BY <2>2 DEF Init, CallsFit
  <2>6. WaitsFit
    BY DEF Init, WaitsFit
  <2>7. TextFits
    BY DEF Init, TextFits
  <2> QED BY <2>3, <2>4, <2>5, <2>6, <2>7 DEF InRange
<1>2. PageInv /\ InRange /\ [Next]_vars => InRange'
  BY QueuesStep, LinesFitStep, CallsFitStep, WaitsFitStep, TextFitsStep
     DEF PageInv, InRange
<1>3. PageInv /\ InRange => TypeOK
  <2> SUFFICES ASSUME PageInv, InRange PROVE TypeOK
    OBVIOUS
  <2>1. worker \in {0, runs} /\ runs \in 0..MaxRuns
    BY BoundsAssumption DEF PageInv, Shapes, BoundsAssumption
  <2>2. /\ DOMAIN jobs \subseteq Ids /\ \A id \in DOMAIN jobs : jobs[id] \in Runs
        /\ loading \cup tools \cup said \subseteq Calls /\ checks \subseteq Calls
    <3>1. tools \subseteq Calls
      <4> SUFFICES ASSUME NEW c \in tools PROVE c \in Calls
        OBVIOUS
      <4>1. c \in Runs \X Nat /\ c[2] \in DOMAIN jobs
        BY DEF PageInv, JobsOfWorker
      <4>2. c[2] \in Ids
        BY <4>1 DEF InRange, CallsFit
      <4> QED BY <4>1, <4>2 DEF Calls
    <3> QED BY <3>1 DEF PageInv, JobsOfWorker, InRange, CallsFit
  <2>3. /\ history \in Seq(Runs \X (1..MaxMoves)) /\ programs \subseteq Runs \X (1..MaxMoves)
        /\ standing \in 0..MaxMoves
    BY DEF InRange, LinesFit
  <2>4. \A r \in Runs : DOMAIN pending[r] \subseteq 1..serial[r] /\ awaited[r] \subseteq DOMAIN pending[r]
    BY DEF InRange, WaitsFit
  <2>5. /\ status \in {"ready", "running", "finished", "stopped", "error"}
        /\ text \in 0..acts /\ input \in {0, text}
        /\ reads \subseteq [at : 0..revision, text : 1..acts]
    BY DEF InRange, TextFits
  <2> QED BY <2>1, <2>2, <2>3, <2>4, <2>5 DEF TypeOK
<1> QED
  BY <1>1, <1>2, <1>3, PageInvHolds, PTL DEF Spec

=============================================================================
