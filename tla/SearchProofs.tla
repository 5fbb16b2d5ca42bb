----------------------------- MODULE SearchProofs -----------------------------
(***************************************************************************)
(* What a search keeps of its agenda and of the session's goals, whatever  *)
(* the checker answers, the moves goals are offered and their quotas.  And  *)
(* what the facts it states of a goal's inputs say.                         *)
(***************************************************************************)
EXTENDS Search, Facts, GoalTreeProofs, FlattenProofs, FiniteSetTheorems

-----------------------------------------------------------------------------
(* Sequences.                                                              *)

\* What a sequence of sequences put end to end comes to, for those a split leaves: for one ...
LEMMA FlattenOne ==
  ASSUME NEW x
  PROVE  FlattenSeq(<<x>>) = x
<1> DEFINE s == <<x>>
           h == <<x>>
           Is(f) == f = [i \in 1..Len(s) |-> IF i = 1 THEN s[i] ELSE f[i - 1] \o s[i]]
<1>1. Len(s) = 1 /\ s[1] = x
  OBVIOUS
<1>2. FlattenSeq(s) = (CHOOSE f : Is(f))[Len(s)]
  BY <1>1 DEF FlattenSeq
<1>3. Is(h)
  BY <1>1
<1>4. Is(CHOOSE f : Is(f))
  BY <1>3
<1> QED
  BY <1>1, <1>2, <1>4

\* ... for two ...
LEMMA FlattenTwo ==
  ASSUME NEW x, NEW y
  PROVE  FlattenSeq(<<x, y>>) = x \o y
<1> DEFINE s == <<x, y>>
           h == <<x, x \o y>>
           Is(f) == f = [i \in 1..Len(s) |-> IF i = 1 THEN s[i] ELSE f[i - 1] \o s[i]]
<1>1. Len(s) = 2 /\ s[1] = x /\ s[2] = y
  OBVIOUS
<1>2. FlattenSeq(s) = (CHOOSE f : Is(f))[Len(s)]
  BY <1>1 DEF FlattenSeq
<1>3. Is(h)
  <2>1. \A i \in 1..2 : h[i] = IF i = 1 THEN s[i] ELSE h[i - 1] \o s[i]
    <3>1. h[1] = x /\ h[2] = x \o y
      OBVIOUS
    <3> HIDE DEF h, s
    <3>2. ASSUME NEW i \in 1..2 PROVE h[i] = IF i = 1 THEN s[i] ELSE h[i - 1] \o s[i]
      <4>1. CASE i = 1
        BY <1>1, <3>1, <4>1
      <4>2. CASE i = 2
        <5>1. i - 1 = 1 /\ i # 1
          BY <4>2
        <5>2. h[i - 1] = x /\ s[i] = y /\ h[i] = x \o y
          BY <1>1, <3>1, <4>2, <5>1
        <5> QED BY <5>1, <5>2
      <4> QED BY <4>1, <4>2
    <3> QED BY <3>2
  <2>2. h = [i \in 1..2 |-> h[i]]
    OBVIOUS
  <2> HIDE DEF h, s
  <2> QED BY <1>1, <2>1, <2>2
<1>4. Is(CHOOSE f : Is(f))
  <2> HIDE DEF Is
  <2> QED BY <1>3
<1>5. ASSUME NEW f, Is(f) PROVE f[2] = x \o y
  <2>1. \A i \in 1..2 : f[i] = IF i = 1 THEN s[i] ELSE f[i - 1] \o s[i]
    BY <1>1, <1>5
  <2>2. f[1] = x /\ f[2] = f[1] \o y
    BY <1>1, <2>1
  <2> QED BY <2>2
<1> HIDE DEF Is
<1> QED
  BY <1>1, <1>2, <1>4, <1>5

\* Elements one after the other.
LEMMA JoinOnes ==
  ASSUME NEW e, NEW f, NEW g
  PROVE  /\ <<e>> \o <<f>> = <<e, f>>
         /\ <<e, f>> \o <<g>> = <<e, f, g>>
         /\ <<e>> \o <<f, g>> = <<e, f, g>>
<1> DEFINE S == {e, f, g}
<1>1. /\ <<e>> \in Seq(S) /\ <<f>> \in Seq(S) /\ <<g>> \in Seq(S)
      /\ <<e, f>> \in Seq(S) /\ <<f, g>> \in Seq(S) /\ <<e, f, g>> \in Seq(S)
  OBVIOUS
<1>2. <<e>> \o <<f>> = <<e, f>>
  <2>1. Len(<<e>>) = 1 /\ Len(<<f>>) = 1 /\ Len(<<e, f>>) = 2
    OBVIOUS
  <2>2. \A i \in 1..2 : (<<e>> \o <<f>>)[i] = <<e, f>>[i]
    OBVIOUS
  <2>3. <<e>> \o <<f>> \in Seq(S) /\ Len(<<e>> \o <<f>>) = 2
    BY <1>1, <2>1
  <2> QED BY <1>1, <2>1, <2>2, <2>3, SeqEqual
<1>3. <<e, f>> \o <<g>> = <<e, f, g>>
  <2>1. Len(<<e, f>>) = 2 /\ Len(<<g>>) = 1 /\ Len(<<e, f, g>>) = 3
    OBVIOUS
  <2>2. \A i \in 1..3 : (<<e, f>> \o <<g>>)[i] = <<e, f, g>>[i]
    OBVIOUS
  <2>3. <<e, f>> \o <<g>> \in Seq(S) /\ Len(<<e, f>> \o <<g>>) = 3
    BY <1>1, <2>1
  <2> QED BY <1>1, <2>1, <2>2, <2>3, SeqEqual
<1>4. <<e>> \o <<f, g>> = <<e, f, g>>
  <2>1. Len(<<e>>) = 1 /\ Len(<<f, g>>) = 2 /\ Len(<<e, f, g>>) = 3
    OBVIOUS
  <2>2. \A i \in 1..3 : (<<e>> \o <<f, g>>)[i] = <<e, f, g>>[i]
    OBVIOUS
  <2>3. <<e>> \o <<f, g>> \in Seq(S) /\ Len(<<e>> \o <<f, g>>) = 3
    BY <1>1, <2>1
  <2> QED BY <1>1, <2>1, <2>2, <2>3, SeqEqual
<1> QED
  BY <1>2, <1>3, <1>4

\* ... and for three single ones.
LEMMA FlattenThree ==
  ASSUME NEW e, NEW f, NEW g
  PROVE  FlattenSeq(<< <<e>>, <<f>>, <<g>> >>) = <<e, f, g>>
<1> DEFINE x == <<e>>
           y == <<f>>
           z == <<g>>
           v == <<e, f>>
           w == <<e, f, g>>
           s == <<x, y, z>>
           h == <<x, v, w>>
           Is(q) == q = [i \in 1..Len(s) |-> IF i = 1 THEN s[i] ELSE q[i - 1] \o s[i]]
<1>0. v = x \o y /\ w = v \o z
  BY JoinOnes
<1> HIDE DEF x, y, z, v, w
<1>1. Len(s) = 3 /\ s[1] = x /\ s[2] = y /\ s[3] = z
  OBVIOUS
<1>2. FlattenSeq(s) = (CHOOSE q : Is(q))[Len(s)]
  BY <1>1 DEF FlattenSeq
<1>3. Is(h)
  <2>1. h[1] = x /\ h[2] = v /\ h[3] = w
    OBVIOUS
  <2>2. h = [i \in 1..3 |-> h[i]]
    OBVIOUS
  <2> HIDE DEF h, s
  <2>3. ASSUME NEW i \in 1..3 PROVE h[i] = IF i = 1 THEN s[i] ELSE h[i - 1] \o s[i]
    <3>1. CASE i = 1
      BY <1>1, <2>1, <3>1
    <3>2. CASE i = 2
      <4>1. i - 1 = 1 /\ i # 1
        BY <3>2
      <4>2. h[i - 1] = x /\ s[i] = y /\ h[i] = v
        BY <1>1, <2>1, <3>2, <4>1
      <4> QED BY <1>0, <4>1, <4>2
    <3>3. CASE i = 3
      <4>1. i - 1 = 2 /\ i # 1
        BY <3>3
      <4>2. h[i - 1] = v /\ s[i] = z /\ h[i] = w
        BY <1>1, <2>1, <3>3, <4>1
      <4> QED BY <1>0, <4>1, <4>2
    <3> QED BY <3>1, <3>2, <3>3
  <2> QED BY <1>1, <2>2, <2>3
<1>4. Is(CHOOSE q : Is(q))
  <2> HIDE DEF Is
  <2> QED BY <1>3
<1>5. ASSUME NEW q, Is(q) PROVE q[3] = w
  <2>1. \A i \in 1..3 : q[i] = IF i = 1 THEN s[i] ELSE q[i - 1] \o s[i]
    BY <1>1, <1>5
  <2>2. q[1] = x /\ q[2] = q[1] \o y /\ q[3] = q[2] \o z
    BY <1>1, <2>1
  <2> QED BY <1>0, <2>2
<1> HIDE DEF Is
<1>6. FlattenSeq(s) = w
  BY <1>1, <1>2, <1>4, <1>5
<1> QED
  BY <1>6 DEF s, w, x, y, z

\* The goals of a set, from the oldest on: each of them once.
LEMMA OldestFirstIs ==
  ASSUME NEW n \in Nat, NEW goals, goals \subseteq 1..n
  PROVE  LET s == OldestFirst(goals)
             k == Cardinality(goals)
         IN  /\ k \in Nat
             /\ s \in [1..k -> goals]
             /\ \A i, j \in 1..k : s[i] = s[j] => i = j
             /\ \A x \in goals : \E i \in 1..k : s[i] = x
<1> DEFINE Up(S, s) == \A i, j \in 1..Cardinality(S) : i < j => s[i] < s[j]
           Rises(S) == \E s \in [1..Cardinality(S) -> S] : Up(S, s)
           Bad == {b \in Nat : \E S \in SUBSET (1..b) : ~ Rises(S)}
<1>1. \A b \in Nat : \A S \in SUBSET (1..b) : IsFiniteSet(S) /\ Cardinality(S) \in Nat
  <2> SUFFICES ASSUME NEW b \in Nat, NEW S \in SUBSET (1..b)
               PROVE  IsFiniteSet(S) /\ Cardinality(S) \in Nat
    OBVIOUS
  <2>1. IsFiniteSet(1..b)
    BY FS_Interval
  <2>2. IsFiniteSet(S)
    BY <2>1, FS_Subset
  <2> QED BY <2>2, FS_CardinalityType
<1>2. Bad = {}
  <2> SUFFICES ASSUME Bad # {} PROVE FALSE
    OBVIOUS
  <2>1. PICK m \in Bad : \A y \in Bad : m <= y
    <3>1. Bad \subseteq Nat
      OBVIOUS
    <3> HIDE DEF Bad
    <3> QED BY <3>1, NatMin
  <2>2. PICK S \in SUBSET (1..m) : ~ Rises(S)
    BY <2>1
  <2> DEFINE k == Cardinality(S)
  <2>3. m \in Nat /\ k \in Nat /\ IsFiniteSet(S)
    BY <1>1, <2>1, <2>2
  <2>4. CASE m \notin S
    <3>1. m # 0 \/ S = {}
      OBVIOUS
    <3>2. CASE S = {}
      <4>1. k = 0
        BY <3>2, FS_EmptySet
      <4>2. <<>> \in [1..k -> S] /\ Up(S, <<>>)
        BY <4>1, <3>2
      <4> QED BY <2>2, <4>2
    <3>3. CASE m # 0
      <4>1. m - 1 \in Nat /\ ~ (m <= m - 1) /\ S \subseteq 1..(m - 1)
        BY <2>3, <2>4, <3>3
      <4>2. m - 1 \in Bad
        BY <2>2, <4>1
      <4> QED BY <2>1, <4>1, <4>2
    <3> QED BY <3>1, <3>2, <3>3
  <2>5. CASE m \in S
    <3> DEFINE R == S \ {m}
    <3>1. m # 0 /\ m - 1 \in Nat /\ ~ (m <= m - 1) /\ R \subseteq 1..(m - 1)
      BY <2>3, <2>5
    <3>2. m - 1 \notin Bad
      BY <2>1, <3>1
    <3>3. PICK r \in [1..Cardinality(R) -> R] : Up(R, r)
      <4>1. Rises(R)
        <5> HIDE DEF Rises, R
        <5> QED BY <3>1, <3>2
      <4> QED BY <4>1
    <3>4. Cardinality(R) = k - 1
      BY <2>3, <2>5, FS_RemoveElement
    <3> DEFINE s == [i \in 1..k |-> IF i = k THEN m ELSE r[i]]
    <3>5. k - 1 \in Nat
      BY <1>1, <3>1, <3>4
    <3>6. \A i \in 1..k : i # k => r[i] \in R /\ r[i] < m
      <4>1. \A i \in 1..k : i # k => i \in 1..(k - 1)
        BY <2>3
      <4>2. \A x \in R : x < m
        BY <3>1, <2>3
      <4> QED BY <3>3, <3>4, <4>1, <4>2
    <3>7. s \in [1..k -> S]
      BY <2>5, <3>6
    <3>8. Up(S, s)
      <4> SUFFICES ASSUME NEW i \in 1..k, NEW j \in 1..k, i < j PROVE s[i] < s[j]
        OBVIOUS
      <4>1. i # k /\ i \in 1..(k - 1)
        BY <2>3
      <4>2. CASE j = k
        BY <3>6, <4>1, <4>2
      <4>3. CASE j # k
        <5>1. j \in 1..(k - 1)
          BY <2>3, <4>3
        <5>2. r[i] < r[j]
          BY <3>3, <3>4, <4>1, <5>1
        <5> QED BY <4>1, <4>3, <5>2
      <4> QED BY <4>2, <4>3
    <3> QED BY <2>2, <3>7, <3>8
  <2> QED BY <2>4, <2>5
<1> DEFINE k == Cardinality(goals)
           s == OldestFirst(goals)
<1>3. IsFiniteSet(goals) /\ k \in Nat
  BY <1>1
<1>4. Rises(goals)
  <2> HIDE DEF Rises
  <2> QED BY <1>2
<1>5. s \in [1..k -> goals] /\ Up(goals, s)
  BY <1>4 DEF OldestFirst
<1>6. \A i, j \in 1..k : s[i] = s[j] => i = j
  <2> SUFFICES ASSUME NEW i \in 1..k, NEW j \in 1..k, s[i] = s[j], i # j PROVE FALSE
    OBVIOUS
  <2>1. i < j \/ j < i
    BY <1>3
  <2>2. s[i] \in goals /\ s[j] \in goals
    BY <1>5
  <2>3. goals \subseteq Nat
    OBVIOUS
  <2>4. s[i] \in Nat /\ s[j] \in Nat
    BY <2>2, <2>3, Zenon
  <2> HIDE DEF s
  <2> QED BY <1>5, <2>1, <2>4
<1>7. s \in Injection(1..k, goals)
  BY <1>5, <1>6 DEF Injection, IsInjective
<1>8. IsFiniteSet(1..k) /\ Cardinality(1..k) = k
  BY <1>3, FS_Interval
<1>9. s \in Surjection(1..k, goals)
  BY <1>3, <1>7, <1>8, FS_Injection
<1> QED
  BY <1>3, <1>5, <1>6, <1>9 DEF Surjection

\* A sequence, whatever it is of.
Listed(A) == \E S : A \in Seq(S)

\* One sequence after another has the elements of the first, then those of the second.
LEMMA JoinIs ==
  ASSUME NEW A, NEW B, Listed(A), Listed(B)
  PROVE  /\ Listed(A \o B) /\ Len(A) \in Nat /\ Len(B) \in Nat
         /\ DOMAIN A = 1..Len(A) /\ DOMAIN B = 1..Len(B)
         /\ DOMAIN (A \o B) = 1..(Len(A) + Len(B)) /\ Len(A \o B) = Len(A) + Len(B)
         /\ \A i \in 1..Len(A) : (A \o B)[i] = A[i]
         /\ \A i \in 1..Len(B) : (A \o B)[Len(A) + i] = B[i]
<1>1. PICK S, T : A \in Seq(S) /\ B \in Seq(T)
  BY DEF Listed
<1>2. A \in Seq(S \cup T) /\ B \in Seq(S \cup T)
  BY <1>1
<1>3. A \o B \in Seq(S \cup T)
  BY <1>2
<1> QED
  BY <1>2, <1>3 DEF Listed

\* The first elements of a sequence over S ...
LEMMA FirstOnesAre ==
  ASSUME NEW S, NEW A \in Seq(S), NEW n \in 0..Len(A)
  PROVE  /\ SubSeq(A, 1, n) \in Seq(S) /\ Len(SubSeq(A, 1, n)) = n
         /\ \A i \in 1..n : SubSeq(A, 1, n)[i] = A[i]
OBVIOUS

\* ... and of any sequence.
LEMMA PrefixIs ==
  ASSUME NEW A, Listed(A), NEW n \in 0..Len(A)
  PROVE  /\ Listed(SubSeq(A, 1, n)) /\ Len(SubSeq(A, 1, n)) = n
         /\ DOMAIN SubSeq(A, 1, n) = 1..n
         /\ \A i \in 1..n : SubSeq(A, 1, n)[i] = A[i]
<1>1. PICK S : A \in Seq(S)
  BY DEF Listed
<1> DEFINE B == SubSeq(A, 1, n)
<1>2. /\ B \in Seq(S) /\ Len(B) = n
      /\ \A i \in 1..n : B[i] = A[i]
  BY <1>1, FirstOnesAre
<1> HIDE DEF B
<1>3. Listed(B) /\ DOMAIN B = 1..n
  BY <1>2 DEF Listed
<1> QED
  BY <1>2, <1>3 DEF B

\* One element.
LEMMA OneIs ==
  ASSUME NEW e
  PROVE  Listed(<<e>>) /\ Len(<<e>>) = 1 /\ <<e>>[1] = e /\ DOMAIN <<e>> = {1}
<1>1. <<e>> \in Seq({e}) /\ Len(<<e>>) = 1 /\ <<e>>[1] = e /\ DOMAIN <<e>> = 1..1
  OBVIOUS
<1>2. 1..1 = {1}
  OBVIOUS
<1> QED
  BY <1>1, <1>2 DEF Listed

\* What is left below the last element ...
LEMMA FrontIs ==
  ASSUME NEW A, Listed(A), A # <<>>
  PROVE  /\ Len(A) \in Nat \ {0} /\ DOMAIN A = 1..Len(A)
         /\ Front(A) = SubSeq(A, 1, Len(A) - 1) /\ Last(A) = A[Len(A)]
         /\ Listed(Front(A)) /\ Len(Front(A)) = Len(A) - 1
         /\ DOMAIN Front(A) = 1..(Len(A) - 1)
         /\ \A i \in 1..(Len(A) - 1) : Front(A)[i] = A[i]
<1>1. PICK S : A \in Seq(S)
  BY DEF Listed
<1>2. Len(A) \in Nat \ {0} /\ DOMAIN A = 1..Len(A)
  BY <1>1, EmptySeq
<1>3. Len(A) - 1 \in 0..Len(A)
  BY <1>2
<1> QED
  BY <1>2, <1>3, PrefixIs DEF Front, Last

\* ... and the sequence with another last element.
LEMMA TopIs ==
  ASSUME NEW A, Listed(A), A # <<>>, NEW e
  PROVE  LET T == Front(A) \o <<e>>
         IN  /\ Listed(T) /\ Len(T) = Len(A) /\ DOMAIN T = DOMAIN A /\ T # <<>>
             /\ \A i \in DOMAIN A : T[i] = IF i = Len(A) THEN e ELSE A[i]
<1> DEFINE T == Front(A) \o <<e>>
           n == Len(A)
<1>1. /\ n \in Nat \ {0} /\ DOMAIN A = 1..n /\ Listed(Front(A)) /\ Len(Front(A)) = n - 1
      /\ \A i \in 1..(n - 1) : Front(A)[i] = A[i]
  BY FrontIs
<1>2. Listed(<<e>>) /\ Len(<<e>>) = 1 /\ <<e>>[1] = e
  BY OneIs
<1> HIDE DEF n
<1>3. /\ Listed(T) /\ Len(T) = (n - 1) + 1 /\ DOMAIN T = 1..((n - 1) + 1)
      /\ \A i \in 1..(n - 1) : T[i] = Front(A)[i]
      /\ \A i \in 1..1 : T[(n - 1) + i] = <<e>>[i]
  BY <1>1, <1>2, JoinIs
<1> HIDE DEF T
<1>4. T[(n - 1) + 1] = e /\ (n - 1) + 1 = n
  BY <1>1, <1>2, <1>3
<1>5. T # <<>>
  <2>1. 1 \in DOMAIN T
    BY <1>1, <1>3
  <2> QED BY <2>1
<1>6. \A i \in 1..n : i # n => i \in 1..(n - 1)
  BY <1>1
<1> QED
  BY <1>1, <1>3, <1>4, <1>5, <1>6 DEF T, n

-----------------------------------------------------------------------------
(* Which goals are below which.                                            *)

\* What is below g, and what is below that ...
LEMMA BelowAll ==
  ASSUME NEW G, Typed(G), Linked(G), NEW g \in DOMAIN G
  PROVE  \A y \in DOMAIN G : G[y].parent \in {g} \cup Below(G, g) => y \in Below(G, g)
<1> SUFFICES ASSUME NEW y \in DOMAIN G, G[y].parent \in {g} \cup Below(G, g)
             PROVE  y \in Below(G, g)
  OBVIOUS
<1>1. CASE G[y].parent = g
  BY <1>1 DEF Below
<1>2. CASE G[y].parent \in Below(G, g)
  <2> DEFINE z == G[y].parent
  <2>1. z \in DOMAIN G /\ y # Root
    BY <1>2 DEF Below, Typed, Linked
  <2>2. G[z].children # {}
    BY <2>1 DEF Linked
  <2>3. z \in InnerBelow(G, g)
    BY <1>2, <2>2, InnerOfBelow
  <2> QED BY <2>3 DEF Below
<1> QED
  BY <1>1, <1>2

\* ... and nothing else.
LEMMA BelowLeast ==
  ASSUME NEW G, NEW g, NEW S,
         \A y \in DOMAIN G : G[y].parent \in {g} \cup S => y \in S
  PROVE  Below(G, g) \subseteq S
<1> DEFINE I == S \cap Inner(G)
<1>1. BelowClosed(G, g, I)
  BY DEF BelowClosed, Inner
<1>2. InnerBelow(G, g) \subseteq I
  BY <1>1, InnerBelowLeast
<1> QED
  BY <1>2 DEF Below

\* The parent of what is below g is g or younger.
LEMMA BelowParent ==
  ASSUME NEW G, Typed(G), Linked(G), NEW g \in DOMAIN G
  PROVE  \A x \in Below(G, g) : x \in DOMAIN G /\ ~ (G[x].parent < g)
<1>1. \A x \in Below(G, g) : x \in DOMAIN G /\ G[x].parent \in {g} \cup Below(G, g)
  BY InnerOfBelow DEF Below
<1>2. \A x \in Below(G, g) : x > g
  BY BelowYounger
<1>3. DOMAIN G \subseteq Nat
  BY DEF Typed
<1> QED
  BY <1>1, <1>2, <1>3

\* A goal with no children has nothing below it.
LEMMA NothingBelow ==
  ASSUME NEW G, Typed(G), Linked(G), NEW g \in DOMAIN G, G[g].children = {}
  PROVE  Below(G, g) = {}
<1>1. \A y \in DOMAIN G : G[y].parent # g
  BY DEF Typed, Linked
<1> QED
  BY <1>1, BelowLeast

\* The goals that two trees share are the same goals.
Kin(G, H) ==
  \A x \in DOMAIN G \cap DOMAIN H :
    H[x].parent = G[x].parent /\ H[x].role = G[x].role /\ H[x].cut = G[x].cut

\* A goal they share is below another in the one only if it is in the other.
LEMMA BelowKin ==
  ASSUME NEW G, NEW H, Typed(G), Linked(G), Typed(H), Linked(H), Kin(G, H),
         NEW g \in DOMAIN G, g \in DOMAIN H
  PROVE  \A y \in DOMAIN G : y \in Below(H, g) => y \in Below(G, g)
<1> DEFINE S == (Below(G, g) \cap DOMAIN H) \cup (DOMAIN H \ DOMAIN G)
<1>1. ASSUME NEW y \in DOMAIN H, H[y].parent \in {g} \cup S
      PROVE  y \in S
  <2>1. CASE y \notin DOMAIN G
    BY <2>1
  <2>2. CASE y \in DOMAIN G
    <3>1. G[y].parent = H[y].parent
      BY <2>2 DEF Kin
    <3>2. H[y].parent # NoGoal
      BY <1>1 DEF Typed
    <3>3. G[y].parent \in DOMAIN G
      BY <2>2, <3>1, <3>2 DEF Linked
    <3>4. G[y].parent \in {g} \cup Below(G, g)
      BY <1>1, <3>1, <3>3
    <3> QED BY <2>2, <3>4, BelowAll
  <2> QED BY <2>1, <2>2
<1>2. Below(H, g) \subseteq S
  <2> HIDE DEF S
  <2> QED BY <1>1, BelowLeast
<1> QED
  BY <1>2

-----------------------------------------------------------------------------
(* What the moves do to the tree.                                          *)

\* Of a tree only how it hangs together is asked here: any pair may count as shown.
AllShown == Nat \X Programs \X Programs

Whole(G) == Sound(G, AllShown) /\ \E n \in Nat : DOMAIN G \subseteq 1..n

Done == {"split", "proved"}

\* H has all the goals of G, and only those in C changed but to be settled or unsettled.
Follows(G, H, C) ==
  /\ DOMAIN G \subseteq DOMAIN H
  /\ Kin(G, H)
  /\ \A x \in DOMAIN G : x \notin C =>
       /\ H[x].children = G[x].children
       /\ H[x].status = G[x].status \/ (G[x].status \in Done /\ H[x].status \in Done)

\* H is G with more goals proved, all in C or by their children.
Proves(G, H, C) ==
  /\ SameGoals(G, H)
  /\ \A x \in DOMAIN G :
       \/ H[x].status = G[x].status
       \/ /\ H[x].status = "proved"
          /\ x \in C \/ (G[x].status = "split" /\ \A k \in G[x].children : H[k].status = "proved")

\* Proofs change no more than statuses ...
LEMMA ProvesFollows ==
  ASSUME NEW G, NEW H, NEW C, Proves(G, H, C)
  PROVE  Follows(G, H, C)
BY DEF Proves, Follows, SameGoals, Kin, Done

\* ... and come one after another ...
LEMMA ProvesOn ==
  ASSUME NEW G, NEW H, NEW K, NEW C, NEW D, Linked(G), Proves(G, H, C), Proves(H, K, D)
  PROVE  Proves(G, K, C \cup D)
<1>1. SameGoals(G, K)
  BY DEF Proves, SameGoals
<1>2. ASSUME NEW x \in DOMAIN G
      PROVE  \/ K[x].status = G[x].status
             \/ /\ K[x].status = "proved"
                /\ \/ x \in C \cup D
                   \/ G[x].status = "split" /\ \A k \in G[x].children : K[k].status = "proved"
  <2>1. x \in DOMAIN H /\ H[x].children = G[x].children
    BY DEF Proves, SameGoals
  <2>2. \A k \in G[x].children : k \in DOMAIN G /\ k \in DOMAIN H
    BY DEF Linked, Proves, SameGoals
  <2>3. \A k \in DOMAIN H : H[k].status = "proved" => K[k].status = "proved"
    BY DEF Proves
  <2>4. CASE H[x].status = G[x].status
    BY <2>1, <2>4 DEF Proves
  <2>5. CASE H[x].status # G[x].status
    <3>1. H[x].status = "proved" /\ K[x].status = "proved"
      BY <2>1, <2>3, <2>5 DEF Proves
    <3>2. x \in C \/ (G[x].status = "split" /\ \A k \in G[x].children : H[k].status = "proved")
      BY <2>5 DEF Proves
    <3> QED BY <2>2, <2>3, <3>1, <3>2
  <2> QED BY <2>4, <2>5
<1> QED
  BY <1>1, <1>2 DEF Proves

\* ... as do other changes.
LEMMA FollowsOn ==
  ASSUME NEW G, NEW H, NEW K, NEW C, NEW D, Follows(G, H, C), Follows(H, K, D)
  PROVE  Follows(G, K, C \cup D)
<1>1. DOMAIN G \subseteq DOMAIN H /\ DOMAIN H \subseteq DOMAIN K
  BY DEF Follows
<1>2. Kin(G, K)
  BY <1>1 DEF Follows, Kin
<1>3. ASSUME NEW x \in DOMAIN G, x \notin C \cup D
      PROVE  /\ K[x].children = G[x].children
             /\ K[x].status = G[x].status \/ (G[x].status \in Done /\ K[x].status \in Done)
  BY <1>1, <1>3 DEF Follows
<1> QED
  BY <1>1, <1>2, <1>3 DEF Follows

\* A goal is at a program on each side ...
LEMMA HeadIsProgram ==
  ASSUME NEW G, Typed(G), NEW g \in DOMAIN G, NEW side \in Sides
  PROVE  HeadOf(G, g, side) \in Programs
<1> DEFINE h == G[g].hist[side]
<1>1. h \in Seq(Programs) /\ h # <<>>
  BY DEF Typed, Goals
<1> HIDE DEF h
<1>2. h[Len(h)] \in Programs
  BY <1>1, EmptySeq, ElementOfSeq
<1> QED
  BY <1>2 DEF HeadOf, h

\* ... and every such pair counts as shown.
LEMMA AnyShown ==
  ASSUME NEW G, Typed(G), NEW g \in DOMAIN G
  PROVE  <<g, HeadOf(G, g, "src"), HeadOf(G, g, "tgt")>> \in AllShown
<1>1. g \in Nat
  BY DEF Typed
<1>2. HeadOf(G, g, "src") \in Programs /\ HeadOf(G, g, "tgt") \in Programs
  BY HeadIsProgram DEF Sides
<1> QED
  BY <1>1, <1>2 DEF AllShown

\* A touch reopens a goal.
LEMMA ReopenFollows ==
  ASSUME NEW G, Whole(G), NEW g \in DOMAIN G
  PROVE  LET H == Reopened(G, g)
         IN  /\ Whole(H) /\ Follows(G, H, {g}) /\ SameGoals(G, H)
             /\ H[g].status = IF G[g].status = "proved" THEN "open" ELSE G[g].status
<1> DEFINE H == Reopened(G, g)
<1>1. Typed(G) /\ Linked(G)
  BY DEF Whole, Sound
<1>2. /\ Typed(H) /\ SameGoals(G, H)
      /\ \A x \in DOMAIN G : H[x].hist = G[x].hist
      /\ H[g].status = IF G[g].status = "proved" THEN "open" ELSE G[g].status
      /\ \A x \in DOMAIN G \ {g} :
           H[x].status = IF G[g].status = "proved" /\ x \in Unsettled(G, g)
                         THEN "split" ELSE G[x].status
  BY <1>1, ReopenedIs
<1>3. Moved(G, H, g, G[g].hist)
  BY <1>2 DEF Moved
<1>4. Sound(H, AllShown)
  BY <1>3, MovedSound DEF Whole
<1>5. \A x \in Unsettled(G, g) : G[x].status = "proved"
  BY <1>1, UnsettledIs
<1>6. Follows(G, H, {g})
  BY <1>2, <1>5 DEF Follows, SameGoals, Kin, Done
<1>7. Whole(H)
  BY <1>2, <1>4 DEF Whole, SameGoals
<1> QED
  BY <1>2, <1>6, <1>7

\* A proof settles what is above the goal.
LEMMA ProvedProves ==
  ASSUME NEW G, Whole(G), NEW g \in DOMAIN G
  PROVE  LET H == Proved(G, g)
         IN  Whole(H) /\ Proves(G, H, {g}) /\ H[g].status = "proved"
<1> DEFINE H == Proved(G, g)
           T == Settled(G, g)
<1>1. Typed(G) /\ Linked(G) /\ Sound(G, AllShown)
  BY DEF Whole, Sound
<1>2. /\ SameGoals(G, H)
      /\ \A x \in DOMAIN G : H[x].status = IF x \in {g} \cup T THEN "proved" ELSE G[x].status
  BY <1>1, WithStatusIs DEF Proved, Statuses
<1>3. Sound(H, AllShown)
  BY <1>1, AnyShown, ProvedSound
<1>4. \A a \in T :
        /\ a \in DOMAIN G /\ G[a].status = "split" /\ G[a].children # {}
        /\ \A c \in G[a].children : c = g \/ c \in T \/ G[c].status = "proved"
  BY SettledIs
<1>5. \A a \in T : \A c \in G[a].children : c \in DOMAIN G /\ H[c].status = "proved"
  BY <1>1, <1>2, <1>4 DEF Linked
<1>6. Proves(G, H, {g})
  BY <1>2, <1>4, <1>5 DEF Proves
<1>7. Whole(H)
  BY <1>2, <1>3 DEF Whole, SameGoals
<1> QED
  BY <1>2, <1>6, <1>7

\* A split leaves two new goals.
LEMMA SplitFollows ==
  ASSUME NEW G, Whole(G), NEW g \in DOMAIN G, NEW id \in Nat,
         NEW first \in Goals, NEW second \in Goals,
         \A x \in DOMAIN G : x < id,
         \A n \in {first, second} :
           /\ n.parent = g /\ n.children = {} /\ n.status = "open"
           /\ \A s \in Sides : n.hist[s] # <<>>,
         <<first.role, second.role>> \in RolePairs
  PROVE  LET H == Split(G, g, id, first, second)
         IN  /\ Whole(H) /\ Follows(G, H, {g})
             /\ DOMAIN H = DOMAIN G \cup {id, id + 1}
             /\ H[id] = first /\ H[id + 1] = second
             /\ H[g].status = "split" /\ H[g].children = G[g].children \cup {id, id + 1}
             /\ \A x \in DOMAIN H : x < id + 2
<1> DEFINE H == Split(G, g, id, first, second)
<1>1. Typed(G) /\ Linked(G) /\ Sound(G, AllShown)
  BY DEF Whole, Sound
<1>2. Sound(H, AllShown)
  BY <1>1, SplitSound
<1>3. SplitOf(G, H, g, id, first, second)
  BY <1>1, SplitIs
<1> DEFINE R == Reopened(G, g)
<1>4. Follows(G, R, {g}) /\ SameGoals(G, R) /\ Typed(R) /\ g \in DOMAIN R
  BY ReopenFollows DEF Whole, Sound, SameGoals
<1>5. R[g] \in Goals /\ {id, id + 1} \in SUBSET Nat
  BY <1>4 DEF Typed
<1> HIDE DEF H, R
<1>6. LET w == WithKids(R[g], {id, id + 1})
      IN  /\ w.status = "split" /\ w.children = R[g].children \cup {id, id + 1}
          /\ w.parent = R[g].parent /\ w.role = R[g].role /\ w.cut = R[g].cut
  BY <1>5, WithKidsIs
<1>7. /\ DOMAIN H = DOMAIN G \cup {id, id + 1}
      /\ H[id] = first /\ H[id + 1] = second
      /\ H[g] = WithKids(R[g], {id, id + 1})
      /\ \A x \in DOMAIN G \ {g} : H[x] = R[x]
  BY <1>3 DEF SplitOf, R
<1>8. Kin(G, H)
  <2>1. \A x \in DOMAIN G : /\ R[x].parent = G[x].parent /\ R[x].role = G[x].role
                            /\ R[x].cut = G[x].cut
    BY <1>4 DEF SameGoals
  <2> QED BY <1>6, <1>7, <2>1 DEF Kin
<1>9. Follows(G, H, {g})
  BY <1>4, <1>7, <1>8 DEF Follows
<1>10. H[g].status = "split" /\ H[g].children = G[g].children \cup {id, id + 1}
  BY <1>4, <1>6, <1>7 DEF SameGoals
<1>11. DOMAIN G \subseteq Nat
  BY <1>1 DEF Typed
<1>12. \A x \in DOMAIN H : x < id + 2
  BY <1>7, <1>11
<1>13. Whole(H)
  <2>1. DOMAIN H \subseteq Nat \ {0}
    BY <1>2, <1>12 DEF Sound, Typed, NoGoal, H
  <2>2. DOMAIN H \subseteq 1..(id + 2)
    BY <1>12, <2>1
  <2> QED BY <1>2, <2>2 DEF Whole, H
<1> QED
  BY <1>7, <1>9, <1>10, <1>12, <1>13 DEF H

\* A goal that was just made.
New(H, x, g, role) ==
  H[x].parent = g /\ H[x].role = role /\ H[x].status = "open" /\ H[x].children = {}

\* H is G with g split in two.
Halved(G, H, g, id, first, second) ==
  /\ Whole(H) /\ Follows(G, H, {g})
  /\ DOMAIN H = DOMAIN G \cup {id, id + 1}
  /\ New(H, id, g, first) /\ New(H, id + 1, g, second)
  /\ H[g].status = "split" /\ H[g].children = G[g].children \cup {id, id + 1}
  /\ \A x \in DOMAIN H : x < id + 2

\* What a new goal is.
LEMMA NewGoalIs ==
  ASSUME NEW g \in Nat, NEW role \in Roles, NEW cut \in CutKinds,
         NEW src \in Programs, NEW tgt \in Programs
  PROVE  LET n == NewGoal(g, role, cut, src, tgt)
         IN  /\ n \in Goals
             /\ n.parent = g /\ n.role = role /\ n.cut = cut /\ n.status = "open"
             /\ n.children = {}
             /\ \A s \in Sides : n.hist[s] # <<>>
<1> DEFINE h == [s \in Sides |-> IF s = "src" THEN <<src>> ELSE <<tgt>>]
           n == NewGoal(g, role, cut, src, tgt)
<1>1. h \in [Sides -> Seq(Programs)] /\ \A s \in Sides : h[s] # <<>>
  OBVIOUS
<1>2. /\ n.parent = g /\ n.role = role /\ n.cut = cut /\ n.status = "open"
      /\ n.children = {} /\ n.hist = h
  BY DEF NewGoal
<1>3. n = [parent |-> g, role |-> role, cut |-> cut, hist |-> h, status |-> "open",
           children |-> {}]
  BY DEF NewGoal
<1> HIDE DEF h, n
<1>4. n \in Goals
  BY <1>1, <1>3 DEF Goals, Statuses
<1> QED
  BY <1>1, <1>2, <1>4 DEF n

\* There is a program.
LEMMA AProgram ==
  P \in Programs
BY ProgramsNonEmpty DEF P

\* The two goals that a split makes are just made ...
LEMMA TwoHalves ==
  ASSUME NEW G, Whole(G), NEW g \in DOMAIN G, NEW id \in Nat, \A x \in DOMAIN G : x < id,
         NEW first \in Goals, first.parent = g, first.children = {}, first.status = "open",
         \A s \in Sides : first.hist[s] # <<>>,
         NEW second \in Goals, second.parent = g, second.children = {}, second.status = "open",
         \A s \in Sides : second.hist[s] # <<>>,
         <<first.role, second.role>> \in RolePairs
  PROVE  LET H == Split(G, g, id, first, second)
         IN  /\ Halved(G, H, g, id, first.role, second.role)
             /\ H[id] = first /\ H[id + 1] = second
<1> DEFINE H == Split(G, g, id, first, second)
<1>1. \A n \in {first, second} :
        /\ n.parent = g /\ n.children = {} /\ n.status = "open"
        /\ \A s \in Sides : n.hist[s] # <<>>
  OBVIOUS
<1>2. /\ Whole(H) /\ Follows(G, H, {g})
      /\ DOMAIN H = DOMAIN G \cup {id, id + 1}
      /\ H[id] = first /\ H[id + 1] = second
      /\ H[g].status = "split" /\ H[g].children = G[g].children \cup {id, id + 1}
      /\ \A x \in DOMAIN H : x < id + 2
  BY <1>1, SplitFollows
<1> HIDE DEF H
<1>3. Halved(G, H, g, id, first.role, second.role)
  BY <1>2 DEF Halved, New
<1> QED
  BY <1>2, <1>3 DEF H

\* ... by a cut, an outer and a callee ...
LEMMA CutHalves ==
  ASSUME NEW G, Whole(G), NEW g \in DOMAIN G, NEW id \in Nat, \A x \in DOMAIN G : x < id,
         NEW kind \in CutKinds
  PROVE  LET H == CutIn(G, g, id, kind, P, P, P, P)
         IN  Halved(G, H, g, id, "outer", "callee") /\ H[id].cut = kind /\ H[id + 1].cut = kind
<1> DEFINE first == NewGoal(g, "outer", kind, P, P)
           second == NewGoal(g, "callee", kind, P, P)
<1>0. "outer" \in Roles /\ "callee" \in Roles /\ kind \in CutKinds
  BY DEF Roles, CutKinds
<1>1. g \in Nat
  BY DEF Whole, Sound, Typed
<1>2. /\ first \in Goals /\ first.parent = g /\ first.role = "outer" /\ first.cut = kind
      /\ first.status = "open" /\ first.children = {} /\ \A s \in Sides : first.hist[s] # <<>>
  BY <1>0, <1>1, AProgram, NewGoalIs
<1>3. /\ second \in Goals /\ second.parent = g /\ second.role = "callee" /\ second.cut = kind
      /\ second.status = "open" /\ second.children = {} /\ \A s \in Sides : second.hist[s] # <<>>
  BY <1>0, <1>1, AProgram, NewGoalIs
<1> HIDE DEF first, second
<1>4. <<first.role, second.role>> \in RolePairs
  BY <1>2, <1>3 DEF RolePairs
<1> DEFINE H == Split(G, g, id, first, second)
<1>5. /\ Halved(G, H, g, id, "outer", "callee")
      /\ H[id] = first /\ H[id + 1] = second
  BY <1>2, <1>3, <1>4, TwoHalves
<1> QED
  BY <1>2, <1>3, <1>5 DEF CutIn, first, second

\* ... by an interpose, a lhs and a rhs ...
LEMMA InterposeHalves ==
  ASSUME NEW G, Whole(G), NEW g \in DOMAIN G, NEW id \in Nat, \A x \in DOMAIN G : x < id
  PROVE  Halved(G, InterposedAt(G, g, id, P), g, id, "lhs", "rhs")
<1> DEFINE first == NewGoal(g, "lhs", "none", HeadOf(G, g, "src"), P)
           second == NewGoal(g, "rhs", "none", P, HeadOf(G, g, "tgt"))
<1>0. "lhs" \in Roles /\ "rhs" \in Roles /\ "none" \in CutKinds
  BY DEF Roles, CutKinds
<1>1. g \in Nat /\ HeadOf(G, g, "src") \in Programs /\ HeadOf(G, g, "tgt") \in Programs
  BY HeadIsProgram DEF Whole, Sound, Typed, Sides
<1>2. /\ first \in Goals /\ first.parent = g /\ first.role = "lhs" /\ first.cut = "none"
      /\ first.status = "open" /\ first.children = {} /\ \A s \in Sides : first.hist[s] # <<>>
  BY <1>0, <1>1, AProgram, NewGoalIs
<1>3. /\ second \in Goals /\ second.parent = g /\ second.role = "rhs" /\ second.cut = "none"
      /\ second.status = "open" /\ second.children = {} /\ \A s \in Sides : second.hist[s] # <<>>
  BY <1>0, <1>1, AProgram, NewGoalIs
<1> HIDE DEF first, second
<1>4. <<first.role, second.role>> \in RolePairs
  BY <1>2, <1>3 DEF RolePairs
<1> DEFINE H == Split(G, g, id, first, second)
<1>5. /\ Halved(G, H, g, id, "lhs", "rhs")
      /\ H[id] = first /\ H[id + 1] = second
  BY <1>2, <1>3, <1>4, TwoHalves
<1> QED
  BY <1>2, <1>3, <1>5 DEF InterposedAt, first, second

\* ... and by a case, one that holds and one that fails.
LEMMA CaseHalves ==
  ASSUME NEW G, Whole(G), NEW g \in DOMAIN G, NEW id \in Nat, \A x \in DOMAIN G : x < id
  PROVE  Halved(G, CasedIn(G, g, id, P, P, P, P), g, id, "holds", "fails")
<1> DEFINE first == NewGoal(g, "holds", "none", P, P)
           second == NewGoal(g, "fails", "none", P, P)
<1>0. "holds" \in Roles /\ "fails" \in Roles /\ "none" \in CutKinds
  BY DEF Roles, CutKinds
<1>1. g \in Nat
  BY DEF Whole, Sound, Typed
<1>2. /\ first \in Goals /\ first.parent = g /\ first.role = "holds" /\ first.cut = "none"
      /\ first.status = "open" /\ first.children = {} /\ \A s \in Sides : first.hist[s] # <<>>
  BY <1>0, <1>1, AProgram, NewGoalIs
<1>3. /\ second \in Goals /\ second.parent = g /\ second.role = "fails" /\ second.cut = "none"
      /\ second.status = "open" /\ second.children = {} /\ \A s \in Sides : second.hist[s] # <<>>
  BY <1>0, <1>1, AProgram, NewGoalIs
<1> HIDE DEF first, second
<1>4. <<first.role, second.role>> \in RolePairs
  BY <1>2, <1>3 DEF RolePairs
<1> DEFINE H == Split(G, g, id, first, second)
<1>5. /\ Halved(G, H, g, id, "holds", "fails")
      /\ H[id] = first /\ H[id + 1] = second
  BY <1>2, <1>3, <1>4, TwoHalves
<1> QED
  BY <1>2, <1>3, <1>5 DEF CasedIn, first, second

\* The id of the next goal is above all others.
LEMMA NextIs ==
  ASSUME Whole(tree)
  PROVE  next \in Nat /\ \A x \in DOMAIN tree : x < next
<1>1. PICK n \in Nat : DOMAIN tree \subseteq 1..n
  BY DEF Whole
<1>2. DOMAIN tree # {}
  BY DEF Whole, Sound, Typed
<1>3. PICK x \in DOMAIN tree : \A y \in DOMAIN tree : y <= x
  BY <1>1, <1>2, NatMax
<1>4. DOMAIN tree \subseteq Nat
  BY <1>1
<1>5. \E z \in DOMAIN tree : \A y \in DOMAIN tree : z >= y
  BY <1>3, <1>4
<1>6. Max(DOMAIN tree) \in DOMAIN tree /\ \A y \in DOMAIN tree : Max(DOMAIN tree) >= y
  BY <1>5 DEF Max
<1> QED
  BY <1>4, <1>6 DEF next

\* The checks of a strengthen may prove both goals of the cut, unless one is split.
LEMMA CrossProves ==
  ASSUME NEW G, Whole(G), NEW o \in DOMAIN G, NEW c \in DOMAIN G,
         NEW H \in CrossChecked(G, o, c)
  PROVE  Whole(H) /\ Proves(G, H, {o} \cup {x \in {c} : G[x].status # "split"})
<1> DEFINE After(U, half) == IF U[half].status = "split" THEN {U} ELSE {U, Proved(U, half)}
           C == {x \in {c} : G[x].status # "split"}
<1>0. \A U : Proves(U, U, {})
  BY DEF Proves, SameGoals
<1>1. PICK U \in After(G, c) : H \in After(U, o)
  BY DEF CrossChecked
<1>2. Whole(U) /\ Proves(G, U, C)
  <2>1. CASE U = G
    BY <2>1 DEF Proves, SameGoals
  <2>2. CASE U # G
    <3>1. U = Proved(G, c) /\ G[c].status # "split"
      BY <1>1, <2>2
    <3> QED BY <3>1, ProvedProves
  <2> QED BY <2>1, <2>2
<1>3. o \in DOMAIN U /\ Linked(G)
  BY <1>2 DEF Proves, SameGoals, Whole, Sound
<1>4. Whole(H) /\ Proves(U, H, {o})
  <2>1. CASE H = U
    BY <1>2, <2>1 DEF Proves, SameGoals
  <2>2. CASE H # U
    <3>1. H = Proved(U, o)
      BY <1>1, <2>2
    <3> QED BY <1>2, <1>3, <3>1, ProvedProves
  <2> QED BY <2>1, <2>2
<1>5. Proves(G, H, C \cup {o})
  BY <1>2, <1>3, <1>4, ProvesOn
<1>6. C \cup {o} = {o} \cup C
  OBVIOUS
<1> QED
  BY <1>4, <1>5, <1>6

-----------------------------------------------------------------------------
(* The agenda, and how its goals stand to each other in the tree.           *)

Fields == {"gid", "parent", "quota", "moves", "undo", "jumping", "interposable", "poison"}

Entered(e) == DOMAIN e = Fields /\ e.undo \in Undos

\* Each goal is queued once.
Once(A) == \A i, j \in DOMAIN A : A[i].gid = A[j].gid => i = j

\* The entry that was split last before entry j is the one whose split left j.
LeftBy(A, i, j) ==
  /\ A[i].gid = A[j].parent /\ A[i].undo # "none"
  /\ \A k \in (i + 1)..(j - 1) : A[k].undo = "none"

Stacked(A) ==
  \A j \in DOMAIN A : IF j = 1 THEN A[j].parent = NoGoal ELSE \E i \in 1..(j - 1) : LeftBy(A, i, j)

\* x is a child of p, or of a child of p that was split where it was made.
Near(G, x, p) == G[x].parent \in DOMAIN G /\ (G[x].parent = p \/ G[G[x].parent].parent = p)

\* Of the goals a split left, those of a half split in turn are searched before its callee, so
\* that none of them is queued when a strengthen reopens that half.
InTurn(G, e, f) ==
  e.parent = f.parent /\ G[e.gid].parent # e.parent /\ G[f.gid].role = "callee"
    => G[f.gid].parent = G[e.gid].parent

\* An agenda that stands in the tree G, whatever the status of its goals.
Stood(G, A) ==
  /\ Listed(A)
  /\ \A i \in DOMAIN A : Entered(A[i]) /\ A[i].gid \in DOMAIN G
  /\ Once(A)
  /\ Stacked(A)
  /\ \A j \in DOMAIN A : j # 1 => Near(G, A[j].gid, A[j].parent)
  /\ \A i, j \in DOMAIN A : i < j => InTurn(G, A[i], A[j]) /\ A[i].gid \notin Below(G, A[j].gid)

\* It does in any tree that has the same goals.
LEMMA TreeStood ==
  ASSUME NEW G, NEW H, NEW A, Typed(G), Linked(G), Typed(H), Linked(H), Kin(G, H),
         Stood(G, A), \A i \in DOMAIN A : A[i].gid \in DOMAIN H
  PROVE  Stood(H, A)
<1>1. ASSUME NEW j \in DOMAIN A, j # 1
      PROVE  Near(H, A[j].gid, A[j].parent)
  <2> DEFINE x == A[j].gid
  <2>1. Near(G, x, A[j].parent) /\ x \in DOMAIN G /\ x \in DOMAIN H
    BY <1>1 DEF Stood
  <2>2. H[x].parent = G[x].parent /\ G[x].parent \in DOMAIN G
    BY <2>1 DEF Kin, Near
  <2>3. H[x].parent # NoGoal
    BY <2>2 DEF Typed
  <2>4. H[x].parent \in DOMAIN H
    BY <2>1, <2>3 DEF Linked
  <2>5. H[G[x].parent].parent = G[G[x].parent].parent
    BY <2>2, <2>4 DEF Kin
  <2> QED BY <2>1, <2>2, <2>4, <2>5 DEF Near
<1>2. ASSUME NEW i \in DOMAIN A, NEW j \in DOMAIN A, i < j
      PROVE  InTurn(H, A[i], A[j]) /\ A[i].gid \notin Below(H, A[j].gid)
  <2>1. /\ A[i].gid \in DOMAIN G \cap DOMAIN H /\ A[j].gid \in DOMAIN G \cap DOMAIN H
        /\ InTurn(G, A[i], A[j]) /\ A[i].gid \notin Below(G, A[j].gid)
    BY <1>2 DEF Stood
  <2>2. InTurn(H, A[i], A[j])
    BY <2>1 DEF Kin, InTurn
  <2> QED BY <2>1, <2>2, BelowKin
<1> QED
  BY <1>1, <1>2 DEF Stood

\* It does with another entry for its last goal, which may say how to undo its split.
LEMMA LikeStood ==
  ASSUME NEW G, NEW A, Stood(G, A), NEW T, Listed(T), DOMAIN T = DOMAIN A,
         \A i \in DOMAIN A : i # Len(A) => T[i] = A[i],
         \A i \in DOMAIN A : i = Len(A) =>
           Entered(T[i]) /\ T[i].gid = A[i].gid /\ T[i].parent = A[i].parent
  PROVE  Stood(G, T)
<1>1. /\ Listed(A) /\ Once(A) /\ Stacked(A)
      /\ \A i \in DOMAIN A : Entered(A[i]) /\ A[i].gid \in DOMAIN G
      /\ \A j \in DOMAIN A : j # 1 => Near(G, A[j].gid, A[j].parent)
      /\ \A i, j \in DOMAIN A : i < j => InTurn(G, A[i], A[j]) /\ A[i].gid \notin Below(G, A[j].gid)
  BY DEF Stood
<1>2. \A i \in DOMAIN A : Entered(T[i]) /\ T[i].gid = A[i].gid /\ T[i].parent = A[i].parent
  BY <1>1
<1>3. Once(T)
  BY <1>1, <1>2 DEF Once
<1>4. PICK S : A \in Seq(S)
  BY <1>1 DEF Listed
<1>5. DOMAIN A = 1..Len(A) /\ Len(A) \in Nat
  BY <1>4
<1>6. Stacked(T)
  <2> SUFFICES ASSUME NEW j \in DOMAIN T
               PROVE  IF j = 1 THEN T[j].parent = NoGoal ELSE \E i \in 1..(j - 1) : LeftBy(T, i, j)
    BY DEF Stacked
  <2>1. CASE j = 1
    BY <1>1, <1>2, <2>1 DEF Stacked
  <2>2. CASE j # 1
    <3>1. PICK i \in 1..(j - 1) : LeftBy(A, i, j)
      BY <1>1, <2>2 DEF Stacked
    <3>2. \A k \in 1..(j - 1) : k \in DOMAIN A /\ T[k] = A[k]
      BY <1>5
    <3>3. \A k \in (i + 1)..(j - 1) : k \in 1..(j - 1)
      BY <1>5
    <3>4. LeftBy(T, i, j)
      BY <1>2, <3>1, <3>2, <3>3 DEF LeftBy
    <3> QED BY <2>2, <3>4
  <2> QED BY <2>1, <2>2
<1>7. \A i, j \in DOMAIN A : i < j => InTurn(G, T[i], T[j]) /\ T[i].gid \notin Below(G, T[j].gid)
  BY <1>1, <1>2 DEF InTurn
<1> QED
  BY <1>1, <1>2, <1>3, <1>6, <1>7 DEF Stood

\* It does with its last goals gone.
LEMMA PrefixStood ==
  ASSUME NEW G, NEW A, Stood(G, A), NEW n \in 0..Len(A)
  PROVE  Stood(G, SubSeq(A, 1, n))
<1> DEFINE T == SubSeq(A, 1, n)
<1>1. /\ Listed(A) /\ Once(A) /\ Stacked(A)
      /\ \A i \in DOMAIN A : Entered(A[i]) /\ A[i].gid \in DOMAIN G
      /\ \A j \in DOMAIN A : j # 1 => Near(G, A[j].gid, A[j].parent)
      /\ \A i, j \in DOMAIN A : i < j => InTurn(G, A[i], A[j]) /\ A[i].gid \notin Below(G, A[j].gid)
  BY DEF Stood
<1>2. PICK S : A \in Seq(S)
  BY <1>1 DEF Listed
<1>3. DOMAIN A = 1..Len(A) /\ Len(A) \in Nat /\ n \in Nat /\ 1..n \subseteq DOMAIN A
  BY <1>2
<1>4. Listed(T) /\ DOMAIN T = 1..n /\ \A i \in 1..n : T[i] = A[i]
  BY <1>1, PrefixIs
<1> HIDE DEF T
<1>5. Stacked(T)
  <2> SUFFICES ASSUME NEW j \in DOMAIN T
               PROVE  IF j = 1 THEN T[j].parent = NoGoal ELSE \E i \in 1..(j - 1) : LeftBy(T, i, j)
    BY DEF Stacked
  <2>1. CASE j = 1
    BY <1>1, <1>3, <1>4, <2>1 DEF Stacked
  <2>2. CASE j # 1
    <3>1. PICK i \in 1..(j - 1) : LeftBy(A, i, j)
      BY <1>1, <1>3, <1>4, <2>2 DEF Stacked
    <3>2. \A k \in 1..(j - 1) : T[k] = A[k]
      BY <1>3, <1>4
    <3>3. T[j] = A[j] /\ \A k \in (i + 1)..(j - 1) : k \in 1..(j - 1)
      BY <1>3, <1>4
    <3>4. LeftBy(T, i, j)
      BY <3>1, <3>2, <3>3 DEF LeftBy
    <3> QED BY <2>2, <3>4
  <2> QED BY <2>1, <2>2
<1>6. Once(T)
  BY <1>1, <1>3, <1>4 DEF Once
<1>7. \A i \in DOMAIN T : T[i] = A[i] /\ i \in DOMAIN A
  BY <1>3, <1>4
<1>8. Stood(G, T)
  BY <1>1, <1>4, <1>5, <1>6, <1>7 DEF Stood
<1> QED
  BY <1>8 DEF T

\* It does with more of the goals that its last split left.
LEMMA PushStood ==
  ASSUME NEW G, NEW A, Stood(G, A), NEW B, Listed(B), NEW i \in DOMAIN A,
         A[i].undo # "none", \A k \in DOMAIN A : k > i => A[k].undo = "none",
         \A k \in DOMAIN B :
           /\ Entered(B[k]) /\ B[k].gid \in DOMAIN G
           /\ B[k].parent = A[i].gid /\ Near(G, B[k].gid, A[i].gid),
         \A k \in DOMAIN B : k # Len(B) => B[k].undo = "none",
         Once(B),
         \A k, l \in DOMAIN B : k < l =>
           InTurn(G, B[k], B[l]) /\ B[k].gid \notin Below(G, B[l].gid),
         \A k \in DOMAIN A, l \in DOMAIN B :
           /\ A[k].gid # B[l].gid
           /\ InTurn(G, A[k], B[l]) /\ A[k].gid \notin Below(G, B[l].gid)
  PROVE  Stood(G, A \o B)
<1> DEFINE T == A \o B
           n == Len(A)
           m == Len(B)
<1>1. /\ Listed(A) /\ Once(A) /\ Stacked(A)
      /\ \A k \in DOMAIN A : Entered(A[k]) /\ A[k].gid \in DOMAIN G
      /\ \A j \in DOMAIN A : j # 1 => Near(G, A[j].gid, A[j].parent)
      /\ \A k, j \in DOMAIN A : k < j => InTurn(G, A[k], A[j]) /\ A[k].gid \notin Below(G, A[j].gid)
  BY DEF Stood
<1>2. /\ Listed(T) /\ n \in Nat /\ m \in Nat /\ DOMAIN A = 1..n /\ DOMAIN B = 1..m
      /\ DOMAIN T = 1..(n + m) /\ \A k \in 1..n : T[k] = A[k]
      /\ \A k \in 1..m : T[n + k] = B[k]
  BY <1>1, JoinIs
<1> HIDE DEF T, n
<1>3. \A k \in 1..(n + m) : k \in 1..n \/ (k - n \in 1..m /\ k = n + (k - n))
  BY <1>2
<1>4. \A k \in 1..(n + m) :
        \/ k \in DOMAIN A /\ T[k] = A[k] /\ k <= n
        \/ k - n \in DOMAIN B /\ T[k] = B[k - n] /\ k > n
  <2> SUFFICES ASSUME NEW k \in 1..(n + m)
               PROVE  \/ k \in DOMAIN A /\ T[k] = A[k] /\ k <= n
                      \/ k - n \in DOMAIN B /\ T[k] = B[k - n] /\ k > n
    OBVIOUS
  <2>1. CASE k \in 1..n
    BY <1>2, <2>1
  <2>2. CASE k - n \in 1..m /\ k = n + (k - n)
    <3>1. T[n + (k - n)] = B[k - n]
      BY <1>2, <2>2
    <3>2. k > n
      BY <1>2, <2>2
    <3> QED BY <1>2, <2>2, <3>1, <3>2
  <2> QED BY <1>3, <2>1, <2>2
<1>5. \A k \in DOMAIN T : Entered(T[k]) /\ T[k].gid \in DOMAIN G
  BY <1>1, <1>2, <1>4
<1>6. Once(T)
  <2> SUFFICES ASSUME NEW j \in DOMAIN T, NEW k \in DOMAIN T, T[j].gid = T[k].gid
               PROVE  j = k
    BY DEF Once
  <2>1. CASE j \in DOMAIN A /\ k \in DOMAIN A
    BY <1>1, <1>2, <2>1 DEF Once
  <2>2. CASE j \notin DOMAIN A /\ k \notin DOMAIN A
    <3>1. /\ j - n \in DOMAIN B /\ T[j] = B[j - n]
          /\ k - n \in DOMAIN B /\ T[k] = B[k - n]
      BY <1>2, <1>4, <2>2
    <3>2. j - n = k - n
      BY <3>1 DEF Once
    <3> QED BY <1>2, <3>2
  <2>3. CASE j \in DOMAIN A /\ k \notin DOMAIN A
    BY <1>2, <1>4, <2>3
  <2>4. CASE j \notin DOMAIN A /\ k \in DOMAIN A
    BY <1>2, <1>4, <2>4
  <2> QED BY <2>1, <2>2, <2>3, <2>4
<1>7. Stacked(T)
  <2> SUFFICES ASSUME NEW j \in DOMAIN T
               PROVE  IF j = 1 THEN T[j].parent = NoGoal ELSE \E h \in 1..(j - 1) : LeftBy(T, h, j)
    BY DEF Stacked
  <2>1. CASE j \in DOMAIN A
    <3>1. T[j] = A[j] /\ j \in 1..n
      BY <1>2, <2>1
    <3>2. CASE j = 1
      BY <1>1, <2>1, <3>1, <3>2 DEF Stacked
    <3>3. CASE j # 1
      <4>1. PICK h \in 1..(j - 1) : LeftBy(A, h, j)
        BY <1>1, <2>1, <3>3 DEF Stacked
      <4>2. \A k \in 1..(j - 1) : T[k] = A[k]
        BY <1>2, <3>1
      <4>3. \A k \in (h + 1)..(j - 1) : k \in 1..(j - 1)
        BY <3>1
      <4>4. LeftBy(T, h, j)
        BY <3>1, <4>1, <4>2, <4>3 DEF LeftBy
      <4> QED BY <3>3, <4>4
    <3> QED BY <3>2, <3>3
  <2>2. CASE j \notin DOMAIN A
    <3>1. j - n \in DOMAIN B /\ T[j] = B[j - n] /\ j > n
      BY <1>2, <1>4, <2>2
    <3>2. i \in 1..(j - 1) /\ T[i] = A[i] /\ j # 1
      BY <1>2, <3>1
    <3>3. \A k \in (i + 1)..(j - 1) : T[k].undo = "none"
      <4> SUFFICES ASSUME NEW k \in (i + 1)..(j - 1) PROVE T[k].undo = "none"
        OBVIOUS
      <4>0. k \in 1..(n + m) /\ k > i /\ k < j
        BY <1>2
      <4>1. CASE k \in DOMAIN A
        BY <1>2, <4>0, <4>1
      <4>2. CASE k \notin DOMAIN A
        <5>1. k - n \in DOMAIN B /\ T[k] = B[k - n]
          BY <1>2, <1>4, <4>0, <4>2
        <5>2. k - n # m
          BY <1>2, <4>0, <3>1
        <5> QED BY <5>1, <5>2
      <4> QED BY <4>1, <4>2
    <3>4. LeftBy(T, i, j)
      BY <3>1, <3>2, <3>3 DEF LeftBy
    <3> QED BY <3>2, <3>4
  <2> QED BY <2>1, <2>2
<1>8. \A j \in DOMAIN T : j # 1 => Near(G, T[j].gid, T[j].parent)
  BY <1>1, <1>2, <1>4
<1>9. ASSUME NEW j \in DOMAIN T, NEW k \in DOMAIN T, j < k
      PROVE  InTurn(G, T[j], T[k]) /\ T[j].gid \notin Below(G, T[k].gid)
  <2>1. CASE j \in DOMAIN A /\ k \in DOMAIN A
    BY <1>1, <1>2, <1>9, <2>1
  <2>2. CASE j \notin DOMAIN A /\ k \notin DOMAIN A
    <3>1. /\ j - n \in DOMAIN B /\ T[j] = B[j - n]
          /\ k - n \in DOMAIN B /\ T[k] = B[k - n]
      BY <1>2, <1>4, <2>2
    <3>2. j - n < k - n
      BY <1>2, <1>9
    <3> QED BY <3>1, <3>2
  <2>3. CASE j \in DOMAIN A /\ k \notin DOMAIN A
    BY <1>2, <1>4, <2>3
  <2>4. CASE j \notin DOMAIN A /\ k \in DOMAIN A
    <3>1. j > n /\ k <= n
      BY <1>2, <1>4, <2>4
    <3> QED BY <1>2, <1>9, <3>1
  <2> QED BY <2>1, <2>2, <2>3, <2>4
<1> QED
  BY <1>2, <1>5, <1>6, <1>7, <1>8, <1>9 DEF Stood, T

-----------------------------------------------------------------------------
(* The goal a search begins at.                                            *)

\* It is the root, or what is left of it once a bounded loop is peeled and cut away.
BaseIs(G, b) ==
  \/ b = Root
  \/ /\ b # Root /\ G[Root].status = "split"
     /\ G[b].role = "outer" /\ G[b].cut = "alone"
     /\ \E c \in DOMAIN G :
          /\ c # b /\ G[Root].children = {b, c}
          /\ G[c].status = "proved" /\ G[c].children = {} /\ G[c].cut = "alone"

\* While the run is undecided it is open and alone, or split.
BaseOf(G, b) ==
  /\ b \in DOMAIN G /\ BaseIs(G, b)
  /\ G[b].role \in {"root", "outer"}
  /\ G[b].status = "split" \/ (G[b].status = "open" /\ G[b].children = {})

\* It is the first goal of the agenda, and while it is split the agenda says so.
BaseAt(G, A, b) ==
  /\ BaseOf(G, b)
  /\ G[b].status = "split" => A # <<>> /\ A[1].undo # "none"
  /\ A # <<>> => A[1].gid = b

Unknown(G) == G[Root].status \notin {"proved", "refuted"}

\* It stays that as long as what changes is it, or is not the root or a child of the root.
LEMMA BaseFollows ==
  ASSUME NEW G, NEW H, NEW C, Whole(G), Whole(H), Follows(G, H, C), Unknown(H),
         NEW b, BaseOf(G, b),
         b # Root => \A x \in C : x \in DOMAIN G => x = b \/ (x # Root /\ G[x].parent # Root),
         b \in C => \/ H[b].status \in Done
                    \/ H[b].status = G[b].status /\ H[b].children = G[b].children
  PROVE  BaseOf(H, b) /\ (b \notin C => H[b].status = G[b].status)
<1>1. Typed(G) /\ Linked(G) /\ Linked(H) /\ SettledIn(H) /\ Root \in DOMAIN G /\ b \in DOMAIN G
  BY DEF Whole, Sound, Typed, BaseOf
<1>2. /\ DOMAIN G \subseteq DOMAIN H
      /\ \A x \in DOMAIN G : x \notin C =>
           /\ H[x].children = G[x].children
           /\ H[x].status = G[x].status \/ (G[x].status \in Done /\ H[x].status \in Done)
      /\ \A x \in DOMAIN G : H[x].role = G[x].role /\ H[x].cut = G[x].cut
  BY DEF Follows, Kin
<1>3. H[Root].status # "proved"
  BY DEF Unknown
<1>4. BaseIs(H, b) /\ H[b].status # "proved"
  <2>1. CASE b = Root
    BY <1>3, <2>1 DEF BaseIs
  <2>2. CASE b # Root
    <3>1. PICK c \in DOMAIN G :
            /\ c # b /\ G[Root].children = {b, c}
            /\ G[c].status = "proved" /\ G[c].children = {} /\ G[c].cut = "alone"
      BY <2>2 DEF BaseOf, BaseIs
    <3>2. G[c].parent = Root /\ c # Root
      BY <1>1, <3>1 DEF Linked, Typed
    <3>3. c \notin C /\ Root \notin C
      BY <1>1, <2>2, <3>1, <3>2
    <3>4. H[Root].status = "split" /\ H[Root].children = {b, c}
      BY <1>1, <1>2, <1>3, <2>2, <3>1, <3>3 DEF BaseOf, BaseIs, Done
    <3>5. H[c].children = {} /\ H[c].status \in Done
      BY <1>2, <3>1, <3>3 DEF Done
    <3>6. H[c].status = "proved" /\ c \in DOMAIN H /\ Root \in DOMAIN H
      BY <1>1, <1>2, <3>5 DEF SettledIn, Done
    <3>7. H[b].status # "proved"
      BY <1>1, <3>4, <3>6 DEF SettledIn
    <3>8. H[b].role = "outer" /\ H[b].cut = "alone" /\ H[c].cut = "alone"
      BY <1>1, <1>2, <2>2, <3>1 DEF BaseOf, BaseIs
    <3> QED BY <2>2, <3>1, <3>4, <3>5, <3>6, <3>7, <3>8 DEF BaseIs
  <2> QED BY <2>1, <2>2
<1>5. CASE b \in C
  BY <1>1, <1>2, <1>4, <1>5 DEF BaseOf, Done
<1>6. CASE b \notin C
  BY <1>1, <1>2, <1>4, <1>6 DEF BaseOf, Done
<1> QED
  BY <1>5, <1>6

\* No goal of the agenda but it is the root or a child of the root, unless it is the root.
LEMMA BelowBase ==
  ASSUME NEW G, NEW A, Typed(G), Linked(G), Stood(G, A), NEW b, b # Root,
         NEW i \in DOMAIN A, A[1].gid = b
  PROVE  A[i].gid = b \/ (A[i].gid # Root /\ G[A[i].gid].parent # Root)
<1> DEFINE x == A[i].gid
<1>0. DOMAIN A \subseteq Nat \ {0}
  BY DEF Stood, Listed
<1>1. NoGoal \notin DOMAIN G /\ G[Root].parent = NoGoal
  BY DEF Typed, Linked
<1>2. \A j \in DOMAIN A : A[j].gid # Root
  BY <1>1 DEF Stood, Near
<1>3. CASE i = 1
  BY <1>3
<1>4. CASE i # 1
  <2>1. PICK h \in 1..(i - 1) : A[h].gid = A[i].parent
    BY <1>4 DEF Stood, Stacked, LeftBy
  <2>2. h \in DOMAIN A
    <3>1. PICK S : A \in Seq(S)
      BY DEF Stood, Listed
    <3> QED BY <3>1, <2>1
  <2>3. A[i].parent # Root /\ A[i].parent # NoGoal
    BY <1>1, <1>2, <2>1, <2>2 DEF Stood
  <2>4. G[x].parent = A[i].parent \/ G[G[x].parent].parent = A[i].parent
    BY <1>4 DEF Stood, Near
  <2> QED BY <1>1, <1>2, <2>3, <2>4
<1> QED
  BY <1>3, <1>4

-----------------------------------------------------------------------------
(* What is true of the agenda, the tree and the goals that were given up.  *)

\* A goal whose split may have to be undone is split, or was proved by it.
Worked(G, A) == \A i \in DOMAIN A : A[i].undo # "none" => G[A[i].gid].status \in Done

\* An open goal is on the agenda or has no move left.
Kept(G, A, X) == \A x \in DOMAIN G : G[x].status = "open" => (\E i \in DOMAIN A : A[i].gid = x) \/ x \in X

Based(G, A) == \E b \in DOMAIN G : BaseAt(G, A, b)

Good(G, A, X) == Stood(G, A) /\ Worked(G, A) /\ Kept(G, A, X) /\ Based(G, A)

\* All but the goal in hand, h, is as steady in H as it was in G.
Steady(G, H, A, h, b) ==
  /\ Stood(H, A)
  /\ \A i \in DOMAIN A : i # Len(A) /\ A[i].undo # "none" => H[A[i].gid].status \in Done
  /\ \A x \in DOMAIN G : x # h /\ H[x].status = "open" => G[x].status = "open"
  /\ BaseOf(H, b) /\ A[1].gid = b
  /\ b = h => Len(A) = 1
  /\ b # h /\ H[b].status = "split" => Len(A) # 1 /\ A[1].undo # "none"

\* It is when the tree changes at the goal in hand and at nothing else.
LEMMA HandChanges ==
  ASSUME NEW G, NEW H, NEW A, Whole(G), Whole(H), Stood(G, A), Worked(G, A), A # <<>>,
         NEW h, h = A[Len(A)].gid, Follows(G, H, {h}), Unknown(H),
         NEW b \in DOMAIN G, BaseAt(G, A, b),
         b = h => H[b].status \in Done
                    \/ (H[b].status = G[b].status /\ H[b].children = G[b].children)
  PROVE  Steady(G, H, A, h, b)
<1>1. Typed(G) /\ Linked(G) /\ Typed(H) /\ Linked(H)
  BY DEF Whole, Sound
<1>2. Kin(G, H) /\ DOMAIN G \subseteq DOMAIN H
  BY DEF Follows
<1>3. \A i \in DOMAIN A : A[i].gid \in DOMAIN G
  BY DEF Stood
<1>4. Stood(H, A)
  BY <1>1, <1>2, <1>3, TreeStood
<1>5. Len(A) \in DOMAIN A /\ 1 \in DOMAIN A
  BY FrontIs DEF Stood
<1>6. ASSUME NEW i \in DOMAIN A, i # Len(A), A[i].undo # "none"
      PROVE  H[A[i].gid].status \in Done
  <2>1. A[i].gid # h
    BY <1>5, <1>6 DEF Stood, Once
  <2> QED BY <1>3, <1>6, <2>1 DEF Worked, Follows
<1>7. \A x \in DOMAIN G : x # h /\ H[x].status = "open" => G[x].status = "open"
  BY DEF Follows, Done
<1>8. /\ BaseOf(H, b) /\ A[1].gid = b
      /\ b = h => Len(A) = 1
      /\ b # h /\ H[b].status = "split" => Len(A) # 1 /\ A[1].undo # "none"
  <2>1. BaseOf(G, b) /\ A[1].gid = b
    BY DEF BaseAt
  <2>2. b # Root => h = b \/ (h # Root /\ G[h].parent # Root)
    BY <1>1, <1>5, <2>1, BelowBase
  <2>3. BaseOf(H, b) /\ (b # h => H[b].status = G[b].status)
    BY <2>1, <2>2, BaseFollows
  <2>4. b = h => Len(A) = 1
    BY <1>5, <2>1 DEF Stood, Once
  <2>5. b # h /\ H[b].status = "split" => Len(A) # 1 /\ A[1].undo # "none"
    BY <2>1, <2>3 DEF BaseAt
  <2> QED BY <2>1, <2>3, <2>4, <2>5
<1> QED
  BY <1>4, <1>6, <1>7, <1>8 DEF Steady

\* A move that leaves the goal in hand to the moves after it.
LEMMA TopKeeps ==
  ASSUME NEW G, NEW H, NEW A, NEW X, Whole(G), Whole(H), Good(G, A, X), A # <<>>,
         NEW h, h = A[Len(A)].gid, A[Len(A)].undo = "none",
         Follows(G, H, {h}), Unknown(H), DOMAIN H = DOMAIN G,
         H[h].children = G[h].children,
         G[h].status # "proved" => H[h].status \in {G[h].status, "proved"},
         NEW e, Entered(e), e.gid = h, e.parent = A[Len(A)].parent, e.undo = "none"
  PROVE  Good(H, Front(A) \o <<e>>, X)
<1> DEFINE T == Front(A) \o <<e>>
           n == Len(A)
<1>1. Stood(G, A) /\ Worked(G, A) /\ Kept(G, A, X) /\ Listed(A)
  BY DEF Good, Stood
<1>2. PICK b \in DOMAIN G : BaseAt(G, A, b)
  BY DEF Good, Based
<1>3. /\ Listed(T) /\ DOMAIN T = DOMAIN A /\ T # <<>>
      /\ \A i \in DOMAIN A : T[i] = IF i = n THEN e ELSE A[i]
  BY <1>1, TopIs
<1>4. n \in DOMAIN A /\ 1 \in DOMAIN A
  BY <1>1, FrontIs
<1> HIDE DEF T, n
<1>5. b = h => H[b].status \in Done \/ (H[b].status = G[b].status /\ H[b].children = G[b].children)
  BY <1>2 DEF BaseAt, BaseOf, Done
<1>6. /\ Stood(H, A)
      /\ \A i \in DOMAIN A : i # n /\ A[i].undo # "none" => H[A[i].gid].status \in Done
      /\ \A x \in DOMAIN G : x # h /\ H[x].status = "open" => G[x].status = "open"
      /\ BaseOf(H, b) /\ A[1].gid = b
      /\ b = h => n = 1
      /\ b # h /\ H[b].status = "split" => n # 1 /\ A[1].undo # "none"
  <2>1. Steady(G, H, A, h, b)
    BY <1>1, <1>2, <1>5, HandChanges
  <2> QED BY <2>1 DEF Steady, n
<1>7. Stood(H, T)
  BY <1>3, <1>6, LikeStood DEF n
<1>8. Worked(H, T)
  BY <1>3, <1>6 DEF Worked
<1>9. Kept(H, T, X)
  <2>1. \A i \in DOMAIN A : T[i].gid = A[i].gid
    BY <1>3 DEF n
  <2>2. T[n].gid = h
    BY <1>3, <1>4
  <2> QED BY <1>1, <1>3, <1>4, <1>6, <2>1, <2>2 DEF Kept
<1>10. b = h => H[b].status # "split"
  <2> SUFFICES ASSUME b = h, H[b].status = "split" PROVE FALSE
    OBVIOUS
  <2>1. G[b].status = "split"
    BY <1>2 DEF BaseAt, BaseOf
  <2>2. A[1].undo # "none" /\ n = 1
    BY <1>2, <1>6, <2>1 DEF BaseAt
  <2> QED BY <2>2 DEF n
<1>11. BaseAt(H, T, b)
  <2>1. T[1].gid = b
    BY <1>3, <1>4, <1>6 DEF n
  <2>2. H[b].status = "split" => T[1].undo # "none"
    BY <1>3, <1>4, <1>6, <1>10
  <2> QED BY <1>3, <1>6, <2>1, <2>2 DEF BaseAt
<1>12. b \in DOMAIN H
  BY <1>2
<1> QED
  BY <1>7, <1>8, <1>9, <1>11, <1>12 DEF Good, Based, T

\* The goal in hand leaves the agenda, proved or with no move left.
LEMMA PopKeeps ==
  ASSUME NEW G, NEW H, NEW A, NEW X, NEW Y, Whole(G), Whole(H), Good(G, A, X), A # <<>>,
         NEW h, h = A[Len(A)].gid, A[Len(A)].undo = "none" \/ H[h].status = "proved",
         Follows(G, H, {h}), Unknown(H), DOMAIN H = DOMAIN G,
         H[h].children = G[h].children,
         G[h].status # "proved" => H[h].status \in {G[h].status, "proved"},
         X \subseteq Y, H[h].status = "open" => h \in Y
  PROVE  Good(H, Front(A), Y)
<1> DEFINE T == Front(A)
           n == Len(A)
<1>1. Stood(G, A) /\ Worked(G, A) /\ Kept(G, A, X) /\ Listed(A)
  BY DEF Good, Stood
<1>2. PICK b \in DOMAIN G : BaseAt(G, A, b)
  BY DEF Good, Based
<1>3. /\ n \in Nat \ {0} /\ DOMAIN A = 1..n /\ T = SubSeq(A, 1, n - 1)
      /\ Listed(T) /\ DOMAIN T = 1..(n - 1) /\ \A i \in 1..(n - 1) : T[i] = A[i]
  BY <1>1, FrontIs
<1>4. n - 1 \in 0..n /\ n \in DOMAIN A /\ 1 \in DOMAIN A
  BY <1>3
<1> HIDE DEF T, n
<1>5. b = h => H[b].status \in Done \/ (H[b].status = G[b].status /\ H[b].children = G[b].children)
  BY <1>2 DEF BaseAt, BaseOf, Done
<1>6. /\ Stood(H, A)
      /\ \A i \in DOMAIN A : i # n /\ A[i].undo # "none" => H[A[i].gid].status \in Done
      /\ \A x \in DOMAIN G : x # h /\ H[x].status = "open" => G[x].status = "open"
      /\ BaseOf(H, b) /\ A[1].gid = b
      /\ b = h => n = 1
      /\ b # h /\ H[b].status = "split" => n # 1 /\ A[1].undo # "none"
  <2>1. Steady(G, H, A, h, b)
    BY <1>1, <1>2, <1>5, HandChanges
  <2> QED BY <2>1 DEF Steady, n
<1>7. Stood(H, T)
  BY <1>3, <1>4, <1>6, PrefixStood DEF n
<1>8. \A i \in DOMAIN T : i \in DOMAIN A /\ i # n /\ T[i] = A[i]
  BY <1>3
<1>9. Worked(H, T)
  BY <1>6, <1>8 DEF Worked
<1>10. \A i \in DOMAIN A : i = n \/ i \in DOMAIN T
  BY <1>3
<1>11. Kept(H, T, Y)
  <2> SUFFICES ASSUME NEW x \in DOMAIN H, H[x].status = "open", x \notin Y
               PROVE  \E i \in DOMAIN T : T[i].gid = x
    BY DEF Kept
  <2>1. x # h /\ G[x].status = "open" /\ x \in DOMAIN G /\ x \notin X
    BY <1>6
  <2>2. PICK i \in DOMAIN A : A[i].gid = x
    BY <1>1, <2>1 DEF Kept
  <2>3. i # n
    BY <2>1, <2>2 DEF n
  <2> QED BY <1>8, <1>10, <2>2, <2>3
<1>12. b = h => H[b].status # "split"
  <2> SUFFICES ASSUME b = h, H[b].status = "split" PROVE FALSE
    OBVIOUS
  <2>1. G[b].status = "split"
    BY <1>2 DEF BaseAt, BaseOf
  <2>2. A[1].undo # "none" /\ n = 1
    BY <1>2, <1>6, <2>1 DEF BaseAt
  <2> QED BY <2>2 DEF n
<1>13. BaseAt(H, T, b)
  <2>1. n # 1 => 1 \in DOMAIN T
    BY <1>3
  <2>2. T # <<>> => 1 \in DOMAIN T
    <3>1. PICK S : T \in Seq(S)
      BY <1>3 DEF Listed
    <3> QED BY <3>1, EmptySeq
  <2>3. 1 \in DOMAIN T => T # <<>> /\ T[1] = A[1]
    BY <1>8
  <2> QED BY <1>6, <1>12, <2>1, <2>2, <2>3 DEF BaseAt
<1>14. b \in DOMAIN H
  BY <1>2
<1> QED
  BY <1>7, <1>9, <1>11, <1>13, <1>14 DEF Good, Based, T

\* The entry of a goal that a split of h made.
Fresh(G, H, h, e) ==
  /\ Entered(e) /\ e.undo = "none" /\ e.parent = h
  /\ e.gid \in DOMAIN H \ DOMAIN G /\ H[e.gid].children = {} /\ Near(H, e.gid, h)

\* The goals that it left to search, the first of them last.
Leaves(G, H, h, B) ==
  /\ Listed(B) /\ Once(B)
  /\ \A i \in DOMAIN B : Fresh(G, H, h, B[i])
  /\ \A k, l \in DOMAIN B : k < l => InTurn(H, B[k], B[l])
  /\ \A x \in DOMAIN H \ DOMAIN G : H[x].status = "open" => \E i \in DOMAIN B : B[i].gid = x

\* No goal of the agenda was left by a split of the goal in hand.
LEMMA TopLeftNone ==
  ASSUME NEW G, NEW A, Typed(G), Stood(G, A), A # <<>>
  PROVE  \A k \in DOMAIN A : A[k].parent # A[Len(A)].gid
<1> DEFINE n == Len(A)
<1>1. n \in Nat \ {0} /\ DOMAIN A = 1..n
  BY FrontIs DEF Stood
<1> HIDE DEF n
<1> SUFFICES ASSUME NEW k \in DOMAIN A, A[k].parent = A[n].gid PROVE FALSE
  BY DEF n
<1>2. A[n].gid # NoGoal
  BY <1>1 DEF Stood, Typed
<1>3. k # 1 /\ Once(A) /\ Stacked(A)
  BY <1>2 DEF Stood, Stacked
<1>4. PICK i \in 1..(k - 1) : A[i].gid = A[k].parent
  BY <1>3 DEF Stacked, LeftBy
<1>5. i \in DOMAIN A /\ i # n /\ n \in DOMAIN A
  BY <1>1
<1> QED
  BY <1>3, <1>4, <1>5 DEF Once

\* A split of the goal in hand leaves its goals above it.
LEMMA SplitKeeps ==
  ASSUME NEW G, NEW H, NEW A, NEW X, Whole(G), Whole(H), Good(G, A, X), A # <<>>,
         NEW h, h = A[Len(A)].gid, Follows(G, H, {h}), Unknown(H), H[h].status \in Done,
         NEW e, Entered(e), e.gid = h, e.parent = A[Len(A)].parent, e.undo # "none",
         NEW B, Leaves(G, H, h, B)
  PROVE  Good(H, (Front(A) \o <<e>>) \o B, X)
<1> DEFINE T == Front(A) \o <<e>>
           n == Len(A)
           S == T \o B
<1>1. Stood(G, A) /\ Worked(G, A) /\ Kept(G, A, X) /\ Listed(A)
  BY DEF Good, Stood
<1>2. PICK b \in DOMAIN G : BaseAt(G, A, b)
  BY DEF Good, Based
<1>3. /\ Listed(T) /\ Len(T) = n /\ DOMAIN T = DOMAIN A /\ T # <<>>
      /\ \A i \in DOMAIN A : T[i] = IF i = n THEN e ELSE A[i]
  BY <1>1, TopIs
<1>4. n \in Nat \ {0} /\ DOMAIN A = 1..n /\ n \in DOMAIN A /\ 1 \in DOMAIN A
  BY <1>1, FrontIs
<1> HIDE DEF T, n
<1>5. Steady(G, H, A, h, b)
  BY <1>1, <1>2, HandChanges
<1>6. /\ Stood(H, A)
      /\ \A i \in DOMAIN A : i # n /\ A[i].undo # "none" => H[A[i].gid].status \in Done
      /\ \A x \in DOMAIN G : x # h /\ H[x].status = "open" => G[x].status = "open"
      /\ BaseOf(H, b) /\ A[1].gid = b
      /\ b = h => n = 1
      /\ b # h /\ H[b].status = "split" => n # 1 /\ A[1].undo # "none"
  BY <1>5 DEF Steady, n
<1>7. Stood(H, T)
  BY <1>3, <1>6, LikeStood DEF n
<1>8. \A i \in DOMAIN A : T[i].gid = A[i].gid /\ T[i].parent = A[i].parent
  BY <1>3 DEF n
<1>9. Typed(H) /\ Linked(H) /\ Typed(G)
  BY DEF Whole, Sound
<1>10. /\ Listed(B) /\ Once(B)
       /\ \A i \in DOMAIN B :
            /\ Entered(B[i]) /\ B[i].undo = "none" /\ B[i].parent = h
            /\ B[i].gid \in DOMAIN H /\ B[i].gid \notin DOMAIN G
            /\ H[B[i].gid].children = {} /\ Near(H, B[i].gid, h)
       /\ \A k, l \in DOMAIN B : k < l => InTurn(H, B[k], B[l])
       /\ \A x \in DOMAIN H : x \notin DOMAIN G /\ H[x].status = "open" =>
            \E i \in DOMAIN B : B[i].gid = x
  BY DEF Leaves, Fresh
<1>11. \A l \in DOMAIN B : Below(H, B[l].gid) = {}
  BY <1>9, <1>10, NothingBelow
<1>12. \A k \in DOMAIN T : T[k].gid \in DOMAIN G
  BY <1>1, <1>3, <1>8 DEF Stood
<1>13. \A k \in DOMAIN T : T[k].parent # h
  BY <1>1, <1>3, <1>8, <1>9, TopLeftNone
<1>14. \A k \in DOMAIN T, l \in DOMAIN B :
         /\ T[k].gid # B[l].gid
         /\ InTurn(H, T[k], B[l]) /\ T[k].gid \notin Below(H, B[l].gid)
  BY <1>10, <1>11, <1>12, <1>13 DEF InTurn
<1>15. T[n] = e /\ n \in DOMAIN T /\ \A k \in DOMAIN T : ~ (k > n)
  BY <1>3, <1>4
<1>16. Stood(H, S)
  <2>1. \A k, l \in DOMAIN B : k < l =>
          InTurn(H, B[k], B[l]) /\ B[k].gid \notin Below(H, B[l].gid)
    BY <1>10, <1>11
  <2>2. \A k \in DOMAIN B :
           /\ Entered(B[k]) /\ B[k].gid \in DOMAIN H
           /\ B[k].parent = T[n].gid /\ Near(H, B[k].gid, T[n].gid)
    BY <1>10, <1>15
  <2>3. \A k \in DOMAIN B : k # Len(B) => B[k].undo = "none"
    BY <1>10
  <2>4. T[n].undo # "none" /\ \A k \in DOMAIN T : k > n => T[k].undo = "none"
    BY <1>15
  <2> QED BY <1>7, <1>10, <1>14, <1>15, <2>1, <2>2, <2>3, <2>4, PushStood
<1>17. /\ Listed(S) /\ DOMAIN S = 1..(n + Len(B)) /\ Len(B) \in Nat /\ DOMAIN B = 1..Len(B)
       /\ \A i \in 1..n : S[i] = T[i]
       /\ \A i \in 1..Len(B) : S[n + i] = B[i]
  BY <1>3, <1>4, <1>10, JoinIs
<1> DEFINE m == Len(B)
<1> HIDE DEF S, m
<1>18. \A i \in DOMAIN S : (i \in DOMAIN A /\ S[i] = T[i]) \/ (i - n \in DOMAIN B /\ S[i] = B[i - n])
  <2> SUFFICES ASSUME NEW i \in DOMAIN S
               PROVE  (i \in DOMAIN A /\ S[i] = T[i]) \/ (i - n \in DOMAIN B /\ S[i] = B[i - n])
    OBVIOUS
  <2>1. CASE i \in 1..n
    BY <1>4, <1>17, <2>1
  <2>2. CASE i \notin 1..n
    <3>1. i - n \in 1..m /\ n + (i - n) = i
      BY <1>4, <1>17, <2>2 DEF m
    <3> QED BY <1>17, <3>1 DEF m
  <2> QED BY <2>1, <2>2
<1>19. /\ \A i \in DOMAIN A : i \in DOMAIN S /\ S[i] = T[i]
       /\ \A i \in DOMAIN B : n + i \in DOMAIN S /\ S[n + i] = B[i]
  BY <1>4, <1>17
<1>20. Worked(H, S)
  <2>1. \A i \in DOMAIN A : T[i].undo # "none" => H[T[i].gid].status \in Done
    BY <1>3, <1>6
  <2> QED BY <1>10, <1>18, <2>1 DEF Worked
<1>21. Kept(H, S, X)
  <2> SUFFICES ASSUME NEW x \in DOMAIN H, H[x].status = "open", x \notin X
               PROVE  \E i \in DOMAIN S : S[i].gid = x
    BY DEF Kept
  <2>1. CASE x \in DOMAIN G
    <3>1. x # h
      BY DEF Done
    <3>2. \E i \in DOMAIN A : A[i].gid = x
      BY <1>1, <1>6, <2>1, <3>1 DEF Kept
    <3> QED BY <1>8, <1>19, <3>2
  <2>2. CASE x \notin DOMAIN G
    BY <1>10, <1>19, <2>2
  <2> QED BY <2>1, <2>2
<1>22. BaseAt(H, S, b)
  <2>1. 1 \in DOMAIN S /\ S[1] = T[1]
    BY <1>4, <1>19
  <2>2. S # <<>>
    BY <2>1
  <2>3. S[1].gid = b
    BY <1>4, <1>6, <1>8, <2>1
  <2>4. H[b].status = "split" => S[1].undo # "none"
    BY <1>3, <1>4, <1>6, <2>1
  <2> QED BY <1>6, <2>2, <2>3, <2>4 DEF BaseAt
<1>23. b \in DOMAIN H
  BY DEF Follows
<1> QED
  BY <1>16, <1>20, <1>21, <1>22, <1>23 DEF Good, Based, S, T

\* The goals above the last split that may be undone are below it in the tree.
LEMMA AboveIsBelow ==
  ASSUME NEW G, Typed(G), Linked(G), NEW A, Stood(G, A), NEW i \in DOMAIN A,
         A[i].undo # "none", \A k \in DOMAIN A : k > i => A[k].undo = "none",
         NEW j \in DOMAIN A, j > i
  PROVE  A[j].parent = A[i].gid /\ A[j].gid \in Below(G, A[i].gid)
<1> DEFINE n == Len(A)
           x == A[j].gid
           p == A[i].gid
<1>1. /\ Stacked(A) /\ DOMAIN A = 1..n /\ n \in Nat
      /\ \A k \in DOMAIN A : A[k].gid \in DOMAIN G
      /\ \A k \in DOMAIN A : k # 1 => Near(G, A[k].gid, A[k].parent)
  <2>1. PICK S : A \in Seq(S)
    BY DEF Stood, Listed
  <2> QED BY <2>1 DEF Stood
<1> HIDE DEF n
<1>2. j # 1
  BY <1>1
<1>3. PICK h \in 1..(j - 1) : LeftBy(A, h, j)
  BY <1>1, <1>2 DEF Stacked
<1>4. h = i
  <2>1. h \in DOMAIN A
    BY <1>1
  <2>2. ~ (h > i)
    BY <1>3, <2>1 DEF LeftBy
  <2>3. ~ (h < i)
    <3>1. SUFFICES ASSUME h < i PROVE FALSE
      OBVIOUS
    <3>2. i \in (h + 1)..(j - 1)
      BY <1>1, <3>1
    <3> QED BY <1>3, <3>2 DEF LeftBy
  <2> QED BY <1>1, <2>1, <2>2, <2>3
<1>5. A[j].parent = p
  BY <1>3, <1>4 DEF LeftBy
<1>6. Near(G, x, p) /\ x \in DOMAIN G /\ p \in DOMAIN G
  BY <1>1, <1>2, <1>5
<1> HIDE DEF x, p
<1>7. x \in Below(G, p)
  <2>1. CASE G[x].parent = p
    BY <1>6, <2>1, BelowAll
  <2>2. CASE G[G[x].parent].parent = p
    <3>1. G[x].parent \in Below(G, p)
      BY <1>6, <2>2, BelowAll DEF Near
    <3> QED BY <1>6, <3>1, BelowAll
  <2> QED BY <1>6, <2>1, <2>2 DEF Near
<1> QED
  BY <1>5, <1>7 DEF x, p

\* The last split that may be undone is, and the goal goes on with its next move.
LEMMA UndoneKeeps ==
  ASSUME NEW G, NEW A, NEW X, Whole(G), Good(G, A, X), NEW i \in DOMAIN A,
         A[i].undo # "none", \A k \in DOMAIN A : k > i => A[k].undo = "none",
         G[A[i].gid].status = "split",
         NEW T, Listed(T), DOMAIN T = 1..i, \A k \in 1..i : k # i => T[k] = A[k],
         Entered(T[i]), T[i].gid = A[i].gid, T[i].parent = A[i].parent, T[i].undo = "none"
  PROVE  LET H == Unsplit(G, A[i].gid)
         IN  Whole(H) /\ Good(H, T, X \cap DOMAIN H)
<1> DEFINE p == A[i].gid
           H == Unsplit(G, p)
           n == Len(A)
           Q == SubSeq(A, 1, i)
<1>1. Stood(G, A) /\ Worked(G, A) /\ Kept(G, A, X) /\ Listed(A) /\ Once(A)
  BY DEF Good, Stood
<1>2. Typed(G) /\ Linked(G) /\ p \in DOMAIN G
  BY <1>1 DEF Whole, Sound, Stood
<1>3. PICK b \in DOMAIN G : BaseAt(G, A, b)
  BY DEF Good, Based
<1>4. DOMAIN A = 1..n /\ n \in Nat
  <2>1. PICK S : A \in Seq(S)
    BY <1>1 DEF Listed
  <2> QED BY <2>1
<1> HIDE DEF n
<1>5. i \in 0..n /\ i \in Nat /\ i \in 1..i /\ 1 \in 1..i
  BY <1>4
<1>6. UnsplitOf(G, H, p)
  BY <1>2, UnsplitIs
<1>7. Sound(H, AllShown)
  <2>1. G[p].status = "split" /\ Sound(G, AllShown)
    BY DEF Whole
  <2> QED BY <1>2, <2>1, UnsplitSound
<1> HIDE DEF H
<1>8. /\ Typed(H) /\ Linked(H) /\ DOMAIN H = DOMAIN G \ Below(G, p) /\ p \in DOMAIN H
      /\ H[p] = [G[p] EXCEPT !.status = "open", !.children = {}]
      /\ \A x \in DOMAIN H \ {p} : H[x] = G[x]
  BY <1>6 DEF UnsplitOf
<1>9. Whole(H)
  BY <1>7, <1>8 DEF Whole
<1>10. G[p] \in Goals
  BY <1>2 DEF Typed
<1>11. /\ H[p].status = "open" /\ H[p].children = {} /\ H[p].parent = G[p].parent
       /\ H[p].role = G[p].role /\ H[p].cut = G[p].cut
  BY <1>8, <1>10 DEF Goals
<1>12. Kin(G, H)
  BY <1>8, <1>11 DEF Kin
<1>13. Stood(G, Q) /\ Listed(Q) /\ Len(Q) = i /\ DOMAIN Q = 1..i /\ \A k \in 1..i : Q[k] = A[k]
  <2>1. i \in 0..Len(A)
    BY <1>5 DEF n
  <2> QED BY <1>1, <2>1, PrefixStood, PrefixIs
<1> HIDE DEF Q
<1>14. \A k \in 1..i : T[k].gid = A[k].gid /\ T[k].parent = A[k].parent
  OBVIOUS
<1>15. Stood(G, T)
  <2>1. \A k \in DOMAIN Q : k # Len(Q) => T[k] = Q[k]
    BY <1>13
  <2>2. \A k \in DOMAIN Q : k = Len(Q) =>
          Entered(T[k]) /\ T[k].gid = Q[k].gid /\ T[k].parent = Q[k].parent
    BY <1>13
  <2> QED BY <1>13, <2>1, <2>2, LikeStood
<1>16. \A k \in 1..i : k \in DOMAIN A /\ A[k].gid \in DOMAIN G /\ A[k].gid \notin Below(G, p)
  <2>1. \A k \in 1..i : k \in DOMAIN A /\ (k = i \/ k < i)
    BY <1>4
  <2>2. p \notin Below(G, p)
    BY <1>2, BelowYounger
  <2> QED BY <1>1, <2>1, <2>2 DEF Stood
<1>17. \A k \in DOMAIN T : T[k].gid \in DOMAIN H
  BY <1>8, <1>14, <1>16
<1>18. Stood(H, T)
  BY <1>2, <1>8, <1>12, <1>15, <1>17, TreeStood
<1>19. Worked(H, T)
  <2> SUFFICES ASSUME NEW k \in 1..i, T[k].undo # "none"
               PROVE  H[T[k].gid].status \in Done
    BY DEF Worked
  <2>1. k # i /\ T[k] = A[k]
    OBVIOUS
  <2>2. A[k].gid # p
    BY <1>1, <1>16, <2>1 DEF Once
  <2> QED BY <1>1, <1>8, <1>16, <2>1, <2>2 DEF Worked
<1>20. Kept(H, T, X \cap DOMAIN H)
  <2> SUFFICES ASSUME NEW x \in DOMAIN H, H[x].status = "open", x \notin X
               PROVE  \E k \in 1..i : T[k].gid = x
    BY DEF Kept
  <2>1. CASE x = p
    BY <1>5, <2>1
  <2>2. CASE x # p
    <3>1. x \in DOMAIN G /\ G[x].status = "open" /\ x \notin Below(G, p)
      BY <1>8, <2>2
    <3>2. PICK j \in DOMAIN A : A[j].gid = x
      BY <1>1, <3>1 DEF Kept
    <3>3. ~ (j > i)
      BY <1>1, <1>2, <3>1, <3>2, AboveIsBelow
    <3>4. j \in 1..i
      BY <1>4, <1>5, <3>3
    <3> QED BY <1>14, <3>2, <3>4
  <2> QED BY <2>1, <2>2
<1>21. BaseAt(H, T, b)
  <2>1. BaseOf(G, b) /\ A[1].gid = b /\ (G[b].status = "split" => A[1].undo # "none")
    BY <1>1, <1>3, <1>5, <1>16 DEF BaseAt
  <2>2. b \in DOMAIN H /\ T[1].gid = b
    BY <1>5, <1>14, <1>17, <2>1
  <2>3. T # <<>>
    BY <1>5
  <2>4. b # Root => p = b \/ (p # Root /\ G[p].parent # Root)
    BY <1>1, <1>2, <2>1, BelowBase
  <2>5. BaseIs(H, b)
    <3>1. CASE b = Root
      BY <3>1 DEF BaseIs
    <3>2. CASE b # Root
      <4>1. PICK c \in DOMAIN G :
              /\ c # b /\ G[Root].children = {b, c}
              /\ G[c].status = "proved" /\ G[c].children = {} /\ G[c].cut = "alone"
        BY <2>1, <3>2 DEF BaseOf, BaseIs
      <4>2. /\ G[Root].status = "split" /\ G[b].role = "outer" /\ G[b].cut = "alone"
            /\ Root \in DOMAIN G
        BY <1>2, <2>1, <3>2 DEF BaseOf, BaseIs, Typed
      <4>3. G[c].parent = Root
        BY <1>2, <4>1, <4>2 DEF Linked
      <4>4. p # Root /\ p # c
        BY <2>4, <3>2, <4>1, <4>3
      <4>5. Root \notin Below(G, p)
        BY <1>2, BelowYounger
      <4>6. c \notin Below(G, p)
        BY <4>3, <4>4, <4>5, InnerOfBelow DEF Below
      <4>7. H[Root] = G[Root] /\ H[c] = G[c] /\ c \in DOMAIN H
        BY <1>8, <4>2, <4>4, <4>5, <4>6
      <4>8. H[b].role = "outer" /\ H[b].cut = "alone"
        BY <1>12, <2>2, <4>2 DEF Kin
      <4> QED BY <3>2, <4>1, <4>2, <4>7, <4>8 DEF BaseIs
    <3> QED BY <3>1, <3>2
  <2>6. BaseOf(H, b)
    BY <1>8, <1>11, <2>1, <2>2, <2>5 DEF BaseOf
  <2>7. H[b].status = "split" => T[1].undo # "none"
    <3> SUFFICES ASSUME H[b].status = "split" PROVE T[1].undo # "none"
      OBVIOUS
    <3>1. b # p /\ G[b].status = "split"
      BY <1>8, <1>11, <2>2
    <3>2. 1 # i
      BY <2>1, <3>1
    <3> QED BY <1>5, <2>1, <3>1, <3>2
  <2> QED BY <2>2, <2>3, <2>6, <2>7 DEF BaseAt
<1>22. b \in DOMAIN H
  BY <1>21 DEF BaseAt, BaseOf
<1> QED
  BY <1>9, <1>18, <1>19, <1>20, <1>21, <1>22 DEF Good, Based, H

\* What is below a goal that is below another is below that one.
LEMMA BelowOn ==
  ASSUME NEW G, Typed(G), Linked(G), NEW p \in DOMAIN G, NEW s \in Below(G, p)
  PROVE  Below(G, s) \subseteq Below(G, p)
<1>1. \A y \in DOMAIN G : G[y].parent \in {s} \cup Below(G, p) => y \in Below(G, p)
  BY BelowAll
<1> QED
  BY <1>1, BelowLeast

\* Where the goal in hand was left: by the split of an entry i, above which nothing is split.
\* Its brothers are all below that, and no goal whose split may be undone is.
LEMMA TopWasLeft ==
  ASSUME NEW G, Typed(G), Linked(G), NEW A, Stood(G, A), A # <<>>, Len(A) # 1
  PROVE  \E i \in DOMAIN A :
           LET h == A[Len(A)].gid
               p == A[i].gid
           IN  /\ i < Len(A) /\ p = A[Len(A)].parent /\ A[i].undo # "none"
               /\ \A k \in (i + 1)..(Len(A) - 1) : A[k].undo = "none" /\ A[k].parent = p
               /\ G[h].parent \in DOMAIN G /\ p \in DOMAIN G
               /\ G[h].parent = p \/ G[G[h].parent].parent = p
               /\ G[G[h].parent].children \subseteq Below(G, p)
               /\ \A k \in 1..i : A[k].gid \notin Below(G, p)
<1> DEFINE n == Len(A)
           h == A[n].gid
<1>1. /\ n \in Nat \ {0} /\ DOMAIN A = 1..n /\ Stacked(A)
      /\ \A k \in DOMAIN A : A[k].gid \in DOMAIN G
      /\ \A k \in DOMAIN A : k # 1 => Near(G, A[k].gid, A[k].parent)
  BY FrontIs DEF Stood
<1>2. n # 1
  OBVIOUS
<1> HIDE DEF n
<1>3. PICK i \in 1..(n - 1) : LeftBy(A, i, n)
  <2>1. n \in DOMAIN A
    BY <1>1
  <2> QED BY <1>1, <1>2, <2>1 DEF Stacked
<1> DEFINE p == A[i].gid
           c == G[h].parent
<1>4. /\ i \in DOMAIN A /\ i < n /\ n \in DOMAIN A /\ p = A[n].parent /\ A[i].undo # "none"
      /\ \A k \in (i + 1)..(n - 1) : A[k].undo = "none"
  BY <1>1, <1>3 DEF LeftBy
<1>5. Near(G, h, p) /\ p \in DOMAIN G /\ h \in DOMAIN G
  BY <1>1, <1>2, <1>4
<1>6. c \in DOMAIN G /\ (c = p \/ G[c].parent = p)
  BY <1>5 DEF Near
<1>7. ASSUME NEW k \in (i + 1)..(n - 1) PROVE A[k].parent = p
  <2>1. k \in DOMAIN A /\ k # 1 /\ k > i
    BY <1>1, <1>4
  <2>2. PICK m \in 1..(k - 1) : LeftBy(A, m, k)
    BY <1>1, <2>1 DEF Stacked
  <2>3. m = i
    <3>1. ~ (m > i)
      <4> SUFFICES ASSUME m > i PROVE FALSE
        OBVIOUS
      <4>1. m \in (i + 1)..(n - 1)
        BY <1>1
      <4> QED BY <1>4, <2>2, <4>1 DEF LeftBy
    <3>2. ~ (m < i)
      <4> SUFFICES ASSUME m < i PROVE FALSE
        OBVIOUS
      <4>1. i \in (m + 1)..(k - 1)
        BY <1>1
      <4> QED BY <1>4, <2>2, <4>1 DEF LeftBy
    <3> QED BY <3>1, <3>2
  <2> QED BY <2>2, <2>3 DEF LeftBy
<1> HIDE DEF p, c
<1>8. G[c].children \subseteq Below(G, p)
  <2> SUFFICES ASSUME NEW s \in G[c].children PROVE s \in Below(G, p)
    OBVIOUS
  <2>1. s \in DOMAIN G /\ G[s].parent = c
    BY <1>6 DEF Linked
  <2>2. c = p \/ c \in Below(G, p)
    BY <1>5, <1>6, BelowAll
  <2> QED BY <1>5, <2>1, <2>2, BelowAll
<1>9. ASSUME NEW k \in 1..i PROVE A[k].gid \notin Below(G, p)
  <2>1. k \in DOMAIN A /\ (k = i \/ k < i)
    BY <1>1
  <2>2. p \notin Below(G, p)
    BY <1>5, BelowYounger
  <2> QED BY <1>4, <2>1, <2>2 DEF Stood, p
<1> QED
  BY <1>4, <1>5, <1>6, <1>7, <1>8, <1>9 DEF n, p, c

\* Goals to search again, brothers of the goal in hand that are not on the agenda.
Back(G, A, B) ==
  LET top == A[Len(A)] IN
  /\ Listed(B) /\ Once(B)
  /\ \A k \in DOMAIN B :
       /\ Entered(B[k]) /\ B[k].undo = "none" /\ B[k].parent = top.parent
       /\ B[k].gid \in G[G[top.gid].parent].children \ {top.gid}
       /\ \A i \in DOMAIN A : A[i].gid # B[k].gid

\* They stand where the goal in hand did, left by the same split.
LEMMA BackStands ==
  ASSUME NEW G, Typed(G), Linked(G), NEW A, Stood(G, A), A # <<>>, Len(A) # 1,
         G[A[Len(A)].gid].role = "callee", NEW B, Back(G, A, B)
  PROVE  Stood(G, Front(A) \o B)
<1> DEFINE n == Len(A)
           h == A[n].gid
           c == G[h].parent
           F == Front(A)
           S == F \o B
<1>1. /\ n \in Nat \ {0} /\ DOMAIN A = 1..n /\ F = SubSeq(A, 1, n - 1)
      /\ Listed(F) /\ Len(F) = n - 1 /\ DOMAIN F = 1..(n - 1)
      /\ \A k \in 1..(n - 1) : F[k] = A[k]
  BY FrontIs DEF Stood
<1>2. n - 1 \in 0..n
  BY <1>1
<1>3. Stood(G, F)
  BY <1>1, <1>2, PrefixStood
<1>4. PICK i \in DOMAIN A :
        /\ i < n /\ A[i].gid = A[n].parent /\ A[i].undo # "none"
        /\ \A k \in (i + 1)..(n - 1) : A[k].undo = "none" /\ A[k].parent = A[i].gid
        /\ c \in DOMAIN G /\ A[i].gid \in DOMAIN G
        /\ c = A[i].gid \/ G[c].parent = A[i].gid
        /\ G[c].children \subseteq Below(G, A[i].gid)
        /\ \A k \in 1..i : A[k].gid \notin Below(G, A[i].gid)
  BY TopWasLeft
<1> DEFINE p == A[i].gid
<1>5. h \in DOMAIN G /\ n \in DOMAIN A /\ G[h].role = "callee"
  BY <1>1 DEF Stood
<1>6. /\ Listed(B) /\ Once(B)
      /\ \A k \in DOMAIN B :
           /\ Entered(B[k]) /\ B[k].undo = "none" /\ B[k].parent = p
           /\ B[k].gid \in G[c].children /\ B[k].gid # h
           /\ \A j \in DOMAIN A : A[j].gid # B[k].gid
  BY <1>4 DEF Back
<1>7. \A j \in DOMAIN A : j < n => InTurn(G, A[j], A[n])
  BY <1>5 DEF Stood
<1> HIDE DEF n, h, c, F, p
<1>8. \A s \in G[c].children :
        s \in DOMAIN G /\ G[s].parent = c /\ s \in Below(G, p) /\ Near(G, s, p)
  BY <1>4 DEF Linked, Near, p
<1>9. DOMAIN G \subseteq Nat /\ c \in DOMAIN G /\ p \in DOMAIN G
  BY <1>4 DEF Typed, p
<1>10. \A s \in G[c].children : s > c /\ ~ (c < p)
  <2>1. \A s \in G[c].children : s > c
    <3>1. \A s \in G[c].children : s # Root
      BY <1>8, <1>9 DEF Linked, Typed
    <3> QED BY <1>8, <1>9, <3>1 DEF Linked
  <2>2. ~ (c < p)
    <3>1. CASE c = p
      BY <1>9, <3>1
    <3>2. CASE c # p
      <4>1. G[c].parent = p
        BY <1>4, <3>2 DEF p
      <4>2. c # Root
        BY <1>9, <4>1 DEF Linked, Typed
      <4> QED BY <1>9, <4>1, <4>2 DEF Linked
    <3> QED BY <3>1, <3>2
  <2> QED BY <2>1, <2>2
<1>11. \A k, l \in DOMAIN B : k < l =>
         InTurn(G, B[k], B[l]) /\ B[k].gid \notin Below(G, B[l].gid)
  <2> SUFFICES ASSUME NEW k \in DOMAIN B, NEW l \in DOMAIN B
               PROVE  InTurn(G, B[k], B[l]) /\ B[k].gid \notin Below(G, B[l].gid)
    OBVIOUS
  <2> DEFINE s == B[l].gid
             y == B[k].gid
  <2>1. G[y].parent = c /\ G[s].parent = c /\ s \in DOMAIN G /\ s \in G[c].children
    BY <1>6, <1>8
  <2>2. InTurn(G, B[k], B[l])
    BY <2>1 DEF InTurn
  <2>3. y \notin Below(G, s)
    <3>1. c < s
      BY <1>9, <1>10, <2>1
    <3> QED BY <2>1, <3>1, BelowParent
  <2> QED BY <2>2, <2>3
<1>12. ASSUME NEW k \in DOMAIN F, NEW l \in DOMAIN B
       PROVE  /\ F[k].gid # B[l].gid
              /\ InTurn(G, F[k], B[l]) /\ F[k].gid \notin Below(G, B[l].gid)
  <2> DEFINE s == B[l].gid
             y == A[k].gid
  <2>1. F[k] = A[k] /\ k \in DOMAIN A /\ k < n /\ (k \in 1..i \/ k \in (i + 1)..(n - 1))
    BY <1>1, <1>4
  <2>2. s \in G[c].children /\ y # s /\ B[l].parent = p /\ y \in DOMAIN G
    BY <1>6, <2>1 DEF Stood
  <2>3. s \in DOMAIN G /\ G[s].parent = c /\ s \in Below(G, p) /\ s > c /\ ~ (c < p)
    BY <1>8, <1>10, <2>2
  <2>4. A[n].parent = p /\ G[h].parent = c /\ A[n].gid = h
    BY <1>4 DEF p, c, h
  <2>5. A[k].parent = p /\ G[y].parent # p => G[y].parent = c
    BY <1>5, <1>7, <2>1, <2>4 DEF InTurn
  <2>6. InTurn(G, A[k], B[l])
    BY <2>2, <2>3, <2>5 DEF InTurn
  <2>7. y \notin Below(G, s)
    <3>1. CASE k \in 1..i
      <4>1. y \notin Below(G, p)
        BY <1>4, <3>1 DEF p
      <4> QED BY <1>9, <2>3, <4>1, BelowOn
    <3>2. CASE k \in (i + 1)..(n - 1)
      <4>1. A[k].parent = p
        BY <1>4, <3>2 DEF p
      <4>2. G[y].parent \in {p, c}
        BY <2>5, <4>1
      <4>3. G[y].parent < s
        BY <1>9, <2>3, <4>2
      <4> QED BY <2>3, <4>3, BelowParent
    <3> QED BY <2>1, <3>1, <3>2
  <2> QED BY <2>1, <2>2, <2>6, <2>7
<1>13. i \in DOMAIN F /\ F[i] = A[i] /\ F[i].gid = p
  BY <1>1, <1>4 DEF p
<1>14. \A k \in DOMAIN F : k > i => F[k].undo = "none"
  <2>1. \A k \in DOMAIN F : k > i => k \in (i + 1)..(n - 1) /\ F[k] = A[k]
    BY <1>1, <1>13
  <2> QED BY <1>4, <2>1
<1>15. \A k \in DOMAIN B :
         /\ Entered(B[k]) /\ B[k].gid \in DOMAIN G
         /\ B[k].parent = F[i].gid /\ Near(G, B[k].gid, F[i].gid)
  BY <1>6, <1>8, <1>13
<1>16. F[i].undo # "none"
  BY <1>4, <1>13
<1>17. \A k \in DOMAIN B : k # Len(B) => B[k].undo = "none"
  BY <1>6
<1> QED
  BY <1>3, <1>6, <1>11, <1>12, <1>13, <1>14, <1>15, <1>16, <1>17, PushStood DEF F

\* The goal in hand may stay above them.
LEMMA TopAgain ==
  ASSUME NEW G, Typed(G), Linked(G), NEW A, Stood(G, A), A # <<>>, Len(A) # 1,
         G[A[Len(A)].gid].role = "callee", A[Len(A)].undo = "none", NEW B, Back(G, A, B)
  PROVE  Stood(G, (Front(A) \o B) \o <<A[Len(A)]>>)
<1> DEFINE n == Len(A)
           e == A[n]
           h == e.gid
           c == G[h].parent
           F == Front(A)
           S == F \o B
           E == <<e>>
<1>1. /\ n \in Nat \ {0} /\ DOMAIN A = 1..n
      /\ Listed(F) /\ Len(F) = n - 1 /\ DOMAIN F = 1..(n - 1)
      /\ \A k \in 1..(n - 1) : F[k] = A[k]
  BY FrontIs DEF Stood
<1>2. Stood(G, S)
  BY BackStands
<1>3. PICK i \in DOMAIN A :
        /\ i < n /\ A[i].gid = e.parent /\ A[i].undo # "none"
        /\ \A k \in (i + 1)..(n - 1) : A[k].undo = "none"
        /\ c \in DOMAIN G
  BY TopWasLeft
<1> DEFINE p == A[i].gid
<1>4. h \in DOMAIN G /\ n \in DOMAIN A
  BY <1>1 DEF Stood
<1>5. /\ Listed(B)
      /\ \A k \in DOMAIN B :
           /\ B[k].undo = "none" /\ B[k].parent = p
           /\ B[k].gid \in G[c].children /\ B[k].gid # h
  BY <1>3 DEF Back
<1>6. /\ \A j \in DOMAIN A : j < n =>
           InTurn(G, A[j], e) /\ A[j].gid \notin Below(G, h) /\ A[j].gid # h
      /\ Entered(e) /\ Near(G, h, e.parent)
  BY <1>1, <1>4 DEF Stood, Once
<1>7. e.undo = "none" /\ e.parent = p
  BY <1>3
<1>8. Listed(E) /\ Len(E) = 1 /\ E[1] = e /\ DOMAIN E = {1}
  BY OneIs
<1> DEFINE m == Len(B)
<1>9. /\ Listed(F) /\ Listed(B) /\ m \in Nat /\ DOMAIN B = 1..m
      /\ DOMAIN S = 1..((n - 1) + m)
      /\ \A k \in 1..(n - 1) : S[k] = F[k]
      /\ \A k \in 1..m : S[(n - 1) + k] = B[k]
  <2> HIDE DEF n, F
  <2>1. /\ Listed(F) /\ Listed(B) /\ Len(B) \in Nat /\ DOMAIN B = 1..Len(B)
        /\ DOMAIN S = 1..(Len(F) + Len(B))
        /\ \A k \in 1..Len(F) : S[k] = F[k]
        /\ \A k \in 1..Len(B) : S[Len(F) + k] = B[k]
    BY <1>1, <1>5, JoinIs
  <2> QED BY <1>1, <2>1
<1> HIDE DEF n, e, h, c, F, S, E, m, p
<1>10. ASSUME NEW k \in DOMAIN S
       PROVE  \/ k \in DOMAIN A /\ k < n /\ S[k] = A[k]
              \/ k - (n - 1) \in DOMAIN B /\ S[k] = B[k - (n - 1)] /\ k > n - 1
  <2>1. CASE k \in 1..(n - 1)
    BY <1>1, <1>9, <2>1
  <2>2. CASE k \notin 1..(n - 1)
    <3>1. k - (n - 1) \in 1..m /\ (n - 1) + (k - (n - 1)) = k
      BY <1>1, <1>9, <2>2
    <3>2. k > n - 1
      BY <1>1, <1>9, <2>2
    <3> QED BY <1>9, <3>1, <3>2
  <2> QED BY <2>1, <2>2
<1>11. i \in DOMAIN S /\ S[i] = A[i] /\ S[i].gid = p
  BY <1>1, <1>3, <1>9 DEF p
<1>12. \A k \in DOMAIN S : k > i => S[k].undo = "none"
  <2> SUFFICES ASSUME NEW k \in DOMAIN S, k > i PROVE S[k].undo = "none"
    OBVIOUS
  <2>1. CASE k \in DOMAIN A /\ k < n /\ S[k] = A[k]
    <3>1. k \in (i + 1)..(n - 1)
      BY <1>1, <2>1
    <3> QED BY <1>3, <2>1, <3>1
  <2> QED BY <1>5, <1>10, <2>1
<1>13. \A s \in G[c].children : s \in DOMAIN G /\ G[s].parent = c
  BY <1>3 DEF Linked
<1>14. \A k \in DOMAIN B :
         /\ InTurn(G, B[k], e) /\ B[k].gid \notin Below(G, h)
  <2> SUFFICES ASSUME NEW k \in DOMAIN B
               PROVE  InTurn(G, B[k], e) /\ B[k].gid \notin Below(G, h)
    OBVIOUS
  <2>1. G[B[k].gid].parent = c /\ G[h].parent = c /\ e.gid = h
    BY <1>5, <1>13 DEF c, h
  <2>2. InTurn(G, B[k], e)
    BY <2>1 DEF InTurn
  <2>3. c < h
    <3>1. h # Root
      BY <1>3, <2>1 DEF Linked, Typed
    <3> QED BY <1>4, <2>1, <3>1 DEF Linked
  <2>4. B[k].gid \notin Below(G, h)
    BY <1>4, <2>1, <2>3, BelowParent
  <2> QED BY <2>2, <2>4
<1>15. \A k \in DOMAIN S :
         /\ S[k].gid # h /\ InTurn(G, S[k], e) /\ S[k].gid \notin Below(G, h)
  BY <1>5, <1>6, <1>10, <1>14
<1>16. \A k \in DOMAIN S, l \in DOMAIN E :
         /\ S[k].gid # E[l].gid
         /\ InTurn(G, S[k], E[l]) /\ S[k].gid \notin Below(G, E[l].gid)
  <2>1. e.gid = h
    BY DEF h
  <2> QED BY <1>8, <1>15, <2>1
<1>17. \A k \in DOMAIN E :
         /\ Entered(E[k]) /\ E[k].gid \in DOMAIN G
         /\ E[k].parent = S[i].gid /\ Near(G, E[k].gid, S[i].gid)
  BY <1>4, <1>6, <1>7, <1>8, <1>11 DEF h
<1>18. Once(E) /\ \A k \in DOMAIN E : k # Len(E) => E[k].undo = "none"
  BY <1>8 DEF Once
<1>19. \A k, l \in DOMAIN E : k < l =>
         InTurn(G, E[k], E[l]) /\ E[k].gid \notin Below(G, E[l].gid)
  BY <1>8
<1>20. S[i].undo # "none"
  BY <1>3, <1>11
<1>21. Stood(G, S \o E)
  BY <1>2, <1>8, <1>11, <1>12, <1>16, <1>17, <1>18, <1>19, <1>20, PushStood
<1> QED
  BY <1>21 DEF S, E, F, e, n

\* Of the goals in D, those that are open are on the agenda or among those put back.
Covers(H, A, B, D) ==
  \A x \in D : H[x].status = "open" =>
    (\E i \in DOMAIN A : A[i].gid = x) \/ (\E k \in DOMAIN B : B[k].gid = x)

\* The agenda with B put back, under the goal in hand or, unless that is open, in its place.
Requeues(H, A, B, X, h) ==
  LET Y == X \ {B[k].gid : k \in DOMAIN B}
  IN  /\ H[h].status # "open" => Good(H, Front(A) \o B, Y)
      /\ Good(H, (Front(A) \o B) \o <<A[Len(A)]>>, Y)

\* A strengthen of the cut that left the goal in hand: its goals that are open again are put
\* back, and the goal in hand is still there, or is not open.
LEMMA RequeueKeeps ==
  ASSUME NEW G, NEW H, NEW A, NEW X, Whole(G), Whole(H), Good(G, A, X), A # <<>>,
         NEW h, h = A[Len(A)].gid, A[Len(A)].undo = "none", G[h].role = "callee",
         NEW C, C \subseteq G[G[h].parent].children, h \in C,
         Follows(G, H, C), Unknown(H), DOMAIN H = DOMAIN G,
         NEW B, Back(G, A, B),
         Covers(H, A, B, C \ {h})
  PROVE  Requeues(H, A, B, X, h)
<1> DEFINE n == Len(A)
           e == A[n]
           c == G[h].parent
           F == Front(A)
           Q == F \o B
           R == Q \o <<e>>
           Y == X \ {B[k].gid : k \in DOMAIN B}
<1>1. Stood(G, A) /\ Worked(G, A) /\ Kept(G, A, X) /\ Listed(A) /\ Once(A)
  BY DEF Good, Stood
<1>2. PICK b \in DOMAIN G : BaseAt(G, A, b)
  BY DEF Good, Based
<1>3. /\ n \in Nat \ {0} /\ DOMAIN A = 1..n
      /\ Listed(F) /\ Len(F) = n - 1 /\ DOMAIN F = 1..(n - 1)
      /\ \A k \in 1..(n - 1) : F[k] = A[k]
  BY <1>1, FrontIs
<1>4. A[1].gid = b /\ BaseOf(G, b) /\ (G[b].status = "split" => A[1].undo # "none")
  BY <1>2 DEF BaseAt
<1>5. b # h /\ Len(A) # 1
  BY <1>4 DEF BaseOf
<1>6. Typed(G) /\ Linked(G) /\ Typed(H) /\ Linked(H) /\ Kin(G, H)
  BY DEF Whole, Sound, Follows
<1>7. PICK i \in DOMAIN A :
        /\ i < n /\ A[i].undo # "none"
        /\ \A k \in (i + 1)..(n - 1) : A[k].undo = "none"
        /\ c \in DOMAIN G
        /\ G[c].children \subseteq Below(G, A[i].gid)
        /\ \A k \in 1..i : A[k].gid \notin Below(G, A[i].gid)
  BY <1>1, <1>5, <1>6, TopWasLeft
<1>8. /\ Stood(G, Q) /\ Stood(G, R)
  BY <1>1, <1>5, <1>6, BackStands, TopAgain
<1>9. Listed(B)
  BY DEF Back
<1> DEFINE m == Len(B)
<1>10. /\ Listed(Q) /\ m \in Nat /\ DOMAIN B = 1..m /\ Len(Q) = (n - 1) + m
       /\ DOMAIN Q = 1..((n - 1) + m)
       /\ \A k \in 1..(n - 1) : Q[k] = A[k]
       /\ \A k \in 1..m : Q[(n - 1) + k] = B[k]
  <2> HIDE DEF n, F
  <2>1. /\ Listed(Q) /\ m \in Nat /\ DOMAIN B = 1..m /\ Len(Q) = Len(F) + m
        /\ DOMAIN Q = 1..(Len(F) + m)
        /\ \A k \in 1..Len(F) : Q[k] = F[k]
        /\ \A k \in 1..m : Q[Len(F) + k] = B[k]
    BY <1>3, <1>9, JoinIs
  <2> QED BY <1>3, <2>1
<1>11. /\ DOMAIN R = 1..((n - 1) + m + 1)
       /\ \A k \in 1..((n - 1) + m) : R[k] = Q[k]
       /\ R[(n - 1) + m + 1] = e
  <2>1. Listed(<<e>>) /\ Len(<<e>>) = 1 /\ <<e>>[1] = e
    BY OneIs
  <2> HIDE DEF n, Q, e
  <2>2. /\ DOMAIN R = 1..(Len(Q) + Len(<<e>>))
        /\ \A k \in 1..Len(Q) : R[k] = Q[k]
        /\ \A k \in 1..Len(<<e>>) : R[Len(Q) + k] = <<e>>[k]
    BY <1>10, <2>1, JoinIs
  <2>3. 1 \in 1..Len(<<e>>)
    BY <2>1
  <2>4. R[Len(Q) + 1] = e
    BY <2>1, <2>2, <2>3
  <2> QED BY <1>10, <2>1, <2>2, <2>4
<1>12. \A k \in DOMAIN B : B[k].undo = "none"
  BY DEF Back
<1>13. e.undo = "none" /\ e.gid = h
  OBVIOUS
<1> HIDE DEF n, e, c, F, Q, R, Y, m
<1>14. ASSUME NEW k \in DOMAIN A, k < n, A[k].undo # "none"
       PROVE  H[A[k].gid].status \in Done
  <2>1. k \in 1..i
    <3>1. k \in 1..i \/ k \in (i + 1)..(n - 1)
      BY <1>3, <1>7, <1>14
    <3> QED BY <1>7, <1>14, <3>1
  <2>2. A[k].gid \notin C
    BY <1>7, <2>1 DEF c
  <2>3. A[k].gid \in DOMAIN G /\ G[A[k].gid].status \in Done
    BY <1>1, <1>14 DEF Stood, Worked
  <2> QED BY <2>2, <2>3 DEF Follows
<1>15. BaseOf(H, b) /\ H[b].status = G[b].status
  <2>1. b \notin C
    <3>1. 1 \in 1..i
      BY <1>3
    <3> QED BY <1>4, <1>7, <3>1 DEF c
  <2>2. b # Root => \A x \in C : x \in DOMAIN G => x = b \/ (x # Root /\ G[x].parent # Root)
    <3> SUFFICES ASSUME b # Root, NEW x \in C, x \in DOMAIN G
                 PROVE  x # Root /\ G[x].parent # Root
      OBVIOUS
    <3>1. n \in DOMAIN A /\ A[n].gid = h
      BY <1>3 DEF n
    <3>2. c # Root
      <4>1. Stood(G, A) /\ A[1].gid = b /\ Typed(G) /\ Linked(G)
        BY <1>1, <1>4, <1>6
      <4>2. A[n].gid = b \/ (A[n].gid # Root /\ G[A[n].gid].parent # Root)
        BY <3>1, <4>1, BelowBase
      <4> QED BY <1>5, <3>1, <4>2 DEF c
    <3>3. G[x].parent = c
      BY <1>6, <1>7 DEF Linked, c
    <3>4. x # Root
      BY <1>6, <1>7, <3>3 DEF Linked, Typed
    <3> QED BY <3>2, <3>3, <3>4
  <2> QED BY <1>4, <2>1, <2>2, BaseFollows
<1>16. ASSUME NEW S, Stood(G, S), 1 \in DOMAIN S, S[1] = A[1],
              \A k \in DOMAIN S : S[k].undo = "none" \/ \E j \in DOMAIN A : j < n /\ S[k] = A[j],
              \A j \in DOMAIN A : j < n => \E k \in DOMAIN S : S[k] = A[j],
              \A j \in DOMAIN B : \E k \in DOMAIN S : S[k] = B[j],
              H[h].status = "open" => \E k \in DOMAIN S : S[k].gid = h
       PROVE  Good(H, S, Y)
  <2>1. Stood(H, S)
    <3>1. \A k \in DOMAIN S : S[k].gid \in DOMAIN H
      BY <1>16 DEF Stood
    <3> QED BY <1>6, <1>16, <3>1, TreeStood
  <2>2. Worked(H, S)
    BY <1>14, <1>16 DEF Worked
  <2>3. Kept(H, S, Y)
    <3> SUFFICES ASSUME NEW x \in DOMAIN H, H[x].status = "open", x \notin Y
                 PROVE  \E k \in DOMAIN S : S[k].gid = x
      BY DEF Kept
    <3>1. CASE x = h
      BY <1>16, <3>1
    <3>2. CASE x # h
      <4>1. \A j \in DOMAIN A : A[j].gid = x => j < n
        BY <1>3, <3>2 DEF n
      <4>2. (\E j \in DOMAIN A : A[j].gid = x) => \E k \in DOMAIN S : S[k].gid = x
        BY <1>16, <4>1
      <4>3. (\E j \in DOMAIN B : B[j].gid = x) => \E k \in DOMAIN S : S[k].gid = x
        BY <1>16
      <4>4. CASE x \in C
        BY <3>2, <4>2, <4>3, <4>4 DEF Covers
      <4>5. CASE x \notin C
        <5>1. G[x].status = "open"
          BY <4>5 DEF Follows, Done
        <5>2. (\E j \in DOMAIN A : A[j].gid = x) \/ x \in X
          BY <1>1, <5>1 DEF Kept
        <5>3. x \in X => \E j \in DOMAIN B : B[j].gid = x
          BY DEF Y
        <5> QED BY <4>2, <4>3, <5>2, <5>3
      <4> QED BY <4>4, <4>5
    <3> QED BY <3>1, <3>2
  <2>4. BaseAt(H, S, b)
    <3>1. S # <<>>
      BY <1>16
    <3> QED BY <1>4, <1>15, <1>16, <3>1 DEF BaseAt
  <2> QED BY <2>1, <2>2, <2>3, <2>4 DEF Good, Based
<1>17. /\ 1 \in DOMAIN Q /\ Q[1] = A[1]
       /\ \A k \in DOMAIN Q : Q[k].undo = "none" \/ \E j \in DOMAIN A : j < n /\ Q[k] = A[j]
       /\ \A j \in DOMAIN A : j < n => \E k \in DOMAIN Q : Q[k] = A[j]
       /\ \A j \in DOMAIN B : \E k \in DOMAIN Q : Q[k] = B[j]
  <2>1. 1 \in 1..(n - 1)
    BY <1>3, <1>5 DEF n
  <2>2. \A j \in DOMAIN A : j < n => j \in DOMAIN Q /\ Q[j] = A[j]
    BY <1>3, <1>10
  <2>3. \A j \in DOMAIN B : (n - 1) + j \in DOMAIN Q /\ Q[(n - 1) + j] = B[j]
    BY <1>3, <1>10
  <2>4. ASSUME NEW k \in DOMAIN Q, ~ (k < n)
        PROVE  k - (n - 1) \in DOMAIN B /\ (n - 1) + (k - (n - 1)) = k
    BY <1>3, <1>10, <2>4
  <2>5. ASSUME NEW k \in DOMAIN Q
        PROVE  Q[k].undo = "none" \/ \E j \in DOMAIN A : j < n /\ Q[k] = A[j]
    <3>1. CASE k < n
      <4>1. k \in DOMAIN A
        BY <1>3, <1>10, <3>1
      <4> QED BY <2>2, <3>1, <4>1
    <3>2. CASE ~ (k < n)
      <4>1. Q[k] = B[k - (n - 1)] /\ k - (n - 1) \in DOMAIN B
        BY <2>3, <2>4, <3>2
      <4> QED BY <1>12, <4>1
    <3> QED BY <3>1, <3>2
  <2>6. 1 \in DOMAIN A /\ 1 < n
    BY <1>3, <2>1
  <2> QED BY <2>2, <2>3, <2>5, <2>6
<1>18. /\ 1 \in DOMAIN R /\ R[1] = A[1]
       /\ \A k \in DOMAIN R : R[k].undo = "none" \/ \E j \in DOMAIN A : j < n /\ R[k] = A[j]
       /\ \A j \in DOMAIN A : j < n => \E k \in DOMAIN R : R[k] = A[j]
       /\ \A j \in DOMAIN B : \E k \in DOMAIN R : R[k] = B[j]
       /\ \E k \in DOMAIN R : R[k].gid = h
  <2> DEFINE last == (n - 1) + m + 1
  <2>1. /\ \A k \in DOMAIN Q : k \in DOMAIN R /\ R[k] = Q[k]
        /\ last \in DOMAIN R /\ R[last] = e
        /\ \A k \in DOMAIN R : k \in DOMAIN Q \/ k = last
    BY <1>3, <1>10, <1>11
  <2> HIDE DEF last
  <2> QED BY <1>13, <1>17, <2>1
<1>19. H[h].status # "open" => Good(H, Q, Y)
  BY <1>8, <1>16, <1>17
<1>20. Good(H, R, Y)
  BY <1>8, <1>16, <1>18
<1> QED
  BY <1>19, <1>20 DEF Requeues, Y, Q, R, F, e, n

-----------------------------------------------------------------------------
(* The goals that a split leaves on the agenda.                            *)

\* One goal is the other way around what it is, two are ...
LEMMA ReverseOne ==
  ASSUME NEW x
  PROVE  Reverse(<<x>>) = <<x>>
<1> DEFINE s == <<x>>
<1>1. Len(s) = 1 /\ s = [i \in 1..1 |-> s[i]]
  OBVIOUS
<1> HIDE DEF s
<1>2. \A i \in 1..1 : s[(1 - i) + 1] = s[i]
  OBVIOUS
<1>3. Reverse(s) = [i \in 1..1 |-> s[(1 - i) + 1]]
  BY <1>1 DEF Reverse
<1>4. Reverse(s) = s
  BY <1>1, <1>2, <1>3
<1> QED
  BY <1>4 DEF s

\* ... the second and the first, and three likewise.
LEMMA ReverseTwo ==
  ASSUME NEW x, NEW y
  PROVE  Reverse(<<x, y>>) = <<y, x>>
<1> DEFINE s == <<x, y>>
           t == <<y, x>>
<1>1. Len(s) = 2 /\ s[1] = x /\ s[2] = y /\ t[1] = y /\ t[2] = x
  OBVIOUS
<1>2. t = [i \in 1..2 |-> t[i]]
  OBVIOUS
<1> HIDE DEF s, t
<1>3. \A i \in 1..2 : s[(2 - i) + 1] = t[i]
  <2> SUFFICES ASSUME NEW i \in 1..2 PROVE s[(2 - i) + 1] = t[i]
    OBVIOUS
  <2>1. CASE i = 1
    <3>1. (2 - i) + 1 = 2
      BY <2>1
    <3> QED BY <1>1, <2>1, <3>1
  <2>2. CASE i = 2
    <3>1. (2 - i) + 1 = 1
      BY <2>2
    <3> QED BY <1>1, <2>2, <3>1
  <2> QED BY <2>1, <2>2
<1>4. Reverse(s) = [i \in 1..2 |-> s[(2 - i) + 1]]
  BY <1>1 DEF Reverse
<1>5. Reverse(s) = t
  BY <1>2, <1>3, <1>4
<1> QED
  BY <1>5 DEF s, t

\* ... and three.
LEMMA ReverseThree ==
  ASSUME NEW x, NEW y, NEW z
  PROVE  Reverse(<<x, y, z>>) = <<z, y, x>>
<1> DEFINE s == <<x, y, z>>
           t == <<z, y, x>>
<1>1. /\ Len(s) = 3 /\ s[1] = x /\ s[2] = y /\ s[3] = z
      /\ t[1] = z /\ t[2] = y /\ t[3] = x
  OBVIOUS
<1>2. t = [i \in 1..3 |-> t[i]]
  OBVIOUS
<1> HIDE DEF s, t
<1>3. \A i \in 1..3 : s[(3 - i) + 1] = t[i]
  <2> SUFFICES ASSUME NEW i \in 1..3 PROVE s[(3 - i) + 1] = t[i]
    OBVIOUS
  <2>1. CASE i = 1
    <3>1. (3 - i) + 1 = 3
      BY <2>1
    <3> QED BY <1>1, <2>1, <3>1
  <2>2. CASE i = 2
    <3>1. (3 - i) + 1 = 2
      BY <2>2
    <3> QED BY <1>1, <2>2, <3>1
  <2>3. CASE i = 3
    <3>1. (3 - i) + 1 = 1
      BY <2>3
    <3> QED BY <1>1, <2>3, <3>1
  <2> QED BY <2>1, <2>2, <2>3
<1>4. Reverse(s) = [i \in 1..3 |-> s[(3 - i) + 1]]
  BY <1>1 DEF Reverse
<1>5. Reverse(s) = t
  BY <1>2, <1>3, <1>4
<1> QED
  BY <1>5 DEF s, t

\* One goal is left ...
LEMMA LeavesOne ==
  ASSUME NEW G, NEW H, NEW h, NEW e, Fresh(G, H, h, e),
         \A x \in DOMAIN H \ DOMAIN G : H[x].status = "open" => x = e.gid
  PROVE  Leaves(G, H, h, <<e>>)
<1> DEFINE B == <<e>>
<1>1. Listed(B) /\ B[1] = e /\ DOMAIN B = {1}
  BY OneIs
<1> HIDE DEF B
<1>2. Once(B) /\ \A k, l \in DOMAIN B : k < l => InTurn(H, B[k], B[l])
  BY <1>1 DEF Once
<1>3. Leaves(G, H, h, B)
  BY <1>1, <1>2 DEF Leaves
<1> QED
  BY <1>3 DEF B

\* ... or two ...
LEMMA LeavesTwo ==
  ASSUME NEW G, NEW H, NEW h, NEW e, NEW f, Fresh(G, H, h, e), Fresh(G, H, h, f),
         e.gid # f.gid, InTurn(H, f, e),
         \A x \in DOMAIN H \ DOMAIN G : H[x].status = "open" => x \in {e.gid, f.gid}
  PROVE  Leaves(G, H, h, Reverse(<<e, f>>))
<1> DEFINE B == <<f, e>>
<1>1. B[1] = f /\ B[2] = e /\ DOMAIN B = 1..2 /\ B \in Seq({e, f})
  OBVIOUS
<1>2. DOMAIN B = {1, 2}
  BY <1>1
<1> HIDE DEF B
<1>3. Once(B) /\ \A k, l \in DOMAIN B : k < l => InTurn(H, B[k], B[l])
  BY <1>1, <1>2 DEF Once
<1>4. Listed(B)
  BY <1>1 DEF Listed
<1>5. Leaves(G, H, h, B)
  BY <1>1, <1>2, <1>3, <1>4 DEF Leaves
<1> QED
  BY <1>5, ReverseTwo DEF B

\* ... or three.
LEMMA LeavesThree ==
  ASSUME NEW G, NEW H, NEW h, NEW e, NEW f, NEW g,
         Fresh(G, H, h, e), Fresh(G, H, h, f), Fresh(G, H, h, g),
         e.gid # f.gid, f.gid # g.gid, e.gid # g.gid,
         InTurn(H, f, e), InTurn(H, g, f), InTurn(H, g, e),
         \A x \in DOMAIN H \ DOMAIN G : H[x].status = "open" => x \in {e.gid, f.gid, g.gid}
  PROVE  Leaves(G, H, h, Reverse(<<e, f, g>>))
<1> DEFINE B == <<g, f, e>>
<1>1. B[1] = g /\ B[2] = f /\ B[3] = e /\ DOMAIN B = 1..3 /\ B \in Seq({e, f, g})
  OBVIOUS
<1>2. DOMAIN B = {1, 2, 3}
  BY <1>1
<1> HIDE DEF B
<1>3. Once(B) /\ \A k, l \in DOMAIN B : k < l => InTurn(H, B[k], B[l])
  BY <1>1, <1>2 DEF Once
<1>4. Listed(B)
  BY <1>1 DEF Listed
<1>5. Leaves(G, H, h, B)
  BY <1>1, <1>2, <1>3, <1>4 DEF Leaves
<1> QED
  BY <1>5, ReverseThree DEF B

\* What is left of the halves of a split: themselves, unless they are split ...
LEMMA PartsOne ==
  ASSUME NEW T, NEW e, T[e.gid].status # "split"
  PROVE  Parts(T, <<e>>) = <<e>>
<1> DEFINE s == <<e>>
           Of(h) == IF T[h.gid].status # "split" THEN <<h>>
                    ELSE [role \in 1..2 |-> LET half == <<"lhs", "rhs">>[role]
                                            IN  Plain(half, Child(T, h.gid, half), Hand, h.quota)]
           f == [i \in DOMAIN s |-> Of(s[i])]
           t == << <<e>> >>
<1>1. Parts(T, s) = FlattenSeq(f)
  BY DEF Parts
<1>2. s[1] = e /\ DOMAIN s = 1..1 /\ t[1] = <<e>> /\ t = [i \in 1..1 |-> t[i]]
  OBVIOUS
<1>3. Of(e) = <<e>>
  OBVIOUS
<1>4. f = t
  <2> HIDE DEF Of, s, t
  <2>1. \A i \in 1..1 : Of(s[i]) = t[i]
    BY <1>2, <1>3
  <2> QED BY <1>2, <2>1
<1> HIDE DEF f
<1>5. FlattenSeq(f) = <<e>>
  BY <1>4, FlattenOne
<1> QED
  BY <1>1, <1>5

\* Two ...
LEMMA PartsTwo ==
  ASSUME NEW T, NEW e, NEW f, T[e.gid].status # "split", T[f.gid].status # "split"
  PROVE  Parts(T, <<e, f>>) = <<e, f>>
<1> DEFINE s == <<e, f>>
           Of(h) == IF T[h.gid].status # "split" THEN <<h>>
                    ELSE [role \in 1..2 |-> LET half == <<"lhs", "rhs">>[role]
                                            IN  Plain(half, Child(T, h.gid, half), Hand, h.quota)]
           F == [i \in DOMAIN s |-> Of(s[i])]
           t == << <<e>>, <<f>> >>
<1>1. Parts(T, s) = FlattenSeq(F)
  BY DEF Parts
<1>2. /\ s[1] = e /\ s[2] = f /\ DOMAIN s = 1..2
      /\ t[1] = <<e>> /\ t[2] = <<f>> /\ t = [i \in 1..2 |-> t[i]]
  OBVIOUS
<1>3. Of(e) = <<e>> /\ Of(f) = <<f>>
  OBVIOUS
<1>4. F = t
  <2> HIDE DEF Of, s, t
  <2>1. \A i \in 1..2 : Of(s[i]) = t[i]
    <3>1. \A i \in 1..2 : i = 1 \/ i = 2
      OBVIOUS
    <3> QED BY <1>2, <1>3, <3>1
  <2> QED BY <1>2, <2>1
<1> HIDE DEF F
<1>5. FlattenSeq(F) = <<e>> \o <<f>>
  BY <1>4, FlattenTwo
<1>6. <<e>> \o <<f>> = <<e, f>>
  BY JoinOnes
<1> QED
  BY <1>1, <1>5, <1>6

\* ... and three.
LEMMA PartsThree ==
  ASSUME NEW T, NEW e, NEW f, NEW g,
         T[e.gid].status # "split", T[f.gid].status # "split", T[g.gid].status # "split"
  PROVE  Parts(T, <<e, f, g>>) = <<e, f, g>>
<1> DEFINE s == <<e, f, g>>
           Of(h) == IF T[h.gid].status # "split" THEN <<h>>
                    ELSE [role \in 1..2 |-> LET half == <<"lhs", "rhs">>[role]
                                            IN  Plain(half, Child(T, h.gid, half), Hand, h.quota)]
           F == [i \in DOMAIN s |-> Of(s[i])]
           t == << <<e>>, <<f>>, <<g>> >>
<1>1. Parts(T, s) = FlattenSeq(F)
  BY DEF Parts
<1>2. /\ s[1] = e /\ s[2] = f /\ s[3] = g /\ DOMAIN s = 1..3
      /\ t[1] = <<e>> /\ t[2] = <<f>> /\ t[3] = <<g>> /\ t = [i \in 1..3 |-> t[i]]
  OBVIOUS
<1>3. Of(e) = <<e>> /\ Of(f) = <<f>> /\ Of(g) = <<g>>
  OBVIOUS
<1>4. F = t
  <2> HIDE DEF Of, s, t
  <2>1. \A i \in 1..3 : Of(s[i]) = t[i]
    <3>1. \A i \in 1..3 : i = 1 \/ i = 2 \/ i = 3
      OBVIOUS
    <3> QED BY <1>2, <1>3, <3>1
  <2> QED BY <1>2, <2>1
<1> HIDE DEF F
<1>5. FlattenSeq(F) = <<e, f, g>>
  BY <1>4, FlattenThree
<1> QED
  BY <1>1, <1>5

\* ... and for one that is, the goals of its split.
LEMMA PartsNested ==
  ASSUME NEW T, NEW e, NEW f, T[e.gid].status # "split", T[f.gid].status = "split"
  PROVE  Parts(T, <<e, f>>) =
           << e, Plain("lhs", Child(T, f.gid, "lhs"), Hand, f.quota),
                 Plain("rhs", Child(T, f.gid, "rhs"), Hand, f.quota) >>
<1> DEFINE s == <<e, f>>
           l == Plain("lhs", Child(T, f.gid, "lhs"), Hand, f.quota)
           r == Plain("rhs", Child(T, f.gid, "rhs"), Hand, f.quota)
           Of(h) == IF T[h.gid].status # "split" THEN <<h>>
                    ELSE [role \in 1..2 |-> LET half == <<"lhs", "rhs">>[role]
                                            IN  Plain(half, Child(T, h.gid, half), Hand, h.quota)]
           F == [i \in DOMAIN s |-> Of(s[i])]
           t == << <<e>>, <<l, r>> >>
<1>1. Parts(T, s) = FlattenSeq(F)
  BY DEF Parts
<1>2. /\ s[1] = e /\ s[2] = f /\ DOMAIN s = 1..2
      /\ t[1] = <<e>> /\ t[2] = <<l, r>> /\ t = [i \in 1..2 |-> t[i]]
  OBVIOUS
<1>3. Of(e) = <<e>> /\ Of(f) = <<l, r>>
  <2>1. Of(e) = <<e>>
    OBVIOUS
  <2> DEFINE p == [role \in 1..2 |-> LET half == <<"lhs", "rhs">>[role]
                                     IN  Plain(half, Child(T, f.gid, half), Hand, f.quota)]
             q == <<l, r>>
  <2>2. p[1] = l /\ p[2] = r /\ q[1] = l /\ q[2] = r /\ q = [i \in 1..2 |-> q[i]]
    OBVIOUS
  <2>3. p = [i \in 1..2 |-> p[i]]
    OBVIOUS
  <2>4. Of(f) = p
    OBVIOUS
  <2> HIDE DEF p, q
  <2>5. \A i \in 1..2 : p[i] = q[i]
    <3>1. \A i \in 1..2 : i = 1 \/ i = 2
      OBVIOUS
    <3> QED BY <2>2, <3>1
  <2>6. p = q
    BY <2>2, <2>3, <2>5
  <2> QED BY <2>1, <2>4, <2>6 DEF q
<1>4. F = t
  <2> HIDE DEF Of, s, t
  <2>1. \A i \in 1..2 : Of(s[i]) = t[i]
    <3>1. \A i \in 1..2 : i = 1 \/ i = 2
      OBVIOUS
    <3> QED BY <1>2, <1>3, <3>1
  <2> QED BY <1>2, <2>1
<1> HIDE DEF F, l, r
<1>5. FlattenSeq(F) = <<e>> \o <<l, r>>
  BY <1>4, FlattenTwo
<1>6. <<e>> \o <<l, r>> = <<e, l, r>>
  BY JoinOnes, Zenon
<1> QED
  BY <1>1, <1>5, <1>6 DEF l, r

-----------------------------------------------------------------------------
(* The inductive invariant.                                                *)

\* Before the search begins there is the root, or what is left of it once a loop is cut away.
AtRoot(G) ==
  \/ /\ DOMAIN G = {Root} /\ G[Root].status = "open" /\ G[Root].children = {}
     /\ G[Root].role = "root"
  \/ \E b, c \in DOMAIN G :
       /\ DOMAIN G = {Root, b, c} /\ b # Root /\ c # Root /\ b # c
       /\ G[Root].status = "split" /\ G[Root].children = {b, c}
       /\ G[b].role = "outer" /\ G[b].cut = "alone"
       /\ G[b].status = "open" /\ G[b].children = {}
       /\ G[c].role = "callee" /\ G[c].cut = "alone"
       /\ G[c].status = "proved" /\ G[c].children = {}

AllUndone(G) ==
  \A x \in DOMAIN G : G[x].children # {} =>
    x = Root /\ \A c \in G[x].children : G[c].cut = "alone"

Searching == {"search", "repair"}

SearchInv ==
  /\ Whole(tree)
  /\ phase \in Phases
  /\ phase = "root" => AtRoot(tree) /\ agenda = <<>> /\ exhausted = {}
  /\ phase = "gave up" => AllUndone(tree)
  /\ phase \in Searching /\ Unknown(tree) => Good(tree, agenda, exhausted)
  /\ phase = "repair" => agenda # <<>> /\ Top.undo = "none"

\* The run is undecided while the root is neither proved nor refuted.
LEMMA UndecidedIs ==
  Undecided <=> Unknown(tree)
BY DEF Undecided, VerdictOf, Unknown

\* What is true of the goal in hand.
LEMMA InHand ==
  ASSUME SearchInv, phase \in Searching, Undecided, agenda # <<>>
  PROVE  /\ Whole(tree) /\ Typed(tree) /\ Linked(tree) /\ Good(tree, agenda, exhausted)
         /\ Stood(tree, agenda) /\ Listed(agenda)
         /\ Len(agenda) \in DOMAIN agenda /\ Top = agenda[Len(agenda)]
         /\ Hand = agenda[Len(agenda)].gid /\ Hand \in DOMAIN tree /\ Entered(Top)
<1>1. Whole(tree) /\ Good(tree, agenda, exhausted)
  BY UndecidedIs DEF SearchInv
<1>2. Stood(tree, agenda) /\ Listed(agenda) /\ Typed(tree) /\ Linked(tree)
  BY <1>1 DEF Good, Stood, Whole, Sound
<1>3. Len(agenda) \in DOMAIN agenda /\ Top = agenda[Len(agenda)]
  BY <1>2, FrontIs DEF Top
<1>4. Hand \in DOMAIN tree /\ Entered(Top)
  BY <1>2, <1>3 DEF Stood, Hand
<1> QED
  BY <1>1, <1>2, <1>3, <1>4 DEF Hand

\* A tree follows from itself.
LEMMA SameFollows ==
  ASSUME NEW G, NEW C
  PROVE  Follows(G, G, C)
BY DEF Follows, Kin

\* A move that leaves the goal in hand to the moves after it, or to be repaired.
LEMMA TopStep ==
  ASSUME SearchInv, phase \in Searching, Undecided, agenda # <<>>, Top.undo = "none",
         NEW e, Entered(e), e.gid = Hand, e.parent = Top.parent, e.undo = "none",
         agenda' = WithTop(e), exhausted' = exhausted, phase' \in Searching,
         Whole(tree'),
         Unknown(tree') =>
           /\ Follows(tree, tree', {Hand}) /\ DOMAIN tree' = DOMAIN tree
           /\ tree'[Hand].children = tree[Hand].children
           /\ tree[Hand].status # "proved" => tree'[Hand].status \in {tree[Hand].status, "proved"}
  PROVE  SearchInv'
<1>1. /\ Whole(tree) /\ Good(tree, agenda, exhausted) /\ Listed(agenda)
      /\ Top = agenda[Len(agenda)] /\ Hand = agenda[Len(agenda)].gid
  BY InHand
<1>2. agenda' = Front(agenda) \o <<e>>
  BY DEF WithTop
<1>3. Unknown(tree') => Good(tree', agenda', exhausted')
  <2> SUFFICES ASSUME Unknown(tree') PROVE Good(tree', agenda', exhausted')
    OBVIOUS
  <2> DEFINE H == tree'
             h == Hand
  <2>1. /\ Whole(H) /\ h = agenda[Len(agenda)].gid /\ agenda[Len(agenda)].undo = "none"
        /\ Follows(tree, H, {h}) /\ Unknown(H) /\ DOMAIN H = DOMAIN tree
        /\ H[h].children = tree[h].children
        /\ tree[h].status # "proved" => H[h].status \in {tree[h].status, "proved"}
        /\ e.gid = h /\ e.parent = agenda[Len(agenda)].parent
    BY <1>1
  <2> HIDE DEF H, h
  <2>2. Good(H, Front(agenda) \o <<e>>, exhausted)
    BY <1>1, <2>1, TopKeeps
  <2> QED BY <1>2, <2>2 DEF H
<1>4. agenda' # <<>> /\ Top'.undo = "none"
  <2>1. /\ Listed(agenda') /\ agenda' # <<>> /\ Len(agenda') = Len(agenda)
        /\ Len(agenda) \in DOMAIN agenda
        /\ \A i \in DOMAIN agenda : agenda'[i] = IF i = Len(agenda) THEN e ELSE agenda[i]
    BY <1>1, <1>2, TopIs, InHand
  <2>2. Top' = agenda'[Len(agenda')]
    BY DEF Top, Last
  <2> QED BY <2>1, <2>2
<1> QED
  BY <1>3, <1>4 DEF SearchInv, Searching, Phases

\* The goal in hand leaves the agenda.
LEMMA PopStep ==
  ASSUME SearchInv, phase \in Searching, Undecided, agenda # <<>>,
         Top.undo = "none" \/ tree'[Hand].status = "proved",
         agenda' = Front(agenda), phase' = "search", Whole(tree'),
         exhausted \subseteq exhausted', tree'[Hand].status = "open" => Hand \in exhausted',
         Follows(tree, tree', {Hand}), DOMAIN tree' = DOMAIN tree,
         tree'[Hand].children = tree[Hand].children,
         tree[Hand].status # "proved" => tree'[Hand].status \in {tree[Hand].status, "proved"}
  PROVE  SearchInv'
<1>1. /\ Whole(tree) /\ Good(tree, agenda, exhausted)
      /\ Top = agenda[Len(agenda)] /\ Hand = agenda[Len(agenda)].gid
  BY InHand
<1>2. Unknown(tree') => Good(tree', agenda', exhausted')
  <2> SUFFICES ASSUME Unknown(tree') PROVE Good(tree', agenda', exhausted')
    OBVIOUS
  <2> DEFINE H == tree'
             h == Hand
             Y == exhausted'
  <2>1. /\ Whole(H) /\ h = agenda[Len(agenda)].gid
        /\ agenda[Len(agenda)].undo = "none" \/ H[h].status = "proved"
        /\ Follows(tree, H, {h}) /\ Unknown(H) /\ DOMAIN H = DOMAIN tree
        /\ H[h].children = tree[h].children
        /\ tree[h].status # "proved" => H[h].status \in {tree[h].status, "proved"}
        /\ exhausted \subseteq Y /\ (H[h].status = "open" => h \in Y)
    BY <1>1
  <2> HIDE DEF H, h, Y
  <2>2. Good(H, Front(agenda), Y)
    BY <1>1, <2>1, PopKeeps
  <2> QED BY <2>2 DEF H, Y
<1> QED
  BY <1>2 DEF SearchInv, Searching, Phases

\* A move that splits the goal in hand.
LEMMA SplitStep ==
  ASSUME SearchInv, phase = "search", Undecided, agenda # <<>>,
         NEW T, Whole(T), Follows(tree, T, {Hand}), T[Hand].status \in Done,
         NEW undo \in Undos \ {"none"},
         NEW top, Entered(top), top.gid = Hand, top.parent = Top.parent,
         NEW halves, Leaves(tree, T, Hand, Reverse(Parts(T, halves))),
         SplitInto(T, undo, top, halves)
  PROVE  SearchInv'
<1> DEFINE e == [top EXCEPT !.undo = undo]
           h == Hand
           B == Reverse(Parts(T, halves))
<1>1. /\ Whole(tree) /\ Good(tree, agenda, exhausted)
      /\ Top = agenda[Len(agenda)] /\ Hand = agenda[Len(agenda)].gid
  BY InHand DEF Searching
<1>2. Entered(e) /\ e.gid = h /\ e.parent = agenda[Len(agenda)].parent /\ e.undo # "none"
  BY <1>1 DEF Entered, Fields
<1>3. /\ tree' = T /\ exhausted' = exhausted /\ phase' = "search"
      /\ agenda' = (Front(agenda) \o <<e>>) \o B
  BY DEF SplitInto
<1>4. Leaves(tree, T, h, B) /\ h = agenda[Len(agenda)].gid /\ Follows(tree, T, {h})
      /\ T[h].status \in Done
  BY <1>1
<1> HIDE DEF e, h, B
<1>5. Unknown(T) => Good(T, (Front(agenda) \o <<e>>) \o B, exhausted)
  BY <1>1, <1>2, <1>4, SplitKeeps
<1>6. Unknown(tree') => Good(tree', agenda', exhausted')
  BY <1>3, <1>5
<1> QED
  BY <1>3, <1>6 DEF SearchInv, Searching, Phases

\* What a move that splits the goal in hand finds.
LEMMA Splitting ==
  ASSUME SearchInv, NEW move, Working(move)
  PROVE  /\ phase = "search" /\ Undecided /\ agenda # <<>> /\ Top.undo = "none"
         /\ Whole(tree) /\ Typed(tree) /\ Linked(tree)
         /\ Hand \in DOMAIN tree /\ Hand # next /\ next \in Nat /\ \A x \in DOMAIN tree : x < next
         /\ Entered(MovedOn) /\ MovedOn.gid = Hand /\ MovedOn.parent = Top.parent
         /\ MovedOn.undo = "none"
<1>1. phase = "search" /\ Undecided /\ agenda # <<>> /\ Top.undo = "none"
  BY DEF Working
<1>2. /\ Whole(tree) /\ Typed(tree) /\ Linked(tree) /\ Hand \in DOMAIN tree /\ Entered(Top)
  BY <1>1, InHand DEF Searching
<1>3. next \in Nat /\ \A x \in DOMAIN tree : x < next
  BY <1>2, NextIs
<1>4. Hand # next
  BY <1>2, <1>3
<1>5. Entered(MovedOn) /\ MovedOn.gid = Hand /\ MovedOn.parent = Top.parent /\ MovedOn.undo = "none"
  BY <1>1, <1>2 DEF MovedOn, Entered, Fields, Hand
<1> QED
  BY <1>1, <1>2, <1>3, <1>4, <1>5

\* What an entry for a goal is.
LEMMA EntryIs ==
  ASSUME NEW gid, NEW parent, NEW quota, NEW moves
  PROVE  LET e == Entry(gid, parent, quota, moves)
         IN  Entered(e) /\ e.gid = gid /\ e.parent = parent /\ e.undo = "none"
BY DEF Entry, Entered, Fields, Undos

\* A goal made by a split of the goal in hand is entered under it.
LEMMA FreshChild ==
  ASSUME NEW G, NEW H, NEW h \in DOMAIN H, NEW e, Entered(e), e.undo = "none", e.parent = h,
         e.gid \in DOMAIN H, e.gid \notin DOMAIN G, H[e.gid].children = {}, H[e.gid].parent = h
  PROVE  Fresh(G, H, h, e)
BY DEF Fresh, Near

\* T is U with no more than some of its goals proved.
Advances(U, T) ==
  /\ DOMAIN T = DOMAIN U
  /\ \A x \in DOMAIN U :
       /\ T[x].parent = U[x].parent /\ T[x].children = U[x].children
       /\ T[x].role = U[x].role /\ T[x].cut = U[x].cut
       /\ T[x].status = U[x].status \/ T[x].status = "proved"

\* What a split is like once goals that are not older than it are proved.
LEMMA ThenProved ==
  ASSUME NEW G, NEW U, NEW T, NEW h \in DOMAIN G, NEW C, Follows(G, U, {h}),
         U[h].status \in Done, Proves(U, T, C), C \cap DOMAIN G = {}
  PROVE  Follows(G, T, {h}) /\ T[h].status \in Done /\ Advances(U, T)
<1>1. Follows(G, T, {h} \cup C)
  BY ProvesFollows, FollowsOn
<1>2. Follows(G, T, {h})
  BY <1>1 DEF Follows
<1>3. h \in DOMAIN U
  BY DEF Follows
<1>4. Advances(U, T)
  BY DEF Proves, SameGoals, Advances
<1> QED
  BY <1>2, <1>3, <1>4 DEF Done, Advances

\* The two goals of a split are left, the first to search last.
LEMMA TwoLeft ==
  ASSUME NEW G, NEW U, NEW T, NEW h \in DOMAIN G, NEW id \in Nat, NEW C,
         \A x \in DOMAIN G : x < id, Typed(G),
         NEW first, NEW second, Halved(G, U, h, id, first, second),
         Proves(U, T, C), C \cap DOMAIN G = {},
         NEW e, Entered(e), e.gid = id, e.parent = h, e.undo = "none",
         NEW f, Entered(f), f.gid = id + 1, f.parent = h, f.undo = "none"
  PROVE  /\ Follows(G, T, {h}) /\ T[h].status \in Done
         /\ T[id].status # "split" /\ T[id + 1].status # "split"
         /\ Fresh(G, T, h, e) /\ Fresh(G, T, h, f)
         /\ Leaves(G, T, h, Reverse(<<e, f>>))
<1>1. /\ Follows(G, U, {h}) /\ U[h].status \in Done
      /\ DOMAIN U = DOMAIN G \cup {id, id + 1}
      /\ New(U, id, h, first) /\ New(U, id + 1, h, second)
  BY DEF Halved, Done
<1>2. Follows(G, T, {h}) /\ T[h].status \in Done /\ Advances(U, T)
  BY <1>1, ThenProved
<1>3. id \notin DOMAIN G /\ id + 1 \notin DOMAIN G /\ id # id + 1
  <2>1. DOMAIN G \subseteq Nat
    BY DEF Typed
  <2> QED BY <2>1
<1>4. /\ T[id].status # "split" /\ T[id + 1].status # "split"
      /\ T[id].parent = h /\ T[id + 1].parent = h
      /\ T[id].children = {} /\ T[id + 1].children = {}
      /\ id \in DOMAIN T /\ id + 1 \in DOMAIN T /\ h \in DOMAIN T
  BY <1>1, <1>2 DEF New, Advances, Follows
<1>5. Fresh(G, T, h, e) /\ Fresh(G, T, h, f)
  BY <1>3, <1>4, FreshChild
<1>6. InTurn(T, f, e)
  BY <1>4 DEF InTurn
<1>7. \A x \in DOMAIN T \ DOMAIN G : x \in {e.gid, f.gid}
  BY <1>1, <1>2 DEF Advances
<1>8. Leaves(G, T, h, Reverse(<<e, f>>))
  BY <1>3, <1>5, <1>6, <1>7, LeavesTwo
<1> QED
  BY <1>2, <1>4, <1>5, <1>8

\* What the entry of a goal with the usual moves is.
LEMMA PlainIs ==
  ASSUME NEW role, NEW gid, NEW parent, NEW quota
  PROVE  LET e == Plain(role, gid, parent, quota)
         IN  Entered(e) /\ e.gid = gid /\ e.parent = parent /\ e.undo = "none"
<1> DEFINE moves == MovesOf(role, 0, TRUE, TRUE, Comparisons)
           e == Entry(gid, parent, quota, moves)
<1> HIDE DEF moves
<1>1. Entered(e) /\ e.gid = gid /\ e.parent = parent /\ e.undo = "none"
  BY EntryIs
<1> QED
  BY <1>1 DEF Plain, moves

\* What the two halves of a cut are.
LEMMA HalvesAre ==
  /\ LET e == OuterHalf(next)
     IN  Entered(e) /\ e.gid = next /\ e.parent = Hand /\ e.undo = "none"
  /\ LET f == CalleeHalf(next + 1)
     IN  Entered(f) /\ f.gid = next + 1 /\ f.parent = Hand /\ f.undo = "none"
BY PlainIs DEF OuterHalf, CalleeHalf

\* Nothing is proved where nothing changed.
LEMMA SameProves ==
  ASSUME NEW G, NEW C
  PROVE  Proves(G, G, C)
BY DEF Proves, SameGoals

\* The goal in hand is split in two, some of the two proved, and the search goes on with them.
LEMMA HalvedStep ==
  ASSUME SearchInv, NEW move, Working(move),
         NEW first, NEW second, NEW U, Halved(tree, U, Hand, next, first, second),
         NEW T, Whole(T), NEW C, Proves(U, T, C), C \cap DOMAIN tree = {},
         NEW e, Entered(e), e.gid = next, e.parent = Hand, e.undo = "none",
         NEW f, Entered(f), f.gid = next + 1, f.parent = Hand, f.undo = "none",
         NEW undo \in Undos \ {"none"},
         NEW top, Entered(top), top.gid = Hand, top.parent = Top.parent,
         SplitInto(T, undo, top, <<e, f>>)
  PROVE  SearchInv'
<1> DEFINE h == Hand
           id == next
<1>1. /\ phase = "search" /\ Undecided /\ agenda # <<>>
      /\ Typed(tree) /\ h \in DOMAIN tree /\ id \in Nat /\ \A x \in DOMAIN tree : x < id
  BY Splitting
<1>2. /\ Halved(tree, U, h, id, first, second)
      /\ e.gid = id /\ e.parent = h /\ f.gid = id + 1 /\ f.parent = h
  OBVIOUS
<1> HIDE DEF h, id
<1>3. /\ Follows(tree, T, {h}) /\ T[h].status \in Done
      /\ T[id].status # "split" /\ T[id + 1].status # "split"
      /\ Leaves(tree, T, h, Reverse(<<e, f>>))
  BY <1>1, <1>2, TwoLeft
<1>4. Parts(T, <<e, f>>) = <<e, f>>
  BY <1>2, <1>3, PartsTwo
<1> QED
  BY <1>1, <1>3, <1>4, SplitStep DEF h

\* No goal was made before the next two.
LEMMA NotYet ==
  ASSUME SearchInv, NEW move, Working(move), NEW C, C \subseteq {next, next + 1}
  PROVE  C \cap DOMAIN tree = {}
<1>1. next \in Nat /\ DOMAIN tree \subseteq Nat /\ \A x \in DOMAIN tree : x < next
  BY Splitting DEF Typed
<1> HIDE DEF next
<1> QED
  BY <1>1

\* A bounded loop is peeled away.
LEMMA BoundedKeeps ==
  ASSUME SearchInv, CutBounded
  PROVE  SearchInv'
<1> DEFINE h == Hand
           id == next
           U == CutIn(tree, h, id, "alone", P, P, P, P)
           T == Proved(U, id + 1)
<1>1. Working("bounded") /\ SplitInto(T, "uncut", MovedOn, <<OuterHalf(id), CalleeHalf(id + 1)>>)
  BY DEF CutBounded, CutAlone, Halves
<1>2. /\ Whole(tree) /\ h \in DOMAIN tree /\ id \in Nat /\ \A x \in DOMAIN tree : x < id
      /\ Entered(MovedOn) /\ MovedOn.gid = h /\ MovedOn.parent = Top.parent
      /\ {id + 1} \cap DOMAIN tree = {}
  BY <1>1, Splitting, NotYet
<1>3. Halved(tree, U, h, id, "outer", "callee")
  <2> HIDE DEF h, id
  <2> QED BY <1>2, CutHalves DEF CutKinds
<1>4. Whole(T) /\ Proves(U, T, {id + 1})
  <2> HIDE DEF U
  <2> QED BY <1>3, ProvedProves DEF Halved
<1>5. "uncut" \in Undos \ {"none"}
  BY DEF Undos
<1> HIDE DEF U, T
<1> QED
  BY <1>1, <1>2, <1>3, <1>4, <1>5, HalvesAre, HalvedStep

\* A cut, with what its checks prove of its goals.
LEMMA CutKeeps ==
  ASSUME SearchInv, Cut
  PROVE  SearchInv'
<1> DEFINE h == Hand
           id == next
           U == CutIn(tree, h, id, "plain", P, P, P, P)
<1>1. PICK T \in CrossChecked(U, id, id + 1) :
        Working("cut") /\ SplitInto(T, "uncut", MovedOn, <<OuterHalf(id), CalleeHalf(id + 1)>>)
  BY DEF Cut, CutOf, Halves
<1>2. /\ Whole(tree) /\ h \in DOMAIN tree /\ id \in Nat /\ \A x \in DOMAIN tree : x < id
      /\ Entered(MovedOn) /\ MovedOn.gid = h /\ MovedOn.parent = Top.parent
  BY <1>1, Splitting
<1>3. Halved(tree, U, h, id, "outer", "callee")
  <2> HIDE DEF h, id
  <2> QED BY <1>2, CutHalves DEF CutKinds
<1> DEFINE C == {id} \cup {x \in {id + 1} : U[x].status # "split"}
<1>4. Whole(T) /\ Proves(U, T, C)
  <2> HIDE DEF U
  <2>1. Whole(U) /\ id \in DOMAIN U /\ id + 1 \in DOMAIN U
    BY <1>3 DEF Halved
  <2> QED BY <2>1, CrossProves
<1>5. C \cap DOMAIN tree = {}
  BY <1>1, NotYet
<1>6. "uncut" \in Undos \ {"none"}
  BY DEF Undos
<1> HIDE DEF U, C
<1> QED
  BY <1>1, <1>2, <1>3, <1>4, <1>5, <1>6, HalvesAre, HalvedStep

\* What the entry of a case is.
LEMMA CaseOfIs ==
  ASSUME NEW role, NEW gid, NEW cases, NEW poison
  PROVE  LET e == CaseOf(role, gid, cases, poison)
         IN  Entered(e) /\ e.gid = gid /\ e.parent = Hand /\ e.undo = "none"
<1> DEFINE moves == MovesOf(role, 0, TRUE, TRUE, cases)
           e == Entry(gid, Hand, Top.quota, moves)
<1>1. Entered(e) /\ e.gid = gid /\ e.parent = Hand /\ e.undo = "none"
  <2> HIDE DEF moves
  <2> QED BY EntryIs
<1>2. CaseOf(role, gid, cases, poison) = [e EXCEPT !.poison = poison]
  BY DEF CaseOf
<1> HIDE DEF e
<1> QED
  BY <1>1, <1>2 DEF Entered, Fields

\* Cases, one of them proved where they are made.
LEMMA CaseKeeps ==
  ASSUME SearchInv, Case
  PROVE  SearchInv'
<1> DEFINE h == Hand
           id == next
           U == CasedIn(tree, h, id, P, P, P, P)
           E(poison) == CaseOf("holds", id, IF poison THEN CaseLeft + 1 ELSE CaseLeft,
                               Top.poison /\ ~poison)
           F(unread) == CaseOf("fails", id + 1, unread, Top.poison)
<1>1. PICK closed \in {id, id + 1}, poison \in {FALSE, Top.poison} :
        \E unread \in IF poison THEN 0..CaseLeft ELSE {CaseLeft} :
          SplitInto(Proved(U, closed), "uncase", MovedOn, <<E(poison), F(unread)>>)
  BY DEF Case
<1>2. PICK unread \in IF poison THEN 0..CaseLeft ELSE {CaseLeft} :
        SplitInto(Proved(U, closed), "uncase", MovedOn, <<E(poison), F(unread)>>)
  BY <1>1
<1>3. Working("case")
  BY DEF Case
<1>4. /\ Whole(tree) /\ h \in DOMAIN tree /\ id \in Nat /\ \A x \in DOMAIN tree : x < id
      /\ Entered(MovedOn) /\ MovedOn.gid = h /\ MovedOn.parent = Top.parent
  BY <1>3, Splitting
<1>5. Halved(tree, U, h, id, "holds", "fails")
  <2> HIDE DEF h, id
  <2> QED BY <1>4, CaseHalves
<1> DEFINE T == Proved(U, closed)
           e == E(poison)
           f == F(unread)
<1>6. Whole(T) /\ Proves(U, T, {closed})
  <2> HIDE DEF U
  <2>1. Whole(U) /\ closed \in DOMAIN U
    BY <1>5 DEF Halved
  <2> QED BY <2>1, ProvedProves
<1>7. {closed} \cap DOMAIN tree = {}
  <2>1. {closed} \subseteq {next, next + 1}
    OBVIOUS
  <2> QED BY <1>3, <2>1, NotYet
<1>8. /\ Entered(e) /\ e.gid = id /\ e.parent = Hand /\ e.undo = "none"
      /\ Entered(f) /\ f.gid = id + 1 /\ f.parent = Hand /\ f.undo = "none"
  BY CaseOfIs
<1>9. "uncase" \in Undos \ {"none"}
  BY DEF Undos
<1> HIDE DEF U, T, e, f, E, F
<1> QED
  BY <1>2, <1>3, <1>4, <1>5, <1>6, <1>7, <1>8, <1>9, HalvedStep DEF T, e, f

\* What the entry of the rhs of a stage is.
LEMMA RestIs ==
  ASSUME NEW gid
  PROVE  LET e == Rest(gid)
         IN  Entered(e) /\ e.gid = gid /\ e.parent = Hand /\ e.undo = "none"
<1> DEFINE moves == MovesOf("rhs", Len(MovedOn.moves) - Len(AfterStages(MovedOn.moves)),
                            TRUE, TRUE, Comparisons)
           e == Entry(gid, Hand, Top.quota, moves)
<1> HIDE DEF moves
<1>1. Entered(e) /\ e.gid = gid /\ e.parent = Hand /\ e.undo = "none"
  BY EntryIs
<1> QED
  BY <1>1 DEF Rest, moves

\* A stage is put between the sides, and both its goals are searched.
LEMMA InterposedKeeps ==
  ASSUME SearchInv, StageInterposed
  PROVE  SearchInv'
<1> DEFINE h == Hand
           id == next
           T == InterposedAt(tree, h, id, P)
           e == Entry(id, h, id, MovesOf("lhs", 0, FALSE, TRUE, Comparisons))
           f == Rest(id + 1)
           Top2(jumping) == [MovedOn EXCEPT !.jumping = jumping, !.interposable = FALSE]
<1>1. PICK jumping \in {FALSE, Top.jumping} :
        SplitInto(T, "uninterpose", Top2(jumping), <<e, f>>)
  BY DEF StageInterposed
<1> DEFINE top == Top2(jumping)
<1>2. Working("stage")
  BY DEF StageInterposed
<1>3. /\ Whole(tree) /\ h \in DOMAIN tree /\ id \in Nat /\ \A x \in DOMAIN tree : x < id
      /\ Entered(MovedOn) /\ MovedOn.gid = h /\ MovedOn.parent = Top.parent
  BY <1>2, Splitting
<1>4. Halved(tree, T, h, id, "lhs", "rhs")
  <2> HIDE DEF h, id
  <2> QED BY <1>3, InterposeHalves
<1>5. Whole(T) /\ Proves(T, T, {}) /\ {} \cap DOMAIN tree = {}
  <2> HIDE DEF T
  <2> QED BY <1>4, SameProves DEF Halved
<1>6. Entered(e) /\ e.gid = id /\ e.parent = Hand /\ e.undo = "none"
  <2> DEFINE moves == MovesOf("lhs", 0, FALSE, TRUE, Comparisons)
  <2> HIDE DEF moves
  <2>1. LET i == Entry(id, h, id, moves)
        IN  Entered(i) /\ i.gid = id /\ i.parent = Hand /\ i.undo = "none"
    BY EntryIs
  <2> QED BY <2>1 DEF moves
<1>7. Entered(f) /\ f.gid = id + 1 /\ f.parent = Hand /\ f.undo = "none"
  BY RestIs
<1>8. Entered(top) /\ top.gid = Hand /\ top.parent = Top.parent
  <2> HIDE DEF MovedOn
  <2> QED BY <1>3 DEF Entered, Fields
<1>9. "uninterpose" \in Undos \ {"none"}
  BY DEF Undos
<1> HIDE DEF T, e, f, top, Top2
<1> QED
  BY <1>1, <1>2, <1>4, <1>5, <1>6, <1>7, <1>8, <1>9, HalvedStep DEF top

\* The lhs of a stage is proved where it is made, and its rhs is left.
LEMMA JumpedKeeps ==
  ASSUME SearchInv, StageJumped
  PROVE  SearchInv'
<1> DEFINE h == Hand
           id == next
           U == InterposedAt(tree, h, id, P)
           T == Proved(U, id)
           f == Rest(id + 1)
           top == [MovedOn EXCEPT !.moves = AfterStages(@), !.interposable = FALSE]
<1>1. Working("stage") /\ SplitInto(T, "uninterpose", top, <<f>>)
  BY DEF StageJumped
<1>2. /\ phase = "search" /\ Undecided /\ agenda # <<>>
      /\ Whole(tree) /\ Typed(tree)
      /\ h \in DOMAIN tree /\ id \in Nat /\ \A x \in DOMAIN tree : x < id
      /\ Entered(MovedOn) /\ MovedOn.gid = h /\ MovedOn.parent = Top.parent
  BY <1>1, Splitting
<1>3. Entered(top) /\ top.gid = h /\ top.parent = Top.parent
  <2> HIDE DEF MovedOn
  <2> QED BY <1>2 DEF Entered, Fields
<1>4. Entered(f) /\ f.gid = id + 1 /\ f.parent = h /\ f.undo = "none"
  BY RestIs
<1> HIDE DEF h, id
<1>5. Halved(tree, U, h, id, "lhs", "rhs")
  BY <1>2, InterposeHalves
<1> HIDE DEF U
<1>6. /\ Whole(U) /\ Follows(tree, U, {h}) /\ U[h].status \in Done
      /\ DOMAIN U = DOMAIN tree \cup {id, id + 1}
      /\ New(U, id, h, "lhs") /\ New(U, id + 1, h, "rhs")
  BY <1>5 DEF Halved, Done
<1>7. Whole(T) /\ Proves(U, T, {id}) /\ T[id].status = "proved"
  BY <1>6, ProvedProves
<1>8. id \notin DOMAIN tree /\ id + 1 \notin DOMAIN tree /\ id # id + 1
  <2>1. DOMAIN tree \subseteq Nat
    BY <1>2 DEF Typed
  <2> QED BY <1>2, <2>1
<1> HIDE DEF T, f, top
<1>9. Follows(tree, T, {h}) /\ T[h].status \in Done /\ Advances(U, T)
  <2>1. {id} \cap DOMAIN tree = {} /\ h \in DOMAIN tree
    BY <1>2, <1>8
  <2> QED BY <1>6, <1>7, <2>1, ThenProved
<1>10. /\ DOMAIN T = DOMAIN tree \cup {id, id + 1} /\ T[id + 1].status # "split"
       /\ T[id + 1].parent = h /\ T[id + 1].children = {}
  BY <1>6, <1>9 DEF Advances, New
<1>11. h \in DOMAIN T /\ id + 1 \in DOMAIN T
  BY <1>2, <1>10
<1>12. Fresh(tree, T, h, f)
  BY <1>4, <1>8, <1>10, <1>11, FreshChild
<1>13. \A x \in DOMAIN T \ DOMAIN tree : T[x].status = "open" => x = f.gid
  BY <1>4, <1>7, <1>10
<1>14. Leaves(tree, T, h, <<f>>)
  BY <1>12, <1>13, LeavesOne
<1>15. Reverse(Parts(T, <<f>>)) = <<f>>
  <2>1. Parts(T, <<f>>) = <<f>>
    BY <1>4, <1>10, PartsOne
  <2> QED BY <2>1, ReverseOne
<1>16. "uninterpose" \in Undos \ {"none"}
  BY DEF Undos
<1> QED
  BY <1>1, <1>2, <1>3, <1>7, <1>9, <1>14, <1>15, <1>16, SplitStep DEF h

\* A goal that a split of h left is split in turn.
LEMMA SplitAgain ==
  ASSUME NEW G, NEW V, NEW W, NEW U, NEW h \in DOMAIN G, NEW c, NEW C,
         Follows(G, V, {h}), V[h].status \in Done, Follows(V, W, {c}), c \notin DOMAIN G,
         Proves(W, U, C), C \cap DOMAIN G = {}
  PROVE  Follows(G, U, {h}) /\ U[h].status \in Done /\ Advances(W, U)
<1>1. Follows(G, W, {h} \cup {c})
  BY FollowsOn
<1>2. Follows(G, W, {h})
  BY <1>1 DEF Follows
<1>3. W[h].status \in Done
  BY DEF Follows, Done
<1> QED
  BY <1>2, <1>3, ThenProved

\* A goal with no children is not split.
LEMMA AloneNotSplit ==
  ASSUME NEW G, Whole(G), NEW x \in DOMAIN G, G[x].children = {}
  PROVE  G[x].status # "split"
BY DEF Whole, Sound, SettledIn

\* A region is cut off after it and at its head, and its three goals are searched.
LEMMA PeelKeeps ==
  ASSUME SearchInv, Peel
  PROVE  SearchInv'
<1> DEFINE h == Hand
           id == next
           e == OuterHalf(id + 2)
           f == Entry(id + 3, h, Top.quota, MovesOf("callee", 0, TRUE, FALSE, Comparisons))
           g == CalleeHalf(id + 1)
           V == CutIn(tree, h, id, "plain", P, P, P, P)
           W(T) == CutIn(T, id, id + 2, "plain", P, P, P, P)
<1>1. PICK T \in CrossChecked(V, id, id + 1) :
        \E U \in CrossChecked(W(T), id + 2, (id + 2) + 1) :
          SplitInto(U, "uncut", MovedOn, <<e, f, g>>)
  BY DEF Peel, CutOf
<1>2. PICK U \in CrossChecked(W(T), id + 2, (id + 2) + 1) :
        SplitInto(U, "uncut", MovedOn, <<e, f, g>>)
  BY <1>1
<1>3. Working("peel")
  BY DEF Peel
<1>4. /\ phase = "search" /\ Undecided /\ agenda # <<>>
      /\ Whole(tree) /\ Typed(tree)
      /\ h \in DOMAIN tree /\ id \in Nat /\ \A x \in DOMAIN tree : x < id
      /\ Entered(MovedOn) /\ MovedOn.gid = h /\ MovedOn.parent = Top.parent
  BY <1>3, Splitting
<1>5. /\ Entered(e) /\ e.gid = id + 2 /\ e.parent = h /\ e.undo = "none"
      /\ Entered(g) /\ g.gid = id + 1 /\ g.parent = h /\ g.undo = "none"
  BY PlainIs DEF OuterHalf, CalleeHalf
<1>6. Entered(f) /\ f.gid = id + 3 /\ f.parent = h /\ f.undo = "none"
  <2> DEFINE moves == MovesOf("callee", 0, TRUE, FALSE, Comparisons)
  <2> HIDE DEF moves
  <2>1. LET i == Entry(id + 3, h, Top.quota, moves)
        IN  Entered(i) /\ i.gid = id + 3 /\ i.parent = h /\ i.undo = "none"
    BY EntryIs
  <2> QED BY <2>1 DEF moves
<1> HIDE DEF h, id, e, f, g
<1>7. Halved(tree, V, h, id, "outer", "callee")
  BY <1>4, CutHalves DEF CutKinds
<1> HIDE DEF V
<1>8. /\ Whole(V) /\ Follows(tree, V, {h}) /\ V[h].status \in Done
      /\ DOMAIN V = DOMAIN tree \cup {id, id + 1}
      /\ New(V, id, h, "outer") /\ New(V, id + 1, h, "callee")
      /\ \A x \in DOMAIN V : x < id + 2
  BY <1>7 DEF Halved, Done
<1> DEFINE C == {id} \cup {x \in {id + 1} : V[x].status # "split"}
<1>9. Whole(T) /\ Proves(V, T, C)
  <2>1. id \in DOMAIN V /\ id + 1 \in DOMAIN V
    BY <1>8
  <2> QED BY <1>8, <2>1, CrossProves
<1>10. C \cap DOMAIN tree = {} /\ \A k \in 0..3 : id + k \notin DOMAIN tree
  <2>1. DOMAIN tree \subseteq Nat
    BY <1>4 DEF Typed
  <2> QED BY <1>4, <2>1
<1> HIDE DEF C
<1>11. Follows(tree, T, {h}) /\ T[h].status \in Done /\ Advances(V, T)
  BY <1>4, <1>8, <1>9, <1>10, ThenProved
<1>12. /\ id \in DOMAIN T /\ id + 2 \in Nat /\ \A x \in DOMAIN T : x < id + 2
       /\ DOMAIN T = DOMAIN tree \cup {id, id + 1}
       /\ T[id].parent = h
       /\ T[id + 1].parent = h /\ T[id + 1].children = {}
  BY <1>4, <1>8, <1>11 DEF Advances, New
<1> DEFINE Z == W(T)
<1>13. Halved(T, Z, id, id + 2, "outer", "callee")
  <2>1. id \in DOMAIN T /\ id + 2 \in Nat /\ (\A x \in DOMAIN T : x < id + 2)
        /\ Whole(T) /\ "plain" \in CutKinds
    BY <1>9, <1>12 DEF CutKinds
  <2> QED BY <2>1, CutHalves
<1> HIDE DEF W, Z
<1>14. /\ Whole(Z) /\ Follows(T, Z, {id}) /\ Z[id].status = "split"
       /\ DOMAIN Z = DOMAIN T \cup {id + 2, (id + 2) + 1}
       /\ New(Z, id + 2, id, "outer") /\ New(Z, (id + 2) + 1, id, "callee")
  BY <1>13 DEF Halved
<1> DEFINE D == {id + 2} \cup {x \in {(id + 2) + 1} : Z[x].status # "split"}
<1>15. Whole(U) /\ Proves(Z, U, D)
  <2>1. id + 2 \in DOMAIN Z /\ (id + 2) + 1 \in DOMAIN Z
    BY <1>14
  <2>2. U \in CrossChecked(Z, id + 2, (id + 2) + 1)
    BY DEF Z
  <2> QED BY <1>14, <2>1, <2>2, CrossProves
<1>16. (id + 2) + 1 = id + 3 /\ id + 1 # id /\ id \notin DOMAIN tree
       /\ id + 1 \notin DOMAIN tree /\ id + 2 \notin DOMAIN tree /\ id + 3 \notin DOMAIN tree
       /\ id + 1 # id + 2 /\ id + 2 # id + 3 /\ id + 1 # id + 3
  <2>1. id + 0 = id /\ 0 \in 0..3 /\ 1 \in 0..3 /\ 2 \in 0..3 /\ 3 \in 0..3
    BY <1>4
  <2> QED BY <1>4, <1>10, <2>1
<1>17. D \cap DOMAIN tree = {}
  BY <1>16
<1> HIDE DEF D
<1>18. Follows(tree, U, {h}) /\ U[h].status \in Done /\ Advances(Z, U)
  BY <1>4, <1>11, <1>14, <1>15, <1>16, <1>17, SplitAgain
<1>19. /\ Z[id].parent = h /\ Z[id + 1].parent = h /\ Z[id + 1].children = {}
  <2>1. id \in DOMAIN T \cap DOMAIN Z /\ id + 1 \in DOMAIN T \cap DOMAIN Z
    BY <1>12, <1>14
  <2> QED BY <1>12, <1>14, <1>16, <2>1 DEF Follows, Kin
<1>20. /\ DOMAIN U = DOMAIN tree \cup {id, id + 1, id + 2, id + 3}
       /\ U[id].parent = h /\ U[id].status # "open"
       /\ U[id + 1].parent = h /\ U[id + 1].children = {}
       /\ U[id + 2].parent = id /\ U[id + 2].children = {} /\ U[id + 2].role = "outer"
       /\ U[id + 3].parent = id /\ U[id + 3].children = {}
  BY <1>12, <1>14, <1>16, <1>18, <1>19 DEF Advances, New
<1>21. /\ h \in DOMAIN U /\ id \in DOMAIN U /\ id + 1 \in DOMAIN U
       /\ id + 2 \in DOMAIN U /\ id + 3 \in DOMAIN U
  BY <1>4, <1>20
<1>22. U[id + 1].status # "split" /\ U[id + 2].status # "split" /\ U[id + 3].status # "split"
  BY <1>15, <1>20, <1>21, AloneNotSplit
<1>23. Fresh(tree, U, h, e) /\ Fresh(tree, U, h, f) /\ Fresh(tree, U, h, g)
  BY <1>5, <1>6, <1>16, <1>20, <1>21 DEF Fresh, Near
<1>24. InTurn(U, f, e) /\ InTurn(U, g, f) /\ InTurn(U, g, e)
  BY <1>5, <1>6, <1>20 DEF InTurn
<1>25. \A x \in DOMAIN U \ DOMAIN tree : U[x].status = "open" => x \in {e.gid, f.gid, g.gid}
  BY <1>5, <1>6, <1>20
<1>26. Leaves(tree, U, h, Reverse(<<e, f, g>>))
  BY <1>5, <1>6, <1>16, <1>23, <1>24, <1>25, LeavesThree
<1>27. Parts(U, <<e, f, g>>) = <<e, f, g>>
  BY <1>5, <1>6, <1>22, PartsThree
<1>28. "uncut" \in Undos \ {"none"}
  BY DEF Undos
<1> QED
  BY <1>2, <1>4, <1>15, <1>18, <1>26, <1>27, <1>28, SplitStep DEF h

\* A cut whose callee is interposed in turn leaves the outer and the callee's two goals.
LEMMA NestedKeeps ==
  ASSUME SearchInv, CutNested
  PROVE  SearchInv'
<1> DEFINE h == Hand
           id == next
           V == CutIn(tree, h, id, "loop", P, P, P, P)
           W == InterposedAt(V, id + 1, id + 2, P)
           e == OuterHalf(id)
           f == CalleeHalf(id + 1)
           l == Plain("lhs", id + 2, h, f.quota)
           r == Plain("rhs", id + 3, h, f.quota)
<1>1. PICK T \in CrossChecked(W, id, id + 1) :
        Working("cut") /\ SplitInto(T, "uncut", MovedOn, <<e, f>>)
  BY DEF CutNested, NestedCutOf, Halves
<1>2. /\ phase = "search" /\ Undecided /\ agenda # <<>>
      /\ Whole(tree) /\ Typed(tree)
      /\ h \in DOMAIN tree /\ id \in Nat /\ \A x \in DOMAIN tree : x < id
      /\ Entered(MovedOn) /\ MovedOn.gid = h /\ MovedOn.parent = Top.parent
  BY <1>1, Splitting
<1>3. /\ Entered(e) /\ e.gid = id /\ e.parent = h /\ e.undo = "none"
      /\ Entered(f) /\ f.gid = id + 1 /\ f.parent = h /\ f.undo = "none"
  BY HalvesAre
<1>4. /\ Entered(l) /\ l.gid = id + 2 /\ l.parent = h /\ l.undo = "none"
      /\ Entered(r) /\ r.gid = id + 3 /\ r.parent = h /\ r.undo = "none"
  BY PlainIs
<1>5. \A T1 : T1[e.gid].status # "split" /\ T1[f.gid].status = "split" =>
        Parts(T1, <<e, f>>) = << e, Plain("lhs", Child(T1, f.gid, "lhs"), h, f.quota),
                                    Plain("rhs", Child(T1, f.gid, "rhs"), h, f.quota) >>
  BY PartsNested
<1> DEFINE PartsOf(T1) == Parts(T1, <<e, f>>)
<1>6. SplitInto(T, "uncut", MovedOn, <<e, f>>) /\ PartsOf(T) = Parts(T, <<e, f>>)
  BY <1>1
<1> HIDE DEF h, id, V, W
<1>7. Halved(tree, V, h, id, "outer", "callee")
  BY <1>2, CutHalves DEF CutKinds, V
<1>8. /\ Whole(V) /\ Follows(tree, V, {h}) /\ V[h].status \in Done
      /\ DOMAIN V = DOMAIN tree \cup {id, id + 1}
      /\ New(V, id, h, "outer") /\ New(V, id + 1, h, "callee")
      /\ \A x \in DOMAIN V : x < id + 2
  BY <1>7 DEF Halved, Done
<1>9. /\ (id + 2) + 1 = id + 3 /\ id + 1 # id /\ id \notin DOMAIN tree /\ id + 2 \in Nat
      /\ id + 1 \notin DOMAIN tree /\ id + 2 \notin DOMAIN tree /\ id + 3 \notin DOMAIN tree
      /\ id # id + 2 /\ id # id + 3 /\ id + 1 # id + 2 /\ id + 1 # id + 3 /\ id + 2 # id + 3
  <2>1. DOMAIN tree \subseteq Nat
    BY <1>2 DEF Typed
  <2> QED BY <1>2, <2>1
<1>10. Halved(V, W, id + 1, id + 2, "lhs", "rhs")
  <2>1. id + 1 \in DOMAIN V
    BY <1>8
  <2> QED BY <1>8, <1>9, <2>1, InterposeHalves DEF W
<1>11. /\ Whole(W) /\ Follows(V, W, {id + 1})
       /\ DOMAIN W = DOMAIN V \cup {id + 2, id + 3}
       /\ New(W, id + 2, id + 1, "lhs") /\ New(W, id + 3, id + 1, "rhs")
       /\ W[id + 1].status = "split" /\ W[id + 1].children = {id + 2, id + 3}
  BY <1>8, <1>9, <1>10 DEF Halved, New
<1> DEFINE C == {id} \cup {x \in {id + 1} : W[x].status # "split"}
<1>12. Whole(T) /\ Proves(W, T, C)
  <2>1. id \in DOMAIN W /\ id + 1 \in DOMAIN W
    BY <1>8, <1>11
  <2>2. T \in CrossChecked(W, id, id + 1)
    BY DEF W
  <2> QED BY <1>11, <2>1, <2>2, CrossProves
<1>13. C = {id}
  BY <1>11
<1> HIDE DEF C
<1>14. Follows(tree, T, {h}) /\ T[h].status \in Done /\ Advances(W, T)
  <2>1. C \cap DOMAIN tree = {}
    BY <1>9, <1>13
  <2> QED BY <1>2, <1>8, <1>9, <1>11, <1>12, <2>1, SplitAgain
<1>15. /\ id + 1 \in DOMAIN W /\ id + 2 \in DOMAIN W /\ id \in DOMAIN W
       /\ W[id].parent = h /\ W[id].children = {} /\ W[id].role = "outer"
       /\ W[id + 1].parent = h
  <2>1. id \in DOMAIN V \cap DOMAIN W /\ id + 1 \in DOMAIN V \cap DOMAIN W
    BY <1>8, <1>11
  <2>2. W[id].children = V[id].children
    BY <1>9, <2>1, <1>11 DEF Follows
  <2> QED BY <1>8, <1>11, <2>1, <2>2 DEF Follows, Kin, New
<1>16. T[id + 2].status = "open"
  BY <1>9, <1>11, <1>12, <1>13, <1>15 DEF Proves, New
<1>17. T[id + 1].status = "split"
  <2>1. id + 2 \in W[id + 1].children
    BY <1>11
  <2> QED BY <1>9, <1>11, <1>12, <1>13, <1>15, <1>16, <2>1 DEF Proves
<1>18. /\ DOMAIN T = DOMAIN tree \cup {id, id + 1, id + 2, id + 3}
       /\ T[id].parent = h /\ T[id].children = {} /\ T[id].role = "outer"
       /\ T[id + 1].parent = h /\ T[id + 1].children = {id + 2, id + 3}
       /\ T[id + 2].parent = id + 1 /\ T[id + 2].children = {} /\ T[id + 2].role = "lhs"
       /\ T[id + 3].parent = id + 1 /\ T[id + 3].children = {} /\ T[id + 3].role = "rhs"
  BY <1>8, <1>11, <1>14, <1>15 DEF Advances, New
<1>19. /\ h \in DOMAIN T /\ id \in DOMAIN T /\ id + 1 \in DOMAIN T
       /\ id + 2 \in DOMAIN T /\ id + 3 \in DOMAIN T
  BY <1>2, <1>18
<1>20. T[id].status # "split"
  BY <1>12, <1>18, <1>19, AloneNotSplit
<1>21. Child(T, id + 1, "lhs") = id + 2 /\ Child(T, id + 1, "rhs") = id + 3
  <2>1. \A c \in {id + 2, id + 3} : c <= c
    BY <1>2
  <2>2. \A c \in T[id + 1].children :
          /\ (T[c].role = "lhs" /\ \A d \in T[id + 1].children : T[d].role = "lhs" => c <= d)
               <=> c = id + 2
          /\ (T[c].role = "rhs" /\ \A d \in T[id + 1].children : T[d].role = "rhs" => c <= d)
               <=> c = id + 3
    BY <1>18, <2>1
  <2> QED BY <1>18, <2>2 DEF Child
<1> HIDE DEF e, f
<1>22. Parts(T, <<e, f>>) = <<e, l, r>>
  BY <1>3, <1>5, <1>17, <1>20, <1>21
<1> HIDE DEF l, r, PartsOf
<1>23. Fresh(tree, T, h, e) /\ Fresh(tree, T, h, l) /\ Fresh(tree, T, h, r)
  BY <1>3, <1>4, <1>9, <1>18, <1>19 DEF Fresh, Near
<1>24. InTurn(T, l, e) /\ InTurn(T, r, l) /\ InTurn(T, r, e)
  BY <1>3, <1>4, <1>18 DEF InTurn
<1>25. \A x \in DOMAIN T \ DOMAIN tree : T[x].status = "open" => x \in {e.gid, l.gid, r.gid}
  BY <1>3, <1>4, <1>17, <1>18
<1>26. Leaves(tree, T, h, Reverse(<<e, l, r>>))
  BY <1>3, <1>4, <1>9, <1>23, <1>24, <1>25, LeavesThree
<1>27. "uncut" \in Undos \ {"none"}
  BY DEF Undos
<1> QED
  BY <1>1, <1>2, <1>12, <1>14, <1>22, <1>26, <1>27, SplitStep DEF h

-----------------------------------------------------------------------------
(* Before there is an agenda.                                              *)

\* The tree a search starts with.
LEMMA StartWhole ==
  LET G == Start(P, P) IN Whole(G) /\ AtRoot(G)
<1> DEFINE G == Start(P, P)
           n == NewGoal(NoGoal, "root", "none", P, P)
<1>1. /\ n \in Goals
      /\ n.parent = NoGoal /\ n.role = "root" /\ n.status = "open" /\ n.children = {}
      /\ \A s \in Sides : n.hist[s] # <<>>
  <2>1. NoGoal \in Nat /\ "root" \in Roles /\ "none" \in CutKinds
    BY DEF NoGoal, Roles, CutKinds
  <2> QED BY <2>1, AProgram, NewGoalIs
<1>2. DOMAIN G = {Root} /\ G[Root] = n
  BY DEF Start
<1> HIDE DEF G, n
<1>3. Typed(G) /\ Linked(G)
  BY <1>1, <1>2 DEF Typed, Linked, Root, NoGoal
<1>4. Paired(G) /\ BackedIn(G, AllShown) /\ SettledIn(G)
  BY <1>1, <1>2 DEF Paired, BackedIn, SettledIn
<1>5. DOMAIN G \subseteq 1..1
  BY <1>2 DEF Root
<1>6. Whole(G)
  BY <1>3, <1>4, <1>5 DEF Whole, Sound
<1>7. AtRoot(G)
  BY <1>1, <1>2 DEF AtRoot
<1> QED
  BY <1>6, <1>7 DEF G

\* The first state.
LEMMA InitKeeps ==
  ASSUME Init
  PROVE  SearchInv
BY StartWhole DEF Init, SearchInv, Phases, Searching

\* A refutation of the root decides the run.
LEMMA RefutedWhole ==
  ASSUME NEW G, Whole(G)
  PROVE  Whole(Refuted(G, Root)) /\ ~Unknown(Refuted(G, Root))
<1>1. Typed(G) /\ Sound(G, AllShown) /\ Root \in DOMAIN G
  BY DEF Whole, Sound, Typed
<1>2. /\ DOMAIN Refuted(G, Root) = DOMAIN G
      /\ Refuted(G, Root)[Root].status = "refuted"
  BY <1>1, WithStatusIs DEF Refuted, Statuses, SameGoals
<1>3. Sound(Refuted(G, Root), AllShown)
  BY <1>1, RefutedSound
<1> QED
  BY <1>2, <1>3 DEF Whole, Unknown

\* The checks of the root settle the run.
LEMMA RootCheckKeeps ==
  ASSUME SearchInv, RootCheck
  PROVE  SearchInv'
<1>1. Whole(tree) /\ Root \in DOMAIN tree
  BY DEF SearchInv, Whole, Sound, Typed
<1>2. Whole(Proved(tree, Root)) /\ Whole(Refuted(tree, Root))
  BY <1>1, ProvedProves, RefutedWhole
<1>3. Whole(tree') /\ phase' = "settled"
  BY <1>2 DEF RootCheck
<1> QED
  BY <1>3 DEF SearchInv, Phases, Searching

\* The goal a search begins at, of a root with no children and of one with two.
LEMMA BegunIs ==
  ASSUME Whole(tree), AtRoot(tree)
  PROVE  /\ Begun \in DOMAIN tree
         /\ tree[Begun].status = "open" /\ tree[Begun].children = {}
         /\ Begun = Root => DOMAIN tree = {Root}
         /\ BaseOf(tree, Begun)
         /\ \A x \in DOMAIN tree : tree[x].status = "open" => x = Begun
<1>1. CASE DOMAIN tree = {Root} /\ tree[Root].status = "open" /\ tree[Root].children = {}
           /\ tree[Root].role = "root"
  <2>1. Begun = Root
    BY <1>1 DEF Begun
  <2> QED BY <1>1, <2>1 DEF BaseOf, BaseIs
<1>2. CASE \E b, c \in DOMAIN tree :
       /\ DOMAIN tree = {Root, b, c} /\ b # Root /\ c # Root /\ b # c
       /\ tree[Root].status = "split" /\ tree[Root].children = {b, c}
       /\ tree[b].role = "outer" /\ tree[b].cut = "alone"
       /\ tree[b].status = "open" /\ tree[b].children = {}
       /\ tree[c].role = "callee" /\ tree[c].cut = "alone"
       /\ tree[c].status = "proved" /\ tree[c].children = {}
  <2>1. PICK b, c \in DOMAIN tree :
       /\ DOMAIN tree = {Root, b, c} /\ b # Root /\ c # Root /\ b # c
       /\ tree[Root].status = "split" /\ tree[Root].children = {b, c}
       /\ tree[b].role = "outer" /\ tree[b].cut = "alone"
       /\ tree[b].status = "open" /\ tree[b].children = {}
       /\ tree[c].role = "callee" /\ tree[c].cut = "alone"
       /\ tree[c].status = "proved" /\ tree[c].children = {}
    BY <1>2
  <2>2. b \in Nat /\ b <= b
    BY DEF Whole, Sound, Typed
  <2>3. \A d \in tree[Root].children :
          (tree[d].role = "outer" /\ \A k \in tree[Root].children : tree[k].role = "outer" => d <= k)
            <=> d = b
    BY <2>1, <2>2
  <2>4. Begun = b
    BY <2>1, <2>3 DEF Begun, Child
  <2> QED BY <2>1, <2>4 DEF BaseOf, BaseIs
<1> QED
  BY <1>1, <1>2 DEF AtRoot

\* A bounded loop of the root is peeled away.
LEMMA PeelRootKeeps ==
  ASSUME SearchInv, PeelRoot
  PROVE  SearchInv'
<1> DEFINE id == next
           U == CutIn(tree, Root, id, "alone", P, P, P, P)
           T == Proved(U, id + 1)
<1>1. Whole(tree) /\ AtRoot(tree) /\ agenda = <<>> /\ exhausted = {}
  BY DEF SearchInv, PeelRoot
<1>2. DOMAIN tree = {Root} /\ tree[Root].children = {}
  BY <1>1, BegunIs DEF PeelRoot
<1>3. tree' = T /\ phase' = "root" /\ agenda' = <<>> /\ exhausted' = {}
  BY <1>1 DEF PeelRoot, CutAlone
<1>4. id \in Nat /\ \A x \in DOMAIN tree : x < id
  BY <1>1, NextIs
<1> HIDE DEF id
<1>5. /\ Halved(tree, U, Root, id, "outer", "callee")
      /\ U[id].cut = "alone" /\ U[id + 1].cut = "alone"
  BY <1>1, <1>2, <1>4, CutHalves DEF CutKinds
<1> HIDE DEF U
<1>6. /\ Whole(U) /\ DOMAIN U = {Root, id, id + 1}
      /\ New(U, id, Root, "outer") /\ New(U, id + 1, Root, "callee")
      /\ U[Root].status = "split" /\ U[Root].children = {id, id + 1}
      /\ id + 1 \in DOMAIN U
  BY <1>2, <1>5 DEF Halved
<1>7. Whole(T) /\ Proves(U, T, {id + 1}) /\ T[id + 1].status = "proved"
  BY <1>6, ProvedProves
<1> HIDE DEF T
<1>8. id # Root /\ id + 1 # Root /\ id # id + 1
  <2>1. Root < id
    BY <1>2, <1>4
  <2> QED BY <1>4, <2>1 DEF Root
<1>9. /\ DOMAIN T = {Root, id, id + 1} /\ T[Root].children = {id, id + 1}
      /\ T[id].role = "outer" /\ T[id].cut = "alone" /\ T[id].children = {}
      /\ T[id + 1].role = "callee" /\ T[id + 1].cut = "alone" /\ T[id + 1].children = {}
  BY <1>5, <1>6, <1>7 DEF Proves, SameGoals, New
<1>10. T[id].status = "open"
  BY <1>6, <1>7, <1>8 DEF Proves, New
<1>11. T[Root].status = "split"
  BY <1>6, <1>7, <1>8, <1>10 DEF Proves
<1>12. AtRoot(T)
  <2>1. id \in DOMAIN T /\ id + 1 \in DOMAIN T
    BY <1>9
  <2> QED BY <1>7, <1>8, <1>9, <1>10, <1>11, <2>1 DEF AtRoot
<1> QED
  BY <1>3, <1>7, <1>12 DEF SearchInv, Phases, Searching

\* The check of what a peel left settles the run.
LEMMA CheckPeeledKeeps ==
  ASSUME SearchInv, CheckPeeled
  PROVE  SearchInv'
<1>1. Whole(tree) /\ AtRoot(tree)
  BY DEF SearchInv, CheckPeeled
<1>2. Begun \in DOMAIN tree
  BY <1>1, BegunIs
<1>3. Whole(Proved(tree, Begun))
  BY <1>1, <1>2, ProvedProves
<1>4. Whole(tree') /\ phase' = "settled"
  BY <1>3 DEF CheckPeeled
<1> QED
  BY <1>4 DEF SearchInv, Phases, Searching

\* The search begins with the one goal that is open.
LEMMA BeginKeeps ==
  ASSUME SearchInv, Begin
  PROVE  SearchInv'
<1> DEFINE b == Begun
           moves == MovesOf(tree[b].role, Stages, TRUE, TRUE, Comparisons)
           e == Entry(b, NoGoal, b, moves)
           A == <<e>>
<1>1. Whole(tree) /\ AtRoot(tree) /\ exhausted = {}
  BY DEF SearchInv, Begin
<1>2. agenda' = A /\ tree' = tree /\ phase' = "search" /\ exhausted' = {}
  BY <1>1 DEF Begin
<1>3. /\ b \in DOMAIN tree /\ BaseOf(tree, b) /\ tree[b].status = "open"
      /\ \A x \in DOMAIN tree : tree[x].status = "open" => x = b
  BY <1>1, BegunIs
<1> HIDE DEF b, moves
<1>4. Entered(e) /\ e.gid = b /\ e.parent = NoGoal /\ e.undo = "none"
  BY EntryIs
<1>5. Listed(A) /\ A[1] = e /\ DOMAIN A = {1} /\ A # <<>>
  BY OneIs
<1> HIDE DEF e, A
<1>6. Stood(tree, A)
  BY <1>3, <1>4, <1>5 DEF Stood, Once, Stacked
<1>7. Worked(tree, A) /\ Kept(tree, A, {})
  BY <1>3, <1>4, <1>5 DEF Worked, Kept
<1>8. Based(tree, A)
  BY <1>3, <1>4, <1>5 DEF Based, BaseAt
<1>9. Good(tree, A, {})
  BY <1>6, <1>7, <1>8 DEF Good
<1> QED
  BY <1>1, <1>2, <1>9 DEF SearchInv, Phases, Searching

-----------------------------------------------------------------------------
(* Moves that do not split the goal in hand.                               *)

\* The goals in hand are moved on from when nothing comes of a move.
LEMMA NoAnswerKeeps ==
  ASSUME SearchInv, NEW move, Working(move), NEW e, e.gid = Hand, e.parent = Top.parent,
         Entered(e), e.undo = "none", agenda' = WithTop(e),
         phase' \in Searching, UNCHANGED <<tree, exhausted>>
  PROVE  SearchInv'
<1>1. phase = "search" /\ Undecided /\ agenda # <<>> /\ Top.undo = "none" /\ Whole(tree)
  BY Splitting
<1>2. Whole(tree') /\ Follows(tree, tree', {Hand})
  BY <1>1, SameFollows
<1> QED
  BY <1>1, <1>2, TopStep DEF Searching

\* The goal in hand is proved, and leaves the agenda.
LEMMA ClosedKeeps ==
  ASSUME SearchInv, phase = "search", Undecided, agenda # <<>>, Closed,
         tree' = Proved(tree, Hand)
  PROVE  SearchInv'
<1> DEFINE h == Hand
           H == Proved(tree, h)
<1>1. Whole(tree) /\ h \in DOMAIN tree
  BY InHand DEF Searching
<1> HIDE DEF h
<1>2. Whole(H) /\ Proves(tree, H, {h}) /\ H[h].status = "proved"
  BY <1>1, ProvedProves
<1> HIDE DEF H
<1>3. /\ Follows(tree, H, {h}) /\ DOMAIN H = DOMAIN tree
      /\ H[h].children = tree[h].children
  BY <1>1, <1>2, ProvesFollows DEF Proves, SameGoals
<1>4. tree' = H /\ agenda' = Front(agenda) /\ phase' = "search" /\ exhausted' = exhausted
  BY DEF Closed, H, h
<1> QED
  BY <1>2, <1>3, <1>4, PopStep DEF h, Searching

\* It was proved already.
LEMMA WasClosedKeeps ==
  ASSUME SearchInv, phase = "search", Undecided, agenda # <<>>, Closed,
         tree[Hand].status = "proved", tree' = tree
  PROVE  SearchInv'
<1>1. Whole(tree)
  BY InHand DEF Searching
<1>2. Whole(tree') /\ Follows(tree, tree', {Hand}) /\ tree'[Hand].status = "proved"
  BY <1>1, SameFollows
<1>3. agenda' = Front(agenda) /\ phase' = "search" /\ exhausted' = exhausted
  BY DEF Closed
<1> QED
  BY <1>2, <1>3, PopStep DEF Searching

\* A counterexample sends the goal in hand to be repaired, or decides the run.
LEMMA RefutedKeeps ==
  ASSUME SearchInv, NEW move, Working(move),
         tree' \in {tree} \cup {Refuted(tree, Root) : r \in {Hand} \cap {Root}},
         agenda' = WithTop(MovedOn), phase' = "repair", UNCHANGED exhausted
  PROVE  SearchInv'
<1>1. /\ phase = "search" /\ Undecided /\ agenda # <<>> /\ Top.undo = "none" /\ Whole(tree)
      /\ Entered(MovedOn) /\ MovedOn.gid = Hand /\ MovedOn.parent = Top.parent
      /\ MovedOn.undo = "none"
  BY Splitting
<1>2. CASE tree' = tree
  BY <1>1, <1>2, NoAnswerKeeps DEF Searching
<1>3. CASE tree' = Refuted(tree, Root)
  <2>1. Whole(tree') /\ ~Unknown(tree')
    BY <1>1, <1>3, RefutedWhole
  <2> HIDE DEF MovedOn
  <2> QED BY <1>1, <2>1, TopStep DEF Searching
<1> QED
  BY <1>2, <1>3

\* Asking whether a strengthen proved the goal in hand.
LEMMA AskKeeps ==
  ASSUME SearchInv, AskProved
  PROVE  SearchInv'
<1>1. Working("ask") /\ UNCHANGED tree
  BY DEF AskProved
<1>2. /\ phase = "search" /\ Undecided /\ agenda # <<>>
      /\ Entered(MovedOn) /\ MovedOn.gid = Hand /\ MovedOn.parent = Top.parent
      /\ MovedOn.undo = "none"
  BY <1>1, Splitting
<1>3. CASE tree[Hand].status = "proved"
  BY <1>1, <1>2, <1>3, WasClosedKeeps DEF AskProved
<1>4. CASE tree[Hand].status # "proved"
  <2>1. agenda' = WithTop(MovedOn) /\ phase' = "search" /\ exhausted' = exhausted
    BY <1>2, <1>4 DEF AskProved, NoAnswer
  <2> HIDE DEF MovedOn
  <2> QED BY <1>1, <1>2, <2>1, NoAnswerKeeps DEF Searching
<1> QED
  BY <1>3, <1>4

\* A step reopens the goal in hand, or proves it on the way.
LEMMA StepKeeps ==
  ASSUME SearchInv, StepGoal
  PROVE  SearchInv'
<1> DEFINE h == Hand
           R == Reopened(tree, h)
           V == Proved(R, h)
<1>1. Working("steps") /\ tree' \in {R, V}
      /\ agenda' = WithTop(MovedOn) /\ UNCHANGED <<phase, exhausted>>
  BY DEF StepGoal, NoAnswer
<1>2. /\ phase = "search" /\ Undecided /\ agenda # <<>> /\ Top.undo = "none"
      /\ Whole(tree) /\ h \in DOMAIN tree
      /\ Entered(MovedOn) /\ MovedOn.gid = h /\ MovedOn.parent = Top.parent
      /\ MovedOn.undo = "none"
  BY <1>1, Splitting
<1> HIDE DEF h
<1>3. /\ Whole(R) /\ Follows(tree, R, {h}) /\ SameGoals(tree, R)
      /\ R[h].status = IF tree[h].status = "proved" THEN "open" ELSE tree[h].status
  BY <1>2, ReopenFollows
<1> HIDE DEF R
<1>4. h \in DOMAIN R
  BY <1>2, <1>3 DEF SameGoals
<1>5. Whole(V) /\ Proves(R, V, {h}) /\ V[h].status = "proved"
  BY <1>3, <1>4, ProvedProves
<1> HIDE DEF V
<1>6. Follows(tree, V, {h})
  <2>1. Follows(R, V, {h})
    BY <1>5, ProvesFollows
  <2>2. Follows(tree, V, {h} \cup {h})
    BY <1>3, <2>1, FollowsOn
  <2> QED BY <2>2
<1>7. DOMAIN V = DOMAIN tree /\ V[h].children = tree[h].children
  BY <1>2, <1>3, <1>4, <1>5 DEF Proves, SameGoals
<1>8. DOMAIN R = DOMAIN tree /\ R[h].children = tree[h].children
  BY <1>2, <1>3 DEF SameGoals
<1>9. /\ Whole(tree') /\ Follows(tree, tree', {h}) /\ DOMAIN tree' = DOMAIN tree
      /\ tree'[h].children = tree[h].children
      /\ tree[h].status # "proved" => tree'[h].status \in {tree[h].status, "proved"}
  BY <1>1, <1>3, <1>5, <1>6, <1>7, <1>8
<1> HIDE DEF MovedOn
<1> QED
  BY <1>1, <1>2, <1>9, TopStep DEF h, Searching

\* A check proves the goal in hand, leaves it, or refutes it.
LEMMA CheckKeeps ==
  ASSUME SearchInv, CheckGoal
  PROVE  SearchInv'
<1>1. Working("check")
  BY DEF CheckGoal
<1>2. /\ phase = "search" /\ Undecided /\ agenda # <<>>
      /\ Entered(MovedOn) /\ MovedOn.gid = Hand /\ MovedOn.parent = Top.parent
      /\ MovedOn.undo = "none"
  BY <1>1, Splitting
<1>3. CASE tree' = Proved(tree, Hand) /\ Closed
  BY <1>2, <1>3, ClosedKeeps
<1>4. CASE NoAnswer /\ UNCHANGED tree
  <2>1. agenda' = WithTop(MovedOn) /\ phase' = "search" /\ exhausted' = exhausted
    BY <1>2, <1>4 DEF NoAnswer
  <2> HIDE DEF MovedOn
  <2> QED BY <1>1, <1>2, <1>4, <2>1, NoAnswerKeeps DEF Searching
<1>5. CASE /\ tree' \in {tree} \cup {Refuted(tree, Root) : r \in {Hand} \cap {Root}}
           /\ agenda' = WithTop(MovedOn) /\ phase' = "repair" /\ UNCHANGED exhausted
  BY <1>1, <1>5, RefutedKeeps
<1> QED
  BY <1>3, <1>4, <1>5 DEF CheckGoal

\* A move finds nothing to do.
LEMMA RefusedKeeps ==
  ASSUME SearchInv, NEW move, MoveRefused(move)
  PROVE  SearchInv'
<1>1. Working(move) /\ UNCHANGED tree
  BY DEF MoveRefused
<1>2. /\ phase = "search"
      /\ Entered(MovedOn) /\ MovedOn.gid = Hand /\ MovedOn.parent = Top.parent
      /\ MovedOn.undo = "none"
  BY <1>1, Splitting
<1>3. agenda' = WithTop(MovedOn) /\ phase' = "search" /\ exhausted' = exhausted
  BY <1>2 DEF MoveRefused, NoAnswer
<1> HIDE DEF MovedOn
<1> QED
  BY <1>1, <1>2, <1>3, NoAnswerKeeps DEF Searching

\* A goal may stop walking the stages.
LEMMA JumpingIs ==
  ASSUME Entered(MovedOn), MovedOn.gid = Hand, MovedOn.parent = Top.parent,
         MovedOn.undo = "none", NEW jumping
  PROVE  LET e == [MovedOn EXCEPT !.jumping = jumping]
         IN  Entered(e) /\ e.gid = Hand /\ e.parent = Top.parent /\ e.undo = "none"
<1> HIDE DEF MovedOn
<1> QED
  BY DEF Entered, Fields

\* A stage is the goal's tgt, and the goal is checked.
LEMMA IsTgtKeeps ==
  ASSUME SearchInv, StageIsTgt
  PROVE  SearchInv'
<1>1. Working("stage")
  BY DEF StageIsTgt
<1>2. /\ phase = "search" /\ Undecided /\ agenda # <<>>
      /\ Entered(MovedOn) /\ MovedOn.gid = Hand /\ MovedOn.parent = Top.parent
      /\ MovedOn.undo = "none"
  BY <1>1, Splitting
<1>3. CASE tree' = Proved(tree, Hand) /\ Closed
  BY <1>2, <1>3, ClosedKeeps
<1>4. CASE /\ UNCHANGED <<tree, phase, exhausted>>
           /\ \E jumping \in BOOLEAN : agenda' = WithTop([MovedOn EXCEPT !.jumping = jumping])
  <2>1. PICK jumping \in BOOLEAN : agenda' = WithTop([MovedOn EXCEPT !.jumping = jumping])
    BY <1>4
  <2> DEFINE e == [MovedOn EXCEPT !.jumping = jumping]
  <2>2. Entered(e) /\ e.gid = Hand /\ e.parent = Top.parent /\ e.undo = "none"
    BY <1>2, JumpingIs
  <2> HIDE DEF e
  <2> QED BY <1>1, <1>2, <1>4, <2>1, <2>2, NoAnswerKeeps DEF e, Searching
<1>5. CASE /\ tree' \in {tree} \cup {Refuted(tree, Root) : r \in {Hand} \cap {Root}}
           /\ agenda' = WithTop(MovedOn) /\ phase' = "repair" /\ UNCHANGED exhausted
  BY <1>1, <1>5, RefutedKeeps
<1> QED
  BY <1>3, <1>4, <1>5 DEF StageIsTgt

\* A stage is refused.
LEMMA StageRefusedKeeps ==
  ASSUME SearchInv, StageRefused
  PROVE  SearchInv'
<1>1. Working("stage") /\ UNCHANGED <<tree, phase, exhausted>>
  BY DEF StageRefused
<1>2. /\ phase = "search"
      /\ Entered(MovedOn) /\ MovedOn.gid = Hand /\ MovedOn.parent = Top.parent
      /\ MovedOn.undo = "none"
  BY <1>1, Splitting
<1>3. PICK jumping \in {FALSE, TRUE} : agenda' = WithTop([MovedOn EXCEPT !.jumping = jumping])
  BY DEF StageRefused
<1> DEFINE e == [MovedOn EXCEPT !.jumping = jumping]
<1>4. Entered(e) /\ e.gid = Hand /\ e.parent = Top.parent /\ e.undo = "none"
  BY <1>2, JumpingIs
<1> HIDE DEF e
<1> QED
  BY <1>1, <1>2, <1>3, <1>4, NoAnswerKeeps DEF e, Searching

\* A goal with no move left leaves the agenda.
LEMMA ExhaustKeeps ==
  ASSUME SearchInv, Exhaust
  PROVE  SearchInv'
<1>1. /\ phase = "search" /\ Undecided /\ agenda # <<>> /\ Top.undo = "none"
      /\ agenda' = Front(agenda) /\ exhausted' = exhausted \cup {Hand}
      /\ tree' = tree /\ phase' = "search"
  BY DEF Exhaust
<1>2. Whole(tree)
  BY <1>1, InHand DEF Searching
<1>3. Whole(tree') /\ Follows(tree, tree', {Hand})
  BY <1>1, <1>2, SameFollows
<1> QED
  BY <1>1, <1>3, PopStep DEF Searching

\* A search that is over stays so.
LEMMA EndedKeeps ==
  ASSUME SearchInv, Whole(tree'), phase' \in {"settled", "threw"}
  PROVE  SearchInv'
BY DEF SearchInv, Phases, Searching

-----------------------------------------------------------------------------
(* Undoing a split, and the end.                                           *)

\* An undo asks for a goal that is split.
LEMMA CanUndoSplit ==
  ASSUME NEW e, Entered(e), e.undo # "none", CanUndo(e)
  PROVE  tree[e.gid].status = "split"
<1>1. e.undo \in {"uncut", "uninterpose", "uncase"}
  BY DEF Entered, Undos
<1> QED
  BY <1>1 DEF CanUndo, CanUncut, CanUninterpose, CanUncase

\* The goal whose split is undone is entered as it was, but for that.
LEMMA ResumedIs ==
  ASSUME NEW e, Entered(e)
  PROVE  LET r == Resumed(e)
         IN  Entered(r) /\ r.gid = e.gid /\ r.parent = e.parent /\ r.undo = "none"
BY DEF Resumed, Entered, Fields, Undos

\* The split of the goal in hand proved it, or is undone.
LEMMA SettleKeeps ==
  ASSUME SearchInv, Settle
  PROVE  SearchInv'
<1>1. phase = "search" /\ Undecided /\ agenda # <<>> /\ Top.undo # "none"
  BY DEF Settle
<1> DEFINE n == Len(agenda)
           A == agenda
<1>2. /\ Whole(tree) /\ Good(tree, A, exhausted) /\ Listed(A) /\ n \in DOMAIN A
      /\ Top = A[n] /\ Hand = A[n].gid /\ Entered(Top)
  BY <1>1, InHand DEF Searching
<1>3. CASE tree[Hand].status = "proved"
  <2>1. Closed /\ tree' = tree
    BY <1>3 DEF Settle, PopsProved
  <2> QED BY <1>1, <1>3, <2>1, WasClosedKeeps
<1>4. CASE tree[Hand].status # "proved" /\ ~CanUndo(Top)
  <2>1. Threw
    BY <1>4 DEF Settle, PopsProved
  <2> QED BY <1>2, <2>1, EndedKeeps DEF Threw
<1>5. CASE tree[Hand].status # "proved" /\ CanUndo(Top)
  <2> DEFINE e == Resumed(Top)
             T == Front(A) \o <<e>>
             H == Unsplit(tree, A[n].gid)
  <2>1. Undone(Hand) /\ agenda' = WithTop(Resumed(Top)) /\ phase' = "search"
    BY <1>1, <1>5 DEF Settle, PopsProved
  <2>2. tree[Hand].status = "split"
    BY <1>1, <1>2, <1>5, CanUndoSplit DEF Hand
  <2>3. Entered(e) /\ e.gid = Hand /\ e.parent = Top.parent /\ e.undo = "none"
    BY <1>2, ResumedIs DEF Hand
  <2> HIDE DEF e
  <2>4. /\ Listed(T) /\ DOMAIN T = DOMAIN A /\ \A i \in DOMAIN A : T[i] = IF i = n THEN e ELSE A[i]
    BY <1>1, <1>2, TopIs
  <2>5. DOMAIN A = 1..n /\ n \in Nat
    BY <1>1, <1>2, FrontIs
  <2>6. \A k \in DOMAIN A : ~ (k > n)
    BY <2>5
  <2>7. tree' = H /\ exhausted' = exhausted \cap DOMAIN H /\ agenda' = T
    BY <1>2, <2>1 DEF Undone, WithTop, e
  <2> HIDE DEF T, n, A
  <2>8. /\ A[n].undo # "none" /\ \A k \in DOMAIN A : k > n => A[k].undo = "none"
        /\ tree[A[n].gid].status = "split"
        /\ Listed(T) /\ DOMAIN T = 1..n /\ \A k \in 1..n : k # n => T[k] = A[k]
        /\ Entered(T[n]) /\ T[n].gid = A[n].gid /\ T[n].parent = A[n].parent /\ T[n].undo = "none"
    BY <1>1, <1>2, <2>2, <2>3, <2>4, <2>5, <2>6
  <2>9. Whole(H) /\ Good(H, T, exhausted \cap DOMAIN H)
    BY <1>2, <2>8, UndoneKeeps
  <2> QED BY <2>1, <2>7, <2>9 DEF SearchInv, Searching, Phases
<1> QED
  BY <1>3, <1>4, <1>5

\* The counterexample to the root decides the run.
LEMMA RefuteRunKeeps ==
  ASSUME SearchInv, RefuteRun
  PROVE  SearchInv'
<1>1. tree' = Refuted(tree, Root) /\ phase' = "search" /\ Whole(tree)
  BY DEF RefuteRun, SearchInv
<1>2. Whole(tree') /\ ~Unknown(tree')
  BY <1>1, RefutedWhole
<1> QED
  BY <1>1, <1>2 DEF SearchInv, Phases, Searching

\* Where a goal is on the agenda.
LEMMA IndexIs ==
  ASSUME Once(agenda), NEW i \in DOMAIN agenda
  PROVE  IndexOf(agenda[i].gid) = i
<1>1. \A j \in DOMAIN agenda : agenda[j].gid = agenda[i].gid <=> j = i
  BY DEF Once
<1> QED
  BY <1>1 DEF IndexOf

\* The agenda up to an entry, with another in its place.
LEMMA CutAtIs ==
  ASSUME NEW A, Listed(A), NEW i \in DOMAIN A, NEW e
  PROVE  LET T == [SubSeq(A, 1, i) EXCEPT ![i] = e]
         IN  Listed(T) /\ DOMAIN T = 1..i /\ T[i] = e /\ \A k \in 1..i : k # i => T[k] = A[k]
<1> DEFINE Q == SubSeq(A, 1, i)
           T == [Q EXCEPT ![i] = e]
<1>1. PICK S : A \in Seq(S)
  BY DEF Listed
<1>2. i \in 0..Len(A) /\ i \in 1..i /\ i \in Nat
  BY <1>1
<1>3. DOMAIN Q = 1..i /\ \A k \in 1..i : Q[k] = A[k]
  BY <1>2, PrefixIs
<1>4. \A k \in 1..i : A[k] \in S
  BY <1>1, <1>2
<1> HIDE DEF Q
<1>5. T = [k \in 1..i |-> IF k = i THEN e ELSE Q[k]]
  BY <1>3
<1>6. T \in [1..i -> S \cup {e}]
  BY <1>3, <1>4, <1>5
<1>7. DOMAIN T = 1..i /\ T[i] = e /\ \A k \in 1..i : k # i => T[k] = A[k]
  BY <1>2, <1>3, <1>5
<1> HIDE DEF T
<1>8. T \in Seq(S \cup {e})
  BY <1>2, <1>6, SeqDef
<1> QED
  BY <1>7, <1>8 DEF Listed, T, Q

\* A goal that nothing repairs takes the split that left it with it.
LEMMA UndoKeeps ==
  ASSUME SearchInv, Undo
  PROVE  SearchInv'
<1>1. phase = "repair" /\ Undecided /\ agenda # <<>> /\ Top.undo = "none"
  BY DEF Undo, Repairing, SearchInv
<1> DEFINE n == Len(agenda)
           A == agenda
<1>2. /\ Whole(tree) /\ Typed(tree) /\ Linked(tree) /\ Good(tree, A, exhausted) /\ Stood(tree, A)
      /\ Listed(A) /\ n \in DOMAIN A /\ Top = A[n] /\ Hand = A[n].gid
  BY <1>1, InHand DEF Searching
<1>3. CASE Top.parent = NoGoal
  <2>1. /\ agenda' = Front(agenda) /\ exhausted' = exhausted \cup {Hand}
        /\ phase' = "search" /\ tree' = tree
    BY <1>3 DEF Undo
  <2>2. Whole(tree') /\ Follows(tree, tree', {Hand})
    BY <1>2, <2>1, SameFollows
  <2> QED BY <1>1, <2>1, <2>2, PopStep DEF Searching
<1>4. CASE Top.parent # NoGoal
  <2>1. n # 1
    BY <1>2, <1>4 DEF Stood, Stacked
  <2>2. PICK i \in DOMAIN A :
          /\ i < n /\ A[i].gid = A[n].parent /\ A[i].undo # "none"
          /\ \A k \in (i + 1)..(n - 1) : A[k].undo = "none"
    BY <1>1, <1>2, <2>1, TopWasLeft
  <2>3. IndexOf(Top.parent) = i /\ IndexOf(A[i].gid) = i
    BY <1>2, <2>2, IndexIs DEF Stood
  <2> DEFINE e == Resumed(A[i])
             T == [SubSeq(A, 1, i) EXCEPT ![i] = e]
             H == Unsplit(tree, A[i].gid)
  <2>4. CASE ~CanUndo(A[i])
    <3>1. Threw
      BY <1>4, <2>3, <2>4 DEF Undo
    <3> QED BY <1>2, <3>1, EndedKeeps DEF Threw
  <2>5. CASE CanUndo(A[i])
    <3>1. /\ Undone(A[i].gid) /\ phase' = "search"
          /\ agenda' = [UpTo(A[i].gid) EXCEPT ![i] = Resumed(@)]
      BY <1>4, <2>3, <2>5 DEF Undo
    <3>2. Entered(A[i])
      BY <1>2 DEF Stood
    <3>3. tree[A[i].gid].status = "split"
      BY <2>2, <2>5, <3>2, CanUndoSplit
    <3>4. Entered(e) /\ e.gid = A[i].gid /\ e.parent = A[i].parent /\ e.undo = "none"
      BY <3>2, ResumedIs
    <3>5. SubSeq(A, 1, i)[i] = A[i]
      <4>1. i \in 0..Len(A) /\ i \in 1..i
        BY <1>1, <1>2, FrontIs
      <4> QED BY <1>2, <4>1, PrefixIs
    <3>6. agenda' = T /\ tree' = H /\ exhausted' = exhausted \cap DOMAIN H
      BY <2>3, <3>1, <3>5 DEF UpTo, Undone
    <3> HIDE DEF e
    <3>7. Listed(T) /\ DOMAIN T = 1..i /\ T[i] = e /\ \A k \in 1..i : k # i => T[k] = A[k]
      BY <1>2, CutAtIs
    <3>8. \A k \in DOMAIN A : k > i => A[k].undo = "none"
      <4>1. DOMAIN A = 1..n /\ n \in Nat
        BY <1>1, <1>2, FrontIs
      <4> HIDE DEF n, A
      <4>2. \A k \in DOMAIN A : k > i => k = n \/ k \in (i + 1)..(n - 1)
        BY <4>1
      <4> QED BY <1>1, <1>2, <2>2, <4>2
    <3> HIDE DEF T, A
    <3>9. /\ Entered(T[i]) /\ T[i].gid = A[i].gid /\ T[i].parent = A[i].parent
          /\ T[i].undo = "none"
      BY <3>4, <3>7
    <3>10. Whole(H) /\ Good(H, T, exhausted \cap DOMAIN H)
      BY <1>2, <2>2, <3>3, <3>7, <3>8, <3>9, UndoneKeeps
    <3> QED BY <3>1, <3>6, <3>10 DEF SearchInv, Searching, Phases
  <2> QED BY <2>4, <2>5
<1> QED
  BY <1>3, <1>4

\* A search with nothing on its agenda has undone every split it made.
LEMMA GiveUpKeeps ==
  ASSUME SearchInv, GiveUp
  PROVE  SearchInv'
<1> DEFINE G == tree
<1>1. phase = "search" /\ Undecided /\ agenda = <<>> /\ phase' = "gave up" /\ tree' = tree
  BY DEF GiveUp
<1>2. Whole(G) /\ Based(G, agenda)
  BY <1>1, UndecidedIs DEF SearchInv, Good, Searching
<1>3. PICK b \in DOMAIN G : BaseAt(G, agenda, b)
  BY <1>2 DEF Based
<1>4. G[b].children = {} /\ BaseIs(G, b)
  BY <1>1, <1>3 DEF BaseAt, BaseOf
<1>5. /\ DOMAIN G \subseteq Nat /\ NoGoal \notin DOMAIN G /\ Root \in DOMAIN G /\ Linked(G)
      /\ \A x \in DOMAIN G \ {Root} : G[x].parent \in DOMAIN G /\ G[x].parent < x
                                      /\ x \in G[G[x].parent].children
  BY <1>2 DEF Whole, Sound, Typed, Linked
<1>6. ASSUME b = Root PROVE AllUndone(G)
  <2>1. \A x \in DOMAIN G : x = Root
    <3> DEFINE S == {x \in DOMAIN G : x # Root}
    <3> SUFFICES ASSUME S # {} PROVE FALSE
      OBVIOUS
    <3>1. PICK x \in S : \A y \in S : x <= y
      BY <1>5, NatMin
    <3>2. G[x].parent = Root
      BY <1>5, <3>1
    <3> QED BY <1>4, <1>5, <1>6, <3>1, <3>2
  <2> QED BY <1>4, <1>6, <2>1 DEF AllUndone
<1>7. ASSUME b # Root PROVE AllUndone(G)
  <2>1. PICK c \in DOMAIN G :
          /\ c # b /\ G[Root].children = {b, c}
          /\ G[c].children = {} /\ G[c].cut = "alone" /\ G[b].cut = "alone"
    BY <1>4, <1>7 DEF BaseIs
  <2>2. \A x \in DOMAIN G : x \in {Root, b, c}
    <3> DEFINE S == {x \in DOMAIN G : x \notin {Root, b, c}}
    <3> SUFFICES ASSUME S # {} PROVE FALSE
      OBVIOUS
    <3>1. PICK x \in S : \A y \in S : x <= y
      BY <1>5, NatMin
    <3>2. G[x].parent \in {Root, b, c}
      BY <1>5, <3>1
    <3> QED BY <1>4, <1>5, <2>1, <3>1, <3>2
  <2> QED BY <1>4, <2>1, <2>2 DEF AllUndone
<1>8. AllUndone(G)
  BY <1>6, <1>7
<1> QED
  BY <1>1, <1>2, <1>8 DEF SearchInv, Phases, Searching

-----------------------------------------------------------------------------
(* Strengthening the cut that left a refuted goal.                         *)

\* The first child with a role, of a goal that has one.
LEMMA ChildIs ==
  ASSUME NEW G, Typed(G), Linked(G), NEW g \in DOMAIN G, NEW role, HasRole(G, g, role)
  PROVE  Child(G, g, role) \in G[g].children /\ G[Child(G, g, role)].role = role
<1> DEFINE S == {c \in G[g].children : G[c].role = role}
<1>1. S \subseteq Nat /\ S # {}
  BY DEF Typed, Linked, HasRole
<1>2. \E x \in S : \A y \in S : x <= y
  BY <1>1, NatMin
<1>3. \E c \in G[g].children :
        /\ G[c].role = role
        /\ \A d \in G[g].children : G[d].role = role => c <= d
  BY <1>2
<1> QED
  BY <1>3 DEF Child

\* What is put back: the goals of the cut that are open and not on the agenda, each once.
LEMMA RequeuedIs ==
  ASSUME Listed(agenda), Top = agenda[Len(agenda)], Hand = Top.gid, CutAt = tree[Hand].parent,
         NEW T, Whole(T), T[CutAt].children = tree[CutAt].children,
         tree[CutAt].children \subseteq DOMAIN T
  PROVE  /\ Back(tree, agenda, Requeued(T))
         /\ Covers(T, agenda, Requeued(T), tree[CutAt].children \ {Hand})
<1> DEFINE S == {s \in T[CutAt].children \ {Hand} : T[s].status = "open" /\ ~Queued(s)}
           s == OldestFirst(S)
           B == Requeued(T)
           k == Cardinality(S)
<1>1. PICK n \in Nat : DOMAIN T \subseteq 1..n
  BY DEF Whole
<1>2. S \subseteq 1..n
  BY <1>1
<1>3. \A x \in S : x \in tree[CutAt].children \ {Hand}
                   /\ \A i \in DOMAIN agenda : agenda[i].gid # x
  BY DEF Queued
<1>4. \A x \in tree[CutAt].children \ {Hand} : T[x].status = "open" =>
        (\E i \in DOMAIN agenda : agenda[i].gid = x) \/ x \in S
  BY DEF Queued
<1>5. B = [i \in DOMAIN s |-> Plain(T[s[i]].role, s[i], Top.parent, Top.quota)]
  BY DEF Requeued
<1> HIDE DEF S
<1>6. /\ k \in Nat /\ s \in [1..k -> S]
      /\ \A i, j \in 1..k : s[i] = s[j] => i = j
      /\ \A x \in S : \E i \in 1..k : s[i] = x
  BY <1>2, OldestFirstIs
<1> HIDE DEF s, B, k
<1>7. DOMAIN B = 1..k /\ \A i \in 1..k : B[i] = Plain(T[s[i]].role, s[i], Top.parent, Top.quota)
  BY <1>5, <1>6
<1>8. \A i \in 1..k : Entered(B[i]) /\ B[i].undo = "none" /\ B[i].parent = Top.parent
                      /\ B[i].gid = s[i]
  BY <1>7, PlainIs
<1>9. Listed(B)
  <2>1. B \in [1..k -> {B[i] : i \in 1..k}]
    <3>1. B = [i \in 1..k |-> B[i]]
      BY <1>5, <1>7
    <3>2. \A i \in 1..k : B[i] \in {B[j] : j \in 1..k}
      OBVIOUS
    <3> QED BY <3>1, <3>2, Zenon
  <2>2. B \in Seq({B[i] : i \in 1..k})
    BY <1>6, <2>1, SeqDef
  <2> QED BY <2>2 DEF Listed
<1>10. Once(B)
  BY <1>6, <1>7, <1>8 DEF Once
<1>11. \A i \in 1..k : s[i] \in S
  BY <1>6
<1>12. Back(tree, agenda, B)
  BY <1>3, <1>7, <1>8, <1>9, <1>10, <1>11 DEF Back
<1>13. \A x \in S : \E i \in DOMAIN B : B[i].gid = x
  BY <1>6, <1>7, <1>8
<1> QED
  BY <1>4, <1>12, <1>13 DEF Covers, B

\* The goals of the cut are children of one goal, and the goal in hand is one of them.
LEMMA CutIsOf ==
  ASSUME SearchInv, Repairing, ~Mixed, Strengthenable
  PROVE  /\ agenda # <<>> /\ Top.undo = "none" /\ phase \in Searching /\ Undecided
         /\ CutAt \in DOMAIN tree
         /\ {FirstOuter, FirstCallee, Hand} \subseteq tree[CutAt].children
<1>1. phase \in Searching /\ Undecided /\ agenda # <<>> /\ Top.undo = "none"
  BY DEF Repairing, SearchInv, Searching
<1> DEFINE n == Len(agenda)
<1>2. /\ Whole(tree) /\ Typed(tree) /\ Linked(tree) /\ Good(tree, agenda, exhausted)
      /\ Stood(tree, agenda) /\ Hand = agenda[n].gid /\ Hand \in DOMAIN tree
  BY <1>1, InHand
<1>3. tree[Hand].role = "callee"
  BY DEF Strengthenable
<1>4. n # 1
  <2> SUFFICES ASSUME n = 1 PROVE FALSE
    OBVIOUS
  <2>1. PICK b \in DOMAIN tree : BaseAt(tree, agenda, b)
    BY <1>2 DEF Good, Based
  <2> QED BY <1>1, <1>2, <1>3, <2>1 DEF BaseAt, BaseOf
<1>5. CutAt \in DOMAIN tree
  BY <1>1, <1>2, <1>4, TopWasLeft DEF CutAt
<1>6. Hand \in tree[CutAt].children
  BY <1>2, <1>5 DEF CutAt, Typed, Linked
<1>7. HasRole(tree, CutAt, "outer") /\ HasRole(tree, CutAt, "callee")
  BY <1>2, <1>3, <1>5, <1>6 DEF Mixed, Whole, Sound, Paired
<1>8. FirstOuter \in tree[CutAt].children /\ FirstCallee \in tree[CutAt].children
  BY <1>2, <1>5, <1>7, ChildIs DEF FirstOuter, FirstCallee
<1> QED
  BY <1>1, <1>5, <1>6, <1>8

\* What a strengthen of two goals does to the tree.
LEMMA StrengthenFollows ==
  ASSUME NEW G, Whole(G), NEW o \in DOMAIN G, NEW c \in DOMAIN G,
         NEW T \in CrossChecked(Reopened(Reopened(G, o), c), o, c)
  PROVE  Whole(T) /\ Follows(G, T, {o, c}) /\ SameGoals(G, T)
<1> DEFINE Q == Reopened(G, o)
           R == Reopened(Q, c)
<1>1. Whole(Q) /\ Follows(G, Q, {o}) /\ SameGoals(G, Q)
  BY ReopenFollows
<1> HIDE DEF Q
<1>2. c \in DOMAIN Q
  BY <1>1 DEF SameGoals
<1>3. Whole(R) /\ Follows(Q, R, {c}) /\ SameGoals(Q, R)
  BY <1>1, <1>2, ReopenFollows
<1>4. T \in CrossChecked(R, o, c)
  BY DEF Q
<1> HIDE DEF R
<1>5. o \in DOMAIN R /\ c \in DOMAIN R
  BY <1>1, <1>3 DEF SameGoals
<1> DEFINE C == {o} \cup {x \in {c} : R[x].status # "split"}
<1>6. Whole(T) /\ Proves(R, T, C)
  BY <1>3, <1>4, <1>5, CrossProves
<1> HIDE DEF C
<1>7. Follows(R, T, C) /\ SameGoals(R, T)
  BY <1>6, ProvesFollows DEF Proves
<1>8. Follows(G, R, {o} \cup {c})
  BY <1>1, <1>3, FollowsOn
<1>9. Follows(G, T, ({o} \cup {c}) \cup C)
  BY <1>7, <1>8, FollowsOn
<1>10. ({o} \cup {c}) \cup C = {o, c}
  BY DEF C
<1>11. SameGoals(G, T)
  BY <1>1, <1>3, <1>7 DEF SameGoals
<1> QED
  BY <1>6, <1>9, <1>10, <1>11

\* A strengthen proves the goal in hand, or leaves it in hand.
LEMMA StrengthenKeeps ==
  ASSUME SearchInv, StrengthenAgainst
  PROVE  SearchInv'
<1> DEFINE h == Hand
           o == FirstOuter
           c == FirstCallee
           A == agenda
           C == {o, c, h}
           U == Reopened(Reopened(tree, o), c)
<1>1. Repairing /\ ~Mixed /\ Strengthenable
  BY DEF StrengthenAgainst
<1>2. PICK T \in CrossChecked(U, o, c) :
        /\ exhausted' = exhausted \ {Requeued(T)[i].gid : i \in DOMAIN Requeued(T)}
        /\ \/ tree' = Proved(T, h) /\ agenda' = Front(A) \o Requeued(T) /\ phase' = "search"
           \/ /\ tree' = T
              /\ agenda' = Front(A) \o Requeued(T) \o <<Top>> /\ phase' \in {"search", "repair"}
  BY DEF StrengthenAgainst
<1>3. /\ A # <<>> /\ Top.undo = "none" /\ phase \in Searching /\ Undecided
      /\ CutAt \in DOMAIN tree /\ C \subseteq tree[CutAt].children
      /\ CutAt = tree[h].parent /\ tree[h].role = "callee"
  BY <1>1, CutIsOf DEF CutAt, Strengthenable
<1>4. /\ Whole(tree) /\ Linked(tree) /\ Good(tree, A, exhausted) /\ Listed(A)
      /\ Top = A[Len(A)] /\ h = A[Len(A)].gid /\ h \in DOMAIN tree
  BY <1>3, InHand
<1>5. o \in DOMAIN tree /\ c \in DOMAIN tree /\ tree[CutAt].children \subseteq DOMAIN tree
  BY <1>3, <1>4 DEF Linked
<1> HIDE DEF h, o, c, A
<1>6. Whole(T) /\ Follows(tree, T, {o, c}) /\ SameGoals(tree, T)
  BY <1>4, <1>5, StrengthenFollows
<1>7. /\ DOMAIN T = DOMAIN tree /\ T[CutAt].children = tree[CutAt].children
      /\ h \in DOMAIN T
  BY <1>3, <1>4, <1>6 DEF SameGoals
<1> DEFINE B == Requeued(T)
<1>8. /\ Back(tree, A, B)
      /\ Covers(T, A, B, tree[CutAt].children \ {h})
  <2>1. /\ Listed(agenda) /\ Top = agenda[Len(agenda)] /\ Hand = Top.gid
        /\ CutAt = tree[Hand].parent /\ tree[CutAt].children \subseteq DOMAIN T
    BY <1>3, <1>4, <1>5, <1>7 DEF A, Hand, h
  <2> QED BY <1>6, <1>7, <2>1, RequeuedIs DEF A, h
<1> DEFINE Y == exhausted \ {B[k].gid : k \in DOMAIN B}
<1> HIDE DEF B
<1>9. /\ exhausted' = Y
      /\ \/ tree' = Proved(T, h) /\ agenda' = Front(A) \o B /\ phase' = "search"
         \/ /\ tree' = T
            /\ agenda' = (Front(A) \o B) \o <<A[Len(A)]>> /\ phase' \in {"search", "repair"}
  BY <1>2, <1>4 DEF B
<1>10. A[Len(A)].undo = "none" /\ C \subseteq tree[tree[h].parent].children /\ h \in C
  BY <1>3, <1>4
<1>11. CASE tree' = Proved(T, h) /\ agenda' = Front(A) \o B /\ phase' = "search"
  <2> DEFINE H == Proved(T, h)
  <2>1. Whole(H) /\ Proves(T, H, {h}) /\ H[h].status = "proved"
    BY <1>6, <1>7, ProvedProves
  <2> HIDE DEF H
  <2>2. Follows(T, H, {h})
    BY <2>1, ProvesFollows
  <2>3. Follows(tree, H, {o, c} \cup {h})
    BY <1>6, <2>2, FollowsOn
  <2>4. {o, c} \cup {h} = C
    OBVIOUS
  <2>5. Follows(tree, H, C)
    BY <2>3, <2>4
  <2>6. DOMAIN H = DOMAIN tree
    BY <1>7, <2>1 DEF Proves, SameGoals
  <2>7. Covers(H, A, B, C \ {h})
    <3> SUFFICES ASSUME NEW x \in C \ {h}, H[x].status = "open"
                 PROVE  (\E i \in DOMAIN A : A[i].gid = x) \/ (\E k \in DOMAIN B : B[k].gid = x)
      BY DEF Covers
    <3>1. x \in tree[CutAt].children \ {h} /\ x \in DOMAIN T
      BY <1>3, <1>5, <1>7
    <3>2. T[x].status = "open"
      BY <2>1, <3>1 DEF Proves
    <3> QED BY <1>8, <3>1, <3>2 DEF Covers
  <2> HIDE DEF C, Y
  <2>8. Unknown(H) => Requeues(H, A, B, exhausted, h)
    BY <1>3, <1>4, <1>8, <1>10, <2>1, <2>5, <2>6, <2>7, RequeueKeeps
  <2>9. Unknown(tree') => Good(tree', agenda', exhausted')
    BY <1>9, <1>11, <2>1, <2>8 DEF Requeues, H, Y
  <2>10. Whole(tree')
    BY <1>11, <2>1 DEF H
  <2> QED BY <1>11, <2>9, <2>10 DEF SearchInv, Searching, Phases
<1>12. CASE /\ tree' = T
            /\ agenda' = (Front(A) \o B) \o <<A[Len(A)]>> /\ phase' \in {"search", "repair"}
  <2> DEFINE e == A[Len(A)]
             Q == Front(A) \o B
             R == Q \o <<e>>
  <2>1. Follows(tree, T, C)
    BY <1>6 DEF Follows
  <2>2. Covers(T, A, B, C \ {h})
    BY <1>3, <1>8 DEF Covers
  <2> HIDE DEF C, Y
  <2>3. Unknown(T) => Requeues(T, A, B, exhausted, h)
    BY <1>3, <1>4, <1>6, <1>7, <1>8, <1>10, <2>1, <2>2, RequeueKeeps
  <2>4. Unknown(tree') => Good(tree', agenda', exhausted')
    BY <1>9, <1>12, <2>3 DEF Requeues, Y
  <2>5. agenda' # <<>> /\ Last(agenda').undo = "none"
    <3>1. Listed(Q)
      BY <1>3, <1>4, <1>8, FrontIs, JoinIs DEF Back
    <3>2. Listed(<<e>>) /\ Len(<<e>>) = 1 /\ <<e>>[1] = e
      BY OneIs
    <3> HIDE DEF e, Q
    <3>3. /\ DOMAIN R = 1..(Len(Q) + 1) /\ Len(R) = Len(Q) + 1 /\ Len(Q) \in Nat
          /\ \A i \in 1..1 : R[Len(Q) + i] = <<e>>[i]
      BY <3>1, <3>2, JoinIs
    <3>4. R[Len(R)] = e /\ 1 \in DOMAIN R
      BY <3>2, <3>3
    <3> HIDE DEF R
    <3>5. R # <<>> /\ Last(R).undo = "none"
      BY <1>10, <3>4 DEF Last, e
    <3> QED BY <1>12, <3>5 DEF R, Q, e
  <2>6. Whole(tree')
    BY <1>6, <1>12
  <2>7. Top'.undo = "none"
    BY <2>5 DEF Top
  <2> QED BY <1>12, <2>4, <2>5, <2>6, <2>7 DEF SearchInv, Searching, Phases
<1> QED
  BY <1>9, <1>11, <1>12

-----------------------------------------------------------------------------
(* The invariant, and what follows from it.                                *)

\* Every step keeps it.
LEMMA NextKeeps ==
  ASSUME SearchInv, [Next]_vars
  PROVE  SearchInv'
<1>1. CASE UNCHANGED vars
  <2>1. /\ tree' = tree /\ agenda' = agenda /\ phase' = phase /\ exhausted' = exhausted
    BY <1>1 DEF vars
  <2>2. Top' = Top
    BY <2>1 DEF Top
  <2> QED BY <2>1, <2>2 DEF SearchInv
<1>2. CASE Next
  <2>1. CASE RootCheck \/ PeelRoot \/ CheckPeeled \/ Begin
    BY <2>1, RootCheckKeeps, PeelRootKeeps, CheckPeeledKeeps, BeginKeeps
  <2>2. CASE AskProved \/ StepGoal \/ CheckGoal
    BY <2>2, AskKeeps, StepKeeps, CheckKeeps
  <2>3. CASE Refusals \/ StageReached
    BY <2>3, RefusedKeeps DEF Refusals, StageReached
  <2>4. CASE CutBounded \/ Cut \/ CutNested \/ Peel \/ Case
    BY <2>4, BoundedKeeps, CutKeeps, NestedKeeps, PeelKeeps, CaseKeeps
  <2>5. CASE StageIsTgt \/ StageJumped \/ StageInterposed \/ StageRefused
    BY <2>5, IsTgtKeeps, JumpedKeeps, InterposedKeeps, StageRefusedKeeps
  <2>6. CASE Settle \/ Exhaust \/ Undo
    BY <2>6, SettleKeeps, ExhaustKeeps, UndoKeeps
  <2>7. CASE RefuteRun \/ StrengthenAgainst
    BY <2>7, RefuteRunKeeps, StrengthenKeeps
  <2>8. CASE StrengthenThrows \/ Decided
    <3>1. Whole(tree') /\ phase' \in {"settled", "threw"}
      BY <2>8 DEF SearchInv, StrengthenThrows, Threw, Decided
    <3> QED BY <3>1, EndedKeeps
  <2>9. CASE GiveUp
    BY <2>9, GiveUpKeeps
  <2>10. CASE Over
    BY <2>10, <1>1 DEF Over
  <2> QED
    BY <1>2, <2>1, <2>2, <2>3, <2>4, <2>5, <2>6, <2>7, <2>8, <2>9, <2>10 DEF Next
<1> QED
  BY <1>1, <1>2

\* What is true of a search in every state: its tree is whole, an undecided search has an
\* agenda that stands in it, which forgets no open goal and starts at the goal the search
\* began with, and a search that gave up has undone its splits (search.ts search, settle,
\* undo, requeue).
THEOREM SearchInvHolds == Spec => []SearchInv
<1>1. Init => SearchInv
  BY InitKeeps
<1>2. SearchInv /\ [Next]_vars => SearchInv'
  BY NextKeeps
<1> QED
  BY <1>1, <1>2, PTL DEF Spec

\* The agenda of an undecided search names goals that are alive, each once and above the goal
\* whose split left it, and that split was not undone since (search.ts undo, settle, requeue).
THEOREM AgendaStandsAlways == Spec => []AgendaStands
<1>1. SearchInv => AgendaStands
  <2> SUFFICES ASSUME SearchInv, phase \in Searching, Undecided, NEW i \in DOMAIN agenda
               PROVE  LET entry == agenda[i] IN
                      /\ entry.gid \in DOMAIN tree
                      /\ \A j \in DOMAIN agenda : agenda[j].gid = entry.gid => j = i
                      /\ entry.undo # "none" => tree[entry.gid].status \in {"split", "proved"}
                      /\ entry.parent # NoGoal =>
                           /\ Queued(entry.parent) /\ IndexOf(entry.parent) < i
                           /\ agenda[IndexOf(entry.parent)].undo # "none"
    BY DEF AgendaStands, Searching
  <2>1. Good(tree, agenda, exhausted)
    BY UndecidedIs DEF SearchInv
  <2>2. /\ Once(agenda) /\ Stacked(agenda) /\ Worked(tree, agenda) /\ Listed(agenda)
        /\ agenda[i].gid \in DOMAIN tree
    BY <2>1 DEF Good, Stood
  <2>3. \A j \in DOMAIN agenda : agenda[j].gid = agenda[i].gid => j = i
    BY <2>2 DEF Once
  <2>4. agenda[i].undo # "none" => tree[agenda[i].gid].status \in {"split", "proved"}
    BY <2>2 DEF Worked, Done
  <2>5. ASSUME agenda[i].parent # NoGoal
        PROVE  /\ Queued(agenda[i].parent) /\ IndexOf(agenda[i].parent) < i
               /\ agenda[IndexOf(agenda[i].parent)].undo # "none"
    <3>1. PICK k \in 1..(i - 1) : LeftBy(agenda, k, i)
      BY <2>2, <2>5 DEF Stacked
    <3>2. k \in DOMAIN agenda /\ k < i
      <4>1. PICK S : agenda \in Seq(S)
        BY <2>2 DEF Listed
      <4> QED BY <3>1, <4>1
    <3>3. agenda[k].gid = agenda[i].parent /\ agenda[k].undo # "none"
      BY <3>1 DEF LeftBy
    <3>4. IndexOf(agenda[i].parent) = k
      BY <2>2, <3>2, <3>3, IndexIs
    <3> QED BY <3>2, <3>3, <3>4 DEF Queued
  <2> QED BY <2>2, <2>3, <2>4, <2>5
<1> QED
  BY <1>1, SearchInvHolds, PTL

\* While the run is undecided an open goal is on the agenda or has no move left, so that no
\* goal a strengthen reopens is lost (search.ts requeue).
THEOREM NoneIsForgotten == Spec => []NoneForgotten
<1>1. SearchInv => NoneForgotten
  BY UndecidedIs DEF SearchInv, Searching, Good, Kept, NoneForgotten, Queued
<1> QED
  BY <1>1, SearchInvHolds, PTL

\* A search that gives up has undone every split its agenda made (search.ts settle, undo).
THEOREM GivesUpWholly == Spec => []GivesUpWhole
<1>1. SearchInv => GivesUpWhole
  BY DEF SearchInv, AllUndone, GivesUpWhole
<1> QED
  BY <1>1, SearchInvHolds, PTL

-----------------------------------------------------------------------------
(* The quotas of cuts.                                                     *)

\* The quota an entry spends is of an entry below it, or its own, which no callee has: those
\* that are put back with a callee spend its quota from below it.
Owned(G, A) ==
  \A j \in DOMAIN A :
    \/ \E i \in DOMAIN A : i < j /\ A[i].gid = A[j].quota
    \/ A[j].gid = A[j].quota /\ A[j].gid \in DOMAIN G /\ G[A[j].gid].role # "callee"

\* H has all the goals of G, in their roles.
Grows(G, H) ==
  DOMAIN G \subseteq DOMAIN H /\ \A x \in DOMAIN G : H[x].role = G[x].role

\* The quotas that there are still are, and none is overdrawn.
QuotasStay(q, r) ==
  DOMAIN q \subseteq DOMAIN r /\ \A x \in DOMAIN r : r[x] \in 0..MaxCuts

QuotaInv ==
  /\ \A q \in DOMAIN quotas : quotas[q] \in 0..MaxCuts
  /\ exhausted \subseteq DOMAIN tree
  /\ Listed(agenda)
  /\ \A i \in DOMAIN agenda : agenda[i].undo \in Undos /\ agenda[i].quota \in DOMAIN quotas
  /\ Owned(tree, agenda)

\* What does not split or undo leaves the goals as they are, and a split adds to them.
LEMMA FollowsGrows ==
  ASSUME NEW G, NEW H, NEW C, Follows(G, H, C)
  PROVE  Grows(G, H)
BY DEF Follows, Kin, Grows

LEMMA ProvesGrows ==
  ASSUME NEW G, NEW H, NEW C, Proves(G, H, C)
  PROVE  Grows(G, H)
BY DEF Proves, SameGoals, Grows

LEMMA GrowsOn ==
  ASSUME NEW G, NEW H, NEW K, Grows(G, H), Grows(H, K)
  PROVE  Grows(G, K)
BY DEF Grows

LEMMA RefutedGrows ==
  ASSUME NEW G, Whole(G)
  PROVE  Grows(G, Refuted(G, Root))
BY WithStatusIs DEF Whole, Sound, Refuted, Statuses, SameGoals, Grows

\* An agenda cut off after an entry, with others for the entries left but of the same goals.
LEMMA OwnedPrefix ==
  ASSUME NEW G, NEW A, Owned(G, A), NEW H, NEW T, DOMAIN T \subseteq DOMAIN A,
         \A j \in DOMAIN T : \A i \in DOMAIN A : i < j => i \in DOMAIN T,
         \A j \in DOMAIN T : T[j].gid = A[j].gid /\ T[j].quota = A[j].quota,
         \A j \in DOMAIN T : A[j].gid \in DOMAIN G =>
           A[j].gid \in DOMAIN H /\ H[A[j].gid].role = G[A[j].gid].role
  PROVE  Owned(H, T)
BY DEF Owned

\* More entries on top, each with a quota that is there or its own.
LEMMA OwnedPush ==
  ASSUME NEW G, NEW A, Owned(G, A), Listed(A), NEW B, Listed(B),
         \A k \in DOMAIN B :
           \/ \E i \in DOMAIN A : A[i].gid = B[k].quota
           \/ B[k].gid = B[k].quota /\ B[k].gid \in DOMAIN G /\ G[B[k].gid].role # "callee"
  PROVE  Owned(G, A \o B)
<1> DEFINE T == A \o B
           n == Len(A)
           m == Len(B)
<1>1. /\ n \in Nat /\ m \in Nat /\ DOMAIN A = 1..n /\ DOMAIN B = 1..m
      /\ DOMAIN T = 1..(n + m)
      /\ \A i \in 1..n : T[i] = A[i]
      /\ \A i \in 1..m : T[n + i] = B[i]
  BY JoinIs
<1> HIDE DEF T, n, m
<1> SUFFICES ASSUME NEW j \in DOMAIN T
             PROVE  \/ \E i \in DOMAIN T : i < j /\ T[i].gid = T[j].quota
                    \/ /\ T[j].gid = T[j].quota
                       /\ T[j].gid \in DOMAIN G /\ G[T[j].gid].role # "callee"
  BY DEF Owned, T
<1>2. \A i \in 1..n : i \in DOMAIN T
  BY <1>1
<1>3. CASE j \in 1..n
  BY <1>1, <1>2, <1>3 DEF Owned
<1>4. CASE j \notin 1..n
  <2>1. PICK k \in 1..m : j = n + k
    <3>1. j - n \in 1..m /\ j = n + (j - n)
      BY <1>1, <1>4
    <3> QED BY <3>1
  <2>2. T[j] = B[k] /\ k \in DOMAIN B
    BY <1>1, <2>1
  <2>3. \A i \in 1..n : i < j
    BY <1>1, <2>1
  <2> QED BY <1>1, <1>2, <2>2, <2>3
<1> QED
  BY <1>3, <1>4

\* Nothing is done to the agenda.
LEMMA QuotaSame ==
  ASSUME QuotaInv, Grows(tree, tree'), UNCHANGED <<agenda, quotas, exhausted>>
  PROVE  QuotaInv'
<1> DEFINE H == tree'
<1>1. Owned(tree, agenda) /\ Grows(tree, H)
  BY DEF QuotaInv
<1> HIDE DEF H
<1>2. Owned(H, agenda)
  BY <1>1 DEF Owned, Grows
<1>3. Owned(tree', agenda')
  BY <1>2 DEF H
<1> QED
  BY <1>3 DEF QuotaInv, Grows

\* The goal in hand has another entry.
LEMMA QuotaTop ==
  ASSUME QuotaInv, agenda # <<>>, Grows(tree, tree'), QuotasStay(quotas, quotas'),
         NEW e, e.gid = Hand, e.quota = Top.quota, e.undo \in Undos,
         agenda' = WithTop(e), exhausted' \subseteq DOMAIN tree'
  PROVE  QuotaInv'
<1> DEFINE A == agenda
           n == Len(A)
           T == Front(A) \o <<e>>
           H == tree'
           r == quotas'
<1>1. /\ Listed(A) /\ A # <<>> /\ Owned(tree, A)
      /\ \A i \in DOMAIN A : A[i].undo \in Undos /\ A[i].quota \in DOMAIN quotas
  BY DEF QuotaInv
<1>2. agenda' = T /\ Top = Last(A) /\ Hand = Top.gid
  BY DEF WithTop, Top, Hand
<1>3. Grows(tree, H) /\ QuotasStay(quotas, r) /\ exhausted' \subseteq DOMAIN H
  OBVIOUS
<1> HIDE DEF A, H, r
<1>4. n \in DOMAIN A /\ Last(A) = A[n]
  BY <1>1, FrontIs
<1>5. Listed(T) /\ DOMAIN T = DOMAIN A /\ \A i \in DOMAIN A : T[i] = IF i = n THEN e ELSE A[i]
  BY <1>1, TopIs
<1> HIDE DEF T, n
<1>6. \A j \in DOMAIN T : T[j].gid = A[j].gid /\ T[j].quota = A[j].quota
  BY <1>2, <1>4, <1>5
<1>7. Owned(H, T)
  BY <1>1, <1>3, <1>5, <1>6, OwnedPrefix DEF Grows
<1>8. \A i \in DOMAIN T : T[i].undo \in Undos /\ T[i].quota \in DOMAIN r
  BY <1>1, <1>3, <1>5, <1>6 DEF QuotasStay
<1> QED
  BY <1>2, <1>3, <1>5, <1>7, <1>8 DEF QuotaInv, QuotasStay, H, r

\* The goal in hand leaves the agenda.
LEMMA QuotaPop ==
  ASSUME QuotaInv, agenda # <<>>, Grows(tree, tree'), quotas' = quotas,
         agenda' = Front(agenda), exhausted' \subseteq DOMAIN tree'
  PROVE  QuotaInv'
<1> DEFINE A == agenda
           n == Len(A)
           T == Front(A)
           H == tree'
<1>1. /\ Listed(A) /\ A # <<>> /\ Owned(tree, A)
      /\ \A i \in DOMAIN A : A[i].undo \in Undos /\ A[i].quota \in DOMAIN quotas
  BY DEF QuotaInv
<1>2. Grows(tree, H) /\ exhausted' \subseteq DOMAIN H /\ agenda' = T
  OBVIOUS
<1> HIDE DEF A, H
<1>3. /\ n \in Nat \ {0} /\ DOMAIN A = 1..n /\ Listed(T) /\ DOMAIN T = 1..(n - 1)
      /\ \A i \in 1..(n - 1) : T[i] = A[i]
  BY <1>1, FrontIs
<1> HIDE DEF T, n
<1>4. DOMAIN T \subseteq DOMAIN A /\ \A j \in DOMAIN T : T[j] = A[j]
  BY <1>3
<1>5. \A j \in DOMAIN T : \A i \in DOMAIN A : i < j => i \in DOMAIN T
  BY <1>3
<1>6. Owned(H, T)
  BY <1>1, <1>2, <1>4, <1>5, OwnedPrefix DEF Grows
<1>7. \A i \in DOMAIN T : T[i].undo \in Undos /\ T[i].quota \in DOMAIN quotas
  BY <1>1, <1>4
<1> QED
  BY <1>2, <1>3, <1>6, <1>7 DEF QuotaInv, H

\* The goal in hand has another entry, and the goals that its split left are on top of it.
LEMMA QuotaSplit ==
  ASSUME QuotaInv, agenda # <<>>, QuotasStay(quotas, quotas'),
         NEW T, Grows(tree, T), NEW undo \in Undos, NEW halves,
         NEW top, Entered(top), top.gid = Hand, top.quota = Top.quota,
         SplitInto(T, undo, top, halves), NEW B, B = Reverse(Parts(T, halves)), Listed(B),
         \A k \in DOMAIN B :
           /\ B[k].undo \in Undos
           /\ \/ B[k].quota = Top.quota
              \/ /\ B[k].gid = B[k].quota /\ B[k].gid \in DOMAIN T
                 /\ T[B[k].gid].role # "callee" /\ B[k].quota \in DOMAIN quotas'
  PROVE  QuotaInv'
<1> DEFINE A == agenda
           n == Len(A)
           e == [top EXCEPT !.undo = undo]
           F == Front(A) \o <<e>>
           r == quotas'
           q == Top.quota
<1>1. /\ Listed(A) /\ A # <<>> /\ Owned(tree, A) /\ exhausted \subseteq DOMAIN tree
      /\ \A i \in DOMAIN A : A[i].undo \in Undos /\ A[i].quota \in DOMAIN quotas
  BY DEF QuotaInv
<1>2. /\ agenda' = F \o B /\ tree' = T /\ exhausted' = exhausted
      /\ Top = Last(A) /\ Hand = Top.gid
  BY DEF SplitInto, Top, Hand
<1>3. e.gid = Hand /\ e.quota = q /\ e.undo = undo
  BY DEF Entered, Fields
<1>4. /\ QuotasStay(quotas, r)
      /\ \A k \in DOMAIN B :
           /\ B[k].undo \in Undos
           /\ \/ B[k].quota = q
              \/ /\ B[k].gid = B[k].quota /\ B[k].gid \in DOMAIN T
                 /\ T[B[k].gid].role # "callee" /\ B[k].quota \in DOMAIN r
  OBVIOUS
<1>5. n \in DOMAIN A /\ Last(A) = A[n]
  BY <1>1, FrontIs
<1> HIDE DEF e, A, r
<1>6. Listed(F) /\ DOMAIN F = DOMAIN A /\ \A i \in DOMAIN A : F[i] = IF i = n THEN e ELSE A[i]
  BY <1>1, TopIs
<1> HIDE DEF F, n
<1>7. \A j \in DOMAIN F : F[j].gid = A[j].gid /\ F[j].quota = A[j].quota
  BY <1>2, <1>3, <1>5, <1>6
<1>8. Owned(T, F)
  BY <1>1, <1>6, <1>7, OwnedPrefix DEF Grows
<1>9. (\E i \in DOMAIN F : F[i].gid = q) /\ q \in DOMAIN r
  <2>1. q = A[n].quota /\ q \in DOMAIN quotas
    BY <1>1, <1>2, <1>5
  <2> QED BY <1>1, <1>4, <1>5, <1>6, <1>7, <2>1 DEF Owned, QuotasStay
<1> HIDE DEF q
<1>10. Owned(T, F \o B)
  BY <1>4, <1>6, <1>8, <1>9, OwnedPush
<1> DEFINE Z == F \o B
<1>11. /\ Listed(Z) /\ Len(F) \in Nat /\ Len(B) \in Nat
       /\ DOMAIN F = 1..Len(F) /\ DOMAIN B = 1..Len(B)
       /\ DOMAIN Z = 1..(Len(F) + Len(B))
       /\ \A i \in 1..Len(F) : Z[i] = F[i]
       /\ \A i \in 1..Len(B) : Z[Len(F) + i] = B[i]
  BY <1>6, JoinIs
<1> HIDE DEF Z
<1>12. \A i \in DOMAIN F : F[i].undo \in Undos /\ F[i].quota \in DOMAIN r
  BY <1>1, <1>3, <1>4, <1>6, <1>7 DEF QuotasStay
<1>13. \A k \in DOMAIN B : B[k].undo \in Undos /\ B[k].quota \in DOMAIN r
  BY <1>4, <1>9
<1>14. \A i \in DOMAIN Z : Z[i].undo \in Undos /\ Z[i].quota \in DOMAIN r
  <2> SUFFICES ASSUME NEW i \in DOMAIN Z PROVE Z[i].undo \in Undos /\ Z[i].quota \in DOMAIN r
    OBVIOUS
  <2>1. CASE i \in 1..Len(F)
    BY <1>11, <1>12, <2>1
  <2>2. CASE i \notin 1..Len(F)
    <3>1. i - Len(F) \in 1..Len(B) /\ i = Len(F) + (i - Len(F))
      BY <1>11, <2>2
    <3>2. Z[i] = B[i - Len(F)]
      BY <1>11, <3>1
    <3> QED BY <1>11, <1>13, <3>1, <3>2
  <2> QED BY <2>1, <2>2
<1>15. exhausted' \subseteq DOMAIN T
  BY <1>1, <1>2 DEF Grows
<1> QED
  BY <1>2, <1>4, <1>10, <1>11, <1>14, <1>15 DEF QuotaInv, QuotasStay, Z, r

\* A sequence the other way round is of the same things.
LEMMA ReverseIs ==
  ASSUME NEW S, NEW A \in Seq(S)
  PROVE  Reverse(A) \in Seq(S)
<1> DEFINE n == Len(A)
<1>1. n \in Nat /\ \A i \in 1..n : A[i] \in S
  OBVIOUS
<1> HIDE DEF n
<1>2. \A i \in 1..n : (n - i) + 1 \in 1..n
  BY <1>1
<1>3. [i \in 1..n |-> A[(n - i) + 1]] \in [1..n -> S]
  BY <1>1, <1>2
<1>4. Reverse(A) = [i \in 1..n |-> A[(n - i) + 1]]
  BY DEF Reverse, n
<1> QED
  BY <1>1, <1>3, <1>4, SeqDef

\* Entries to be pushed that all spend the quota q.
AllSpend(B, q) == Listed(B) /\ \A k \in DOMAIN B : B[k].undo \in Undos /\ B[k].quota = q

\* The goals a split leaves spend the quota their halves do.
LEMMA PartsSpend ==
  ASSUME NEW T, NEW q, NEW E, NEW halves \in Seq(E),
         \A h \in E : h.undo = "none" /\ h.quota = q
  PROVE  AllSpend(Reverse(Parts(T, halves)), q)
<1> DEFINE Half(h, half) == Plain(half, Child(T, h.gid, half), Hand, h.quota)
           Sub == {Half(h, half) : h \in E, half \in {"lhs", "rhs"}}
           S == E \cup Sub
           Of(h) == IF T[h.gid].status # "split" THEN <<h>>
                    ELSE [role \in 1..2 |-> LET half == <<"lhs", "rhs">>[role]
                                            IN  Plain(half, Child(T, h.gid, half), Hand, h.quota)]
           f == [i \in DOMAIN halves |-> Of(halves[i])]
<1>1. Parts(T, halves) = FlattenSeq(f)
  BY DEF Parts
<1>2. \A h \in E : Of(h) \in Seq(S)
  <2> HIDE DEF Half, Sub, Of, S
  <2> TAKE h \in E
  <2> USE DEF Half, Sub, Of, S
  <2> DEFINE Z == [role \in 1..2 |-> Half(h, <<"lhs", "rhs">>[role])]
  <2>1. <<"lhs", "rhs">>[1] = "lhs" /\ <<"lhs", "rhs">>[2] = "rhs"
    OBVIOUS
  <2>2. Half(h, "lhs") \in Sub /\ Half(h, "rhs") \in Sub
    OBVIOUS
  <2>3. Of(h) = IF T[h.gid].status # "split" THEN <<h>> ELSE Z
    OBVIOUS
  <2>4. Z = [role \in 1..2 |-> Half(h, <<"lhs", "rhs">>[role])]
    OBVIOUS
  <2> HIDE DEF Of, Half, Sub, Z
  <2>5. Z \in [1..2 -> S]
    <3>1. \A role \in 1..2 : role = 1 \/ role = 2
      OBVIOUS
    <3>2. \A role \in 1..2 : Half(h, <<"lhs", "rhs">>[role]) \in S
      BY <2>1, <2>2, <3>1
    <3> QED BY <2>4, <3>2
  <2>6. Z \in Seq(S)
    <3>1. 2 \in Nat
      OBVIOUS
    <3> HIDE DEF S
    <3> QED BY <2>5, <3>1, SeqDef
  <2>7. <<h>> \in Seq(S)
    OBVIOUS
  <2> QED BY <2>3, <2>6, <2>7
<1>3. \A h \in Sub : h.undo = "none" /\ h.quota = q
  <2> SUFFICES ASSUME NEW h \in E, NEW half \in {"lhs", "rhs"}
               PROVE  Half(h, half).undo = "none" /\ Half(h, half).quota = q
    OBVIOUS
  <2> DEFINE gid == Child(T, h.gid, half)
             moves == MovesOf(half, 0, TRUE, TRUE, Comparisons)
  <2> HIDE DEF gid, moves
  <2>1. Half(h, half) = Entry(gid, Hand, h.quota, moves)
    BY DEF Plain, gid, moves
  <2> QED BY <2>1 DEF Entry
<1> HIDE DEF Of, Sub, Half
<1>4. f \in Seq(Seq(S))
  <2>1. Len(halves) \in Nat /\ DOMAIN halves = 1..Len(halves)
        /\ \A i \in 1..Len(halves) : halves[i] \in E
    OBVIOUS
  <2>2. f \in [1..Len(halves) -> Seq(S)]
    BY <1>2, <2>1
  <2> HIDE DEF f, S
  <2> QED BY <2>1, <2>2, SeqDef
<1> HIDE DEF f
<1>5. <<>> \in Seq(S)
  OBVIOUS
<1>6. FlattenSeq(f) \in Seq(S)
  <2> HIDE DEF S
  <2> QED BY <1>4, <1>5, FlattenAppend
<1> DEFINE B == Reverse(Parts(T, halves))
<1>7. B \in Seq(S)
  <2> HIDE DEF S
  <2> QED BY <1>1, <1>6, ReverseIs
<1> HIDE DEF B
<1>8. \A h \in S : h.undo \in Undos /\ h.quota = q
  BY <1>3 DEF Undos
<1> HIDE DEF S
<1>9. \A k \in DOMAIN B : B[k] \in S
  BY <1>7
<1> QED
  BY <1>7, <1>8, <1>9 DEF Listed, B, AllSpend

\* A split whose goals spend the quota of the goal that is split.
LEMMA QuotaShared ==
  ASSUME QuotaInv, agenda # <<>>, QuotasStay(quotas, quotas'),
         NEW T, Grows(tree, T), NEW undo \in Undos, NEW E, NEW halves \in Seq(E),
         \A h \in E : h.undo = "none" /\ h.quota = Top.quota,
         NEW top, Entered(top), top.gid = Hand, top.quota = Top.quota,
         SplitInto(T, undo, top, halves)
  PROVE  QuotaInv'
<1> DEFINE B == Reverse(Parts(T, halves))
           q == Top.quota
<1>1. Listed(B) /\ \A k \in DOMAIN B : B[k].undo \in Undos /\ B[k].quota = q
  <2>1. \A h \in E : h.undo = "none" /\ h.quota = q
    OBVIOUS
  <2> HIDE DEF q
  <2>2. AllSpend(B, q)
    BY <2>1, PartsSpend
  <2> QED BY <2>2 DEF AllSpend
<1> HIDE DEF B
<1> QED
  BY <1>1, QuotaSplit DEF B

\* Quotas that nothing is spent of.
LEMMA QuotasKept ==
  ASSUME QuotaInv, quotas' = quotas
  PROVE  QuotasStay(quotas, quotas')
BY DEF QuotaInv, QuotasStay

\* The quota of the entry a goal goes on with.
LEMMA MovedOnSpends ==
  ASSUME SearchInv, NEW move, Working(move)
  PROVE  MovedOn.quota = Top.quota
<1>1. Entered(Top)
  BY InHand DEF Working, Searching
<1> QED
  BY <1>1 DEF MovedOn, Entered, Fields

\* A move that leaves the goal to the moves after it, or closes it.
LEMMA QuotaMove ==
  ASSUME SearchInv, QuotaInv, NEW move, Working(move), Grows(tree, tree'),
         UNCHANGED <<quotas, exhausted>>,
         \/ agenda' = Front(agenda)
         \/ agenda' = WithTop(MovedOn)
         \/ \E jumping : agenda' = WithTop([MovedOn EXCEPT !.jumping = jumping])
  PROVE  QuotaInv'
<1>1. /\ agenda # <<>> /\ Entered(MovedOn) /\ MovedOn.gid = Hand /\ MovedOn.undo = "none"
      /\ MovedOn.quota = Top.quota
  BY Splitting, MovedOnSpends
<1>2. QuotasStay(quotas, quotas') /\ exhausted' \subseteq DOMAIN tree'
  BY QuotasKept DEF QuotaInv, Grows
<1>3. "none" \in Undos
  BY DEF Undos
<1> HIDE DEF MovedOn
<1>4. CASE agenda' = Front(agenda)
  BY <1>1, <1>2, <1>4, QuotaPop
<1>5. CASE agenda' = WithTop(MovedOn)
  BY <1>1, <1>2, <1>3, <1>5, QuotaTop
<1>6. CASE \E jumping : agenda' = WithTop([MovedOn EXCEPT !.jumping = jumping])
  <2>1. PICK jumping : agenda' = WithTop([MovedOn EXCEPT !.jumping = jumping])
    BY <1>6
  <2> DEFINE e == [MovedOn EXCEPT !.jumping = jumping]
  <2>2. e.gid = Hand /\ e.quota = Top.quota /\ e.undo = "none"
    BY <1>1 DEF Entered, Fields
  <2>3. agenda' = WithTop(e)
    BY <2>1
  <2> HIDE DEF e
  <2> QED BY <1>1, <1>2, <1>3, <2>2, <2>3, QuotaTop
<1> QED
  BY <1>4, <1>5, <1>6

\* Checks and steps leave all goals there.
LEMMA ChecksGrow ==
  ASSUME NEW G, Whole(G), NEW g \in DOMAIN G
  PROVE  /\ Grows(G, G) /\ Grows(G, Proved(G, g)) /\ Grows(G, Refuted(G, Root))
         /\ Grows(G, Reopened(G, g)) /\ Grows(G, Proved(Reopened(G, g), g))
<1> DEFINE R == Reopened(G, g)
           H == Proved(G, g)
           V == Proved(R, g)
<1>1. Grows(G, G)
  BY DEF Grows
<1>2. Grows(G, H)
  <2>1. Proves(G, H, {g})
    BY ProvedProves
  <2> HIDE DEF H
  <2> QED BY <2>1, ProvesGrows
<1>3. Whole(R) /\ Follows(G, R, {g}) /\ SameGoals(G, R)
  BY ReopenFollows
<1> HIDE DEF R
<1>4. Grows(G, R) /\ g \in DOMAIN R
  BY <1>3, FollowsGrows DEF SameGoals
<1>5. Proves(R, V, {g})
  BY <1>3, <1>4, ProvedProves
<1> HIDE DEF V
<1>6. Grows(G, V)
  BY <1>4, <1>5, ProvesGrows, GrowsOn
<1> QED
  BY <1>1, <1>2, <1>4, <1>6, RefutedGrows DEF R, H, V

\* The moves that do not split the goal in hand.
LEMMA QuotaAsk ==
  ASSUME SearchInv, QuotaInv, AskProved \/ StepGoal \/ CheckGoal
  PROVE  QuotaInv'
<1>1. PICK move : Working(move)
  BY DEF AskProved, StepGoal, CheckGoal
<1>2. Whole(tree) /\ Hand \in DOMAIN tree
  BY <1>1, Splitting
<1>3. /\ Grows(tree, tree) /\ Grows(tree, Proved(tree, Hand)) /\ Grows(tree, Refuted(tree, Root))
      /\ Grows(tree, Reopened(tree, Hand)) /\ Grows(tree, Proved(Reopened(tree, Hand), Hand))
  BY <1>2, ChecksGrow
<1>4. CASE AskProved
  <2>1. Grows(tree, tree') /\ quotas' = quotas
    BY <1>3, <1>4 DEF AskProved
  <2>2. exhausted' = exhausted /\ (agenda' = Front(agenda) \/ agenda' = WithTop(MovedOn))
    BY <1>4 DEF AskProved, Closed, NoAnswer
  <2> HIDE DEF MovedOn
  <2> QED BY <1>1, <2>1, <2>2, QuotaMove
<1>5. CASE StepGoal
  <2>1. Grows(tree, tree')
    BY <1>3, <1>5 DEF StepGoal
  <2>2. exhausted' = exhausted /\ agenda' = WithTop(MovedOn) /\ quotas' = quotas
    BY <1>5 DEF StepGoal, NoAnswer
  <2> HIDE DEF MovedOn
  <2> QED BY <1>1, <2>1, <2>2, QuotaMove
<1>6. CASE CheckGoal
  <2>1. Grows(tree, tree')
    BY <1>3, <1>6 DEF CheckGoal
  <2>2. /\ exhausted' = exhausted /\ quotas' = quotas
        /\ agenda' = Front(agenda) \/ agenda' = WithTop(MovedOn)
    BY <1>6 DEF CheckGoal, NoAnswer, Closed
  <2> HIDE DEF MovedOn
  <2> QED BY <1>1, <2>1, <2>2, QuotaMove
<1> QED
  BY <1>4, <1>5, <1>6

LEMMA QuotaStage ==
  ASSUME SearchInv, QuotaInv, StageIsTgt \/ StageRefused \/ \E move : MoveRefused(move)
  PROVE  QuotaInv'
<1>1. PICK move : Working(move)
  BY DEF StageIsTgt, StageRefused, MoveRefused
<1>2. Whole(tree) /\ Hand \in DOMAIN tree
  BY <1>1, Splitting
<1>3. Grows(tree, tree) /\ Grows(tree, Proved(tree, Hand)) /\ Grows(tree, Refuted(tree, Root))
  BY <1>2, ChecksGrow
<1>4. CASE StageIsTgt
  <2>1. Grows(tree, tree')
    BY <1>3, <1>4 DEF StageIsTgt
  <2>2. /\ exhausted' = exhausted /\ quotas' = quotas
        /\ \/ agenda' = Front(agenda) \/ agenda' = WithTop(MovedOn)
           \/ \E jumping \in BOOLEAN : agenda' = WithTop([MovedOn EXCEPT !.jumping = jumping])
    BY <1>4 DEF StageIsTgt, Closed
  <2> HIDE DEF MovedOn
  <2> QED BY <1>1, <2>1, <2>2, QuotaMove
<1>5. CASE StageRefused
  <2>1. Grows(tree, tree')
    BY <1>3, <1>5 DEF StageRefused
  <2>2. /\ exhausted' = exhausted /\ quotas' = quotas
        /\ \E jumping \in {FALSE, TRUE} : agenda' = WithTop([MovedOn EXCEPT !.jumping = jumping])
    BY <1>5 DEF StageRefused
  <2> HIDE DEF MovedOn
  <2> QED BY <1>1, <2>1, <2>2, QuotaMove
<1>6. CASE \E move2 : MoveRefused(move2)
  <2>1. Grows(tree, tree')
    BY <1>3, <1>6 DEF MoveRefused
  <2>2. exhausted' = exhausted /\ quotas' = quotas /\ agenda' = WithTop(MovedOn)
    BY <1>6 DEF MoveRefused, NoAnswer
  <2> HIDE DEF MovedOn
  <2> QED BY <1>1, <2>1, <2>2, QuotaMove
<1> QED
  BY <1>4, <1>5, <1>6

\* A cut is paid from a quota that has one left.
LEMMA SpendStays ==
  ASSUME SearchInv, QuotaInv, NEW move, Working(move), QuotaLeft, Spend
  PROVE  QuotasStay(quotas, quotas')
<1> DEFINE q == Top.quota
           r == quotas'
<1>1. \A x \in DOMAIN quotas : quotas[x] \in 0..MaxCuts
  BY DEF QuotaInv
<1>2. quotas[q] > 0 /\ r = [quotas EXCEPT ![q] = @ - 1] /\ MaxCuts \in Nat
  BY SearchAssumption DEF QuotaLeft, Spend
<1> HIDE DEF q, r
<1>3. /\ DOMAIN r = DOMAIN quotas
      /\ \A x \in DOMAIN r : r[x] = IF x = q THEN quotas[q] - 1 ELSE quotas[x]
  BY <1>2
<1>4. \A x \in DOMAIN r : r[x] \in 0..MaxCuts
  BY <1>1, <1>2, <1>3
<1> QED
  BY <1>3, <1>4 DEF QuotasStay, r

\* What an entry spends is what it is made with.
LEMMA EntrySpends ==
  ASSUME NEW gid, NEW parent, NEW quota, NEW moves
  PROVE  LET e == Entry(gid, parent, quota, moves) IN e.undo = "none" /\ e.quota = quota
BY DEF Entry

LEMMA PlainSpends ==
  ASSUME NEW role, NEW gid, NEW parent, NEW quota
  PROVE  LET e == Plain(role, gid, parent, quota) IN e.undo = "none" /\ e.quota = quota
<1> DEFINE moves == MovesOf(role, 0, TRUE, TRUE, Comparisons)
           e == Entry(gid, parent, quota, moves)
<1>1. e.undo = "none" /\ e.quota = quota
  <2> HIDE DEF moves
  <2> QED BY EntrySpends
<1> QED
  BY <1>1 DEF Plain

\* What a split and the checks of a strengthen after it leave.
LEMMA CrossGrows ==
  ASSUME NEW G, NEW U, NEW g, NEW id \in Nat, NEW first, NEW second,
         Halved(G, U, g, id, first, second), NEW T \in CrossChecked(U, id, id + 1)
  PROVE  Whole(T) /\ Grows(G, T) /\ DOMAIN T = DOMAIN G \cup {id, id + 1}
<1>1. /\ Whole(U) /\ Follows(G, U, {g}) /\ DOMAIN U = DOMAIN G \cup {id, id + 1}
      /\ id \in DOMAIN U /\ id + 1 \in DOMAIN U
  BY DEF Halved
<1> DEFINE C == {id} \cup {x \in {id + 1} : U[x].status # "split"}
<1>2. Whole(T) /\ Proves(U, T, C)
  BY <1>1, CrossProves
<1> HIDE DEF C
<1>3. Grows(G, U) /\ Grows(U, T) /\ DOMAIN T = DOMAIN U
  BY <1>1, <1>2, FollowsGrows, ProvesGrows DEF Proves, SameGoals
<1> QED
  BY <1>1, <1>2, <1>3, GrowsOn

\* What a split leaves once a goal of it is proved.
LEMMA ClosedGrows ==
  ASSUME NEW G, NEW U, NEW g, NEW id, NEW first, NEW second,
         Halved(G, U, g, id, first, second), NEW c \in {id, id + 1}
  PROVE  Grows(G, Proved(U, c))
<1> DEFINE H == Proved(U, c)
<1>1. Whole(U) /\ Follows(G, U, {g}) /\ c \in DOMAIN U
  BY DEF Halved
<1>2. Proves(U, H, {c})
  BY <1>1, ProvedProves
<1> HIDE DEF H
<1> QED
  BY <1>1, <1>2, FollowsGrows, ProvesGrows, GrowsOn DEF H

\* The cuts.
LEMMA QuotaCut ==
  ASSUME SearchInv, QuotaInv, CutBounded \/ Cut \/ CutNested \/ Peel
  PROVE  QuotaInv'
<1> DEFINE h == Hand
           id == next
<1>1. PICK move : Working(move) /\ QuotaLeft /\ Spend
  BY DEF CutBounded, Cut, CutNested, Peel
<1>2. /\ agenda # <<>> /\ Whole(tree) /\ h \in DOMAIN tree
      /\ id \in Nat /\ \A x \in DOMAIN tree : x \in Nat /\ x < id
      /\ Entered(MovedOn) /\ MovedOn.gid = Hand /\ MovedOn.quota = Top.quota
  BY <1>1, Splitting, MovedOnSpends DEF Typed
<1>3. QuotasStay(quotas, quotas')
  BY <1>1, SpendStays
<1>4. \A gid : /\ OuterHalf(gid).undo = "none" /\ OuterHalf(gid).quota = Top.quota
               /\ CalleeHalf(gid).undo = "none" /\ CalleeHalf(gid).quota = Top.quota
  BY PlainSpends DEF OuterHalf, CalleeHalf
<1>5. "uncut" \in Undos
  BY DEF Undos
<1>6. Halves \in Seq({OuterHalf(id), CalleeHalf(id + 1)})
  BY DEF Halves
<1>7. ASSUME NEW T, Grows(tree, T), SplitInto(T, "uncut", MovedOn, Halves)
      PROVE  QuotaInv'
  <2> DEFINE e == OuterHalf(id)
             f == CalleeHalf(id + 1)
             E == {e, f}
  <2>1. Halves \in Seq(E) /\ \A x \in E : x.undo = "none" /\ x.quota = Top.quota
    BY <1>4, <1>6
  <2> HIDE DEF E, MovedOn
  <2> QED BY <1>2, <1>3, <1>5, <1>7, <2>1, QuotaShared
<1> DEFINE V(kind) == CutIn(tree, h, id, kind, P, P, P, P)
<1>8. \A kind \in CutKinds : Halved(tree, V(kind), h, id, "outer", "callee")
  <2> HIDE DEF h, id
  <2> QED BY <1>2, CutHalves
<1>9. CASE CutBounded
  <2>1. SplitInto(Proved(V("alone"), id + 1), "uncut", MovedOn, Halves)
    BY <1>9 DEF CutBounded, CutAlone
  <2>2. Halved(tree, V("alone"), h, id, "outer", "callee")
    BY <1>8 DEF CutKinds
  <2> HIDE DEF V, h, id, MovedOn
  <2>3. Grows(tree, Proved(V("alone"), id + 1))
    BY <2>2, ClosedGrows
  <2> QED BY <1>7, <2>1, <2>3
<1>10. CASE Cut
  <2>1. PICK T \in CrossChecked(V("plain"), id, id + 1) : SplitInto(T, "uncut", MovedOn, Halves)
    BY <1>10 DEF Cut, CutOf
  <2>2. Halved(tree, V("plain"), h, id, "outer", "callee")
    BY <1>8 DEF CutKinds
  <2> HIDE DEF V, h, id, MovedOn
  <2>3. Grows(tree, T)
    BY <1>2, <2>2, CrossGrows
  <2> QED BY <1>7, <2>1, <2>3
<1>11. CASE CutNested
  <2> DEFINE W == V("loop")
             U == InterposedAt(W, id + 1, id + 2, P)
  <2>1. PICK T \in CrossChecked(U, id, id + 1) : SplitInto(T, "uncut", MovedOn, Halves)
    BY <1>11 DEF CutNested, NestedCutOf
  <2>2. Halved(tree, W, h, id, "outer", "callee")
    BY <1>8 DEF CutKinds
  <2> HIDE DEF V, h, id, MovedOn, W
  <2>3. /\ Whole(W) /\ Follows(tree, W, {h}) /\ DOMAIN W = DOMAIN tree \cup {id, id + 1}
        /\ \A x \in DOMAIN W : x < id + 2
    BY <2>2 DEF Halved
  <2>4. id + 1 \in DOMAIN W /\ id + 2 \in Nat
    BY <1>2, <2>3
  <2>5. Halved(W, U, id + 1, id + 2, "lhs", "rhs")
    BY <2>3, <2>4, InterposeHalves
  <2>6. /\ Whole(U) /\ Follows(W, U, {id + 1}) /\ id \in DOMAIN U /\ id + 1 \in DOMAIN U
    BY <2>3, <2>5 DEF Halved
  <2> HIDE DEF U
  <2> DEFINE C == {id} \cup {x \in {id + 1} : U[x].status # "split"}
  <2>7. Proves(U, T, C)
    BY <2>6, CrossProves
  <2> HIDE DEF C
  <2>8. Grows(tree, W) /\ Grows(W, U) /\ Grows(U, T)
    BY <2>3, <2>6, <2>7, FollowsGrows, ProvesGrows
  <2>9. Grows(tree, T)
    BY <2>8, GrowsOn
  <2> QED BY <1>7, <2>1, <2>9
<1>12. CASE Peel
  <2> DEFINE moves == MovesOf("callee", 0, TRUE, FALSE, Comparisons)
             e == OuterHalf(id + 2)
             f == Entry(id + 3, h, Top.quota, moves)
             g == CalleeHalf(id + 1)
             X(T) == CutIn(T, id, id + 2, "plain", P, P, P, P)
  <2>1. PICK T \in CrossChecked(V("plain"), id, id + 1) :
          \E U \in CrossChecked(X(T), id + 2, (id + 2) + 1) :
            SplitInto(U, "uncut", MovedOn, <<e, f, g>>)
    BY <1>12 DEF Peel, CutOf
  <2>2. PICK U \in CrossChecked(X(T), id + 2, (id + 2) + 1) :
          SplitInto(U, "uncut", MovedOn, <<e, f, g>>)
    BY <2>1
  <2>3. Halved(tree, V("plain"), h, id, "outer", "callee")
    BY <1>8 DEF CutKinds
  <2>4. f.undo = "none" /\ f.quota = Top.quota
    <3> HIDE DEF moves
    <3> QED BY EntrySpends
  <2>5. e.undo = "none" /\ e.quota = Top.quota /\ g.undo = "none" /\ g.quota = Top.quota
    BY <1>4
  <2> HIDE DEF V, h, id, MovedOn, e, f, g
  <2>6. Whole(T) /\ Grows(tree, T) /\ DOMAIN T = DOMAIN tree \cup {id, id + 1}
    BY <1>2, <2>3, CrossGrows
  <2>7. id \in DOMAIN T /\ id + 2 \in Nat /\ \A x \in DOMAIN T : x < id + 2
    BY <1>2, <2>6
  <2> DEFINE Z == X(T)
  <2>8a. "plain" \in CutKinds
    BY DEF CutKinds
  <2>8b. Z = CutIn(T, id, id + 2, "plain", P, P, P, P)
    OBVIOUS
  <2> HIDE DEF Z
  <2>8. Halved(T, Z, id, id + 2, "outer", "callee")
    BY <2>6, <2>7, <2>8a, <2>8b, CutHalves
  <2> USE DEF Z
  <2>9. U \in CrossChecked(Z, id + 2, (id + 2) + 1)
    OBVIOUS
  <2> HIDE DEF Z, X
  <2>10. Grows(T, U)
    BY <2>7, <2>8, <2>9, CrossGrows
  <2>11. Grows(tree, U)
    BY <2>6, <2>10, GrowsOn
  <2> DEFINE E == {e, f, g}
             halves == <<e, f, g>>
  <2>12. halves \in Seq(E) /\ \A x \in E : x.undo = "none" /\ x.quota = Top.quota
    BY <2>4, <2>5
  <2>13. SplitInto(U, "uncut", MovedOn, halves)
    BY <2>2
  <2> HIDE DEF E, halves
  <2> QED BY <1>2, <1>3, <1>5, <2>11, <2>12, <2>13, QuotaShared
<1> QED
  BY <1>9, <1>10, <1>11, <1>12

\* Cases, and a stage whose lhs is proved at once.
LEMMA QuotaCase ==
  ASSUME SearchInv, QuotaInv, Case
  PROVE  QuotaInv'
<1> DEFINE h == Hand
           id == next
           U == CasedIn(tree, h, id, P, P, P, P)
           E(poison) == CaseOf("holds", id, IF poison THEN CaseLeft + 1 ELSE CaseLeft,
                               Top.poison /\ ~poison)
           F(unread) == CaseOf("fails", id + 1, unread, Top.poison)
<1>1. Working("case") /\ quotas' = quotas
  BY DEF Case
<1>12. PICK closed \in {id, id + 1}, poison \in {FALSE, Top.poison} :
         \E unread : SplitInto(Proved(U, closed), "uncase", MovedOn, <<E(poison), F(unread)>>)
  BY DEF Case
<1>2. PICK unread :
        SplitInto(Proved(U, closed), "uncase", MovedOn, <<E(poison), F(unread)>>)
  BY <1>12
<1>3. /\ agenda # <<>> /\ Whole(tree) /\ h \in DOMAIN tree
      /\ id \in Nat /\ \A x \in DOMAIN tree : x < id
      /\ Entered(MovedOn) /\ MovedOn.gid = Hand /\ MovedOn.quota = Top.quota
  BY <1>1, Splitting, MovedOnSpends
<1>4. QuotasStay(quotas, quotas')
  BY <1>1, QuotasKept
<1>5. \A role, gid, cases, p :
        LET e == CaseOf(role, gid, cases, p) IN e.undo = "none" /\ e.quota = Top.quota
  <2> SUFFICES ASSUME NEW role, NEW gid, NEW cases, NEW p
               PROVE  LET e == CaseOf(role, gid, cases, p)
                      IN  e.undo = "none" /\ e.quota = Top.quota
    OBVIOUS
  <2> DEFINE moves == MovesOf(role, 0, TRUE, TRUE, cases)
             e == Entry(gid, Hand, Top.quota, moves)
  <2>1. e.undo = "none" /\ e.quota = Top.quota /\ Entered(e)
    <3> HIDE DEF moves
    <3> QED BY EntrySpends, EntryIs
  <2>2. CaseOf(role, gid, cases, p) = [e EXCEPT !.poison = p]
    BY DEF CaseOf
  <2> HIDE DEF e
  <2> QED BY <2>1, <2>2 DEF Entered, Fields
<1> DEFINE e == E(poison)
           f == F(unread)
           S == {e, f}
           halves == <<e, f>>
<1>6. e.undo = "none" /\ e.quota = Top.quota /\ f.undo = "none" /\ f.quota = Top.quota
  BY <1>5
<1>7. SplitInto(Proved(U, closed), "uncase", MovedOn, halves)
  BY <1>2
<1>8. Halved(tree, U, h, id, "holds", "fails")
  <2> HIDE DEF h, id
  <2> QED BY <1>3, CaseHalves
<1> HIDE DEF U, e, f, h, id, MovedOn
<1> DEFINE T == Proved(U, closed)
<1>9. Grows(tree, T)
  BY <1>8, ClosedGrows
<1>10. halves \in Seq(S) /\ \A x \in S : x.undo = "none" /\ x.quota = Top.quota
  BY <1>6
<1>11. "uncase" \in Undos /\ SplitInto(T, "uncase", MovedOn, halves)
  BY <1>7 DEF Undos
<1> HIDE DEF T, S, halves
<1> QED
  BY <1>3, <1>4, <1>9, <1>10, <1>11, QuotaShared

LEMMA RestSpends ==
  ASSUME NEW gid
  PROVE  Rest(gid).undo = "none" /\ Rest(gid).quota = Top.quota
<1> DEFINE left == Len(MovedOn.moves) - Len(AfterStages(MovedOn.moves))
           moves == MovesOf("rhs", left, TRUE, TRUE, Comparisons)
<1> HIDE DEF moves
<1>1. LET e == Entry(gid, Hand, Top.quota, moves) IN e.undo = "none" /\ e.quota = Top.quota
  BY EntrySpends
<1> QED
  BY <1>1 DEF Rest, moves

LEMMA QuotaJumped ==
  ASSUME SearchInv, QuotaInv, StageJumped
  PROVE  QuotaInv'
<1> DEFINE h == Hand
           id == next
           U == InterposedAt(tree, h, id, P)
           T == Proved(U, id)
           f == Rest(id + 1)
           halves == <<f>>
           S == {f}
           top == [MovedOn EXCEPT !.moves = AfterStages(@), !.interposable = FALSE]
<1>1. Working("stage") /\ SplitInto(T, "uninterpose", top, halves) /\ quotas' = quotas
  BY DEF StageJumped
<1>2. /\ agenda # <<>> /\ Whole(tree) /\ h \in DOMAIN tree
      /\ id \in Nat /\ \A x \in DOMAIN tree : x < id
      /\ Entered(MovedOn) /\ MovedOn.gid = Hand /\ MovedOn.quota = Top.quota
  BY <1>1, Splitting, MovedOnSpends
<1>3. QuotasStay(quotas, quotas')
  BY <1>1, QuotasKept
<1>4. Entered(top) /\ top.gid = Hand /\ top.quota = Top.quota
  <2> HIDE DEF MovedOn
  <2> QED BY <1>2 DEF Entered, Fields
<1>5. f.undo = "none" /\ f.quota = Top.quota
  BY RestSpends
<1> HIDE DEF f, h, id, top
<1>6. halves \in Seq(S) /\ \A x \in S : x.undo = "none" /\ x.quota = Top.quota
  BY <1>5
<1>7. Halved(tree, U, h, id, "lhs", "rhs")
  BY <1>2, InterposeHalves
<1> HIDE DEF U
<1>8. Grows(tree, T) /\ "uninterpose" \in Undos
  BY <1>7, ClosedGrows DEF Undos
<1> HIDE DEF T, S, halves
<1> QED
  BY <1>1, <1>2, <1>3, <1>4, <1>6, <1>8, QuotaShared

\* A stage whose lhs is searched with a quota of its own.
LEMMA QuotaInterposed ==
  ASSUME SearchInv, QuotaInv, StageInterposed
  PROVE  QuotaInv'
<1> DEFINE h == Hand
           id == next
           T == InterposedAt(tree, h, id, P)
           moves == MovesOf("lhs", 0, FALSE, TRUE, Comparisons)
           e == Entry(id, h, id, moves)
           f == Rest(id + 1)
           Top2(jumping) == [MovedOn EXCEPT !.jumping = jumping, !.interposable = FALSE]
           r == [q \in DOMAIN quotas \cup {id} |-> IF q = id THEN MaxCuts ELSE quotas[q]]
<1>1. PICK jumping : SplitInto(T, "uninterpose", Top2(jumping), <<e, f>>)
  BY DEF StageInterposed
<1> DEFINE top == Top2(jumping)
           halves == <<e, f>>
           B == Reverse(Parts(T, halves))
<1>2. Working("stage") /\ quotas' = r /\ SplitInto(T, "uninterpose", top, halves)
  BY <1>1 DEF StageInterposed
<1>3. /\ agenda # <<>> /\ Whole(tree) /\ h \in DOMAIN tree
      /\ id \in Nat /\ \A x \in DOMAIN tree : x < id
      /\ Entered(MovedOn) /\ MovedOn.gid = Hand /\ MovedOn.quota = Top.quota
  BY <1>2, Splitting, MovedOnSpends
<1>4. Entered(top) /\ top.gid = Hand /\ top.quota = Top.quota
  <2> HIDE DEF MovedOn
  <2> QED BY <1>3 DEF Entered, Fields
<1>5. f.undo = "none" /\ f.quota = Top.quota /\ f.gid = id + 1
  BY RestSpends, RestIs
<1>6. e.undo = "none" /\ e.quota = id /\ e.gid = id
  BY DEF Entry
<1> HIDE DEF f, e, h, id, top
<1>7. Halved(tree, T, h, id, "lhs", "rhs")
  BY <1>3, InterposeHalves
<1> HIDE DEF T
<1>8. /\ Follows(tree, T, {h}) /\ id \in DOMAIN T /\ T[id].role = "lhs"
      /\ T[id].status # "split" /\ T[id + 1].status # "split"
  BY <1>7 DEF Halved, New
<1>9. B = <<f, e>>
  <2>1. Parts(T, halves) = <<e, f>>
    BY <1>5, <1>6, <1>8, PartsTwo
  <2> QED BY <2>1, ReverseTwo
<1>10. Listed(B) /\ DOMAIN B = 1..2 /\ B[1] = f /\ B[2] = e
  <2>1. <<f, e>> \in Seq({f, e}) /\ DOMAIN <<f, e>> = 1..2
        /\ <<f, e>>[1] = f /\ <<f, e>>[2] = e
    OBVIOUS
  <2> QED BY <1>9, <2>1 DEF Listed
<1>11. /\ DOMAIN r = DOMAIN quotas \cup {id} /\ MaxCuts \in Nat
       /\ \A x \in DOMAIN r : r[x] = IF x = id THEN MaxCuts ELSE quotas[x]
  BY SearchAssumption
<1> HIDE DEF r
<1>12. QuotasStay(quotas, r) /\ id \in DOMAIN r
  BY <1>11 DEF QuotaInv, QuotasStay
<1> HIDE DEF halves
<1>13. \A k \in DOMAIN B :
         /\ B[k].undo \in Undos
         /\ \/ B[k].quota = Top.quota
            \/ /\ B[k].gid = B[k].quota /\ B[k].gid \in DOMAIN T
               /\ T[B[k].gid].role # "callee" /\ B[k].quota \in DOMAIN r
  <2> HIDE DEF B
  <2>1. \A k \in 1..2 : k = 1 \/ k = 2
    OBVIOUS
  <2>2. "none" \in Undos
    BY DEF Undos
  <2> QED BY <1>5, <1>6, <1>8, <1>10, <1>12, <2>1, <2>2
<1>14. Grows(tree, T) /\ "uninterpose" \in Undos
  BY <1>8, FollowsGrows DEF Undos
<1>15. B = Reverse(Parts(T, halves))
  OBVIOUS
<1> HIDE DEF B
<1>16. quotas' = r
  BY <1>2
<1> QED
  BY <1>2, <1>3, <1>4, <1>10, <1>12, <1>13, <1>14, <1>15, <1>16, QuotaSplit

\* The goal in hand has made its last move.
LEMMA QuotaExhaust ==
  ASSUME SearchInv, QuotaInv, phase \in Searching, Undecided, agenda # <<>>,
         agenda' = Front(agenda), exhausted' = exhausted \cup {Hand}, UNCHANGED <<tree, quotas>>
  PROVE  QuotaInv'
<1>1. Hand \in DOMAIN tree /\ exhausted \subseteq DOMAIN tree
  BY InHand DEF QuotaInv
<1>2. exhausted' \subseteq DOMAIN tree' /\ Grows(tree, tree')
  BY <1>1 DEF Grows
<1> QED
  BY <1>2, QuotaPop

\* A split is undone: the entries up to its goal are left, and the quotas they spend, since
\* none of them is below that goal.
LEMMA QuotaUndone ==
  ASSUME SearchInv, QuotaInv, phase \in Searching, Undecided, agenda # <<>>,
         NEW i \in DOMAIN agenda, Undone(agenda[i].gid),
         NEW T, Listed(T), DOMAIN T = 1..i, \A k \in 1..i : k # i => T[k] = agenda[k],
         T[i].gid = agenda[i].gid, T[i].quota = agenda[i].quota, T[i].undo \in Undos,
         agenda' = T
  PROVE  QuotaInv'
<1> DEFINE A == agenda
           G == tree
           p == A[i].gid
           H == Unsplit(G, p)
           D == DOMAIN quotas
           r == quotas'
<1>1. /\ Stood(G, A) /\ Typed(G) /\ Linked(G) /\ DOMAIN A = 1..Len(A) /\ Len(A) \in Nat
      /\ Owned(G, A)
      /\ \A k \in DOMAIN A : A[k].undo \in Undos /\ A[k].quota \in D
      /\ \A q \in D : quotas[q] \in 0..MaxCuts
  BY InHand, FrontIs DEF QuotaInv
<1>2. /\ tree' = H /\ exhausted' = exhausted \cap DOMAIN H
      /\ r = [q \in D \cap DOMAIN H |-> quotas[q]]
  BY DEF Undone, Restrict
<1>3. /\ i \in DOMAIN A /\ Listed(T) /\ DOMAIN T = 1..i /\ agenda' = T
      /\ \A k \in 1..i : k # i => T[k] = A[k]
      /\ T[i].gid = p /\ T[i].quota = A[i].quota /\ T[i].undo \in Undos
  OBVIOUS
<1>4. p \in DOMAIN G
  BY <1>1 DEF Stood
<1>5. UnsplitOf(G, H, p)
  BY <1>1, <1>4, UnsplitIs
<1> HIDE DEF A, G, H, D, r
<1>6. /\ DOMAIN T \subseteq DOMAIN A
      /\ \A j \in DOMAIN T : j < i \/ j = i
      /\ \A j \in DOMAIN T : \A k \in DOMAIN A : k < j => k \in DOMAIN T
  BY <1>1, <1>3
<1>7. \A j \in DOMAIN T : T[j].gid = A[j].gid /\ T[j].quota = A[j].quota /\ T[j].undo \in Undos
  BY <1>1, <1>3, <1>6
<1>8. \A j \in DOMAIN T : A[j].gid \in DOMAIN H
  BY <1>1, <1>3, <1>5, <1>6 DEF Stood, UnsplitOf
<1>9. \A x \in DOMAIN H : H[x].role = G[x].role
  <2>1. H[p].role = G[p].role
    BY <1>1, <1>4, <1>5 DEF UnsplitOf, Typed, Goals
  <2> QED BY <1>5, <2>1 DEF UnsplitOf
<1>10. Owned(H, T)
  <2>1. \A j \in DOMAIN T : A[j].gid \in DOMAIN H /\ H[A[j].gid].role = G[A[j].gid].role
    BY <1>8, <1>9
  <2>2. \A j \in DOMAIN T : T[j].gid = A[j].gid /\ T[j].quota = A[j].quota
    BY <1>7
  <2>3. Owned(G, A)
    BY <1>1
  <2> QED BY <1>6, <2>1, <2>2, <2>3 DEF Owned
<1>11. \A j \in DOMAIN T : T[j].quota \in D \cap DOMAIN H
  BY <1>1, <1>6, <1>7, <1>8, <1>10 DEF Owned
<1>12. DOMAIN r = D \cap DOMAIN H /\ \A q \in DOMAIN r : r[q] \in 0..MaxCuts
  BY <1>1, <1>2
<1>13. exhausted' \subseteq DOMAIN H
  BY <1>2
<1> QED
  BY <1>2, <1>3, <1>7, <1>10, <1>11, <1>12, <1>13 DEF QuotaInv, r

\* The entry of a goal whose split is undone spends what it did.
LEMMA ResumedSpends ==
  ASSUME NEW e, Entered(e)
  PROVE  Resumed(e).quota = e.quota /\ Resumed(e).undo \in Undos
BY DEF Resumed, Entered, Fields, Undos

LEMMA QuotaSettle ==
  ASSUME SearchInv, QuotaInv, Settle
  PROVE  QuotaInv'
<1> DEFINE A == agenda
           n == Len(A)
<1>1. phase = "search" /\ Undecided /\ agenda # <<>>
  BY DEF Settle
<1>2. /\ Whole(tree) /\ Listed(A) /\ n \in DOMAIN A /\ Top = A[n] /\ Hand = A[n].gid
      /\ Entered(Top)
  BY <1>1, InHand DEF Searching
<1>3. Grows(tree, tree) /\ exhausted \subseteq DOMAIN tree
  BY DEF Grows, QuotaInv
<1>4. CASE tree[Hand].status = "proved"
  <2>1. agenda' = Front(agenda) /\ exhausted' = exhausted /\ tree' = tree /\ quotas' = quotas
    BY <1>4 DEF Settle, PopsProved, Closed
  <2> QED BY <1>1, <1>3, <2>1, QuotaPop
<1>5. CASE tree[Hand].status # "proved" /\ ~CanUndo(Top)
  <2>1. UNCHANGED <<tree, agenda, quotas, exhausted>>
    BY <1>5 DEF Settle, PopsProved, Threw
  <2> QED BY <1>3, <2>1, QuotaSame
<1>6. CASE tree[Hand].status # "proved" /\ CanUndo(Top)
  <2> DEFINE e == Resumed(Top)
             T == Front(A) \o <<e>>
  <2>1. Undone(A[n].gid) /\ agenda' = T
    BY <1>2, <1>6 DEF Settle, PopsProved, WithTop
  <2>2. e.gid = A[n].gid /\ e.quota = A[n].quota /\ e.undo \in Undos
    BY <1>2, ResumedIs, ResumedSpends
  <2> HIDE DEF e
  <2>3. Listed(T) /\ DOMAIN T = DOMAIN A /\ \A k \in DOMAIN A : T[k] = IF k = n THEN e ELSE A[k]
    BY <1>1, <1>2, TopIs
  <2>4. DOMAIN A = 1..n
    BY <1>1, <1>2, FrontIs
  <2> HIDE DEF T, n
  <2>5. /\ DOMAIN T = 1..n /\ \A k \in 1..n : k # n => T[k] = A[k]
        /\ T[n].gid = A[n].gid /\ T[n].quota = A[n].quota /\ T[n].undo \in Undos
    BY <1>2, <2>2, <2>3, <2>4
  <2>6. phase \in Searching
    BY <1>1 DEF Searching
  <2> QED BY <1>1, <1>2, <2>1, <2>3, <2>5, <2>6, QuotaUndone
<1> QED
  BY <1>4, <1>5, <1>6

LEMMA QuotaUndo ==
  ASSUME SearchInv, QuotaInv, Undo
  PROVE  QuotaInv'
<1> DEFINE A == agenda
           n == Len(A)
<1>1. phase \in Searching /\ Undecided /\ agenda # <<>>
  BY DEF Undo, Repairing, SearchInv, Searching
<1>2. /\ Whole(tree) /\ Typed(tree) /\ Linked(tree) /\ Stood(tree, A)
      /\ Listed(A) /\ n \in DOMAIN A /\ Top = A[n] /\ Hand = A[n].gid
  BY <1>1, InHand
<1>3. CASE Top.parent = NoGoal
  BY <1>1, <1>3, QuotaExhaust DEF Undo
<1>4. CASE Top.parent # NoGoal
  <2>1. n # 1
    BY <1>2, <1>4 DEF Stood, Stacked
  <2>2. PICK i \in DOMAIN A : A[i].gid = A[n].parent
    BY <1>1, <1>2, <2>1, TopWasLeft
  <2>3. IndexOf(Top.parent) = i /\ IndexOf(A[i].gid) = i
    BY <1>2, <2>2, IndexIs DEF Stood
  <2> DEFINE e == Resumed(A[i])
             T == [SubSeq(A, 1, i) EXCEPT ![i] = e]
  <2>4. CASE ~CanUndo(A[i])
    <3>1. UNCHANGED <<tree, agenda, quotas, exhausted>>
      BY <1>4, <2>3, <2>4 DEF Undo, Threw
    <3> QED BY <3>1, QuotaSame DEF Grows
  <2>5. CASE CanUndo(A[i])
    <3>1. /\ Undone(A[i].gid)
          /\ agenda' = [UpTo(A[i].gid) EXCEPT ![i] = Resumed(@)]
      BY <1>4, <2>3, <2>5 DEF Undo
    <3>2. Entered(A[i])
      BY <1>2 DEF Stood
    <3>3. e.gid = A[i].gid /\ e.quota = A[i].quota /\ e.undo \in Undos
      BY <3>2, ResumedIs, ResumedSpends
    <3>4. SubSeq(A, 1, i)[i] = A[i]
      <4>1. i \in 0..Len(A) /\ i \in 1..i
        BY <1>1, <1>2, FrontIs
      <4> QED BY <1>2, <4>1, PrefixIs
    <3>5. agenda' = T
      BY <2>3, <3>1, <3>4 DEF UpTo
    <3> HIDE DEF e
    <3>6. Listed(T) /\ DOMAIN T = 1..i /\ T[i] = e /\ \A k \in 1..i : k # i => T[k] = A[k]
      BY <1>2, CutAtIs
    <3> HIDE DEF T
    <3> QED BY <1>1, <3>1, <3>3, <3>5, <3>6, QuotaUndone
  <2> QED BY <2>4, <2>5
<1> QED
  BY <1>3, <1>4

\* Sequences joined.
LEMMA JoinedOn ==
  ASSUME NEW A, NEW B, NEW C, Listed(A), Listed(B), Listed(C)
  PROVE  (A \o B) \o C = A \o (B \o C)
<1>1. PICK S, T, U : A \in Seq(S) /\ B \in Seq(T) /\ C \in Seq(U)
  BY DEF Listed
<1> DEFINE V == S \cup T \cup U
<1>2. A \in Seq(V) /\ B \in Seq(V) /\ C \in Seq(V)
  BY <1>1
<1> HIDE DEF V
<1>3. A \o B \in Seq(V) /\ B \o C \in Seq(V)
  BY <1>2
<1>4. (A \o B) \o C \in Seq(V) /\ A \o (B \o C) \in Seq(V)
  BY <1>2, <1>3
<1> QED
  BY <1>2, <1>3, <1>4

\* One more on top.
LEMMA PushIs ==
  ASSUME NEW A, Listed(A), NEW e
  PROVE  LET T == A \o <<e>>
         IN  Listed(T) /\ \A k \in DOMAIN T : (k \in DOMAIN A /\ T[k] = A[k]) \/ T[k] = e
<1> DEFINE T == A \o <<e>>
           n == Len(A)
<1>1. Listed(<<e>>) /\ Len(<<e>>) = 1 /\ <<e>>[1] = e
  BY OneIs
<1>2. /\ Listed(T) /\ n \in Nat /\ DOMAIN A = 1..n /\ DOMAIN T = 1..(n + Len(<<e>>))
      /\ \A i \in 1..n : T[i] = A[i]
      /\ \A i \in 1..Len(<<e>>) : T[n + i] = <<e>>[i]
  BY <1>1, JoinIs
<1> HIDE DEF T, n
<1>3. T[n + 1] = e /\ \A k \in DOMAIN T : k \in 1..n \/ k = n + 1
  BY <1>1, <1>2
<1> QED
  BY <1>2, <1>3 DEF T

\* Goals are put back in the place of a callee, or below it: its quota is of an entry that is
\* still below them.
LEMMA QuotaBack ==
  ASSUME QuotaInv, agenda # <<>>, Grows(tree, tree'), quotas' = quotas,
         exhausted' \subseteq DOMAIN tree', Hand \in DOMAIN tree, tree[Hand].role = "callee",
         NEW B, Listed(B), \A k \in DOMAIN B : B[k].undo \in Undos /\ B[k].quota = Top.quota,
         agenda' = Front(agenda) \o B
  PROVE  QuotaInv'
<1> DEFINE A == agenda
           n == Len(A)
           F == Front(A)
           Z == F \o B
           G == tree
           H == tree'
           q == Top.quota
<1>1. /\ Listed(A) /\ A # <<>> /\ Owned(G, A)
      /\ \A i \in DOMAIN A : A[i].undo \in Undos /\ A[i].quota \in DOMAIN quotas
  BY DEF QuotaInv
<1>2. /\ Grows(G, H) /\ exhausted' \subseteq DOMAIN H /\ agenda' = Z
      /\ Top = Last(A) /\ Hand = Top.gid /\ G[Hand].role = "callee"
      /\ \A k \in DOMAIN B : B[k].undo \in Undos /\ B[k].quota = q
  BY DEF Top, Hand
<1> HIDE DEF A, G, H
<1>3. /\ n \in Nat \ {0} /\ DOMAIN A = 1..n /\ Last(A) = A[n]
      /\ Listed(F) /\ DOMAIN F = 1..(n - 1) /\ \A i \in 1..(n - 1) : F[i] = A[i]
  BY <1>1, FrontIs
<1> HIDE DEF n, F
<1>4. /\ DOMAIN F \subseteq DOMAIN A /\ n \in DOMAIN A
      /\ \A j \in DOMAIN F : F[j] = A[j]
      /\ \A j \in DOMAIN F : \A i \in DOMAIN A : i < j => i \in DOMAIN F
      /\ \A i \in DOMAIN A : i < n => i \in DOMAIN F
  BY <1>3
<1>5. Owned(H, F)
  BY <1>1, <1>2, <1>4, OwnedPrefix DEF Grows
<1>6. (\E i \in DOMAIN F : F[i].gid = q) /\ q \in DOMAIN quotas
  BY <1>1, <1>2, <1>3, <1>4 DEF Owned
<1> HIDE DEF q
<1>7. Owned(H, Z)
  BY <1>2, <1>3, <1>5, <1>6, OwnedPush
<1>8. /\ Listed(Z) /\ Len(F) \in Nat /\ Len(B) \in Nat
      /\ DOMAIN F = 1..Len(F) /\ DOMAIN B = 1..Len(B)
      /\ DOMAIN Z = 1..(Len(F) + Len(B))
      /\ \A i \in 1..Len(F) : Z[i] = F[i]
      /\ \A i \in 1..Len(B) : Z[Len(F) + i] = B[i]
  BY <1>3, JoinIs
<1> HIDE DEF Z
<1>9. \A i \in DOMAIN F : F[i].undo \in Undos /\ F[i].quota \in DOMAIN quotas
  BY <1>1, <1>4
<1>10. \A i \in DOMAIN B : B[i].undo \in Undos /\ B[i].quota \in DOMAIN quotas
  BY <1>2, <1>6
<1>11. \A i \in DOMAIN Z : Z[i].undo \in Undos /\ Z[i].quota \in DOMAIN quotas
  <2> SUFFICES ASSUME NEW i \in DOMAIN Z
               PROVE  Z[i].undo \in Undos /\ Z[i].quota \in DOMAIN quotas
    OBVIOUS
  <2>1. CASE i \in 1..Len(F)
    BY <1>8, <1>9, <2>1
  <2>2. CASE i \notin 1..Len(F)
    <3>1. i - Len(F) \in 1..Len(B) /\ i = Len(F) + (i - Len(F))
      BY <1>8, <2>2
    <3>2. Z[i] = B[i - Len(F)]
      BY <1>8, <3>1
    <3> QED BY <1>8, <1>10, <3>1, <3>2
  <2> QED BY <2>1, <2>2
<1> QED
  BY <1>2, <1>7, <1>8, <1>11 DEF QuotaInv, H

\* What is put back spends the quota of the goal in hand.
LEMMA RequeuedSpends ==
  ASSUME NEW T, NEW k \in DOMAIN Requeued(T)
  PROVE  Requeued(T)[k].undo = "none" /\ Requeued(T)[k].quota = Top.quota
<1> DEFINE s == OldestFirst({x \in T[CutAt].children \ {Hand} : T[x].status = "open" /\ ~Queued(x)})
           B == Requeued(T)
<1>1. B = [i \in DOMAIN s |-> Plain(T[s[i]].role, s[i], Top.parent, Top.quota)]
  BY DEF Requeued
<1> HIDE DEF B, s
<1>2. k \in DOMAIN s /\ B[k] = Plain(T[s[k]].role, s[k], Top.parent, Top.quota)
  BY <1>1 DEF B
<1>3. LET e == Plain(T[s[k]].role, s[k], Top.parent, Top.quota)
      IN  e.undo = "none" /\ e.quota = Top.quota
  BY PlainSpends
<1>4. B[k].undo = "none" /\ B[k].quota = Top.quota
  BY <1>2, <1>3
<1> QED
  BY <1>4 DEF B

LEMMA QuotaStrengthen ==
  ASSUME SearchInv, QuotaInv, StrengthenAgainst
  PROVE  QuotaInv'
<1> DEFINE h == Hand
           o == FirstOuter
           c == FirstCallee
           A == agenda
           U == Reopened(Reopened(tree, o), c)
<1>1. Repairing /\ ~Mixed /\ Strengthenable
  BY DEF StrengthenAgainst
<1>2. PICK T \in CrossChecked(U, o, c) :
        /\ exhausted' = exhausted \ {Requeued(T)[i].gid : i \in DOMAIN Requeued(T)}
        /\ \/ tree' = Proved(T, h) /\ agenda' = Front(A) \o Requeued(T)
           \/ tree' = T /\ agenda' = Front(A) \o Requeued(T) \o <<Top>>
  BY DEF StrengthenAgainst
<1>3. /\ A # <<>> /\ phase \in Searching /\ Undecided
      /\ CutAt \in DOMAIN tree /\ {o, c, h} \subseteq tree[CutAt].children
      /\ tree[h].role = "callee"
  BY <1>1, CutIsOf DEF Strengthenable
<1>4. /\ Whole(tree) /\ Linked(tree) /\ Listed(A) /\ Top = A[Len(A)] /\ Len(A) \in DOMAIN A
      /\ h \in DOMAIN tree /\ Entered(Top)
  BY <1>3, InHand
<1>5. o \in DOMAIN tree /\ c \in DOMAIN tree /\ tree[CutAt].children \subseteq DOMAIN tree
  BY <1>3, <1>4 DEF Linked
<1> HIDE DEF o, c
<1>6. Whole(T) /\ Follows(tree, T, {o, c}) /\ SameGoals(tree, T)
  BY <1>4, <1>5, StrengthenFollows
<1> DEFINE B == Requeued(T)
<1>7. Listed(B)
  <2>1. /\ Listed(agenda) /\ Top = agenda[Len(agenda)] /\ Hand = Top.gid
        /\ CutAt = tree[Hand].parent
        /\ T[CutAt].children = tree[CutAt].children /\ tree[CutAt].children \subseteq DOMAIN T
    BY <1>3, <1>4, <1>5, <1>6 DEF Hand, CutAt, SameGoals
  <2>2. Back(tree, agenda, B)
    BY <1>6, <2>1, RequeuedIs
  <2> QED BY <2>2 DEF Back
<1>8. \A k \in DOMAIN B : B[k].undo \in Undos /\ B[k].quota = Top.quota
  BY RequeuedSpends DEF Undos
<1>9. Grows(tree, T) /\ Grows(tree, Proved(T, h))
  <2> DEFINE H == Proved(T, h)
  <2>1. Grows(tree, T) /\ h \in DOMAIN T
    BY <1>4, <1>6, FollowsGrows DEF SameGoals
  <2>2. Proves(T, H, {h})
    BY <1>6, <2>1, ProvedProves
  <2> HIDE DEF H
  <2>3. Grows(T, H)
    BY <2>2, ProvesGrows
  <2> QED BY <2>1, <2>3, GrowsOn DEF H
<1>10. Grows(tree, tree') /\ exhausted' \subseteq DOMAIN tree' /\ quotas' = quotas
  <2>1. Grows(tree, tree') /\ exhausted' \subseteq exhausted
    BY <1>2, <1>9
  <2> QED BY <2>1 DEF QuotaInv, Grows, StrengthenAgainst
<1>11. \/ agenda' = Front(A) \o B
       \/ agenda' = (Front(A) \o B) \o <<Top>>
  BY <1>2
<1> HIDE DEF B
<1>12. CASE agenda' = Front(A) \o B
  BY <1>3, <1>4, <1>7, <1>8, <1>10, <1>12, QuotaBack
<1>13. CASE agenda' = (Front(A) \o B) \o <<Top>>
  <2> DEFINE e == Top
             D == B \o <<e>>
  <2>1. e.undo \in Undos
    BY <1>4 DEF Entered
  <2>2. Listed(Front(A)) /\ Listed(<<e>>)
    BY <1>3, <1>4, FrontIs, OneIs
  <2>3. agenda' = Front(A) \o D
    <3> HIDE DEF e, A
    <3> QED BY <1>7, <1>13, <2>2, JoinedOn DEF e
  <2> HIDE DEF e
  <2>4. Listed(D) /\ \A k \in DOMAIN D : (k \in DOMAIN B /\ D[k] = B[k]) \/ D[k] = e
    BY <1>7, PushIs
  <2> HIDE DEF D
  <2>5. \A k \in DOMAIN D : D[k].undo \in Undos /\ D[k].quota = Top.quota
    BY <1>8, <2>1, <2>4 DEF e
  <2> QED BY <1>3, <1>4, <1>10, <2>3, <2>4, <2>5, QuotaBack
<1> QED
  BY <1>11, <1>12, <1>13

\* The search begins with a quota for its first goal, which is no callee.
LEMMA QuotaBegin ==
  ASSUME SearchInv, Begin
  PROVE  QuotaInv'
<1> DEFINE b == Begun
           moves == MovesOf(tree[b].role, Stages, TRUE, TRUE, Comparisons)
           e == Entry(b, NoGoal, b, moves)
           A == <<e>>
<1>1. Whole(tree) /\ AtRoot(tree) /\ exhausted = {}
  BY DEF SearchInv, Begin
<1>2. agenda' = A /\ tree' = tree /\ exhausted' = {} /\ quotas' = [q \in {b} |-> MaxCuts]
  BY <1>1 DEF Begin
<1>3. b \in DOMAIN tree /\ tree[b].role # "callee"
  BY <1>1, BegunIs DEF BaseOf
<1> HIDE DEF b, moves
<1>4. e.gid = b /\ e.undo = "none" /\ e.quota = b
  BY EntryIs, EntrySpends
<1>5. Listed(A) /\ A[1] = e /\ DOMAIN A = {1}
  BY OneIs
<1> HIDE DEF e, A
<1>6. Owned(tree, A)
  BY <1>3, <1>4, <1>5 DEF Owned
<1>7. /\ DOMAIN quotas' = {b} /\ \A q \in DOMAIN quotas' : quotas'[q] \in 0..MaxCuts
  BY <1>2, SearchAssumption
<1>8. \A i \in DOMAIN A : A[i].undo \in Undos /\ A[i].quota \in DOMAIN quotas'
  BY <1>4, <1>5, <1>7 DEF Undos
<1> QED
  BY <1>2, <1>5, <1>6, <1>7, <1>8 DEF QuotaInv

\* The checks of the root, its peeling, and what leaves the agenda alone.
LEMMA QuotaRoot ==
  ASSUME SearchInv, QuotaInv, RootCheck \/ PeelRoot \/ CheckPeeled \/ RefuteRun
  PROVE  QuotaInv'
<1>1. Whole(tree) /\ Root \in DOMAIN tree
  BY DEF SearchInv, Whole, Sound, Typed
<1>2. CASE RootCheck \/ RefuteRun
  <2>1. Grows(tree, Proved(tree, Root)) /\ Grows(tree, Refuted(tree, Root))
    BY <1>1, ChecksGrow
  <2>2. Grows(tree, tree') /\ UNCHANGED <<agenda, quotas, exhausted>>
    BY <1>2, <2>1 DEF RootCheck, RefuteRun
  <2> QED BY <2>2, QuotaSame
<1>3. CASE PeelRoot
  <2> DEFINE id == next
             U == CutIn(tree, Root, id, "alone", P, P, P, P)
             T == Proved(U, id + 1)
  <2>1. tree' = T /\ UNCHANGED <<agenda, quotas, exhausted>>
    BY <1>3 DEF PeelRoot, CutAlone
  <2>2. id \in Nat /\ \A x \in DOMAIN tree : x < id
    BY <1>1, NextIs
  <2> HIDE DEF id
  <2>3. Halved(tree, U, Root, id, "outer", "callee")
    BY <1>1, <2>2, CutHalves DEF CutKinds
  <2> HIDE DEF U
  <2>4. Grows(tree, T)
    BY <2>3, ClosedGrows
  <2> HIDE DEF T
  <2> QED BY <2>1, <2>4, QuotaSame
<1>4. CASE CheckPeeled
  <2>1. Begun \in DOMAIN tree
    BY <1>4, BegunIs DEF SearchInv, CheckPeeled
  <2>2. Grows(tree, Proved(tree, Begun))
    BY <1>1, <2>1, ChecksGrow
  <2>3. Grows(tree, tree') /\ UNCHANGED <<agenda, quotas, exhausted>>
    BY <1>4, <2>2 DEF CheckPeeled
  <2> QED BY <2>3, QuotaSame
<1> QED
  BY <1>2, <1>3, <1>4

\* Every step keeps the quotas.
LEMMA NextQuotas ==
  ASSUME SearchInv, QuotaInv, [Next]_vars
  PROVE  QuotaInv'
<1>1. ASSUME UNCHANGED <<tree, agenda, quotas, exhausted>> PROVE QuotaInv'
  BY <1>1, QuotaSame DEF Grows
<1>2. CASE UNCHANGED vars
  BY <1>1, <1>2 DEF vars
<1>3. CASE Next
  <2>1. CASE RootCheck \/ PeelRoot \/ CheckPeeled \/ RefuteRun
    BY <2>1, QuotaRoot
  <2>2. CASE Begin
    BY <2>2, QuotaBegin
  <2>3. CASE AskProved \/ StepGoal \/ CheckGoal
    BY <2>3, QuotaAsk
  <2>4. CASE Refusals \/ StageReached \/ StageIsTgt \/ StageRefused
    <3>1. StageIsTgt \/ StageRefused \/ \E move : MoveRefused(move)
      BY <2>4 DEF Refusals, StageReached
    <3> QED BY <3>1, QuotaStage
  <2>5. CASE CutBounded \/ Cut \/ CutNested \/ Peel
    BY <2>5, QuotaCut
  <2>6. CASE Case
    BY <2>6, QuotaCase
  <2>7. CASE StageJumped \/ StageInterposed
    BY <2>7, QuotaJumped, QuotaInterposed
  <2>8. CASE Settle \/ Undo
    BY <2>8, QuotaSettle, QuotaUndo
  <2>9. CASE Exhaust
    BY <2>9, QuotaExhaust DEF Exhaust, Searching
  <2>10. CASE StrengthenAgainst
    BY <2>10, QuotaStrengthen
  <2>11. CASE StrengthenThrows \/ GiveUp \/ Decided \/ Over
    BY <1>1, <2>11 DEF StrengthenThrows, Threw, GiveUp, Decided, Over, vars
  <2> QED
    BY <1>3, <2>1, <2>2, <2>3, <2>4, <2>5, <2>6, <2>7, <2>8, <2>9, <2>10, <2>11 DEF Next
<1> QED
  BY <1>2, <1>3

\* The tree is well formed, each goal on the agenda spends a quota that is kept, which is its
\* own or of a goal below it, and no quota is overdrawn, whatever was undone or put back since
\* (search.ts search, cut, requeue, undo).
THEOREM SearchTyped == Spec => []TypeOK
<1>1. Init => QuotaInv
  BY DEF Init, QuotaInv, Owned, Listed
<1>2. SearchInv /\ QuotaInv /\ [Next]_vars => QuotaInv'
  BY NextQuotas
<1>3. SearchInv /\ QuotaInv => TypeOK
  BY DEF SearchInv, QuotaInv, TypeOK, Whole, Sound
<1> QED
  BY <1>1, <1>2, <1>3, SearchInvHolds, PTL DEF Spec

-----------------------------------------------------------------------------
(* The facts.                                                              *)


\* A remainder is one, ...
LEMMA RemWithin == ASSUME NEW w \in Nat \ {0}, NEW n \in Int PROVE n % w \in 0 .. w - 1
  BY SMT

\* ... a number that is one already is its own, ...
LEMMA RemOfSmall == ASSUME NEW w \in Nat \ {0}, NEW n \in 0 .. w - 1 PROVE n % w = n
  BY SMT

\* ... one just below zero wraps, ...
LEMMA RemOfNegative ==
  ASSUME NEW w \in Nat \ {0}, NEW n \in Int, -w <= n, n < 0 PROVE n % w = n + w
  BY SMT

\* ... and so does the first past the top.
LEMMA RemOfWhole == ASSUME NEW w \in Nat \ {0} PROVE w % w = 0
  BY SMT

\* How many values a type has.
LEMMA HalfIs == ASSUME NEW t \in IntTypes PROVE HalfOf[t] \in Nat \ {0} /\ Wide(t) \in Nat \ {0} /\ Wide(t) = 2 * HalfOf[t]
  BY FactsAssumption DEF Wide

\* Reading back, without a sign, what was read with one.
LEMMA ReadBack ==
  ASSUME NEW t \in IntTypes, NEW n \in Int
  PROVE  /\ AsUint(t, n) \in Words(t)
         /\ AsInt(t, n) \in Signed(t)
         /\ AsUint(t, AsInt(t, n)) = AsUint(t, n)
<1> DEFINE h == HalfOf[t]  w == Wide(t)  u == n % w
<1>1. h \in Nat \ {0} /\ w \in Nat \ {0} /\ w = 2 * h
  BY HalfIs
<1>2. u \in 0 .. w - 1
  BY <1>1, RemWithin
<1> HIDE DEF h, w, u
<1>3. u < h => u % w = u
  BY <1>1, <1>2, RemOfSmall
<1>4. u >= h => (u - w) % w = u
  <2> SUFFICES ASSUME u >= h PROVE (u - w) % w = u
    OBVIOUS
  <2>1. u - w \in Int /\ -w <= u - w /\ u - w < 0
    BY <1>1, <1>2
  <2>2. (u - w) % w = (u - w) + w
    BY <2>1, <1>1, RemOfNegative
  <2> QED BY <2>2, <1>1, <1>2
<1>5. CASE u < h
  <2>1. AsUint(t, n) = u /\ AsInt(t, n) = u
    BY <1>5 DEF AsUint, AsInt, u, w, h
  <2>2. AsUint(t, AsInt(t, n)) = u
    BY <2>1, <1>3, <1>5 DEF AsUint, w
  <2>3. u \in -h .. h - 1
    BY <1>1, <1>2, <1>5
  <2> QED BY <2>1, <2>2, <2>3, <1>2 DEF Words, Signed, h, w
<1>6. CASE u >= h
  <2>1. AsUint(t, n) = u /\ AsInt(t, n) = u - w
    <3>1. ~(u < h) BY <1>6, <1>1, <1>2
    <3> QED BY <3>1 DEF AsUint, AsInt, u, w, h
  <2>2. AsUint(t, AsInt(t, n)) = u
    BY <2>1, <1>4, <1>6 DEF AsUint, w
  <2>3. u - w \in -h .. h - 1
    BY <1>1, <1>2, <1>6
  <2> QED BY <2>1, <2>2, <2>3, <1>2 DEF Words, Signed, h, w
<1> QED BY <1>1, <1>2, <1>5, <1>6

\* How the words read.
LEMMA WordsRead ==
  ASSUME NEW t \in IntTypes, NEW v \in Words(t)
  PROVE  AsUint(t, v) = v /\ AsInt(t, v) = IF v < HalfOf[t] THEN v ELSE v - Wide(t)
  BY HalfIs, RemOfSmall DEF AsUint, AsInt, Words

\* How the signed numbers read.
LEMMA SignedRead ==
  ASSUME NEW t \in IntTypes, NEW n \in Signed(t)
  PROVE  AsUint(t, n) = (IF n < 0 THEN n + Wide(t) ELSE n) /\ AsInt(t, n) = n
<1> DEFINE h == HalfOf[t]  w == Wide(t)
<1>1. h \in Nat \ {0} /\ w \in Nat \ {0} /\ w = 2 * h
  BY HalfIs
<1>2. n \in -h .. h - 1
  BY DEF Signed
<1> HIDE DEF h, w
<1>3. n % w = IF n < 0 THEN n + w ELSE n
  <2>1. CASE n < 0
    <3>1. n \in Int /\ -w <= n BY <1>1, <1>2
    <3> QED BY <3>1, <2>1, <1>1, RemOfNegative
  <2>2. CASE n >= 0
    <3>1. n \in 0 .. w - 1 BY <1>1, <1>2, <2>2
    <3> QED BY <3>1, <2>2, <1>1, <1>2, RemOfSmall
  <2> QED BY <2>1, <2>2, <1>2
<1>4. AsUint(t, n) = n % w
  BY DEF AsUint, w
<1>5. (IF n % w < h THEN n % w ELSE (n % w) - w) = n
  BY <1>1, <1>2, <1>3
<1> QED BY <1>3, <1>4, <1>5 DEF AsInt, h, w

\* Past the last number of either reading is the first.
LEMMA PastTheTop ==
  ASSUME NEW t \in IntTypes
  PROVE  AsUint(t, Wide(t)) = 0 /\ AsUint(t, HalfOf[t]) = HalfOf[t]
  BY HalfIs, RemOfWhole, RemOfSmall DEF AsUint

\* A word between two others is in the half-open range made of them, ...
LEMMA WordRange ==
  ASSUME NEW t \in IntTypes, NEW v \in Words(t), NEW p,
         p.low \in Words(t), p.high \in Words(t), p.low <= v, v <= p.high, Span(p) + 1 < Wide(t)
  PROVE  InRange(t, HalfOpen(t, p), v)
<1> DEFINE w == Wide(t)  low == p.low  high == p.high  end == AsUint(t, high + 1)
<1>1. w \in Nat \ {0} /\ low \in 0 .. w - 1 /\ high \in 0 .. w - 1 /\ v \in 0 .. w - 1
  BY HalfIs DEF Words
<1>2. AsUint(t, HalfOpen(t, p).min) = low /\ AsUint(t, HalfOpen(t, p).max) = end
  BY ReadBack, WordsRead, <1>1 DEF HalfOpen
<1>3. high + 1 < w => end = high + 1
  <2> SUFFICES ASSUME high + 1 < w PROVE high + 1 \in Words(t)
    BY WordsRead
  <2> QED BY <1>1 DEF Words
<1>4. high + 1 = w => end = 0
  BY PastTheTop
<1>5. high - low + 1 < w
  BY DEF Span
<1> HIDE DEF w, low, high, end
<1>6. low # end /\ IF low < end THEN low <= v /\ v < end ELSE low <= v \/ v < end
  <2>1. low <= v /\ v <= high
    BY DEF low, high
  <2>2. CASE high + 1 < w
    BY <1>1, <1>3, <2>1, <2>2
  <2>3. CASE high + 1 = w
    BY <1>1, <1>4, <1>5, <2>1, <2>3
  <2> QED BY <1>1, <2>2, <2>3
<1> QED BY <1>2, <1>6 DEF InRange

\* ... and so is one between two when all are read with a sign, though the range wraps.
LEMMA SignedRange ==
  ASSUME NEW t \in IntTypes, NEW v \in Words(t), NEW p,
         p.low \in Signed(t), p.high \in Signed(t),
         p.low <= AsInt(t, v), AsInt(t, v) <= p.high, Span(p) + 1 < Wide(t)
  PROVE  InRange(t, HalfOpen(t, p), v)
<1> DEFINE h == HalfOf[t]  w == Wide(t)  low == p.low  high == p.high
           start == AsUint(t, low)  end == AsUint(t, high + 1)
<1>1. h \in Nat \ {0} /\ w = 2 * h /\ low \in -h .. h - 1 /\ high \in -h .. h - 1 /\ v \in 0 .. w - 1
  BY HalfIs DEF Words, Signed
<1>2. AsUint(t, HalfOpen(t, p).min) = start /\ AsUint(t, HalfOpen(t, p).max) = end
  BY ReadBack, <1>1 DEF HalfOpen
<1>3. start = IF low < 0 THEN low + w ELSE low
  BY SignedRead
<1>4. end = IF high + 1 < 0 THEN high + 1 + w ELSE high + 1
  <2>1. CASE high + 1 = h
    BY <2>1, <1>1, PastTheTop
  <2>2. CASE high + 1 < h
    <3>1. high + 1 \in Signed(t)
      BY <2>2, <1>1 DEF Signed, h
    <3> QED BY <3>1, SignedRead
  <2> QED BY <2>1, <2>2, <1>1
<1>5. high - low + 1 < w
  BY DEF Span
<1>6. /\ v < h => low <= v /\ v <= high
      /\ v >= h => low <= v - w /\ v - w <= high
  <2>1. low <= AsInt(t, v) /\ AsInt(t, v) <= high
    OBVIOUS
  <2>2. AsInt(t, v) = IF v < h THEN v ELSE v - w
    BY WordsRead
  <2> HIDE DEF h, w, low, high
  <2> QED BY <1>1, <2>1, <2>2
<1> HIDE DEF h, w, low, high, start, end
<1>7. start # end /\ IF start < end THEN start <= v /\ v < end ELSE start <= v \/ v < end
  BY <1>1, <1>3, <1>4, <1>5, <1>6
<1> QED BY <1>2, <1>7 DEF InRange

\* Of what narrows a value, one is narrowest.
LEMMA NarrowestIsOne ==
  ASSUME NEW t \in IntTypes, NEW r \in Ranges(t) \cup {Nothing}, NEW b \in Bits(t) \cup {Nothing},
         NEW S \in SUBSET Pairs(r, b), S # {}
  PROVE  Narrowest(S) \in S
<1> DEFINE first == [rank |-> 1, low |-> r.signedLow, high |-> r.signedHigh]
           second == [rank |-> 2, low |-> r.low, high |-> r.high]
           third == [rank |-> 3, low |-> b.one, high |-> b.one + b.unknown]
           Least(p) == \A q \in S : Span(p) < Span(q) \/ (Span(p) = Span(q) /\ p.rank <= q.rank)
<1>1. S \subseteq (IF r = Nothing THEN {} ELSE {first, second}) \cup (IF b = Nothing THEN {} ELSE {third})
  BY DEF Pairs
<1>2. \A p \in S : Span(p) \in Int /\ p.rank \in 1 .. 3
  <2> SUFFICES ASSUME NEW p \in S PROVE Span(p) \in Int /\ p.rank \in 1 .. 3
    OBVIOUS
  <2>1. CASE r # Nothing /\ p \in {first, second}
    <3>1. r \in Ranges(t) BY <2>1
    <3> QED BY <3>1, <2>1, HalfIs DEF Ranges, Span, Words, Signed
  <2>2. CASE b # Nothing /\ p = third
    <3>1. b \in Bits(t) BY <2>2
    <3> QED BY <3>1, <2>2, HalfIs DEF Bits, Span, Words
  <2> QED BY <1>1, <2>1, <2>2
<1>3. \A p, q \in S : p.rank = q.rank => p = q
  <2>1. first.rank = 1 /\ second.rank = 2 /\ third.rank = 3
    OBVIOUS
  <2>2. \A p \in S : p \in {first, second, third}
    BY <1>1
  <2> HIDE DEF first, second, third
  <2> QED BY <2>1, <2>2
<1>4. \A p \in S : p \in {first, second, third}
  BY <1>1
<1>5. \E p \in S : Least(p)
  <2>1. first.rank = 1 /\ second.rank = 2 /\ third.rank = 3
    OBVIOUS
  <2> HIDE DEF first, second, third
  <2> QED BY <1>2, <1>4, <2>1
<1> QED BY <1>5 DEF Narrowest

\* A range the code states of an integer is one it lies in, if what the analyses say of it is
\* so: neither the sign, nor the end past the last value, nor the choice of the narrowest of
\* three loses a value (facts.ts rangeOf, rangeHoldsOn).
THEOREM RangesAreTrue ==
  ASSUME NEW t \in IntTypes, NEW v \in Words(t),
         NEW r \in Ranges(t) \cup {Nothing}, r # Nothing => Between(t, r, v),
         NEW b \in Bits(t) \cup {Nothing}, b # Nothing => BitsOf(b, v),
         RangeOf(t, r, b) # Nothing
  PROVE  InRange(t, RangeOf(t, r, b), v)
<1> DEFINE S == {p \in Pairs(r, b) : Span(p) + 1 < Wide(t)}  p == Narrowest(S)
<1>1. S # {} /\ RangeOf(t, r, b) = HalfOpen(t, p)
  BY DEF RangeOf
<1>2. p \in S
  BY <1>1, NarrowestIsOne
<1> HIDE DEF S, p
<1>3. p \in Pairs(r, b) /\ Span(p) + 1 < Wide(t)
  BY <1>2 DEF S
<1>4. CASE r # Nothing /\ p = [rank |-> 1, low |-> r.signedLow, high |-> r.signedHigh]
  <2>1. r \in Ranges(t) /\ Between(t, r, v)
    BY <1>4
  <2> QED BY <1>1, <1>3, <1>4, <2>1, SignedRange DEF Between, Ranges
<1>5. CASE r # Nothing /\ p = [rank |-> 2, low |-> r.low, high |-> r.high]
  <2>1. r \in Ranges(t) /\ Between(t, r, v)
    BY <1>5
  <2> QED BY <1>1, <1>3, <1>5, <2>1, WordRange DEF Between, Ranges
<1>6. CASE b # Nothing /\ p = [rank |-> 3, low |-> b.one, high |-> b.one + b.unknown]
  <2>1. b \in Bits(t) /\ v - b.one \in Submasks(b.unknown)
    BY <1>6 DEF BitsOf
  <2>2. b.one \in Words(t) /\ b.unknown \in Words(t) /\ b.one + b.unknown \in Words(t)
    BY <2>1 DEF Bits
  <2>3. v - b.one \in 0 .. b.unknown
    BY <2>1, <2>2, FactsAssumption
  <2>4. p.low \in Words(t) /\ p.high \in Words(t) /\ p.low <= v /\ v <= p.high
    BY <1>6, <2>2, <2>3, HalfIs DEF Words
  <2> QED BY <1>1, <1>3, <2>4, WordRange
<1> QED BY <1>3, <1>4, <1>5, <1>6 DEF Pairs

\* How the comparisons that state a range are read.
LEMMA BoundsReadAs ==
  ASSUME NEW t \in IntTypes, NEW v \in Words(t), NEW r \in Ranges(t), NEW k, NEW inputs,
         inputs[k] = [type |-> t, value |-> v]
  PROVE  /\ HoldsOn(Compares("uge", k, Lit(r.low)), inputs) = (v >= r.low)
         /\ HoldsOn(Compares("ule", k, Lit(r.high)), inputs) = (v <= r.high)
         /\ HoldsOn(Compares("sge", k, Lit(r.signedLow)), inputs) = (AsInt(t, v) >= r.signedLow)
         /\ HoldsOn(Compares("sle", k, Lit(r.signedHigh)), inputs) = (AsInt(t, v) <= r.signedHigh)
<1>1. inputs[k].type = t /\ inputs[k].value = v
  OBVIOUS
<1>2. r.low \in Words(t) /\ r.high \in Words(t) /\ r.signedLow \in Signed(t) /\ r.signedHigh \in Signed(t)
  BY DEF Ranges
<1>3. v # Nothing /\ r.low # Nothing /\ r.high # Nothing /\ r.signedLow # Nothing /\ r.signedHigh # Nothing
  BY <1>2, HalfIs, FactsAssumption DEF Words, Signed
<1>4. AsUint(t, v) = v /\ AsUint(t, r.low) = r.low /\ AsUint(t, r.high) = r.high
  BY <1>2, WordsRead
<1>5. AsInt(t, r.signedLow) = r.signedLow /\ AsInt(t, r.signedHigh) = r.signedHigh
  BY <1>2, SignedRead
<1>6. HoldsOn(Compares("uge", k, Lit(r.low)), inputs) = (v >= r.low)
  BY <1>1, <1>3, <1>4 DEF HoldsOn, Compares, Lit, Read, Ordered
<1>7. HoldsOn(Compares("ule", k, Lit(r.high)), inputs) = (v <= r.high)
  BY <1>1, <1>3, <1>4 DEF HoldsOn, Compares, Lit, Read, Ordered
<1>8. HoldsOn(Compares("sge", k, Lit(r.signedLow)), inputs) = (AsInt(t, v) >= r.signedLow)
  BY <1>1, <1>3, <1>5 DEF HoldsOn, Compares, Lit, Read, Ordered
<1>9. HoldsOn(Compares("sle", k, Lit(r.signedHigh)), inputs) = (AsInt(t, v) <= r.signedHigh)
  BY <1>1, <1>3, <1>5 DEF HoldsOn, Compares, Lit, Read, Ordered
<1> QED BY <1>6, <1>7, <1>8, <1>9

\* The comparisons that state what is known of an integer hold of it, and where all bounds
\* can be stated exactly they say all of it: a bound left out is one its type has
\* (facts.ts boundsOf, holdsOn).
THEOREM BoundsSayTheRange ==
  ASSUME NEW t \in IntTypes, NEW v \in Words(t), NEW r \in Ranges(t), NEW k, NEW inputs,
         inputs[k] = [type |-> t, value |-> v]
  PROVE  /\ Between(t, r, v) => \A c \in BoundsOf(t, k, r) : HoldsOn(c, inputs) = TRUE
         /\ Wide(t) - 1 <= Safe /\ (\A c \in BoundsOf(t, k, r) : HoldsOn(c, inputs) = TRUE) => Between(t, r, v)
<1> DEFINE a1 == Compares("uge", k, Lit(r.low))
           a2 == Compares("ule", k, Lit(r.high))
           a3 == Compares("sge", k, Lit(r.signedLow))
           a4 == Compares("sle", k, Lit(r.signedHigh))
           s == AsInt(t, v)  h == HalfOf[t]  w == Wide(t)  B == BoundsOf(t, k, r)
<1>1. /\ HoldsOn(a1, inputs) = (v >= r.low)
      /\ HoldsOn(a2, inputs) = (v <= r.high)
      /\ HoldsOn(a3, inputs) = (s >= r.signedLow)
      /\ HoldsOn(a4, inputs) = (s <= r.signedHigh)
  BY BoundsReadAs
<1>2. /\ r.low \in Words(t) /\ r.high \in Words(t) /\ r.signedLow \in Signed(t) /\ r.signedHigh \in Signed(t)
      /\ v \in Words(t) /\ s \in Signed(t)
  BY ReadBack DEF Ranges, Words
<1>3. h \in Nat \ {0} /\ w = 2 * h /\ Safe \in Nat
  BY HalfIs, FactsAssumption
<1>4. r # Nothing
  BY FactsAssumption
<1>5. B \subseteq {a1, a2, a3, a4}
  BY DEF BoundsOf, Bound
<1>6. w - 1 <= Safe =>
        /\ r.low = 0 \/ a1 \in B
        /\ r.high = w - 1 \/ a2 \in B
        /\ r.signedLow = -h \/ a3 \in B
        /\ r.signedHigh = h - 1 \/ a4 \in B
  <2> SUFFICES ASSUME w - 1 <= Safe
               PROVE  /\ r.low = 0 \/ a1 \in B
                      /\ r.high = w - 1 \/ a2 \in B
                      /\ r.signedLow = -h \/ a3 \in B
                      /\ r.signedHigh = h - 1 \/ a4 \in B
    OBVIOUS
  <2>1. Exact(r.low) /\ Exact(r.high) /\ Exact(r.signedLow) /\ Exact(r.signedHigh)
    BY <1>2, <1>3 DEF Exact, Words, Signed
  <2> QED BY <2>1, <1>4 DEF BoundsOf, Bound
<1> HIDE DEF a1, a2, a3, a4, s, h, w, B
<1>7. Between(t, r, v) => \A c \in B : HoldsOn(c, inputs) = TRUE
  BY <1>1, <1>2, <1>3, <1>5 DEF Between, Words, Signed, s, h, w
<1>8. w - 1 <= Safe /\ (\A c \in B : HoldsOn(c, inputs) = TRUE) => Between(t, r, v)
  <2> SUFFICES ASSUME w - 1 <= Safe, \A c \in B : HoldsOn(c, inputs) = TRUE
               PROVE  Between(t, r, v)
    OBVIOUS
  <2>1. /\ r.low = 0 \/ v >= r.low
        /\ r.high = w - 1 \/ v <= r.high
        /\ r.signedLow = -h \/ s >= r.signedLow
        /\ r.signedHigh = h - 1 \/ s <= r.signedHigh
    BY <1>1, <1>6
  <2>2. v \in 0 .. w - 1 /\ s \in -h .. h - 1
    BY <1>2 DEF Words, Signed, h, w
  <2>3. v >= r.low /\ v <= r.high /\ s >= r.signedLow /\ s <= r.signedHigh
    BY <1>2, <1>3, <2>1, <2>2 DEF Words, Signed
  <2> QED BY <1>2, <2>2, <2>3 DEF Between, s, Words, Signed
<1> QED BY <1>7, <1>8 DEF B, w

\* That what the analyses say of an integer is so of its value v.
KnownRightly(a, v) ==
  /\ a.type \in IntTypes /\ v \in Words(a.type) /\ a.pointer = {}
  /\ a.ranges \in Ranges(a.type) \cup {Nothing} /\ (a.ranges # Nothing => Between(a.type, a.ranges, v))
  /\ a.bits \in Bits(a.type) \cup {Nothing} /\ (a.bits # Nothing => BitsOf(a.bits, v))

\* A window whose facts are integers' and true of a counterexample is found to be so, and is
\* not tried again with them (facts.ts factsAt, factsHoldOn; windows.ts attempt).
THEOREM TrueFactsAreHeld ==
  ASSUME NEW about, NEW inputs,
         \A k \in DOMAIN about : about[k].defined = TRUE =>
           inputs[k].type = about[k].type /\ KnownRightly(about[k], inputs[k].value)
  PROVE  FactsHoldOn(inputs, FactsAt(about), {})
<1> SUFFICES ASSUME NEW attr \in FactsAt(about) PROVE AttrHolds(attr, inputs)
  BY DEF FactsHoldOn
<1>1. PICK k \in DOMAIN about :
        /\ about[k].defined = TRUE
        /\ attr \in {Attr(k, "noundef", Nothing)} \cup RangeAttrs(k, about[k]) \cup PointerAttrs(k, about[k])
  BY DEF FactsAt
<1> DEFINE a == about[k]  v == inputs[k].value
<1>2. inputs[k].type = a.type /\ KnownRightly(a, v)
  BY <1>1
<1>3. v # Nothing
  BY <1>2, FactsAssumption, HalfIs DEF KnownRightly, Words
<1>4. CASE attr = Attr(k, "noundef", Nothing)
  <2>1. attr.on = k /\ attr.name = "noundef"
    BY <1>4 DEF Attr
  <2> QED BY <2>1, <1>3 DEF AttrHolds
<1>5. CASE attr \in RangeAttrs(k, a)
  <2> DEFINE says == RangeOf(a.type, a.ranges, a.bits)
  <2>1. says # Nothing /\ attr = Attr(k, "range", says)
    BY <1>5 DEF RangeAttrs
  <2>2. InRange(a.type, says, v)
    BY <2>1, <1>2, RangesAreTrue DEF KnownRightly
  <2> HIDE DEF says, a
  <2>3. attr.on = k /\ attr.name = "range" /\ attr.says = says
    BY <2>1 DEF Attr
  <2>4. a.type \in IntTypes
    BY <1>2 DEF KnownRightly
  <2> QED BY <2>2, <2>3, <2>4, <1>2, <1>3 DEF AttrHolds
<1>6. PointerAttrs(k, a) = {}
  BY <1>2 DEF PointerAttrs, KnownRightly
<1> QED BY <1>1, <1>4, <1>5, <1>6

\* What a cut is told of integers that the analyses know rightly is true of them, as far as a
\* comparison can tell it, and is found to be (facts.ts cutFacts, factsHoldOn).
THEOREM CutsAreToldTrue ==
  ASSUME NEW about, NEW inputs,
         \A k \in DOMAIN about : about[k].defined = TRUE =>
           inputs[k] = [type |-> about[k].type, value |-> inputs[k].value] /\ KnownRightly(about[k], inputs[k].value)
  PROVE  \A c \in CutPredicates(about) : c.op = "bits" \/ PredicateHolds(c, inputs)
<1> SUFFICES ASSUME NEW c \in CutPredicates(about), c.op # "bits" PROVE PredicateHolds(c, inputs)
  OBVIOUS
<1>1. PICK k \in DOMAIN about : about[k].defined = TRUE /\ c \in PredicatesOf(about[k], k)
  BY DEF CutPredicates
<1> DEFINE a == about[k]  v == inputs[k].value
<1>2. inputs[k] = [type |-> a.type, value |-> v] /\ KnownRightly(a, v)
  BY <1>1
<1>3. c \in BoundsOf(a.type, k, a.ranges)
  BY <1>1 DEF PredicatesOf, KnownOf, Compares
<1>4. a.ranges \in Ranges(a.type) /\ a.type \in IntTypes /\ v \in Words(a.type) /\ Between(a.type, a.ranges, v)
  BY <1>2, <1>3 DEF BoundsOf, KnownRightly
<1>5. HoldsOn(c, inputs) = TRUE
  <2> HIDE DEF a, v
  <2> QED BY <1>2, <1>3, <1>4, BoundsSayTheRange
<1>6. Exact(c.rhs.is) /\ ~c.rhs.arg
  BY <1>3 DEF BoundsOf, Bound, Compares, Lit
<1> QED BY <1>5, <1>6 DEF PredicateHolds

\* A predicate that is a comparison.
IsComparison(c) ==
  /\ c = Compares(c.op, c.lhs, c.rhs) /\ c.op # "bits"
  /\ c.rhs = Arg(c.rhs.is) \/ c.rhs = Lit(c.rhs.is)

\* What a goal assumes of its parameters and a cut inside it passes on says the same of what
\* is passed: renaming neither turns a comparison round nor makes one up (facts.ts passedOn).
THEOREM PassedOnSayTheSame ==
  ASSUME NEW predicates, \A c \in predicates : IsComparison(c) \/ c.op = "bits",
         NEW at, NEW inputs, NEW passed, \A k \in DOMAIN at : passed[at[k]] = inputs[k],
         NEW d \in PassedOn(predicates, at), d.op # "bits"
  PROVE  \E c \in predicates :
           /\ IsComparison(c) /\ d.op = c.op /\ d.lhs = at[c.lhs]
           /\ HoldsOn(d, passed) = HoldsOn(c, inputs)
<1> DEFINE Passes(c) == c.lhs \in DOMAIN at /\ (c.op # "bits" /\ c.rhs.arg => c.rhs.is \in DOMAIN at)
           As(c) == [c EXCEPT !.lhs = at[@], !.rhs = IF c.op # "bits" /\ c.rhs.arg THEN Arg(at[c.rhs.is]) ELSE @]
<1>1. PICK c \in predicates : Passes(c) /\ d = As(c)
  BY DEF PassedOn
<1>2. IsComparison(c)
  <2> SUFFICES ASSUME c.op = "bits", c.op # d.op PROVE FALSE
    BY <1>1
  <2>1. As(c).op = c.op \/ "op" \notin DOMAIN c
    OBVIOUS
  <2> QED BY <1>1, <2>1
<1>3. d = Compares(c.op, at[c.lhs], IF c.rhs.arg THEN Arg(at[c.rhs.is]) ELSE c.rhs)
  BY <1>1, <1>2 DEF IsComparison, Compares
<1>4. /\ d.op = c.op /\ d.lhs = at[c.lhs]
      /\ d.rhs = IF c.rhs.arg THEN Arg(at[c.rhs.is]) ELSE c.rhs
  BY <1>3 DEF Compares
<1>5. passed[d.lhs] = inputs[c.lhs]
  BY <1>1, <1>4
<1>6. Read(passed, d.rhs) = Read(inputs, c.rhs)
  BY <1>1, <1>2, <1>4 DEF Read, Arg, Lit, IsComparison
<1>7. HoldsOn(d, passed) = HoldsOn(c, inputs)
  BY <1>4, <1>5, <1>6 DEF HoldsOn
<1> QED BY <1>2, <1>4, <1>7

\* A subset is smaller.
LEMMA FewerThan ==
  ASSUME NEW S, IsFiniteSet(S), NEW T \in SUBSET S
  PROVE  /\ Cardinality(S) \in Nat /\ Cardinality(T) \in Nat
         /\ Cardinality(T) <= Cardinality(S)
         /\ T # S => Cardinality(T) < Cardinality(S)
<1>1. IsFiniteSet(T) /\ Cardinality(T) <= Cardinality(S) /\ (Cardinality(S) = Cardinality(T) => S = T)
  BY FS_Subset
<1>2. Cardinality(S) \in Nat /\ Cardinality(T) \in Nat
  BY <1>1, FS_CardinalityType
<1> QED BY <1>1, <1>2

\* Each time a loop is asked to keep a contract it does not keep all of, it is asked for less
\* next, noundef put back and all, so the asking ends (loops.ts strengthenLoop).
THEOREM LoopKeepsLess ==
  ASSUME NEW K, IsContract(K), NEW H, IsContract(H), PreviewOf(K, H), H # K
  PROVE  IsContract(KeepNext(K, H)) /\ Size(KeepNext(K, H)) < Size(K)
<1> DEFINE A == K.attrs  N == K.predicates  kept == H.attrs  lost == NoundefLost(K, H)
<1>1. kept \subseteq A /\ H.predicates \subseteq N /\ lost \subseteq A
  BY DEF PreviewOf, NoundefLost
<1>2. KeepNext(K, H).attrs = kept \cup lost /\ KeepNext(K, H).predicates = H.predicates
  BY DEF KeepNext
<1>3. kept # A \/ H.predicates # N
  BY DEF IsContract
<1>4. kept # A => kept \cup lost # A
  <2> SUFFICES ASSUME NEW a \in A, a \notin kept PROVE \E e \in A : e \notin kept \cup lost
    BY <1>1
  <2>1. AttrsOf(K, a.on) \cap kept = {}
    <3> SUFFICES ASSUME NEW e \in AttrsOf(K, a.on), e \in kept PROVE FALSE
      OBVIOUS
    <3>1. e.on = a.on
      BY DEF AttrsOf
    <3>2. AttrsOf(K, a.on) \subseteq kept
      BY <3>1 DEF PreviewOf
    <3> QED BY <3>2 DEF AttrsOf
  <2>2. CASE a \notin lost
    BY <2>2
  <2>3. CASE a \in lost
    <3>1. AttrsOf(K, a.on) # {a} /\ a \in AttrsOf(K, a.on)
      BY <2>3 DEF NoundefLost, AttrsOf
    <3>2. PICK e \in AttrsOf(K, a.on) : e # a
      BY <3>1
    <3>3. CASE e \notin lost
      BY <3>2, <3>3, <2>1 DEF AttrsOf
    <3>4. CASE e \in lost
      BY <2>3, <3>2, <3>4 DEF NoundefLost, AttrsOf, IsContract
    <3> QED BY <3>3, <3>4
  <2> QED BY <2>2, <2>3
<1>5. /\ Cardinality(A) \in Nat /\ Cardinality(kept \cup lost) \in Nat
      /\ Cardinality(kept \cup lost) <= Cardinality(A)
      /\ kept \cup lost # A => Cardinality(kept \cup lost) < Cardinality(A)
  BY <1>1, FewerThan DEF IsContract
<1>6. /\ Cardinality(N) \in Nat /\ Cardinality(H.predicates) \in Nat
      /\ Cardinality(H.predicates) <= Cardinality(N)
      /\ H.predicates # N => Cardinality(H.predicates) < Cardinality(N)
  BY <1>1, FewerThan DEF IsContract
<1>7. IsContract(KeepNext(K, H))
  <2>1. IsFiniteSet(kept \cup lost) /\ IsFiniteSet(H.predicates)
    BY <1>1, FS_Subset DEF IsContract
  <2>2. KeepNext(K, H) = [attrs |-> kept \cup lost, predicates |-> H.predicates]
    BY DEF KeepNext, IsContract
  <2>3. \A a, b \in kept \cup lost : a.on = b.on /\ a.name = b.name => a = b
    BY <1>1 DEF IsContract
  <2> HIDE DEF A, N, kept, lost
  <2> QED BY <2>1, <2>2, <2>3 DEF IsContract
<1> HIDE DEF A, N, kept, lost
<1>8. Size(KeepNext(K, H)) = Cardinality(kept \cup lost) + Cardinality(H.predicates)
      /\ Size(K) = Cardinality(A) + Cardinality(N)
  BY <1>2 DEF Size, A, N
<1>9. Size(KeepNext(K, H)) < Size(K)
  BY <1>3, <1>4, <1>5, <1>6, <1>8
<1> QED BY <1>7, <1>9

\* What two contracts state together is a contract, one attribute of a name for a parameter,
\* and so is what a preview holds with the noundef it lost (facts.ts union, holding).
THEOREM ContractsStayContracts ==
  ASSUME NEW K, IsContract(K)
  PROVE  /\ \A L : IsContract(L) => IsContract(Union(K, L))
         /\ \A H, again : IsContract(H) /\ PreviewOf(K, H) /\ again \subseteq NoundefLost(K, H)
              => IsContract(Holding(H, again))
<1>1. ASSUME NEW L, IsContract(L) PROVE IsContract(Union(K, L))
  <2> DEFINE mine == {a \in K.attrs : AttrsOf(L, a.on) = {}}
             attrs == mine \cup L.attrs  both == K.predicates \cup L.predicates
  <2>1. IsFiniteSet(attrs) /\ IsFiniteSet(both)
    BY <1>1, FS_Subset, FS_Union DEF IsContract
  <2>2. \A a, b \in attrs : a.on = b.on /\ a.name = b.name => a = b
    BY <1>1 DEF IsContract, AttrsOf
  <2>3. Union(K, L) = [attrs |-> attrs, predicates |-> both]
    BY DEF Union
  <2> HIDE DEF attrs, both
  <2> QED BY <2>1, <2>2, <2>3 DEF IsContract
<1>2. ASSUME NEW H, NEW again, IsContract(H), PreviewOf(K, H), again \subseteq NoundefLost(K, H)
      PROVE  IsContract(Holding(H, again))
  <2> DEFINE attrs == H.attrs \cup again
  <2>1. attrs \subseteq K.attrs
    BY <1>2 DEF PreviewOf, NoundefLost
  <2>2. IsFiniteSet(attrs) /\ IsFiniteSet(H.predicates)
    BY <1>2, <2>1, FS_Subset DEF IsContract
  <2>3. \A a, b \in attrs : a.on = b.on /\ a.name = b.name => a = b
    BY <2>1 DEF IsContract
  <2>4. Holding(H, again) = [attrs |-> attrs, predicates |-> H.predicates]
    BY <1>2 DEF Holding, IsContract
  <2> HIDE DEF attrs
  <2> QED BY <2>2, <2>3, <2>4 DEF IsContract
<1> QED BY <1>1, <1>2

Counters == [start : Int \cup {Nothing}, step : Int \ {0}]

\* The doublings are within the budget, and of a power of two.
LEMMA DoublingsWithin ==
  ASSUME NEW budget \in Nat, NEW r \in Int
  PROVE  /\ Doublings(r, budget) \in 0 .. budget
         /\ Doublings(r, budget) # 0 => r # 0 /\ 2^Doublings(r, budget) = Abs(r)
<1>1. CASE \E n \in 0 .. budget : r # 0 /\ 2^n = Abs(r)
  BY <1>1 DEF Doublings
<1>2. CASE ~\E n \in 0 .. budget : r # 0 /\ 2^n = Abs(r)
  BY <1>2 DEF Doublings
<1> QED BY <1>1, <1>2

\* What a multiple is.
LEMMA TimesIs ==
  ASSUME NEW n \in Int, NEW of \in Int, IsMultiple(n, of)
  PROVE  Times(n, of) \in Nat \ {0} /\ n = Times(n, of) * of
<1> Abs(n) \in Nat
  BY DEF Abs
<1> QED BY DEF Times, IsMultiple

\* What a ratio says of the steps of two counters.
LEMMA RatioIs ==
  ASSUME NEW src \in Counters, NEW tgt \in Counters
  PROVE  /\ Ratio(src, tgt) \in Int
         /\ Ratio(src, tgt) > 0 => tgt.step = Ratio(src, tgt) * src.step
         /\ Ratio(src, tgt) < 0 => src.step = (-Ratio(src, tgt)) * tgt.step
<1>1. src.step \in Int /\ tgt.step \in Int
  BY DEF Counters
<1>2. CASE IsMultiple(tgt.step, src.step)
  BY <1>1, <1>2, TimesIs DEF Ratio
<1>3. CASE ~IsMultiple(tgt.step, src.step) /\ IsMultiple(src.step, tgt.step)
  <2>1. Ratio(src, tgt) = -Times(src.step, tgt.step)
    BY <1>3 DEF Ratio
  <2>2. Times(src.step, tgt.step) \in Nat \ {0} /\ src.step = Times(src.step, tgt.step) * tgt.step
    BY <1>1, <1>3, TimesIs
  <2> QED BY <2>1, <2>2
<1>4. CASE ~IsMultiple(tgt.step, src.step) /\ ~IsMultiple(src.step, tgt.step)
  BY <1>4 DEF Ratio
<1> QED BY <1>2, <1>3, <1>4

\* The unfolds of a loop are within the budget, and those of its iteration make the two sides
\* count alike (loops.ts unfoldToMatch).
THEOREM UnfoldsMatchTheSteps ==
  ASSUME NEW S, NEW mine \in [S -> Counters \cup {Nothing}], NEW theirs \in [S -> Counters \cup {Nothing}],
         NEW budget \in Nat, NEW k \in Counted(mine, theirs)
  PROVE  LET u == UnfoldToMatch(mine, theirs, budget)
         IN  /\ u.callee + u.outer <= budget
             /\ u.callee # 0 =>
                  IF u.calleeOfSrc THEN theirs[k].step = 2^u.callee * mine[k].step
                  ELSE mine[k].step = 2^u.callee * theirs[k].step
<1> DEFINE both == Counted(mine, theirs)
           ratios == {Ratio(mine[j], theirs[j]) : j \in both}
           gaps == UNION {Behind(mine[j], theirs[j]) : j \in both}
           r == Agreed(ratios)  d == Agreed(gaps)  n == Doublings(r, budget)
           u == UnfoldToMatch(mine, theirs, budget)
           m == mine[k]  t == theirs[k]
<1>1. u.callee = n /\ u.calleeOfSrc = (r > 0) /\ u.outer = IF Abs(d) <= budget - n THEN Abs(d) ELSE 0
  BY DEF UnfoldToMatch
<1>2. \A j \in both : mine[j] \in Counters /\ theirs[j] \in Counters
  BY DEF Counted
<1>3. ratios \subseteq Int
  BY <1>2, RatioIs
<1>4. gaps \subseteq Int
  BY <1>2 DEF Behind
<1>5. \A A \in SUBSET Int : Agreed(A) \in Int /\ (Agreed(A) # 0 => A = {Agreed(A)})
  <2> SUFFICES ASSUME NEW A \in SUBSET Int PROVE Agreed(A) \in Int /\ (Agreed(A) # 0 => A = {Agreed(A)})
    OBVIOUS
  <2>1. CASE \E i \in A : A = {i}
    BY <2>1 DEF Agreed
  <2>2. CASE ~\E i \in A : A = {i}
    BY <2>2 DEF Agreed
  <2> QED BY <2>1, <2>2
<1>6. r \in Int /\ d \in Int /\ (r # 0 => Ratio(m, t) = r)
  <2>1. Ratio(m, t) \in ratios
    OBVIOUS
  <2> HIDE DEF ratios, gaps
  <2> QED BY <2>1, <1>3, <1>4, <1>5
<1>7. m \in Counters /\ t \in Counters
  BY <1>2
<1> HIDE DEF both, ratios, gaps, r, d, n, u, m, t
<1>8. n \in 0 .. budget /\ (n # 0 => r # 0 /\ 2^n = Abs(r))
  BY <1>6, DoublingsWithin DEF n
<1>9. u.callee + u.outer <= budget
  BY <1>1, <1>6, <1>8 DEF Abs
<1>10. ASSUME n # 0
       PROVE  IF r > 0 THEN t.step = 2^n * m.step ELSE m.step = 2^n * t.step
  <2>1. 2^n = Abs(r) /\ (r > 0 => Abs(r) = r) /\ (r < 0 => Abs(r) = -r)
    BY <1>8, <1>10, <1>6 DEF Abs
  <2>2. r # 0
    BY <1>8, <1>10
  <2>3. CASE r > 0
    BY <2>1, <2>3, <1>6, <1>7, RatioIs
  <2>4. CASE r < 0
    BY <2>1, <2>4, <1>6, <1>7, RatioIs
  <2> QED BY <2>2, <2>3, <2>4, <1>6
<1> QED BY <1>1, <1>9, <1>10 DEF u, n, m, t

=============================================================================
