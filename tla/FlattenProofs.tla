----------------------------- MODULE FlattenProofs -----------------------------
(***************************************************************************)
(* Least numbers, and what sequences put end to end come to: what the      *)
(* proofs about logs and about programs both need.                         *)
(***************************************************************************)
EXTENDS Integers, Sequences, SequencesExt, SequenceTheorems, WellFoundedInduction, TLAPS

-----------------------------------------------------------------------------
(* Least numbers, and sequences put end to end.                            *)

\* A set of numbers has a least one.
LEMMA LeastNat ==
  ASSUME NEW T, T \subseteq Nat, T # {}
  PROVE  \E x \in T : \A y \in T : x <= y
<1> DEFINE R == OpToRel(<, Nat)
<1>1. IsWellFoundedOn(R, Nat)
  BY NatLessThanWellFounded
<1>2. \A x, y \in Nat : y < x => <<y, x>> \in R
  BY DEF OpToRel
<1> HIDE DEF R
<1>3. PICK x \in T : \A y \in T : ~ (<<y, x>> \in R)
  BY <1>1, WFMin, Zenon
<1>4. \A y \in T : ~ (y < x)
  BY <1>2, <1>3
<1> QED
  BY <1>4

(* f holds, at each i, the first i of the sequences of s put end to end. *)
Joins(f, s) == f = [i \in 1..Len(s) |-> IF i = 1 THEN s[i] ELSE f[i - 1] \o s[i]]

\* There is such an f ...
LEMMA JoinsExists ==
  ASSUME NEW S, NEW s \in Seq(Seq(S))
  PROVE  \E f : Joins(f, s)
<1> DEFINE Up(f, n) == f = [i \in 1..n |-> IF i = 1 THEN s[i] ELSE f[i - 1] \o s[i]]
           T == {n \in Nat : ~ \E f : Up(f, n)}
<1>0. Len(s) \in Nat
  OBVIOUS
<1>1. SUFFICES T = {}
  BY <1>0 DEF Joins
<1>2. SUFFICES ASSUME T # {} PROVE FALSE
  OBVIOUS
<1>3. PICK m \in T : \A y \in T : m <= y
  <2>1. T \subseteq Nat
    OBVIOUS
  <2> HIDE DEF T
  <2> QED BY <1>2, <2>1, LeastNat
<1>4. m # 0
  <2>1. Up(<<>>, 0)
    OBVIOUS
  <2> QED BY <2>1
<1>5. m - 1 \in Nat /\ m - 1 \notin T
  <2>1. m \in Nat /\ ~ (m <= m - 1)
    BY <1>3
  <2> HIDE DEF T
  <2> QED BY <1>3, <1>4, <2>1
<1>6. PICK f : Up(f, m - 1)
  BY <1>5
<1> DEFINE g == [i \in 1..m |-> IF i = 1 THEN s[i] ELSE f[i - 1] \o s[i]]
<1>7. \A i \in 1..(m - 1) : f[i] = (IF i = 1 THEN s[i] ELSE f[i - 1] \o s[i])
  BY <1>6
<1>8. \A i \in 1..(m - 1) : g[i] = f[i]
  BY <1>7
<1>9. \A i \in 1..m : i # 1 => g[i - 1] = f[i - 1]
  <2>1. \A i \in 1..m : i # 1 => i - 1 \in 1..(m - 1)
    BY <1>3
  <2> HIDE DEF g
  <2> QED BY <1>8, <2>1
<1>10. g = [i \in 1..m |-> IF i = 1 THEN s[i] ELSE g[i - 1] \o s[i]]
  <2>1. \A i \in 1..m : (IF i = 1 THEN s[i] ELSE f[i - 1] \o s[i])
                          = (IF i = 1 THEN s[i] ELSE g[i - 1] \o s[i])
    BY <1>9
  <2> HIDE <1>9
  <2> QED BY <2>1
<1> QED
  BY <1>3, <1>10

\* ... and only one, whose values are sequences.
LEMMA JoinsUnique ==
  ASSUME NEW S, NEW s \in Seq(Seq(S)), NEW f, Joins(f, s), NEW g, Joins(g, s)
  PROVE  f = g /\ \A i \in 1..Len(s) : f[i] \in Seq(S)
<1> DEFINE T == {i \in 1..Len(s) : f[i] # g[i] \/ f[i] \notin Seq(S)}
<1>0. Len(s) \in Nat /\ \A i \in 1..Len(s) : s[i] \in Seq(S)
  OBVIOUS
<1>1. /\ f = [i \in 1..Len(s) |-> IF i = 1 THEN s[i] ELSE f[i - 1] \o s[i]]
      /\ g = [i \in 1..Len(s) |-> IF i = 1 THEN s[i] ELSE g[i - 1] \o s[i]]
  BY DEF Joins
<1>2. \A i \in 1..Len(s) : /\ f[i] = (IF i = 1 THEN s[i] ELSE f[i - 1] \o s[i])
                           /\ g[i] = (IF i = 1 THEN s[i] ELSE g[i - 1] \o s[i])
  BY <1>1
<1>3. T = {}
  <2> SUFFICES ASSUME T # {} PROVE FALSE
    OBVIOUS
  <2>1. T \subseteq Nat
    BY <1>0
  <2>2. PICK m \in T : \A y \in T : m <= y
    <3> HIDE DEF T
    <3> QED BY <2>1, LeastNat
  <2>3. CASE m = 1
    BY <1>0, <1>2, <2>3
  <2>4. CASE m # 1
    <3>1. m - 1 \in 1..Len(s) /\ m - 1 \notin T
      BY <1>0, <2>2, <2>4
    <3>2. f[m - 1] = g[m - 1] /\ f[m - 1] \in Seq(S) /\ s[m] \in Seq(S)
      BY <1>0, <3>1
    <3>3. f[m] = f[m - 1] \o s[m] /\ g[m] = f[m]
      BY <1>2, <2>4, <3>2, ZenonT(60)
    <3> QED BY <3>2, <3>3, ConcatProperties
  <2> QED BY <2>3, <2>4
<1>4. \A i \in 1..Len(s) : f[i] = g[i] /\ f[i] \in Seq(S)
  BY <1>3
<1> HIDE DEF T
<1>5. DOMAIN f = 1..Len(s) /\ DOMAIN g = 1..Len(s) /\ f = [i \in DOMAIN f |-> f[i]]
        /\ g = [i \in DOMAIN g |-> g[i]]
  BY <1>1
<1> QED
  BY <1>4, <1>5

\* What sequences put end to end come to: one more goes at the end of them.
LEMMA FlattenIs ==
  ASSUME NEW S, NEW s \in Seq(Seq(S)), s # <<>>
  PROVE  \E f : Joins(f, s) /\ FlattenSeq(s) = f[Len(s)]
<1> DEFINE h == CHOOSE f : Joins(f, s)
<1>1. Joins(h, s)
  BY JoinsExists
<1>2. Len(s) # 0
  BY EmptySeq
<1>3. FlattenSeq(s) = h[Len(s)]
  BY <1>2 DEF FlattenSeq, Joins
<1> QED
  BY <1>1, <1>3

\* One more sequence at the end: its elements come after all the others.
LEMMA FlattenAppend ==
  ASSUME NEW S, NEW s \in Seq(Seq(S)), NEW x \in Seq(S)
  PROVE  /\ FlattenSeq(s) \in Seq(S)
         /\ FlattenSeq(Append(s, x)) = FlattenSeq(s) \o x
<1> DEFINE t == Append(s, x)
<1>0. /\ t \in Seq(Seq(S)) /\ Len(t) = Len(s) + 1 /\ t # <<>> /\ t[Len(s) + 1] = x
      /\ \A i \in 1..Len(s) : t[i] = s[i]
      /\ Len(s) \in Nat
  BY AppendProperties
<1>1. PICK g : Joins(g, t) /\ FlattenSeq(t) = g[Len(t)]
  BY <1>0, FlattenIs
<1> HIDE DEF t
<1>2. g = [i \in 1..Len(t) |-> IF i = 1 THEN t[i] ELSE g[i - 1] \o t[i]]
  BY <1>1 DEF Joins
<1>3. \A i \in 1..Len(t) : g[i] = (IF i = 1 THEN t[i] ELSE g[i - 1] \o t[i])
  BY <1>2
<1>4. CASE s = <<>>
  <2>1. FlattenSeq(s) = <<>>
    BY <1>4 DEF FlattenSeq
  <2>2. FlattenSeq(t) = x
    BY <1>0, <1>1, <1>3, <1>4, EmptySeq
  <2> QED BY <2>1, <2>2, ConcatEmptySeq DEF t
<1>5. CASE s # <<>>
  <2>1. PICK f : Joins(f, s) /\ FlattenSeq(s) = f[Len(s)]
    BY <1>5, FlattenIs
  <2>2. Len(s) \in 1..Len(s)
    BY <1>0, <1>5, EmptySeq
  <2> DEFINE r == [i \in 1..Len(s) |-> g[i]]
  <2>3. \A i \in 1..Len(s) : g[i] = (IF i = 1 THEN s[i] ELSE g[i - 1] \o s[i])
    BY <1>0, <1>3
  <2>4. \A i \in 1..Len(s) : i # 1 => r[i - 1] = g[i - 1]
    BY <1>0
  <2>5. r = [i \in 1..Len(s) |-> IF i = 1 THEN s[i] ELSE r[i - 1] \o s[i]]
    BY <2>3, <2>4
  <2>6. Joins(r, s)
    <3> HIDE DEF r
    <3> QED BY <2>5 DEF Joins
  <2>7. f = r /\ f[Len(s)] \in Seq(S)
    BY <2>1, <2>2, <2>6, JoinsUnique
  <2>8. g[Len(t)] = g[Len(s)] \o x
    <3>1. Len(t) \in 1..Len(t) /\ Len(t) # 1 /\ Len(t) - 1 = Len(s)
      BY <1>0, <2>2
    <3>2. g[Len(t)] = g[Len(t) - 1] \o t[Len(t)]
      BY <1>3, <3>1
    <3> QED BY <1>0, <3>1, <3>2
  <2> QED BY <1>1, <2>1, <2>2, <2>7, <2>8 DEF t
<1> QED
  BY <1>4, <1>5
-----------------------------------------------------------------------------
(* Induction, over sets that hold what is to be shown.                     *)

\* A set with 0 and the next number after each of its own has every number ...
LEMMA NatInduct ==
  ASSUME NEW G, G \subseteq Nat, 0 \in G, \A n \in G : n + 1 \in G
  PROVE  \A n \in Nat : n \in G
<1> SUFFICES ASSUME NEW k \in Nat, k \notin G PROVE FALSE
  OBVIOUS
<1> DEFINE T == Nat \ G
<1>1. T \subseteq Nat /\ T # {}
  OBVIOUS
<1>2. PICK m \in T : \A y \in T : m <= y
  <2> HIDE DEF T
  <2> QED BY <1>1, LeastNat
<1>3. m \in Nat /\ m # 0 /\ m - 1 \in Nat /\ ~ (m <= m - 1)
  BY <1>2
<1>4. m - 1 \in G
  BY <1>2, <1>3
<1> QED
  BY <1>2, <1>3, <1>4

\* One more goes at the end, and leaves what is before it.
LEMMA AppendIs ==
  ASSUME NEW S, NEW c \in Seq(S), NEW x \in S
  PROVE  /\ Append(c, x) \in Seq(S) /\ Len(Append(c, x)) = Len(c) + 1 /\ Len(c) \in Nat
         /\ Append(c, x)[Len(c) + 1] = x
         /\ \A i \in 1..Len(c) : Append(c, x)[i] = c[i]
  BY AppendProperties

\* What is not empty is something with one more.
LEMMA LastApart ==
  ASSUME NEW S, NEW b \in Seq(S), NEW n \in Nat, Len(b) = n + 1
  PROVE  \E c \in Seq(S) : \E x \in S :
           b = Append(c, x) /\ Len(c) = n /\ x = b[n + 1] /\ \A i \in 1..n : c[i] = b[i]
<1> DEFINE c == SubSeq(b, 1, n)
           x == b[n + 1]
<1>1. x \in S /\ \A i \in 1..n : b[i] \in S
  BY ElementOfSeq
<1>2. c \in Seq(S) /\ Len(c) = n /\ \A i \in 1..n : c[i] = b[i]
  BY <1>1, SubSeqProperties
<1> HIDE DEF c
<1>3. Append(c, x) \in Seq(S) /\ Len(Append(c, x)) = n + 1 /\ Append(c, x)[n + 1] = x
      /\ \A i \in 1..n : Append(c, x)[i] = c[i]
  <2> HIDE DEF x
  <2> QED BY <1>1, <1>2, AppendIs
<1>4. \A i \in 1..Len(b) : b[i] = Append(c, x)[i]
  BY <1>2, <1>3
<1>5. b = Append(c, x)
  <2> HIDE DEF x
  <2> QED BY <1>3, <1>4, SeqEqual
<1> QED
  BY <1>1, <1>2, <1>5

\* ... and one with <<>> and each of its own with one more has every sequence.
LEMMA SeqInduct ==
  ASSUME NEW S, NEW G, G \subseteq Seq(S), <<>> \in G,
         \A b \in G, x \in S : Append(b, x) \in G
  PROVE  \A b \in Seq(S) : b \in G
<1> DEFINE N == {n \in Nat : \A b \in Seq(S) : Len(b) = n => b \in G}
<1>1. N \subseteq Nat
  OBVIOUS
<1>2. 0 \in N
  BY EmptySeq
<1>3. ASSUME NEW n \in N PROVE n + 1 \in N
  <2> SUFFICES ASSUME NEW b \in Seq(S), Len(b) = n + 1 PROVE b \in G
    OBVIOUS
  <2>0. n \in Nat
    OBVIOUS
  <2>1. PICK c \in Seq(S) : \E x \in S :
          b = Append(c, x) /\ Len(c) = n /\ x = b[n + 1] /\ \A i \in 1..n : c[i] = b[i]
    <3> HIDE DEF N
    <3> QED BY <2>0, LastApart, Zenon
  <2>2. c \in G
    BY <2>1
  <2> QED BY <2>1, <2>2
<1> HIDE DEF N
<1>4. \A n \in Nat : n \in N
  BY <1>1, <1>2, <1>3, NatInduct
<1> QED
  BY <1>4 DEF N

=============================================================================
