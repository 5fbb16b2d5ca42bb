--------------------------- MODULE GoalTreeProofs ---------------------------
(***************************************************************************)
(* What each effect does to a tree, proved for every tree of goals.          *)
(***************************************************************************)
EXTENDS GoalTree, TLAPS, WellFoundedInduction

-----------------------------------------------------------------------------
(* Least and last numbers.                                                 *)

\* A set of numbers has a least one.
LEMMA NatMin ==
  ASSUME NEW T, T \subseteq Nat, T # {}
  PROVE  \E x \in T : \A y \in T : x <= y
<1> DEFINE R == OpToRel(<, Nat)
<1>1. IsWellFoundedOn(R, Nat)
  BY NatLessThanWellFounded
<1>2. \A x, y \in Nat : y < x => <<y, x>> \in R
  BY DEF OpToRel
<1> HIDE DEF R
<1>3. PICK x \in T : \A y \in T : ~ (<<y, x>> \in R)
  BY <1>1, WFMin, Zenon
<1>4. \A y \in T : ~ (y < x)
  BY <1>2, <1>3
<1> QED
  BY <1>4

\* A bounded set of numbers has a last one.
LEMMA NatMax ==
  ASSUME NEW n \in Nat, NEW T, T \subseteq 1..n, T # {}
  PROVE  \E x \in T : \A y \in T : y <= x
<1> DEFINE U == {n - i : i \in T}
<1>1. \A i \in T : i \in 1..n /\ n - i \in Nat
  OBVIOUS
<1>2. U \subseteq Nat
  BY <1>1
<1>3. U # {}
  OBVIOUS
<1>4. PICK u \in U : \A y \in U : u <= y
  <2> HIDE DEF U
  <2> QED
    BY <1>2, <1>3, NatMin
<1>5. PICK x \in T : u = n - x
  BY <1>4
<1>6. \A y \in T : n - x <= n - y
  BY <1>4, <1>5
<1> QED
  BY <1>1, <1>5, <1>6

\* A program a history holds has a last place in it.
LEMMA LastIndexOfIs ==
  ASSUME NEW h \in Seq(Programs), NEW p, Holds(h, p)
  PROVE  /\ LastIndexOf(h, p) \in 1..Len(h)
         /\ h[LastIndexOf(h, p)] = p
         /\ \A j \in LastIndexOf(h, p) + 1..Len(h) : h[j] # p
<1> DEFINE T == {i \in 1..Len(h) : h[i] = p}
<1>1. Len(h) \in Nat
  OBVIOUS
<1>2. T \subseteq 1..Len(h) /\ T # {}
  BY DEF Holds
<1>3. PICK x \in T : \A y \in T : y <= x
  <2> HIDE DEF T
  <2> QED
    BY <1>1, <1>2, NatMax
<1>4. x \in 1..Len(h) /\ h[x] = p
  OBVIOUS
<1>5. \A j \in x + 1..Len(h) : h[j] # p
  <2> SUFFICES ASSUME NEW j \in x + 1..Len(h), h[j] = p
               PROVE  FALSE
    OBVIOUS
  <2>1. j \in T
    BY <1>1, <1>4
  <2> QED
    BY <2>1, <1>3, <1>4, <1>1
<1>6. \E i \in 1..Len(h) : h[i] = p /\ \A j \in i + 1..Len(h) : h[j] # p
  BY <1>4, <1>5
<1> QED
  BY <1>6 DEF LastIndexOf

-----------------------------------------------------------------------------
(* What an effect leaves alone.                                            *)

\* The goals of G and how they are related, whatever their status and history.
SameGoals(G, H) ==
  /\ DOMAIN H = DOMAIN G
  /\ \A x \in DOMAIN G :
       /\ H[x].parent = G[x].parent
       /\ H[x].role = G[x].role
       /\ H[x].cut = G[x].cut
       /\ H[x].children = G[x].children

LEMMA SameGoalsLinked ==
  ASSUME NEW G, NEW H, SameGoals(G, H), Root \in DOMAIN G, Linked(G)
  PROVE  Linked(H)
BY DEF SameGoals, Linked

\* A change of status changes nothing else.
LEMMA WithStatusIs ==
  ASSUME NEW G, NEW S, NEW status \in Statuses, Typed(G)
  PROVE  LET H == WithStatus(G, S, status)
         IN  /\ Typed(H)
             /\ SameGoals(G, H)
             /\ \A x \in DOMAIN G : H[x].hist = G[x].hist
             /\ \A x \in DOMAIN G : H[x].status = IF x \in S THEN status ELSE G[x].status
<1> DEFINE H == WithStatus(G, S, status)
<1>1. DOMAIN H = DOMAIN G
  BY DEF WithStatus
<1>2. \A x \in DOMAIN G : H[x] = IF x \in S THEN [G[x] EXCEPT !.status = status] ELSE G[x]
  BY DEF WithStatus
<1> HIDE DEF H
<1>3. \A x \in DOMAIN G :
        /\ H[x] \in Goals
        /\ H[x].parent = G[x].parent /\ H[x].role = G[x].role /\ H[x].cut = G[x].cut
        /\ H[x].children = G[x].children /\ H[x].hist = G[x].hist
        /\ H[x].status = IF x \in S THEN status ELSE G[x].status
  BY <1>2 DEF Typed, Goals
<1>4. Typed(H)
  BY <1>1, <1>3 DEF Typed
<1>5. SameGoals(G, H)
  BY <1>1, <1>3 DEF SameGoals
<1> QED
  BY <1>3, <1>4, <1>5 DEF H

\* Reopening a goal changes statuses only: its own to open, and those of the goals above
\* it that its proof settled to split.
LEMMA ReopenedIs ==
  ASSUME NEW G, NEW g \in DOMAIN G, Typed(G)
  PROVE  LET R == Reopened(G, g)
         IN  /\ Typed(R)
             /\ SameGoals(G, R)
             /\ \A x \in DOMAIN G : R[x].hist = G[x].hist
             /\ R[g].status = IF G[g].status = "proved" THEN "open" ELSE G[g].status
             /\ \A x \in DOMAIN G \ {g} :
                  R[x].status = IF G[g].status = "proved" /\ x \in Unsettled(G, g)
                                THEN "split" ELSE G[x].status
<1>1. CASE G[g].status # "proved"
  BY <1>1 DEF Reopened, SameGoals
<1>2. CASE G[g].status = "proved"
  <2> DEFINE H == WithStatus(G, Unsettled(G, g), "split")
             R == WithStatus(H, {g}, "open")
  <2>1. Reopened(G, g) = R
    BY <1>2 DEF Reopened
  <2>2. /\ Typed(H) /\ SameGoals(G, H)
        /\ \A x \in DOMAIN G : H[x].hist = G[x].hist
        /\ \A x \in DOMAIN G : H[x].status = IF x \in Unsettled(G, g) THEN "split" ELSE G[x].status
    BY WithStatusIs DEF Statuses
  <2> HIDE DEF H
  <2>3. /\ Typed(R) /\ SameGoals(H, R)
        /\ \A x \in DOMAIN H : R[x].hist = H[x].hist
        /\ \A x \in DOMAIN H : R[x].status = IF x = g THEN "open" ELSE H[x].status
    BY <2>2, WithStatusIs DEF Statuses
  <2> HIDE DEF R
  <2> QED
    BY <1>2, <2>1, <2>2, <2>3 DEF SameGoals
<1> QED
  BY <1>1, <1>2

-----------------------------------------------------------------------------
(* The effects.                                                            *)

\* H is G with goal g at the histories hist, reopened by the move.
Moved(G, H, g, hist) ==
  /\ Typed(H)
  /\ SameGoals(G, H)
  /\ H[g].hist = hist
  /\ \A x \in DOMAIN G \ {g} : H[x].hist = G[x].hist
  /\ \A x \in DOMAIN G : H[x].status = Reopened(G, g)[x].status

\* A new history of one side of a goal reopens the goal and changes nothing else.
LEMMA WithHistoryIs ==
  ASSUME NEW G, NEW g \in DOMAIN G, NEW side \in Sides, NEW h \in Seq(Programs), h # <<>>,
         Typed(G)
  PROVE  Moved(G, WithHistory(G, g, side, h), g, [G[g].hist EXCEPT ![side] = h])
<1> DEFINE R == Reopened(G, g)
           H == WithHistory(G, g, side, h)
<1>1. Typed(R) /\ SameGoals(G, R) /\ \A x \in DOMAIN G : R[x].hist = G[x].hist
  BY ReopenedIs
<1>2. H = [R EXCEPT ![g].hist[side] = h]
  BY DEF WithHistory
<1> HIDE DEF R, H
<1>3. DOMAIN R = DOMAIN G /\ DOMAIN H = DOMAIN G
  BY <1>1, <1>2 DEF SameGoals
<1>4. H[g] = [R[g] EXCEPT !.hist = [R[g].hist EXCEPT ![side] = h]]
  BY <1>2, <1>3
<1>5. \A x \in DOMAIN G \ {g} : H[x] = R[x]
  BY <1>2, <1>3
<1>6. R[g] \in Goals /\ \A x \in DOMAIN G : R[x] \in Goals
  BY <1>1, <1>3 DEF Typed
<1>7. [R[g].hist EXCEPT ![side] = h] \in [Sides -> Seq(Programs)]
  BY <1>6 DEF Goals
<1>8. /\ H[g] \in Goals
      /\ H[g].parent = R[g].parent /\ H[g].role = R[g].role /\ H[g].cut = R[g].cut
      /\ H[g].children = R[g].children /\ H[g].status = R[g].status
      /\ H[g].hist = [R[g].hist EXCEPT ![side] = h]
  BY <1>4, <1>6, <1>7 DEF Goals
<1>9. \A s \in Sides : H[g].hist[s] # <<>>
  BY <1>1, <1>3, <1>6, <1>8 DEF Typed, Goals
<1>10. Typed(H)
  BY <1>1, <1>3, <1>5, <1>8, <1>9, ZenonT(60) DEF Typed
<1>11. SameGoals(G, H)
  BY <1>1, <1>3, <1>5, <1>8 DEF SameGoals
<1> QED
  BY <1>1, <1>3, <1>5, <1>8, <1>10, <1>11 DEF R, H, Moved

\* A step puts one program at the end of a history.
LEMMA SteppedIs ==
  ASSUME NEW G, NEW g \in DOMAIN G, NEW side \in Sides, NEW to \in Programs, Typed(G)
  PROVE  Moved(G, Stepped(G, g, side, to), g,
               [G[g].hist EXCEPT ![side] = Append(G[g].hist[side], to)])
<1> DEFINE k == Append(G[g].hist[side], to)
<1>1. G[g].hist[side] \in Seq(Programs)
  BY DEF Typed, Goals
<1>2. k \in Seq(Programs) /\ k # <<>>
  BY <1>1
<1> HIDE DEF k
<1>3. Moved(G, WithHistory(G, g, side, k), g, [G[g].hist EXCEPT ![side] = k])
  BY <1>2, WithHistoryIs
<1> QED
  BY <1>3 DEF k, Stepped

\* A revert takes a history back to the last place it held the program.
LEMMA RevertedIs ==
  ASSUME NEW G, NEW g \in DOMAIN G, NEW side \in Sides, NEW to, Typed(G),
         Holds(G[g].hist[side], to)
  PROVE  Moved(G, Reverted(G, g, side, to), g,
               [G[g].hist EXCEPT ![side] = SubSeq(G[g].hist[side], 1, LastIndexOf(G[g].hist[side], to))])
<1> DEFINE h == G[g].hist[side]
           k == SubSeq(h, 1, LastIndexOf(h, to))
<1>1. h \in Seq(Programs)
  BY DEF Typed, Goals
<1>2. LastIndexOf(h, to) \in 1..Len(h)
  <2> HIDE DEF h
  <2> QED
    BY <1>1, LastIndexOfIs DEF h
<1>3. k \in Seq(Programs) /\ k # <<>>
  <2> HIDE DEF h
  <2> QED
    BY <1>1, <1>2
<1> HIDE DEF k
<1>4. Moved(G, WithHistory(G, g, side, k), g, [G[g].hist EXCEPT ![side] = k])
  BY <1>3, WithHistoryIs
<1> QED
  BY <1>4 DEF Reverted, k

\* A strengthen puts one program at the end of both histories.
LEMMA StrengthenedIs ==
  ASSUME NEW G, NEW g \in DOMAIN G, NEW src \in Programs, NEW tgt \in Programs, Typed(G),
         Workable(G, g)
  PROVE  Moved(G, Strengthened(G, g, src, tgt), g,
               [s \in Sides |-> Append(G[g].hist[s], IF s = "src" THEN src ELSE tgt)])
<1> DEFINE M == Stepped(G, g, "src", src)
           H == Stepped(M, g, "tgt", tgt)
<1>1. "src" \in Sides /\ "tgt" \in Sides
  BY DEF Sides
<1>2. Moved(G, M, g, [G[g].hist EXCEPT !["src"] = Append(G[g].hist["src"], src)])
  BY <1>1, SteppedIs
<1> HIDE DEF M
<1>3. DOMAIN M = DOMAIN G /\ Typed(M)
  BY <1>2 DEF Moved, SameGoals
<1>4. M[g].status # "proved"
  BY <1>2, ReopenedIs DEF Workable, Moved
<1>5. Moved(M, H, g, [M[g].hist EXCEPT !["tgt"] = Append(M[g].hist["tgt"], tgt)])
  BY <1>1, <1>3, SteppedIs
<1>6. Reopened(M, g) = M
  BY <1>4 DEF Reopened
<1>7. G[g].hist \in [Sides -> Seq(Programs)]
  BY DEF Typed, Goals
<1>8. SameGoals(G, H)
  BY <1>2, <1>5 DEF SameGoals, Moved
<1>9. H[g].hist = [s \in Sides |-> Append(G[g].hist[s], IF s = "src" THEN src ELSE tgt)]
  <2> DEFINE old == G[g].hist
             mid == [old EXCEPT !["src"] = Append(old["src"], src)]
  <2>1. H[g].hist = [mid EXCEPT !["tgt"] = Append(mid["tgt"], tgt)]
    BY <1>2, <1>5 DEF Moved
  <2> HIDE DEF old
  <2>2. old \in [Sides -> Seq(Programs)]
    BY <1>7 DEF old
  <2>3. [mid EXCEPT !["tgt"] = Append(mid["tgt"], tgt)]
        = [s \in Sides |-> Append(old[s], IF s = "src" THEN src ELSE tgt)]
    BY <2>2 DEF Sides
  <2> QED
    BY <2>1, <2>3 DEF old
<1>10. Strengthened(G, g, src, tgt) = H
  BY DEF Strengthened, M
<1> HIDE DEF H
<1>11. /\ \A x \in DOMAIN G \ {g} : H[x].hist = G[x].hist
       /\ \A x \in DOMAIN G : H[x].status = Reopened(G, g)[x].status
  BY <1>2, <1>3, <1>5, <1>6 DEF Moved
<1> QED
  BY <1>5, <1>8, <1>9, <1>10, <1>11 DEF Moved

\* A goal with more children is the same goal, split.
LEMMA WithKidsIs ==
  ASSUME NEW goal \in Goals, NEW kids \in SUBSET Nat
  PROVE  LET w == WithKids(goal, kids)
         IN  /\ w \in Goals
             /\ w.status = "split" /\ w.children = goal.children \cup kids
             /\ w.parent = goal.parent /\ w.role = goal.role /\ w.cut = goal.cut
             /\ w.hist = goal.hist
BY DEF WithKids, Goals, Statuses

\* H is G with the two goals under g.
SplitOf(G, H, g, id, first, second) ==
  /\ Typed(H)
  /\ Linked(H)
  /\ DOMAIN H = DOMAIN G \cup {id, id + 1}
  /\ H[id] = first /\ H[id + 1] = second
  /\ H[g] = WithKids(Reopened(G, g)[g], {id, id + 1})
  /\ \A x \in DOMAIN G \ {g} : H[x] = Reopened(G, g)[x]

\* Two new goals under g, with the next two ids, leave a tree.
LEMMA SplitIs ==
  ASSUME NEW G, NEW g \in DOMAIN G, NEW id \in Nat, NEW first \in Goals, NEW second \in Goals,
         Typed(G), Linked(G),
         \A x \in DOMAIN G : x < id,
         \A n \in {first, second} :
           n.parent = g /\ n.children = {} /\ \A s \in Sides : n.hist[s] # <<>>
  PROVE  SplitOf(G, Split(G, g, id, first, second), g, id, first, second)
<1> DEFINE R == Reopened(G, g)
           H == Split(G, g, id, first, second)
<1>1. Typed(R) /\ SameGoals(G, R)
  BY ReopenedIs
<1>2. /\ DOMAIN H = DOMAIN G \cup {id, id + 1}
      /\ \A x \in DOMAIN H :
           H[x] = IF x = id THEN first
                  ELSE IF x = id + 1 THEN second
                  ELSE IF x = g THEN WithKids(R[g], {id, id + 1})
                  ELSE R[x]
  BY DEF Split
<1> HIDE DEF R, H
<1>3. /\ DOMAIN R = DOMAIN G
      /\ \A x \in DOMAIN G : R[x].parent = G[x].parent /\ R[x].children = G[x].children
  BY <1>1 DEF SameGoals
<1>4. /\ DOMAIN G \subseteq Nat \ {0} /\ Root \in DOMAIN G
      /\ \A x \in DOMAIN G : R[x] \in Goals
      /\ \A x \in DOMAIN G, s \in Sides : R[x].hist[s] # <<>>
  BY <1>1, <1>3 DEF Typed, NoGoal
<1>5. /\ H[id] = first /\ H[id + 1] = second
      /\ H[g] = WithKids(R[g], {id, id + 1})
      /\ \A x \in DOMAIN G \ {g} : H[x] = R[x]
  <2>1. \A x \in DOMAIN G : x # id /\ x # id + 1
    BY <1>4
  <2>2. id # id + 1
    OBVIOUS
  <2> QED
    BY <2>1, <2>2, <1>2
<1>6. /\ H[g] \in Goals
      /\ H[g].parent = G[g].parent /\ H[g].children = G[g].children \cup {id, id + 1}
      /\ H[g].hist = R[g].hist
  <2>1. R[g] \in Goals /\ {id, id + 1} \in SUBSET Nat
    BY <1>4
  <2> QED
    BY <2>1, <1>3, <1>5, WithKidsIs
<1>7. Typed(H)
  <2>1. Root \in DOMAIN H /\ DOMAIN H \subseteq Nat \ {NoGoal}
    BY <1>2, <1>4 DEF NoGoal, Root
  <2>2. \A x \in DOMAIN H : H[x] \in Goals
    BY <1>2, <1>4, <1>5, <1>6
  <2>3. ASSUME NEW x \in DOMAIN H, NEW s \in Sides PROVE H[x].hist[s] # <<>>
    <3>1. CASE x \in {id, id + 1}
      BY <3>1, <1>5
    <3>2. CASE x \in DOMAIN G
      BY <3>2, <1>4, <1>5, <1>6
    <3> QED
      BY <3>1, <3>2, <1>2
  <2> QED
    BY <2>1, <2>2, <2>3 DEF Typed
<1>8. Linked(H)
  <2>1. g # id /\ g # id + 1 /\ id \notin DOMAIN G /\ id + 1 \notin DOMAIN G /\ Root # id /\ Root # id + 1
    BY <1>4 DEF Root
  <2>2. H[Root].parent = NoGoal
    BY <1>3, <1>4, <1>5, <1>6, <2>1 DEF Linked
  <2>3. ASSUME NEW x \in DOMAIN H \ {Root}
        PROVE  H[x].parent \in DOMAIN H /\ H[x].parent < x /\ x \in H[H[x].parent].children
    <3>1. CASE x \in {id, id + 1}
      <4>1. H[x].parent = g
        BY <3>1, <1>5
      <4>2. g < x /\ g \in DOMAIN H
        BY <3>1, <1>2, <1>4
      <4>3. x \in H[g].children
        BY <3>1, <1>6
      <4> QED
        BY <4>1, <4>2, <4>3
    <3>2. CASE x \in DOMAIN G
      <4>1. H[x].parent = G[x].parent
        BY <3>2, <1>3, <1>5, <1>6
      <4>2. /\ G[x].parent \in DOMAIN G /\ G[x].parent < x
            /\ x \in G[G[x].parent].children
        BY <3>2 DEF Linked
      <4>3. x \in H[G[x].parent].children
        BY <4>2, <1>3, <1>5, <1>6
      <4> QED
        BY <4>1, <4>2, <4>3, <1>2
    <3> QED
      BY <3>1, <3>2, <1>2
  <2>4. ASSUME NEW x \in DOMAIN H, NEW c \in H[x].children
        PROVE  c \in DOMAIN H /\ H[c].parent = x
    <3>1. CASE x \in {id, id + 1}
      BY <3>1, <1>5
    <3>2. CASE x \in DOMAIN G /\ c \in G[x].children
      <4>1. c \in DOMAIN G /\ G[c].parent = x
        BY <3>2 DEF Linked
      <4> QED
        BY <4>1, <1>2, <1>3, <1>5, <1>6
    <3>3. CASE x = g /\ c \in {id, id + 1}
      BY <3>3, <1>2, <1>5
    <3> QED
      BY <3>1, <3>2, <3>3, <1>2, <1>3, <1>5, <1>6
  <2> QED
    BY <2>2, <2>3, <2>4 DEF Linked
<1> QED
  BY <1>2, <1>5, <1>7, <1>8 DEF R, H, SplitOf

-----------------------------------------------------------------------------
(* What is below a goal.                                                   *)

\* The goals with children below g are closed under going down ...
LEMMA InnerBelowClosed ==
  ASSUME NEW G, NEW g
  PROVE  BelowClosed(G, g, InnerBelow(G, g))
BY DEF BelowClosed, InnerBelow

\* ... and the least such set.
LEMMA InnerBelowLeast ==
  ASSUME NEW G, NEW g, NEW S \in SUBSET Inner(G), BelowClosed(G, g, S)
  PROVE  InnerBelow(G, g) \subseteq S
BY DEF InnerBelow

\* What is below a goal is younger than it.
LEMMA BelowYounger ==
  ASSUME NEW G, NEW g \in DOMAIN G, Typed(G), Linked(G)
  PROVE  /\ \A x \in Below(G, g) : x > g
         /\ g \notin Below(G, g)
         /\ Root \notin Below(G, g)
<1> DEFINE S == {a \in Inner(G) : a > g}
<1>1. S \in SUBSET Inner(G)
  OBVIOUS
<1>2. DOMAIN G \subseteq Nat \ {NoGoal}
  BY DEF Typed
<1>3. ASSUME NEW a \in DOMAIN G, G[a].parent \in {g} \cup S
      PROVE  a > g
  <2>1. G[a].parent \in DOMAIN G
    BY <1>3 DEF Inner
  <2>2. a # Root
    BY <2>1, <1>2 DEF Linked
  <2>3. G[a].parent < a
    BY <2>2 DEF Linked
  <2> QED
    BY <1>2, <1>3, <2>1, <2>3
<1>4. BelowClosed(G, g, S)
  BY <1>3 DEF BelowClosed, Inner
<1>5. InnerBelow(G, g) \subseteq S
  BY <1>1, <1>4, InnerBelowLeast
<1>6. \A x \in Below(G, g) : x \in DOMAIN G /\ x > g
  <2> HIDE DEF S
  <2> QED
    BY <1>3, <1>5 DEF Below
<1>7. ~ (Root > g)
  BY <1>2 DEF Root, NoGoal
<1> QED
  BY <1>2, <1>6, <1>7

\* A goal with children that is below g is one of the inner goals below it.
LEMMA InnerOfBelow ==
  ASSUME NEW G, NEW g
  PROVE  /\ InnerBelow(G, g) \subseteq Below(G, g)
         /\ \A x \in Below(G, g) : G[x].children # {} => x \in InnerBelow(G, g)
<1> DEFINE I == InnerBelow(G, g)
           S == {a \in I : G[a].parent \in {g} \cup I}
<1>1. BelowClosed(G, g, I)
  BY InnerBelowClosed
<1>2. I \subseteq Inner(G)
  BY DEF InnerBelow
<1> HIDE DEF I
<1>3. BelowClosed(G, g, S)
  BY <1>1 DEF BelowClosed
<1>4. I \subseteq S
  <2>1. S \in SUBSET Inner(G)
    BY <1>2
  <2> HIDE DEF S
  <2> QED
    BY <2>1, <1>3, InnerBelowLeast DEF I
<1>5. I \subseteq Below(G, g)
  BY <1>2, <1>4 DEF Below, I, Inner
<1>6. \A x \in Below(G, g) : G[x].children # {} => x \in I
  BY <1>1 DEF Below, I, Inner, BelowClosed
<1> QED
  BY <1>5, <1>6 DEF I

\* H is G with nothing below g.
UnsplitOf(G, H, g) ==
  /\ Typed(H)
  /\ Linked(H)
  /\ DOMAIN H = DOMAIN G \ Below(G, g)
  /\ g \in DOMAIN H
  /\ H[g] = [G[g] EXCEPT !.status = "open", !.children = {}]
  /\ \A x \in DOMAIN H \ {g} : H[x] = G[x] /\ G[x].parent # g

\* Undoing a split leaves a tree: g open and alone, and nothing that was below it.
LEMMA UnsplitIs ==
  ASSUME NEW G, NEW g \in DOMAIN G, Typed(G), Linked(G)
  PROVE  UnsplitOf(G, Unsplit(G, g), g)
<1> DEFINE B == Below(G, g)
           H == Unsplit(G, g)
<1>1. g \notin B /\ Root \notin B
  BY BelowYounger
<1>2. /\ DOMAIN H = DOMAIN G \ B
      /\ H[g] = [G[g] EXCEPT !.status = "open", !.children = {}]
      /\ \A x \in DOMAIN H \ {g} : H[x] = G[x]
  BY <1>1 DEF Unsplit
<1>3. \A x \in DOMAIN G : G[x].parent = g => x \in B
  BY DEF Below
<1>4. \A x \in B : G[x].children # {} => \A c \in DOMAIN G : G[c].parent = x => c \in B
  BY InnerOfBelow DEF Below
<1>5. \A x \in DOMAIN G : G[x].children # {} /\ x # g =>
        \A c \in B : G[c].parent = x => x \in B
  BY InnerOfBelow DEF Below
<1> HIDE DEF B, H
<1>6. /\ H[g] \in Goals /\ H[g].parent = G[g].parent /\ H[g].children = {}
      /\ H[g].hist = G[g].hist
  BY <1>2 DEF Typed, Goals, Statuses
<1>7. Typed(H)
  <2>1. Root \in DOMAIN H /\ DOMAIN H \subseteq Nat \ {NoGoal}
    BY <1>1, <1>2 DEF Typed
  <2>2. \A x \in DOMAIN H : H[x] \in Goals
    BY <1>2, <1>6 DEF Typed
  <2>3. ASSUME NEW x \in DOMAIN H, NEW s \in Sides
        PROVE  H[x].hist[s] # <<>>
    <3>1. H[x].hist = G[x].hist /\ x \in DOMAIN G
      BY <1>2, <1>6
    <3> QED
      BY <3>1 DEF Typed
  <2> QED
    BY <2>1, <2>2, <2>3 DEF Typed
<1>8. Linked(H)
  <2>1. H[Root].parent = NoGoal
    BY <1>1, <1>2, <1>6 DEF Linked, Typed
  <2>2. ASSUME NEW x \in DOMAIN H \ {Root}
        PROVE  H[x].parent \in DOMAIN H /\ H[x].parent < x /\ x \in H[H[x].parent].children
    <3>1. H[x].parent = G[x].parent /\ x \in DOMAIN G /\ x \notin B
      BY <1>2, <1>6
    <3>2. /\ G[x].parent \in DOMAIN G /\ G[x].parent < x
          /\ x \in G[G[x].parent].children
      BY <3>1 DEF Linked
    <3>3. G[x].parent # g
      BY <3>1, <1>3
    <3>4. G[x].parent \notin B
      BY <3>1, <3>2, <1>4
    <3> QED
      BY <3>1, <3>2, <3>3, <3>4, <1>2
  <2>3. ASSUME NEW x \in DOMAIN H, NEW c \in H[x].children
        PROVE  c \in DOMAIN H /\ H[c].parent = x
    <3>1. x # g /\ x \in DOMAIN G /\ x \notin B /\ c \in G[x].children
      BY <1>2, <1>6
    <3>2. c \in DOMAIN G /\ G[c].parent = x
      BY <3>1 DEF Linked
    <3>3. c \notin B
      BY <3>1, <3>2, <1>5
    <3> QED
      BY <3>2, <3>3, <1>2, <1>6
  <2> QED
    BY <2>1, <2>2, <2>3 DEF Linked
<1> QED
  BY <1>1, <1>2, <1>3, <1>7, <1>8 DEF B, H, UnsplitOf

-----------------------------------------------------------------------------
(* What a proof settles, and what a touch unsettles.                       *)

\* The goals a proof of g settles are split, hold nothing unproved but g and one another ...
LEMMA SettledIs ==
  ASSUME NEW G, NEW g
  PROVE  \A a \in Settled(G, g) :
           /\ a \in DOMAIN G /\ G[a].status = "split" /\ G[a].children # {}
           /\ \A c \in G[a].children : c = g \/ c \in Settled(G, g) \/ G[c].status = "proved"
<1> DEFINE T == Settled(G, g)
           S == {a \in T : \A c \in G[a].children : c = g \/ c \in T \/ G[c].status = "proved"}
<1>1. T \subseteq WithChildren(G, "split")
  BY DEF Settled
<1>2. SettleClosed(G, g, T)
  BY DEF Settled, SettleClosed
<1>3. \A R \in SUBSET WithChildren(G, "split") : SettleClosed(G, g, R) => T \subseteq R
  BY DEF Settled
<1> HIDE DEF T
<1>4. SettleClosed(G, g, S)
  BY <1>2 DEF SettleClosed
<1>5. S \in SUBSET WithChildren(G, "split")
  BY <1>1
<1>6. T \subseteq S
  <2> HIDE DEF S
  <2> QED
    BY <1>3, <1>4, <1>5
<1> QED
  BY <1>1, <1>6 DEF WithChildren, T

\* ... and no split goal is left that holds nothing unproved but them.
LEMMA SettledAll ==
  ASSUME NEW G, NEW g, NEW a \in DOMAIN G, G[a].status = "split",
         \E c \in G[a].children : c = g \/ c \in Settled(G, g),
         \A c \in G[a].children : c = g \/ c \in Settled(G, g) \/ G[c].status = "proved"
  PROVE  a \in Settled(G, g)
<1>1. SettleClosed(G, g, Settled(G, g))
  BY DEF Settled, SettleClosed
<1>2. a \in WithChildren(G, "split")
  BY DEF WithChildren
<1> QED
  BY <1>1, <1>2 DEF SettleClosed

\* The goals a touch of g unsettles are proved and have g or one another below them ...
LEMMA UnsettledIs ==
  ASSUME NEW G, NEW g \in DOMAIN G, Linked(G), Typed(G)
  PROVE  \A a \in Unsettled(G, g) :
           /\ a \in DOMAIN G /\ G[a].status = "proved" /\ G[a].children # {}
           /\ \E c \in G[a].children : c = g \/ c \in Unsettled(G, g)
<1> DEFINE T == Unsettled(G, g)
           S == {a \in T : G[g].parent = a \/ \E x \in T : G[x].parent = a}
<1>1. T \subseteq WithChildren(G, "proved")
  BY DEF Unsettled
<1>2. UnsettleClosed(G, g, T)
  BY DEF Unsettled, UnsettleClosed
<1>3. \A R \in SUBSET WithChildren(G, "proved") : UnsettleClosed(G, g, R) => T \subseteq R
  BY DEF Unsettled
<1> HIDE DEF T
<1>4. UnsettleClosed(G, g, S)
  BY <1>2 DEF UnsettleClosed
<1>5. S \in SUBSET WithChildren(G, "proved")
  BY <1>1
<1>6. T \subseteq S
  <2> HIDE DEF S
  <2> QED
    BY <1>3, <1>4, <1>5
<1>7. \A x \in DOMAIN G : G[x].parent \in DOMAIN G => x \in G[G[x].parent].children
  BY DEF Linked, Typed
<1> QED
  BY <1>1, <1>6, <1>7 DEF WithChildren, T

\* ... and no proved goal is left that has.
LEMMA UnsettledAll ==
  ASSUME NEW G, NEW g, NEW a \in DOMAIN G, G[a].status = "proved", Linked(G),
         NEW c \in G[a].children, c = g \/ c \in Unsettled(G, g)
  PROVE  a \in Unsettled(G, g)
<1>1. UnsettleClosed(G, g, Unsettled(G, g))
  BY DEF Unsettled, UnsettleClosed
<1>2. a \in WithChildren(G, "proved")
  BY DEF WithChildren
<1>3. G[c].parent = a
  BY DEF Linked
<1> QED
  BY <1>1, <1>2, <1>3 DEF UnsettleClosed

-----------------------------------------------------------------------------
(* What every effect keeps of a tree.                                      *)

\* A split is into two halves, two steps or two cases.
Paired(G) ==
  \A g \in DOMAIN G : G[g].children # {} =>
    \/ HasRole(G, g, "outer") /\ HasRole(G, g, "callee")
    \/ Interposed(G, g)
    \/ Cased(G, g)

\* The roles of the two goals a split makes.
RolePairs == {<<"outer", "callee">>, <<"lhs", "rhs">>, <<"holds", "fails">>}

\* What stands for the proof of g: the pair of its last proof, or its children.
Stands(G, shown, g) ==
  \/ <<g, HeadOf(G, g, "src"), HeadOf(G, g, "tgt")>> \in shown
  \/ G[g].children # {} /\ \A c \in G[g].children : G[c].status = "proved"

BackedIn(G, shown) == \A g \in DOMAIN G : G[g].status = "proved" => Stands(G, shown, g)

SettledIn(G) ==
  \A g \in DOMAIN G : G[g].status = "split" =>
    G[g].children # {} /\ \E c \in G[g].children : G[c].status # "proved"

Sound(G, shown) ==
  /\ Typed(G)
  /\ Linked(G)
  /\ Paired(G)
  /\ BackedIn(G, shown)
  /\ SettledIn(G)

LEMMA SameGoalsPaired ==
  ASSUME NEW G, NEW H, SameGoals(G, H), Linked(G), Paired(G)
  PROVE  Paired(H)
<1>1. \A x \in DOMAIN G : \A c \in G[x].children : c \in DOMAIN G
  BY DEF Linked
<1>2. \A role : \A x \in DOMAIN G : HasRole(G, x, role) => HasRole(H, x, role)
  BY <1>1 DEF SameGoals, HasRole
<1> QED
  BY <1>2 DEF Paired, SameGoals, Interposed, Cased

\* The goals a touch of g leaves proved are still proved by what they were proved by, and
\* those it leaves split still wait on a child.
LEMMA ReopenedSound ==
  ASSUME NEW G, NEW g \in DOMAIN G, NEW shown, Sound(G, shown), NEW x \in DOMAIN G
  PROVE  LET R == Reopened(G, g)
         IN  /\ R[x].status = "proved" =>
                  /\ x # g /\ G[x].status = "proved"
                  /\ (\A c \in G[x].children : G[c].status = "proved")
                     => \A c \in G[x].children : R[c].status = "proved"
             /\ R[x].status = "split" =>
                  G[x].children # {} /\ \E c \in G[x].children : R[c].status # "proved"
<1> DEFINE R == Reopened(G, g)
           U == Unsettled(G, g)
<1>1. Typed(G) /\ Linked(G) /\ SettledIn(G)
  BY DEF Sound
<1>2. /\ R[g].status = IF G[g].status = "proved" THEN "open" ELSE G[g].status
      /\ \A y \in DOMAIN G \ {g} :
           R[y].status = IF G[g].status = "proved" /\ y \in U THEN "split" ELSE G[y].status
  BY <1>1, ReopenedIs
<1>3. \A a \in U : /\ a \in DOMAIN G /\ G[a].status = "proved" /\ G[a].children # {}
                   /\ \E c \in G[a].children : c = g \/ c \in U
  BY <1>1, UnsettledIs
<1>4. \A a \in DOMAIN G : G[a].status = "proved" =>
        \A c \in G[a].children : c = g \/ c \in U => a \in U
  BY <1>1, UnsettledAll
<1>5. \A y \in DOMAIN G : \A c \in G[y].children : c \in DOMAIN G
  BY <1>1 DEF Linked
<1> HIDE DEF R, U
<1>6. ASSUME R[x].status = "proved"
      PROVE  /\ x # g /\ G[x].status = "proved"
             /\ (\A c \in G[x].children : G[c].status = "proved")
                => \A c \in G[x].children : R[c].status = "proved"
  <2>1. x # g /\ G[x].status = "proved" /\ ~ (G[g].status = "proved" /\ x \in U)
    BY <1>2, <1>6
  <2>2. ASSUME NEW c \in G[x].children, G[c].status = "proved"
        PROVE  R[c].status = "proved"
    <3>1. c = g \/ c \in U => x \in U
      BY <1>4, <2>1
    <3> QED
      BY <2>1, <2>2, <3>1, <1>2, <1>5
  <2> QED
    BY <2>1, <2>2
<1>7. ASSUME R[x].status = "split"
      PROVE  G[x].children # {} /\ \E c \in G[x].children : R[c].status # "proved"
  <2>1. R[g].status # "proved"
    BY <1>2
  <2>2. \A y \in DOMAIN G : G[y].status # "proved" => R[y].status # "proved"
    BY <1>2
  <2>3. CASE G[x].status = "split"
    BY <2>3, <2>2, <1>1, <1>5 DEF SettledIn
  <2>4. CASE G[x].status # "split"
    <3>1. x \in U /\ G[g].status = "proved"
      BY <2>4, <1>2, <1>7
    <3>2. PICK c \in G[x].children : c = g \/ c \in U
      BY <3>1, <1>3
    <3>3. R[c].status # "proved"
      BY <3>1, <3>2, <2>1, <1>2, <1>5
    <3> QED
      BY <3>3
  <2> QED
    BY <2>3, <2>4
<1> QED
  BY <1>6, <1>7 DEF R

\* A move of the sides of one goal keeps the tree sound.
LEMMA MovedSound ==
  ASSUME NEW G, NEW H, NEW g \in DOMAIN G, NEW hist, NEW shown,
         Sound(G, shown), Moved(G, H, g, hist)
  PROVE  Sound(H, shown)
<1> DEFINE R == Reopened(G, g)
<1>1. /\ Typed(H) /\ SameGoals(G, H)
      /\ \A x \in DOMAIN G \ {g} : H[x].hist = G[x].hist
      /\ \A x \in DOMAIN G : H[x].status = R[x].status
  BY DEF Moved
<1>2. Linked(G) /\ Paired(G) /\ Root \in DOMAIN G /\ BackedIn(G, shown)
  BY DEF Sound, Typed
<1>3. Linked(H) /\ Paired(H)
  BY <1>1, <1>2, SameGoalsLinked, SameGoalsPaired
<1>4. DOMAIN H = DOMAIN G /\ \A x \in DOMAIN G : H[x].children = G[x].children
  BY <1>1 DEF SameGoals
<1>5. \A x \in DOMAIN G : \A c \in G[x].children : c \in DOMAIN G
  BY <1>2 DEF Linked
<1>6. \A x \in DOMAIN G :
        /\ R[x].status = "proved" =>
             /\ x # g /\ G[x].status = "proved"
             /\ (\A c \in G[x].children : G[c].status = "proved")
                => \A c \in G[x].children : R[c].status = "proved"
        /\ R[x].status = "split" =>
             G[x].children # {} /\ \E c \in G[x].children : R[c].status # "proved"
  BY ReopenedSound
<1> HIDE DEF R
<1>7. BackedIn(H, shown)
  <2> SUFFICES ASSUME NEW x \in DOMAIN H, H[x].status = "proved"
               PROVE  Stands(H, shown, x)
    BY DEF BackedIn
  <2>1. x # g /\ Stands(G, shown, x) /\ x \in DOMAIN G
    BY <1>1, <1>2, <1>4, <1>6 DEF BackedIn
  <2>2. \A side : HeadOf(H, x, side) = HeadOf(G, x, side)
    BY <2>1, <1>1 DEF HeadOf
  <2>3. (\A c \in G[x].children : G[c].status = "proved")
        => \A c \in H[x].children : H[c].status = "proved"
    BY <2>1, <1>1, <1>4, <1>5, <1>6
  <2> QED
    BY <2>1, <2>2, <2>3, <1>4 DEF Stands
<1>8. SettledIn(H)
  BY <1>1, <1>4, <1>5, <1>6 DEF SettledIn
<1> QED
  BY <1>1, <1>3, <1>7, <1>8 DEF Sound

\* A proof of a goal, settled all the way up, keeps the tree sound.
LEMMA ProvedSound ==
  ASSUME NEW G, NEW g \in DOMAIN G, NEW shown, NEW after, Sound(G, shown),
         <<g, HeadOf(G, g, "src"), HeadOf(G, g, "tgt")>> \in after,
         \A x \in DOMAIN G \ {g} : \A p, q : <<x, p, q>> \in shown => <<x, p, q>> \in after
  PROVE  Sound(Proved(G, g), after)
<1> DEFINE T == Settled(G, g)
           H == Proved(G, g)
<1>1. /\ Typed(G) /\ Linked(G) /\ Paired(G) /\ BackedIn(G, shown) /\ SettledIn(G)
      /\ Root \in DOMAIN G
  BY DEF Sound, Typed
<1>2. /\ Typed(H) /\ SameGoals(G, H)
      /\ \A x \in DOMAIN G : H[x].hist = G[x].hist
      /\ \A x \in DOMAIN G : H[x].status = IF x \in {g} \cup T THEN "proved" ELSE G[x].status
  BY <1>1, WithStatusIs DEF Proved, Statuses
<1>3. \A a \in T : /\ a \in DOMAIN G /\ G[a].status = "split" /\ G[a].children # {}
                   /\ \A c \in G[a].children : c = g \/ c \in T \/ G[c].status = "proved"
  BY SettledIs
<1>4. \A a \in DOMAIN G :
        /\ G[a].status = "split"
        /\ \E c \in G[a].children : c = g \/ c \in T
        /\ \A c \in G[a].children : c = g \/ c \in T \/ G[c].status = "proved"
        => a \in T
  BY SettledAll
<1> HIDE DEF T, H
<1>5. Linked(H) /\ Paired(H)
  BY <1>1, <1>2, SameGoalsLinked, SameGoalsPaired
<1>6. DOMAIN H = DOMAIN G /\ \A x \in DOMAIN G : H[x].children = G[x].children
  BY <1>2 DEF SameGoals
<1>7. \A x \in DOMAIN G : \A c \in G[x].children : c \in DOMAIN G
  BY <1>1 DEF Linked
<1>8. \A side : \A x \in DOMAIN G : HeadOf(H, x, side) = HeadOf(G, x, side)
  BY <1>2 DEF HeadOf
<1>9. BackedIn(H, after)
  <2> SUFFICES ASSUME NEW x \in DOMAIN G, H[x].status = "proved"
               PROVE  Stands(H, after, x)
    BY <1>6 DEF BackedIn
  <2>1. CASE x = g
    BY <2>1, <1>8 DEF Stands
  <2>2. CASE x \in T
    <3>1. G[x].children # {}
      BY <2>2, <1>3
    <3>2. ASSUME NEW c \in G[x].children
          PROVE  H[c].status = "proved"
      BY <2>2, <1>2, <1>3, <1>7
    <3> QED
      BY <3>1, <3>2, <1>6 DEF Stands
  <2>3. CASE x # g /\ x \notin T
    <3>1. Stands(G, shown, x)
      BY <2>3, <1>1, <1>2 DEF BackedIn
    <3>2. CASE <<x, HeadOf(G, x, "src"), HeadOf(G, x, "tgt")>> \in shown
      BY <3>2, <2>3, <1>8 DEF Stands
    <3>3. CASE G[x].children # {} /\ \A c \in G[x].children : G[c].status = "proved"
      <4>1. \A c \in G[x].children : H[c].status = "proved"
        BY <3>3, <1>2, <1>7
      <4> QED
        BY <3>3, <4>1, <1>6 DEF Stands
    <3> QED
      BY <3>1, <3>2, <3>3 DEF Stands
  <2> QED
    BY <2>1, <2>2, <2>3
<1>10. SettledIn(H)
  <2> SUFFICES ASSUME NEW x \in DOMAIN G, H[x].status = "split"
               PROVE  G[x].children # {} /\ \E c \in G[x].children : H[c].status # "proved"
    BY <1>6 DEF SettledIn
  <2>1. x # g /\ x \notin T /\ G[x].status = "split"
    BY <1>2
  <2>2. PICK c \in G[x].children : G[c].status # "proved"
    BY <2>1, <1>1 DEF SettledIn
  <2>3. ASSUME \A d \in G[x].children : H[d].status = "proved"
        PROVE  FALSE
    <3>1. \A d \in G[x].children : d = g \/ d \in T \/ G[d].status = "proved"
      BY <2>3, <1>2, <1>7
    <3>2. c = g \/ c \in T
      BY <3>1, <2>2
    <3> QED
      BY <3>1, <3>2, <2>1, <1>4
  <2> QED
    BY <2>2, <2>3
<1> QED
  BY <1>2, <1>5, <1>9, <1>10 DEF Sound, H

\* A refutation of the root keeps the tree sound.
LEMMA RefutedSound ==
  ASSUME NEW G, NEW shown, Sound(G, shown)
  PROVE  Sound(Refuted(G, Root), shown)
<1> DEFINE H == Refuted(G, Root)
<1>1. /\ Typed(G) /\ Linked(G) /\ Paired(G) /\ BackedIn(G, shown) /\ SettledIn(G)
      /\ Root \in DOMAIN G /\ DOMAIN G \subseteq Nat \ {NoGoal}
  BY DEF Sound, Typed
<1>2. /\ Typed(H) /\ SameGoals(G, H)
      /\ \A x \in DOMAIN G : H[x].hist = G[x].hist
      /\ \A x \in DOMAIN G : H[x].status = IF x \in {Root} THEN "refuted" ELSE G[x].status
  BY <1>1, WithStatusIs DEF Refuted, Statuses
<1> HIDE DEF H
<1>3. Linked(H) /\ Paired(H)
  BY <1>1, <1>2, SameGoalsLinked, SameGoalsPaired
<1>4. DOMAIN H = DOMAIN G /\ \A x \in DOMAIN G : H[x].children = G[x].children
  BY <1>2 DEF SameGoals
<1>5. \A x \in DOMAIN G : \A c \in G[x].children : c \in DOMAIN G /\ c # Root
  BY <1>1 DEF Linked
<1>6. \A side : \A x \in DOMAIN G : HeadOf(H, x, side) = HeadOf(G, x, side)
  BY <1>2 DEF HeadOf
<1>7. BackedIn(H, shown)
  <2> SUFFICES ASSUME NEW x \in DOMAIN G, H[x].status = "proved"
               PROVE  Stands(H, shown, x)
    BY <1>4 DEF BackedIn
  <2>1. Stands(G, shown, x)
    BY <1>1, <1>2 DEF BackedIn
  <2>2. \A c \in G[x].children : H[c].status = G[c].status
    BY <1>2, <1>5
  <2> QED
    BY <2>1, <2>2, <1>4, <1>6 DEF Stands
<1>8. SettledIn(H)
  BY <1>1, <1>2, <1>4, <1>5 DEF SettledIn
<1> QED
  BY <1>2, <1>3, <1>7, <1>8 DEF Sound, H

\* A split into two open goals that pair keeps the tree sound.
LEMMA SplitSound ==
  ASSUME NEW G, NEW g \in DOMAIN G, NEW id \in Nat, NEW first \in Goals, NEW second \in Goals,
         NEW shown, Sound(G, shown),
         \A x \in DOMAIN G : x < id,
         \A n \in {first, second} :
           /\ n.parent = g /\ n.children = {} /\ n.status = "open"
           /\ \A s \in Sides : n.hist[s] # <<>>,
         <<first.role, second.role>> \in RolePairs
  PROVE  Sound(Split(G, g, id, first, second), shown)
<1> DEFINE R == Reopened(G, g)
           H == Split(G, g, id, first, second)
<1>1. /\ Typed(G) /\ Linked(G) /\ Paired(G) /\ BackedIn(G, shown) /\ SettledIn(G)
      /\ DOMAIN G \subseteq Nat \ {NoGoal}
  BY DEF Sound, Typed
<1>2. /\ Typed(H) /\ Linked(H) /\ DOMAIN H = DOMAIN G \cup {id, id + 1}
      /\ H[id] = first /\ H[id + 1] = second
      /\ H[g] = WithKids(R[g], {id, id + 1})
      /\ \A x \in DOMAIN G \ {g} : H[x] = R[x]
  <2>1. \A n \in {first, second} :
          n.parent = g /\ n.children = {} /\ \A s \in Sides : n.hist[s] # <<>>
    OBVIOUS
  <2>2. SplitOf(G, H, g, id, first, second)
    BY <1>1, <2>1, SplitIs
  <2> QED
    BY <2>2 DEF SplitOf
<1>3. /\ Typed(R) /\ SameGoals(G, R)
      /\ \A x \in DOMAIN G : R[x].hist = G[x].hist
  BY <1>1, ReopenedIs
<1>4. \A x \in DOMAIN G :
        /\ R[x].status = "proved" =>
             /\ x # g /\ G[x].status = "proved"
             /\ (\A c \in G[x].children : G[c].status = "proved")
                => \A c \in G[x].children : R[c].status = "proved"
        /\ R[x].status = "split" =>
             G[x].children # {} /\ \E c \in G[x].children : R[c].status # "proved"
  BY ReopenedSound
<1> HIDE DEF R, H
<1>5. /\ R[g] \in Goals
      /\ \A x \in DOMAIN G : R[x].children = G[x].children /\ R[x].role = G[x].role
  BY <1>3 DEF Typed, SameGoals
<1>6. /\ H[g].status = "split" /\ H[g].role = G[g].role
      /\ H[g].children = G[g].children \cup {id, id + 1}
  <2>1. {id, id + 1} \in SUBSET Nat
    OBVIOUS
  <2> QED
    BY <2>1, <1>2, <1>5, WithKidsIs
<1>7. \A x \in DOMAIN G : \A c \in G[x].children : c \in DOMAIN G
  BY <1>1 DEF Linked
<1>8. \A x \in DOMAIN G : H[x].role = G[x].role
  BY <1>2, <1>5, <1>6
<1>9. Paired(H)
  <2> SUFFICES ASSUME NEW x \in DOMAIN H, H[x].children # {}
               PROVE  \/ HasRole(H, x, "outer") /\ HasRole(H, x, "callee")
                      \/ Interposed(H, x)
                      \/ Cased(H, x)
    BY DEF Paired
  <2>1. x \in DOMAIN G
    BY <1>2
  <2>2. CASE x = g
    <3>1. id \in H[x].children /\ id + 1 \in H[x].children
      BY <2>2, <1>6
    <3>2. HasRole(H, x, first.role) /\ HasRole(H, x, second.role)
      BY <3>1, <1>2 DEF HasRole
    <3>3. \/ first.role = "outer" /\ second.role = "callee"
          \/ first.role = "lhs"
          \/ first.role = "holds"
      BY DEF RolePairs
    <3> QED
      BY <3>2, <3>3 DEF Interposed, Cased
  <2>3. CASE x # g
    <3>1. H[x].children = G[x].children
      BY <2>1, <2>3, <1>2, <1>5
    <3>2. \A role : HasRole(G, x, role) => HasRole(H, x, role)
      BY <2>1, <3>1, <1>7, <1>8 DEF HasRole
    <3> QED
      BY <2>1, <3>1, <3>2, <1>1 DEF Paired, Interposed, Cased
  <2> QED
    BY <2>2, <2>3
<1>10. \A x \in DOMAIN G : H[x].status = IF x = g THEN "split" ELSE R[x].status
  BY <1>2, <1>6
<1>11. BackedIn(H, shown)
  <2> SUFFICES ASSUME NEW x \in DOMAIN H, H[x].status = "proved"
               PROVE  Stands(H, shown, x)
    BY DEF BackedIn
  <2>1. x \in DOMAIN G /\ x # g /\ R[x].status = "proved"
    BY <1>2, <1>6
  <2>2. Stands(G, shown, x)
    BY <2>1, <1>1, <1>4 DEF BackedIn
  <2>3. \A side : HeadOf(H, x, side) = HeadOf(G, x, side)
    BY <2>1, <1>2, <1>3 DEF HeadOf
  <2>4. H[x].children = G[x].children
    BY <2>1, <1>2, <1>5
  <2>5. ASSUME \A c \in G[x].children : G[c].status = "proved", NEW c \in G[x].children
        PROVE  H[c].status = "proved"
    <3>1. R[c].status = "proved" /\ c \in DOMAIN G
      BY <2>1, <2>5, <1>4, <1>7
    <3>2. c # g
      BY <3>1, <1>4
    <3> QED
      BY <3>1, <3>2, <1>10
  <2> QED
    BY <2>2, <2>3, <2>4, <2>5 DEF Stands
<1>12. SettledIn(H)
  <2> SUFFICES ASSUME NEW x \in DOMAIN H, H[x].status = "split"
               PROVE  H[x].children # {} /\ \E c \in H[x].children : H[c].status # "proved"
    BY DEF SettledIn
  <2>1. x \in DOMAIN G
    BY <1>2
  <2>2. CASE x = g
    <3>1. id \in H[x].children
      BY <2>2, <1>6
    <3>2. H[id].status # "proved"
      BY <1>2
    <3> QED
      BY <3>1, <3>2
  <2>3. CASE x # g
    <3>1. R[x].status = "split" /\ H[x].children = G[x].children
      BY <2>1, <2>3, <1>2, <1>5
    <3>2. PICK c \in G[x].children : R[c].status # "proved"
      BY <2>1, <3>1, <1>4
    <3>3. H[c].status # "proved"
      BY <2>1, <3>2, <1>7, <1>10
    <3> QED
      BY <3>1, <3>2, <3>3
  <2> QED
    BY <2>2, <2>3
<1> QED
  BY <1>2, <1>9, <1>11, <1>12 DEF Sound, H

\* Undoing a split keeps the tree sound.
LEMMA UnsplitSound ==
  ASSUME NEW G, NEW g \in DOMAIN G, G[g].status = "split", NEW shown, NEW after, Sound(G, shown),
         \A x \in DOMAIN Unsplit(G, g) : \A p, q : <<x, p, q>> \in shown => <<x, p, q>> \in after
  PROVE  Sound(Unsplit(G, g), after)
<1> DEFINE H == Unsplit(G, g)
<1>1. /\ Typed(G) /\ Linked(G) /\ Paired(G) /\ BackedIn(G, shown) /\ SettledIn(G)
  BY DEF Sound
<1>2. /\ Typed(H) /\ Linked(H) /\ DOMAIN H \subseteq DOMAIN G /\ g \in DOMAIN H
      /\ H[g] = [G[g] EXCEPT !.status = "open", !.children = {}]
      /\ \A x \in DOMAIN H \ {g} : H[x] = G[x]
  <2>1. UnsplitOf(G, H, g)
    BY <1>1, UnsplitIs
  <2> HIDE DEF H
  <2> QED
    BY <2>1 DEF UnsplitOf
<1> HIDE DEF H
<1>3. H[g].status = "open" /\ H[g].children = {} /\ H[g].role = G[g].role
  BY <1>1, <1>2 DEF Typed, Goals
<1>4. \A x \in DOMAIN H : \A c \in H[x].children : c \in DOMAIN H
  BY <1>2 DEF Linked
<1>5. Paired(H)
  <2>1. \A x \in DOMAIN H : H[x].role = G[x].role
    BY <1>2, <1>3
  <2>2. ASSUME NEW x \in DOMAIN H, H[x].children # {}, NEW role, HasRole(G, x, role)
        PROVE  HasRole(H, x, role)
    <3>1. H[x] = G[x]
      BY <2>2, <1>2, <1>3
    <3>2. \A c \in H[x].children : H[c].role = G[c].role
      BY <2>1, <1>4
    <3> QED
      BY <2>2, <3>1, <3>2 DEF HasRole
  <2>3. \A x \in DOMAIN H : H[x].children # {} => x \in DOMAIN G /\ G[x].children # {}
    BY <1>2, <1>3
  <2> QED
    BY <2>2, <2>3, <1>1 DEF Paired, Interposed, Cased
<1>6. BackedIn(H, after)
  <2> SUFFICES ASSUME NEW x \in DOMAIN H, H[x].status = "proved"
               PROVE  Stands(H, after, x)
    BY DEF BackedIn
  <2>1. x # g /\ H[x] = G[x] /\ x \in DOMAIN G
    BY <1>2, <1>3
  <2>2. Stands(G, shown, x)
    BY <2>1, <1>1 DEF BackedIn
  <2>3. \A c \in G[x].children : G[c].status = "proved" => H[c].status = "proved"
    BY <2>1, <1>2, <1>4
  <2>4. \A side : HeadOf(H, x, side) = HeadOf(G, x, side)
    BY <2>1 DEF HeadOf
  <2> QED
    BY <2>1, <2>2, <2>3, <2>4 DEF Stands, H
<1>7. SettledIn(H)
  <2> SUFFICES ASSUME NEW x \in DOMAIN H, H[x].status = "split"
               PROVE  H[x].children # {} /\ \E c \in H[x].children : H[c].status # "proved"
    BY DEF SettledIn
  <2>1. x # g /\ H[x] = G[x] /\ x \in DOMAIN G
    BY <1>2, <1>3
  <2>2. PICK c \in G[x].children : G[c].status # "proved"
    BY <2>1, <1>1 DEF SettledIn
  <2>3. H[c].status # "proved"
    BY <2>1, <2>2, <1>2, <1>3, <1>4
  <2> QED
    BY <2>1, <2>2, <2>3
<1> QED
  BY <1>2, <1>5, <1>6, <1>7 DEF Sound, H

=============================================================================
