------------------------------- MODULE Windows --------------------------------
(***************************************************************************)
(* How a goal's src is stepped toward its tgt one region at a time            *)
(* (engine/simple/windows.ts), where a goal is cut (engine/simple/cuts.ts,    *)
(* loops.ts), and which blocks are copied first: what the strategies compute  *)
(* before they ask the session for anything.                               *)
(***************************************************************************)
EXTENDS Regions

-----------------------------------------------------------------------------
(* Windows.                                                                *)

\* The tgt partner of each src instruction outside every region, in order; 0 for none.
Partners(src, tgt, found) ==
  LET mine   == UNION {ToSet(found[n].src) : n \in DOMAIN found}
      theirs == UNION {ToSet(found[n].tgt) : n \in DOMAIN found}
      left   == SelectSeq([k \in DOMAIN src |-> k], LAMBDA k : k \notin mine)
      right  == SelectSeq([k \in DOMAIN tgt |-> k], LAMBDA k : k \notin theirs)
  IN  [n \in DOMAIN left |-> <<left[n], IF n <= Len(right) THEN right[n] ELSE 0>>]

\* A deletion or insertion widened by a shared neighbour, so both windows hold something.
Widened(src, tgt, region, across) ==
  LET deletes == region.src # <<>>
      own     == IF deletes THEN region.src ELSE region.tgt
      block   == (IF deletes THEN src ELSE tgt)[own[1]].block
      shared(k) == {p \in ToSet(across) : k = IF deletes THEN p[1] ELSE p[2]}
      fits(p) == /\ p[2] # 0
                 /\ ~IsPhi(src[p[1]]) /\ ~IsTerminator(src[p[1]])
                 /\ block = IF deletes THEN src[p[1]].block ELSE tgt[p[2]].block
      next    == [n \in 1..2 |-> {p \in shared(IF n = 1 THEN own[1] - 1 ELSE Last(own) + 1) : fits(p)}]
      sorted(xs, x) == IF xs # <<>> /\ x > xs[1] THEN Append(xs, x) ELSE <<x>> \o xs
      with(p) == [src |-> sorted(region.src, p[1]), tgt |-> sorted(region.tgt, p[2]), window |-> TRUE]
  IN  CASE next[1] # {} -> with(CHOOSE p \in next[1] : TRUE)
        [] next[1] = {} /\ next[2] # {} -> with(CHOOSE p \in next[2] : TRUE)
        [] OTHER -> [NoRegion EXCEPT !.window = FALSE]

\* How far back a window may grow: to its block's start or the previous region.
Floor(src, found, region) ==
  LET first == region.src[1]
      start == PlaceOf(src, src[first].block)
      later(from, r) == IF r.src # <<>> /\ Last(r.src) < first /\ Last(r.src) >= from
                        THEN Last(r.src) + 1 ELSE from
  IN  FoldLeft(later, start, found)

\* The src name paired with a tgt one, or NoName.
BackOf(pairs, t) == LET of == SelectSeq(pairs, LAMBDA p : p[2] = t) IN IF of = <<>> THEN NoName ELSE of[1][1]

TypeIn(B, x) == IF x \notin Defined(B) THEN "none"
                ELSE IF B[DefinitionOf(B, x)].op = "alloca" THEN "ptr" ELSE "int"

ValuesAt(B, places)   == {B[k].value : k \in places} \ {NoName}
OperandsAt(B, places) == {x \in UNION {ToSet(B[k].operands) : k \in places} : IsNamed(x)}

\* The splice's reads and its map, if all required pairs have matching types and its inputs
\* are there.
Wire(src, tgt, at, pairs) ==
  LET places == [src |-> ToSet(at.src) \cap DOMAIN src, tgt |-> ToSet(at.tgt) \cap DOMAIN tgt]
      mine   == ValuesAt(src, places.src)
      theirs == ValuesAt(tgt, places.tgt)
      \* A tgt value's first partner is its instruction's; an argument is its own.
      back(y) == IF y \notin Defined(tgt) THEN y
                 ELSE BackOf(pairs, y)
      inputs == {<<back(y), y>> : y \in OperandsAt(tgt, places.tgt) \ theirs}
      later  == mine \cap UNION {ToSet(src[k].operands) : k \in DOMAIN src \ places.src}
      binds  == {b \in inputs : b[1] # NoName} \cup {<<s, PairOf(pairs, s)>> : s \in later}
      first  == at.src[1]
      there(x) == x \in Defined(src) =>
                    LET d == DefinitionOf(src, x)
                    IN  IF src[d].block = src[first].block THEN d < first
                        ELSE Dominates(Successors(src), src[d].block, src[first].block)
  IN  [valid |-> /\ \A b \in inputs : b[1] # NoName /\ there(b[1])
                 /\ \A s \in later : PairOf(pairs, s) \in theirs
                 /\ \A b \in binds : TypeIn(src, b[1]) = TypeIn(tgt, b[2])
                 /\ \A b, c \in binds : b[1] = c[1] <=> b[2] = c[2],
       map   |-> [x \in {b[1] : b \in binds} |-> (CHOOSE b \in binds : b[1] = x)[2]],
       reads |-> (OperandsAt(src, places.src) \ mine) \cup ({b[1] : b \in inputs} \ {NoName})]

\* The window widened back to the earliest instruction, at or after `floor`, that defines a
\* value it reads.
Grown(src, at, reads, floor) ==
  LET first == at.src[1]
      defs  == {k \in floor..(first - 1) : src[k].value \in reads}
      by    == first - Min(defs)
      range(from, to) == [n \in 1..(to - from + 1) |-> from + n - 1]
  IN  IF defs = {} THEN [NoRegion EXCEPT !.window = FALSE]
      ELSE [src |-> range(first - by, Last(at.src)), tgt |-> range(at.tgt[1] - by, Last(at.tgt)),
            window |-> TRUE]

-----------------------------------------------------------------------------
(* Where a goal is cut.                                                    *)

\* Every branch out of the blocks that are not among these, in the order of the body.
OutsideOf(B, reached) ==
  FlattenSeq([n \in DOMAIN BlocksOf(B) |->
    LET b == BlocksOf(B)[n] IN IF Contains(reached, b) THEN <<>> ELSE Successors(B)[b]])

RECURSIVE EntryFirstFrom(_, _, _)
EntryFirstFrom(B, block, seen) ==
  LET entries(reached) == SelectSeq(OutsideOf(B, reached), LAMBDA to : to # block /\ Contains(reached, to))
      on(found) == IF found = <<>> \/ Contains(seen, Head(found)) THEN block
                   ELSE EntryFirstFrom(B, Head(found), Append(seen, block))
  IN  on(entries(ReachedBy(Successors(B), block)))

\* Mutant: the cut is at the block, wherever outside code enters.
EntryHere(B, block) == block

\* Where to cut to detach the block: itself, or first where outside code enters its reach.
EntryFirst(B, block) == EntryFirstFrom(B, block, <<>>)

NoCut == <<NoName, NoName>>
Place(k) == <<"place", k>>

\* Where to cut to detach src `block`, as a src block and its tgt partner.
BlockCut(src, tgt, pairs, block) ==
  LET cut(x, y)   == IF x = NoName \/ y = NoName THEN NoCut ELSE <<x, y>>
      on(at, partner, first) == IF first = partner THEN cut(at, partner) ELSE cut(BackOf(pairs, first), first)
      with(at, partner) == IF partner = NoName THEN NoCut ELSE on(at, partner, EntryFirst(tgt, partner))
      from(at) == with(at, PairOf(pairs, at))
  IN  from(EntryFirst(src, block))

\* Where to cut a goal that loops.
LoopCut(src, tgt) ==
  LET on(headers) == IF headers = <<>> THEN NoCut ELSE BlockCut(src, tgt, Diff(src, tgt).pairs, headers[1])
  IN  on(Headers(src))

\* Where to cut for an instruction: there, or at the block where outside code joins what it
\* reaches on either side.
JoinFirst(src, tgt, pairs, i, j) ==
  LET block(b) == IF b = NoName THEN NoCut ELSE BlockCut(src, tgt, pairs, b)
      theirs(join) == IF join = tgt[j].block THEN <<Place(i), Place(j)>> ELSE block(BackOf(pairs, join))
  IN  IF EntryFirst(src, src[i].block) # src[i].block THEN block(src[i].block)
      ELSE theirs(EntryFirst(tgt, tgt[j].block))

\* A shared acyclic block reached by the header, with its outside predecessors, or none.
SharedIn(next, header, reached) ==
  LET preds(b) == {p \in DOMAIN next \ ToSet(reached) : b \in ToSet(next[p])}
      shared   == SelectSeq(reached, LAMBDA b :
                    /\ b # header /\ preds(b) # {}
                    /\ \A to \in ToSet(next[b]) : ~Reaches(next, to, b))
  IN  IF shared = <<>> THEN [block |-> NoName, preds |-> {}]
      ELSE [block |-> Head(shared), preds |-> preds(Head(shared))]

SharedWith(B, header) == SharedIn(Successors(B), header, ReachedBy(Successors(B), header))

-----------------------------------------------------------------------------
(* Where a cut before an operation that makes alive2's questions hard goes.   *)

IsExpensive(i) == \/ i.op \in {"load", "store"}
                  \/ i.op = "mul" /\ \A n \in 1..2 : IsNamed(i.operands[n])

ExpensiveIn(B) == {k \in DOMAIN B : IsExpensive(B[k])}

RECURSIVE StatingFrom(_, _, _)
\* The instructions that only state what the goal assumes: its assumes and what only they use.
StatingFrom(B, k, stating) ==
  LET users == {n \in DOMAIN B : B[k].value # NoName /\ B[k].value \in ToSet(B[n].operands)}
      states == B[k].op = "assume" \/ (users # {} /\ users \subseteq stating)
  IN  IF k = 0 THEN stating ELSE StatingFrom(B, k - 1, IF states THEN stating \cup {k} ELSE stating)

\* Where the body's own instructions begin.
FirstOwn(B) == Min((1..(Len(B) + 1)) \ StatingFrom(B, Len(B), {}))

Tries == 3

FirstTries(points) == SubSeq(points, 1, Min({Tries, Len(points)}))

\* Pairs of the same operation on the two sides: through the diff, or where only one in the
\* tgt does the same to the partners of what it reads.
SharedOperations(src, tgt, pairs, across) ==
  LET valued(i) == {j \in DOMAIN tgt : tgt[j].value # NoName /\ tgt[j].value = PairOf(pairs, src[i].value)}
      reads(i)  == [n \in DOMAIN src[i].operands |->
                      IF src[i].operands[n] \in Defined(src) THEN PairOf(pairs, src[i].operands[n])
                      ELSE src[i].operands[n]]
      alike(i)  == {j \in DOMAIN tgt : Form(src[i]) = Form(tgt[j]) /\ tgt[j].operands = reads(i)}
      unique(i) == {j \in alike(i) : IsExpensive(src[i]) /\ Cardinality(alike(i)) = 1}
      partner(i) ==
        CASE valued(i) # {} -> valued(i)
          [] valued(i) = {} /\ (\E p \in across : p[1] = i) -> {p[2] : p \in {q \in across : q[1] = i}}
          [] OTHER -> unique(i)
      both == SelectSeq([i \in DOMAIN src |-> i], LAMBDA i : partner(i) # {})
  IN  [n \in DOMAIN both |-> <<both[n], Min(partner(both[n]))>>]

\* Just before the last expensive operations both sides apply, latest first.
BeforePoints(src, tgt, diff) ==
  LET own    == FirstOwn(src)
      shared == SharedOperations(src, tgt, diff.pairs, ToSet(Partners(src, tgt, diff.regions)))
      point(p) == p[1] > own /\ IsExpensive(src[p[1]]) /\ src[p[1]].op = tgt[p[2]].op
  IN  FirstTries(Reverse(SelectSeq(shared, point)))

\* The expensive operations a cut before place k moves: all that it reaches.
Moved(B, k) ==
  LET next    == Successors(B)
      reached == UNION {ToSet(ReachedBy(next, b)) : b \in ToSet(next[B[k].block])}
  IN  {m \in ExpensiveIn(B) : (m >= k /\ B[m].block = B[k].block) \/ B[m].block \in reached}

\* Where both sides agree and their expensive operations divide most evenly.
BalancedPoints(src, tgt, diff) ==
  LET total   == Cardinality(ExpensiveIn(src))
      kept(k) == total - Cardinality(Moved(src, k))
      gap(k)  == IF total > 2 * kept(k) THEN total - 2 * kept(k) ELSE 2 * kept(k) - total
      point(p) == /\ p[1] > 1 /\ p[2] > 0 /\ ~IsPhi(src[p[1]]) /\ ~IsPhi(tgt[p[2]])
                  /\ kept(p[1]) > 0 /\ kept(p[1]) < total
      sooner(p, q) == gap(p[1]) < gap(q[1]) \/ (gap(p[1]) = gap(q[1]) /\ p[1] < q[1])
  IN  FirstTries(SortSeq(SelectSeq(Partners(src, tgt, diff.regions), point), sooner))
===============================================================================
