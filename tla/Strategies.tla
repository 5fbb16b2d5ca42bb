------------------------------ MODULE Strategies ------------------------------
(***************************************************************************)
(* The simple searcher on one goal it does not prove (engine/simple): it      *)
(* steps the src toward the tgt window by window, copies blocks so that a     *)
(* loop or an instruction can be cut out, and asks for cuts, which are all    *)
(* refused or undone here, so that every move is made. An agent may have      *)
(* edited either side before. Every step asks `llops reshaped` first and then *)
(* alive2, which says yes only where the pair refines, and may give up.       *)
(*                                                                         *)
(* What a program is here is in Bodies; what a cut leaves is in Search.       *)
(***************************************************************************)
EXTENDS Windows, Edits, Reshaped

CONSTANTS
  Goals,     \* the pairs a goal may start from
  Growth,    \* how many times a refused window may grow
  MaxEdits,  \* the edits an agent makes before the search
  Edited     \* the goals among them whose sides an agent edits

ASSUME StrategiesAssumption == Growth \in Nat /\ MaxEdits \in Nat /\ Edited \subseteq Goals

VARIABLES
  sides,    \* the goal's src and tgt
  moves,    \* the moves not made yet, the one in hand first
  doing,    \* where the move in hand is
  saved,    \* the sides a prepared cut restores
  commit,   \* the last step asked for: its side, edit, programs and who certified it
  edits     \* the edits the agent has made

vars == <<sides, moves, doing, saved, commit, edits>>

\* One loop cut as the goal stands, one with each side's header copied, then the points.
AllMoves == <<"windows", "loop", "src header", "tgt header", "point">>

Idle     == [at |-> "idle"]
NoSaved  == [src |-> <<>>, tgt |-> <<>>]
NoCommit == [side |-> "src", edit |-> "none", before |-> <<>>, after |-> <<>>, by |-> "nobody"]

Init ==
  /\ sides \in Goals
  /\ moves = AllMoves
  /\ doing = Idle
  /\ saved = NoSaved
  /\ commit = NoCommit
  /\ edits = IF sides \in Edited THEN 0 ELSE MaxEdits

-----------------------------------------------------------------------------
(* A step of one side.                                                     *)

\* A src step proves that the new program refines the old, a tgt step the other way round.
Oriented(side, before, after) == IF side = "src" THEN <<before, after>> ELSE <<after, before>>

\* Who may certify a step: no solver where the walk follows it, and alive2 where it is true.
Certifiers(side, before, after) ==
  LET pair == Oriented(side, before, after)
  IN  IF IsReshaped(pair[1], pair[2]) THEN {"reshaped"}
      ELSE {"nobody"} \cup IF Refines(pair[2], pair[1]) THEN {"alive2"} ELSE {}

\* The step of a side by an edit that llops applied; whether it was certified.
Step(side, edit, after, by) ==
  /\ sides' = IF by = "nobody" THEN sides ELSE [sides EXCEPT ![side] = after]
  /\ commit' = [side |-> side, edit |-> edit, before |-> sides[side], after |-> after, by |-> by]

-----------------------------------------------------------------------------
(* An agent's edits.                                                       *)

Names(B) == {Const(0), Const(1), Arg(0), Arg(1)} \cup
            {B[k].value : k \in {n \in DOMAIN B : B[n].value # NoName /\ B[n].op # "alloca"}}

\* One operand, the targets of a branch, a comparison and its branch, or two neighbours changed.
Changed(B) ==
  {[B EXCEPT ![c[1]].operands[c[2]] = c[3]] :
     c \in {d \in (DOMAIN B) \X (1..2) \X Names(B) :
              d[2] <= Len(B[d[1]].operands) /\ B[d[1]].operands[d[2]] \in Names(B) \ {d[3]}}}
  \cup {[B EXCEPT ![k].operands = <<@[1], @[3], @[2]>>] :
          k \in {n \in DOMAIN B : B[n].op = "br" /\ Len(B[n].operands) = 3}}
  \cup {[B EXCEPT ![k].op = InverseOf(@),
                  ![j].operands = <<@[1], @[3], @[2]>>] :
          <<k, j>> \in {p \in (DOMAIN B) \X (DOMAIN B) :
                          /\ IsCompare(B[p[1]].op) /\ B[p[2]].op = "br"
                          /\ B[p[2]].operands[1] = B[p[1]].value}}
  \cup {[B EXCEPT ![k] = B[k + 1], ![k + 1] = B[k]] :
          k \in {n \in 1..(Len(B) - 1) : /\ ~IsTerminator(B[n + 1]) /\ B[n].block = B[n + 1].block
                                         /\ ~IsPhi(B[n])}}

Copies(B) ==
  {CopyBlock(B, b, preds) : <<b, preds>> \in {p \in ToSet(BlocksOf(B)) \X SUBSET ToSet(BlocksOf(B)) :
                                               p[2] \subseteq Predecessors(B)[p[1]]}}

Applied(results) == {r.body : r \in {s \in results : s.ok}}

\* What an agent may make of a body, by the edit.
EditsOf(B) ==
  {<<"change", A>> : A \in Applied({Checked(C) : C \in Changed(B)})}
  \cup {<<"copy_block", A>> : A \in Applied(Copies(B))}
  \cup {<<"peel", A>> : A \in Applied({Peel(B, b) : b \in ToSet(BlocksOf(B))})}
  \cup {<<"hoist", A>> : A \in Applied({Hoist(B, k) : k \in DOMAIN B})}

Edit ==
  /\ moves = AllMoves /\ doing = Idle /\ edits < MaxEdits
  /\ \E side \in {"src", "tgt"} : \E e \in EditsOf(sides[side]) :
        /\ e[2] # sides[side]
        /\ "reshaped" \in Certifiers(side, sides[side], e[2])
        /\ Step(side, e[1], e[2], "reshaped")
  /\ edits' = edits + 1
  /\ UNCHANGED <<moves, doing, saved>>

-----------------------------------------------------------------------------
(* Windows, last to first so that no step moves one still to come.           *)

NoWindow == [NoRegion EXCEPT !.window = FALSE]

\* Mutant: the regions are stepped first to last.
StartWindowsForward ==
  /\ doing = Idle /\ moves # <<>> /\ Head(moves) = "windows"
  /\ LET diff == Diff(sides.src, sides.tgt)
     IN  doing' = [at |-> "windows", looked |-> sides, pairs |-> diff.pairs, found |-> diff.regions,
                   todo |-> diff.regions, window |-> NoWindow, first |-> NoWindow,
                   layer |-> 0, spliced |-> FALSE, floor |-> 0]
  /\ UNCHANGED <<sides, moves, saved, commit, edits>>

StartWindows ==
  /\ doing = Idle /\ moves # <<>> /\ Head(moves) = "windows"
  /\ LET diff == Diff(sides.src, sides.tgt)
     IN  doing' = [at |-> "windows", looked |-> sides, pairs |-> diff.pairs, found |-> diff.regions,
                   todo |-> Reverse(diff.regions), window |-> NoWindow, first |-> NoWindow,
                   layer |-> 0, spliced |-> FALSE, floor |-> 0]
  /\ UNCHANGED <<sides, moves, saved, commit, edits>>

\* The window of the next region; one that can hold none is left.
TakeRegion ==
  /\ doing.at = "windows" /\ ~doing.window.window /\ doing.todo # <<>>
  /\ LET src    == doing.looked.src
         tgt    == doing.looked.tgt
         region == Head(doing.todo)
         at     == IF region.src # <<>> /\ region.tgt # <<>> THEN region
                   ELSE Widened(src, tgt, region, Partners(src, tgt, doing.found))
     IN  doing' = [doing EXCEPT !.todo = Tail(@), !.window = at, !.first = at, !.layer = 0, !.spliced = FALSE,
                                !.floor = IF at.window THEN Floor(src, doing.found, at) ELSE 0]
  /\ UNCHANGED <<sides, moves, saved, commit, edits>>

\* One commit of the window. Refused, it grows, and last the first window is asked again with
\* facts, unless its splice was refused or its facts do not bear on the counterexample.
AttemptWith(at, wired, spliced) ==
  LET retry   == doing.layer > Growth
      grown   == Grown(sides.src, at, wired.reads, doing.floor)
      first   == doing.spliced \/ (doing.layer = 0 /\ wired.valid /\ spliced.ok)
      last    == IF first /\ ~retry THEN {NoWindow, doing.first} ELSE {NoWindow}
      after   == IF ~retry /\ doing.layer < Growth /\ grown.window THEN {grown} ELSE last
      left(w) == [doing EXCEPT !.window = w, !.spliced = first,
                               !.layer = IF w = doing.first THEN Growth + 1 ELSE @ + 1]
  IN  IF wired.valid /\ spliced.ok /\ spliced.body # sides.src
      THEN \E by \in Certifiers("src", sides.src, spliced.body) :
             /\ Step("src", "splice", spliced.body, by)
             /\ \E w \in IF by = "nobody" THEN after ELSE {NoWindow} : doing' = left(w)
      ELSE /\ \E w \in after : doing' = left(w)
           /\ UNCHANGED <<sides, commit>>

AttemptWindow ==
  /\ doing.at = "windows" /\ doing.window.window
  /\ LET at == doing.window
         splice(wired) ==
           AttemptWith(at, wired, Splice(sides.src, at.src[1], Last(at.src),
                                         sides.tgt, at.tgt[1], Last(at.tgt), wired.map))
     IN  splice(Wire(sides.src, sides.tgt, at, doing.pairs))
  /\ UNCHANGED <<moves, saved, edits>>

WindowsDone ==
  /\ doing.at = "windows" /\ ~doing.window.window /\ doing.todo = <<>>
  /\ doing' = Idle
  /\ moves' = Tail(moves)
  /\ UNCHANGED <<sides, saved, commit, edits>>

-----------------------------------------------------------------------------
(* Copies of shared blocks, for a loop's header or for an instruction that is *)
(* followed through the renumbering of each copy.                          *)

OtherSide(side) == IF side = "src" THEN "tgt" ELSE "src"

\* Copying begins on a side: with at most as many copies as it has blocks.
CopyingOn(side, points) ==
  [at |-> "copying", side |-> side, left |-> Len(BlocksOf(sides[side])), points |-> points,
   before |-> sides[side], index |-> IF points = <<>> THEN 0 ELSE points[IF side = "src" THEN 1 ELSE 2]]

\* Where the instruction at `index` of a body stands in the body after, or 0.
Located(before, after, index) ==
  LET plain(B, b) == SelectSeq([k \in DOMAIN B |-> k], LAMBDA k : B[k].block = b /\ ~IsPhi(B[k]))
      there(own, to) == IF Contains(own, index) /\ IndexIn(own, index) <= Len(to) THEN to[IndexIn(own, index)] ELSE 0
      same(k) == IF k = 0 THEN 0 ELSE IF Form(after[k]) = Form(before[index]) THEN k ELSE 0
      at(b)   == same(there(plain(before, b), plain(after, PairOf(Diff(before, after).pairs, b))))
  IN  IF index = 0 THEN 0 ELSE at(before[index].block)

\* The block whose reach gets copies: the instruction's, or the first header.
PickedIn(B, index) ==
  CASE doing.points # <<>> /\ index # 0 -> B[index].block
    [] doing.points = <<>> /\ Headers(B) # <<>> -> Headers(B)[1]
    [] OTHER -> NoName

\* The next side, or the cut once both sides have their copies.
CopiedOn(side, index) ==
  LET points == IF doing.points = <<>> THEN <<>>
                ELSE [doing.points EXCEPT ![IF side = "src" THEN 1 ELSE 2] = index]
  IN  IF side = "src" THEN CopyingOn("tgt", points)
      ELSE [at |-> "cutting", points |-> points]

StartLoop ==
  /\ doing = Idle /\ moves # <<>> /\ Head(moves) = "loop"
  /\ doing' = CopyingOn("src", <<>>)
  /\ saved' = NoSaved
  /\ UNCHANGED <<sides, moves, commit, edits>>

CopyShared(side, index, shared, copied) ==
  IF doing.left = 0 \/ shared.block = NoName
  THEN doing' = CopiedOn(side, index) /\ UNCHANGED <<sides, commit>>
  ELSE IF ~copied.ok
  THEN /\ commit' = [side |-> side, edit |-> "copy_block", before |-> sides[side], after |-> sides[side], by |-> "nobody"]
       /\ doing' = CopiedOn(side, index)
       /\ UNCHANGED sides
  ELSE \E by \in Certifiers(side, sides[side], copied.body) :
         /\ Step(side, "copy_block", copied.body, by)
         /\ doing' = IF by = "nobody" THEN CopiedOn(side, index)
                     ELSE [doing EXCEPT !.left = @ - 1, !.before = sides[side], !.index = index]

Copy ==
  /\ doing.at = "copying"
  /\ LET side == doing.side
         copy(index, shared) == CopyShared(side, index, shared, CopyBlock(sides[side], shared.block, shared.preds))
         reach(index, block) ==
           copy(index, IF block = NoName THEN [block |-> NoName, preds |-> {}] ELSE SharedWith(sides[side], block))
         picked(index) == reach(index, PickedIn(sides[side], index))
     IN  picked(Located(doing.before, sides[side], doing.index))
  /\ UNCHANGED <<moves, saved, edits>>

\* The header of a side gets a copy for the edges that enter the loop, which rotates it.
CopyHeaderTo(side, header, preds, copied) ==
  IF header = NoName \/ preds = {} \/ ~copied.ok
  THEN moves' = Tail(moves) /\ UNCHANGED <<sides, doing, saved, commit>>
  ELSE \E by \in Certifiers(side, sides[side], copied.body) :
         /\ Step(side, "copy_block", copied.body, by)
         /\ IF by = "nobody" THEN moves' = Tail(moves) /\ UNCHANGED <<doing, saved>>
            ELSE /\ doing' = [at |-> "copied"] /\ saved' = sides
                 /\ UNCHANGED moves

CopyHeader(side) ==
  /\ doing = Idle /\ moves # <<>> /\ Head(moves) = side \o " header"
  /\ LET next    == Successors(sides[side])
         loops   == Headers(sides.src) # <<>> /\ Headers(sides.tgt) # <<>>
         into(h) == {p \in DOMAIN next : h \in ToSet(next[p]) /\ ~Reaches(next, h, p)}
         copy(h, preds) == CopyHeaderTo(side, h, preds, CopyBlock(sides[side], h, preds))
         at(h)   == copy(h, IF h = NoName THEN {} ELSE into(h))
     IN  at(IF loops THEN Headers(sides[side])[1] ELSE NoName)
  /\ UNCHANGED edits

CutLoop ==
  /\ doing.at = "copied"
  /\ doing' = CopyingOn("src", <<>>)
  /\ UNCHANGED <<sides, moves, saved, commit, edits>>

PointsOf(diff) ==
  ToSet(BeforePoints(sides.src, sides.tgt, diff)) \cup ToSet(BalancedPoints(sides.src, sides.tgt, diff))

\* An instruction both sides share, where outside code joins what it reaches and the join
\* has no partner: the shared blocks get copies first.
StartPoint ==
  /\ doing = Idle /\ moves # <<>> /\ Head(moves) = "point"
  /\ LET unjoined(diff) == {p \in PointsOf(diff) : JoinFirst(sides.src, sides.tgt, diff.pairs, p[1], p[2]) = NoCut}
         start(from) == IF from = {} THEN moves' = Tail(moves) /\ UNCHANGED <<doing, saved>>
                        ELSE /\ \E p \in from : doing' = CopyingOn("src", p)
                             /\ saved' = sides
                             /\ UNCHANGED moves
     IN  start(unjoined(Diff(sides.src, sides.tgt)))
  /\ UNCHANGED <<sides, commit, edits>>

\* Where the move in hand asks for a cut.
AskedAt ==
  CASE doing.points = <<>> -> LoopCut(sides.src, sides.tgt)
    [] doing.points # <<>> /\ 0 \notin ToSet(doing.points) ->
         JoinFirst(sides.src, sides.tgt, Diff(sides.src, sides.tgt).pairs, doing.points[1], doing.points[2])
    [] OTHER -> NoCut

\* The cut is refused or undone, and a prepared one restores both programs.
Cut ==
  /\ doing.at = "cutting"
  /\ sides' = IF saved = NoSaved THEN sides ELSE saved
  /\ saved' = NoSaved
  /\ doing' = Idle
  /\ moves' = Tail(moves)
  /\ UNCHANGED <<commit, edits>>

Next ==
  \/ Edit
  \/ StartWindows \/ TakeRegion \/ AttemptWindow \/ WindowsDone
  \/ StartLoop \/ Copy \/ CutLoop \/ StartPoint \/ Cut
  \/ \E side \in {"src", "tgt"} : CopyHeader(side)

Spec == Init /\ [][Next]_vars

-----------------------------------------------------------------------------
(* Properties.                                                             *)

\* What the walk of both runs accepts runs the same, whatever the layout of its control flow
\* (reshaped.cpp: no value is taken for one that a loop or a phi has changed since).
ReshapedTrue == commit.by = "reshaped" => SameRuns(commit.before, commit.after)

\* A copy of a block, of an iteration or of an instruction only reshapes control flow: the walk
\* follows it, whichever side it is a step of and whether or not the program loops
\* (docs/llops.md on copy_block, peel and hoist).
CopiesReshaped ==
  /\ commit.edit = "copy_block" => commit.by = "reshaped"
  /\ \A side \in {"src", "tgt"} : moves = AllMoves /\ edits < MaxEdits =>
       \A e \in EditsOf(sides[side]) : e[1] # "change" =>
         LET pair == Oriented(side, sides[side], e[2]) IN IsReshaped(pair[1], pair[2])

\* The walk of both runs tells reshaped control flow from changed, both ways.
WalkExact == ReshapedTrue /\ CopiesReshaped

\* No step moves a region still to come: the src as far as the next region's end is what the
\* diff looked at, so its places and names mean what they did.
StillThere ==
  doing.at = "windows" /\ doing.todo # <<>> =>
    LET region == Head(doing.todo)
        last   == IF region.src = <<>> THEN 0 ELSE Last(region.src)
    IN  /\ last <= Len(sides.src)
        /\ \A k \in 1..last :
             /\ sides.src[k].block = doing.looked.src[k].block
             /\ sides.src[k].value = doing.looked.src[k].value
             /\ Form(sides.src[k]) = Form(doing.looked.src[k])
             /\ ~IsPhi(sides.src[k]) => sides.src[k].operands = doing.looked.src[k].operands

\* Outside the regions the two sides pair one to one, in order, and do the same to paired
\* values, so that a window may grow over them and a lone region be widened by them.
PartnersAgree ==
  doing.at = "windows" =>
    LET src    == doing.looked.src
        tgt    == doing.looked.tgt
        across == Partners(src, tgt, doing.found)
        theirs == UNION {ToSet(doing.found[n].tgt) : n \in DOMAIN doing.found}
    IN  /\ Len(across) = Cardinality(DOMAIN tgt \ theirs)
        /\ \A n \in DOMAIN across :
             /\ Form(src[across[n][1]]) = Form(tgt[across[n][2]])
             /\ ReadsMatch(src, tgt, doing.pairs, Move(across[n][1], across[n][2]), FALSE)

\* The regions of a diff stay what they were found to be while steps are made in them.
RegionsHold == StillThere /\ PartnersAgree

\* Every load of a slot can be replaced by what the slot is said to hold there, on every path
\* and in every iteration (regions.ts storedAt).
SlotTrue ==
  \A side \in {"src", "tgt"} :
    LET B       == sides[side]
        loads   == ToSet(StoredLoads(B))
        held    == [x \in {l[1] : l \in loads} |-> (CHOOSE l \in loads : l[1] = x)[2]]
        same(A) == Verified(A) /\ SameRuns(B, A)
    IN  loads # {} => same([k \in DOMAIN B |-> [B[k] EXCEPT !.operands = AllMapped(held, @)]])

\* Outside code enters what the block reaches there alone, or at blocks that lead back to it.
EnteredAt(B, block) ==
  LET next    == Successors(B)
      reached == ToSet(ReachedBy(next, block))
  IN  \A b \in reached \ {block} : Back(next)[b] \subseteq reached \/ Reaches(next, b, block)

\* The cuts the move in hand may ask for: after its copies, or at once at a point.
CutsAsked ==
  IF doing.at = "cutting" THEN {AskedAt}
  ELSE IF doing # Idle \/ moves # <<"point">> THEN {}
  ELSE LET on(diff) == {JoinFirst(sides.src, sides.tgt, diff.pairs, p[1], p[2]) : p \in PointsOf(diff)}
       IN  on(Diff(sides.src, sides.tgt))

BlockAt(B, at) == IF IsBlock(at) THEN at ELSE B[at[2]].block

\* The code that a cut takes out of the tgt is entered nowhere else from the code it leaves, and
\* so is the src's at an instruction: entryFirst moves the cut to where outside code enters, but
\* in a cycle entered at two places (loops.ts blockCut, cuts.ts joinFirst). A src block that
\* blockCut takes for the tgt's sake is not looked at, and its cut is refused.
OneEntry ==
  \A cut \in CutsAsked \ {NoCut} :
    /\ EnteredAt(sides.tgt, BlockAt(sides.tgt, cut[2]))
    /\ ~IsBlock(cut[1]) => EnteredAt(sides.src, BlockAt(sides.src, cut[1]))
===============================================================================
