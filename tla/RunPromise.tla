------------------------------ MODULE RunPromise ------------------------------
(***************************************************************************)
(* What the directory of a run promises a reader, whatever became of the   *)
(* processes that wrote it (docs/implementation.md, trajectory.jsonl): the *)
(* moves that landed, each of them whole or not at all, and verdicts that  *)
(* say what those moves add up to.                                         *)
(*                                                                         *)
(* A log that a crash or a second process broke is kept as far as it goes, *)
(* and nothing lands in it any more.  Only what was said last may be lost, *)
(* and only if the process was killed while saying it.                     *)
(***************************************************************************)
EXTENDS Sequences

CONSTANTS Moves,      \* the effect sequences a move may land
          VerdictOf(_) \* the verdict a sequence of effects adds up to

VARIABLES landed,     \* the effects of every move that landed, in order
          said,       \* the verdicts said, each with the number of effects it was said of
          held        \* whether the log is open, hangs on its last line, or is broken

vars == <<landed, said, held>>

Init == landed = <<>> /\ said = {} /\ held = "open"

(* A move lands all of its effects at once. *)
Move == /\ held = "open" /\ held' \in {"open", "hanging"}
        /\ \E effects \in Moves : landed' = landed \o effects
        /\ UNCHANGED said

(* A verdict is said of everything that landed so far, and of nothing else. *)
Say == /\ held = "open" /\ held' \in {"open", "hanging"}
       /\ said' = said \cup {<<Len(landed), VerdictOf(landed)>>}
       /\ UNCHANGED landed

Break == /\ held = "open" /\ held' = "broken"
         /\ UNCHANGED <<landed, said>>

(* What hangs is lost: the last move, or the last verdict. *)
Lose ==
  /\ held = "hanging" /\ held' = "broken"
  /\ \/ (\E effects \in Moves : landed = landed' \o effects) /\ UNCHANGED said
     \/ said = said' \cup {<<Len(landed), VerdictOf(landed)>>} /\ UNCHANGED landed

Next == Move \/ Say \/ Break \/ Lose

Spec == Init /\ [][Next]_vars
===============================================================================
