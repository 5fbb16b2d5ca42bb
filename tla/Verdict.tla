------------------------------- MODULE Verdict -------------------------------
(***************************************************************************)
(* What a run promises its caller: one question, whether the tgt it was      *)
(* given refines the src, and a verdict on it. The verdict is never wrong.   *)
(* A proof may be retracted, because touching a proved goal reopens it, and  *)
(* found again. A counterexample is final.                                  *)
(***************************************************************************)
VARIABLES
  verdict,   \* what the run says: unknown, verified or counterexample
  holds      \* whether the tgt refines the src, which no move changes

Init ==
  /\ holds \in BOOLEAN
  /\ verdict = "unknown"

Verify ==
  /\ verdict = "unknown"
  /\ holds
  /\ verdict' = "verified"
  /\ UNCHANGED holds

Retract ==
  /\ verdict = "verified"
  /\ verdict' = "unknown"
  /\ UNCHANGED holds

Refute ==
  /\ verdict = "unknown"
  /\ ~holds
  /\ verdict' = "counterexample"
  /\ UNCHANGED holds

Next == Verify \/ Retract \/ Refute

Spec == Init /\ [][Next]_<<verdict, holds>>
=============================================================================
