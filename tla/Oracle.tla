------------------------------- MODULE Oracle -------------------------------
(***************************************************************************)
(* What the framework takes a tool for: something asked one question at a  *)
(* time that answers with the truth or with nothing at all.  Tools is      *)
(* shown to implement it.                                                  *)
(***************************************************************************)

CONSTANTS
  Questions,  \* what a tool may be asked
  Truths      \* what each question's answer is: a function on Questions

VARIABLES
  asked,      \* the question asked last
  heard       \* "idle", "waiting", "stopped", "none", or an answer

oracleVars == <<asked, heard>>

OracleInit == heard = "idle"

\* Ask.  A tool that cannot be run says at once that nothing is known.
Pose(q) ==
  /\ heard \notin {"waiting", "stopped"}
  /\ asked' = q
  /\ heard' \in {"waiting", "none"}

\* The truth about the question that was asked, or nothing.
Hear ==
  /\ heard = "waiting"
  /\ heard' \in {Truths[asked], "none"}
  /\ UNCHANGED asked

\* The run ends, whatever it was waiting for.
Cease ==
  /\ heard' = "stopped"
  /\ UNCHANGED asked

OracleNext == (\E q \in Questions : Pose(q)) \/ Hear \/ Cease

OracleSpec == OracleInit /\ [][OracleNext]_oracleVars
=============================================================================
