------------------------------ MODULE MCRunTools -----------------------------
(* The two ends of a run that share no state: its directory, and the processes of the tools it
   asks.  A behaviour moves one of them, and the other stays as it began, where nothing is
   fair: the directory is empty, and no tool is asked. *)
EXTENDS Run, MCTools

VARIABLE moving  \* which of the two moves

allVars == <<moving, vars, toolVars>>

Bare == [llvm |-> [t \in CheckedTools |-> "absent"], rewriter |-> FALSE, translators |-> {}]

EitherInit ==
  /\ Init /\ ToolInit
  /\ moving \in {"directory", "tools"}
  /\ moving = "directory" => built = Bare

EitherNext ==
  \/ moving = "directory" /\ Next /\ UNCHANGED <<moving, toolVars>>
  \/ moving = "tools" /\ ToolNext /\ UNCHANGED <<moving, vars>>

EitherSpec ==
  EitherInit /\ [][EitherNext]_allVars /\ RunFairness /\ ToolFairness
=============================================================================
