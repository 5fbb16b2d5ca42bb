--------------------------------- MODULE MCRun ---------------------------------
(* Two processes in one run directory: one may start while the other does, resume the run of
   the other while it lives, or after it was killed. *)
EXTENDS Run
===============================================================================
