---------------------------- MODULE MCCertificate ----------------------------
(***************************************************************************)
(* A small instance of Certificate: two programs that refine each other, so  *)
(* that every goal can be proved and every chain earn a certificate.        *)
(***************************************************************************)
EXTENDS Certificate

CONSTANTS lo, hi

TwoPrograms == {lo, hi}
TwoRefines  == TwoPrograms \X TwoPrograms

RightAsked == {<<hi, lo>>}

NoScratch == {}

LogMoves == {"revert", "rewrite", "interpose", "plain", "loop", "case", "undo", "strengthen", "nested", "check"}

StaleMoves == {"rewrite", "plain", "check"}

\* The caller splits the root, as it is asked, and interposes its callee: the steps are
\* those of the two halves of a cut.
OneCut ==
  /\ \A g \in DOMAIN tree :
       /\ tree[g].role \in {"outer", "callee", "holds"} => tree[g].parent = Root
       /\ tree[g].role = "lhs" => tree[tree[g].parent].role = "callee"
       /\ tree[g].role \in {"holds", "fails", "lhs", "rhs"} => effects[g] = <<>>
  /\ \A side \in Sides : Len(tree[Root].hist[side]) = 1
  /\ Len(effects[Root]) <= 1
=============================================================================
