------------------------------ MODULE MCBrowser ------------------------------
(***************************************************************************)
(* A small instance of Browser: a first run with two calls at a time after   *)
(* the split of its input, and a second that gives an id of the first again. *)
(***************************************************************************)
EXTENDS Browser

ThreeThenOne == <<3, 1>>
=============================================================================
