------------------------------ MODULE MCChecks ------------------------------
(***************************************************************************)
(* A small instance of Checks: three values, and lines that add one, clear,  *)
(* make zero one, and are undefined at zero.                                *)
(***************************************************************************)
EXTENDS Checks

ThreeValues == 0..2
FourOps     == {"inc", "zero", "one", "div"}

MCDoes(op, v) ==
  CASE op = "inc"  -> (v + 1) % 3
    [] op = "zero" -> 0
    [] op = "one"  -> IF v = 0 THEN 1 ELSE v
    [] op = "div"  -> IF v = 0 THEN Undefined ELSE v

Inc  == Line("inc")
Zero == Line("zero")
One  == Line("one")
Div  == Line("div")

Straight(lines)     == [blocks |-> <<lines>>, loops |-> FALSE]
Two(lines, rest)    == [blocks |-> <<lines, rest>>, loops |-> FALSE]
Looped(lines, rest) == [blocks |-> <<lines, rest>>, loops |-> TRUE]

\* The same program in other blocks, others that differ in a window at the start, in the
\* middle or at the end of one, and loops that stop, never stop or are undefined.
SomePrograms ==
  {Straight(<<Zero, Inc>>), Straight(<<Inc, Zero, Inc>>), Straight(<<Inc, Div>>),
   Straight(<<Inc, One>>), Two(<<Zero>>, <<Inc>>),
   Looped(<<Inc>>, <<Zero, Div>>), Looped(<<Inc>>, <<>>), Looped(<<Inc, Div>>, <<>>),
   Looped(<<Zero, Inc, Inc>>, <<>>)}

\* A claim that holds, its converse, which does not, and one about a loop.
SomeAsked == {<<Straight(<<Inc, Div>>), Straight(<<Inc, One>>)>>,
              <<Straight(<<Inc, One>>), Straight(<<Inc, Div>>)>>,
              <<Looped(<<Inc, Div>>, <<>>), Looped(<<Inc>>, <<>>)>>}

\* What Div needs, and more than it needs.
SomeFacts == {{1, 2}, {1}}
=============================================================================
