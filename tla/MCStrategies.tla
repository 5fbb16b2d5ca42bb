----------------------------- MODULE MCStrategies -----------------------------
(***************************************************************************)
(* Small goals for Strategies: bodies of two one-bit arguments, put in the     *)
(* canonical form, each pair there for what its comment says.                 *)
(***************************************************************************)
EXTENDS Strategies

a == Arg(0)
b == Arg(1)
zero == Const(0)
one  == Const(1)

\* An instruction that defines v, one that defines nothing, and a phi.
Def(at, v, op, xs)   == Instr(Block(at), op, Val(v), xs, <<>>)
Do(at, op, xs)       == Instr(Block(at), op, NoName, xs, <<>>)
Phi(at, v, xs, froms) == Instr(Block(at), "phi", Val(v), xs, [n \in DOMAIN froms |-> Block(froms[n])])
Go(at, to)           == Do(at, "br", <<Block(to)>>)
Branch(at, x, then, else) == Do(at, "br", <<x, Block(else), Block(then)>>)

Goal(src, tgt) == [src |-> Canon(src), tgt |-> Canon(tgt)]

\* A straight line with an operation swapped, one left out, one put in and one changed.
Straight == Goal(
  <<Def(0, 0, "add", <<a, b>>), Def(0, 1, "mul", <<a, b>>), Do(0, "use", <<Val(1)>>),
    Def(0, 2, "add", <<Val(0), zero>>), Def(0, 3, "eq", <<Val(2), b>>), Do(0, "use", <<Val(2)>>),
    Do(0, "ret", <<Val(3)>>)>>,
  <<Def(0, 0, "add", <<a, b>>), Def(0, 1, "mul", <<b, a>>), Do(0, "use", <<Val(1)>>),
    Do(0, "use", <<Val(0)>>), Def(0, 2, "ne", <<a, zero>>), Def(0, 3, "eq", <<Val(2), zero>>),
    Do(0, "ret", <<Val(3)>>)>>)

\* A slot stored on two paths and read after them, against a phi.
Slots == Goal(
  <<Def(0, 0, "alloca", <<>>), Def(0, 1, "alloca", <<>>), Def(0, 2, "eq", <<a, b>>),
    Do(0, "store", <<b, Val(1)>>), Branch(0, Val(2), 1, 2),
    Do(1, "store", <<a, Val(0)>>), Go(1, 3),
    Def(2, 3, "mul", <<a, b>>), Do(2, "store", <<Val(3), Val(0)>>), Go(2, 3),
    Def(3, 4, "load", <<Val(0)>>), Def(3, 5, "load", <<Val(1)>>), Def(3, 6, "add", <<Val(4), Val(5)>>),
    Do(3, "ret", <<Val(6)>>)>>,
  <<Def(0, 0, "eq", <<a, b>>), Branch(0, Val(0), 1, 2), Go(1, 3),
    Def(2, 1, "mul", <<a, b>>), Go(2, 3),
    Phi(3, 2, <<a, Val(1)>>, <<1, 2>>), Def(3, 3, "add", <<Val(2), b>>), Do(3, "ret", <<Val(3)>>)>>)

\* A rotated loop whose exit its guard enters too, with a slot and a sum around it.
Rotated == Goal(
  <<Def(0, 0, "eq", <<a, zero>>), Branch(0, Val(0), 2, 1),
    Phi(1, 1, <<zero, Val(2)>>, <<0, 1>>), Def(1, 2, "add", <<Val(1), one>>), Do(1, "use", <<Val(1)>>),
    Def(1, 3, "eq", <<Val(2), b>>), Branch(1, Val(3), 2, 1),
    Phi(2, 4, <<b, Val(1)>>, <<0, 1>>), Def(2, 5, "mul", <<Val(4), b>>), Do(2, "ret", <<Val(5)>>)>>,
  <<Def(0, 0, "ne", <<a, zero>>), Branch(0, Val(0), 1, 2),
    Phi(1, 1, <<zero, Val(2)>>, <<0, 1>>), Def(1, 2, "add", <<one, Val(1)>>), Do(1, "use", <<Val(1)>>),
    Def(1, 3, "ne", <<Val(2), b>>), Branch(1, Val(3), 1, 2),
    Phi(2, 4, <<b, Val(1)>>, <<0, 1>>), Def(2, 5, "mul", <<b, Val(4)>>), Do(2, "ret", <<Val(5)>>)>>)

\* A branch that an assume of the entry decides.
Assumed == Goal(
  <<Def(0, 0, "eq", <<a, zero>>), Do(0, "assume", <<Val(0)>>), Def(0, 1, "eq", <<a, zero>>),
    Branch(0, Val(1), 1, 2), Go(1, 3), Do(2, "use", <<b>>), Go(2, 3),
    Phi(3, 2, <<a, b>>, <<1, 2>>), Do(3, "ret", <<Val(2)>>)>>,
  <<Def(0, 0, "eq", <<a, zero>>), Do(0, "assume", <<Val(0)>>), Def(0, 1, "eq", <<a, zero>>),
    Do(0, "ret", <<a>>)>>)

\* A slot that a loop reads and stores into, against a phi.
Looped == Goal(
  <<Def(0, 0, "alloca", <<>>), Do(0, "store", <<a, Val(0)>>), Go(0, 1),
    Def(1, 1, "load", <<Val(0)>>), Do(1, "use", <<Val(1)>>), Def(1, 2, "mul", <<Val(1), b>>),
    Do(1, "store", <<Val(2), Val(0)>>), Def(1, 3, "eq", <<Val(2), zero>>), Branch(1, Val(3), 2, 1),
    Def(2, 4, "load", <<Val(0)>>), Do(2, "ret", <<Val(4)>>)>>,
  <<Go(0, 1),
    Phi(1, 0, <<a, Val(1)>>, <<0, 1>>), Do(1, "use", <<Val(0)>>), Def(1, 1, "mul", <<b, Val(0)>>),
    Def(1, 2, "eq", <<Val(1), zero>>), Branch(1, Val(2), 2, 1), Do(2, "ret", <<Val(1)>>)>>)

\* A loop entered past an operation as well as after it.
Entered == Goal(
  <<Def(0, 0, "eq", <<a, b>>), Branch(0, Val(0), 1, 2),
    Def(1, 1, "mul", <<a, b>>), Do(1, "use", <<Val(1)>>), Go(1, 2),
    Phi(2, 2, <<zero, one, Val(3)>>, <<0, 1, 2>>), Def(2, 3, "add", <<Val(2), one>>),
    Def(2, 4, "eq", <<Val(3), b>>), Branch(2, Val(4), 3, 2),
    Def(3, 5, "mul", <<Val(3), b>>), Do(3, "ret", <<Val(5)>>)>>,
  <<Def(0, 0, "ne", <<a, b>>), Branch(0, Val(0), 2, 1),
    Def(1, 1, "mul", <<a, b>>), Do(1, "use", <<Val(1)>>), Go(1, 2),
    Phi(2, 2, <<zero, one, Val(3)>>, <<0, 1, 2>>), Def(2, 3, "add", <<one, Val(2)>>),
    Def(2, 4, "eq", <<Val(3), b>>), Branch(2, Val(4), 3, 2),
    Def(3, 5, "mul", <<b, Val(3)>>), Do(3, "ret", <<Val(5)>>)>>)

SomeGoals   == {Straight, Slots, Rotated, Assumed, Looped, Entered}
EditedGoals == {Slots, Rotated, Assumed, Looped}
===============================================================================
