------------------------------- MODULE MCTools ------------------------------
(* Calls of every tool, with what the drivers tell apart. *)
EXTENDS Tools

Of(tool, lines, exit) ==
  [tool |-> tool, exit |-> exit, says |-> [i \in DOMAIN lines |-> [line |-> lines[i], n |-> 1]]]

\* What alive-tv says of one pair: maybe some text, then its counts.
Checked(text, found) ==
  LET counts == <<"correct", "incorrect", "failed", "errors">>
      n == Len(text)
  IN  [tool |-> "alive-tv", exit |-> 0,
       says |-> [i \in 1..(n + 4) |->
                   IF i <= n THEN [line |-> text[i], n |-> 1]
                   ELSE [line |-> counts[i - n], n |-> IF counts[i - n] = found THEN 1 ELSE 0]]]

AllScripts ==
  {Checked(<<>>, "correct"), Checked(<<"text">>, "incorrect"), Checked(<<"timeout">>, "failed"),
   Checked(<<>>, "failed"), Checked(<<>>, "errors"), Checked(<<>>, "nothing"),
   Of("alive-tv", <<"text">>, 1),
   Of("llubi", <<"text", "ub", "text">>, 1), Of("llubi", <<"text", "left">>, 0),
   Of("llubi", <<"text">>, 1),
   Of("llops", <<"{", "ok", "}">>, 0), Of("llops", <<"{", "code", "}">>, 1),
   Of("llops", <<"{", "}">>, 1), Of("llops", <<"text">>, 2),
   Of("llrwt", <<"text", "text">>, 0), Of("llrwt", <<"unknown rule">>, 2),
   Of("llrwt", <<"mlir-opt">>, 1), Of("llrwt", <<"verify", "text">>, 1),
   Of("llrwt", <<"timed out">>, 1), Of("llrwt", <<"text">>, 2), Of("llrwt", <<"text">>, 1),
   Of("bash", <<"text">>, 0)}
=============================================================================
