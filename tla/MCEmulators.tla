---------------------------- MODULE MCEmulators ----------------------------
(* Two emulators, a port to spare, a variable for each use of the backdoor.   *)
EXTENDS Emulators

Call(kind, a, v, x, strict, rounds) ==
  [kind |-> kind, on |-> a, var |-> v, val |-> x, strict |-> strict, waits |-> rounds]

MCCalls ==
  {Call("set", 2, "value", "True", FALSE, 0)}
  \cup {Call("setis", 2, "value", "False", FALSE, 1), Call("is", 2, "value", "False", FALSE, 1),
        Call("isnot", 2, "value", "True", TRUE, 1), Call("isnot", 2, "value", "True", FALSE, 0)}
  \cup {Call("enter", 1, "connected", "False", FALSE, 0),
        Call("off", 1, "link", "False", FALSE, 0), Call("on", 1, "link", "True", FALSE, 0)}
============================================================================
