------------------------------ MODULE IocLife ------------------------------
(***************************************************************************)
(* What the IOC launchers promise: launches are started one at a time and   *)
(* in order; when a start ends, the IOC is up or it was abandoned; what is    *)
(* up is closed in reverse order; after a failed start everything is closed  *)
(* before the next one; the register holds the launch started last of those  *)
(* that got as far as being registered.                                      *)
(***************************************************************************)
EXTENDS Integers

CONSTANTS NLaunches, Name, NameOf

Launch == 1..NLaunches

VARIABLES
  state,   \* of each launch
  running  \* the register

vars == <<state, running>>

Init ==
  /\ state = [l \in Launch |-> "absent"]
  /\ running = [n \in Name |-> 0]

Before(l) == 1..(l - 1)
After(l) == (l + 1)..NLaunches

Start(l) ==
  /\ state[l] = "absent"
  /\ \A k \in Before(l) : state[k] \notin {"absent", "starting"}
  /\ l > 1 /\ state[l - 1] = "abandoned" => \A k \in Before(l) : state[k] # "up"
  /\ state' = [state EXCEPT ![l] = "starting"]
  /\ UNCHANGED running

Register(l) ==
  /\ state[l] = "starting"
  /\ running' = [running EXCEPT ![NameOf[l]] = l]
  /\ UNCHANGED state

ComeUp(l) ==
  /\ state[l] = "starting"
  /\ state' = [state EXCEPT ![l] = "up"]
  /\ running' = [running EXCEPT ![NameOf[l]] = l]

Abandon(l) ==
  /\ state[l] = "starting"
  /\ state' = [state EXCEPT ![l] = "abandoned"]
  /\ UNCHANGED running

Close(l) ==
  /\ state[l] = "up"
  /\ \A k \in After(l) : state[k] \notin {"starting", "up"}
  /\ state' = [state EXCEPT ![l] = "closed"]
  /\ UNCHANGED running

Next == \E l \in Launch : Start(l) \/ Register(l) \/ ComeUp(l) \/ Abandon(l) \/ Close(l)

Spec == Init /\ [][Next]_vars
=============================================================================
