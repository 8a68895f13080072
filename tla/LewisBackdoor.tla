---------------------------- MODULE LewisBackdoor ----------------------------
(* A test module with emulators of Lewis: MultiLewisLauncher (or LewisLauncher, *)
(* the case of one emulator) and the backdoor a test reaches them through.      *)
(* Every backdoor command is a process lewis-control of its own, which sends    *)
(* one request to the control port of an emulator; the program looks at it a    *)
(* number of times and then ends it, without knowing what became of the         *)
(* request.  Emulators, lewis-control and the device under test are external.   *)
EXTENDS Integers, Sequences, FiniteSets

CONSTANTS NEmulators,   \* emulators of the module, opened in this order
          Ports,        \* ports the system may hand out
          Calls,        \* what a test may call, with the arguments
          MaxCalls,     \* bound: calls of one test body
          CtlPolls,     \* bound: looks at a lewis-control process (39 in the code)
          MaxLate,      \* bound: requests of ended lewis-control processes on their way
          Depth         \* bound: nested contexts

Addrs == 1..NEmulators
Values == {"True", "False"}
Nothing == "nothing"            \* no output, or the text of an error
Asserts == {"is", "isnot"}
Vars == {c.var : c \in Calls}
Kinds == Asserts \cup {"set", "setis", "enter", "off", "on"}

ASSUME LewisAssumption ==
  /\ NEmulators \in Nat \ {0} /\ Ports # {} /\ MaxCalls \in Nat /\ Depth \in Nat
  /\ CtlPolls \in Nat \ {0} /\ MaxLate \in Nat
  /\ Calls \subseteq [kind : Kinds, on : Addrs, var : Vars, val : Values,
                      strict : BOOLEAN, waits : Nat]

VARIABLES
  pc,        \* opening, test, poll, unwind, closing, gone, leaked
  next,      \* the emulator MultiLewisLauncher opens or closes next
  alive, bound, port,   \* an emulator's process; whether it has its control port
  device,    \* the variables of the emulated devices
  flag,      \* LewisLauncher._connected
  ctl,       \* the latest lewis-control process, its request, and whether it holds
  polls,     \* looks at it so far
  late,      \* requests whose process was ended, which may still be carried out
  call,      \* the latest call of the test body, or the leaving of a context
  waits,     \* rounds left before the last try of a wait
  stack,     \* contexts open, outermost first
  raising,   \* an exception is on its way out of the test body
  verdict,   \* how the latest call ended: none, passed, failed, raised
  calls,     \* calls made so far
  missed,    \* history: variables an emulator may not hold as last commanded
  shared,    \* history: a port was handed out while an emulator had yet to bind its own
  seen       \* history: values the variable of an assertion has had since it began

emulators == <<alive, bound, port, device, flag>>
command == <<ctl, polls, late>>
body == <<call, waits, stack, raising, verdict, calls>>
history == <<missed, shared, seen>>
lewisVars == <<pc, next, emulators, command, body, history>>

Request == [to : Ports, on : Addrs, var : Vars, val : Values]
NoCall == [kind |-> "none"]
NoCtl == [state |-> "none"]

LewisInit ==
  /\ pc = "opening" /\ next = 1
  /\ alive = [a \in Addrs |-> FALSE] /\ bound = alive
  /\ port \in {[a \in Addrs |-> p] : p \in {CHOOSE q \in Ports : TRUE}}
  /\ device = [a \in Addrs |-> [v \in Vars |-> "True"]]
  /\ flag = [a \in Addrs |-> "None"]
  /\ ctl = NoCtl /\ polls = 0 /\ late = {}
  /\ call = NoCall /\ waits = 0 /\ stack = <<>> /\ raising = FALSE
  /\ verdict = "none" /\ calls = 0
  /\ missed = {} /\ shared = FALSE /\ seen = {}

(***************************************************************************)
(* Opening and closing.                                                    *)
(***************************************************************************)

\* Mutant: the search does not try to bind the port it returns.
AnyPorts == Ports

\* get_free_ports holds its sockets only while it searches: what it returns is not
\* bound now, and nobody's yet.
FreePorts == Ports \ {port[a] : a \in {b \in Addrs : bound[b]}}

OpenLewis ==
  /\ pc = "opening" /\ next <= NEmulators
  /\ \E p \in FreePorts : port' = [port EXCEPT ![next] = p]
  /\ alive' = [alive EXCEPT ![next] = TRUE]
  /\ flag' = [flag EXCEPT ![next] = "True"]
  /\ shared' = (shared \/ \E a \in Addrs : alive[a] /\ ~bound[a] /\ port[a] = port'[next])
  /\ next' = next + 1
  /\ UNCHANGED <<pc, bound, device, command, body, missed, seen>>

\* An exception of _open leaves __enter__, whose __exit__ is then never called.
OpenLewisRaises ==
  /\ pc = "opening" /\ next <= NEmulators
  /\ pc' = "leaked"
  /\ UNCHANGED <<next, emulators, command, body, history>>

LewisOpened ==
  /\ pc = "opening" /\ next > NEmulators
  /\ pc' = "test"
  /\ UNCHANGED <<next, emulators, command, body, history>>

BeginClose ==
  /\ pc = "test" /\ stack = <<>>
  /\ pc' = "closing" /\ next' = 1
  /\ UNCHANGED <<emulators, command, body, history>>

\* Mutant: the loop ends at an emulator that has ended by itself.
CloseUntilDead ==
  /\ pc = "closing" /\ next <= NEmulators
  /\ alive' = [alive EXCEPT ![next] = FALSE]
  /\ bound' = [bound EXCEPT ![next] = FALSE]
  /\ next' = IF alive[next] THEN next + 1 ELSE NEmulators + 1
  /\ UNCHANGED <<pc, port, device, flag, command, body, history>>

CloseLewis ==
  /\ pc = "closing" /\ next <= NEmulators
  /\ alive' = [alive EXCEPT ![next] = FALSE]
  /\ bound' = [bound EXCEPT ![next] = FALSE]
  /\ next' = next + 1
  /\ UNCHANGED <<pc, port, device, flag, command, body, history>>

LewisClosed ==
  /\ pc = "closing" /\ next > NEmulators
  /\ pc' = "gone"
  /\ UNCHANGED <<next, emulators, command, body, history>>

(***************************************************************************)
(* backdoor_command.                                                       *)
(***************************************************************************)

Spawn(op, a, v, x) ==
  /\ ctl' = [op |-> op, to |-> port[a], on |-> a, var |-> v, val |-> x,
             state |-> "running", held |-> FALSE, out |-> Nothing]
  /\ polls' = 0 /\ pc' = "poll"

Sets(a, v, x) == Spawn("set", a, v, x)
Gets(a, v) == Spawn("get", a, v, "True")

\* A request that was carried out puts its variable right, unless an older one is
\* still on its way; one that was not leaves it unknown.
Missing ==
  LET w == <<ctl.on, ctl.var>> IN
  IF ctl.op = "get" THEN missed
  ELSE IF ~ctl.held THEN missed \cup {w}
  ELSE IF \E r \in late : <<r.on, r.var>> = w THEN missed ELSE missed \ {w}

(***************************************************************************)
(* What a caller does with the end of its command.  An exception unwinds   *)
(* the contexts the test body has open.                                    *)
(***************************************************************************)

Over(result) ==
  /\ verdict' = result
  /\ call' = IF call.kind \in Asserts THEN call ELSE NoCall
  /\ ctl' = NoCtl /\ polls' = 0

Idle(result) ==
  /\ pc' = IF raising THEN "unwind" ELSE "test"
  /\ UNCHANGED raising /\ Over(result)

Throw(result) ==
  /\ pc' = "unwind" /\ raising' = TRUE
  /\ Over(result)

\* The contexts that stay open; those on the same variable no longer hold it.
Left ==
  LET top == stack[Len(stack)] IN
  [i \in 1..(Len(stack) - 1) |->
     [stack[i] EXCEPT !.held = @ /\ <<stack[i].on, stack[i].var>> # <<top.on, top.var>>]]

\* The functions of the value: an exception of cast is a failure either way.
Satisfied(out) ==
  /\ call.strict => out \in Values
  /\ call.kind = "is" => out = call.val
  /\ call.kind = "isnot" => out # call.val

\* _wait_for_emulator_lambda: each round may use up the rest of the time.
Judge(out) ==
  /\ UNCHANGED <<flag, stack>>
  /\ \/ Satisfied(out) /\ Idle("passed") /\ UNCHANGED waits
     \/ ~Satisfied(out) /\ waits = 0 /\ Throw("failed") /\ UNCHANGED waits
     \/ /\ ~Satisfied(out) /\ waits > 0
        /\ waits' \in 0..(waits - 1)
        /\ Gets(call.on, call.var)
        /\ UNCHANGED <<call, raising, verdict>>

Return(out) ==
  \/ /\ call.kind = "set"
     /\ Idle("passed") /\ UNCHANGED <<flag, stack, waits>>
  \/ /\ call.kind = "setis"
     /\ call' = [call EXCEPT !.kind = "is"]
     /\ Gets(call.on, call.var)
     /\ UNCHANGED <<flag, stack, waits, raising, verdict>>
  \/ /\ call.kind \in Asserts /\ Judge(out)
  \/ /\ call.kind \in {"off", "on"}
     /\ flag' = [flag EXCEPT ![call.on] = IF call.kind = "on" THEN "True" ELSE "False"]
     /\ Idle("passed") /\ UNCHANGED <<stack, waits>>
  \/ /\ call.kind = "enter"
     /\ stack' = Append(stack, [on |-> call.on, var |-> call.var, held |-> TRUE])
     /\ Idle("passed") /\ UNCHANGED <<flag, waits>>
  \/ /\ call.kind = "leave"
     /\ stack' = Left
     /\ Idle("passed") /\ UNCHANGED <<flag, waits>>

\* The program looks 39 times, a tenth of a second apart; only code 0 ends the loop.
SeesExit ==
  /\ pc = "poll" /\ polls < CtlPolls
  /\ ctl.state = "exit0"
  /\ missed' = Missing /\ Return(ctl.out)
  /\ UNCHANGED <<next, alive, bound, port, device, late, calls, shared, seen>>

\* Mutant: the loop goes on until the process has ended well.
WaitsForExit ==
  /\ pc = "poll" /\ polls < CtlPolls
  /\ ctl.state # "exit0"
  /\ UNCHANGED lewisVars

\* Mutant: one look too many.
LooksAgain ==
  /\ pc = "poll" /\ polls <= CtlPolls
  /\ ctl.state # "exit0"
  /\ polls' = polls + 1
  /\ UNCHANGED <<pc, next, emulators, ctl, late, body, history>>

SeesNothing ==
  /\ pc = "poll" /\ polls < CtlPolls
  /\ ctl.state # "exit0"
  /\ polls' = polls + 1
  /\ UNCHANGED <<pc, next, emulators, ctl, late, body, history>>

\* Mutant: disconnect and connect note the new state in a finally clause.
NotesAnyway ==
  /\ pc = "poll" /\ ctl.state = "unmade"
  /\ stack' = IF call.kind = "leave" THEN Left ELSE stack
  /\ missed' = IF call.kind = "leave" THEN Missing ELSE missed
  /\ flag' = IF call.kind = "off" THEN [flag EXCEPT ![call.on] = "False"] ELSE flag
  /\ Throw("raised")
  /\ UNCHANGED <<next, alive, bound, port, device, late, waits, calls, shared, seen>>

\* Mutant: without output, the value last commanded counts as read.
AssumesValue ==
  /\ pc = "poll" /\ polls = CtlPolls /\ ctl.state # "unmade"
  /\ late' = late /\ missed' = Missing
  /\ Return(IF ctl.out = Nothing /\ ctl.op = "get" THEN call.val ELSE ctl.out)
  /\ UNCHANGED <<next, alive, bound, port, device, calls, shared, seen>>

\* The else of the loop ends the process.  Its request may have left it already, and
\* what it had printed is all that is read.
Terminates ==
  /\ pc = "poll" /\ polls = CtlPolls /\ ctl.state # "unmade"
  /\ \/ late' = late
     \/ /\ ctl.state = "running" /\ ctl.op = "set" /\ Cardinality(late) < MaxLate
        /\ late' = late \cup {[to |-> ctl.to, on |-> ctl.on, var |-> ctl.var, val |-> ctl.val]}
  /\ missed' = Missing
  /\ \E out \in {ctl.out, Nothing} : Return(out)
  /\ UNCHANGED <<next, alive, bound, port, device, calls, shared, seen>>

\* "failed to create process" among the lines is an OSError, at whichever look the
\* script that printed it has ended, with code 0 or not.
CannotSpawn ==
  /\ pc = "poll" /\ ctl.state = "unmade"
  /\ stack' = IF call.kind = "leave" THEN Left ELSE stack
  /\ missed' = IF call.kind = "leave" THEN Missing ELSE missed
  /\ Throw("raised")
  /\ UNCHANGED <<next, emulators, late, waits, calls, shared, seen>>

(***************************************************************************)
(* The test body.                                                          *)
(***************************************************************************)

Calling(c, kinds) ==
  /\ pc = "test" /\ calls < MaxCalls /\ c.kind \in kinds
  /\ call' = c /\ waits' = c.waits
  /\ calls' = calls + 1
  /\ seen' = IF c.kind \in Asserts \cup {"setis"} THEN {device[c.on][c.var]} ELSE {}
  /\ UNCHANGED <<next, emulators, late, stack, raising, verdict, missed, shared>>

\* backdoor_set_on_device, backdoor_run_function_on_device with its arguments, and
\* the setting of backdoor_set_and_assert_set.
SetOnDevice(c) == Calling(c, {"set", "setis"}) /\ Sets(c.on, c.var, c.val)

\* assert_that_emulator_value_is and _is_not; a strict cast raises for what is no value.
AssertValue(c) == Calling(c, Asserts) /\ Gets(c.on, c.var)

\* backdoor_simulate_disconnected_device and _addr: the setting comes before the try.
SimulateDisconnected(c) ==
  /\ Len(stack) < Depth
  /\ Calling(c, {"enter"}) /\ Sets(c.on, c.var, "False")

Disconnect(c) == flag[c.on] = "True" /\ Calling(c, {"off"}) /\ Sets(c.on, c.var, "False")

Connect(c) == flag[c.on] # "True" /\ Calling(c, {"on"}) /\ Sets(c.on, c.var, "True")

LeavesByCommand ==
  /\ LET top == stack[Len(stack)] IN
       /\ call' = [kind |-> "leave", on |-> top.on, var |-> top.var]
       /\ Sets(top.on, top.var, "True")
  /\ UNCHANGED <<next, emulators, late, waits, stack, raising, verdict, calls, history>>

\* Mutant: a context without finally.
LeaveWithoutFinally ==
  \/ pc = "test" /\ stack # <<>> /\ LeavesByCommand
  \/ /\ pc = "unwind" /\ stack # <<>> /\ stack' = Left
     /\ UNCHANGED <<pc, next, emulators, command, call, waits, raising, verdict, calls, history>>

\* The finally of the context: its body may have ended or raised.
LeaveContext == pc \in {"test", "unwind"} /\ stack # <<>> /\ LeavesByCommand

\* The test body raises by itself.
BodyRaises ==
  /\ pc = "test" /\ stack # <<>>
  /\ pc' = "unwind" /\ raising' = TRUE
  /\ UNCHANGED <<next, emulators, command, call, waits, stack, verdict, calls, history>>

\* The runner notes the failure of the test and goes on to the next one.
TestFails ==
  /\ pc = "unwind" /\ stack = <<>>
  /\ pc' = "test" /\ raising' = FALSE
  /\ UNCHANGED <<next, emulators, command, call, waits, stack, verdict, calls, history>>

(***************************************************************************)
(* Outside the program.                                                    *)
(***************************************************************************)

\* A Lewis that finds its port bound by another does not get it.
Binds(a) ==
  /\ alive[a] /\ ~bound[a]
  /\ ~\E b \in Addrs : bound[b] /\ port[b] = port[a]
  /\ bound' = [bound EXCEPT ![a] = TRUE]
  /\ UNCHANGED <<pc, next, alive, port, device, flag, command, body, history>>

LewisDies(a) ==
  /\ alive[a] /\ pc = "poll" /\ ctl.on = a
  /\ alive' = [alive EXCEPT ![a] = FALSE] /\ bound' = [bound EXCEPT ![a] = FALSE]
  /\ UNCHANGED <<pc, next, port, device, flag, command, body, history>>

Changes(a, v, x) ==
  /\ device' = [device EXCEPT ![a][v] = x]
  /\ seen' = IF pc = "poll" /\ seen # {} /\ <<call.on, call.var>> = <<a, v>> THEN seen \cup {x} ELSE seen

\* The emulator bound to the port of a request carries it out.
Answers ==
  /\ pc = "poll" /\ ctl.state = "running"
  /\ \E a \in Addrs :
       /\ bound[a] /\ port[a] = ctl.to
       /\ IF ctl.op = "set" THEN Changes(a, ctl.var, ctl.val) ELSE UNCHANGED <<device, seen>>
       /\ ctl' = [ctl EXCEPT !.state = "applied", !.held = TRUE,
                             !.out = IF ctl.op = "get" THEN device[a][ctl.var] ELSE Nothing]
  /\ UNCHANGED <<pc, next, alive, bound, port, flag, polls, late, body, missed, shared>>

CtlExits ==
  /\ pc = "poll" /\ ctl.state = "applied"
  /\ ctl' = [ctl EXCEPT !.state = "exit0"]
  /\ UNCHANGED <<pc, next, emulators, polls, late, body, history>>

\* lewis-control ends with another code, or could not be created at all.
CtlFails ==
  /\ pc = "poll"
  /\ \/ ctl.state \in {"running", "applied"} /\ ctl' = [ctl EXCEPT !.state = "failed", !.out = Nothing]
     \/ ctl.state = "running" /\ ctl' = [ctl EXCEPT !.state = "unmade"]
  /\ UNCHANGED <<pc, next, emulators, polls, late, body, history>>

\* A request that outlived its process is carried out after all, or lost.
LateAnswer ==
  \E r \in late :
    /\ late' = late \ {r}
    /\ \/ \E a \in Addrs : bound[a] /\ port[a] = r.to /\ Changes(a, r.var, r.val)
       \/ UNCHANGED <<device, seen>>
    /\ ctl' = IF pc = "poll" /\ <<ctl.on, ctl.var>> = <<r.on, r.var>>
              THEN [ctl EXCEPT !.held = FALSE] ELSE ctl
    /\ UNCHANGED <<pc, next, alive, bound, port, flag, polls, body, missed, shared>>

\* The IOC under test writes to its device; only "value" is the IOC's to write.
DeviceMoves(a) ==
  /\ alive[a] /\ pc = "poll" /\ call.on = a /\ call.var = "value"
  /\ \E x \in Values \ {device[a]["value"]} : Changes(a, "value", x)
  /\ UNCHANGED <<pc, next, alive, bound, port, flag, command, body, missed, shared>>

LewisProgram ==
  \/ OpenLewis \/ LewisOpened \/ CloseLewis \/ LewisClosed
  \/ SeesExit \/ SeesNothing \/ Terminates \/ CannotSpawn
  \/ pc = "unwind" /\ LeaveContext
  \/ TestFails

LewisTest ==
  \/ \E c \in Calls :
       SetOnDevice(c) \/ AssertValue(c) \/ SimulateDisconnected(c) \/ Disconnect(c) \/ Connect(c)
  \/ pc = "test" /\ LeaveContext
  \/ BodyRaises \/ BeginClose

LewisWorld ==
  \/ OpenLewisRaises \/ Answers \/ CtlExits \/ CtlFails \/ LateAnswer
  \/ \E a \in Addrs : Binds(a) \/ LewisDies(a) \/ DeviceMoves(a)

LewisNext == LewisProgram \/ LewisTest \/ LewisWorld
==============================================================================
