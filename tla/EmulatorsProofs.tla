--------------------------- MODULE EmulatorsProofs ---------------------------
(***************************************************************************)
(* The emulators of a module, for any number of emulators, ports and calls: *)
(*   their control ports                                                    *)
(*   the types of the backdoor and of its commands                          *)
(*   the processes of a command line, and closing them                      *)
(*   what a passed assertion has seen, and what devices were commanded      *)
(***************************************************************************)
EXTENDS Emulators, FiniteSetTheorems, SequenceLemmas, TLAPS

\* Ports and the state of processes are functions of the emulators.
PortsTyped ==
  /\ alive \in [Addrs -> BOOLEAN]
  /\ bound \in [Addrs -> BOOLEAN]
  /\ port \in [Addrs -> Ports]
  /\ next \in Nat \ {0}

PortsInv == PortsTyped /\ PortsDiffer

\* Only opening an emulator gives it a port, and only these make it alive.
OpenOrLess ==
  \/ OpenLewis
  \/ /\ UNCHANGED <<port, shared>>
     /\ PortsTyped'
     /\ \A a \in Addrs : alive'[a] => alive[a]

\* No emulator runs at first.
LEMMA PortsInit == Init => PortsInv
  BY LewisAssumption DEF Init, LewisInit, PortsInv, PortsTyped, PortsDiffer, Addrs

\* Every step of the program, of a test or of the world outside is one or the other.
LEMMA StepOpensOrNot == PortsTyped /\ [Next]_vars => OpenOrLess
<1> SUFFICES ASSUME PortsTyped, [Next]_vars PROVE OpenOrLess
  OBVIOUS
<1> USE DEF PortsTyped
<1>1. CASE CmdStep \/ UNCHANGED vars
  BY <1>1 DEF CmdStep, vars, lewisVars, emulators, history, OpenOrLess
<1>2. CASE LewisProgram
  <2>1. CASE OpenLewis
    BY <2>1 DEF OpenOrLess
  <2>2. CASE LewisOpened \/ LewisClosed \/ TestFails
    BY <2>2, LewisAssumption DEF LewisOpened, LewisClosed, TestFails, emulators, history, OpenOrLess
  <2>3. CASE CloseLewis
    <3>1. /\ alive' = [alive EXCEPT ![next] = FALSE] /\ bound' = [bound EXCEPT ![next] = FALSE]
          /\ next' = next + 1 /\ UNCHANGED <<port, shared>>
      BY <2>3 DEF CloseLewis, history
    <3>2. PortsTyped'
      <4>1. [alive EXCEPT ![next] = FALSE] \in [Addrs -> BOOLEAN]
        OBVIOUS
      <4>2. [bound EXCEPT ![next] = FALSE] \in [Addrs -> BOOLEAN]
        OBVIOUS
      <4>3. port' \in [Addrs -> Ports] /\ next' \in Nat \ {0}
        BY <3>1
      <4> QED BY <3>1, <4>1, <4>2, <4>3
    <3>3. ASSUME NEW a \in Addrs, alive'[a] PROVE alive[a]
      <4>1. alive'[a] = IF a = next THEN FALSE ELSE alive[a]
        BY <3>1
      <4> QED BY <3>3, <4>1
    <3> QED BY <3>1, <3>2, <3>3 DEF OpenOrLess
  <2>4. CASE SeesExit \/ SeesNothing \/ Terminates \/ CannotSpawn
    BY <2>4 DEF SeesExit, SeesNothing, Terminates, CannotSpawn, emulators, history, OpenOrLess
  <2>5. CASE LeaveContext
    BY <2>5 DEF LeaveContext, LeavesByCommand, emulators, history, OpenOrLess
  <2> QED BY <1>2, <2>1, <2>2, <2>3, <2>4, <2>5 DEF LewisProgram
<1>3. CASE LewisTest
  <2>1. ASSUME NEW c \in Calls,
               \/ SetOnDevice(c) \/ AssertValue(c) \/ SimulateDisconnected(c)
               \/ Disconnect(c) \/ Connect(c)
        PROVE  OpenOrLess
    BY <2>1 DEF SetOnDevice, AssertValue, SimulateDisconnected, Disconnect, Connect, Calling,
                emulators, OpenOrLess
  <2>2. CASE LeaveContext \/ BodyRaises
    BY <2>2 DEF LeaveContext, LeavesByCommand, BodyRaises, emulators, history, OpenOrLess
  <2>3. CASE BeginClose
    BY <2>3 DEF BeginClose, emulators, history, OpenOrLess
  <2> QED BY <1>3, <2>1, <2>2, <2>3 DEF LewisTest
<1>4. CASE LewisWorld
  <2>1. CASE OpenLewisRaises \/ Answers \/ CtlExits \/ CtlFails \/ LateAnswer
    BY <2>1 DEF OpenLewisRaises, Answers, CtlExits, CtlFails, LateAnswer, emulators, history, OpenOrLess
  <2>2. ASSUME NEW a \in Addrs, Binds(a) \/ LewisDies(a) \/ DeviceMoves(a)
        PROVE  OpenOrLess
    BY <2>2 DEF Binds, LewisDies, DeviceMoves, history, OpenOrLess
  <2> QED BY <1>4, <2>1, <2>2 DEF LewisWorld
<1> QED BY <1>1, <1>2, <1>3, <1>4 DEF Next, LewisStep, LewisNext

\* A port the search returns is not bound: an emulator that has it has yet to bind it.
LEMMA OpeningKeepsPorts == PortsInv /\ OpenLewis => PortsInv'
<1> SUFFICES ASSUME PortsInv, OpenLewis PROVE PortsInv'
  OBVIOUS
<1>1. next \in Addrs
  BY LewisAssumption DEF PortsInv, PortsTyped, OpenLewis, Addrs
<1>2. PICK p \in FreePorts : port' = [port EXCEPT ![next] = p]
  BY DEF OpenLewis
<1>3. PortsTyped'
  BY <1>1, <1>2 DEF PortsInv, PortsTyped, OpenLewis, FreePorts
<1>4. ASSUME NEW a \in Addrs, a # next, alive[a], port[a] = p
      PROVE  shared'
  <2>1. ~bound[a]
    BY <1>2, <1>4 DEF FreePorts
  <2>2. port'[next] = p
    BY <1>1, <1>2 DEF PortsInv, PortsTyped
  <2> QED BY <1>4, <2>1, <2>2 DEF OpenLewis
<1>5. ASSUME NEW a \in Addrs, NEW b \in Addrs, a # b, alive'[a], alive'[b], port'[a] = port'[b]
      PROVE  shared'
  <2>1. CASE a = next
    BY <1>1, <1>2, <1>4, <1>5, <2>1 DEF PortsInv, PortsTyped, OpenLewis
  <2>2. CASE b = next
    BY <1>1, <1>2, <1>4, <1>5, <2>2 DEF PortsInv, PortsTyped, OpenLewis
  <2>3. CASE a # next /\ b # next
    BY <1>1, <1>2, <1>5, <2>3 DEF PortsInv, PortsTyped, PortsDiffer, OpenLewis
  <2> QED BY <2>1, <2>2, <2>3
<1> QED BY <1>3, <1>5 DEF PortsInv, PortsDiffer

\* A step that opens nothing leaves the ports alone.
LEMMA PortsStep == PortsInv /\ [Next]_vars => PortsInv'
<1> SUFFICES ASSUME PortsInv, [Next]_vars PROVE PortsInv'
  OBVIOUS
<1>1. CASE OpenLewis
  BY <1>1, OpeningKeepsPorts
<1>2. CASE ~OpenLewis
  BY <1>2, StepOpensOrNot DEF OpenOrLess, PortsInv, PortsDiffer, PortsTyped
<1> QED BY <1>1, <1>2

\* Two emulators that run were given one control port only if one of them had not yet
\* bound it when the search for the other began.
THEOREM PortsAreDifferent == Spec => []PortsDiffer
<1>1. PortsInv => PortsDiffer
  BY DEF PortsInv
<1> QED BY PortsInit, PortsStep, <1>1, PTL DEF Spec

-----------------------------------------------------------------------------
(* The backdoor: types, and what the program knows of its latest command.      *)

Commands ==
  [op : {"set", "get"}, to : Ports, on : Addrs, var : Vars, val : Values,
   state : {"running", "applied", "exit0", "failed", "unmade"}, held : BOOLEAN,
   out : Values \cup {Nothing}]
TestCalls == [kind : Kinds, on : Addrs, var : Vars, val : Values, strict : BOOLEAN, waits : Nat]
Contexts == [on : Addrs, var : ContextVars, held : BOOLEAN]
Leavings == [kind : {"leave"}, on : Addrs, var : ContextVars]

EmulatorsShape ==
  /\ pc \in {"opening", "test", "poll", "unwind", "closing", "gone", "leaked"}
  /\ next \in 1..(NEmulators + 1)
  /\ alive \in [Addrs -> BOOLEAN] /\ bound \in [Addrs -> BOOLEAN]
  /\ port \in [Addrs -> Ports]
  /\ device \in [Addrs -> [Vars -> Values]]
  /\ flag \in [Addrs -> {"None", "True", "False"}]

BodyShape ==
  /\ polls \in 0..CtlPolls /\ waits \in Nat /\ calls \in 0..MaxCalls
  /\ late \subseteq Request /\ IsFiniteSet(late) /\ Cardinality(late) <= MaxLate
  /\ stack \in Seq(Contexts) /\ Len(stack) <= Depth /\ raising \in BOOLEAN
  /\ missed \subseteq Addrs \X Vars /\ seen \subseteq Values
  /\ call \in TestCalls \cup Leavings \cup {NoCall}

\* A device variable is used in one of three ways.
Used(kind) ==
  IF kind \in {"enter", "leave"} THEN "context" ELSE IF kind \in {"off", "on"} THEN "link" ELSE "value"

\* While a command is awaited it is the one its call asks for.  A context is entered
\* where there is room for it, and the one on top is left.
CommandInv ==
  pc = "poll" =>
    /\ ctl \in Commands /\ call # NoCall
    /\ ctl.on = call.on /\ ctl.var = call.var
    /\ IF call.kind \in Asserts THEN ctl.op = "get" ELSE ctl.op = "set"
    /\ call.kind \in {"enter", "off"} => ctl.val = "False"
    /\ call.kind \in {"on", "leave"} => ctl.val = "True"
    /\ call.kind # "leave" => \E c \in Calls : c.var = call.var /\ Used(c.kind) = Used(call.kind)
    /\ call.kind = "enter" => Len(stack) < Depth /\ call.var \in ContextVars
    /\ call.kind = "leave" =>
         stack # <<>> /\ call.on = stack[Len(stack)].on /\ call.var = stack[Len(stack)].var

BackdoorInv == EmulatorsShape /\ BodyShape /\ CommandInv

\* The command that reads, or writes, the variable of a call.
Command(op, a, v, x) ==
  [op |-> op, to |-> port[a], on |-> a, var |-> v, val |-> x,
   state |-> "running", held |-> FALSE, out |-> Nothing]

\* A command that is begun is one.
LEMMA CommandType ==
  ASSUME EmulatorsShape, NEW op \in {"set", "get"}, NEW a \in Addrs, NEW v \in Vars, NEW x \in Values
  PROVE  Command(op, a, v, x) \in Commands
BY DEF EmulatorsShape, Command, Commands

\* What a call is, by its kind.
LEMMA CallKinds ==
  ASSUME BodyShape
  PROVE  /\ call.kind \in Kinds <=> call \in TestCalls
         /\ call.kind = "leave" <=> call \in Leavings
         /\ call # NoCall => call.kind \in Kinds \cup {"leave"} /\ call.on \in Addrs /\ call.var \in Vars
<1>1. call \in TestCalls => call.kind \in Kinds
  BY DEF TestCalls
<1>2. call \in Leavings => call.kind = "leave"
  BY DEF Leavings
<1>3. NoCall.kind = "none"
  BY DEF NoCall
<1>4. "leave" \notin Kinds /\ "none" \notin Kinds
  BY DEF Kinds, Asserts
<1>5. ContextVars \subseteq Vars
  BY DEF ContextVars, Vars
<1>6. call # NoCall => call.on \in Addrs /\ call.var \in Vars
  BY <1>5 DEF BodyShape, TestCalls, Leavings
<1> QED BY <1>1, <1>2, <1>3, <1>4, <1>6 DEF BodyShape

\* A context entered is put on top, one that is left is taken off, and what others know
\* of their variables may change with it.
LEMMA StackFacts ==
  ASSUME BodyShape
  PROVE  /\ Len(stack) \in Nat
         /\ \A a \in Addrs, v \in ContextVars :
              LET pushed == Append(stack, [on |-> a, var |-> v, held |-> TRUE]) IN
              Len(stack) < Depth => pushed \in Seq(Contexts) /\ Len(pushed) <= Depth
         /\ stack # <<>> => /\ Left \in Seq(Contexts) /\ Len(Left) = Len(stack) - 1
                            /\ stack[Len(stack)] \in Contexts
<1> USE LewisAssumption
<1>1. Len(stack) \in Nat /\ \A i \in 1..Len(stack) : stack[i] \in Contexts
  BY DEF BodyShape
<1>2. ASSUME NEW a \in Addrs, NEW v \in ContextVars, Len(stack) < Depth
      PROVE  /\ Append(stack, [on |-> a, var |-> v, held |-> TRUE]) \in Seq(Contexts)
             /\ Len(Append(stack, [on |-> a, var |-> v, held |-> TRUE])) <= Depth
  <2>1. [on |-> a, var |-> v, held |-> TRUE] \in Contexts
    BY DEF Contexts
  <2> QED BY <1>1, <1>2, <2>1, PushedFacts DEF BodyShape
<1>3. ASSUME stack # <<>>
      PROVE  Left \in Seq(Contexts) /\ Len(Left) = Len(stack) - 1 /\ stack[Len(stack)] \in Contexts
  <2>1. Len(stack) \in 1..Len(stack) /\ Len(stack) - 1 \in Nat
    BY <1>1, <1>3 DEF BodyShape
  <2>2. \A i \in 1..(Len(stack) - 1) : i \in 1..Len(stack)
    BY <1>1
  <2>3. Left \in [1..(Len(stack) - 1) -> Contexts]
    <3>1. ASSUME NEW i \in 1..(Len(stack) - 1), NEW b \in BOOLEAN
          PROVE  [stack[i] EXCEPT !.held = b] \in Contexts
      BY <1>1, <2>2 DEF Contexts
    <3> QED BY <1>1, <2>2, <3>1 DEF Left, Contexts
  <2> HIDE DEF Left
  <2> QED BY <1>1, <2>1, <2>3
<1> QED BY <1>1, <1>2, <1>3

(***************************************************************************)
(* How a command ends.                                                     *)
(***************************************************************************)

\* The program reads the variable of the call, for the first time or once more.
LooksAt ==
  /\ call.kind \in Asserts \cup {"setis"}
  /\ call' = IF call.kind = "setis" THEN [call EXCEPT !.kind = "is"] ELSE call
  /\ pc' = "poll" /\ polls' = 0 /\ waits' \in Nat
  /\ ctl' = Command("get", call.on, call.var, "True")
  /\ UNCHANGED <<flag, stack, raising, verdict>>

\* The call is over: what it came to.
CallOver(out) ==
  /\ pc' = (IF raising' THEN "unwind" ELSE "test") /\ raising' \in BOOLEAN
  /\ ctl' = NoCtl /\ polls' = 0 /\ waits' = waits
  /\ call' = IF call.kind \in Asserts THEN call ELSE NoCall
  /\ call.kind # "setis"
  /\ flag' = IF call.kind = "on" THEN [flag EXCEPT ![call.on] = "True"]
             ELSE IF call.kind = "off" THEN [flag EXCEPT ![call.on] = "False"] ELSE flag
  /\ stack' = IF call.kind = "enter" THEN Append(stack, [on |-> call.on, var |-> call.var, held |-> TRUE])
              ELSE IF call.kind = "leave" THEN Left ELSE stack
  /\ call.kind \in Asserts => verdict' = "failed" \/ (verdict' = "passed" /\ Satisfied(out))

\* The program has seen the end of the command, or has ended it.
Finished(out) ==
  /\ missed' = Missing
  /\ LooksAt \/ CallOver(out)
  /\ ctl.state # "unmade"
  /\ \/ late' = late
     \/ /\ ctl.state = "running" /\ ctl.op = "set" /\ Cardinality(late) < MaxLate
        /\ late' = late \cup {[to |-> ctl.to, on |-> ctl.on, var |-> ctl.var, val |-> ctl.val]}
  /\ UNCHANGED <<next, alive, bound, port, device, calls, shared, seen>>

\* A call that ends does one of these.
LEMMA ReturnFacts ==
  ASSUME BackdoorInv, pc = "poll", NEW out, Return(out)
  PROVE  LooksAt \/ CallOver(out)
<1> USE DEF BackdoorInv
<1>0. raising \in BOOLEAN /\ waits \in Nat
  BY DEF BodyShape
<1>1. CASE call.kind \in {"set", "off", "on", "enter", "leave"}
  BY <1>0, <1>1 DEF Return, Idle, Over, CallOver, Asserts
<1>2. CASE call.kind = "setis"
  BY <1>0, <1>2 DEF Return, Gets, Spawn, Command, LooksAt, Asserts
<1>3. CASE call.kind \in Asserts
  <2>1. Judge(out)
    BY <1>3 DEF Return, Asserts
  <2>2. CASE Satisfied(out) /\ Idle("passed") /\ UNCHANGED waits
    BY <1>0, <1>3, <2>1, <2>2 DEF Judge, Idle, Over, CallOver, Asserts
  <2>3. CASE ~Satisfied(out) /\ waits = 0 /\ Throw("failed") /\ UNCHANGED waits
    BY <1>0, <1>3, <2>1, <2>3 DEF Judge, Throw, Over, CallOver, Asserts
  <2>4. CASE /\ ~Satisfied(out) /\ waits > 0
             /\ waits' \in 0..(waits - 1)
             /\ Gets(call.on, call.var)
             /\ UNCHANGED <<call, raising, verdict>>
    BY <1>0, <1>3, <2>1, <2>4 DEF Judge, Gets, Spawn, Command, LooksAt, Asserts
  <2> QED BY <2>1, <2>2, <2>3, <2>4 DEF Judge
<1>4. call.kind \in Kinds \cup {"leave"}
  BY CallKinds DEF CommandInv
<1> QED BY <1>1, <1>2, <1>3, <1>4 DEF Kinds

\* A command is over once the program saw code 0, or has ended it.
LEMMA FinishFacts ==
  ASSUME BackdoorInv, SeesExit \/ Terminates
  PROVE  pc = "poll" /\ \E out \in {ctl.out, Nothing} : Finished(out)
<1>1. CASE SeesExit
  BY <1>1, ReturnFacts DEF SeesExit, Finished
<1>2. CASE Terminates
  BY <1>2, ReturnFacts DEF Terminates, Finished
<1> QED BY <1>1, <1>2

\* What the program does when a command has ended keeps the types.
LEMMA BackdoorFinishes ==
  ASSUME BackdoorInv, SeesExit \/ Terminates
  PROVE  BackdoorInv'
<1> USE LewisAssumption DEF BackdoorInv
<1>0. pc = "poll" /\ \E out \in {ctl.out, Nothing} : Finished(out)
  BY FinishFacts
<1>1. PICK out \in {ctl.out, Nothing} : Finished(out)
  BY <1>0
<1>2. ctl \in Commands /\ ctl.on = call.on /\ ctl.var = call.var /\ call # NoCall
  BY <1>0 DEF CommandInv
<1>3. call.kind \in Kinds \cup {"leave"} /\ call.on \in Addrs /\ call.var \in Vars
  BY <1>2, CallKinds
<1>4. EmulatorsShape'
  <2>1. next' = next /\ alive' = alive /\ bound' = bound /\ port' = port /\ device' = device
    BY <1>1 DEF Finished
  <2>2. pc' \in {"poll", "test", "unwind"}
    BY <1>1 DEF Finished, LooksAt, CallOver
  <2>3. flag' \in [Addrs -> {"None", "True", "False"}]
    BY <1>1, <1>3 DEF Finished, LooksAt, CallOver, EmulatorsShape
  <2> QED BY <2>1, <2>2, <2>3 DEF EmulatorsShape
<1>5. BodyShape'
  <2>1. polls' \in 0..CtlPolls /\ waits' \in Nat /\ calls' \in 0..MaxCalls /\ raising' \in BOOLEAN /\ seen' \subseteq Values
    BY <1>1 DEF Finished, LooksAt, CallOver, BodyShape
  <2>2. late' \subseteq Request /\ IsFiniteSet(late') /\ Cardinality(late') <= MaxLate
    <3> DEFINE r == [to |-> ctl.to, on |-> ctl.on, var |-> ctl.var, val |-> ctl.val]
    <3>1. r \in Request
      BY <1>2 DEF Commands, Request
    <3>2. late' = late \/ (Cardinality(late) < MaxLate /\ late' = late \cup {r})
      BY <1>1 DEF Finished
    <3> HIDE DEF r
    <3>3. late \subseteq Request /\ IsFiniteSet(late) /\ Cardinality(late) <= MaxLate /\ Cardinality(late) \in Nat
      BY FS_CardinalityType DEF BodyShape
    <3>4. IsFiniteSet(late \cup {r}) /\ Cardinality(late \cup {r}) <= Cardinality(late) + 1
      <4> DEFINE n == Cardinality(late)
                 m == Cardinality(late \cup {r})
      <4>1. IsFiniteSet(late \cup {r}) /\ (m = n \/ m = n + 1)
        <5>1. IsFiniteSet(late \cup {r}) /\ m = IF r \in late THEN n ELSE n + 1
          BY <3>3, FS_AddElement
        <5> HIDE DEF n, m
        <5> QED BY <5>1
      <4>2. n \in Nat
        BY <3>3
      <4> HIDE DEF n, m
      <4>3. m <= n + 1
        BY ONLY <4>1, <4>2
      <4> QED BY <4>1, <4>3 DEF n, m
    <3>5. Cardinality(late \cup {r}) \in Nat
      BY <3>4, FS_CardinalityType
    <3>6. CASE late' = late
      BY <3>3, <3>6
    <3>7. CASE Cardinality(late) < MaxLate /\ late' = late \cup {r}
      <4>1. Cardinality(late \cup {r}) <= MaxLate
        BY <3>3, <3>4, <3>5, <3>7, LewisAssumption
      <4> QED BY <3>1, <3>3, <3>4, <3>7, <4>1
    <3> QED BY <3>2, <3>6, <3>7
  <2>3. stack' \in Seq(Contexts) /\ Len(stack') <= Depth
    <3>1. CASE call.kind = "enter"
      <4>1. stack' = Append(stack, [on |-> call.on, var |-> call.var, held |-> TRUE])
        BY <1>1, <3>1 DEF Finished, LooksAt, CallOver, Asserts
      <4> QED BY <1>0, <1>3, <3>1, <4>1, StackFacts DEF CommandInv
    <3>2. CASE call.kind = "leave"
      <4>1. stack' = Left /\ stack # <<>>
        BY <1>0, <1>1, <3>2 DEF Finished, LooksAt, CallOver, Asserts, CommandInv
      <4>2. Left \in Seq(Contexts) /\ Len(Left) = Len(stack) - 1 /\ Len(stack) \in Nat
        BY <4>1, StackFacts
      <4> QED BY <4>1, <4>2 DEF BodyShape
    <3>3. CASE call.kind \notin {"enter", "leave"}
      BY <1>1, <3>3 DEF Finished, LooksAt, CallOver, BodyShape
    <3> QED BY <3>1, <3>2, <3>3
  <2>4. missed' \subseteq Addrs \X Vars
    BY <1>1, <1>2, <1>3 DEF Finished, Missing, BodyShape
  <2>5. call' \in TestCalls \cup Leavings \cup {NoCall}
    <3>1. CASE LooksAt
      <4>1. call \in TestCalls
        BY <3>1, CallKinds DEF LooksAt, Kinds
      <4>2. [call EXCEPT !.kind = "is"] \in TestCalls
        BY <4>1 DEF TestCalls, Kinds, Asserts
      <4> QED BY <3>1, <4>1, <4>2 DEF LooksAt
    <3>2. CASE CallOver(out)
      BY <3>2 DEF CallOver, BodyShape
    <3> QED BY <1>1, <3>1, <3>2 DEF Finished
  <2> QED BY <2>1, <2>2, <2>3, <2>4, <2>5 DEF BodyShape
<1>6. CommandInv'
  <2>1. SUFFICES ASSUME pc' = "poll" PROVE CommandInv'
    BY DEF CommandInv
  <2>2. LooksAt
    BY <1>1, <2>1 DEF Finished, CallOver
  <2>3. call \in TestCalls
    BY <2>2, CallKinds DEF LooksAt, Kinds
  <2>4. call'.on = call.on /\ call'.var = call.var /\ call'.kind \in Asserts /\ Used(call'.kind) = Used(call.kind)
    BY <2>2, <2>3 DEF LooksAt, TestCalls, Asserts, Used
  <2>5. ctl' = Command("get", call.on, call.var, "True") /\ ctl' \in Commands
    BY <1>3, <2>2, CommandType DEF LooksAt, Values
  <2>6. ctl'.on = call.on /\ ctl'.var = call.var /\ ctl'.op = "get"
    BY <2>5 DEF Command
  <2>7. \E c \in Calls : c.var = call.var /\ Used(c.kind) = Used(call.kind)
    BY <1>0, <2>2 DEF CommandInv, LooksAt, Asserts
  <2>8. call' # NoCall
    BY <2>4 DEF NoCall, Asserts
  <2> QED BY <2>4, <2>5, <2>6, <2>7, <2>8 DEF CommandInv, Asserts
<1> QED BY <1>4, <1>5, <1>6

\* lewis-control could not be created: the call raises, and the context it leaves is left.
LEMMA BackdoorRaises ==
  ASSUME BackdoorInv, CannotSpawn
  PROVE  BackdoorInv'
<1> USE LewisAssumption DEF BackdoorInv
<1>1. /\ pc = "poll" /\ pc' = "unwind" /\ raising' = TRUE /\ polls' = 0
      /\ call' = IF call.kind \in Asserts THEN call ELSE NoCall
      /\ stack' = IF call.kind = "leave" THEN Left ELSE stack
      /\ missed' = IF call.kind = "leave" THEN Missing ELSE missed
      /\ UNCHANGED <<next, alive, bound, port, device, flag, late, waits, calls, seen>>
  BY DEF CannotSpawn, Throw, Over, emulators
<1>2. ctl \in Commands /\ ctl.on \in Addrs /\ ctl.var \in Vars
  BY <1>1 DEF CommandInv, Commands
<1>3. EmulatorsShape'
  BY <1>1 DEF EmulatorsShape
<1>4. stack' \in Seq(Contexts) /\ Len(stack') <= Depth
  <2>1. CASE call.kind = "leave"
    <3>1. stack' = Left /\ stack # <<>>
      BY <1>1, <2>1 DEF CommandInv
    <3>2. Left \in Seq(Contexts) /\ Len(Left) = Len(stack) - 1 /\ Len(stack) \in Nat
      BY <3>1, StackFacts
    <3> QED BY <3>1, <3>2 DEF BodyShape
  <2>2. CASE call.kind # "leave"
    BY <1>1, <2>2 DEF BodyShape
  <2> QED BY <2>1, <2>2
<1>5. missed' \subseteq Addrs \X Vars
  BY <1>1, <1>2 DEF Missing, BodyShape
<1>6. BodyShape'
  BY <1>1, <1>4, <1>5 DEF BodyShape
<1>7. CommandInv'
  BY <1>1 DEF CommandInv
<1> QED BY <1>3, <1>6, <1>7

\* A call of the test asks for its command.
Asks(c) ==
  /\ pc = "test" /\ pc' = "poll" /\ call' = c /\ waits' = c.waits /\ calls < MaxCalls /\ calls' = calls + 1
  /\ seen' = IF c.kind \in Asserts \cup {"setis"} THEN {device[c.on][c.var]} ELSE {}
  /\ polls' = 0
  /\ ctl' = Command(IF c.kind \in Asserts THEN "get" ELSE "set", c.on, c.var,
                    IF c.kind \in Asserts \cup {"on"} THEN "True"
                    ELSE IF c.kind \in {"enter", "off"} THEN "False" ELSE c.val)
  /\ c.kind = "enter" => Len(stack) < Depth
  /\ UNCHANGED <<next, emulators, late, stack, raising, verdict, missed, shared>>

\* Each of them does just that.
LEMMA CallFacts ==
  ASSUME NEW c \in Calls,
         SetOnDevice(c) \/ AssertValue(c) \/ SimulateDisconnected(c) \/ Disconnect(c) \/ Connect(c)
  PROVE  Asks(c)
<1> USE DEF Asks
<1>1. CASE SetOnDevice(c)
  BY <1>1 DEF SetOnDevice, Calling, Sets, Spawn, Command, Asserts
<1>2. CASE AssertValue(c)
  BY <1>2 DEF AssertValue, Calling, Gets, Spawn, Command, Asserts
<1>3. CASE SimulateDisconnected(c)
  BY <1>3 DEF SimulateDisconnected, Calling, Sets, Spawn, Command, Asserts
<1>4. CASE Disconnect(c)
  BY <1>4 DEF Disconnect, Calling, Sets, Spawn, Command, Asserts
<1>5. CASE Connect(c)
  BY <1>5 DEF Connect, Calling, Sets, Spawn, Command, Asserts
<1> QED BY <1>1, <1>2, <1>3, <1>4, <1>5

\* Beginning a call of a test keeps the types.
LEMMA BackdoorCalls ==
  ASSUME BackdoorInv, NEW c \in Calls,
         SetOnDevice(c) \/ AssertValue(c) \/ SimulateDisconnected(c) \/ Disconnect(c) \/ Connect(c)
  PROVE  BackdoorInv'
<1> USE LewisAssumption DEF BackdoorInv
<1> DEFINE op == IF c.kind \in Asserts THEN "get" ELSE "set"
           x == IF c.kind \in Asserts \cup {"on"} THEN "True"
                ELSE IF c.kind \in {"enter", "off"} THEN "False" ELSE c.val
<1>1. /\ pc = "test" /\ pc' = "poll" /\ call' = c /\ waits' = c.waits /\ calls < MaxCalls /\ calls' = calls + 1
      /\ seen' = IF c.kind \in Asserts \cup {"setis"} THEN {device[c.on][c.var]} ELSE {}
      /\ polls' = 0 /\ ctl' = Command(op, c.on, c.var, x)
      /\ c.kind = "enter" => Len(stack) < Depth
      /\ UNCHANGED <<next, emulators, late, stack, raising, verdict, missed, shared>>
  BY CallFacts DEF Asks
<1>2. c \in TestCalls
  BY DEF TestCalls
<1>3. c.kind \in Kinds /\ c.on \in Addrs /\ c.var \in Vars /\ c.val \in Values /\ c.waits \in Nat
  BY <1>2 DEF TestCalls
<1>4. op \in {"get", "set"} /\ x \in Values
  BY <1>3 DEF Values
<1>5. ctl' \in Commands
  <2> HIDE DEF op, x
  <2> QED BY <1>1, <1>3, <1>4, CommandType
<1>6. EmulatorsShape'
  BY <1>1 DEF EmulatorsShape, emulators
<1>7. seen' \subseteq Values
  BY <1>1, <1>3 DEF EmulatorsShape
<1>8. BodyShape'
  BY <1>1, <1>2, <1>3, <1>7 DEF BodyShape
<1>9. CommandInv'
  <2>1. ctl'.on = c.on /\ ctl'.var = c.var /\ ctl'.op = op /\ ctl'.val = x
    BY <1>1 DEF Command
  <2>2. c.kind # "leave" /\ c # NoCall
    BY <1>3 DEF Kinds, Asserts, NoCall
  <2>3. c.kind = "enter" => c.var \in ContextVars
    BY DEF ContextVars
  <2> QED BY <1>1, <1>5, <2>1, <2>2, <2>3 DEF CommandInv, Asserts
<1> QED BY <1>6, <1>8, <1>9

\* A context that is left asks for the command that makes up for it.
LEMMA BackdoorLeaves ==
  ASSUME BackdoorInv, LeaveContext
  PROVE  BackdoorInv'
<1> USE LewisAssumption DEF BackdoorInv
<1> DEFINE top == stack[Len(stack)]
<1>1. /\ stack # <<>> /\ pc' = "poll" /\ call' = [kind |-> "leave", on |-> top.on, var |-> top.var]
      /\ ctl' = Command("set", top.on, top.var, "True") /\ polls' = 0
      /\ UNCHANGED <<next, emulators, late, waits, stack, raising, verdict, calls, history>>
  BY DEF LeaveContext, LeavesByCommand, Sets, Spawn, Command
<1>2. top \in Contexts /\ top.on \in Addrs /\ top.var \in ContextVars /\ top.var \in Vars
  BY <1>1, StackFacts DEF Contexts, ContextVars, Vars
<1> HIDE DEF top
<1>3. ctl' \in Commands
  BY <1>1, <1>2, CommandType DEF Values
<1>4. EmulatorsShape'
  BY <1>1 DEF EmulatorsShape, emulators
<1>5. call' \in Leavings
  BY <1>1, <1>2 DEF Leavings
<1>6. BodyShape'
  BY <1>1, <1>5 DEF BodyShape, history
<1>7. ctl'.on = call'.on /\ ctl'.var = call'.var /\ ctl'.op = "set" /\ ctl'.val = "True" /\ call'.kind = "leave"
      /\ call'.on = top.on /\ call'.var = top.var
  BY <1>1 DEF Command
<1>8. call' # NoCall
  BY <1>7 DEF NoCall
<1>9. CommandInv'
  BY <1>1, <1>3, <1>7, <1>8 DEF CommandInv, Asserts, top
<1> QED BY <1>4, <1>6, <1>9

\* The devices: what a request, late or not, or the IOC puts into a variable.
LEMMA BackdoorAnswers ==
  ASSUME BackdoorInv, Answers \/ LateAnswer \/ \E a \in Addrs : DeviceMoves(a)
  PROVE  BackdoorInv'
<1> USE LewisAssumption DEF BackdoorInv
<1>0. ASSUME NEW a \in Addrs, NEW v \in Vars, NEW x \in Values, Changes(a, v, x)
      PROVE  device' \in [Addrs -> [Vars -> Values]] /\ seen' \subseteq Values
  BY <1>0 DEF Changes, EmulatorsShape, BodyShape
<1>1. CASE Answers
  <2>1. PICK a \in Addrs :
          /\ IF ctl.op = "set" THEN Changes(a, ctl.var, ctl.val) ELSE UNCHANGED <<device, seen>>
          /\ ctl' = [ctl EXCEPT !.state = "applied", !.held = TRUE,
                                !.out = IF ctl.op = "get" THEN device[a][ctl.var] ELSE Nothing]
    BY <1>1 DEF Answers
  <2>2. /\ pc = "poll" /\ ctl \in Commands
        /\ UNCHANGED <<pc, next, alive, bound, port, flag, polls, late, body, missed, shared>>
    BY <1>1 DEF Answers, CommandInv
  <2>3. ctl.var \in Vars /\ ctl.val \in Values
    BY <2>2 DEF Commands
  <2>4. device' \in [Addrs -> [Vars -> Values]] /\ seen' \subseteq Values
    BY <1>0, <2>1, <2>3 DEF EmulatorsShape, BodyShape
  <2>5. ctl' \in Commands /\ ctl'.on = ctl.on /\ ctl'.var = ctl.var /\ ctl'.op = ctl.op /\ ctl'.val = ctl.val
    <3> DEFINE o == IF ctl.op = "get" THEN device[a][ctl.var] ELSE Nothing
    <3>1. o \in Values \cup {Nothing}
      BY <2>3 DEF EmulatorsShape
    <3> HIDE DEF o
    <3>2. ctl' = [ctl EXCEPT !.state = "applied", !.held = TRUE, !.out = o]
      BY <2>1 DEF o
    <3> QED BY <2>2, <3>1, <3>2 DEF Commands
  <2>6. EmulatorsShape' /\ BodyShape'
    BY <2>2, <2>4 DEF EmulatorsShape, BodyShape, body
  <2>7. CommandInv'
    BY <2>2, <2>5 DEF CommandInv, body
  <2> QED BY <2>6, <2>7
<1>2. CASE LateAnswer
  <2>1. PICK r \in late :
          /\ late' = late \ {r}
          /\ \/ \E a \in Addrs : bound[a] /\ port[a] = r.to /\ Changes(a, r.var, r.val)
             \/ UNCHANGED <<device, seen>>
          /\ ctl' = IF pc = "poll" /\ <<ctl.on, ctl.var>> = <<r.on, r.var>>
                    THEN [ctl EXCEPT !.held = FALSE] ELSE ctl
    BY <1>2 DEF LateAnswer
  <2>2. UNCHANGED <<pc, next, alive, bound, port, flag, polls, body, missed, shared>>
    BY <1>2 DEF LateAnswer
  <2>3. r.var \in Vars /\ r.val \in Values
    BY DEF BodyShape, Request
  <2>4. device' \in [Addrs -> [Vars -> Values]] /\ seen' \subseteq Values
    BY <1>0, <2>1, <2>3 DEF EmulatorsShape, BodyShape
  <2>5. late' \subseteq Request /\ IsFiniteSet(late') /\ Cardinality(late') <= MaxLate
    <3> DEFINE n == Cardinality(late)
               m == Cardinality(late \ {r})
    <3>1. IsFiniteSet(late \ {r}) /\ m = n - 1 /\ n \in Nat /\ n <= MaxLate
      BY FS_RemoveElement, FS_CardinalityType DEF BodyShape
    <3> HIDE DEF n, m
    <3>2. m <= MaxLate
      BY <3>1
    <3> QED BY <2>1, <3>1, <3>2 DEF BodyShape, m
  <2>6. EmulatorsShape' /\ BodyShape'
    BY <2>2, <2>4, <2>5 DEF EmulatorsShape, BodyShape, body
  <2>7. ASSUME pc = "poll"
        PROVE  ctl' \in Commands /\ ctl'.on = ctl.on /\ ctl'.var = ctl.var /\ ctl'.op = ctl.op /\ ctl'.val = ctl.val
    <3>1. ctl \in Commands
      BY <2>7 DEF CommandInv
    <3> QED BY <2>1, <3>1 DEF Commands
  <2>8. CommandInv'
    BY <2>2, <2>7 DEF CommandInv, body
  <2> QED BY <2>6, <2>8
<1>3. ASSUME NEW a \in Addrs, DeviceMoves(a) PROVE BackdoorInv'
  <2>1. PICK x \in Values : Changes(a, "value", x)
    BY <1>3 DEF DeviceMoves
  <2>2. /\ pc = "poll" /\ call.var = "value"
        /\ UNCHANGED <<pc, next, alive, bound, port, flag, command, body, missed, shared>>
    BY <1>3 DEF DeviceMoves
  <2>3. "value" \in Vars
    BY <2>2, CallKinds DEF CommandInv
  <2>4. device' \in [Addrs -> [Vars -> Values]] /\ seen' \subseteq Values
    BY <1>0, <2>1, <2>3
  <2>5. EmulatorsShape' /\ BodyShape'
    BY <2>2, <2>4 DEF EmulatorsShape, BodyShape, body, command
  <2>6. CommandInv'
    BY <2>2 DEF CommandInv, body, command
  <2> QED BY <2>5, <2>6
<1> QED BY <1>1, <1>2, <1>3

\* What opens, closes, looks on, or fails changes neither a call nor its command, except
\* that lewis-control may end.
LEMMA BackdoorOthers ==
  ASSUME BackdoorInv,
         \/ OpenLewis \/ OpenLewisRaises \/ LewisOpened \/ BeginClose \/ CloseLewis \/ LewisClosed
         \/ SeesNothing \/ BodyRaises \/ TestFails \/ CtlExits \/ CtlFails
         \/ \E a \in Addrs : Binds(a) \/ LewisDies(a)
  PROVE  BackdoorInv'
<1> USE LewisAssumption DEF BackdoorInv
<1>1. CASE OpenLewis
  <2>0. next \in Addrs
    BY <1>1 DEF OpenLewis, EmulatorsShape, Addrs
  <2>1. next \in Addrs /\ \E p \in Ports : port' = [port EXCEPT ![next] = p]
    BY <1>1, <2>0 DEF OpenLewis, FreePorts
  <2>2. port' \in [Addrs -> Ports]
    BY <2>1 DEF EmulatorsShape
  <2>3. EmulatorsShape'
    BY <1>1, <2>1, <2>2 DEF OpenLewis, EmulatorsShape, Addrs
  <2>4. BodyShape' /\ CommandInv'
    BY <1>1 DEF OpenLewis, BodyShape, CommandInv, command, body
  <2> QED BY <2>3, <2>4
<1>2. CASE OpenLewisRaises \/ LewisOpened \/ LewisClosed
  <2>1. UNCHANGED <<next, emulators, command, body, history>> /\ pc' \in {"leaked", "test", "gone"}
    BY <1>2 DEF OpenLewisRaises, LewisOpened, LewisClosed
  <2>2. EmulatorsShape' /\ BodyShape' /\ CommandInv'
    BY <2>1 DEF EmulatorsShape, BodyShape, CommandInv, emulators, command, body, history
  <2> QED BY <2>2
<1>3. CASE BeginClose
  <2>1. UNCHANGED <<emulators, command, body, history>> /\ pc' = "closing" /\ next' = 1
    BY <1>3 DEF BeginClose
  <2>2. EmulatorsShape' /\ BodyShape' /\ CommandInv'
    BY <2>1 DEF EmulatorsShape, BodyShape, CommandInv, emulators, command, body, history
  <2> QED BY <2>2
<1>4. CASE CloseLewis
  <2>1. /\ alive' = [alive EXCEPT ![next] = FALSE] /\ bound' = [bound EXCEPT ![next] = FALSE]
        /\ next' = next + 1 /\ next <= NEmulators /\ pc = "closing"
        /\ UNCHANGED <<pc, port, device, flag, command, body, history>>
    BY <1>4 DEF CloseLewis
  <2>2. alive' \in [Addrs -> BOOLEAN] /\ bound' \in [Addrs -> BOOLEAN] /\ next' \in 1..(NEmulators + 1)
    <3>1. next' \in 1..(NEmulators + 1)
      BY <2>1 DEF EmulatorsShape
    <3>2. alive' \in [Addrs -> BOOLEAN]
      BY <2>1 DEF EmulatorsShape
    <3>3. bound' \in [Addrs -> BOOLEAN]
      BY <2>1 DEF EmulatorsShape
    <3> QED BY <3>1, <3>2, <3>3
  <2>3. EmulatorsShape'
    BY <2>1, <2>2 DEF EmulatorsShape
  <2>4. BodyShape' /\ CommandInv'
    BY <2>1 DEF BodyShape, CommandInv, command, body, history
  <2> QED BY <2>3, <2>4
<1>5. CASE SeesNothing
  <2>1. UNCHANGED <<pc, next, emulators, ctl, late, body, history>> /\ polls' = polls + 1 /\ polls < CtlPolls
    BY <1>5 DEF SeesNothing
  <2>2. EmulatorsShape' /\ BodyShape' /\ CommandInv'
    BY <2>1 DEF EmulatorsShape, BodyShape, CommandInv, emulators, body, history
  <2> QED BY <2>2
<1>6. CASE BodyRaises \/ TestFails
  <2>1. /\ UNCHANGED <<next, emulators, command, call, waits, stack, verdict, calls, history>>
        /\ pc' \in {"test", "unwind"} /\ raising' \in BOOLEAN
    BY <1>6 DEF BodyRaises, TestFails
  <2>2. EmulatorsShape' /\ BodyShape' /\ CommandInv'
    BY <2>1 DEF EmulatorsShape, BodyShape, CommandInv, emulators, command, history
  <2> QED BY <2>2
<1>7. CASE CtlExits \/ CtlFails
  <2>1. pc = "poll" /\ UNCHANGED <<pc, next, emulators, polls, late, body, history>>
    BY <1>7 DEF CtlExits, CtlFails
  <2>2. /\ ctl' \in Commands /\ ctl'.on = ctl.on /\ ctl'.var = ctl.var /\ ctl'.op = ctl.op /\ ctl'.val = ctl.val
    <3>1. ctl \in Commands
      BY <2>1 DEF CommandInv
    <3> QED BY <1>7, <3>1 DEF CtlExits, CtlFails, Commands
  <2>3. EmulatorsShape' /\ BodyShape'
    BY <2>1 DEF EmulatorsShape, BodyShape, emulators, body, history
  <2>4. CommandInv'
    BY <2>1, <2>2 DEF CommandInv, body
  <2> QED BY <2>3, <2>4
<1>8. ASSUME NEW a \in Addrs, Binds(a) \/ LewisDies(a) PROVE BackdoorInv'
  <2>1. UNCHANGED <<pc, next, port, device, flag, command, body, history>>
    BY <1>8 DEF Binds, LewisDies
  <2>2. alive' \in [Addrs -> BOOLEAN] /\ bound' \in [Addrs -> BOOLEAN]
    <3>1. CASE Binds(a)
      BY <3>1 DEF Binds, EmulatorsShape
    <3>2. CASE LewisDies(a)
      <4>1. alive' = [alive EXCEPT ![a] = FALSE] /\ bound' = [bound EXCEPT ![a] = FALSE]
        BY <3>2 DEF LewisDies
      <4>2. alive' \in [Addrs -> BOOLEAN]
        BY <4>1 DEF EmulatorsShape
      <4>3. bound' \in [Addrs -> BOOLEAN]
        BY <4>1 DEF EmulatorsShape
      <4> QED BY <4>2, <4>3
    <3> QED BY <1>8, <3>1, <3>2
  <2>3. EmulatorsShape' /\ BodyShape' /\ CommandInv'
    BY <2>1, <2>2 DEF EmulatorsShape, BodyShape, CommandInv, command, body, history
  <2> QED BY <2>3
<1> QED BY <1>1, <1>2, <1>3, <1>4, <1>5, <1>6, <1>7, <1>8

\* Before the first emulator is opened.
LEMMA BackdoorInit == Init => BackdoorInv
<1> SUFFICES ASSUME Init PROVE BackdoorInv
  OBVIOUS
<1> USE LewisAssumption DEF Init, LewisInit
<1>1. PICK p : p \in {CHOOSE q \in Ports : TRUE} /\ port = [a \in Addrs |-> p]
  OBVIOUS
<1>2. p \in Ports
  BY <1>1
<1>3. EmulatorsShape
  BY <1>1, <1>2 DEF EmulatorsShape, Values
<1>4. IsFiniteSet({}) /\ Cardinality({}) = 0
  BY FS_EmptySet
<1>5. BodyShape
  <2>1. stack \in Seq(Contexts) /\ Len(stack) = 0
    OBVIOUS
  <2>2. late = {} /\ missed = {} /\ seen = {} /\ call = NoCall /\ polls = 0 /\ waits = 0 /\ calls = 0 /\ raising = FALSE
    OBVIOUS
  <2>3. late \subseteq Request /\ IsFiniteSet(late) /\ Cardinality(late) <= MaxLate
    BY ONLY <1>4, <2>2, LewisAssumption
  <2>4. Len(stack) <= Depth /\ polls \in 0..CtlPolls /\ calls \in 0..MaxCalls
    BY ONLY <2>1, <2>2, LewisAssumption
  <2> QED BY ONLY <2>1, <2>2, <2>3, <2>4 DEF BodyShape
<1>6. CommandInv
  BY DEF CommandInv
<1> QED BY <1>3, <1>5, <1>6 DEF BackdoorInv

\* In every state of a module with emulators of Lewis.
LEMMA BackdoorStep == BackdoorInv /\ [Next]_vars => BackdoorInv'
<1> SUFFICES ASSUME BackdoorInv, [Next]_vars PROVE BackdoorInv'
  OBVIOUS
<1>1. CASE LewisNext
  BY <1>1, BackdoorOthers, BackdoorFinishes, BackdoorRaises, BackdoorCalls, BackdoorLeaves, BackdoorAnswers,
     Zenon DEF LewisNext, LewisProgram, LewisTest, LewisWorld
<1>2. CASE UNCHANGED lewisVars
  BY <1>2 DEF lewisVars, emulators, command, body, history, BackdoorInv, EmulatorsShape, BodyShape, CommandInv
<1> QED BY <1>1, <1>2 DEF Next, LewisStep, CmdStep, vars

-----------------------------------------------------------------------------
(* The processes of a command line.                                            *)

CmdShape ==
  /\ cpc \in {"new", "waiting", "open", "closing", "child", "main", "gone", "leaked"}
  /\ back \in {"open", "closing"}
  /\ running \subseteq Procs /\ todo \subseteq Kids /\ ending \subseteq Procs /\ listed \subseteq Procs
  /\ handle \in 0..MaxCommands

\* Whoever was started once is not started again, and no command line by another process.
\* From the listing of the children on, what was listed and still runs is left to do.
ProcessInv ==
  /\ cpc \notin {"new", "leaked"} => handle \in Mains
  /\ parent \in [Procs -> Procs \cup {Nobody}]
  /\ \A m \in Mains : parent[m] = Nobody
  /\ \A k \in (running \cup listed) \cap Kids : parent[k] # Nobody
  /\ cpc \in {"child", "main", "gone"} => listed \cap running \subseteq todo \cup {handle}
  /\ cpc \in {"main", "gone"} => todo = {}
  /\ cpc = "gone" => handle \notin running

CmdInv == CmdShape /\ ProcessInv

\* Initially no process of a command line exists.
LEMMA CmdInitially == Init => CmdInv
BY CmdAssumption DEF Init, CmdInit, CmdInv, CmdShape, ProcessInv, Procs, Mains, Nobody

\* The family of a process is among what children(recursive=True) finds, and itself.
LEMMA FamilyIsListed ==
  ASSUME NEW p
  PROVE  Family(p) \subseteq Descendants(p) \cup {p} /\ Family(p) \subseteq running
         /\ Descendants(p) \subseteq running \ {p}
<1>1. ASSUME NEW k \in Family(p), k # p,
             NEW S \in SUBSET running, \A j \in running : parent[j] \in S \cup {p} => j \in S
      PROVE  k \in S
  <2>1. p \in running /\ S \cup {p} \in SUBSET running
    BY <1>1 DEF Family
  <2>2. \A j \in running : parent[j] \in S \cup {p} => j \in S \cup {p}
    BY <1>1
  <2>3. k \in S \cup {p}
    BY <1>1, <2>1, <2>2 DEF Family
  <2> QED BY <1>1, <2>3
<1>2. Family(p) \subseteq running /\ Descendants(p) \subseteq running \ {p}
  BY DEF Family, Descendants
<1>3. ASSUME NEW k \in Family(p), k # p PROVE k \in Descendants(p)
  BY <1>1, <1>2, <1>3 DEF Descendants
<1> QED BY <1>2, <1>3

\* What it finds are processes that were started, none of them a command line.
LEMMA DescendantsAreKids ==
  ASSUME CmdInv, NEW p \in Mains
  PROVE  Descendants(p) \subseteq Kids
<1> SUFFICES ASSUME NEW k \in Descendants(p), k \notin Kids PROVE FALSE
  OBVIOUS
<1>1. k \in running /\ k \in Mains /\ parent[k] = Nobody /\ Nobody \notin running /\ Nobody # p
  BY CmdAssumption DEF Descendants, CmdInv, CmdShape, ProcessInv, Procs, Mains, Nobody
<1> DEFINE S == running \ {k}
<1>2. ASSUME NEW j \in running, parent[j] \in S \cup {p} PROVE j \in S
  BY <1>1, <1>2
<1>3. k \in S
  BY <1>2 DEF Descendants
<1> QED BY <1>3

\* The commands of the launcher and of a test, and the closing of the launcher.
LEMMA CmdProgramStep ==
  ASSUME CmdInv, CmdProgram \/ CmdTest
  PROVE  CmdInv'
<1> USE CmdAssumption DEF CmdInv
<1>1. ASSUME NEW then \in {"open", "closing"}, CallCommandLine(then),
             cpc \in {"new", "open"},
             UNCHANGED <<launcher, parent, todo, ending, listed>>
      PROVE  CmdInv'
  <2>1. handle' \in Mains /\ running' = running \cup {handle'} /\ handle' \notin Kids
    BY <1>1 DEF CallCommandLine, CmdShape, Mains
  <2>2. cpc' \in {"waiting", "open", "closing"} /\ back' \in {"open", "closing"}
    BY <1>1 DEF CallCommandLine
  <2>3. CmdShape'
    BY <1>1, <2>1, <2>2 DEF CmdShape, Procs, Mains
  <2>4. ProcessInv'
    BY <1>1, <2>1, <2>2 DEF ProcessInv
  <2> QED BY <2>3, <2>4
<1>2. CASE OpenCmd \/ RunCommand \/ CloseDaqmx
  BY <1>1, <1>2 DEF OpenCmd, RunCommand, CloseDaqmx
<1>3. CASE CommandEnds
  BY <1>3 DEF CommandEnds, CmdShape, ProcessInv
<1>4. CASE BeginCloseCmd
  BY <1>4 DEF BeginCloseCmd, CmdShape, ProcessInv
<1>5. CASE ListChildren
  <2>1. /\ cpc = "closing" /\ cpc' = "child" /\ listed' = Family(handle)
        /\ UNCHANGED <<launcher, back, running, parent, handle, ending>>
        /\ todo' = Descendants(handle) \/ (handle \notin running /\ todo' = {})
    BY <1>5 DEF ListChildren
  <2>2. handle \in Mains
    BY <2>1 DEF ProcessInv
  <2>3. Descendants(handle) \subseteq Kids
    BY <2>2, DescendantsAreKids
  <2>4. Family(handle) \subseteq Descendants(handle) \cup {handle} /\ Family(handle) \subseteq running
    BY FamilyIsListed
  <2>5. handle \notin running => Family(handle) = {}
    BY DEF Family
  <2>6. CmdShape'
    BY <2>1, <2>3, <2>4 DEF CmdShape
  <2>7. ProcessInv'
    BY <2>1, <2>2, <2>4, <2>5 DEF ProcessInv
  <2> QED BY <2>6, <2>7
<1>6. CASE TerminateChild
  <2>1. PICK k \in todo : /\ ending' = ending \cup ({k} \cap running)
                          /\ todo' = IF k \in running THEN todo ELSE todo \ {k}
    BY <1>6 DEF TerminateChild
  <2>2. cpc = "child" /\ UNCHANGED <<cpc, launcher, back, running, parent, handle, listed>>
    BY <1>6 DEF TerminateChild
  <2>3. CmdShape'
    BY <2>1, <2>2 DEF CmdShape
  <2>4. ProcessInv'
    BY <2>1, <2>2 DEF ProcessInv
  <2> QED BY <2>3, <2>4
<1>7. CASE ChildGone
  <2>1. PICK k \in ending \cap todo : k \notin running /\ todo' = todo \ {k}
    BY <1>7 DEF ChildGone
  <2>2. cpc = "child" /\ UNCHANGED <<cpc, launcher, back, running, parent, handle, ending, listed>>
    BY <1>7 DEF ChildGone
  <2> QED BY <2>1, <2>2 DEF CmdShape, ProcessInv
<1>8. CASE TerminateMain
  BY <1>8 DEF TerminateMain, CmdShape, ProcessInv
<1>9. CASE CmdClosed
  BY <1>9 DEF CmdClosed, CmdShape, ProcessInv
<1> QED BY <1>2, <1>3, <1>4, <1>5, <1>6, <1>7, <1>8, <1>9 DEF CmdProgram, CmdTest

\* Processes that start others or end: who is started was not there to be listed.
LEMMA CmdWorldStep ==
  ASSUME CmdInv, CmdWorld
  PROVE  CmdInv'
<1> USE CmdAssumption DEF CmdInv
<1>1. CASE OpenCmdRaises
  BY <1>1 DEF OpenCmdRaises, CmdShape, ProcessInv
<1>2. ASSUME NEW p \in Procs, Ends(p) PROVE CmdInv'
  BY <1>2 DEF Ends, CmdShape, ProcessInv
<1>3. ASSUME NEW p \in Procs, NEW k \in Kids, Starts(p, k) PROVE CmdInv'
  <2>1. /\ p \in running /\ k \notin running /\ parent[k] = Nobody /\ running' = running \cup {k}
        /\ parent' = [parent EXCEPT ![k] = p]
        /\ UNCHANGED <<cpc, launcher, back, handle, todo, ending, listed>>
    BY <1>3 DEF Starts
  <2>2. k \in Procs /\ k \notin Mains /\ p # Nobody /\ k \notin listed
    <3>1. k \notin listed
      BY <2>1 DEF ProcessInv
    <3>2. k \in Procs /\ k \notin Mains /\ Nobody \notin Procs
      BY DEF Procs, Mains, Nobody
    <3> QED BY <3>1, <3>2
  <2>3. parent' \in [Procs -> Procs \cup {Nobody}]
    BY <2>1 DEF ProcessInv
  <2>4. CmdShape'
    BY <2>1, <2>2 DEF CmdShape
  <2>5. \A m \in Mains : parent'[m] = Nobody
    BY <2>1, <2>2 DEF ProcessInv, Procs
  <2>6. \A j \in (running' \cup listed') \cap Kids : parent'[j] # Nobody
    BY <2>1, <2>2 DEF ProcessInv, Procs
  <2>7. ProcessInv'
    BY <2>1, <2>2, <2>3, <2>5, <2>6 DEF ProcessInv
  <2> QED BY <2>4, <2>7
<1> QED BY <1>1, <1>2, <1>3 DEF CmdWorld

\* In every state of a module with a command line, or without one.
LEMMA CmdKept == CmdInv /\ [Next]_vars => CmdInv'
<1> SUFFICES ASSUME CmdInv, [Next]_vars PROVE CmdInv'
  OBVIOUS
<1>1. CASE CmdNext
  BY <1>1, CmdProgramStep, CmdWorldStep DEF CmdNext
<1>2. CASE UNCHANGED cmdVars
  BY <1>2 DEF cmdVars, CmdInv, CmdShape, ProcessInv
<1> QED BY <1>1, <1>2 DEF Next, LewisStep, CmdStep, vars

\* Every variable of the launchers, the emulators and their backdoor has its type, and no
\* wait, number of calls, depth of contexts or number of late requests passes its limit.
THEOREM EmulatorsTypes == Spec => []TypeOK
<1>1. BackdoorInv /\ CmdInv => TypeOK
  BY DEF BackdoorInv, EmulatorsShape, BodyShape, CmdInv, CmdShape, TypeOK
<1>2. Init => BackdoorInv /\ CmdInv
  BY BackdoorInit, CmdInitially
<1> QED BY <1>1, <1>2, BackdoorStep, CmdKept, PTL DEF Spec

-----------------------------------------------------------------------------
(* Closing.                                                                    *)

\* Closing has ended the emulators it has come past.
ClosingInv ==
  /\ pc = "closing" => \A a \in Addrs : a < next => ~alive[a]
  /\ pc = "gone" => \A a \in Addrs : ~alive[a]

\* Only an opening starts an emulator.
LEMMA ClosingStep == BackdoorInv /\ ClosingInv /\ [Next]_vars => ClosingInv'
<1> SUFFICES ASSUME BackdoorInv, ClosingInv, [Next]_vars PROVE ClosingInv'
  OBVIOUS
<1> USE LewisAssumption DEF BackdoorInv, ClosingInv
<1>1. CASE pc' \notin {"closing", "gone"}
  BY <1>1
<1>2. CASE BeginClose
  BY <1>2 DEF BeginClose, Addrs
<1>3. CASE CloseLewis
  <2>1. pc = "closing" /\ pc' = pc /\ next' = next + 1 /\ alive' = [alive EXCEPT ![next] = FALSE] /\ next \in Nat
    BY <1>3 DEF CloseLewis, EmulatorsShape
  <2>2. ASSUME NEW a \in Addrs, a < next' PROVE ~alive'[a]
    <3>1. a < next \/ a = next
      BY <2>1, <2>2 DEF Addrs
    <3>2. alive'[a] = IF a = next THEN FALSE ELSE alive[a]
      BY <2>1 DEF EmulatorsShape
    <3> QED BY <2>1, <3>1, <3>2
  <2> QED BY <2>1, <2>2
<1>4. CASE LewisClosed
  BY <1>4 DEF LewisClosed, emulators, EmulatorsShape, Addrs
<1>5. CASE /\ UNCHANGED <<pc, next>>
           /\ \A a \in Addrs : alive'[a] => alive[a]
  BY <1>5
<1>6. ASSUME LewisNext, pc' \in {"closing", "gone"}
      PROVE  \/ BeginClose \/ CloseLewis \/ LewisClosed
             \/ UNCHANGED <<pc, next>> /\ \A a \in Addrs : alive'[a] => alive[a]
  <2>1. CASE LewisProgram
    <3>1. CASE SeesExit \/ Terminates
      <4>1. \E out : Finished(out)
        BY <3>1, FinishFacts DEF BackdoorInv
      <4> QED BY <1>6, <4>1 DEF Finished, LooksAt, CallOver
    <3>2. CASE pc = "unwind" /\ LeaveContext
      BY <1>6, <3>2 DEF LeaveContext, LeavesByCommand, Sets, Spawn
    <3> QED BY <1>6, <2>1, <3>1, <3>2
            DEF LewisProgram, OpenLewis, LewisOpened, SeesNothing, CannotSpawn, Throw, TestFails, emulators
  <2>2. CASE LewisTest
    <3>1. CASE pc = "test" /\ LeaveContext
      BY <1>6, <3>1 DEF LeaveContext, LeavesByCommand, Sets, Spawn
    <3>2. ASSUME NEW c \in Calls,
                 SetOnDevice(c) \/ AssertValue(c) \/ SimulateDisconnected(c) \/ Disconnect(c) \/ Connect(c)
          PROVE  FALSE
      BY <1>6, <3>2, CallFacts DEF Asks
    <3> QED BY <1>6, <2>2, <3>1, <3>2 DEF LewisTest, BodyRaises
  <2>3. CASE LewisWorld
    <3>1. ASSUME NEW a \in Addrs, Binds(a) \/ LewisDies(a) \/ DeviceMoves(a)
          PROVE  UNCHANGED <<pc, next>> /\ \A b \in Addrs : alive'[b] => alive[b]
      BY <3>1 DEF Binds, LewisDies, DeviceMoves, EmulatorsShape
    <3> QED BY <1>6, <2>3, <3>1 DEF LewisWorld, OpenLewisRaises, Answers, CtlExits, CtlFails, LateAnswer, emulators
  <2> QED BY <1>6, <2>1, <2>2, <2>3 DEF LewisNext
<1>7. CASE UNCHANGED lewisVars
  BY <1>7 DEF lewisVars, emulators
<1> QED BY <1>1, <1>2, <1>3, <1>4, <1>5, <1>6, <1>7 DEF Next, LewisStep, CmdStep, vars

\* After a normal closing no emulator of Lewis runs, whether or not one had ended by
\* itself; of a command line neither the process nor anything that was its descendant when
\* its children were listed, whoever started or ended meanwhile.
THEOREM ClosingLeavesNothing == Spec => []NothingLeft
<1>1. Init => BackdoorInv /\ CmdInv /\ ClosingInv
  BY BackdoorInit, CmdInitially DEF Init, LewisInit, ClosingInv
<1>2. CmdInv /\ ClosingInv => NothingLeft
  BY DEF CmdInv, ProcessInv, ClosingInv, NothingLeft
<1> QED BY <1>1, <1>2, BackdoorStep, CmdKept, ClosingStep, PTL DEF Spec

-----------------------------------------------------------------------------
(* What the program reads of a device, and what it makes of it.                *)

\* A step that gives, asks for, and finds out nothing.
Quiet ==
  /\ UNCHANGED <<port, device, flag, ctl, late, call, stack, verdict, missed, shared, seen>>
  /\ pc = "opening" => UNCHANGED <<alive, next>>
  /\ \/ pc' = pc
     \/ pc = "opening" /\ pc' = "test" /\ next > NEmulators
     \/ pc \in {"test", "unwind"} /\ pc' \in {"test", "unwind"}
     \/ pc = "opening" /\ pc' = "leaked"
     \/ pc = "test" /\ pc' = "closing"
     \/ pc = "closing" /\ pc' = "gone"

\* The steps as the rest of this module looks at them.
LEMMA StepCases ==
  ASSUME BackdoorInv, [Next]_vars
  PROVE  \/ OpenLewis \/ Quiet
         \/ pc = "poll" /\ \E out \in {ctl.out, Nothing} : Finished(out)
         \/ CannotSpawn \/ LeaveContext
         \/ \E c \in Calls : Asks(c)
         \/ Answers \/ CtlExits \/ CtlFails \/ LateAnswer
         \/ \E a \in Addrs : DeviceMoves(a)
<1>1. CASE UNCHANGED lewisVars
  BY <1>1 DEF lewisVars, emulators, command, body, history, Quiet
<1>2. CASE LewisOpened \/ LewisClosed \/ TestFails \/ OpenLewisRaises \/ BodyRaises \/ BeginClose
  BY <1>2 DEF LewisOpened, LewisClosed, TestFails, OpenLewisRaises, BodyRaises, BeginClose,
              emulators, command, body, history, Quiet
<1>3. CASE CloseLewis \/ SeesNothing
  BY <1>3 DEF CloseLewis, SeesNothing, emulators, command, body, history, Quiet
<1>4. ASSUME NEW a \in Addrs, Binds(a) \/ LewisDies(a) PROVE Quiet
  BY <1>4 DEF Binds, LewisDies, command, body, history, Quiet
<1>5. CASE LewisProgram
  BY <1>2, <1>3, <1>5, FinishFacts, Zenon DEF LewisProgram
<1>6. CASE LewisTest
  BY <1>2, <1>6, CallFacts, Zenon DEF LewisTest
<1>7. CASE LewisWorld
  BY <1>2, <1>4, <1>7, Zenon DEF LewisWorld
<1> QED BY <1>1, <1>5, <1>6, <1>7 DEF Next, LewisStep, LewisNext, CmdStep, vars

\* While emulators are opened they run; with ports found one after the other, each has
\* one of its own, which it has until the launcher is gone.
ApartInv ==
  /\ pc = "opening" => \A a \in Addrs : a < next => alive[a]
  /\ pc \notin {"opening", "leaked"} /\ ~shared => \A a, b \in Addrs : a # b => port[a] # port[b]

\* No step gives two emulators one port unless their searches raced.
LEMMA ApartStep == BackdoorInv /\ PortsInv /\ ApartInv /\ [Next]_vars => ApartInv'
<1> SUFFICES ASSUME BackdoorInv, PortsInv, ApartInv, [Next]_vars PROVE ApartInv'
  OBVIOUS
<1> USE DEF ApartInv
<1>1. CASE OpenLewis
  <2>1. /\ pc = "opening" /\ pc' = pc /\ next' = next + 1 /\ alive' = [alive EXCEPT ![next] = TRUE]
        /\ next \in Nat /\ alive \in [Addrs -> BOOLEAN]
    BY <1>1 DEF OpenLewis, PortsInv, PortsTyped
  <2>2. ASSUME NEW a \in Addrs, a < next' PROVE alive'[a]
    <3>1. a < next \/ a = next
      BY <2>1, <2>2 DEF Addrs
    <3> QED BY <2>1, <3>1
  <2> QED BY <2>1, <2>2
<1>2. CASE Quiet
  <2>1. CASE pc = "opening" /\ pc' = "test"
    <3>1. next > NEmulators /\ UNCHANGED <<alive, port, shared>>
      BY <1>2, <2>1 DEF Quiet
    <3>2. \A a \in Addrs : alive[a]
      BY <2>1, <3>1, LewisAssumption DEF Addrs, PortsInv, PortsTyped
    <3> QED BY <2>1, <3>1, <3>2 DEF PortsInv, PortsDiffer
  <2>2. CASE pc = "opening" /\ pc' # "test"
    <3>1. pc' \in {"opening", "leaked"}
      BY <1>2, <2>2 DEF Quiet
    <3> QED BY <1>2, <2>2, <3>1 DEF Quiet
  <2>3. CASE pc # "opening"
    BY <1>2, <2>3 DEF Quiet, BackdoorInv, EmulatorsShape
  <2> QED BY <2>1, <2>2, <2>3
<1>3. CASE pc \in {"test", "poll", "unwind"} /\ pc' \in {"test", "poll", "unwind"} /\ UNCHANGED <<port, shared>>
  BY <1>3
<1>4. CASE pc = "poll" /\ \E out \in {ctl.out, Nothing} : Finished(out)
  BY <1>3, <1>4 DEF Finished, LooksAt, CallOver
<1>5. CASE CannotSpawn \/ LeaveContext
  BY <1>3, <1>5 DEF CannotSpawn, Throw, emulators, LeaveContext, LeavesByCommand, Sets, Spawn, history
<1>6. CASE (\E c \in Calls : Asks(c)) \/ \E a \in Addrs : DeviceMoves(a)
  BY <1>3, <1>6 DEF Asks, emulators, DeviceMoves
<1>7. CASE Answers \/ CtlExits \/ CtlFails
  BY <1>3, <1>7 DEF Answers, CtlExits, CtlFails, emulators, history
<1>8. CASE LateAnswer
  BY <1>8 DEF LateAnswer
<1> QED BY <1>1, <1>2, <1>4, <1>5, <1>6, <1>7, <1>8, StepCases, Zenon

\* What a request asks for.
Asked(r) == <<r.on, r.var>>

\* A request goes to the port of the emulator it is for.  One whose process was ended
\* leaves its variable in doubt for as long as it may still be carried out.
RequestsInv ==
  /\ \A r \in late : Asked(r) \in missed /\ r.to = port[r.on]
  /\ pc = "opening" => late = {}
  /\ pc = "poll" =>
       /\ ctl.to = port[ctl.on]
       /\ ctl.state \in {"running", "unmade"} => ~ctl.held

\* What a command that ended leaves in doubt.
LEMMA MissingFacts ==
  /\ missed \ {<<ctl.on, ctl.var>>} \subseteq Missing
  /\ Missing \subseteq missed \cup {<<ctl.on, ctl.var>>}
  /\ \A r \in late : Asked(r) \in missed => Asked(r) \in Missing
  /\ ctl.op # "get" /\ ~ctl.held => <<ctl.on, ctl.var>> \in Missing
  /\ ctl.op = "get" => Missing = missed
BY DEF Missing, Asked

\* Every step keeps what is known of a request under way.
LEMMA RequestsStep == BackdoorInv /\ RequestsInv /\ [Next]_vars => RequestsInv'
<1> SUFFICES ASSUME BackdoorInv, RequestsInv, [Next]_vars PROVE RequestsInv'
  OBVIOUS
<1>1. CASE OpenLewis
  BY <1>1 DEF RequestsInv, OpenLewis, command, Asked
<1>2. CASE Quiet
  BY <1>2 DEF RequestsInv, Quiet, Asked
<1>3. CASE pc = "poll" /\ \E out \in {ctl.out, Nothing} : Finished(out)
  <2>1. PICK out : Finished(out)
    BY <1>3
  <2>2. missed' = Missing /\ port' = port /\ pc' # "opening"
    BY <2>1 DEF Finished, LooksAt, CallOver
  <2>3. pc' = "poll" => ctl'.to = port'[ctl'.on] /\ ~ctl'.held
    BY <2>1, <2>2 DEF Finished, LooksAt, CallOver, Command
  <2>4. ASSUME NEW r \in late' PROVE Asked(r) \in missed' /\ r.to = port'[r.on]
    <3>1. CASE r \in late
      BY <2>2, <3>1, MissingFacts DEF RequestsInv
    <3>2. CASE r \notin late
      <4>1. /\ ctl.state = "running" /\ ctl.op = "set"
            /\ r = [to |-> ctl.to, on |-> ctl.on, var |-> ctl.var, val |-> ctl.val]
        BY <2>1, <2>4, <3>2 DEF Finished
      <4>2. Asked(r) \in Missing
        BY <1>3, <4>1, MissingFacts DEF RequestsInv, Asked
      <4> QED BY <1>3, <2>2, <4>1, <4>2 DEF RequestsInv
    <3> QED BY <3>1, <3>2
  <2> QED BY <2>2, <2>3, <2>4 DEF RequestsInv
<1>4. CASE CannotSpawn
  <2>1. /\ pc' = "unwind" /\ late' = late /\ port' = port
        /\ missed' = Missing \/ missed' = missed
    BY <1>4 DEF CannotSpawn, Throw, emulators
  <2> QED BY <2>1, MissingFacts DEF RequestsInv
<1>5. CASE LeaveContext
  BY <1>5 DEF LeaveContext, LeavesByCommand, Sets, Spawn, emulators, history, RequestsInv, Asked
<1>6. ASSUME NEW c \in Calls, Asks(c) PROVE RequestsInv'
  BY <1>6 DEF Asks, Command, emulators, RequestsInv, Asked
<1>7. CASE Answers \/ CtlExits \/ CtlFails
  <2>1. /\ pc = "poll" /\ UNCHANGED <<pc, late, port, missed>> /\ ctl \in Commands
    BY <1>7 DEF Answers, CtlExits, CtlFails, emulators, history, BackdoorInv, CommandInv
  <2>2. /\ ctl'.to = ctl.to /\ ctl'.on = ctl.on
        /\ ctl'.state \in {"running", "unmade"} => ctl.state = "running" /\ ctl'.held = ctl.held
    <3>1. CASE Answers
      <4>1. PICK o : ctl' = [ctl EXCEPT !.state = "applied", !.held = TRUE, !.out = o]
        BY <3>1 DEF Answers
      <4> QED BY <2>1, <4>1 DEF Commands
    <3>2. CASE CtlExits \/ CtlFails
      BY <2>1, <3>2 DEF CtlExits, CtlFails, Commands
    <3> QED BY <1>7, <3>1, <3>2
  <2> QED BY <2>1, <2>2 DEF RequestsInv, Asked
<1>8. CASE LateAnswer
  <2>1. /\ late' \subseteq late /\ UNCHANGED <<pc, port, missed>>
        /\ ctl' = ctl \/ (pc = "poll" /\ ctl' = [ctl EXCEPT !.held = FALSE])
    BY <1>8 DEF LateAnswer
  <2>2. pc = "poll" => /\ ctl'.to = ctl.to /\ ctl'.on = ctl.on /\ ctl'.state = ctl.state
                       /\ ctl'.held => ctl.held
    BY <2>1 DEF BackdoorInv, CommandInv, Commands
  <2> QED BY <2>1, <2>2 DEF RequestsInv, Asked
<1>9. ASSUME NEW a \in Addrs, DeviceMoves(a) PROVE RequestsInv'
  BY <1>9 DEF DeviceMoves, command, RequestsInv, Asked
<1> QED BY <1>1, <1>2, <1>3, <1>4, <1>5, <1>6, <1>7, <1>8, <1>9, StepCases, Zenon

\* What the call of an assertion that passed has seen.
Verdict == call.kind = "is" => call.val \in seen

\* From the call of an assertion on, the value its variable has now is among those it has
\* had, and so is whatever a command of the call has read.
SeenInv ==
  ~shared =>
    /\ pc \in {"test", "unwind"} /\ verdict = "passed" => Verdict
    /\ pc = "poll" /\ call.kind \in Asserts \cup {"setis"} => device[call.on][call.var] \in seen
    /\ pc = "poll" /\ ctl.op = "get" => ctl.out \in seen \cup {Nothing}
    /\ pc = "opening" => call = NoCall

\* What a device was changed to has been seen.
LEMMA ChangeIsSeen ==
  ASSUME BackdoorInv, pc = "poll", NEW a \in Addrs, NEW v \in Vars, NEW x \in Values, Changes(a, v, x),
         call.kind \in Asserts \cup {"setis"},
         device[call.on][call.var] \in seen
  PROVE  device'[call.on][call.var] \in seen' /\ seen \subseteq seen'
<1>1. call.on \in Addrs /\ call.var \in Vars
  BY CallKinds DEF BackdoorInv, CommandInv
<1>2. seen' = IF <<call.on, call.var>> = <<a, v>> THEN seen \cup {x} ELSE seen
  BY DEF Changes
<1>3. device'[call.on][call.var] = IF <<call.on, call.var>> = <<a, v>> THEN x ELSE device[call.on][call.var]
  BY <1>1 DEF Changes, BackdoorInv, EmulatorsShape
<1> QED BY <1>2, <1>3

\* Every step keeps what the call has seen of its device.
LEMMA SeenStep == BackdoorInv /\ ApartInv /\ RequestsInv /\ SeenInv /\ [Next]_vars => SeenInv'
<1> SUFFICES ASSUME BackdoorInv, ApartInv, RequestsInv, SeenInv, [Next]_vars, ~shared' PROVE SeenInv'
  BY DEF SeenInv
<1>1. CASE OpenLewis
  BY <1>1 DEF SeenInv, OpenLewis, body
<1>2. CASE Quiet
  <2>1. UNCHANGED <<device, ctl, call, verdict, shared, seen>>
    BY <1>2 DEF Quiet
  <2>2. CASE pc = "opening"
    BY <1>2, <2>1, <2>2 DEF Quiet, SeenInv, Verdict, NoCall
  <2>3. CASE pc # "opening"
    <3>1. pc' = "poll" => pc = "poll"
      BY <1>2, <2>3 DEF Quiet
    <3>2. pc' # "opening" /\ (pc' \in {"test", "unwind"} => pc \in {"test", "unwind"})
      BY <1>2, <2>3 DEF Quiet
    <3> QED BY <2>1, <3>1, <3>2 DEF SeenInv, Verdict
  <2> QED BY <2>2, <2>3
<1>3. CASE pc = "poll" /\ \E out \in {ctl.out, Nothing} : Finished(out)
  <2>1. PICK out \in {ctl.out, Nothing} : Finished(out)
    BY <1>3
  <2>2. UNCHANGED <<device, shared, seen>>
    BY <2>1 DEF Finished
  <2>3. CASE LooksAt
    <3>1. /\ pc' = "poll" /\ call'.on = call.on /\ call'.var = call.var /\ ctl'.out = Nothing
          /\ call.kind \in Asserts \cup {"setis"}
      BY <2>3, CallKinds DEF LooksAt, Command, BackdoorInv, TestCalls, Kinds
    <3> QED BY <1>3, <2>2, <3>1 DEF SeenInv
  <2>4. CASE CallOver(out)
    <3>1. pc' \in {"test", "unwind"} /\ call' = IF call.kind \in Asserts THEN call ELSE NoCall
      BY <2>4 DEF CallOver
    <3>2. ASSUME call.kind \in Asserts, verdict' = "passed" PROVE Verdict'
      <4>1. Satisfied(out) /\ call' = call
        BY <2>4, <3>1, <3>2 DEF CallOver
      <4>2. call \in TestCalls /\ call.val \in Values /\ call.strict \in BOOLEAN
        BY <3>2, CallKinds DEF BackdoorInv, Kinds, TestCalls
      <4>3. out \in seen \cup {Nothing}
        BY <1>3, <2>2, <3>2 DEF SeenInv, BackdoorInv, CommandInv
      <4>4. Nothing \notin Values
        BY DEF Nothing, Values
      <4> QED BY <2>2, <4>1, <4>2, <4>3, <4>4 DEF Satisfied, Verdict
    <3>3. ASSUME call.kind \notin Asserts PROVE Verdict'
      BY <3>1, <3>3 DEF Verdict, NoCall
    <3> QED BY <3>1, <3>2, <3>3 DEF SeenInv
  <2> QED BY <2>1, <2>3, <2>4 DEF Finished
<1>4. CASE CannotSpawn
  BY <1>4 DEF CannotSpawn, Throw, Over, SeenInv
<1>5. CASE LeaveContext
  <2>1. pc' = "poll" /\ call'.kind = "leave" /\ ctl'.op = "set"
    BY <1>5 DEF LeaveContext, LeavesByCommand, Sets, Spawn
  <2> QED BY <2>1 DEF SeenInv, Asserts
<1>6. ASSUME NEW c \in Calls, Asks(c) PROVE SeenInv'
  <2>1. /\ pc' = "poll" /\ call' = c /\ device' = device
        /\ seen' = IF c.kind \in Asserts \cup {"setis"} THEN {device[c.on][c.var]} ELSE {}
        /\ ctl'.out = Nothing
    BY <1>6 DEF Asks, Command, emulators
  <2> QED BY <2>1 DEF SeenInv
<1>7. CASE Answers
  <2>1. PICK a \in Addrs :
          /\ port[a] = ctl.to
          /\ IF ctl.op = "set" THEN Changes(a, ctl.var, ctl.val) ELSE UNCHANGED <<device, seen>>
          /\ ctl' = [ctl EXCEPT !.state = "applied", !.held = TRUE,
                                !.out = IF ctl.op = "get" THEN device[a][ctl.var] ELSE Nothing]
    BY <1>7 DEF Answers
  <2>2. pc = "poll" /\ UNCHANGED <<pc, call, shared>> /\ ctl \in Commands
    BY <1>7 DEF Answers, BackdoorInv, CommandInv, body
  <2>3. a = ctl.on
    BY <2>1, <2>2 DEF ApartInv, RequestsInv, Commands
  <2>4. /\ ctl.op \in {"get", "set"} /\ ctl'.op = ctl.op /\ ctl.var \in Vars /\ ctl.val \in Values
        /\ ctl.op = "get" => ctl'.out = device[call.on][call.var] /\ call.kind \in Asserts
    BY <2>1, <2>2, <2>3 DEF Commands, BackdoorInv, CommandInv
  <2>5. CASE ctl.op = "get"
    <3>1. UNCHANGED <<device, seen>>
      BY <2>1, <2>5
    <3> QED BY <2>2, <2>4, <2>5, <3>1 DEF SeenInv
  <2>6. CASE ctl.op = "set"
    <3>1. call.kind \in Asserts \cup {"setis"} => device'[call.on][call.var] \in seen'
      BY <2>1, <2>2, <2>4, <2>6, ChangeIsSeen DEF SeenInv
    <3> QED BY <2>2, <2>4, <2>6, <3>1 DEF SeenInv
  <2> QED BY <2>4, <2>5, <2>6
<1>8. CASE CtlExits \/ CtlFails
  <2>1. pc = "poll" /\ UNCHANGED <<pc, call, device, seen, shared>> /\ ctl \in Commands
    BY <1>8 DEF CtlExits, CtlFails, emulators, body, history, BackdoorInv, CommandInv
  <2>2. ctl'.op = ctl.op /\ ctl'.out \in {ctl.out, Nothing}
    BY <1>8, <2>1 DEF CtlExits, CtlFails, Commands
  <2> QED BY <2>1, <2>2 DEF SeenInv
<1>9. CASE LateAnswer
  <2>1. PICK r \in late :
          /\ \/ \E a \in Addrs : Changes(a, r.var, r.val)
             \/ UNCHANGED <<device, seen>>
          /\ ctl' = ctl \/ (pc = "poll" /\ ctl' = [ctl EXCEPT !.held = FALSE])
    BY <1>9 DEF LateAnswer
  <2>2. UNCHANGED <<pc, call, verdict, shared>> /\ r.var \in Vars /\ r.val \in Values
    BY <1>9, <2>1 DEF LateAnswer, body, BackdoorInv, BodyShape, Request
  <2>3. pc = "poll" => ctl'.op = ctl.op /\ ctl'.out = ctl.out
    BY <2>1 DEF BackdoorInv, CommandInv, Commands
  <2>4. pc # "poll" => seen' = seen
    BY <2>1 DEF Changes
  <2>5. ASSUME pc = "poll", call.kind \in Asserts \cup {"setis"}
        PROVE  device'[call.on][call.var] \in seen' /\ seen \subseteq seen'
    BY <2>1, <2>2, <2>5, ChangeIsSeen DEF SeenInv
  <2>6. pc = "poll" /\ ctl.op = "get" => call.kind \in Asserts
    BY DEF BackdoorInv, CommandInv
  <2> QED BY <2>2, <2>3, <2>4, <2>5, <2>6 DEF SeenInv, Verdict
<1>10. ASSUME NEW a \in Addrs, DeviceMoves(a) PROVE SeenInv'
  <2>1. PICK x \in Values : Changes(a, "value", x)
    BY <1>10 DEF DeviceMoves
  <2>2. pc = "poll" /\ UNCHANGED <<pc, ctl, call, shared>> /\ call.var = "value"
    BY <1>10 DEF DeviceMoves, command, body
  <2>3. "value" \in Vars
    BY <2>2, CallKinds DEF BackdoorInv, CommandInv
  <2>4. ASSUME call.kind \in Asserts \cup {"setis"}
        PROVE  device'[call.on][call.var] \in seen' /\ seen \subseteq seen'
    BY <2>1, <2>2, <2>3, <2>4, ChangeIsSeen DEF SeenInv
  <2>5. ctl.op = "get" => call.kind \in Asserts
    BY <2>2 DEF BackdoorInv, CommandInv
  <2> QED BY <2>2, <2>4, <2>5 DEF SeenInv
<1> QED BY <1>1, <1>2, <1>3, <1>4, <1>5, <1>6, <1>7, <1>8, <1>9, <1>10, StepCases, Zenon

\* Before the first emulator is opened nothing was asked for, and nothing seen.
LEMMA OpeningFacts == Init => ApartInv /\ RequestsInv /\ SeenInv
<1> SUFFICES ASSUME Init PROVE ApartInv /\ RequestsInv /\ SeenInv
  OBVIOUS
<1>1. pc = "opening" /\ next = 1 /\ late = {} /\ call = NoCall
  BY DEF Init, LewisInit
<1> QED BY <1>1 DEF ApartInv, RequestsInv, SeenInv, Addrs

\* An assertion that the device has a value passes only if it had it at some time since the
\* call began, whatever lewis-control lost, late requests did and the IOC wrote meanwhile.
THEOREM PassedIsTrue == Spec => []PassedWasTrue
<1>1. SeenInv => PassedWasTrue
  BY DEF SeenInv, Verdict, Passed, PassedWasTrue
<1> QED BY <1>1, PortsStep, PortsInit, BackdoorInit, OpeningFacts, BackdoorStep, ApartStep, RequestsStep, SeenStep, PTL
        DEF Spec

-----------------------------------------------------------------------------
(* Devices are as commanded.                                                   *)

\* A test uses a variable of a device in one way: for contexts, as the connection that
\* connect and disconnect of the launcher know of, or as a value it sets and reads.
OneUse ==
  /\ \A c, d \in Calls : c.var = d.var => Used(c.kind) = Used(d.kind)
  /\ \A c, d \in Calls : {c.kind, d.kind} \subseteq {"off", "on"} => c.var = d.var
  /\ \A c \in Calls : c.var = "value" => Used(c.kind) = "value"

\* What it uses in one way is not what it uses in another.
LEMMA UsesApart ==
  ASSUME OneUse
  PROVE  /\ "value" \notin ContextVars \cup LinkVars /\ ContextVars \cap LinkVars = {}
         /\ \A c \in Calls : Used(c.kind) = "value" => c.var \notin ContextVars \cup LinkVars
         /\ \A c \in Calls : Used(c.kind) = "link" =>
              c.var # "value" /\ c.var \notin ContextVars /\ LinkVars \subseteq {c.var}
<1>1. ASSUME NEW c \in Calls, Used(c.kind) = "link" PROVE c.kind \in {"off", "on"}
  BY <1>1 DEF Used
<1>2. \A v \in ContextVars : \E c \in Calls : c.var = v /\ Used(c.kind) = "context"
  BY DEF ContextVars, Used
<1>3. \A v \in LinkVars : \E c \in Calls : c.var = v /\ c.kind = "off" /\ Used(c.kind) = "link"
  BY DEF LinkVars, Used
<1>4. ASSUME NEW c \in Calls, Used(c.kind) = "link", NEW v \in LinkVars PROVE v = c.var
  BY <1>1, <1>3, <1>4 DEF OneUse
<1> QED BY <1>1, <1>2, <1>3, <1>4 DEF OneUse

\* A context that holds a variable of an emulator disconnected is open.
HeldOff(s, a, v) == \E i \in 1..Len(s) : s[i].held /\ s[i].on = a /\ s[i].var = v

Expected(a, v) ==
  /\ v \in ContextVars => (device[a][v] = "False" <=> HeldOff(stack, a, v))
  /\ v \in LinkVars => device[a][v] = flag[a]

\* The command of a call may have been carried out, and its caller not know it yet.
Underway(a, v) ==
  /\ pc = "poll" /\ ctl.op = "set" /\ ctl.on = a /\ ctl.var = v
  /\ ctl.state \notin {"running", "unmade"}

AsExpected == \A a \in Addrs, v \in Vars : <<a, v>> \notin missed /\ ~Underway(a, v) => Expected(a, v)
HeldIsSet ==
  pc = "poll" /\ ctl.op = "set" /\ ctl.held /\ ctl.var # "value" => device[ctl.on][ctl.var] = ctl.val

DeviceInv ==
  /\ pc \in {"test", "poll", "unwind"} /\ ~shared => AsExpected /\ HeldIsSet
  /\ pc = "opening" =>
       /\ stack = <<>> /\ \A a \in Addrs, v \in Vars : device[a][v] = "True"
       /\ \A a \in Addrs : a < next => flag[a] = "True"

\* Entering and leaving change what is held of one variable: who leaves holds it no more.
LEMMA HeldFacts ==
  ASSUME BodyShape, NEW a \in Addrs, NEW v \in Vars
  PROVE  /\ ~HeldOff(<<>>, a, v)
         /\ \A b \in Addrs, w \in Vars :
              LET pushed == Append(stack, [on |-> b, var |-> w, held |-> TRUE]) IN
              /\ <<a, v>> = <<b, w>> => HeldOff(pushed, a, v)
              /\ <<a, v>> # <<b, w>> => (HeldOff(pushed, a, v) <=> HeldOff(stack, a, v))
         /\ stack # <<>> =>
              LET top == stack[Len(stack)] IN
              /\ <<a, v>> = <<top.on, top.var>> => ~HeldOff(Left, a, v)
              /\ <<a, v>> # <<top.on, top.var>> => (HeldOff(Left, a, v) <=> HeldOff(stack, a, v))
<1>1. ~HeldOff(<<>>, a, v)
  BY DEF HeldOff
<1>2. Len(stack) \in Nat /\ \A i \in 1..Len(stack) : stack[i] \in Contexts
  BY DEF BodyShape
<1>3. ASSUME NEW b \in Addrs, NEW w \in Vars
      PROVE  LET pushed == Append(stack, [on |-> b, var |-> w, held |-> TRUE]) IN
             /\ <<a, v>> = <<b, w>> => HeldOff(pushed, a, v)
             /\ <<a, v>> # <<b, w>> => (HeldOff(pushed, a, v) <=> HeldOff(stack, a, v))
  <2> DEFINE e == [on |-> b, var |-> w, held |-> TRUE]
             pushed == Append(stack, e)
  <2>1. e.on = b /\ e.var = w /\ e.held
    OBVIOUS
  <2> HIDE DEF e
  <2>2. /\ Len(pushed) = Len(stack) + 1 /\ pushed[Len(stack) + 1] = e
        /\ \A i \in 1..Len(stack) : pushed[i] = stack[i]
    BY DEF BodyShape
  <2> HIDE DEF pushed
  <2>3. <<a, v>> = <<b, w>> => HeldOff(pushed, a, v)
    BY <1>2, <2>1, <2>2 DEF HeldOff
  <2>4. HeldOff(stack, a, v) => HeldOff(pushed, a, v)
    BY <1>2, <2>2 DEF HeldOff
  <2>5. ASSUME HeldOff(pushed, a, v), <<a, v>> # <<b, w>> PROVE HeldOff(stack, a, v)
    <3>1. PICK i \in 1..Len(pushed) : pushed[i].held /\ pushed[i].on = a /\ pushed[i].var = v
      BY <2>5 DEF HeldOff
    <3>2. i # Len(stack) + 1
      BY <2>1, <2>2, <2>5, <3>1
    <3>3. i \in 1..Len(stack)
      BY <1>2, <2>2, <3>1, <3>2
    <3> QED BY <2>2, <3>1, <3>3 DEF HeldOff
  <2> QED BY <2>3, <2>4, <2>5 DEF pushed, e
<1>4. ASSUME stack # <<>>
      PROVE  LET top == stack[Len(stack)] IN
             /\ <<a, v>> = <<top.on, top.var>> => ~HeldOff(Left, a, v)
             /\ <<a, v>> # <<top.on, top.var>> => (HeldOff(Left, a, v) <=> HeldOff(stack, a, v))
  <2> DEFINE top == stack[Len(stack)]
  <2>1. Len(Left) = Len(stack) - 1 /\ Len(stack) \in 1..Len(stack)
    BY <1>2, <1>4, StackFacts
  <2>2. ASSUME NEW i \in 1..Len(Left)
        PROVE  /\ i \in 1..Len(stack) /\ Left[i].on = stack[i].on /\ Left[i].var = stack[i].var
               /\ Left[i].held <=> stack[i].held /\ <<stack[i].on, stack[i].var>> # <<top.on, top.var>>
    <3>1. i \in 1..(Len(stack) - 1) /\ i \in 1..Len(stack)
      BY <1>2, <2>1
    <3>2. Left[i] = [stack[i] EXCEPT !.held = @ /\ <<stack[i].on, stack[i].var>> # <<top.on, top.var>>]
      BY <3>1 DEF Left
    <3> HIDE DEF top
    <3>3. stack[i] \in Contexts
      BY <1>2, <3>1
    <3> QED BY <3>1, <3>2, <3>3, Zenon DEF Contexts
  <2>3. \A i \in 1..Len(stack) : i \in 1..Len(Left) \/ i = Len(stack)
    BY <1>2, <2>1
  <2> HIDE DEF top
  <2>4. <<a, v>> = <<top.on, top.var>> => ~HeldOff(Left, a, v)
    BY <2>2 DEF HeldOff
  <2>5. <<a, v>> # <<top.on, top.var>> => (HeldOff(Left, a, v) <=> HeldOff(stack, a, v))
    BY <2>2, <2>3 DEF HeldOff, top
  <2> QED BY <2>4, <2>5 DEF top
<1> QED BY <1>1, <1>3, <1>4

\* Opening, and what does nothing to devices.
LEMMA DeviceQuiet ==
  ASSUME BackdoorInv, DeviceInv, OpenLewis \/ Quiet
  PROVE  DeviceInv'
<1>1. CASE OpenLewis
  <2>1. /\ pc = "opening" /\ pc' = pc /\ next' = next + 1 /\ flag' = [flag EXCEPT ![next] = "True"]
        /\ UNCHANGED <<stack, device>>
    BY <1>1 DEF OpenLewis, body
  <2>2. ASSUME NEW a \in Addrs, a < next' PROVE flag'[a] = "True"
    <3>1. a < next \/ a = next
      BY <2>1, <2>2 DEF Addrs, BackdoorInv, EmulatorsShape
    <3>2. flag'[a] = IF a = next THEN "True" ELSE flag[a]
      BY <2>1 DEF BackdoorInv, EmulatorsShape
    <3> QED BY <2>1, <3>1, <3>2 DEF DeviceInv
  <2> QED BY <2>1, <2>2 DEF DeviceInv
<1>2. CASE Quiet
  <2>1. UNCHANGED <<device, flag, ctl, stack, missed, shared>>
    BY <1>2 DEF Quiet
  <2>2. CASE pc = "opening" /\ pc' = "test"
    <3>1. next > NEmulators /\ stack = <<>>
      BY <1>2, <2>2 DEF Quiet, DeviceInv
    <3>2. ASSUME NEW a \in Addrs, NEW v \in Vars PROVE Expected(a, v)
      <4>1. flag[a] = "True" /\ device[a][v] = "True"
        BY <2>2, <3>1, LewisAssumption DEF DeviceInv, Addrs, BackdoorInv, EmulatorsShape
      <4>2. ~HeldOff(stack, a, v)
        BY <3>1, HeldFacts DEF BackdoorInv
      <4> QED BY <4>1, <4>2 DEF Expected
    <3> QED BY <2>1, <2>2, <3>2 DEF DeviceInv, AsExpected, HeldIsSet, Expected
  <2>3. CASE pc = "opening" /\ pc' # "test"
    <3>1. pc' \in {"opening", "leaked"} /\ next' = next
      BY <1>2, <2>3 DEF Quiet
    <3> QED BY <2>1, <2>3, <3>1 DEF DeviceInv
  <2>4. CASE pc # "opening"
    <3>1. /\ pc' = "poll" <=> pc = "poll"
          /\ pc' # "opening" /\ (pc' \in {"test", "poll", "unwind"} => pc \in {"test", "poll", "unwind"})
      BY <1>2, <2>4 DEF Quiet
    <3>2. AsExpected => AsExpected'
      BY <2>1, <3>1 DEF AsExpected, Expected, Underway
    <3>3. HeldIsSet => HeldIsSet'
      BY <2>1, <3>1 DEF HeldIsSet
    <3> QED BY <2>1, <3>1, <3>2, <3>3 DEF DeviceInv
  <2> QED BY <2>2, <2>3, <2>4
<1> QED BY <1>1, <1>2

\* A call, or the leaving of a context, starts a command and changes nothing else.
LEMMA DeviceAsks ==
  ASSUME BackdoorInv, DeviceInv, LeaveContext \/ \E c \in Calls : Asks(c)
  PROVE  DeviceInv'
<1>1. /\ pc \in {"test", "unwind"} /\ pc' = "poll" /\ UNCHANGED <<device, flag, stack, missed, shared>>
      /\ ctl'.state = "running" /\ ~ctl'.held
  <2>1. CASE LeaveContext
    BY <2>1 DEF LeaveContext, LeavesByCommand, Sets, Spawn, emulators, history
  <2>2. CASE \E c \in Calls : Asks(c)
    BY <2>2 DEF Asks, Command, emulators
  <2> QED BY <2>1, <2>2
<1>2. AsExpected => AsExpected'
  BY <1>1 DEF AsExpected, Expected, Underway
<1>3. HeldIsSet'
  BY <1>1 DEF HeldIsSet
<1> QED BY <1>1, <1>2, <1>3 DEF DeviceInv

\* A request reaches the emulator it is for; a late one changes what is in doubt anyway.
LEMMA DeviceAnswers ==
  ASSUME OneUse, BackdoorInv, ApartInv, RequestsInv, DeviceInv,
         Answers \/ CtlExits \/ CtlFails \/ LateAnswer \/ \E a \in Addrs : DeviceMoves(a)
  PROVE  DeviceInv'
<1>1. CASE Answers
  <2>1. PICK a \in Addrs :
          /\ port[a] = ctl.to
          /\ IF ctl.op = "set" THEN Changes(a, ctl.var, ctl.val) ELSE UNCHANGED <<device, seen>>
          /\ ctl' = [ctl EXCEPT !.state = "applied", !.held = TRUE,
                                !.out = IF ctl.op = "get" THEN device[a][ctl.var] ELSE Nothing]
    BY <1>1 DEF Answers
  <2>2. /\ pc = "poll" /\ UNCHANGED <<pc, flag, stack, missed, shared>> /\ ctl \in Commands
        /\ ctl.state = "running"
    BY <1>1 DEF Answers, BackdoorInv, CommandInv, body
  <2> SUFFICES ASSUME ~shared PROVE AsExpected' /\ HeldIsSet'
    BY <2>2 DEF DeviceInv
  <2>3. a = ctl.on /\ ctl.on \in Addrs /\ ctl.var \in Vars /\ ctl.val \in Values
    BY <2>1, <2>2 DEF ApartInv, RequestsInv, Commands
  <2>4. /\ ctl'.op = ctl.op /\ ctl'.on = ctl.on /\ ctl'.var = ctl.var /\ ctl'.val = ctl.val
        /\ ctl'.state = "applied"
    BY <2>1, <2>2 DEF Commands
  <2>5. AsExpected
    BY <2>2 DEF DeviceInv
  <2>6. ASSUME NEW b \in Addrs, NEW v \in Vars, <<b, v>> \notin missed', ~Underway(b, v)'
        PROVE  Expected(b, v)'
    <3>1. Expected(b, v)
      BY <2>2, <2>5, <2>6 DEF AsExpected, Underway
    <3>2. device'[b][v] = device[b][v]
      <4>1. CASE ctl.op = "set"
        <5>1. <<b, v>> # <<ctl.on, ctl.var>>
          BY <2>2, <2>4, <2>6, <4>1 DEF Underway
        <5> QED BY <2>1, <2>3, <4>1, <5>1 DEF Changes, BackdoorInv, EmulatorsShape
      <4>2. CASE ctl.op # "set"
        BY <2>1, <4>2
      <4> QED BY <4>1, <4>2
    <3> QED BY <2>2, <3>1, <3>2 DEF Expected
  <2>7. ctl.op = "set" => device'[ctl.on][ctl.var] = ctl.val
    BY <2>1, <2>3 DEF Changes, BackdoorInv, EmulatorsShape
  <2> QED BY <2>4, <2>6, <2>7 DEF AsExpected, HeldIsSet
<1>2. CASE CtlExits \/ CtlFails
  <2>1. pc = "poll" /\ UNCHANGED <<pc, device, flag, stack, missed, shared>> /\ ctl \in Commands
    BY <1>2 DEF CtlExits, CtlFails, emulators, body, history, BackdoorInv, CommandInv
  <2>2. /\ ctl'.op = ctl.op /\ ctl'.on = ctl.on /\ ctl'.var = ctl.var /\ ctl'.val = ctl.val
        /\ ctl'.held = ctl.held
        /\ ctl'.state \in {"running", "unmade"} => ctl.state \in {"running", "unmade"}
    BY <1>2, <2>1 DEF CtlExits, CtlFails, Commands
  <2>3. AsExpected => AsExpected'
    BY <2>1, <2>2 DEF AsExpected, Expected, Underway
  <2>4. HeldIsSet => HeldIsSet'
    BY <2>1, <2>2 DEF HeldIsSet
  <2> QED BY <2>1, <2>3, <2>4 DEF DeviceInv
<1>3. CASE LateAnswer
  <2>1. PICK r \in late :
          /\ \/ \E a \in Addrs : bound[a] /\ port[a] = r.to /\ Changes(a, r.var, r.val)
             \/ UNCHANGED <<device, seen>>
          /\ ctl' = IF pc = "poll" /\ <<ctl.on, ctl.var>> = <<r.on, r.var>>
                    THEN [ctl EXCEPT !.held = FALSE] ELSE ctl
    BY <1>3 DEF LateAnswer
  <2>2. /\ UNCHANGED <<pc, flag, stack, missed, shared>> /\ pc # "opening"
        /\ r.on \in Addrs /\ r.var \in Vars /\ r.val \in Values
    BY <1>3, <2>1 DEF LateAnswer, body, BackdoorInv, BodyShape, Request, RequestsInv
  <2> SUFFICES ASSUME pc \in {"test", "poll", "unwind"}, ~shared PROVE AsExpected' /\ HeldIsSet'
    BY <2>2 DEF DeviceInv
  <2>3. AsExpected /\ HeldIsSet
    BY DEF DeviceInv
  <2>4. \A b \in Addrs, v \in Vars : <<b, v>> # <<r.on, r.var>> => device'[b][v] = device[b][v]
    <3>1. CASE UNCHANGED device
      BY <3>1
    <3>2. ASSUME NEW a \in Addrs, port[a] = r.to, Changes(a, r.var, r.val)
          PROVE  \A b \in Addrs, v \in Vars : <<b, v>> # <<r.on, r.var>> => device'[b][v] = device[b][v]
      <4>1. a = r.on
        BY <2>1, <2>2, <3>2 DEF ApartInv, RequestsInv
      <4> QED BY <2>2, <3>2, <4>1 DEF Changes, BackdoorInv, EmulatorsShape
    <3> QED BY <2>1, <3>1, <3>2
  <2>5. pc = "poll" =>
          /\ ctl'.op = ctl.op /\ ctl'.on = ctl.on /\ ctl'.var = ctl.var /\ ctl'.val = ctl.val
          /\ ctl'.state = ctl.state
          /\ ctl'.held => ctl.held /\ <<ctl.on, ctl.var>> # <<r.on, r.var>>
          /\ ctl.on \in Addrs /\ ctl.var \in Vars
    <3> SUFFICES ASSUME pc = "poll" PROVE
          /\ ctl'.op = ctl.op /\ ctl'.on = ctl.on /\ ctl'.var = ctl.var /\ ctl'.val = ctl.val
          /\ ctl'.state = ctl.state
          /\ ctl'.held => ctl.held /\ <<ctl.on, ctl.var>> # <<r.on, r.var>>
          /\ ctl.on \in Addrs /\ ctl.var \in Vars
      OBVIOUS
    <3>1. ctl \in Commands
      BY DEF BackdoorInv, CommandInv
    <3> QED BY <2>1, <3>1 DEF Commands
  <2>6. ASSUME NEW b \in Addrs, NEW v \in Vars, <<b, v>> \notin missed', ~Underway(b, v)'
        PROVE  Expected(b, v)'
    <3>1. Expected(b, v)
      BY <2>2, <2>3, <2>5, <2>6 DEF AsExpected, Underway
    <3>2. <<b, v>> # <<r.on, r.var>>
      BY <2>1, <2>2, <2>6 DEF RequestsInv, Asked
    <3> QED BY <2>2, <2>4, <3>1, <3>2 DEF Expected
  <2>7. HeldIsSet'
    BY <2>2, <2>3, <2>4, <2>5 DEF HeldIsSet
  <2> QED BY <2>6, <2>7 DEF AsExpected
<1>4. ASSUME NEW a \in Addrs, DeviceMoves(a) PROVE DeviceInv'
  <2>1. PICK x \in Values : Changes(a, "value", x)
    BY <1>4 DEF DeviceMoves
  <2>2. pc = "poll" /\ UNCHANGED <<pc, ctl, flag, stack, missed, shared>>
    BY <1>4 DEF DeviceMoves, command, body
  <2>3. \A b \in Addrs, v \in Vars : v # "value" => device'[b][v] = device[b][v]
    BY <2>1 DEF Changes, BackdoorInv, EmulatorsShape
  <2>4. AsExpected => AsExpected'
    <3> SUFFICES ASSUME AsExpected, NEW b \in Addrs, NEW v \in Vars, <<b, v>> \notin missed', ~Underway(b, v)'
                 PROVE  Expected(b, v)'
      BY DEF AsExpected
    <3>1. Expected(b, v)
      BY <2>2 DEF AsExpected, Underway
    <3> QED BY <2>2, <2>3, <3>1, UsesApart DEF Expected
  <2>5. HeldIsSet => HeldIsSet'
    <3>1. ctl.on \in Addrs /\ ctl.var \in Vars
      BY <2>2 DEF BackdoorInv, CommandInv, Commands
    <3> QED BY <2>2, <2>3, <3>1 DEF HeldIsSet
  <2> QED BY <2>2, <2>4, <2>5 DEF DeviceInv
<1> QED BY <1>1, <1>2, <1>3, <1>4

\* A command that could not be created was not carried out: a context that is left without
\* it leaves its variable in doubt.
LEMMA DeviceRaises ==
  ASSUME BackdoorInv, RequestsInv, DeviceInv, CannotSpawn
  PROVE  DeviceInv'
<1>1. /\ pc = "poll" /\ pc' = "unwind" /\ ctl.state = "unmade"
      /\ stack' = IF call.kind = "leave" THEN Left ELSE stack
      /\ missed' = IF call.kind = "leave" THEN Missing ELSE missed
      /\ UNCHANGED <<device, flag, shared>>
  BY DEF CannotSpawn, Throw, emulators
<1> SUFFICES ASSUME ~shared PROVE AsExpected'
  BY <1>1 DEF DeviceInv, HeldIsSet
<1>2. AsExpected
  BY <1>1 DEF DeviceInv
<1>3. ASSUME NEW a \in Addrs, NEW v \in Vars, <<a, v>> \notin missed' PROVE Expected(a, v)'
  <2>1. CASE call.kind # "leave"
    <3>1. Expected(a, v)
      BY <1>1, <1>2, <1>3, <2>1 DEF AsExpected, Underway
    <3> QED BY <1>1, <2>1, <3>1 DEF Expected
  <2>2. CASE call.kind = "leave"
    <3> DEFINE top == stack[Len(stack)]
    <3>1. /\ ctl.op = "set" /\ ~ctl.held /\ stack # <<>>
          /\ ctl.on = top.on /\ ctl.var = top.var
      BY <1>1, <2>2 DEF BackdoorInv, CommandInv, RequestsInv, Asserts
    <3>2. <<a, v>> # <<ctl.on, ctl.var>> /\ <<a, v>> \notin missed
      BY <1>1, <1>3, <2>2, <3>1, MissingFacts
    <3>3. Expected(a, v)
      BY <1>1, <1>2, <3>2 DEF AsExpected, Underway
    <3>4. HeldOff(Left, a, v) <=> HeldOff(stack, a, v)
      BY <3>1, <3>2, HeldFacts DEF BackdoorInv
    <3> QED BY <1>1, <2>2, <3>3, <3>4 DEF Expected
  <2> QED BY <2>1, <2>2
<1> QED BY <1>3 DEF AsExpected

\* A command that ended: what its caller notes is what the device holds, or in doubt.
LEMMA DeviceFinishes ==
  ASSUME OneUse, BackdoorInv, RequestsInv, DeviceInv, pc = "poll", NEW out, Finished(out)
  PROVE  DeviceInv'
<1> DEFINE w == <<ctl.on, ctl.var>>
<1>1. /\ missed' = Missing /\ ctl.state # "unmade" /\ UNCHANGED <<device, shared>>
  BY DEF Finished
<1>2. pc' \in {"test", "poll", "unwind"} /\ (pc' = "poll" => ctl'.state = "running" /\ ~ctl'.held)
  BY DEF Finished, LooksAt, CallOver, Command
<1> SUFFICES ASSUME ~shared PROVE AsExpected'
  BY <1>1, <1>2 DEF DeviceInv, HeldIsSet
<1>3. AsExpected /\ HeldIsSet
  BY DEF DeviceInv
<1>4. /\ ctl.on = call.on /\ ctl.var = call.var /\ call # NoCall
      /\ call.kind \in Kinds \cup {"leave"} /\ call.on \in Addrs /\ call.var \in Vars
      /\ ctl.op = IF call.kind \in Asserts THEN "get" ELSE "set"
  BY CallKinds DEF BackdoorInv, CommandInv
<1>5. call.kind # "leave" => \E c \in Calls : c.var = call.var /\ Used(c.kind) = Used(call.kind)
  BY DEF BackdoorInv, CommandInv
<1>6. call.kind = "leave" =>
        stack # <<>> /\ call.on = stack[Len(stack)].on /\ call.var = stack[Len(stack)].var
  BY DEF BackdoorInv, CommandInv
<1>7. ASSUME NEW a \in Addrs, NEW v \in Vars, <<a, v>> \notin missed', <<a, v>> # w
      PROVE  Expected(a, v)'
  <2>1. Expected(a, v)
    BY <1>1, <1>3, <1>7, MissingFacts DEF AsExpected, Underway
  <2>2. CASE LooksAt
    BY <1>1, <2>1, <2>2 DEF LooksAt, Expected
  <2>3. CASE CallOver(out)
    <3>1. v \in ContextVars => (HeldOff(stack', a, v) <=> HeldOff(stack, a, v))
      <4>1. CASE call.kind = "enter"
        <5>1. stack' = Append(stack, [on |-> call.on, var |-> call.var, held |-> TRUE])
          BY <2>3, <4>1 DEF CallOver
        <5> QED BY <1>4, <1>7, <5>1, HeldFacts DEF BackdoorInv
      <4>2. CASE call.kind = "leave"
        <5>1. stack' = Left
          BY <2>3, <4>2 DEF CallOver
        <5> QED BY <1>4, <1>6, <1>7, <4>2, <5>1, HeldFacts DEF BackdoorInv
      <4>3. CASE call.kind \notin {"enter", "leave"}
        BY <2>3, <4>3 DEF CallOver
      <4> QED BY <4>1, <4>2, <4>3
    <3>2. v \in LinkVars => flag'[a] = flag[a]
      <4>1. CASE call.kind \in {"off", "on"}
        <5>1. v \in LinkVars => v = call.var
          BY <1>5, <4>1, UsesApart DEF Used
        <5>2. v \in LinkVars => a # call.on
          BY <1>4, <1>7, <5>1
        <5> QED BY <2>3, <4>1, <5>2 DEF CallOver, BackdoorInv, EmulatorsShape
      <4>2. CASE call.kind \notin {"off", "on"}
        BY <2>3, <4>2 DEF CallOver
      <4> QED BY <4>1, <4>2
    <3> QED BY <1>1, <2>1, <3>1, <3>2 DEF Expected
  <2> QED BY <2>2, <2>3 DEF Finished
<1>8. ASSUME NEW a \in Addrs, NEW v \in Vars, <<a, v>> \notin missed', <<a, v>> = w
      PROVE  Expected(a, v)'
  <2>1. CASE call.kind \in Asserts
    <3>1. v \notin ContextVars \cup LinkVars
      BY <1>4, <1>5, <1>8, <2>1, UsesApart DEF Asserts, Used
    <3> QED BY <3>1 DEF Expected
  <2>2. CASE call.kind \in {"set", "setis"}
    <3>1. v \notin ContextVars \cup LinkVars
      BY <1>4, <1>5, <1>8, <2>2, UsesApart DEF Used
    <3> QED BY <3>1 DEF Expected
  <2>3. CASE call.kind \in {"enter", "leave", "off", "on"}
    <3>1. CallOver(out) /\ ctl.op = "set"
      BY <1>4, <2>3 DEF Finished, LooksAt, Asserts
    <3>2. ctl.held
      BY <1>1, <1>8, <3>1, MissingFacts
    <3>3. call.kind \in {"enter", "leave"} => v \in ContextVars
      BY <1>4, <1>8, CallKinds DEF BackdoorInv, CommandInv, Leavings
    <3>4. call.kind \in {"off", "on"} => v # "value" /\ v \notin ContextVars
      BY <1>4, <1>5, <1>8, UsesApart DEF Used
    <3>5. v # "value" /\ (v \in ContextVars => v \notin LinkVars)
      BY <2>3, <3>3, <3>4, UsesApart
    <3>6. device[a][v] = ctl.val
      BY <1>3, <1>8, <3>1, <3>2, <3>5 DEF HeldIsSet
    <3>7. CASE call.kind = "enter"
      <4>1. stack' = Append(stack, [on |-> call.on, var |-> call.var, held |-> TRUE]) /\ ctl.val = "False"
        BY <3>1, <3>7 DEF CallOver, BackdoorInv, CommandInv
      <4>2. HeldOff(stack', a, v)
        BY <1>4, <1>8, <4>1, HeldFacts DEF BackdoorInv
      <4> QED BY <1>1, <3>3, <3>5, <3>6, <3>7, <4>1, <4>2 DEF Expected
    <3>8. CASE call.kind = "leave"
      <4>1. stack' = Left /\ ctl.val = "True"
        BY <3>1, <3>8 DEF CallOver, BackdoorInv, CommandInv
      <4>2. ~HeldOff(stack', a, v)
        BY <1>4, <1>6, <1>8, <3>8, <4>1, HeldFacts DEF BackdoorInv
      <4> QED BY <1>1, <3>3, <3>5, <3>6, <3>8, <4>1, <4>2 DEF Expected
    <3>9. CASE call.kind \in {"off", "on"}
      <4>1. flag' = [flag EXCEPT ![call.on] = ctl.val]
        BY <3>1, <3>9 DEF CallOver, BackdoorInv, CommandInv
      <4>2. flag'[a] = ctl.val
        BY <1>4, <1>8, <4>1 DEF BackdoorInv, EmulatorsShape
      <4> QED BY <1>1, <3>4, <3>6, <3>9, <4>2 DEF Expected
    <3> QED BY <2>3, <3>7, <3>8, <3>9
  <2> QED BY <1>4, <2>1, <2>2, <2>3 DEF Kinds
<1> QED BY <1>7, <1>8 DEF AsExpected

\* Every step leaves the devices as last commanded.
LEMMA DeviceStep ==
  ASSUME OneUse
  PROVE  BackdoorInv /\ ApartInv /\ RequestsInv /\ DeviceInv /\ [Next]_vars => DeviceInv'
<1> SUFFICES ASSUME BackdoorInv, ApartInv, RequestsInv, DeviceInv, [Next]_vars PROVE DeviceInv'
  OBVIOUS
<1> QED BY StepCases, DeviceQuiet, DeviceAsks, DeviceAnswers, DeviceRaises, DeviceFinishes, Zenon

\* As long as a test uses each variable of a device in one way: between two calls, however
\* the earlier ones ended and whatever was nested in what, a device that is not in doubt
\* is disconnected just by the contexts still open on it, and is what _connected says.
THEOREM DevicesAreAsCommanded ==
  ASSUME OneUse
  PROVE  Spec => []DeviceAsCommanded
<1>1. Init => DeviceInv
  BY DEF Init, LewisInit, DeviceInv, Addrs
<1>2. BackdoorInv /\ DeviceInv => DeviceAsCommanded
  <2> SUFFICES ASSUME BackdoorInv, DeviceInv, pc = "test", ~shared
               PROVE  DeviceAsCommanded
    BY DEF DeviceAsCommanded
  <2>1. ContextVars \subseteq Vars /\ LinkVars \subseteq Vars
    BY DEF ContextVars, LinkVars, Vars
  <2>2. \A a \in Addrs, v \in Vars : <<a, v>> \notin missed => Expected(a, v)
    BY DEF DeviceInv, AsExpected, Underway
  <2> QED BY <2>1, <2>2 DEF Expected, HeldOff, DeviceAsCommanded
<1> QED BY <1>1, <1>2, PortsStep, PortsInit, BackdoorInit, OpeningFacts, BackdoorStep, ApartStep, RequestsStep,
           DeviceStep, PTL DEF Spec
=============================================================================
