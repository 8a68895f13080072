--------------------------- MODULE ProcServProofs ---------------------------
(***************************************************************************)
(* The launchers and the calls of a test:                                   *)
(*   launchers keep the promise of IocLife, whatever IOCs, processes and    *)
(*   tests do meanwhile, and what follows from the order of opening and     *)
(*   closing alone                                                          *)
(*   the steps left of a call, and the macros meanwhile                     *)
(*   the types                                                              *)
(***************************************************************************)
EXTENDS ProcServ, SequenceLemmas, TLAPS

OpenPc == {"check", "spawn", "console", "inits", "exists", "connect"}
TestPc == {"test", "await", "resend", "answer"}
ClosePc == {"unwind", "closing", "search", "kill"}

(* Launches are opened in order and closed from the last one; the launch     *)
(* being opened is neither open nor failed; the next one is opened beside    *)
(* others only when none of them failed.                                    *)
InOrder ==
  /\ \A i, j \in 1..Len(stack) : i < j => stack[i] < stack[j]
  /\ \A i \in 1..Len(stack) : stack[i] <= cur /\ stack[i] \notin failed
  /\ failed \subseteq 1..cur
  /\ pc \in OpenPc => cur \in Launch \ failed /\ \A i \in 1..Len(stack) : stack[i] # cur
  /\ pc = "idle" /\ stack # <<>> => cur \notin failed

(* Which launch a close is about, and which one is registered already when   *)
(* its telnet connection is made.                                           *)
AtWork ==
  /\ pc = "connect" => RunningIOCs[NameOf[cur]] = cur /\ Class[cur] = "procserv"
  /\ pc = "closing" => Closing("ioc")
  /\ pc \in {"search", "kill"} => Closing("procserv")
  /\ pc \in TestPc => HasTarget

ControlInv ==
  /\ pc \in {"idle"} \cup OpenPc \cup TestPc \cup ClosePc
  /\ cur \in 0..NLaunches /\ stack \in Seq(Launch)
  /\ RunningIOCs \in [Name -> 0..NLaunches]
  /\ InOrder /\ AtWork

---------------------------------------------------------------------------
(* What a step does to the launches.                                        *)

Launches == <<cur, stack, failed, RunningIOCs>>

Begins ==
  /\ pc = "idle" /\ cur < NLaunches /\ ~ModuleOpen
  /\ pc' = "check" /\ cur' = cur + 1 /\ UNCHANGED <<stack, failed, RunningIOCs>>
Registers ==
  /\ pc = "exists" /\ Class[cur] = "procserv" /\ pc' = "connect"
  /\ RunningIOCs' = [RunningIOCs EXCEPT ![NameOf[cur]] = cur]
  /\ UNCHANGED <<cur, stack, failed>>
ComesUp ==
  /\ pc \in {"exists", "connect"} /\ pc' = "idle" /\ stack' = Append(stack, cur)
  /\ \/ RunningIOCs' = [RunningIOCs EXCEPT ![NameOf[cur]] = cur]
     \/ pc = "connect" /\ UNCHANGED RunningIOCs
  /\ UNCHANGED <<cur, failed>>
Abandons == pc \in OpenPc /\ Fails(cur) /\ UNCHANGED <<cur, stack>>
Closes ==
  /\ pc \in {"unwind", "closing", "search", "kill"} /\ stack # <<>>
  /\ Closed /\ UNCHANGED <<failed, RunningIOCs>>

(* All other steps leave the launches as they are, and move as follows.      *)
Moves ==
  \/ pc' = pc
  \/ pc \in OpenPc /\ pc' \in OpenPc \ {"connect"}
  \/ pc = "idle" /\ HasTarget /\ pc' \in TestPc
  \/ pc \in TestPc /\ pc' \in TestPc
  \/ pc \in TestPc \cup {"idle"} /\ pc' = "unwind"
  \/ pc = "unwind" /\ stack = <<>> /\ pc' = "idle"
  \/ pc = "unwind" /\ Closing("ioc") /\ pc' = "closing"
  \/ pc = "unwind" /\ Closing("procserv") /\ pc' = "search"
  \/ pc \in {"search", "kill"} /\ pc' \in {"search", "kill"}
Stays == UNCHANGED Launches /\ Moves

(* Opening a launch.                                                        *)
LEMMA OpenSteps ==
  ASSUME Open \/ SpawnServer \/ Connect \/ ConnectRaises
  PROVE  Begins \/ Registers \/ ComesUp \/ Abandons \/ Stays
<1> USE DEF OpenPc, Stays, Moves, Launches
<1>1. CASE BeginOpen
  BY <1>1 DEF BeginOpen, Begins, record
<1>2. CASE RefuseOpen \/ OpenRaises \/ ConnectRaises
  BY <1>2 DEF RefuseOpen, OpenRaises, ConnectRaises, Abandons
<1>3. CASE PrepareFiles \/ SpawnRaises \/ SpawnServer
  BY <1>3 DEF PrepareFiles, SpawnRaises, SpawnServer, Spawn, record
<1>4. CASE SeesConsole \/ PollsConsole \/ ConsoleTimesOut \/ SetInits \/ InitsRaise
  BY <1>4 DEF SeesConsole, PollsConsole, ConsoleTimesOut, SetInits, InitsRaise, record
<1>5. CASE EndOpen
  <2>1. CASE Class[cur] = "procserv"
    BY <1>5, <2>1 DEF EndOpen, Registers
  <2>2. CASE Class[cur] # "procserv"
    BY <1>5, <2>2 DEF EndOpen, ComesUp
  <2> QED BY <2>1, <2>2
<1>6. CASE Connect
  BY <1>6 DEF Connect, ComesUp, record
<1> QED BY <1>1, <1>2, <1>3, <1>4, <1>5, <1>6 DEF Open

(* Closing one.                                                             *)
LEMMA CloseSteps ==
  ASSUME ControlInv, Close \/ CloseTelnet \/ FindsNone \/ FindProcesses \/ KillServer \/ KillRaises
  PROVE  Closes \/ Stays
<1> USE DEF Stays, Moves, Launches
<1>1. CASE BeginUnwind \/ EndUnwind \/ StillThere
  BY <1>1 DEF BeginUnwind, EndUnwind, StillThere, record
<1>2. CASE TellToExit
  BY <1>2 DEF TellToExit, record
<1>3. CASE CloseRaises \/ KillPython
  BY <1>3 DEF CloseRaises, KillPython, Closing, Closes, record
<1>4. CASE SeenGone \/ KillIoc
  BY <1>4 DEF SeenGone, KillIoc, Closes, ControlInv, AtWork, Closing, record
<1>5. CASE CloseTelnet
  BY <1>5 DEF CloseTelnet, record
<1>6. CASE FindsNone \/ KillRaises
  BY <1>6 DEF FindsNone, KillRaises, ClosedServer, Closes, ControlInv, AtWork, Closing, record
<1>7. CASE FindProcesses \/ KillServer
  BY <1>7 DEF FindProcesses, KillServer, record
<1> QED BY <1>1, <1>2, <1>3, <1>4, <1>5, <1>6, <1>7 DEF Close

(* Tests and processes.                                                     *)
LEMMA OtherSteps ==
  ASSUME \/ Test \/ Calls \/ Done \/ UNCHANGED vars
         \/ \E l \in Launch : ReadMacros(l) \/ Serve(l) \/ Prompt(l) \/ Exit(l) \/ Die(l)
         \/ \E l \in ProcServs :
              Restarts(l) \/ Quits(l) \/ Saves(l) \/ Toggles(l) \/ Revives(l) \/ Noise(l)
  PROVE  Stays
<1> USE DEF Stays, Moves, Launches, TestPc
<1>1. CASE BeginTests \/ EndTests \/ JustSend \/ Toggle
  BY <1>1 DEF BeginTests, EndTests, JustSend, Toggle, Doing, Go, testFrame, record, startVars, control
<1>2. CASE CallStartWithMacros \/ CallStart \/ LeaveBody \/ Pass \/ Reraise
  BY <1>2 DEF CallStartWithMacros, CallStart, LeaveBody, Pass, Reraise, Call, Doing, Go,
              Advance, Raise, testFrame, record
<1>3. CASE SetMacros \/ SendStart \/ SeesPv
  BY <1>3 DEF SetMacros, SendStart, SeesPv, Doing, Go, Advance, Raise, awaitFrame, testFrame, record
<1>4. CASE SeesStart \/ PollsStart \/ Resend
  BY <1>4 DEF SeesStart, PollsStart, Resend, Go, Advance, awaitFrame, testFrame, record
<1>5. CASE Reconnect \/ ReconnectRaises \/ StartRaises \/ ReadAnswer
  BY <1>5 DEF Reconnect, ReconnectRaises, StartRaises, ReadAnswer, Doing, Go, Raise, testFrame, record
<1>6. CASE Done \/ UNCHANGED vars
  BY <1>6 DEF Done, vars, startVars, control, record
<1>7. ASSUME NEW l \in Launch, ReadMacros(l) \/ Serve(l) \/ Prompt(l) \/ Exit(l) \/ Die(l)
      PROVE  Stays
  BY <1>7 DEF ReadMacros, Serve, Prompt, Exit, Die, control, record
<1>8. ASSUME NEW l \in ProcServs,
             Restarts(l) \/ Quits(l) \/ Saves(l) \/ Toggles(l) \/ Revives(l) \/ Noise(l)
      PROVE  Stays
  BY <1>8 DEF Restarts, Quits, Saves, Toggles, Revives, Noise, serverFrame, control, record
<1> QED BY <1>1, <1>2, <1>3, <1>4, <1>5, <1>6, <1>7, <1>8 DEF Test, Calls

(* Every step is of one of these kinds.                                     *)
LEMMA StepKinds ==
  ASSUME ControlInv, [Next]_vars
  PROVE  Begins \/ Registers \/ ComesUp \/ Abandons \/ Closes \/ Stays
<1>1. CASE Program
  BY <1>1, OpenSteps, CloseSteps, OtherSteps, Zenon DEF Program
<1>2. CASE Test \/ Processes \/ Done \/ UNCHANGED vars
  BY <1>2, OtherSteps, Zenon DEF Processes
<1> QED BY <1>1, <1>2, Zenon DEF Next

---------------------------------------------------------------------------
(* The control is in order.                                                 *)

(* What is left after the launch opened last is closed.                     *)
LEMMA CloseLast ==
  ASSUME stack \in Seq(Launch), stack # <<>>, stack' = SubSeq(stack, 1, Len(stack) - 1)
  PROVE  /\ stack' \in Seq(Launch) /\ Len(stack) \in Nat \ {0} /\ Len(stack') = Len(stack) - 1
         /\ \A i \in 1..Len(stack') : stack'[i] = stack[i]
         /\ Top = stack[Len(stack)] /\ Top \in Launch
BY FrontFacts DEF Top

(* An order that holds of a stack holds of what a close leaves of it.        *)
LEMMA CloseOrder ==
  ASSUME InOrder, Len(stack) \in Nat, Len(stack') = Len(stack) - 1,
         \A i \in 1..Len(stack') : stack'[i] = stack[i],
         pc' = "unwind", cur' = cur, failed' = failed
  PROVE  InOrder'
<1>1. \A i \in 1..Len(stack') : i \in 1..Len(stack)
  OBVIOUS
<1>2. \A i, j \in 1..Len(stack') : i < j => stack'[i] < stack'[j]
  BY <1>1 DEF InOrder
<1>3. \A i \in 1..Len(stack') : stack'[i] <= cur' /\ stack'[i] \notin failed'
  BY <1>1 DEF InOrder
<1> QED BY <1>2, <1>3 DEF InOrder, OpenPc

(* Nothing is open, nothing is wrong at first.                              *)
LEMMA ControlInit == Init => ControlInv
BY LaunchesAssumption
   DEF Init, StartInit, ControlInv, InOrder, AtWork, OpenPc, TestPc, ClosePc, NoLaunch, Launch

(* A launch that begins is the last.                                        *)
LEMMA BeginOrder ==
  ASSUME ControlInv, Begins
  PROVE  ControlInv'
<1>1. /\ stack' = stack /\ failed' = failed /\ RunningIOCs' = RunningIOCs
      /\ cur' = cur + 1 /\ pc' = "check" /\ cur < NLaunches
  BY DEF Begins
<1>2. /\ cur \in 0..NLaunches /\ NLaunches \in Nat /\ stack \in Seq(Launch)
      /\ RunningIOCs \in [Name -> 0..NLaunches]
  BY LaunchesAssumption DEF ControlInv
<1>3. /\ \A i, j \in 1..Len(stack) : i < j => stack[i] < stack[j]
      /\ \A i \in 1..Len(stack) : stack[i] <= cur /\ stack[i] \notin failed
      /\ failed \subseteq 1..cur
  BY DEF ControlInv, InOrder
<1>4. \A i \in 1..Len(stack) : stack[i] \in Nat
  BY <1>2 DEF Launch
<1>5. cur' \in 1..NLaunches /\ cur' \notin failed /\ failed \subseteq 1..cur'
  BY <1>1, <1>2, <1>3
<1>6. \A i \in 1..Len(stack) : stack[i] <= cur' /\ stack[i] # cur'
  BY <1>1, <1>2, <1>3, <1>4
<1>7. InOrder'
  BY <1>1, <1>3, <1>5, <1>6 DEF InOrder, Launch
<1> QED BY <1>1, <1>2, <1>5, <1>7 DEF ControlInv, AtWork, OpenPc, TestPc, ClosePc

(* A launch that comes up is above those that are open.                     *)
LEMMA UpOrder ==
  ASSUME ControlInv, ComesUp
  PROVE  ControlInv'
<1>1. /\ pc \in {"exists", "connect"} /\ pc' = "idle" /\ cur' = cur /\ failed' = failed
      /\ stack' = Append(stack, cur)
  BY DEF ComesUp
<1>2. /\ cur \in Launch /\ cur \notin failed /\ stack \in Seq(Launch) /\ cur \in 0..NLaunches
      /\ NLaunches \in Nat /\ RunningIOCs \in [Name -> 0..NLaunches]
  BY <1>1, LaunchesAssumption DEF ControlInv, InOrder, OpenPc
<1>3. /\ Len(stack) \in Nat /\ stack' \in Seq(Launch) /\ Len(stack') = Len(stack) + 1
      /\ \A i \in 1..Len(stack) : stack'[i] = stack[i] /\ stack[i] \in Launch
      /\ stack'[Len(stack) + 1] = cur
  BY <1>1, <1>2, PushedFacts
<1>4. \A i \in 1..Len(stack) : stack[i] \in Nat /\ stack[i] < cur
  <2>1. \A i \in 1..Len(stack) : stack[i] \in Nat
    BY <1>3 DEF Launch
  <2>2. \A i \in 1..Len(stack) : stack[i] <= cur /\ stack[i] # cur
    BY <1>1 DEF ControlInv, InOrder, OpenPc
  <2> QED BY <1>2, <2>1, <2>2
<1>5. \A i \in 1..Len(stack') : i \in 1..Len(stack) \/ i = Len(stack) + 1
  BY ONLY <1>3
<1>6. \A i, j \in 1..Len(stack') : i < j => stack'[i] < stack'[j]
  <2> SUFFICES ASSUME NEW i \in 1..Len(stack'), NEW j \in 1..Len(stack'), i < j PROVE stack'[i] < stack'[j]
    OBVIOUS
  <2>1. i \in 1..Len(stack)
    BY ONLY <1>3, i \in 1..Len(stack'), j \in 1..Len(stack'), i < j
  <2>2. CASE j \in 1..Len(stack)
    BY <1>3, <2>1, <2>2 DEF ControlInv, InOrder
  <2>3. CASE j = Len(stack) + 1
    BY <1>3, <1>4, <2>1, <2>3
  <2> QED BY <1>5, <2>2, <2>3
<1>7. \A i \in 1..Len(stack') : stack'[i] <= cur /\ stack'[i] \notin failed
  <2> SUFFICES ASSUME NEW i \in 1..Len(stack') PROVE stack'[i] <= cur /\ stack'[i] \notin failed
    OBVIOUS
  <2>1. CASE i \in 1..Len(stack)
    BY <1>3, <2>1 DEF ControlInv, InOrder
  <2>2. CASE i = Len(stack) + 1
    BY <1>2, <1>3, <2>2
  <2> QED BY <1>5, <2>1, <2>2
<1>8. InOrder'
  BY <1>1, <1>2, <1>6, <1>7 DEF InOrder, OpenPc, ControlInv
<1>9. RunningIOCs' \in [Name -> 0..NLaunches]
  BY <1>2 DEF ComesUp
<1> QED BY <1>1, <1>2, <1>3, <1>8, <1>9 DEF ControlInv, AtWork, OpenPc, TestPc, ClosePc

(* Every kind of step keeps the order.                                      *)
LEMMA ControlStep == ControlInv /\ [Next]_vars => ControlInv'
<1> SUFFICES ASSUME ControlInv, [Next]_vars PROVE ControlInv'
  OBVIOUS
<1>1. CASE Begins
  BY <1>1, BeginOrder
<1>3. CASE ComesUp
  BY <1>3, UpOrder
<1>0. Len(stack) \in Nat
  BY DEF ControlInv
<1> USE LaunchesAssumption DEF ControlInv, InOrder, AtWork, OpenPc, TestPc, ClosePc, Launch
<1>2. CASE Registers
  BY <1>2 DEF Registers
<1>4. CASE Abandons
  BY <1>4 DEF Abandons, Fails
<1>5. CASE Closes
  <2>1. /\ stack' \in Seq(Launch) /\ Len(stack') = Len(stack) - 1
        /\ \A i \in 1..Len(stack') : stack'[i] = stack[i]
        /\ pc' = "unwind" /\ cur' = cur /\ failed' = failed
    BY <1>5, CloseLast DEF Closes, Closed
  <2>2. InOrder'
    BY <1>0, <2>1, CloseOrder
  <2>3. AtWork'
    BY <1>5 DEF Closes, Closed
  <2> QED BY <1>5, <2>1, <2>2, <2>3 DEF Closes, Closed
<1>6. CASE Stays
  <2>1. InOrder'
    BY <1>6 DEF Stays, Moves, Launches
  <2>2. AtWork'
    BY <1>6 DEF Stays, Moves, Launches, Closing, Top, HasTarget
  <2> QED BY <1>6, <2>1, <2>2 DEF Stays, Moves, Launches
<1> QED BY StepKinds, <1>1, <1>2, <1>3, <1>4, <1>5, <1>6

(* Control invariant.                                                       *)
LEMMA ControlHolds == Spec => []ControlInv
BY ControlInit, ControlStep, PTL DEF Spec

---------------------------------------------------------------------------
(* The refinement.                                                          *)

(* The state of a launch, case by case.                                     *)
LEMMA StateIs ==
  ASSUME NEW l
  PROVE  /\ StateOf(l) = "absent" <=> l > cur
         /\ StateOf(l) = "abandoned" <=> ~(l > cur) /\ l \in failed
         /\ StateOf(l) = "up" <=> ~(l > cur) /\ l \notin failed /\ l \in Opened
         /\ StateOf(l) = "starting" <=>
              ~(l > cur) /\ l \notin failed /\ l \notin Opened /\ l = cur /\ pc \in OpenPc
         /\ StateOf(l) = "closed" <=>
              ~(l > cur) /\ l \notin failed /\ l \notin Opened /\ ~(l = cur /\ pc \in OpenPc)
BY DEF StateOf, Opening, OpenPc

(* At first no launch was begun.                                            *)
LEMMA LifeInit == Init => Life!Init
<1> SUFFICES ASSUME Init PROVE Life!Init
  OBVIOUS
<1>1. \A l \in Launch : l > cur
  BY LaunchesAssumption DEF Init, StartInit, NoLaunch, Launch
<1> QED
  BY <1>1, StateIs DEF Init, StartInit, NoLaunch, Life!Init, Life!Launch, Launch

(* Which launches a step leaves in their state.                             *)
LEMMA SameState ==
  ASSUME NEW l, l > cur <=> l > cur', l \in failed <=> l \in failed', l \in Opened <=> l \in Opened',
         l = cur /\ pc \in OpenPc <=> l = cur' /\ pc' \in OpenPc
  PROVE  StateOf(l) = StateOf(l)'
BY DEF StateOf, Opening, OpenPc

(* What IocLife sees of a step that changes one launch.                      *)
LEMMA OneChanges ==
  ASSUME NEW l \in Launch, NEW CONSTANT v, StateOf(l)' = v,
         \A k \in Launch : k # l => StateOf(k)' = StateOf(k)
  PROVE  [k \in Launch |-> StateOf(k)]' = [[k \in Launch |-> StateOf(k)] EXCEPT ![l] = v]
OBVIOUS

(* What is open has been begun, and has not failed.                          *)
LEMMA OpenedFacts ==
  ASSUME ControlInv
  PROVE  /\ cur \in 0..NLaunches /\ NLaunches \in Nat
         /\ \A l \in Opened : l \in Launch /\ l \in 1..cur /\ l \notin failed
         /\ pc \in OpenPc => cur \in Launch /\ cur \notin failed /\ cur \notin Opened
<1>1. cur \in 0..NLaunches /\ NLaunches \in Nat /\ Len(stack) \in Nat
  BY LaunchesAssumption DEF ControlInv
<1>2. \A i \in 1..Len(stack) : stack[i] \in Launch /\ stack[i] <= cur /\ stack[i] \notin failed
  BY DEF ControlInv, InOrder
<1>3. \A l \in Opened : l \in Launch /\ l \in 1..cur /\ l \notin failed
  BY <1>1, <1>2 DEF Opened, Launch
<1>4. pc \in OpenPc => cur \in Launch /\ cur \notin failed /\ cur \notin Opened
  BY DEF ControlInv, InOrder, Opened
<1> QED BY <1>1, <1>3, <1>4

(* A launch that begins is started: those before it are not absent, and when *)
(* the last one failed, nothing is up.                                      *)
LEMMA BeginStarts ==
  ASSUME ControlInv, Begins, NEW l, l = cur + 1
  PROVE  l \in Launch /\ Life!Start(l)
<1>1. /\ l \in Launch /\ l > cur /\ ~(l > cur') /\ l = cur'
      /\ l - 1 = cur /\ (l > 1 => cur \in Launch) /\ \A k \in 1..(l - 1) : k \in Launch /\ ~(k > cur)
      /\ \A k \in Launch : k # l => (k > cur <=> k > cur')
  BY OpenedFacts DEF Begins, Launch
<1>2. \A k \in 1..(l - 1) : StateOf(k) \notin {"absent", "starting"}
  BY <1>1, StateIs DEF OpenPc, Begins
<1>3. StateOf(l) = "absent" /\ l \notin Opened /\ l \notin failed
  <2>1. l \notin Opened
    BY <1>1, OpenedFacts
  <2>2. l \notin failed
    BY <1>1, OpenedFacts DEF ControlInv, InOrder
  <2> QED BY <1>1, <2>1, <2>2, StateIs
<1>4. StateOf(l)' = "starting"
  BY <1>1, <1>3 DEF Begins, StateOf, Opening, Opened
<1>5. \A k \in Launch : k # l => StateOf(k)' = StateOf(k)
  <2> SUFFICES ASSUME NEW k \in Launch, k # l PROVE StateOf(k)' = StateOf(k)
    OBVIOUS
  <2>1. k # cur' /\ pc \notin OpenPc
    BY <1>1 DEF Begins, OpenPc
  <2> QED BY <1>1, <2>1, SameState DEF Begins, Opened
<1>6. l > 1 /\ StateOf(l - 1) = "abandoned" => \A k \in 1..(l - 1) : StateOf(k) # "up"
  <2>1. StateOf(cur) = "abandoned" => cur \in failed
    BY StateIs
  <2>2. cur \in failed => Opened = {}
    BY DEF Opened, ControlInv, InOrder, Begins
  <2> QED BY <1>1, <2>1, <2>2, StateIs
<1>7. [k \in Launch |-> StateOf(k)]' = [[k \in Launch |-> StateOf(k)] EXCEPT ![l] = "starting"]
  BY <1>1, <1>4, <1>5, OneChanges
<1> QED
  BY <1>1, <1>2, <1>3, <1>6, <1>7 DEF Begins, Life!Start, Life!Before, Life!Launch, Launch

(* The launch begun last is up, registered or abandoned.                    *)
LEMMA StartEnds ==
  ASSUME ControlInv, Registers \/ ComesUp \/ Abandons, NEW l, l = cur
  PROVE  l \in Launch /\ (Life!Register(l) \/ Life!ComeUp(l) \/ Life!Abandon(l))
<1>1. /\ pc \in OpenPc /\ l \in Launch /\ ~(l > cur) /\ l \notin failed /\ l \notin Opened
      /\ cur' = cur
  BY OpenedFacts DEF Registers, ComesUp, Abandons, OpenPc, Launch
<1>2. StateOf(l) = "starting"
  BY <1>1, StateIs
<1>3. CASE Registers
  <2>1. \A k : StateOf(k)' = StateOf(k)
    BY <1>1, <1>3, SameState DEF Registers, OpenPc, Opened
  <2> QED BY <1>1, <1>2, <1>3, <2>1 DEF Registers, Life!Register, Life!Launch, Launch
<1>4. CASE ComesUp
  <2>1. \A k : k \in Opened' <=> k \in Opened \/ k = l
    BY <1>1, <1>4, PushedFacts DEF ComesUp, Opened, ControlInv
  <2>2. StateOf(l)' = "up"
    BY <1>1, <1>4, <2>1 DEF ComesUp, StateOf
  <2>3. \A k \in Launch : k # l => StateOf(k)' = StateOf(k)
    BY <1>1, <1>4, <2>1, SameState DEF ComesUp
  <2>4. [k \in Launch |-> StateOf(k)]' = [[k \in Launch |-> StateOf(k)] EXCEPT ![l] = "up"]
    BY <1>1, <2>2, <2>3, OneChanges
  <2>5. RunningIOCs' = [RunningIOCs EXCEPT ![NameOf[l]] = l]
    BY <1>1, <1>4 DEF ComesUp, ControlInv, AtWork
  <2> QED BY <1>1, <1>2, <2>4, <2>5 DEF Life!ComeUp, Life!Launch, Launch
<1>5. CASE Abandons
  <2>1. StateOf(l)' = "abandoned"
    BY <1>1, <1>5 DEF Abandons, Fails, StateOf
  <2>2. \A k \in Launch : k # l => StateOf(k)' = StateOf(k)
    BY <1>1, <1>5, SameState DEF Abandons, Fails, Opened
  <2>3. [k \in Launch |-> StateOf(k)]' = [[k \in Launch |-> StateOf(k)] EXCEPT ![l] = "abandoned"]
    BY <1>1, <2>1, <2>2, OneChanges
  <2> QED BY <1>1, <1>2, <1>5, <2>3 DEF Abandons, Fails, Life!Abandon, Life!Launch, Launch
<1> QED BY <1>1, <1>3, <1>4, <1>5

(* What is open after a close.                                              *)
LEMMA ClosedOpened ==
  ASSUME ControlInv, Closes
  PROVE  /\ Top \in Opened /\ \A k \in Opened : k <= Top
         /\ \A k : k \in Opened' <=> k \in Opened /\ k # Top
<1>1. /\ Len(stack) \in Nat \ {0} /\ Len(stack') = Len(stack) - 1 /\ Top = stack[Len(stack)]
      /\ \A i \in 1..Len(stack') : stack'[i] = stack[i]
      /\ stack \in Seq(Launch) /\ stack' \in Seq(Launch)
  BY CloseLast DEF Closes, Closed, ControlInv
<1>2. \A i \in 1..Len(stack) : stack[i] \in Int
  BY <1>1, LaunchesAssumption DEF Launch
<1>3. /\ \A k : k \in Opened <=> \E i \in 1..Len(stack) : k = stack[i]
      /\ \A k : k \in Opened' <=> \E i \in 1..(Len(stack) - 1) : k = stack[i]
  <2>1. DOMAIN stack = 1..Len(stack) /\ DOMAIN stack' = 1..(Len(stack) - 1)
    BY <1>1
  <2> QED BY <1>1, <2>1 DEF Opened
<1>4. \A i \in 1..(Len(stack) - 1) : i \in 1..Len(stack) /\ stack[i] < Top
  BY <1>1 DEF ControlInv, InOrder
<1>5. \A i \in 1..Len(stack) : i \in 1..(Len(stack) - 1) \/ i = Len(stack)
  BY <1>1
<1>6. Top \in Int /\ Len(stack) \in 1..Len(stack)
  BY <1>1, <1>2
<1>7. \A k \in Opened : k # Top =>
        k \in Int /\ k < Top /\ \E i \in 1..(Len(stack) - 1) : k = stack[i]
  <2> SUFFICES ASSUME NEW k \in Opened, k # Top
               PROVE  k \in Int /\ k < Top /\ \E i \in 1..(Len(stack) - 1) : k = stack[i]
    OBVIOUS
  <2>1. PICK i \in 1..Len(stack) : k = stack[i]
    BY <1>3
  <2>2. i \in 1..(Len(stack) - 1)
    BY <1>1, <1>5, <2>1
  <2> QED BY <1>2, <1>4, <2>1, <2>2
<1>8. \A k \in Opened' : k \in Opened /\ k \in Int /\ k < Top
  BY <1>3, <1>4, <1>2
<1>9. Top \in Opened
  BY <1>1, <1>3, <1>6
<1> QED
  BY <1>3, <1>6, <1>7, <1>8, <1>9

(* The launch opened last is closed.                                        *)
LEMMA CloseCloses ==
  ASSUME ControlInv, Closes, NEW l, l = Top
  PROVE  l \in Launch /\ Life!Close(l)
<1>1. /\ l \in Launch /\ ~(l > cur) /\ l \in Opened /\ l \notin failed /\ pc \notin OpenPc
      /\ cur' = cur /\ failed' = failed /\ pc' = "unwind" /\ NLaunches \in Nat
      /\ \A k \in Opened : k <= l
  BY OpenedFacts, ClosedOpened DEF Closes, Closed, OpenPc, Launch
<1>2. StateOf(l) = "up" /\ \A k \in (l + 1)..NLaunches : StateOf(k) \notin {"starting", "up"}
  <2>1. \A k \in (l + 1)..NLaunches : k \notin Opened
    BY <1>1 DEF Launch
  <2> QED BY <1>1, <2>1, StateIs
<1>3. StateOf(l)' = "closed"
  BY <1>1, ClosedOpened DEF StateOf, Opening
<1>4. \A k \in Launch : k # l => StateOf(k)' = StateOf(k)
  <2> SUFFICES ASSUME NEW k \in Launch, k # l PROVE StateOf(k)' = StateOf(k)
    OBVIOUS
  <2> QED BY <1>1, ClosedOpened, SameState DEF OpenPc
<1>5. [k \in Launch |-> StateOf(k)]' = [[k \in Launch |-> StateOf(k)] EXCEPT ![l] = "closed"]
  BY <1>1, <1>3, <1>4, OneChanges
<1> QED
  BY <1>1, <1>2, <1>5 DEF Closes, Life!Close, Life!After, Life!Launch, Launch

(* The launchers keep the promise of IocLife: launches are begun one at a    *)
(* time and in order, one that is begun comes up or is abandoned, after an   *)
(* abandoned one all are closed, and what is up is closed in reverse order,  *)
(* whatever IOCs die, refuse to stop or are restarted by tests.             *)
THEOREM LaunchersImplementIocLife == Spec => Implements
<1>1. ControlInv /\ [Next]_vars => [Life!Next]_(Life!vars)
  <2> SUFFICES ASSUME ControlInv, [Next]_vars PROVE [Life!Next]_(Life!vars)
    OBVIOUS
  <2>1. CASE Begins
    <3>1. PICK l : l = cur + 1
      OBVIOUS
    <3> QED BY <2>1, <3>1, BeginStarts DEF Life!Next, Life!Launch, Launch
  <2>2. CASE Registers \/ ComesUp \/ Abandons
    <3>1. PICK l : l = cur
      OBVIOUS
    <3> QED BY <2>2, <3>1, StartEnds DEF Life!Next, Life!Launch, Launch
  <2>3. CASE Closes
    <3>1. PICK l : l = Top
      OBVIOUS
    <3> QED BY <2>3, <3>1, CloseCloses DEF Life!Next, Life!Launch, Launch
  <2>4. CASE Stays
    <3>1. \A k : StateOf(k)' = StateOf(k)
      BY <2>4, SameState DEF Stays, Moves, Launches, Opened, OpenPc, TestPc
    <3> QED BY <2>4, <3>1 DEF Stays, Launches, Life!vars
  <2> QED BY StepKinds, <2>1, <2>2, <2>3, <2>4
<1> QED BY LifeInit, ControlHolds, <1>1, PTL DEF Spec, Implements, Life!Spec

---------------------------------------------------------------------------
(* What a close leaves behind.                                              *)

(* Which steps close a launch, and what they know of it then.               *)
LEMMA Closers ==
  ASSUME ControlInv, [Next]_vars, Closes
  PROVE  \/ (CloseRaises \/ SeenGone \/ KillIoc \/ KillPython) /\ UNCHANGED procVars
         \/ FindsNone \/ KillRaises
<1>1. stack' # stack
  BY CloseLast DEF Closes, Closed, ControlInv
<1>2. pc \in {"unwind", "closing", "search", "kill"} /\ pc' = "unwind" /\ stack # <<>>
  BY DEF Closes, Closed
<1>3. CASE Test \/ Processes \/ Done \/ UNCHANGED vars \/ Calls
  BY <1>1, <1>3, OtherSteps, Zenon DEF Processes, Stays, Launches
<1>4. CASE SpawnServer \/ Connect \/ ConnectRaises \/ CloseTelnet \/ FindProcesses \/ KillServer
  BY <1>1, <1>2, <1>4 DEF SpawnServer, Spawn, Connect, ConnectRaises, CloseTelnet, FindProcesses, KillServer
<1>5. ~Open
  BY <1>2 DEF Open, BeginOpen, RefuseOpen, PrepareFiles, SpawnRaises, SeesConsole, PollsConsole,
              ConsoleTimesOut, SetInits, InitsRaise, EndOpen, OpenRaises
<1>6. CASE Close /\ UNCHANGED procVars
  BY <1>1, <1>2, <1>6 DEF Close, BeginUnwind, EndUnwind, TellToExit, StillThere
<1> QED BY <1>3, <1>4, <1>5, <1>6 DEF Next, Program

(* A launch is left only by closing it, and comes to rest only then.        *)
LEMMA LeftByClosing ==
  ASSUME ControlInv, [Next]_vars, NEW l \in Launch
  PROVE  /\ l \in Opened /\ l \notin Opened' => Closes /\ l = Top
         /\ StateOf(l)' \in {"absent", "closed"} =>
              StateOf(l) \in {"absent", "closed"} \/ (Closes /\ l = Top)
<1>1. CASE Begins
  <2>1. Opened' = Opened /\ failed' = failed /\ cur' = cur + 1 /\ cur \in Nat /\ pc \notin OpenPc
    BY <1>1, OpenedFacts DEF Begins, Opened, OpenPc
  <2>2. l \in Int /\ (l > cur + 1 => l > cur)
    BY <2>1, LaunchesAssumption DEF Launch
  <2> QED BY <2>1, <2>2 DEF StateOf, Opening, OpenPc
<1>2. CASE Registers \/ Abandons
  BY <1>2 DEF Registers, Abandons, Fails, StateOf, Opening, OpenPc, Opened
<1>3. CASE ComesUp
  <2>1. \A k : k \in Opened' <=> k \in Opened \/ k = cur
    <3>1. stack' = Append(stack, cur) /\ stack \in Seq(Launch) /\ cur \in Launch
      BY <1>3, OpenedFacts DEF ComesUp, ControlInv, OpenPc
    <3>2. /\ Len(stack) \in Nat /\ stack' \in Seq(Launch) /\ Len(stack') = Len(stack) + 1
          /\ \A i \in 1..Len(stack) : stack'[i] = stack[i]
          /\ stack'[Len(stack) + 1] = cur
      BY <3>1, PushedFacts
    <3>3. DOMAIN stack = 1..Len(stack) /\ DOMAIN stack' = 1..(Len(stack) + 1)
      BY <3>1, <3>2
    <3>4. \A i \in 1..(Len(stack) + 1) : i \in 1..Len(stack) \/ i = Len(stack) + 1
      BY ONLY <3>2
    <3>5. 1..Len(stack) \subseteq 1..(Len(stack) + 1) /\ Len(stack) + 1 \in 1..(Len(stack) + 1)
      BY ONLY <3>2
    <3> QED BY <3>2, <3>3, <3>4, <3>5, Zenon DEF Opened
  <2> QED BY <1>3, <2>1 DEF ComesUp, StateOf, Opening
<1>4. CASE Closes
  BY <1>4, ClosedOpened DEF Closes, Closed, StateOf, Opening
<1>5. CASE Stays
  <2>1. StateOf(l)' = StateOf(l)
    BY <1>5, SameState DEF Stays, Moves, Launches, Opened, OpenPc, TestPc
  <2> QED BY <1>5, <2>1 DEF Stays, Launches, Opened
<1> QED BY <1>1, <1>2, <1>3, <1>4, <1>5, StepKinds

(* A launch that is not begun yet, or is closed, has no procServ process,    *)
(* except those that close left.                                            *)
ServerInv ==
  /\ pids \subseteq ProcServs /\ spared \subseteq ProcServs
  /\ \A l \in ProcServs : StateOf(l) \in {"absent", "closed"} => l \notin pids \/ l \in spared

(* procServ is spawned by the launch being opened and killed by the one      *)
(* being closed.                                                            *)
LEMMA ServerSteps ==
  ASSUME [Next]_vars
  PROVE  \/ UNCHANGED spared /\ (SpawnServer \/ KillServer \/ UNCHANGED pids)
         \/ (FindsNone \/ KillRaises) /\ UNCHANGED pids
<1> USE DEF servers, history, startVars
<1>1. CASE SpawnServer \/ Connect \/ ConnectRaises \/ CloseTelnet \/ FindProcesses \/ KillServer
  BY <1>1 DEF SpawnServer, Spawn, Connect, ConnectRaises, CloseTelnet, FindProcesses, KillServer, procVars
<1>2. CASE FindsNone \/ KillRaises
  BY <1>2 DEF FindsNone, KillRaises, ClosedServer
<1>3. CASE BeginTests \/ EndTests \/ CallStartWithMacros \/ CallStart \/ LeaveBody \/ JustSend \/ Toggle
  BY <1>3 DEF BeginTests, EndTests, CallStartWithMacros, CallStart, LeaveBody, JustSend, Toggle, Call,
              callFrame, testFrame
<1>4. CASE Calls
  BY <1>4 DEF Calls, Pass, Reraise, SetMacros, SendStart, SeesStart, PollsStart, Reconnect, Resend,
              ReconnectRaises, StartRaises, SeesPv, ReadAnswer, callFrame, awaitFrame, testFrame
<1>5. CASE \E l \in ProcServs :
             Restarts(l) \/ Quits(l) \/ Saves(l) \/ Toggles(l) \/ Revives(l) \/ Noise(l)
  BY <1>5 DEF Restarts, Quits, Saves, Toggles, Revives, Noise, serverFrame
<1>6. CASE Open /\ UNCHANGED procVars
  BY <1>6 DEF Open, BeginOpen, RefuseOpen, PrepareFiles, SpawnRaises, SeesConsole, PollsConsole,
              ConsoleTimesOut, SetInits, InitsRaise, EndOpen, OpenRaises, procVars
<1>7. CASE Close /\ UNCHANGED procVars
  BY <1>7 DEF Close, BeginUnwind, EndUnwind, TellToExit, CloseRaises, SeenGone, StillThere, KillIoc,
              KillPython, procVars
<1>8. CASE Done \/ UNCHANGED vars
  BY <1>8 DEF Done, vars, procVars
<1>9. ASSUME NEW l \in Launch, ReadMacros(l) \/ Serve(l) \/ Prompt(l) \/ Exit(l) \/ Die(l),
             UNCHANGED procVars
      PROVE  UNCHANGED <<spared, pids>>
  BY <1>9 DEF ReadMacros, Serve, Prompt, Exit, Die, procVars
<1> QED
  BY <1>1, <1>2, <1>3, <1>4, <1>5, <1>6, <1>7, <1>8, <1>9 DEF Next, Program, Test, Processes

(* No process runs at first.                                                *)
LEMMA ServerInit == Init => ServerInv
BY DEF Init, StartInit, ServerInv

(* Every step.                                                              *)
LEMMA ServerStep == ControlInv /\ ServerInv /\ [Next]_vars => ServerInv'
<1> SUFFICES ASSUME ControlInv, ServerInv, [Next]_vars PROVE ServerInv'
  OBVIOUS
<1>1. \A l \in ProcServs : StateOf(l)' \in {"absent", "closed"} =>
        \/ l \notin pids \/ l \in spared
        \/ (FindsNone \/ KillRaises) /\ l = Top
  <2> SUFFICES ASSUME NEW l \in ProcServs, StateOf(l)' \in {"absent", "closed"}
               PROVE  \/ l \notin pids \/ l \in spared
                      \/ (FindsNone \/ KillRaises) /\ l = Top
    OBVIOUS
  <2>1. CASE StateOf(l) \in {"absent", "closed"}
    BY <2>1 DEF ServerInv
  <2>2. CASE Closes /\ l = Top
    <3>1. ~(CloseRaises \/ SeenGone \/ KillIoc \/ KillPython)
      BY <2>2 DEF CloseRaises, SeenGone, KillIoc, KillPython, Closing, ControlInv, AtWork, ProcServs
    <3> QED BY <2>2, <3>1, Closers
  <2>3. l \in Launch
    BY DEF ProcServs
  <2> QED BY <2>1, <2>2, <2>3, LeftByClosing
<1>2. CASE (FindsNone \/ KillRaises) /\ UNCHANGED pids
  <2>1. spared' = spared \cup ({Top} \cap pids)
    BY <1>2 DEF FindsNone, KillRaises, ClosedServer
  <2> QED BY <1>1, <1>2, <2>1 DEF ServerInv
<1>3. CASE ~(FindsNone \/ KillRaises) /\ UNCHANGED <<spared, pids>>
  BY <1>1, <1>3 DEF ServerInv
<1>4. CASE SpawnServer /\ UNCHANGED spared
  <2>1. StateOf(cur)' = "starting" /\ cur' = cur
    <3>1. /\ cur' = cur /\ pc' = "console" /\ stack' = stack /\ failed' = failed /\ pc \in OpenPc
      BY <1>4 DEF SpawnServer, Spawn, OpenPc, record
    <3> QED BY <3>1, OpenedFacts DEF StateOf, Opening, Opened, Launch
  <2>2. pids' \subseteq pids \cup {cur} /\ pids' \subseteq ProcServs
    <3>1. cur \in Launch
      BY <1>4, OpenedFacts DEF SpawnServer, Spawn, OpenPc
    <3> QED BY <1>4, <3>1 DEF SpawnServer, ServerInv, ProcServs
  <2>3. ~(FindsNone \/ KillRaises)
    BY <1>4 DEF FindsNone, KillRaises, SpawnServer, Spawn
  <2> QED BY <1>1, <1>4, <2>1, <2>2, <2>3 DEF ServerInv
<1>5. CASE KillServer /\ UNCHANGED spared
  <2>1. pids' \subseteq pids
    BY <1>5 DEF KillServer, Killed
  <2>2. ~(FindsNone \/ KillRaises)
    BY <1>5 DEF FindsNone, KillRaises, ClosedServer, Closed, KillServer
  <2> QED BY <1>1, <1>5, <2>1, <2>2 DEF ServerInv
<1> QED BY <1>2, <1>3, <1>4, <1>5, ServerSteps

(* A launcher that has been closed leaves no procServ process, unless it may *)
(* not see or kill it: close goes on until it finds none, however many kills *)
(* are in vain.                                                             *)
THEOREM NoServerIsLeft == Spec => []NoServerLeft
<1>1. ServerInv => NoServerLeft
  BY StateIs DEF ServerInv, NoServerLeft, Runs, OpenPc
<1> QED BY <1>1, ServerInit, ServerStep, ControlInit, ControlStep, PTL DEF Spec

---------------------------------------------------------------------------
(* The steps left of the calls of a test.                                   *)

Ops == {"macros", "start", "exists", "body", "finally", "reraise"}
Steps == [op : Ops, macros : Override \cup {Original}, pending : BOOLEAN]

(* A finally is followed by the restart with the original macros, and by     *)
(* whatever is raised again.                                                *)
Restores(j) ==
  /\ j + 4 < Len(todo)
  /\ todo[j + 1] = UseMacros(Original)
  /\ todo[j + 2].op = "start" /\ todo[j + 3].op = "exists" /\ todo[j + 4].op = "reraise"

(* Macros are set by the step being taken, or behind a finally; they are     *)
(* followed by a start; and those of a test are set before a finally only.   *)
MacrosPlaced ==
  /\ \A i \in 1..Len(todo) : todo[i].op = "macros" =>
       /\ i + 1 <= Len(todo) /\ todo[i + 1].op = "start"
       /\ i > 1 => todo[i - 1].op = "finally"
  /\ todo # <<>> /\ First.op = "macros" /\ First.macros # Original => Finallys # {}

TodoInv ==
  /\ todo \in Seq(Steps)
  /\ todo # <<>> <=> pc \in TestPc
  /\ todo # <<>> => todo[Len(todo)].op = "body"
  /\ pc \in {"await", "resend"} => First.op = "start"
  /\ pc = "answer" => First.op = "body"
  /\ \A j \in 1..Len(todo) : todo[j].op = "finally" => Restores(j)
  /\ MacrosPlaced

(* The steps are typed.                                                     *)
LEMMA StepType == \A op \in Ops : Step(op) \in Steps /\ Step(op).op = op
BY DEF Step, Ops, Steps

(* A step that sets macros.                                                 *)
LEMMA UseType == \A m \in Override \cup {Original} : UseMacros(m) \in Steps /\ UseMacros(m).op = "macros"
                    /\ UseMacros(m).macros = m
BY DEF UseMacros, Step, Ops, Steps

(* The steps of start_with_macros, one by one.                              *)
LEMMA RestartSteps ==
  ASSUME NEW m \in Override \cup {Original}
  PROVE  /\ Restart(m) \in Seq(Steps) /\ Len(Restart(m)) = 3
         /\ Restart(m)[1] = UseMacros(m) /\ Restart(m)[2] = Step("start") /\ Restart(m)[3] = Step("exists")
BY StepType, UseType DEF Restart, Ops

(* The steps of a nested context.                                           *)
LEMMA StartWithMacrosSteps ==
  ASSUME NEW m \in Override
  PROVE  /\ StartWithMacros(m) \in Seq(Steps) /\ Len(StartWithMacros(m)) = 9
         /\ StartWithMacros(m)[1] = UseMacros(m) /\ StartWithMacros(m)[2] = Step("start")
         /\ StartWithMacros(m)[3] = Step("exists") /\ StartWithMacros(m)[4] = Step("body")
         /\ StartWithMacros(m)[5] = Step("finally") /\ StartWithMacros(m)[6] = UseMacros(Original)
         /\ StartWithMacros(m)[7] = Step("start") /\ StartWithMacros(m)[8] = Step("exists")
         /\ StartWithMacros(m)[9] = Step("reraise")
<1> DEFINE a == Restart(m)
           b == << Step("body") >>
           c == << Step("finally") >>
           d == Restart(Original)
           e == << Step("reraise") >>
<1>1. /\ a \in Seq(Steps) /\ Len(a) = 3
      /\ a[1] = UseMacros(m) /\ a[2] = Step("start") /\ a[3] = Step("exists")
  BY RestartSteps
<1>2. /\ d \in Seq(Steps) /\ Len(d) = 3
      /\ d[1] = UseMacros(Original) /\ d[2] = Step("start") /\ d[3] = Step("exists")
  BY RestartSteps
<1>3. /\ b \in Seq(Steps) /\ Len(b) = 1 /\ b[1] = Step("body")
      /\ c \in Seq(Steps) /\ Len(c) = 1 /\ c[1] = Step("finally")
      /\ e \in Seq(Steps) /\ Len(e) = 1 /\ e[1] = Step("reraise")
  BY StepType DEF Ops
<1>4. StartWithMacros(m) = a \o b \o c \o d \o e
  BY DEF StartWithMacros, Body
<1> HIDE DEF a, b, c, d, e
<1>5. PICK f : f = a \o b
  OBVIOUS
<1>6. /\ f \in Seq(Steps) /\ Len(f) = 4
      /\ \A i \in 1..3 : f[i] = a[i]
      /\ f[4] = b[1]
  <2>1. /\ f \in Seq(Steps) /\ Len(f) = Len(a) + Len(b)
        /\ \A i \in 1..Len(a) : f[i] = a[i]
        /\ \A i \in 1..Len(b) : f[Len(a) + i] = b[i]
    <3>1. a \in Seq(Steps) /\ b \in Seq(Steps)
      BY <1>1, <1>3
    <3> QED BY <3>1, <1>5
  <2>2. f[3 + 1] = b[1]
    BY <1>1, <1>3, <2>1
  <2> QED BY <1>1, <1>3, <2>1, <2>2
<1>7. PICK g : g = f \o c
  OBVIOUS
<1>8. /\ g \in Seq(Steps) /\ Len(g) = 5
      /\ \A i \in 1..4 : g[i] = f[i]
      /\ g[5] = c[1]
  <2>1. /\ g \in Seq(Steps) /\ Len(g) = Len(f) + Len(c)
        /\ \A i \in 1..Len(f) : g[i] = f[i]
        /\ \A i \in 1..Len(c) : g[Len(f) + i] = c[i]
    <3>1. f \in Seq(Steps) /\ c \in Seq(Steps)
      BY <1>3, <1>6
    <3> QED BY <3>1, <1>7
  <2>2. g[4 + 1] = c[1]
    BY <1>3, <1>6, <2>1
  <2> QED BY <1>3, <1>6, <2>1, <2>2
<1>9. PICK h : h = g \o d
  OBVIOUS
<1>10. /\ h \in Seq(Steps) /\ Len(h) = 8
      /\ \A i \in 1..5 : h[i] = g[i]
      /\ h[6] = d[1] /\ h[7] = d[2] /\ h[8] = d[3]
  <2>1. /\ h \in Seq(Steps) /\ Len(h) = Len(g) + Len(d)
        /\ \A i \in 1..Len(g) : h[i] = g[i]
        /\ \A i \in 1..Len(d) : h[Len(g) + i] = d[i]
    <3>1. g \in Seq(Steps) /\ d \in Seq(Steps)
      BY <1>2, <1>8
    <3> QED BY <3>1, <1>9
  <2>2. h[5 + 1] = d[1] /\ h[5 + 2] = d[2] /\ h[5 + 3] = d[3]
    BY <1>2, <1>8, <2>1
  <2> QED BY <1>2, <1>8, <2>1, <2>2
<1>11. PICK s : s = h \o e
  OBVIOUS
<1>12. /\ s \in Seq(Steps) /\ Len(s) = 9
      /\ \A i \in 1..8 : s[i] = h[i]
      /\ s[9] = e[1]
  <2>1. /\ s \in Seq(Steps) /\ Len(s) = Len(h) + Len(e)
        /\ \A i \in 1..Len(h) : s[i] = h[i]
        /\ \A i \in 1..Len(e) : s[Len(h) + i] = e[i]
    <3>1. h \in Seq(Steps) /\ e \in Seq(Steps)
      BY <1>3, <1>10
    <3> QED BY <3>1, <1>11
  <2>2. s[8 + 1] = e[1]
    BY <1>3, <1>10, <2>1
  <2> QED BY <1>3, <1>10, <2>1, <2>2
<1>13. StartWithMacros(m) = s
  BY <1>4, <1>5, <1>7, <1>9, <1>11, Zenon
<1> QED BY <1>1, <1>2, <1>3, <1>6, <1>8, <1>10, <1>12, <1>13

(* What is left of the steps when the first k are gone, a raise counted as   *)
(* the same whether it is pending or not.                                   *)
LEMMA TodoSuffix ==
  ASSUME TodoInv, NEW k \in 1..(Len(todo) - 1), pc' = "test",
         todo' \in Seq(Steps), Len(todo') = Len(todo) - k,
         \A i \in 1..Len(todo') :
           /\ todo'[i].op = todo[i + k].op
           /\ todo[i + k].op # "reraise" => todo'[i] = todo[i + k],
         todo[k + 1].op = "macros" => todo[k + 1].macros = Original
  PROVE  TodoInv'
<1>1. /\ Len(todo) \in Nat /\ Len(todo') \in Nat \ {0} /\ todo' # <<>>
      /\ \A i \in 1..Len(todo') : i + k \in 1..Len(todo)
  BY DEF TodoInv
<1>2. First' = todo'[1] /\ First'.op = todo[1 + k].op
  BY <1>1 DEF First
<1>3. todo'[Len(todo')].op = "body"
  <2>1. Len(todo') \in 1..Len(todo') /\ Len(todo') + k = Len(todo)
    BY <1>1
  <2> QED BY <2>1 DEF TodoInv
<1>4. \A j \in 1..Len(todo') : todo'[j].op = "finally" => Restores(j)'
  <2> SUFFICES ASSUME NEW j \in 1..Len(todo'), todo'[j].op = "finally" PROVE Restores(j)'
    OBVIOUS
  <2>1. Restores(j + k)
    BY <1>1 DEF TodoInv
  <2>2. /\ j + 4 < Len(todo')
        /\ j + k + 1 = (j + 1) + k /\ j + k + 2 = (j + 2) + k
        /\ j + k + 3 = (j + 3) + k /\ j + k + 4 = (j + 4) + k
        /\ j + 1 \in 1..Len(todo') /\ j + 2 \in 1..Len(todo') /\ j + 3 \in 1..Len(todo')
        /\ j + 4 \in 1..Len(todo')
    BY <1>1, <2>1 DEF Restores
  <2>3. UseMacros(Original).op = "macros"
    BY UseType
  <2>4. todo'[j + 1] = UseMacros(Original)
    BY <2>1, <2>2, <2>3 DEF Restores
  <2>5. /\ todo'[j + 2].op = "start" /\ todo'[j + 3].op = "exists" /\ todo'[j + 4].op = "reraise"
    BY <2>1, <2>2 DEF Restores
  <2> QED BY <2>2, <2>4, <2>5 DEF Restores
<1>5. \A i \in 1..Len(todo') : todo'[i].op = "macros" =>
        /\ i + 1 <= Len(todo') /\ todo'[i + 1].op = "start"
        /\ i > 1 => todo'[i - 1].op = "finally"
  <2> SUFFICES ASSUME NEW i \in 1..Len(todo'), todo'[i].op = "macros"
               PROVE  /\ i + 1 <= Len(todo') /\ todo'[i + 1].op = "start"
                      /\ i > 1 => todo'[i - 1].op = "finally"
    OBVIOUS
  <2>1. /\ i \in Nat /\ k \in Nat /\ Len(todo) \in Nat /\ Len(todo') = Len(todo) - k
        /\ i + k > 1 /\ i + k \in 1..Len(todo) /\ todo[i + k].op = "macros"
    BY <1>1
  <2>2. /\ i + k + 1 <= Len(todo) /\ todo[i + k + 1].op = "start"
        /\ todo[i + k - 1].op = "finally"
    BY <2>1 DEF TodoInv, MacrosPlaced
  <2>3. i + 1 <= Len(todo') /\ i + k + 1 = (i + 1) + k /\ i + k - 1 = (i - 1) + k
    <3>1. i + k + 1 <= Len(todo)
      BY <2>2
    <3> QED BY ONLY <2>1, <3>1
  <2>4. i > 1 => i - 1 \in 1..Len(todo')
    BY ONLY <2>1
  <2>5. i + 1 \in 1..Len(todo')
    BY <2>1, <2>3
  <2> QED BY <2>2, <2>3, <2>4, <2>5
<1>6. First'.op = "macros" => First'.macros = Original
  BY <1>1, <1>2
<1> QED
  BY <1>1, <1>3, <1>4, <1>5, <1>6 DEF TodoInv, MacrosPlaced, TestPc

(* A test at the start: nothing but its body.                               *)
LEMMA TodoBody == ASSUME todo' = Body, pc' = "test" PROVE TodoInv'
<1>1. /\ todo' \in Seq(Steps) /\ Len(todo') = 1 /\ todo'[1] = Step("body") /\ todo' # <<>>
      /\ Step("body").op = "body"
  BY StepType DEF Body, Ops
<1>2. First' = Step("body")
  BY <1>1 DEF First
<1> QED
  BY <1>1, <1>2 DEF TodoInv, MacrosPlaced, TestPc

(* A step is done.                                                          *)
LEMMA TodoAdvance ==
  ASSUME TodoInv, pc \in TestPc, Advance, ~(First.op = "body" /\ Len(todo) = 1)
  PROVE  TodoInv'
<1>1. todo \in Seq(Steps) /\ todo # <<>> /\ todo' = Tail(todo) /\ pc' = "test"
  BY DEF TodoInv, Advance, Go
<1>2. /\ Len(todo) \in Nat \ {0} /\ First = todo[1]
      /\ todo' \in Seq(Steps) /\ Len(todo') = Len(todo) - 1
      /\ \A i \in 1..Len(todo') : todo'[i] = todo[i + 1]
  BY <1>1, TailFacts DEF First
<1>3. 1 \in 1..(Len(todo) - 1)
  BY <1>1, <1>2 DEF TodoInv
<1>4. todo[1 + 1].op = "macros" => todo[1 + 1].macros = Original
  <2> SUFFICES ASSUME todo[2].op = "macros" PROVE todo[2].macros = Original
    OBVIOUS
  <2>1. todo[1].op = "finally"
    BY <1>2, <1>3 DEF TodoInv, MacrosPlaced
  <2>2. todo[1 + 1] = UseMacros(Original)
    BY <1>2, <2>1 DEF TodoInv, Restores
  <2> QED BY <2>2, UseType
<1> QED
  BY <1>1, <1>2, <1>3, <1>4, TodoSuffix

(* The innermost finally.                                                   *)
LEMMA FinallyFacts ==
  ASSUME TodoInv, Finallys # {}
  PROVE  /\ InnermostFinally \in 1..Len(todo) /\ Len(todo) \in Nat
         /\ todo[InnermostFinally].op = "finally" /\ Restores(InnermostFinally)
<1>1. Len(todo) \in Nat /\ DOMAIN todo = 1..Len(todo)
  BY DEF TodoInv
<1>2. Finallys \in SUBSET Nat
  BY <1>1 DEF Finallys
<1>3. InnermostFinally \in Finallys
  BY <1>2, Smallest DEF InnermostFinally
<1> QED BY <1>1, <1>3 DEF Finallys, TodoInv

(* An exception goes to the innermost finally.                              *)
LEMMA RaiseFacts ==
  ASSUME TodoInv, Raise, Finallys # {}
  PROVE  \E k \in 1..(Len(todo) - 1) :
           /\ Len(todo) \in Nat /\ todo[k].op = "finally" /\ Restores(k)
           /\ pc' = "test" /\ todo' \in Seq(Steps) /\ Len(todo') = Len(todo) - k
           /\ \A i \in 1..Len(todo') :
                /\ todo'[i].op = todo[i + k].op
                /\ todo[i + k].op # "reraise" => todo'[i] = todo[i + k]
<1>1. PICK k : k = InnermostFinally
  OBVIOUS
<1>2. /\ k \in 1..Len(todo) /\ Len(todo) \in Nat /\ k + 4 < Len(todo)
      /\ todo[k].op = "finally" /\ todo[k + 4].op = "reraise" /\ Restores(k)
  BY <1>1, FinallyFacts DEF Restores
<1>3. Len(Restart(Original)) + 1 = 4
  <2>1. Original \in Override \cup {Original}
    OBVIOUS
  <2>2. Len(Restart(Original)) = 3
    BY <2>1, RestartSteps
  <2> QED BY <2>2
<1>4. /\ pc' = "test"
      /\ todo' = [i \in 1..(Len(todo) - k) |->
                    IF i = 4 THEN [Step("reraise") EXCEPT !.pending = TRUE] ELSE todo[i + k]]
  BY <1>1, <1>3 DEF Raise, Go, RaiseTo
<1>5. [Step("reraise") EXCEPT !.pending = TRUE] \in Steps
      /\ [Step("reraise") EXCEPT !.pending = TRUE].op = "reraise"
  BY DEF Step, Steps, Ops
<1>6. /\ \A i \in 1..(Len(todo) - k) : i + k \in 1..Len(todo)
      /\ \A i \in 1..Len(todo) : todo[i] \in Steps
  BY <1>2 DEF TodoInv
<1>7. todo' \in Seq(Steps) /\ Len(todo') = Len(todo) - k
  <2>1. PICK n \in Nat : n = Len(todo) - k
    BY <1>2
  <2>2. todo' \in [1..n -> Steps]
    BY <1>4, <1>5, <1>6, <2>1
  <2> QED BY <2>1, <2>2
<1>8. \A i \in 1..Len(todo') :
         /\ todo'[i].op = todo[i + k].op
         /\ todo[i + k].op # "reraise" => todo'[i] = todo[i + k]
  BY <1>2, <1>4, <1>5, <1>7
<1>9. k \in 1..(Len(todo) - 1)
  BY <1>2
<1> QED BY <1>2, <1>4, <1>7, <1>8, <1>9

(* It ends a context, or the test.                                          *)
LEMMA TodoRaise == ASSUME TodoInv, Raise PROVE TodoInv'
<1>1. CASE Finallys = {}
  BY <1>1, TodoBody DEF Raise, Go, RaiseTo
<1>2. CASE Finallys # {}
  <2>1. PICK k \in 1..(Len(todo) - 1) :
           /\ Len(todo) \in Nat /\ todo[k].op = "finally" /\ Restores(k)
           /\ pc' = "test" /\ todo' \in Seq(Steps) /\ Len(todo') = Len(todo) - k
           /\ \A i \in 1..Len(todo') :
                /\ todo'[i].op = todo[i + k].op
                /\ todo[i + k].op # "reraise" => todo'[i] = todo[i + k]
    BY <1>2, RaiseFacts
  <2>2. todo[k + 1].macros = Original
    BY <2>1, UseType DEF Restores
  <2> QED BY <2>1, <2>2, TodoSuffix
<1> QED BY <1>1, <1>2

(* Steps put before those that are left.                                    *)
LEMMA TodoLonger ==
  ASSUME todo \in Seq(Steps), NEW r \in Seq(Steps), todo' = r \o todo
  PROVE  /\ todo' \in Seq(Steps) /\ Len(todo') = Len(r) + Len(todo)
         /\ \A i \in 1..Len(r) : todo'[i] = r[i]
         /\ \A i \in 1..Len(todo) : todo'[Len(r) + i] = todo[i]
OBVIOUS

(* A call puts its steps before what the test has still to do.              *)
LEMMA TodoPushed ==
  ASSUME TodoInv, Doing("body"), NEW r \in Seq(Steps), NEW n \in Nat \ {0}, Len(r) = n,
         \A j \in 1..n : r[j].op = "finally" =>
           /\ j + 4 <= n /\ r[j + 1] = UseMacros(Original)
           /\ r[j + 2].op = "start" /\ r[j + 3].op = "exists" /\ r[j + 4].op = "reraise",
         \A i \in 1..n : r[i].op = "macros" =>
           /\ i + 1 <= n /\ r[i + 1].op = "start"
           /\ i > 1 => r[i - 1].op = "finally",
         r[1].op = "macros" /\ r[1].macros # Original => \E j \in 1..n : r[j].op = "finally",
         Go(r \o todo)
  PROVE  TodoInv'
<1>1. /\ todo \in Seq(Steps) /\ Len(todo) \in Nat \ {0} /\ todo # <<>> /\ todo[1].op = "body"
      /\ todo[Len(todo)].op = "body"
  BY TailFacts DEF TodoInv, Doing, First
<1>2. /\ pc' = "test" /\ todo' \in Seq(Steps) /\ Len(todo') = n + Len(todo)
      /\ \A i \in 1..n : todo'[i] = r[i]
      /\ \A i \in 1..Len(todo) : todo'[n + i] = todo[i]
  <2>1. todo \in Seq(Steps) /\ todo' = r \o todo /\ pc' = "test"
    BY <1>1 DEF Go
  <2> QED BY <2>1, TodoLonger, Zenon
<1>3. /\ todo' # <<>> /\ First' = r[1] /\ DOMAIN todo' = 1..Len(todo')
      /\ 1 \in 1..n /\ \A i \in 1..n : i \in 1..Len(todo')
  BY <1>1, <1>2 DEF First
<1>4. todo'[Len(todo')].op = "body"
  <2>1. Len(todo) \in 1..Len(todo)
    BY <1>1
  <2> QED BY <1>1, <1>2, <2>1
<1>5. \A i \in 1..Len(todo') : i \in 1..n \/ \E k \in 1..Len(todo) : i = n + k
  <2> SUFFICES ASSUME NEW i \in 1..Len(todo'), i > n PROVE \E k \in 1..Len(todo) : i = n + k
    BY <1>2
  <2>1. i - n \in 1..Len(todo) /\ i = n + (i - n)
    BY <1>1, <1>2
  <2> QED BY <2>1
<1>6. \A j \in 1..Len(todo') : todo'[j].op = "finally" => Restores(j)'
  <2> SUFFICES ASSUME NEW j \in 1..Len(todo'), todo'[j].op = "finally" PROVE Restores(j)'
    OBVIOUS
  <2>1. CASE j \in 1..n
    <3>1. /\ j + 4 <= n /\ r[j + 1] = UseMacros(Original)
          /\ r[j + 2].op = "start" /\ r[j + 3].op = "exists" /\ r[j + 4].op = "reraise"
      <4>1. r[j].op = "finally"
        BY <1>2, <2>1
      <4> QED BY <2>1, <4>1
    <3>2. /\ j + 1 \in 1..n /\ j + 2 \in 1..n /\ j + 3 \in 1..n /\ j + 4 \in 1..n
          /\ j + 4 < Len(todo')
      BY <1>1, <1>2, <2>1, <3>1
    <3> QED BY <1>2, <3>1, <3>2 DEF Restores
  <2>2. CASE j \notin 1..n
    <3>1. PICK k \in 1..Len(todo) : j = n + k
      BY <1>5, <2>2
    <3>2. Restores(k)
      BY <1>2, <3>1 DEF TodoInv
    <3>3. /\ j + 4 < Len(todo')
          /\ k + 1 \in 1..Len(todo) /\ k + 2 \in 1..Len(todo) /\ k + 3 \in 1..Len(todo)
          /\ k + 4 \in 1..Len(todo)
          /\ j + 1 = n + (k + 1) /\ j + 2 = n + (k + 2) /\ j + 3 = n + (k + 3) /\ j + 4 = n + (k + 4)
      <4>1. /\ n \in Nat /\ Len(todo) \in Nat /\ k \in 1..Len(todo) /\ j = n + k
            /\ Len(todo') = n + Len(todo)
        BY <1>1, <1>2, <3>1
      <4>2. k + 4 < Len(todo)
        BY <3>2 DEF Restores
      <4> QED BY ONLY <4>1, <4>2
    <3>4. /\ todo'[n + (k + 1)] = UseMacros(Original)
          /\ todo'[n + (k + 2)].op = "start" /\ todo'[n + (k + 3)].op = "exists"
          /\ todo'[n + (k + 4)].op = "reraise"
      BY <1>2, <3>2, <3>3 DEF Restores
    <3>5. /\ todo'[j + 1] = UseMacros(Original)
          /\ todo'[j + 2].op = "start" /\ todo'[j + 3].op = "exists"
          /\ todo'[j + 4].op = "reraise"
      BY <3>3, <3>4
    <3> QED BY <3>3, <3>5 DEF Restores
  <2> QED BY <2>1, <2>2
<1>7. \A i \in 1..Len(todo') : todo'[i].op = "macros" =>
        /\ i + 1 <= Len(todo') /\ todo'[i + 1].op = "start"
        /\ i > 1 => todo'[i - 1].op = "finally"
  <2> SUFFICES ASSUME NEW i \in 1..Len(todo'), todo'[i].op = "macros"
               PROVE  /\ i + 1 <= Len(todo') /\ todo'[i + 1].op = "start"
                      /\ i > 1 => todo'[i - 1].op = "finally"
    OBVIOUS
  <2>1. CASE i \in 1..n
    <3>0. r[i].op = "macros"
      BY <1>2, <2>1
    <3>1. /\ i + 1 <= n /\ r[i + 1].op = "start"
          /\ i > 1 => r[i - 1].op = "finally"
      BY <2>1, <3>0
    <3>2. i + 1 \in 1..n /\ (i > 1 => i - 1 \in 1..n) /\ i + 1 <= Len(todo')
      BY <1>1, <1>2, <2>1, <3>1
    <3> QED BY <1>2, <3>1, <3>2
  <2>2. CASE i \notin 1..n
    <3>1. PICK k \in 1..Len(todo) : i = n + k
      BY <1>5, <2>2
    <3>2. todo[k].op = "macros"
      BY <1>2, <3>1
    <3>3. k # 1
      BY <1>1, <3>2
    <3>4. /\ k + 1 <= Len(todo) /\ todo[k + 1].op = "start"
          /\ todo[k - 1].op = "finally"
      BY <3>2, <3>3 DEF TodoInv, MacrosPlaced
    <3>5. /\ k + 1 \in 1..Len(todo) /\ k - 1 \in 1..Len(todo) /\ i + 1 <= Len(todo')
          /\ i + 1 = n + (k + 1) /\ i - 1 = n + (k - 1)
      BY <1>1, <1>2, <3>1, <3>3, <3>4
    <3>6. todo'[i + 1] = todo[k + 1] /\ todo'[i - 1] = todo[k - 1]
      BY <1>2, <3>5
    <3> QED BY <3>4, <3>5, <3>6
  <2> QED BY <2>1, <2>2
<1>8. First'.op = "macros" /\ First'.macros # Original => Finallys' # {}
  <2> SUFFICES ASSUME First'.op = "macros", First'.macros # Original PROVE Finallys' # {}
    OBVIOUS
  <2>1. PICK j \in 1..n : r[j].op = "finally"
    BY <1>3
  <2>2. j \in DOMAIN todo' /\ todo'[j].op = "finally"
    BY <1>2, <1>3, <2>1
  <2> QED BY <2>2 DEF Finallys
<1> QED BY <1>2, <1>3, <1>4, <1>6, <1>7, <1>8 DEF TodoInv, MacrosPlaced, TestPc

(* start_ioc and start_with_macros are such calls.                          *)
LEMMA TodoCalled ==
  ASSUME TodoInv, CallStart \/ CallStartWithMacros
  PROVE  TodoInv'
<1>1. CASE CallStart
  <2>1. PICK r : r = << Step("start") >>
    OBVIOUS
  <2>2. r \in Seq(Steps) /\ Len(r) = 1 /\ r[1].op = "start"
    BY <2>1, StepType DEF Ops
  <2>3. Doing("body") /\ Go(r \o todo)
    BY <1>1, <2>1 DEF CallStart, Call
  <2> QED BY <2>2, <2>3, TodoPushed
<1>2. CASE CallStartWithMacros
  <2>1. PICK m \in Override : Call(StartWithMacros(m))
    BY <1>2 DEF CallStartWithMacros
  <2>2. PICK r : r = StartWithMacros(m)
    OBVIOUS
  <2>3. /\ r \in Seq(Steps) /\ Len(r) = 9
        /\ r[1].op = "macros" /\ r[2].op = "start" /\ r[3].op = "exists" /\ r[4].op = "body"
        /\ r[5].op = "finally" /\ r[6] = UseMacros(Original) /\ r[6].op = "macros"
        /\ r[7].op = "start" /\ r[8].op = "exists" /\ r[9].op = "reraise"
    BY <2>2, StartWithMacrosSteps, StepType, UseType DEF Ops
  <2>4. Doing("body") /\ Go(r \o todo)
    BY <2>1, <2>2 DEF Call
  <2>5. \A j \in 1..9 : r[j].op = "finally" => j = 5
    BY <2>3
  <2>6. \A i \in 1..9 : r[i].op = "macros" => i = 1 \/ i = 6
    BY <2>3
  <2>7. \A j \in 1..9 : r[j].op = "finally" =>
          /\ j + 4 <= 9 /\ r[j + 1] = UseMacros(Original)
          /\ r[j + 2].op = "start" /\ r[j + 3].op = "exists" /\ r[j + 4].op = "reraise"
    BY <2>3, <2>5
  <2>8. \A i \in 1..9 : r[i].op = "macros" =>
          /\ i + 1 <= 9 /\ r[i + 1].op = "start"
          /\ i > 1 => r[i - 1].op = "finally"
    BY <2>3, <2>6
  <2>9. 9 \in Nat \ {0} /\ \E j \in 1..9 : r[j].op = "finally"
    BY <2>3
  <2> QED BY <2>3, <2>4, <2>7, <2>8, <2>9, TodoPushed, Zenon
<1> QED BY <1>1, <1>2

(* Steps that take nothing from what is left: commands, polls, whatever      *)
(* happens outside of tests.                                                *)
TodoKept ==
  /\ UNCHANGED todo
  /\ pc \in TestPc <=> pc' \in TestPc
  /\ pc' \in {"await", "resend"} => pc \in {"await", "resend"} \/ Doing("start")
  /\ pc' = "answer" => pc = "answer" \/ Doing("body")
Taken == Advance /\ ~(First.op = "body" /\ Len(todo) = 1)

(* Other steps leave the steps left alone.                                  *)
LEMMA TodoUnchanged == ASSUME TodoInv, TodoKept PROVE TodoInv'
BY DEF TodoInv, TodoKept, MacrosPlaced, Restores, Finallys, First, Doing

(* What each step does to the steps left.                                   *)
LEMMA TodoOpenClose ==
  ASSUME \/ SpawnServer \/ ((Open \/ Close) /\ UNCHANGED procVars) \/ Connect \/ ConnectRaises
         \/ CloseTelnet \/ FindsNone \/ FindProcesses \/ KillServer \/ KillRaises
  PROVE  TodoKept
<1> USE DEF TodoKept, TestPc, procVars
<1>1. CASE SpawnServer \/ Connect \/ ConnectRaises
  BY <1>1 DEF SpawnServer, Spawn, Connect, ConnectRaises, Fails
<1>2. CASE Open /\ UNCHANGED procVars
  BY <1>2 DEF Open, BeginOpen, RefuseOpen, PrepareFiles, SpawnRaises, SeesConsole, PollsConsole,
              ConsoleTimesOut, SetInits, InitsRaise, EndOpen, OpenRaises, Fails
<1>3. CASE Close /\ UNCHANGED procVars
  BY <1>3 DEF Close, BeginUnwind, EndUnwind, TellToExit, CloseRaises, SeenGone, StillThere, KillIoc,
              KillPython, Closed
<1>4. CASE CloseTelnet \/ FindsNone \/ FindProcesses \/ KillServer \/ KillRaises
  BY <1>4 DEF CloseTelnet, FindsNone, FindProcesses, KillServer, KillRaises, ClosedServer, Closed
<1> QED BY <1>1, <1>2, <1>3, <1>4

(* Processes do.                                                            *)
LEMMA TodoProcesses ==
  ASSUME Processes \/ Done \/ UNCHANGED vars
  PROVE  TodoKept
<1> USE DEF TodoKept, TestPc
<1>1. CASE Done \/ UNCHANGED vars
  BY <1>1 DEF Done, vars, procVars, startVars, control
<1>2. ASSUME NEW l \in Launch, ReadMacros(l) \/ Serve(l) \/ Prompt(l) \/ Exit(l) \/ Die(l),
             UNCHANGED procVars
      PROVE  TodoKept
  BY <1>2 DEF ReadMacros, Serve, Prompt, Exit, Die, control, procVars
<1>3. ASSUME NEW l \in ProcServs,
             Restarts(l) \/ Quits(l) \/ Saves(l) \/ Toggles(l) \/ Revives(l) \/ Noise(l)
      PROVE  TodoKept
  BY <1>3 DEF Restarts, Quits, Saves, Toggles, Revives, Noise, serverFrame, control
<1> QED BY <1>1, <1>2, <1>3 DEF Processes

(* What tests and calls do to the steps left.                               *)
LEMMA TodoTests ==
  ASSUME TodoInv, Test \/ Calls
  PROVE  \/ TodoKept
         \/ Taken /\ (SetMacros \/ First.op # "macros")
         \/ Raise /\ First.op # "macros"
         \/ CallStart \/ CallStartWithMacros
         \/ BeginTests \/ EndTests
<1> USE DEF TodoKept, TestPc
<1>0. pc \in {"await", "answer"} => First.op # "macros"
  BY DEF TodoInv
<1>1. CASE BeginTests \/ EndTests
  BY <1>1 DEF BeginTests, EndTests
<1>2. CASE JustSend \/ Toggle \/ SendStart \/ PollsStart \/ Resend
  BY <1>2 DEF JustSend, Toggle, SendStart, PollsStart, Resend, awaitFrame, startVars, control, Doing
<1>3. CASE LeaveBody
  BY <1>3 DEF LeaveBody, Taken, TodoInv, Doing
<1>4. CASE Pass \/ Reraise \/ SetMacros \/ SeesPv
  BY <1>4 DEF Pass, Reraise, SetMacros, SeesPv, Taken, Doing
<1>5. CASE SeesStart
  BY <1>5 DEF SeesStart, Taken, TodoInv
<1>6. CASE Reconnect \/ ReconnectRaises \/ StartRaises \/ ReadAnswer
  BY <1>0, <1>6 DEF Reconnect, ReconnectRaises, StartRaises, ReadAnswer, Doing, Go
<1> QED BY <1>1, <1>2, <1>3, <1>4, <1>5, <1>6 DEF Test, Calls

(* What a step does to the steps left is one of these.                      *)
LEMMA TodoSteps ==
  ASSUME TodoInv, [Next]_vars
  PROVE  \/ TodoKept
         \/ pc \in TestPc /\ Taken /\ (SetMacros \/ First.op # "macros")
         \/ pc \in TestPc /\ Raise /\ First.op # "macros"
         \/ CallStart \/ CallStartWithMacros
         \/ BeginTests \/ EndTests
<1>1. CASE Test \/ Calls
  <2>1. pc \in TestPc \/ BeginTests
    BY <1>1 DEF Test, Calls, EndTests, CallStartWithMacros, CallStart, LeaveBody, JustSend, Toggle,
                Pass, Reraise, SetMacros, SendStart, SeesStart, PollsStart, Reconnect, Resend,
                ReconnectRaises, StartRaises, SeesPv, ReadAnswer, Call, Doing, TestPc
  <2> QED BY <1>1, <2>1, TodoTests
<1>2. CASE Program
  BY <1>1, <1>2, TodoOpenClose, Zenon DEF Program
<1>3. CASE Processes \/ Done \/ UNCHANGED vars
  BY <1>3, TodoProcesses
<1> QED BY <1>1, <1>2, <1>3 DEF Next

(* The steps left are in order, step by step.                               *)
LEMMA TodoInit == Init => TodoInv
BY DEF Init, StartInit, TodoInv, MacrosPlaced, TestPc

(* Every step.                                                              *)
LEMMA TodoStep == TodoInv /\ [Next]_vars => TodoInv'
<1> SUFFICES ASSUME TodoInv, [Next]_vars PROVE TodoInv'
  OBVIOUS
<1>1. CASE TodoKept
  BY <1>1, TodoUnchanged
<1>2. CASE pc \in TestPc /\ Taken
  BY <1>2, TodoAdvance DEF Taken
<1>3. CASE Raise
  BY <1>3, TodoRaise
<1>4. CASE CallStart \/ CallStartWithMacros
  BY <1>4, TodoCalled
<1>5. CASE BeginTests
  BY <1>5, TodoBody DEF BeginTests, Go
<1>6. CASE EndTests
  BY <1>6 DEF EndTests, TodoInv, MacrosPlaced, TestPc
<1> QED BY <1>1, <1>2, <1>3, <1>4, <1>5, <1>6, TodoSteps

(* The steps left are well-formed.                                          *)
LEMMA TodoHolds == Spec => []TodoInv
BY TodoInit, TodoStep, PTL DEF Spec

---------------------------------------------------------------------------
(* The macros.                                                              *)

ToSet == \E i \in 1..Len(todo) : todo[i].op = "macros"

(* Once nothing is left that sets macros, launchers and file hold the        *)
(* original ones; and the file holds those of the launcher that wrote it.   *)
MacrosInv ==
  /\ macros \in [ProcServs -> Override \cup {Original}]
  /\ \A l \in ProcServs : ~ToSet \/ l # Target => macros[l] = Original
  /\ ~ToSet => file.macros = Original
  /\ file.of \in ProcServs => file.macros = macros[file.of]

(* The launcher a test uses is an open one, and the same all the time.      *)
LEMMA TargetFacts ==
  ASSUME ControlInv, pc \in TestPc
  PROVE  Target \in ProcServs /\ Target \in Opened
BY DEF ControlInv, AtWork, HasTarget, Target, Opened

(* It stays the same.                                                       *)
LEMMA TargetStays ==
  ASSUME ControlInv, [Next]_vars, pc \in TestPc \/ pc' \in TestPc
  PROVE  stack' = stack /\ Target' = Target
<1>1. stack' = stack
  BY StepKinds DEF Begins, Registers, ComesUp, Abandons, Closes, Closed, Fails, Stays, Launches,
                   TestPc, OpenPc
<1> QED BY <1>1 DEF Target

(* Who writes the macros, and the file.                                     *)
LEMMA MacrosSteps ==
  ASSUME [Next]_vars
  PROVE  \/ SetMacros
         \/ PrepareFiles /\ UNCHANGED <<macros, todo>>
         \/ UNCHANGED <<macros, file>>
<1> USE DEF files
<1>1. CASE \/ SpawnServer \/ Connect \/ ConnectRaises
           \/ CloseTelnet \/ FindsNone \/ FindProcesses \/ KillServer \/ KillRaises
  BY <1>1 DEF SpawnServer, Spawn, Connect, ConnectRaises, CloseTelnet, FindsNone, FindProcesses, KillServer,
              KillRaises, ClosedServer, procVars
<1>2. CASE (Open \/ Close) /\ UNCHANGED procVars
  BY <1>2 DEF Open, BeginOpen, RefuseOpen, SpawnRaises, SeesConsole, PollsConsole, ConsoleHit, ConsoleMiss,
              ConsoleTimesOut, SetInits, InitsRaise, EndOpen, OpenRaises, procVars,
              Close, BeginUnwind, EndUnwind, TellToExit, CloseRaises, SeenGone, StillThere, KillIoc,
              KillPython
<1>3. CASE BeginTests \/ EndTests \/ CallStartWithMacros \/ CallStart \/ LeaveBody \/ JustSend \/ Toggle
  BY <1>3 DEF BeginTests, EndTests, CallStartWithMacros, CallStart, LeaveBody, JustSend, Toggle, Call,
              callFrame, testFrame, startVars
<1>4. CASE Pass \/ Reraise \/ SetMacros \/ SendStart \/ SeesStart \/ PollsStart \/ Reconnect \/ Resend
           \/ ReconnectRaises \/ StartRaises \/ SeesPv \/ ReadAnswer
  BY <1>4 DEF Pass, Reraise, SendStart, SeesStart, PollsStart, ConsoleHit, ConsoleMiss, Reconnect,
              Resend, ReconnectRaises, StartRaises, SeesPv, ReadAnswer, callFrame, testFrame, awaitFrame
<1>5. CASE Processes
  BY <1>5 DEF Processes, ReadMacros, Serve, Prompt, Exit, Die, procVars,
              Restarts, Quits, Saves, Toggles, Revives, Noise, serverFrame
<1>6. CASE Done \/ UNCHANGED vars
  BY <1>6 DEF Done, vars, startVars, procVars
<1> QED BY <1>1, <1>2, <1>3, <1>4, <1>5, <1>6 DEF Next, Program, Test, Calls

(* Only the call that sets macros takes them from what is left.             *)
LEMMA ToSetStays ==
  ASSUME TodoInv, [Next]_vars, ~SetMacros, ToSet
  PROVE  ToSet'
<1>1. PICK i \in 1..Len(todo) : todo[i].op = "macros"
  BY DEF ToSet
<1>2. /\ todo \in Seq(Steps) /\ Len(todo) \in Nat \ {0} /\ todo # <<>> /\ pc \in TestPc
      /\ DOMAIN todo = 1..Len(todo) /\ First = todo[1]
  BY <1>1 DEF TodoInv, First
<1>3. i = 1 \/ (i > 1 /\ Finallys # {})
  <2> SUFFICES ASSUME i # 1 PROVE i > 1 /\ Finallys # {}
    OBVIOUS
  <2>1. todo[i - 1].op = "finally" /\ i - 1 \in 1..Len(todo) /\ i > 1
    BY <1>1, <1>2 DEF TodoInv, MacrosPlaced
  <2> QED BY <1>2, <2>1 DEF Finallys
<1>4. CASE TodoKept
  BY <1>4 DEF TodoKept, ToSet
<1>5. CASE Taken /\ First.op # "macros"
  <2>1. /\ Len(todo') = Len(todo) - 1
        /\ \A j \in 1..Len(todo') : todo'[j] = todo[j + 1]
    <3>1. todo \in Seq(Steps) /\ todo # <<>> /\ todo' = Tail(todo)
      BY <1>2, <1>5 DEF Taken, Advance, Go
    <3> QED BY <3>1, TailFacts
  <2>2. i - 1 \in 1..Len(todo') /\ i = (i - 1) + 1
    BY <1>1, <1>2, <1>5, <2>1
  <2>3. todo'[i - 1].op = "macros"
    BY <1>1, <2>1, <2>2
  <2> QED BY <2>2, <2>3 DEF ToSet
<1>6. CASE Raise /\ First.op # "macros"
  <2>1. Finallys # {}
    BY <1>1, <1>2, <1>3, <1>6
  <2>2. PICK k \in 1..(Len(todo) - 1) :
           /\ Len(todo) \in Nat /\ todo[k].op = "finally" /\ Restores(k)
           /\ pc' = "test" /\ todo' \in Seq(Steps) /\ Len(todo') = Len(todo) - k
           /\ \A j \in 1..Len(todo') :
                /\ todo'[j].op = todo[j + k].op
                /\ todo[j + k].op # "reraise" => todo'[j] = todo[j + k]
    BY <1>6, <2>1, RaiseFacts
  <2>3. 1 \in 1..Len(todo') /\ todo'[1].op = todo[1 + k].op /\ todo[k + 1].op = "macros"
    BY <2>2, UseType DEF Restores
  <2> QED BY <2>3 DEF ToSet
<1>7. CASE CallStart \/ CallStartWithMacros
  <2>1. PICK r \in Seq(Steps) : todo' = r \o todo
    <3>1. CASE CallStart
      <4>1. << Step("start") >> \in Seq(Steps)
        BY StepType DEF Ops
      <4> QED BY <3>1, <4>1 DEF CallStart, Call, Go
    <3>2. CASE CallStartWithMacros
      BY <3>2, StartWithMacrosSteps DEF CallStartWithMacros, Call, Go
    <3> QED BY <1>7, <3>1, <3>2
  <2>2. /\ Len(todo') = Len(r) + Len(todo)
        /\ \A j \in 1..Len(todo) : todo'[Len(r) + j] = todo[j]
    BY <1>2, <2>1, TodoLonger, Zenon
  <2>3. Len(r) \in Nat
    OBVIOUS
  <2>4. Len(r) + i \in 1..Len(todo')
    <3>1. i \in 1..Len(todo) /\ Len(todo) \in Nat /\ Len(todo') = Len(r) + Len(todo)
      BY <1>2, <2>2
    <3> QED BY ONLY <2>3, <3>1
  <2>5. todo'[Len(r) + i].op = "macros"
    BY <1>1, <2>2
  <2> QED BY <2>4, <2>5 DEF ToSet
<1>8. CASE BeginTests \/ EndTests
  BY <1>1, <1>2, <1>8 DEF BeginTests, EndTests, Doing, TestPc
<1> QED
  BY <1>4, <1>5, <1>6, <1>7, <1>8, TodoSteps

(* The step that sets macros sets the original ones, or leaves the steps of  *)
(* a finally that will set those.                                           *)
LEMMA OthersAreSetLater ==
  ASSUME TodoInv, SetMacros, First.macros # Original
  PROVE  ToSet'
<1>1. todo \in Seq(Steps) /\ todo # <<>> /\ todo' = Tail(todo) /\ First.op = "macros"
  BY DEF TodoInv, SetMacros, Doing, Advance, Go
<1>2. /\ Len(todo) \in Nat \ {0} /\ First = todo[1] /\ DOMAIN todo = 1..Len(todo)
      /\ Len(todo') = Len(todo) - 1
      /\ \A i \in 1..Len(todo') : todo'[i] = todo[i + 1]
  BY <1>1, TailFacts DEF First
<1>3. Finallys # {}
  BY <1>1 DEF TodoInv, MacrosPlaced
<1>4. PICK k \in 1..Len(todo) : todo[k].op = "finally"
  BY <1>2, <1>3 DEF Finallys
<1>5. k + 4 < Len(todo) /\ todo[k + 1] = UseMacros(Original)
  BY <1>4 DEF TodoInv, Restores
<1>6. k \in 1..Len(todo') /\ todo'[k] = todo[k + 1]
  BY <1>2, <1>5
<1> QED BY <1>5, <1>6, UseType DEF ToSet

(* Macros and file stay together, step by step.                             *)
LEMMA MacrosInit == Init => MacrosInv
BY LaunchesAssumption DEF Init, StartInit, MacrosInv, NoMacros, NoLaunch, ProcServs, Launch

(* Every step.                                                              *)
LEMMA MacrosStep == ControlInv /\ TodoInv /\ MacrosInv /\ [Next]_vars => MacrosInv'
<1> SUFFICES ASSUME ControlInv, TodoInv, MacrosInv, [Next]_vars PROVE MacrosInv'
  OBVIOUS
<1>1. pc \notin TestPc /\ pc' \notin TestPc => ~ToSet /\ ~ToSet'
  <2>1. pc \notin TestPc => ~ToSet
    BY DEF TodoInv, ToSet
  <2>2. TodoInv'
    BY TodoStep
  <2>3. pc' \notin TestPc => ~ToSet'
    BY <2>2 DEF TodoInv, ToSet
  <2> QED BY <2>1, <2>3
<1>2. CASE SetMacros
  <2>1. /\ pc \in TestPc /\ Target \in ProcServs /\ Target' = Target
        /\ First.macros \in Override \cup {Original}
    <3>1. pc \in TestPc /\ First \in Steps
      BY <1>2, TailFacts DEF SetMacros, Doing, TestPc, TodoInv, First
    <3>2. Target \in ProcServs /\ Target' = Target
      BY <3>1, TargetFacts, TargetStays
    <3> QED BY <3>1, <3>2 DEF Steps
  <2>2. ToSet
    <3>1. 1 \in 1..Len(todo) /\ todo[1].op = "macros"
      BY <1>2, TailFacts DEF SetMacros, Doing, TodoInv, First
    <3> QED BY <3>1 DEF ToSet
  <2>3. ~ToSet' => First.macros = Original
    BY <1>2, OthersAreSetLater
  <2>4. /\ macros' = [macros EXCEPT ![Target] = First.macros]
        /\ file' = [of |-> Target, macros |-> First.macros]
    BY <1>2 DEF SetMacros
  <2> QED BY <2>1, <2>2, <2>3, <2>4 DEF MacrosInv
<1>3. CASE PrepareFiles /\ UNCHANGED <<macros, todo>>
  <2>1. pc \notin TestPc /\ pc' \notin TestPc
    BY <1>3 DEF PrepareFiles, TestPc
  <2>2. ~ToSet /\ ~ToSet' /\ file' = MacrosOf(cur)
    BY <1>1, <1>3, <2>1 DEF PrepareFiles
  <2> QED BY <1>3, <2>2 DEF MacrosInv, MacrosOf
<1>4. CASE UNCHANGED <<macros, file>> /\ ~SetMacros
  <2>1. ToSet => ToSet'
    BY <1>4, ToSetStays
  <2>2. \/ Target' = Target
        \/ ~ToSet /\ ~ToSet'
    BY <1>1, TargetStays
  <2> QED BY <1>4, <2>1, <2>2 DEF MacrosInv
<1> QED BY <1>2, <1>3, <1>4, MacrosSteps

(* The macros are in order.                                                 *)
LEMMA MacrosHold == Spec => []MacrosInv
BY ControlInit, ControlStep, TodoInit, TodoStep, MacrosInit, MacrosStep, PTL DEF Spec

(* Whatever is raised, and in however many contexts of start_with_macros,   *)
(* and however often a start is tried: when the test is outside of them all *)
(* the launcher and its file have the original macros.                      *)
THEOREM MacrosAreRestored == Spec => []MacrosComeBack
<1>1. ControlInv /\ TodoInv /\ MacrosInv => MacrosComeBack
  <2> SUFFICES ASSUME ControlInv, TodoInv, MacrosInv, Doing("body"), Len(todo) = 1
               PROVE  macros[Target] = Original /\ (file.of = Target => file.macros = Original)
    BY DEF MacrosComeBack
  <2>1. ~ToSet
    BY DEF ToSet, Doing, First, TodoInv
  <2>2. Target \in ProcServs
    BY TargetFacts DEF Doing, TestPc
  <2> QED BY <2>1, <2>2 DEF MacrosInv
<1> QED BY <1>1, ControlHolds, TodoHolds, MacrosHold, PTL

---------------------------------------------------------------------------
(* Types.                                                                   *)

(* What the framework and the IOCs share: processes, files, histories.      *)
IocTypes ==
  /\ raising \in BOOLEAN /\ left \in Nat
  /\ process \in [Launch -> Alive \cup {"none", "gone"}] /\ booted \in [Launch -> MacrosFile]
  /\ exiting \subseteq Launch /\ inited \subseteq Launch
  /\ file \in MacrosFile /\ log \in [Name -> LF!Log] /\ open \subseteq Launch
  /\ crowded \subseteq Launch /\ fresh \subseteq Launch

(* What concerns procServ.  A start is sent again only while tries are left. *)
Commands == {"restart", "quit", "save", "toggle"}
ProcTypes ==
  /\ uses \in Uses \cup {{}}
  /\ tries \in 0..Retries /\ (pc = "resend" => tries > 0)
  /\ auto \in [ProcServs -> BOOLEAN] /\ autorestart \in [ProcServs -> BOOLEAN]
  /\ sent \in [ProcServs -> Seq(Commands)]
  /\ inbox \in [ProcServs -> SUBSET {"ON", "OFF"}]
  /\ cutOff \subseteq ProcServs /\ astray \subseteq ProcServs /\ upset \subseteq ProcServs

(* A log stays a log, whoever reads or writes it.                           *)
LEMMA LogTypes ==
  ASSUME NEW lg \in LF!Log, NEW w \in {"earlier", "now"}
  PROVE  /\ Aged(lg) \in LF!Log /\ LF!Reopened(lg, w) \in LF!Log /\ LF!AllRead(lg) \in LF!Log
         /\ LF!Printed(lg, w) \in LF!Log /\ LF!PrintedFirst(lg) \in LF!Log
         /\ LF!PrintedRest(lg, w) \in LF!Log
BY DEF Aged, LF!Log, LF!Reopened, LF!AllRead, LF!HasText, LF!Printed, LF!PrintedFirst, LF!PrintedRest

(* The log of one name changes.                                             *)
LEMMA SetLogType ==
  ASSUME log \in [Name -> LF!Log], NEW n \in Name, NEW new \in LF!Log, SetLog(n, new)
  PROVE  log' \in [Name -> LF!Log] /\ log'[n] = new /\ \A k \in Name : k # n => log'[k] = log[k]
BY DEF SetLog

(* Polling the console.                                                     *)
LEMMA ConsoleTypes ==
  ASSUME IocTypes, NEW n \in Name, ConsoleHit(n) \/ ConsoleMiss(n)
  PROVE  /\ left' \in Nat /\ file' = file /\ open' = open /\ log' \in [Name -> LF!Log]
         /\ fresh' \subseteq Launch
<1>1. log' \in [Name -> LF!Log]
  BY LogTypes, SetLogType DEF ConsoleHit, ConsoleMiss, IocTypes
<1> QED BY <1>1 DEF ConsoleHit, ConsoleMiss, IocTypes

(* Opening and closing, with respect to these types.                        *)
LEMMA OpenTypes ==
  ASSUME ControlInv, IocTypes, Open \/ SpawnServer \/ Connect \/ ConnectRaises
  PROVE  IocTypes'
<1> USE LaunchesAssumption DEF iocs, files, history, record
<1>1. pc \in OpenPc => cur \in Launch /\ NameOf[cur] \in Name
  BY OpenedFacts
<1>2. CASE BeginOpen \/ RefuseOpen \/ SpawnRaises \/ InitsRaise \/ EndOpen \/ OpenRaises \/ Connect
           \/ ConnectRaises \/ ConsoleTimesOut
  BY <1>2 DEF BeginOpen, RefuseOpen, SpawnRaises, InitsRaise, EndOpen, OpenRaises, Connect,
              ConnectRaises, ConsoleTimesOut, Fails, IocTypes
<1>3. CASE PrepareFiles
  <2>1. cur \in Launch /\ NameOf[cur] \in Name
    BY <1>1, <1>3 DEF PrepareFiles, OpenPc
  <2>2. log' \in [Name -> LF!Log]
    BY <1>3, <2>1, LogTypes, SetLogType DEF PrepareFiles, IocTypes
  <2>3. file' \in MacrosFile
    BY <1>3, <2>1 DEF PrepareFiles, MacrosOf, MacrosFile
  <2> QED BY <1>3, <2>1, <2>2, <2>3 DEF PrepareFiles, IocTypes
<1>4. CASE SpawnServer
  <2>1. cur \in Launch /\ NameOf[cur] \in Name
    BY <1>1, <1>4 DEF SpawnServer, Spawn, OpenPc
  <2>2. log' \in [Name -> LF!Log]
    BY <1>4, <2>1, LogTypes, SetLogType DEF SpawnServer, Spawn, IocTypes
  <2> QED BY <1>4, <2>1, <2>2 DEF SpawnServer, Spawn, IocTypes, Alive
<1>5. CASE SeesConsole \/ PollsConsole
  <2>1. NameOf[cur] \in Name
    BY <1>1, <1>5 DEF SeesConsole, PollsConsole, OpenPc
  <2> QED BY <1>5, <2>1, ConsoleTypes DEF SeesConsole, PollsConsole, IocTypes
<1>6. CASE SetInits
  BY <1>6 DEF SetInits, IocTypes, ServersOf
<1> QED BY <1>2, <1>3, <1>4, <1>5, <1>6 DEF Open

(* Closing, with respect to these types.                                    *)
LEMMA CloseTypes ==
  ASSUME ControlInv, IocTypes,
         Close \/ CloseTelnet \/ FindsNone \/ FindProcesses \/ KillServer \/ KillRaises
  PROVE  IocTypes'
<1> USE LaunchesAssumption DEF iocs, files, history, record
<1>1. stack # <<>> => Top \in Launch
  BY FrontFacts DEF ControlInv, Top
<1>2. CASE \/ BeginUnwind \/ EndUnwind \/ CloseRaises \/ SeenGone \/ StillThere
           \/ CloseTelnet \/ FindsNone \/ FindProcesses \/ KillRaises
  BY <1>2 DEF BeginUnwind, EndUnwind, CloseRaises, SeenGone, StillThere, CloseTelnet, FindsNone, FindProcesses,
              KillRaises, ClosedServer, Closed, IocTypes
<1>3. CASE TellToExit
  BY <1>1, <1>3 DEF TellToExit, Closing, IocTypes
<1>4. CASE KillIoc \/ KillPython
  BY <1>1, <1>4 DEF KillIoc, KillPython, Kill, Closed, Closing, ControlInv, AtWork, IocTypes
<1>5. CASE KillServer
  BY <1>1, <1>5 DEF KillServer, Killed, Closing, ControlInv, AtWork, IocTypes
<1> QED BY <1>2, <1>3, <1>4, <1>5 DEF Close

(* Tests and processes, with respect to these types.                        *)
LEMMA CallTypes ==
  ASSUME ControlInv, TodoInv, IocTypes, Test \/ Calls
  PROVE  IocTypes'
<1> USE LaunchesAssumption DEF iocs, files, history, record
<1>1. pc \in TestPc => Target \in Launch /\ NameOf[Target] \in Name
  BY TargetFacts DEF ProcServs
<1>2. CASE BeginTests \/ EndTests \/ JustSend \/ Toggle
  BY <1>2 DEF BeginTests, EndTests, JustSend, Toggle, Doing, testFrame, startVars, control, IocTypes
<1>3. CASE CallStartWithMacros \/ CallStart \/ LeaveBody \/ Pass \/ Reraise \/ SeesPv
  BY <1>3 DEF CallStartWithMacros, CallStart, Call, LeaveBody, Pass, Reraise, SeesPv, testFrame, callFrame,
              IocTypes
<1>4. CASE SetMacros
  <2>1. Target \in Launch /\ First \in Steps
    BY <1>1, <1>4, TailFacts DEF SetMacros, Doing, TestPc, TodoInv, First
  <2>2. file' \in MacrosFile
    BY <1>4, <2>1 DEF SetMacros, MacrosFile, Steps
  <2> QED BY <1>4, <2>2 DEF SetMacros, testFrame, IocTypes
<1>5. CASE SendStart
  <2>1. NameOf[Target] \in Name
    BY <1>1, <1>5 DEF SendStart, Doing, TestPc
  <2>2. log' \in [Name -> LF!Log]
    BY <1>5, <2>1, LogTypes, SetLogType DEF SendStart, IocTypes
  <2> QED BY <1>5, <2>2 DEF SendStart, awaitFrame, testFrame, IocTypes
<1>6. CASE SeesStart \/ PollsStart
  <2>1. NameOf[Target] \in Name
    BY <1>1, <1>6 DEF SeesStart, PollsStart, TestPc
  <2> QED BY <1>6, <2>1, ConsoleTypes DEF SeesStart, PollsStart, awaitFrame, testFrame, IocTypes
<1>7. CASE Reconnect \/ Resend \/ ReconnectRaises \/ StartRaises \/ ReadAnswer
  BY <1>7 DEF Reconnect, Resend, ReconnectRaises, StartRaises, ReadAnswer, awaitFrame, testFrame, IocTypes
<1> QED BY <1>2, <1>3, <1>4, <1>5, <1>6, <1>7 DEF Test, Calls

(* Processes, with respect to these types.                                  *)
LEMMA ProcessTypes ==
  ASSUME IocTypes, Processes \/ Done \/ UNCHANGED vars
  PROVE  IocTypes'
<1> USE LaunchesAssumption DEF iocs, files, history, record, control
<1>1. \A l : Age(l) \in {"earlier", "now"}
  BY DEF Age
<1>2. CASE Done \/ UNCHANGED vars
  BY <1>2 DEF Done, vars, startVars, IocTypes
<1>3. ASSUME NEW l \in Launch, ReadMacros(l) \/ Serve(l) \/ Exit(l) \/ Die(l) PROVE IocTypes'
  BY <1>3 DEF ReadMacros, Serve, Exit, Die, Becomes, Alive, IocTypes
<1>4. ASSUME NEW l \in Launch, Prompt(l) PROVE IocTypes'
  <2>1. log' \in [Name -> LF!Log]
    BY <1>1, <1>4, LogTypes, SetLogType DEF Prompt, IocTypes
  <2> QED BY <1>4, <2>1 DEF Prompt, Becomes, Alive, IocTypes
<1>5. ASSUME NEW l \in ProcServs, Saves(l) PROVE IocTypes'
  <2>1. log' \in [Name -> LF!Log]
    BY <1>1, <1>5, LogTypes, SetLogType DEF Saves, IocTypes, ProcServs
  <2> QED BY <1>5, <2>1 DEF Saves, serverFrame, IocTypes
<1>6. ASSUME NEW l \in ProcServs, Restarts(l) \/ Quits(l) \/ Toggles(l) \/ Revives(l) \/ Noise(l)
      PROVE  IocTypes'
  BY <1>6 DEF Restarts, Quits, Toggles, Revives, Noise, Boots, Becomes, Alive, serverFrame, IocTypes, ProcServs
<1> QED BY <1>2, <1>3, <1>4, <1>5, <1>6 DEF Processes

(* The types at first.                                                      *)
LEMMA IocTypesInit == Init => IocTypes
<1> SUFFICES ASSUME Init PROVE IocTypes
  OBVIOUS
<1>2. log \in [Name -> LF!Log]
  <2>1. \A n \in Name : [before |-> n \in Logged, unread |-> {}, half |-> "none"] \in LF!Log
    BY DEF LF!Log
  <2> QED BY <2>1 DEF Init, StartInit
<1>3. NoMacros \in MacrosFile
  BY DEF NoMacros, NoLaunch, MacrosFile
<1> QED BY <1>2, <1>3 DEF Init, StartInit, IocTypes

(* Every step.                                                              *)
LEMMA IocTypesStep == ControlInv /\ TodoInv /\ IocTypes /\ [Next]_vars => IocTypes'
<1> SUFFICES ASSUME ControlInv, TodoInv, IocTypes, [Next]_vars PROVE IocTypes'
  OBVIOUS
<1>1. CASE Test \/ Calls
  BY <1>1, CallTypes
<1>2. CASE Processes \/ Done \/ UNCHANGED vars
  BY <1>2, ProcessTypes
<1>3. CASE Program
  BY <1>1, <1>3, OpenTypes, CloseTypes, Zenon DEF Program
<1> QED BY <1>1, <1>2, <1>3 DEF Next

(* What is sent to procServ, and what procServ takes.                        *)
LEMMA SentTypes ==
  ASSUME sent \in [ProcServs -> Seq(Commands)], NEW t \in ProcServs, NEW new \in Seq(Commands),
         sent' = [sent EXCEPT ![t] = new]
  PROVE  sent' \in [ProcServs -> Seq(Commands)]
OBVIOUS

(* Sending a command.                                                       *)
LEMMA SendTypes ==
  ASSUME sent \in [ProcServs -> Seq(Commands)], Target \in ProcServs, NEW cmd \in Commands, Send(cmd)
  PROVE  sent' \in [ProcServs -> Seq(Commands)]
<1>1. sent[Target] \in Seq(Commands) /\ Append(sent[Target], cmd) \in Seq(Commands)
  BY PushedFacts
<1> QED BY <1>1 DEF Send, Beyond

(* Carrying one out.                                                        *)
LEMMA DoesTypes ==
  ASSUME sent \in [ProcServs -> Seq(Commands)], NEW l \in ProcServs, NEW cmd, Does(l, cmd)
  PROVE  sent' \in [ProcServs -> Seq(Commands)]
<1>1. sent[l] \in Seq(Commands) /\ sent[l] # <<>>
  BY DEF Does
<1>2. Tail(sent[l]) \in Seq(Commands)
  BY <1>1, TailFacts
<1> QED BY <1>2 DEF Does

(* Every step.                                                              *)
LEMMA ProcTypesStep == ControlInv /\ ServerInv /\ ProcTypes /\ [Next]_vars => ProcTypes'
<1> SUFFICES ASSUME ControlInv, ServerInv, ProcTypes, [Next]_vars PROVE ProcTypes'
  OBVIOUS
<1> USE ProcServAssumption DEF procVars, servers, ProcTypes, Commands
<1>1. pc \in TestPc => Target \in ProcServs
  BY TargetFacts
<1>2. Closing("procserv") => Top \in ProcServs
  BY FrontFacts DEF Closing, Top, ControlInv, ProcServs
<1>3. \A t \in ProcServs : [sent EXCEPT ![t] = <<>>] \in [ProcServs -> Seq(Commands)]
  OBVIOUS
<1>3a. \A t \in ProcServs, new \in SUBSET {"ON", "OFF"} :
         [inbox EXCEPT ![t] = new] \in [ProcServs -> SUBSET {"ON", "OFF"}]
  OBVIOUS
<1>4. CASE (Open \/ Close) /\ UNCHANGED procVars
  <2>1. pc' # "resend"
    BY <1>4 DEF Open, BeginOpen, RefuseOpen, PrepareFiles, SpawnRaises, SeesConsole, PollsConsole,
              ConsoleTimesOut, SetInits, InitsRaise, EndOpen, OpenRaises, Fails,
              Close, BeginUnwind, EndUnwind, TellToExit, CloseRaises, SeenGone, StillThere, KillIoc,
              KillPython, Closed
  <2> QED BY <1>4, <2>1
<1>5. CASE SpawnServer \/ Connect \/ ConnectRaises
  BY <1>5 DEF SpawnServer, Spawn, Connect, ConnectRaises, Fails
<1>6. CASE CloseTelnet
  <2>1. Top \in ProcServs
    BY <1>2, <1>6 DEF CloseTelnet
  <2>2. sent' \in [ProcServs -> Seq(Commands)]
    <3>1. sent' = [sent EXCEPT ![Top] = sent[Top]] \/ sent' = [sent EXCEPT ![Top] = <<>>]
      BY <1>6 DEF CloseTelnet
    <3>2. sent[Top] \in Seq(Commands) /\ <<>> \in Seq(Commands)
      BY <2>1
    <3> QED BY <2>1, <3>1, <3>2, SentTypes
  <2>3. inbox' \in [ProcServs -> SUBSET {"ON", "OFF"}]
    BY <1>3a, <1>6, <2>1 DEF CloseTelnet
  <2> QED BY <1>6, <2>2, <2>3 DEF CloseTelnet
<1>7. CASE FindsNone \/ FindProcesses \/ KillRaises
  <2>1. Top \in ProcServs
    BY <1>2, <1>7 DEF FindsNone, FindProcesses, KillRaises, ControlInv, AtWork
  <2>2. autorestart' \in [ProcServs -> BOOLEAN]
    BY <1>7, <2>1 DEF FindsNone, FindProcesses, KillRaises, ClosedServer
  <2> QED BY <1>7, <2>2 DEF FindsNone, FindProcesses, KillRaises, ClosedServer, Closed
<1>8. CASE KillServer
  BY <1>2, <1>8 DEF KillServer, Killed, ControlInv, AtWork
<1>9. CASE BeginTests \/ EndTests
  BY <1>9 DEF BeginTests, EndTests, Go
<1>10. CASE CallStartWithMacros \/ CallStart \/ LeaveBody \/ Pass \/ Reraise \/ SetMacros \/ SeesPv
  <2>1. CASE CallStartWithMacros \/ CallStart \/ LeaveBody
    BY <2>1 DEF CallStartWithMacros, CallStart, Call, LeaveBody, callFrame, Raise, Advance, Go
  <2>2. CASE Pass \/ Reraise
    BY <2>2 DEF Pass, Reraise, callFrame, Advance, Raise, Go
  <2>3. CASE SetMacros \/ SeesPv
    BY <2>3 DEF SetMacros, SeesPv, callFrame, Advance, Raise, Go
  <2> QED BY <1>10, <2>1, <2>2, <2>3
<1>11. CASE JustSend
  <2>1. pc = "test" /\ pc' = pc /\ sent' \in [ProcServs -> Seq(Commands)]
    BY <1>1, <1>11, SendTypes DEF JustSend, Doing, TestPc, startVars, control
  <2> QED BY <1>11, <2>1 DEF JustSend
<1>12. CASE Toggle
  <2>1. Target \in ProcServs /\ sent' \in [ProcServs -> Seq(Commands)]
    BY <1>1, <1>12, SendTypes DEF Toggle, Doing, TestPc
  <2> QED BY <1>12, <2>1 DEF Toggle
<1>13. CASE SendStart \/ Resend
  <2>1. Target \in ProcServs /\ sent' \in [ProcServs -> Seq(Commands)]
    BY <1>1, <1>13, SendTypes DEF SendStart, Resend, Doing, TestPc
  <2>2. tries' \in 0..Retries /\ pc' = "await"
    BY <1>13 DEF SendStart, Resend
  <2> QED BY <1>13, <2>1, <2>2 DEF SendStart, Resend, awaitFrame
<1>14. CASE SeesStart \/ PollsStart
  <2>1. CASE SeesStart
    <3>1. Target \in ProcServs
      BY <1>1, <2>1 DEF SeesStart, TestPc
    <3>2. tries' = 0 /\ pc' = "test" /\ (upset' = upset \ {Target} \/ upset' = upset \cup {Target})
      BY <2>1 DEF SeesStart, Advance, Go
    <3>3. upset' \subseteq ProcServs
      BY <3>1, <3>2
    <3> QED BY <2>1, <3>2, <3>3 DEF SeesStart
  <2>2. CASE PollsStart
    BY <2>2 DEF PollsStart, awaitFrame
  <2> QED BY <1>14, <2>1, <2>2
<1>15. CASE Reconnect \/ ReconnectRaises \/ StartRaises
  <2>1. Target \in ProcServs
    BY <1>1, <1>15 DEF Reconnect, ReconnectRaises, StartRaises, Doing, TestPc
  <2>2. sent' \in [ProcServs -> Seq(Commands)]
    <3>1. CASE Reconnect
      <4>1. sent' = [sent EXCEPT ![Target] = sent[Target]] \/ sent' = [sent EXCEPT ![Target] = <<>>]
        BY <3>1 DEF Reconnect
      <4>2. sent[Target] \in Seq(Commands) /\ <<>> \in Seq(Commands)
        BY <2>1
      <4> QED BY <2>1, <4>1, <4>2, SentTypes
    <3>2. CASE ReconnectRaises \/ StartRaises
      BY <3>2 DEF ReconnectRaises, StartRaises
    <3> QED BY <1>15, <3>1, <3>2
  <2>3. inbox' \in [ProcServs -> SUBSET {"ON", "OFF"}]
    BY <1>3a, <1>15, <2>1 DEF Reconnect, ReconnectRaises, StartRaises
  <2>4. (pc' = "resend" => tries > 0) /\ upset' \subseteq ProcServs /\ cutOff' \subseteq ProcServs
    BY <1>15, <2>1 DEF Reconnect, ReconnectRaises, StartRaises, Raise, Go
  <2>5. tries' \in 0..Retries /\ UNCHANGED <<uses, auto, autorestart, astray>>
    BY <1>15 DEF Reconnect, ReconnectRaises, StartRaises
  <2>6. (pc' = "resend" => tries' > 0)
    BY <1>15, <2>4 DEF Reconnect, ReconnectRaises, StartRaises, Raise, Go
  <2> QED BY <2>2, <2>3, <2>4, <2>5, <2>6
<1>16. CASE ReadAnswer
  <2>1. Target \in ProcServs /\ pc' # "resend"
    BY <1>1, <1>16 DEF ReadAnswer, TestPc, Raise, Go
  <2>2. autorestart' \in [ProcServs -> BOOLEAN] /\ astray' \subseteq ProcServs
    <3>1. \A b \in BOOLEAN : [autorestart EXCEPT ![Target] = b] \in [ProcServs -> BOOLEAN]
      OBVIOUS
    <3>2. astray' = astray \/ astray' = astray \cup {Target}
      BY <1>16 DEF ReadAnswer
    <3>3. autorestart' = autorestart \/ \E b \in BOOLEAN : autorestart' = [autorestart EXCEPT ![Target] = b]
      BY <1>16 DEF ReadAnswer
    <3> QED BY <2>1, <3>1, <3>2, <3>3
  <2>3. inbox' \in [ProcServs -> SUBSET {"ON", "OFF"}]
    BY <1>16, <2>1 DEF ReadAnswer
  <2> QED BY <1>16, <2>1, <2>2, <2>3 DEF ReadAnswer
<1>17. CASE Done \/ UNCHANGED vars
  BY <1>17 DEF Done, vars, startVars, control
<1>18. ASSUME NEW l \in Launch, ReadMacros(l) \/ Serve(l) \/ Prompt(l) \/ Exit(l) \/ Die(l),
              UNCHANGED procVars
       PROVE  ProcTypes'
  BY <1>18 DEF ReadMacros, Serve, Prompt, Exit, Die, control
<1>19. ASSUME NEW l \in ProcServs, Restarts(l) \/ Quits(l) \/ Saves(l) \/ Toggles(l)
       PROVE  ProcTypes'
  <2>1. sent' \in [ProcServs -> Seq(Commands)]
    BY <1>19, DoesTypes DEF Restarts, Quits, Saves, Toggles
  <2>2. auto' \in [ProcServs -> BOOLEAN]
    BY <1>19 DEF Restarts, Quits, Saves, Toggles
  <2>3. inbox' \in [ProcServs -> SUBSET {"ON", "OFF"}]
    <3>1. inbox' = inbox \/ \E x \in {"ON", "OFF"} : inbox' = [inbox EXCEPT ![l] = @ \cup {x}]
      BY <1>19 DEF Restarts, Quits, Saves, Toggles
    <3>2. inbox \in [ProcServs -> SUBSET {"ON", "OFF"}]
      OBVIOUS
    <3>3. ASSUME NEW x \in {"ON", "OFF"}, inbox' = [inbox EXCEPT ![l] = @ \cup {x}]
          PROVE  inbox' \in [ProcServs -> SUBSET {"ON", "OFF"}]
      BY ONLY <3>2, <3>3, l \in ProcServs
    <3> QED BY ONLY <3>1, <3>2, <3>3
  <2> QED BY <1>19, <2>1, <2>2, <2>3 DEF Restarts, Quits, Saves, Toggles, serverFrame, control
<1>20. ASSUME NEW l \in ProcServs, Revives(l) \/ Noise(l)
       PROVE  ProcTypes'
  <2>1. inbox' \in [ProcServs -> SUBSET {"ON", "OFF"}]
    <3>1. CASE Noise(l)
      <4>1. PICK word \in {"ON", "OFF"} : inbox' = [inbox EXCEPT ![l] = @ \cup {word}]
        BY <3>1 DEF Noise
      <4>2. inbox[l] \cup {word} \in SUBSET {"ON", "OFF"}
        OBVIOUS
      <4> QED BY <1>3a, <4>1, <4>2
    <3>2. CASE Revives(l)
      BY <3>2 DEF Revives
    <3> QED BY <1>20, <3>1, <3>2
  <2>2. astray' \subseteq ProcServs
    BY <1>20 DEF Revives, Noise
  <2> QED BY <1>20, <2>1, <2>2 DEF Revives, Noise, serverFrame, control
<1>21. CASE Processes
  BY <1>18, <1>19, <1>20, <1>21 DEF Processes
<1>22. CASE Test \/ Calls
  BY <1>9, <1>10, <1>11, <1>12, <1>13, <1>14, <1>15, <1>16, <1>22 DEF Test, Calls
<1> QED
  BY <1>4, <1>5, <1>6, <1>7, <1>8, <1>17, <1>21, <1>22, Zenon DEF Next, Program

(* Every variable stays in its type: the steps left are steps of calls, and  *)
(* there are never more tries than asked for.                               *)
THEOREM ProcServTypes == Spec => []TypeOK
<1>1. Init => ProcTypes
  BY ProcServAssumption DEF Init, StartInit, ProcTypes, Commands
<1>2. ControlInv /\ TodoInv /\ MacrosInv /\ ServerInv /\ IocTypes /\ ProcTypes => TypeOK
  <2> SUFFICES ASSUME ControlInv, TodoInv, MacrosInv, ServerInv, IocTypes, ProcTypes PROVE TypeOK
    OBVIOUS
  <2>1. failed \subseteq Launch
    BY LaunchesAssumption DEF ControlInv, InOrder, Launch
  <2> QED
    BY <2>1 DEF TypeOK, ControlInv, OpenPc, TestPc, ClosePc, TodoInv, Steps, Ops, MacrosInv, ServerInv,
                IocTypes, ProcTypes, Commands
<1> QED
  BY <1>1, <1>2, ControlInit, ControlStep, TodoInit, TodoStep, MacrosInit, MacrosStep, ServerInit, ServerStep,
     IocTypesInit, IocTypesStep, ProcTypesStep, PTL DEF Spec
=============================================================================
