------------------------- MODULE ProcServIocProofs --------------------------
(***************************************************************************)
(* IOCs while they are opened, while they are open, and while the calls of  *)
(* a test restart them:                                                     *)
(*   the IOC being opened, and the one that is open                         *)
(*   commands and answers, autorestart                                      *)
(*   the macros an IOC has read                                             *)
(***************************************************************************)
EXTENDS ProcServProofs

---------------------------------------------------------------------------
(* The IOC of a launch while it is opened.                                  *)

(* Steps of an open; of the rest of the program; of processes.              *)
OpenStep ==
  \/ Open /\ UNCHANGED procVars
  \/ SpawnServer \/ Connect \/ ConnectRaises
Outside ==
  /\ pc \notin OpenPc /\ pc' \notin OpenPc /\ UNCHANGED <<cur, booted, inited, crowded, failed>>
  /\ pids' \subseteq pids
  /\ UNCHANGED process \/ (stack # <<>> /\ process' = [process EXCEPT ![Top] = "gone"])
Background == UNCHANGED <<control, RunningIOCs, failed, spared, crowded, pids, file>>

(* Every step is of one of these kinds.                                     *)
LEMMA IocSteps ==
  ASSUME ControlInv, [Next]_vars
  PROVE  \/ OpenStep \/ Outside
         \/ Background /\ (Processes \/ UNCHANGED startVars)
<1> USE DEF OpenPc, iocs, files, history, record, servers
<1>0. pc \in {"closing", "search", "kill"} => stack # <<>>
  BY DEF ControlInv, AtWork, Closing
<1>1. CASE (Open /\ UNCHANGED procVars) \/ SpawnServer \/ Connect \/ ConnectRaises
  BY <1>1 DEF OpenStep
<1>2. CASE Close /\ UNCHANGED procVars
  <2>1. pc \notin OpenPc /\ pc' \notin OpenPc
    BY <1>2 DEF Close, BeginUnwind, EndUnwind, TellToExit, CloseRaises, SeenGone, StillThere, KillIoc,
                KillPython, Closed
  <2>2. UNCHANGED process \/ (stack # <<>> /\ process' = [process EXCEPT ![Top] = "gone"])
    BY <1>0, <1>2 DEF Close, BeginUnwind, EndUnwind, TellToExit, CloseRaises, SeenGone, StillThere,
                      KillIoc, KillPython, Kill, Closing
  <2>3. UNCHANGED <<cur, booted, inited, crowded, failed, pids>>
    BY <1>2 DEF Close, BeginUnwind, EndUnwind, TellToExit, CloseRaises, SeenGone, StillThere, KillIoc,
                KillPython, Closed, procVars
  <2>4. pids' \subseteq pids
    BY <2>3
  <2> QED BY <2>1, <2>2, <2>3, <2>4 DEF Outside
<1>3. CASE CloseTelnet \/ FindsNone \/ FindProcesses \/ KillRaises
  BY <1>3 DEF CloseTelnet, FindsNone, FindProcesses, KillRaises, ClosedServer, Closed, Outside, procVars
<1>4. CASE KillServer
  <2>1. UNCHANGED process \/ process' = [process EXCEPT ![Top] = "gone"]
    BY <1>4 DEF KillServer, Killed
  <2>2. pc \notin OpenPc /\ pc' \notin OpenPc /\ UNCHANGED <<cur, booted, inited, crowded, failed>>
    BY <1>4 DEF KillServer
  <2> QED BY <1>0, <1>4, <2>1, <2>2 DEF KillServer, Killed, Outside
<1>5. CASE BeginTests \/ EndTests \/ CallStartWithMacros \/ CallStart \/ LeaveBody \/ JustSend \/ Toggle
  BY <1>5 DEF BeginTests, EndTests, CallStartWithMacros, CallStart, LeaveBody, JustSend, Toggle, Doing, Go,
              Call, Advance, Raise, testFrame, callFrame, startVars, control, Outside
<1>6. CASE Pass \/ Reraise \/ SetMacros \/ SendStart \/ SeesStart \/ PollsStart
  BY <1>6 DEF Pass, Reraise, SetMacros, SendStart, SeesStart, PollsStart, Doing, Go,
              Advance, Raise, testFrame, callFrame, awaitFrame, Outside
<1>7. CASE Reconnect \/ Resend \/ ReconnectRaises \/ StartRaises \/ SeesPv \/ ReadAnswer
  BY <1>7 DEF Reconnect, Resend, ReconnectRaises, StartRaises, SeesPv, ReadAnswer, Doing, Go,
              Advance, Raise, testFrame, callFrame, awaitFrame, Outside
<1>8. CASE Processes
  BY <1>8 DEF Processes, ReadMacros, Serve, Prompt, Exit, Die, procVars,
              Restarts, Quits, Saves, Toggles, Revives, Noise, serverFrame, Background
<1>9. CASE Done \/ UNCHANGED vars
  BY <1>9 DEF Done, vars, startVars, procVars, Background
<1> QED BY <1>1, <1>2, <1>3, <1>4, <1>5, <1>6, <1>7, <1>8, <1>9 DEF Next, Program, Test, Calls

(* What a process does meanwhile: it goes on, ends, or procServ restarts it. *)
LEMMA ProcessSteps ==
  ASSUME IocTypes, Processes \/ UNCHANGED startVars, NEW l \in Launch
  PROVE  /\ \/ process'[l] = process[l] /\ booted'[l] = booted[l]
            \/ /\ process'[l] = "gone" /\ booted'[l] = booted[l]
               /\ process[l] \in Alive \/ (l \in ProcServs /\ Runs(l))
            \/ process'[l] = "booting" /\ booted'[l] = booted[l] /\ l \in ProcServs /\ Runs(l)
            \/ process[l] = "booting" /\ process'[l] = "configured" /\ booted'[l] = file
            \/ process[l] = "configured" /\ process'[l] = "serving" /\ booted'[l] = booted[l]
            \/ process[l] = "serving" /\ process'[l] = "up" /\ booted'[l] = booted[l] /\ Prompt(l)
         /\ l \notin ProcServs /\ l \in inited => l \in inited'
<1> USE DEF IocTypes
<1>1. CASE UNCHANGED startVars
  BY <1>1 DEF startVars, iocs
<1>2. ASSUME NEW k \in Launch, ReadMacros(k) \/ Serve(k) \/ Prompt(k) \/ Exit(k) \/ Die(k)
      PROVE  /\ k # l => process'[l] = process[l] /\ booted'[l] = booted[l]
             /\ ~ReadMacros(k) => booted' = booted
             /\ inited' = inited
  BY <1>2 DEF ReadMacros, Serve, Prompt, Exit, Die, Becomes
<1>3. ASSUME ReadMacros(l) \/ Serve(l) \/ Prompt(l) \/ Exit(l) \/ Die(l)
      PROVE  \/ process'[l] = process[l] /\ booted'[l] = booted[l]
             \/ process'[l] = "gone" /\ booted'[l] = booted[l] /\ process[l] \in Alive
             \/ process[l] = "booting" /\ process'[l] = "configured" /\ booted'[l] = file
             \/ process[l] = "configured" /\ process'[l] = "serving" /\ booted'[l] = booted[l]
             \/ process[l] = "serving" /\ process'[l] = "up" /\ booted'[l] = booted[l] /\ Prompt(l)
  BY <1>3 DEF ReadMacros, Serve, Prompt, Exit, Die, Becomes, Alive
<1>4. ASSUME NEW k \in ProcServs,
             Restarts(k) \/ Quits(k) \/ Saves(k) \/ Toggles(k) \/ Revives(k) \/ Noise(k)
      PROVE  /\ booted' = booted /\ Runs(k)
             /\ k # l => process'[l] = process[l] /\ (l \in inited => l \in inited')
             /\ process'[k] \in {process[k], "gone", "booting"}
  BY <1>4 DEF Restarts, Quits, Saves, Toggles, Revives, Noise, Boots, Becomes, Does, serverFrame, ProcServs
<1>5. ASSUME NEW k \in Launch, ReadMacros(k) \/ Serve(k) \/ Prompt(k) \/ Exit(k) \/ Die(k) PROVE
         /\ \/ process'[l] = process[l] /\ booted'[l] = booted[l]
            \/ k = l
         /\ inited' = inited
  BY <1>2, <1>5
<1>6. CASE \E k \in Launch : ReadMacros(k) \/ Serve(k) \/ Prompt(k) \/ Exit(k) \/ Die(k)
  BY <1>3, <1>5, <1>6
<1>7. CASE \E k \in ProcServs :
             Restarts(k) \/ Quits(k) \/ Saves(k) \/ Toggles(k) \/ Revives(k) \/ Noise(k)
  BY <1>4, <1>7
<1> QED BY <1>1, <1>6, <1>7 DEF Processes

(* Meanwhile a log only gains texts; a prompt printed in one piece is one.   *)
LEMMA PrintedTexts ==
  ASSUME IocTypes, Processes \/ UNCHANGED startVars, NEW n \in Name
  PROVE  /\ LF!HasText(log[n]) => LF!HasText(log'[n])
         /\ \A l \in Launch \ Halting :
              NameOf[l] = n /\ Prompt(l) => LF!HasText(log'[n])
<1> USE LaunchesAssumption DEF IocTypes
<1>1. \A lg \in LF!Log, w \in {"earlier", "now"} :
        /\ LF!HasText(LF!Printed(lg, w))
        /\ LF!HasText(lg) => LF!HasText(LF!PrintedFirst(lg)) /\ LF!HasText(LF!PrintedRest(lg, w))
  BY DEF LF!HasText, LF!Printed, LF!PrintedFirst, LF!PrintedRest, LF!Log
<1>2. \A l : Age(l) \in {"earlier", "now"}
  BY DEF Age
<1>3. ASSUME NEW l \in Launch, Prompt(l)
      PROVE  /\ LF!HasText(log[n]) => LF!HasText(log'[n])
             /\ NameOf[l] = n /\ l \notin Halting => LF!HasText(log'[n])
  <2>1. PICK m \in Name : m = NameOf[l]
    OBVIOUS
  <2>2. log[m] \in LF!Log /\ Age(l) \in {"earlier", "now"}
    BY <1>2
  <2>3. PICK new \in LF!Log : /\ SetLog(m, new)
                              /\ LF!HasText(log[m]) \/ l \notin Halting => LF!HasText(new)
    BY <1>1, <1>3, <2>1, <2>2, LogTypes DEF Prompt
  <2>4. log'[m] = new /\ \A k \in Name : k # m => log'[k] = log[k]
    BY <2>3, SetLogType
  <2> QED BY <2>1, <2>3, <2>4
<1>4. ASSUME NEW l \in ProcServs, Saves(l)
      PROVE  LF!HasText(log[n]) => LF!HasText(log'[n])
  <2>1. PICK m \in Name : m = NameOf[l]
    BY DEF ProcServs
  <2>2. log[m] \in LF!Log /\ Age(l) \in {"earlier", "now"}
    BY <1>2
  <2>3. CASE UNCHANGED log
    BY <2>3
  <2>4. CASE SetLog(m, LF!Printed(log[m], Age(l)))
    <3>1. log'[m] = LF!Printed(log[m], Age(l)) /\ \A k \in Name : k # m => log'[k] = log[k]
      BY <2>2, <2>4, LogTypes, SetLogType
    <3> QED BY <1>1, <2>2, <3>1
  <2> QED BY <1>4, <2>1, <2>3, <2>4 DEF Saves
<1>5. ASSUME NEW l \in Launch, ReadMacros(l) \/ Serve(l) \/ Exit(l) \/ Die(l) PROVE UNCHANGED log
  BY <1>5 DEF ReadMacros, Serve, Exit, Die, files
<1>6. ASSUME NEW l \in ProcServs, Restarts(l) \/ Quits(l) \/ Toggles(l) \/ Revives(l) \/ Noise(l)
      PROVE  UNCHANGED log
  BY <1>6 DEF Restarts, Quits, Toggles, Revives, Noise
<1>7. LF!HasText(log[n]) => LF!HasText(log'[n])
  <2>1. CASE UNCHANGED startVars
    BY <2>1 DEF startVars, files
  <2>2. CASE Processes
    BY <1>3, <1>4, <1>5, <1>6, <2>2 DEF Processes
  <2> QED BY <2>1, <2>2
<1> QED BY <1>3, <1>7

Booted == Alive \ {"booting"}

(* A launch that is still to come, or has written its file only.            *)
Unborn(l) == l > cur \/ (l = cur /\ pc \in {"check", "spawn"})

(* Nothing runs of an unborn launch; from then on the IOC being opened is    *)
(* alone in reading the file, which is its own; and a prompt that it has     *)
(* printed is not overlooked while the console is polled.                   *)
NotBegun ==
  \A l \in Launch : Unborn(l) => process[l] = "none" /\ l \notin pids
OwnFile ==
  /\ pc \in OpenPc \ {"check"} => file = MacrosOf(cur)
  /\ pc \in OpenPc /\ process[cur] \in Booted => booted[cur] = MacrosOf(cur)
TextLeft ==
  pc = "console" /\ process[cur] = "up" /\ cur \notin Halting => LF!HasText(log[NameOf[cur]])
OpenInv == NotBegun /\ OwnFile /\ TextLeft

(* Nothing is begun at first.                                               *)
LEMMA OpenInvInit == Init => OpenInv
BY DEF Init, StartInit, OpenInv, NotBegun, OwnFile, TextLeft, OpenPc

(* Opening a launch.                                                        *)
LEMMA OpenInvOpens ==
  ASSUME ControlInv, IocTypes, ServerInv, OpenInv, OpenStep
  PROVE  OpenInv'
<1> USE LaunchesAssumption DEF iocs, files, history, record, servers, procVars,
                               OpenInv, NotBegun, OwnFile, TextLeft, Unborn, OpenPc
<1>1. pc \in OpenPc => cur \in Launch /\ NameOf[cur] \in Name
  BY OpenedFacts
<1>2. cur \in Nat /\ \A l \in Launch : l \in Nat
  BY OpenedFacts DEF Launch
<1>3. CASE BeginOpen /\ UNCHANGED procVars
  <2>1. cur' \in Launch /\ cur' > cur /\ cur' = cur + 1
    BY <1>2, <1>3 DEF BeginOpen, Launch
  <2>2. process[cur'] = "none" /\ process' = process /\ pids' = pids /\ pc' = "check"
    BY <1>3, <2>1 DEF BeginOpen
  <2>3. \A l \in Launch : l > cur' \/ l = cur' => l > cur
    <3> SUFFICES ASSUME NEW l \in Launch PROVE l > cur' \/ l = cur' => l > cur
      OBVIOUS
    <3>1. l \in Nat /\ cur \in Nat /\ cur' = cur + 1
      BY <1>2, <2>1
    <3> QED BY ONLY <3>1
  <2>4. NotBegun'
    <3> SUFFICES ASSUME NEW l \in Launch, Unborn(l)'
                 PROVE  process'[l] = "none" /\ l \notin pids'
      BY Zenon DEF NotBegun
    <3>1. l > cur
      BY <2>3
    <3>2. process[l] = "none" /\ l \notin pids
      BY <3>1
    <3> QED BY <2>2, <3>2
  <2>5. OwnFile'
    BY <2>2 DEF Booted, Alive
  <2> QED BY <2>2, <2>4, <2>5
<1>4. CASE PrepareFiles /\ UNCHANGED procVars
  <2>1. NotBegun'
    BY <1>4 DEF PrepareFiles
  <2>2. OwnFile'
    BY <1>1, <1>4 DEF PrepareFiles, Booted, Alive, MacrosOf
  <2> QED BY <1>4, <2>1, <2>2 DEF PrepareFiles
<1>5. CASE SpawnServer
  <2>1. /\ pc = "spawn" /\ pc' = "console" /\ cur' = cur /\ file' = file /\ cur \in Launch
        /\ process' = [process EXCEPT ![cur] = "booting"]
        /\ pids' \subseteq pids \cup {cur}
    BY <1>1, <1>5 DEF SpawnServer, Spawn
  <2>2. process'[cur] = "booting" /\ \A l \in Launch : l # cur => process'[l] = process[l]
    BY <2>1 DEF IocTypes
  <2>3. NotBegun'
    BY <1>2, <2>1, <2>2
  <2>4. OwnFile'
    BY <2>1, <2>2 DEF Booted, MacrosOf
  <2> QED BY <2>2, <2>1, <2>3, <2>4
<1>6. CASE PollsConsole /\ UNCHANGED procVars
  <2>1. ~LF!HasText(log[NameOf[cur]])
    BY <1>6 DEF PollsConsole, ConsoleMiss
  <2> QED BY <1>6, <2>1 DEF PollsConsole, ConsoleMiss, MacrosOf
<1>7. CASE (SpawnRaises \/ SeesConsole \/ ConsoleTimesOut \/ SetInits \/ InitsRaise) /\ UNCHANGED procVars
  BY <1>7 DEF SpawnRaises, SeesConsole, ConsoleHit, ConsoleTimesOut, SetInits, InitsRaise, MacrosOf
<1>8. CASE (RefuseOpen \/ EndOpen \/ OpenRaises) /\ UNCHANGED procVars
  BY <1>8 DEF RefuseOpen, EndOpen, OpenRaises, Fails, MacrosOf
<1>9. CASE Connect \/ ConnectRaises
  BY <1>9 DEF Connect, ConnectRaises, Fails
<1> QED BY <1>3, <1>4, <1>5, <1>6, <1>7, <1>8, <1>9 DEF OpenStep, Open

(* Meanwhile and otherwise.                                                 *)
LEMMA OpenInvElse ==
  ASSUME ControlInv, IocTypes, ServerInv, OpenInv,
         Outside \/ (Background /\ (Processes \/ UNCHANGED startVars))
  PROVE  OpenInv'
<1> USE LaunchesAssumption DEF OpenInv, NotBegun, OwnFile, TextLeft, Unborn, OpenPc
<1>1. pc \in OpenPc => cur \in Launch /\ NameOf[cur] \in Name
  BY OpenedFacts
<1>2. CASE Outside
  <2>1. stack # <<>> => Top \in Launch /\ Top <= cur
    BY FrontFacts DEF ControlInv, InOrder, Top
  <2>2. \A l \in Launch : l > cur' => process'[l] = process[l]
    <3>1. CASE UNCHANGED process
      BY <3>1
    <3>2. CASE stack # <<>> /\ process' = [process EXCEPT ![Top] = "gone"]
      <4>1. \A l \in Launch : l > cur => l # Top
        BY <2>1, <3>2, OpenedFacts DEF Launch
      <4> QED BY <1>2, <3>2, <4>1 DEF IocTypes, Outside
    <3> QED BY <1>2, <3>1, <3>2 DEF Outside
  <2>3. NotBegun'
    BY <1>2, <2>2 DEF Outside
  <2> QED BY <1>2, <2>3 DEF Outside
<1>3. CASE Background /\ (Processes \/ UNCHANGED startVars)
  <2>1. UNCHANGED <<pc, cur, pids, file>>
    BY <1>3 DEF Background, control
  <2>2. NotBegun'
    <3> SUFFICES ASSUME NEW l \in Launch, Unborn(l)
                 PROVE  process'[l] = "none" /\ l \notin pids'
      BY <2>1
    <3>1. process[l] = "none" /\ ~Runs(l)
      BY DEF Runs
    <3> QED BY <1>3, <2>1, <3>1, ProcessSteps DEF Alive
  <2>3. OwnFile'
    <3>1. pc \in OpenPc /\ process[cur] = "booting" => file = MacrosOf(cur)
      BY <1>1
    <3>2. pc \in OpenPc /\ process'[cur] \in Booted => booted'[cur] = MacrosOf(cur)
      BY <1>1, <1>3, <3>1, ProcessSteps DEF Booted, Alive
    <3> QED BY <2>1, <3>2 DEF MacrosOf
  <2>4. TextLeft'
    <3> SUFFICES ASSUME pc = "console", process'[cur] = "up", cur \notin Halting
                 PROVE  LF!HasText(log'[NameOf[cur]])
      BY <2>1
    <3>1. cur \in Launch /\ NameOf[cur] \in Name
      BY <1>1
    <3>2. process[cur] = "up" \/ Prompt(cur)
      BY <1>3, <3>1, ProcessSteps
    <3> QED BY <1>3, <3>1, <3>2, PrintedTexts
  <2> QED BY <2>2, <2>3, <2>4
<1> QED BY <1>2, <1>3

(* Every step.                                                              *)
LEMMA OpenInvStep == ControlInv /\ IocTypes /\ ServerInv /\ OpenInv /\ [Next]_vars => OpenInv'
BY IocSteps, OpenInvOpens, OpenInvElse

(* wait_for_console overlooks nothing: whenever its last poll has failed and *)
(* the IOC has got to its prompt, there is a text for a reader that comes   *)
(* too late.                                                                *)
THEOREM NoTextOverlooked == Spec => []TextNotOverlooked
<1>1. OpenInv => TextNotOverlooked
  BY DEF OpenInv, TextLeft, TextNotOverlooked
<1> QED
  BY <1>1, ControlInit, ControlStep, TodoInit, TodoStep, ServerInit, ServerStep, IocTypesInit, IocTypesStep,
     OpenInvInit, OpenInvStep, PTL DEF Spec

---------------------------------------------------------------------------
(* The IOC of a launch that is open.                                        *)

(* Launches of one name are in different modules: the devices of a module    *)
(* have names of their own.                                                 *)
DistinctNames ==
  \A k, l \in Launch : k < l /\ NameOf[k] = NameOf[l] => \E m \in LastOf : k <= m /\ m < l

(* What is open is in the module being opened.                              *)
InModule == \A k \in Opened : \A m \in LastOf : k <= m => cur <= m

(* Unless the launch was crowded from the start, no other IOC of its name    *)
(* runs once its own is spawned: what the console, the PV and the initial    *)
(* values are about is the IOC itself.  So it has read its own file, and     *)
(* been given its values, before it is open.                                *)
Started == pc \in {"console", "inits"} \/ (pc = "exists" /\ ~raising)
Alone ==
  Started /\ cur \notin crowded =>
    \A l \in Launch : NameOf[l] = NameOf[cur] /\ l # cur =>
      process[l] \notin Alive /\ l \notin failed \cup spared
ReadByOpen ==
  \A l \in Opened \cap Watched :
    Class[l] # "procserv" /\ l \notin crowded =>
      process[l] # "booting" /\ (process[l] \in Alive => booted[l] = MacrosOf(l))
SetByOpen ==
  /\ pc = "exists" /\ ~raising /\ cur \in Inits /\ Class[cur] # "procserv" /\ cur \notin crowded =>
       cur \in inited
  /\ \A l \in Opened \cap Inits : Class[l] # "procserv" /\ l \notin crowded => l \in inited
AliveInv == InModule /\ Alone /\ ReadByOpen /\ SetByOpen

(* Nothing is open at first.                                                *)
LEMMA AliveInvInit == Init => AliveInv
BY DEF Init, StartInit, AliveInv, InModule, Alone, ReadByOpen, SetByOpen, Started, Opened

(* Who comes to be open.                                                    *)
LEMMA OpenedBy ==
  ASSUME ControlInv, [Next]_vars
  PROVE  /\ \A k \in Opened' : k \in Opened \/ (k = cur /\ ComesUp)
         /\ pc \notin OpenPc => \A k \in Opened' : k \in Opened
<1>1. CASE ComesUp
  BY <1>1, OpenedFacts, PushedFacts DEF ComesUp, Opened, ControlInv, OpenPc
<1>2. CASE Closes
  BY <1>2, ClosedOpened
<1>3. CASE Begins \/ Registers \/ Abandons \/ Stays
  BY <1>3 DEF Begins, Registers, Abandons, Stays, Launches, Opened
<1> QED BY <1>1, <1>2, <1>3, StepKinds

(* The next module begins when all is closed.                               *)
LEMMA InModuleStep == ControlInv /\ InModule /\ [Next]_vars => InModule'
<1> SUFFICES ASSUME ControlInv, InModule, [Next]_vars PROVE InModule'
  OBVIOUS
<1>1. cur \in Nat /\ \A m \in LastOf : m \in Nat
  BY OpenedFacts, LaunchesAssumption DEF Launch
<1>2. CASE Begins
  <2> SUFFICES ASSUME NEW k \in Opened, NEW m \in LastOf, k <= m PROVE cur + 1 <= m
    BY <1>2 DEF Begins, InModule, Opened
  <2>1. cur <= m /\ cur # m
    BY <1>2 DEF Begins, InModule, ModuleOpen, Opened
  <2> QED BY <1>1, <2>1
<1>3. CASE Registers \/ ComesUp \/ Abandons \/ Closes \/ Stays
  <2>1. cur' = cur
    BY <1>3 DEF Registers, ComesUp, Abandons, Closes, Closed, Stays, Launches
  <2> QED BY <2>1, OpenedBy DEF InModule
<1> QED BY <1>2, <1>3, StepKinds

(* While a launch is opened alone, no procServ of its name runs.            *)
LEMMA NoRival ==
  ASSUME DistinctNames, ControlInv, ServerInv, OpenInv, InModule, Alone, Started, cur \notin crowded,
         NEW l \in ProcServs, NameOf[l] = NameOf[cur], l # cur
  PROVE  l \notin pids
<1>1. l \in Launch /\ l \in Nat /\ cur \in Launch /\ cur \in Nat
  BY OpenedFacts DEF ProcServs, Launch, Started, OpenPc
<1>2. CASE l > cur
  BY <1>1, <1>2 DEF OpenInv, NotBegun, Unborn
<1>3. CASE l < cur
  <2>1. PICK m \in LastOf : l <= m /\ m < cur
    BY <1>1, <1>3 DEF DistinctNames
  <2>2. m \in Nat
    BY LaunchesAssumption DEF Launch
  <2>3. l \notin Opened
    BY <1>1, <2>1, <2>2 DEF InModule
  <2>4. l \notin failed \cup spared
    BY <1>1 DEF Alone
  <2>5. StateOf(l) = "closed"
    BY <1>1, <1>3, <2>3, <2>4, StateIs
  <2> QED BY <2>4, <2>5 DEF ServerInv
<1> QED BY <1>1, <1>2, <1>3

(* Another IOC of the name would have been seen when this one was spawned.  *)
LEMMA AloneStep ==
  ASSUME DistinctNames, ControlInv, IocTypes, ServerInv, OpenInv, AliveInv, [Next]_vars
  PROVE  Alone'
<1> USE DEF iocs, files, history, record, AliveInv, Alone, Started
<1>1. CASE SpawnServer
  <2>1. /\ cur' = cur /\ failed' = failed /\ spared' = spared
        /\ \A l \in Launch : l # cur => process'[l] = process[l]
        /\ (\E l \in Launch : NameOf[l] = NameOf[cur] /\ (process[l] \in Alive \/ l \in failed \cup spared))
             => cur \in crowded'
    BY <1>1 DEF SpawnServer, Spawn, IocTypes
  <2> QED BY <2>1
<1>2. CASE SeesConsole \/ PollsConsole \/ SetInits
  BY <1>2 DEF SeesConsole, PollsConsole, SetInits
<1>3. CASE ConsoleTimesOut \/ InitsRaise \/ SpawnRaises
  BY <1>3 DEF ConsoleTimesOut, InitsRaise, SpawnRaises
<1>4. CASE BeginOpen \/ RefuseOpen \/ PrepareFiles \/ EndOpen \/ OpenRaises \/ Connect \/ ConnectRaises
  BY <1>4 DEF BeginOpen, RefuseOpen, PrepareFiles, EndOpen, OpenRaises, Connect, ConnectRaises, Fails
<1>5. CASE Outside
  BY <1>5 DEF Outside, OpenPc
<1>6. CASE Background /\ (Processes \/ UNCHANGED startVars)
  <2> SUFFICES ASSUME Started, cur \notin crowded, NEW l \in Launch, NameOf[l] = NameOf[cur], l # cur
               PROVE  process'[l] \notin Alive /\ l \notin failed \cup spared
    BY <1>6 DEF Background, control
  <2>1. process[l] \notin Alive /\ l \notin failed \cup spared
    OBVIOUS
  <2>2. l \in ProcServs => ~Runs(l)
    BY NoRival DEF Runs
  <2> QED BY <1>6, <2>1, <2>2, ProcessSteps DEF Alive
<1> QED BY <1>1, <1>2, <1>3, <1>4, <1>5, <1>6, IocSteps DEF OpenStep, Open

(* What an open leaves of the launches that are open already.               *)
LEMMA OpenSpares ==
  ASSUME ControlInv, IocTypes, OpenStep
  PROVE  /\ \A l \in Launch : l # cur \/ pc # "spawn" => process'[l] = process[l]
         /\ booted' = booted /\ inited \subseteq inited' /\ crowded \subseteq crowded'
<1> USE DEF iocs, files, history, record
<1>1. CASE SpawnServer
  BY <1>1 DEF SpawnServer, Spawn, IocTypes
<1>2. CASE Open
  BY <1>2 DEF Open, BeginOpen, RefuseOpen, PrepareFiles, SpawnRaises, SeesConsole, PollsConsole,
              ConsoleTimesOut, SetInits, InitsRaise, EndOpen, OpenRaises
<1>3. CASE Connect \/ ConnectRaises
  BY <1>3 DEF Connect, ConnectRaises
<1> QED BY <1>1, <1>2, <1>3 DEF OpenStep

(* The launch that comes up, other than by procServ, has its IOC serving if  *)
(* it has a PV to tell.                                                     *)
LEMMA ComesUpServing ==
  ASSUME DistinctNames, ControlInv, OpenInv, AliveInv, [Next]_vars, ComesUp,
         Class[cur] # "procserv", cur \notin crowded
  PROVE  /\ EndOpen /\ cur \in Launch
         /\ cur \in Watched => process[cur] \in Serving /\ booted[cur] = MacrosOf(cur)
         /\ cur \in Inits => cur \in inited
<1>1. EndOpen /\ pc = "exists"
  <2>1. pc = "exists" /\ stack' # stack
    BY PushedFacts DEF ComesUp, ControlInv, AtWork, OpenPc
  <2>2. CASE Test \/ Calls \/ Processes \/ Done \/ UNCHANGED vars
    BY <2>1, <2>2, OtherSteps, Zenon DEF Processes, Stays, Launches
  <2>3. CASE Close \/ CloseTelnet \/ FindsNone \/ FindProcesses \/ KillServer \/ KillRaises
    BY <2>1, <2>3 DEF Close, BeginUnwind, EndUnwind, TellToExit, CloseRaises, SeenGone, StillThere, KillIoc,
                      KillPython, CloseTelnet, FindsNone, FindProcesses, KillServer, KillRaises
  <2>4. CASE Open
    BY <2>1, <2>4 DEF Open, BeginOpen, RefuseOpen, PrepareFiles, SpawnRaises, SeesConsole, PollsConsole,
                      ConsoleTimesOut, SetInits, InitsRaise, OpenRaises
  <2>5. CASE SpawnServer \/ Connect \/ ConnectRaises
    BY <2>1, <2>5 DEF SpawnServer, Spawn, Connect, ConnectRaises
  <2> QED BY <2>1, <2>2, <2>3, <2>4, <2>5 DEF Next, Program
<1>2. cur \in Launch /\ ~raising /\ Exists(cur) /\ Started
  BY <1>1, OpenedFacts DEF EndOpen, OpenPc, Started
<1>3. cur \in Watched => process[cur] \in Serving
  <2> SUFFICES ASSUME cur \in Watched PROVE process[cur] \in Serving
    OBVIOUS
  <2>1. PICK s \in Launch : NameOf[s] = NameOf[cur] /\ process[s] \in Serving
    BY <1>2 DEF Exists, PvFound, ServersOf
  <2>2. s = cur
    BY <1>2, <2>1 DEF AliveInv, Alone, Serving, Alive
  <2> QED BY <2>1, <2>2
<1>4. process[cur] \in Serving => booted[cur] = MacrosOf(cur)
  BY <1>1 DEF OpenInv, OwnFile, OpenPc, Serving, Booted, Alive
<1> QED BY <1>1, <1>2, <1>3, <1>4 DEF AliveInv, SetByOpen

(* An IOC comes to be open with its own macros, and keeps them.             *)
LEMMA ReadByOpenStep ==
  ASSUME DistinctNames, ControlInv, IocTypes, OpenInv, AliveInv, [Next]_vars
  PROVE  ReadByOpen'
<1> SUFFICES ASSUME NEW l \in Opened', l \in Watched, Class[l] # "procserv", l \notin crowded'
             PROVE  /\ process'[l] # "booting"
                    /\ process'[l] \in Alive => booted'[l] = MacrosOf(l)
  BY DEF ReadByOpen, MacrosOf
<1>1. crowded \subseteq crowded' /\ l \in Launch
  BY IocSteps, OpenSpares, LaunchesAssumption DEF Outside, Background
<1>2. CASE l \in Opened
  <2>1. /\ process[l] # "booting" /\ (process[l] \in Alive => booted[l] = MacrosOf(l))
        /\ l \notin ProcServs
    BY <1>1, <1>2 DEF AliveInv, ReadByOpen, ProcServs
  <2>2. CASE OpenStep
    <3>1. l # cur \/ pc # "spawn"
      BY <1>2, OpenedFacts DEF OpenPc
    <3> QED BY <1>1, <2>1, <2>2, <3>1, OpenSpares
  <2>3. CASE Outside
    <3>1. booted' = booted /\ (process'[l] = process[l] \/ process'[l] = "gone")
      BY <1>1, <2>3 DEF Outside, IocTypes
    <3> QED BY <2>1, <3>1 DEF Alive
  <2>4. CASE Background /\ (Processes \/ UNCHANGED startVars)
    BY <1>1, <2>1, <2>4, ProcessSteps DEF Alive
  <2> QED BY <2>2, <2>3, <2>4, IocSteps
<1>3. CASE l \notin Opened
  <2>1. l = cur /\ ComesUp
    BY <1>3, OpenedBy
  <2>2. EndOpen /\ process[cur] \in Serving /\ booted[cur] = MacrosOf(cur)
    BY <1>1, <2>1, ComesUpServing
  <2> QED BY <2>1, <2>2 DEF EndOpen, iocs, Serving
<1> QED BY <1>2, <1>3

(* The initial values reach the IOC being opened, and stay.                 *)
LEMMA SetByOpenStep ==
  ASSUME DistinctNames, ControlInv, IocTypes, OpenInv, AliveInv, [Next]_vars
  PROVE  SetByOpen'
<1>0. crowded \subseteq crowded'
  BY IocSteps, OpenSpares DEF Outside, Background
<1>1. ASSUME NEW l \in Launch, l \in inited, Class[l] # "procserv" PROVE l \in inited'
  <2>1. l \notin ProcServs
    BY <1>1 DEF ProcServs
  <2> QED BY <1>1, <2>1, IocSteps, OpenSpares, ProcessSteps DEF Outside
<1>2. ASSUME NEW l \in Opened', l \in Inits, Class[l] # "procserv", l \notin crowded'
      PROVE  l \in inited'
  <2>1. l \in Launch /\ l \notin crowded
    BY <1>0, <1>2, LaunchesAssumption
  <2>2. CASE l \in Opened
    BY <1>1, <1>2, <2>1, <2>2 DEF AliveInv, SetByOpen
  <2>3. CASE l \notin Opened
    <3>1. l = cur /\ ComesUp
      BY <2>3, OpenedBy
    <3> QED BY <1>1, <1>2, <2>1, <3>1, ComesUpServing
  <2> QED BY <2>2, <2>3
<1>3. ASSUME pc' = "exists", ~raising', cur' \in Inits, Class[cur'] # "procserv", cur' \notin crowded'
      PROVE  cur' \in inited'
  <2>1. CASE SetInits
    <3>1. cur' = cur /\ Started /\ cur \in Launch /\ cur \notin crowded
      BY <1>0, <1>3, <2>1, OpenedFacts DEF SetInits, Started, OpenPc
    <3>2. PICK s \in ServersOf(NameOf[cur]) : inited' = inited \cup {s}
      BY <2>1 DEF SetInits
    <3>3. s = cur
      BY <3>1, <3>2 DEF ServersOf, AliveInv, Alone, Serving, Alive
    <3> QED BY <3>1, <3>2, <3>3
  <2>2. CASE OpenStep /\ ~SetInits
    BY <1>3, <2>2 DEF OpenStep, Open, BeginOpen, RefuseOpen, PrepareFiles, SpawnRaises, SeesConsole,
                      PollsConsole, ConsoleTimesOut, InitsRaise, EndOpen, OpenRaises, Fails,
                      SpawnServer, Spawn, Connect, ConnectRaises
  <2>3. CASE Outside
    BY <1>3, <2>3 DEF Outside, OpenPc
  <2>4. CASE Background /\ (Processes \/ UNCHANGED startVars)
    <3>1. pc = "exists" /\ ~raising /\ cur' = cur /\ cur \notin crowded
      BY <1>3, <2>4 DEF Background, control
    <3>2. cur \in Launch /\ cur \in inited
      BY <1>3, <3>1, LaunchesAssumption DEF AliveInv, SetByOpen
    <3> QED BY <1>1, <1>3, <3>1, <3>2
  <2> QED BY <2>1, <2>2, <2>3, <2>4, IocSteps
<1> QED BY <1>2, <1>3 DEF SetByOpen

(* Every step.                                                              *)
LEMMA AliveInvStep ==
  DistinctNames /\ ControlInv /\ IocTypes /\ ServerInv /\ OpenInv /\ AliveInv /\ [Next]_vars => AliveInv'
BY InModuleStep, AloneStep, ReadByOpenStep, SetByOpenStep DEF AliveInv

(* When the devices of each module have names of their own, an IOC that is   *)
(* open, and was not begun beside another of its name, runs with the macros  *)
(* of its own launch, although all launches write the same file.            *)
THEOREM OwnMacrosAreRead == ASSUME DistinctNames PROVE Spec => []OwnMacros
<1>1. AliveInv => OwnMacros
  BY DEF AliveInv, ReadByOpen, OwnMacros
<1>2. ControlInv /\ IocTypes /\ ServerInv /\ OpenInv /\ AliveInv /\ [Next]_vars => AliveInv'
  BY AliveInvStep
<1>3. Init => AliveInv
  BY AliveInvInit
<1> QED
  BY <1>1, <1>2, <1>3, ControlInit, ControlStep, TodoInit, TodoStep, ServerInit, ServerStep, IocTypesInit, IocTypesStep,
     OpenInvInit, OpenInvStep, PTL DEF Spec

(* Such an IOC has been given its initial values: whoever served its PV when *)
(* they were written was the IOC itself.                                    *)
THEOREM InitsHaveReachedIoc == ASSUME DistinctNames PROVE Spec => []InitsReachIoc
<1>1. AliveInv => InitsReachIoc
  BY DEF AliveInv, SetByOpen, InitsReachIoc
<1>2. ControlInv /\ IocTypes /\ ServerInv /\ OpenInv /\ AliveInv /\ [Next]_vars => AliveInv'
  BY AliveInvStep
<1>3. Init => AliveInv
  BY AliveInvInit
<1> QED
  BY <1>1, <1>2, <1>3, ControlInit, ControlStep, TodoInit, TodoStep, ServerInit, ServerStep, IocTypesInit, IocTypesStep,
     OpenInvInit, OpenInvStep, PTL DEF Spec

---------------------------------------------------------------------------
(* What is on its way to procServ, and back.                                *)

(* Commands are on their way to the IOC a test uses, to one that is still    *)
(* open after it, and to one that was closed before procServ got to them.   *)
SentInv ==
  \A l \in ProcServs : sent[l] # <<>> =>
    \/ pc \in TestPc /\ l = Target
    \/ pc \in ClosePc /\ l \in Opened
    \/ StateOf(l) = "closed"

(* Steps that send, that procServ takes, and that do nothing of the kind.    *)
Sends(c) == pc \in TestPc \ {"answer"} /\ pc' \in TestPc \ {"answer"} /\ Send(c)
            /\ UNCHANGED <<pids, inbox, auto, autorestart, astray>>
Takes(l) == Restarts(l) \/ Quits(l) \/ Saves(l) \/ Toggles(l) \/ Revives(l) \/ Noise(l)
Silent ==
  /\ UNCHANGED <<pids, sent, inbox, auto, autorestart, astray>>
  /\ (pc = "answer" <=> pc' = "answer")
Forgets == FindsNone \/ KillRaises

(* Every step is of one of these kinds.                                     *)
LEMMA TalkSteps ==
  ASSUME [Next]_vars
  PROVE  \/ Toggle \/ ReadAnswer \/ Reconnect \/ SpawnServer \/ KillServer \/ CloseTelnet \/ Forgets \/ Silent
         \/ \E c \in Commands \ {"toggle"} : Sends(c)
         \/ \E l \in ProcServs : Takes(l)
<1> USE DEF servers, TestPc
<1>1. CASE (Open \/ Close) /\ UNCHANGED procVars
  <2>1. pc # "answer" /\ pc' # "answer"
    BY <1>1 DEF Open, BeginOpen, RefuseOpen, PrepareFiles, SpawnRaises, SeesConsole, PollsConsole,
              ConsoleTimesOut, SetInits, InitsRaise, EndOpen, OpenRaises, Fails,
              Close, BeginUnwind, EndUnwind, TellToExit, CloseRaises, SeenGone, StillThere, KillIoc,
              KillPython, Closed
  <2> QED BY <1>1, <2>1 DEF procVars, Silent
<1>2. CASE Connect \/ ConnectRaises \/ FindsNone \/ FindProcesses \/ KillRaises
  BY <1>2 DEF Connect, ConnectRaises, FindProcesses, Fails, procVars, Silent, Forgets
<1>3. CASE BeginTests \/ EndTests \/ CallStartWithMacros \/ CallStart \/ LeaveBody
  BY <1>3 DEF BeginTests, EndTests, CallStartWithMacros, CallStart, LeaveBody, Call, callFrame, Silent,
              Doing, Go, Advance, Raise
<1>4. CASE \/ Pass \/ Reraise \/ SetMacros \/ SeesStart \/ PollsStart
           \/ ReconnectRaises \/ StartRaises \/ SeesPv
  BY <1>4 DEF Pass, Reraise, SetMacros, SeesStart, PollsStart, ReconnectRaises, StartRaises, SeesPv,
              callFrame, awaitFrame, Silent, Doing, Go, Advance, Raise
<1>5. CASE SendStart \/ Resend
  BY <1>5 DEF SendStart, Resend, awaitFrame, Commands, Sends, Doing
<1>6. CASE JustSend
  BY <1>6 DEF JustSend, startVars, control, Commands, Sends, Doing
<1>7. CASE Processes
  <2>1. CASE \E l \in Launch :
               (ReadMacros(l) \/ Serve(l) \/ Prompt(l) \/ Exit(l) \/ Die(l)) /\ UNCHANGED procVars
    BY <2>1 DEF ReadMacros, Serve, Prompt, Exit, Die, control, procVars, Silent
  <2> QED BY <1>7, <2>1, Zenon DEF Processes, Takes
<1>8. CASE Done \/ UNCHANGED vars
  BY <1>8 DEF Done, vars, startVars, control, procVars, Silent
<1> QED
  BY <1>1, <1>2, <1>3, <1>4, <1>5, <1>6, <1>7, <1>8, Zenon DEF Next, Program, Test, Calls

(* Only calls of the test send.                                             *)
LEMMA SentSteps ==
  ASSUME ControlInv, ProcTypes, [Next]_vars, NEW l \in ProcServs
  PROVE  sent'[l] # <<>> => sent[l] # <<>> \/ (pc \in TestPc /\ pc' \in TestPc /\ l = Target)
<1> USE DEF TestPc
<1>0. /\ sent \in [ProcServs -> Seq(Commands)]
      /\ pc \in TestPc => Target \in ProcServs
      /\ Closing("procserv") => Top \in ProcServs
  BY TargetFacts, FrontFacts DEF ProcTypes, Closing, Top, ControlInv, ProcServs
<1>1. \A c : Send(c) => \A k \in ProcServs : k # Target => sent'[k] = sent[k]
  BY <1>0 DEF Send
<1>2. CASE Toggle
  BY <1>1, <1>2 DEF Toggle, Doing
<1>3. CASE ReadAnswer \/ SpawnServer \/ Silent
  BY <1>3 DEF ReadAnswer, SpawnServer, Spawn, Silent, Raise, Go, servers
<1>4. CASE Reconnect
  BY <1>0, <1>4 DEF Reconnect, Raise, Go
<1>5. CASE KillServer \/ Forgets
  BY <1>5 DEF KillServer, Forgets, FindsNone, KillRaises, ClosedServer
<1>6. CASE CloseTelnet
  BY <1>0, <1>6 DEF CloseTelnet
<1>7. ASSUME NEW c \in Commands, Sends(c)
      PROVE  /\ pc \in TestPc /\ pc' \in TestPc
             /\ l # Target => sent'[l] = sent[l]
  BY <1>1, <1>7 DEF Sends
<1>8. ASSUME NEW k \in ProcServs, Takes(k)
      PROVE  sent'[l] # <<>> => sent[l] # <<>>
  <2>1. sent' = sent \/ (sent[k] # <<>> /\ sent' = [sent EXCEPT ![k] = Tail(@)])
    BY <1>8 DEF Takes, Restarts, Quits, Saves, Toggles, Revives, Noise, Does
  <2> QED BY <1>0, <2>1
<1>9. CASE \E c \in Commands \ {"toggle"} : Sends(c)
  BY <1>7, <1>9
<1>10. CASE \E k \in ProcServs : Takes(k)
  BY <1>8, <1>10
<1> QED BY TalkSteps, <1>2, <1>3, <1>4, <1>5, <1>6, <1>9, <1>10

(* A launch that is closed stays so.                                        *)
LEMMA ClosedStays ==
  ASSUME ControlInv, [Next]_vars, NEW l \in Launch, StateOf(l) = "closed"
  PROVE  StateOf(l)' = "closed"
<1>1. /\ ~(l > cur) /\ l \notin failed /\ l \notin Opened /\ ~(l = cur /\ pc \in OpenPc)
      /\ l \in Nat /\ cur \in Nat
  BY StateIs, OpenedFacts DEF Launch
<1>2. l \notin Opened'
  BY <1>1, OpenedBy DEF ComesUp, OpenPc
<1>3. CASE Begins
  <2>1. cur' = cur + 1 /\ failed' = failed
    BY <1>3 DEF Begins
  <2>2. ~(l > cur') /\ l # cur'
    BY <1>1, <2>1
  <2> QED BY <1>1, <1>2, <2>1, <2>2 DEF StateOf
<1>4. CASE Registers \/ ComesUp \/ Abandons \/ Closes \/ Stays
  <2>1. cur' = cur /\ (failed' = failed \/ (failed' = failed \cup {cur} /\ pc \in OpenPc))
    BY <1>4 DEF Registers, ComesUp, Abandons, Fails, Closes, Closed, Stays, Launches
  <2>2. l = cur => pc' \notin OpenPc
    BY <1>1, <1>4 DEF Registers, ComesUp, Abandons, Closes, Closed, Fails, Stays, Moves, TestPc, ClosePc, OpenPc
  <2> QED BY <1>1, <1>2, <2>1, <2>2 DEF StateOf, Opening, OpenPc
<1> QED BY <1>3, <1>4, StepKinds

(* Nothing is on its way at first.                                          *)
LEMMA SentInit == Init => SentInv
BY DEF Init, SentInv

(* Every step.                                                              *)
LEMMA SentStep == ControlInv /\ ProcTypes /\ SentInv /\ [Next]_vars => SentInv'
<1> SUFFICES ASSUME ControlInv, ProcTypes, SentInv, [Next]_vars, NEW l \in ProcServs, sent'[l] # <<>>
             PROVE  \/ pc' \in TestPc /\ l = Target'
                    \/ pc' \in ClosePc /\ l \in Opened'
                    \/ StateOf(l)' = "closed"
  BY DEF SentInv
<1> USE DEF TestPc, ClosePc, OpenPc
<1>0. l \in Launch
  BY DEF ProcServs
<1>1. CASE pc \in TestPc /\ pc' \in TestPc /\ l = Target
  BY <1>1, TargetStays
<1>2. CASE \/ pc \in TestPc /\ l = Target
           \/ pc \in ClosePc /\ l \in Opened
  <2>1. l \in Opened /\ stack # <<>> /\ pc \notin {"idle"} \cup OpenPc
    BY <1>2, TargetFacts DEF Opened, ControlInv
  <2>2. CASE Stays
    <3>1. Opened' = Opened
      BY <2>2 DEF Stays, Launches, Opened
    <3>2. CASE pc \in TestPc /\ pc' \in TestPc
      BY <1>1, <1>2, <3>2
    <3>3. CASE pc' \in ClosePc
      BY <2>1, <3>1, <3>3
    <3> QED BY <1>2, <2>1, <2>2, <3>2, <3>3 DEF Stays, Moves
  <2>3. CASE Closes
    <3>1. pc' = "unwind" /\ cur' = cur /\ failed' = failed
      BY <2>3 DEF Closes, Closed
    <3>2. CASE l # Top
      BY <2>1, <2>3, <3>1, <3>2, ClosedOpened
    <3>3. CASE l = Top
      <4>1. ~(l > cur) /\ l \notin failed /\ l \notin Opened'
        BY <1>0, <2>1, <2>3, <3>3, OpenedFacts, ClosedOpened DEF Launch
      <4> QED BY <3>1, <4>1 DEF StateOf, Opening
    <3> QED BY <3>2, <3>3
  <2> QED BY StepKinds, <2>1, <2>2, <2>3 DEF Begins, Registers, ComesUp, Abandons
<1>3. CASE StateOf(l) = "closed"
  BY <1>0, <1>3, ClosedStays
<1> QED BY SentSteps, <1>1, <1>2, <1>3 DEF SentInv

---------------------------------------------------------------------------
(* Autorestart.                                                             *)

(* A toggle is among the commands; it is, and is the only one.              *)
Asks(s) == \E i \in 1..Len(s) : s[i] = "toggle"
AsksOnce(s) == \E i \in 1..Len(s) : \A j \in 1..Len(s) : s[j] = "toggle" <=> i = j

(* Before a launch is open, procServ restarts its IOC and the launcher       *)
(* believes that.  While it is, they agree, and no toggle is on its way,     *)
(* except while toggle_autorestart waits: either its toggle is on its way,   *)
(* or the answer is there and says what procServ does now.                  *)
Unused == \A l \in ProcServs : StateOf(l) \in {"absent", "starting"} => auto[l] /\ autorestart[l]
Agreed ==
  \A l \in ProcServs \cap Opened : l \notin astray /\ ~(pc = "answer" /\ l = Target) =>
    ~Asks(sent[l]) /\ (l \in pids => autorestart[l] = auto[l])
Asked ==
  pc = "answer" /\ Target \notin astray =>
    \/ inbox[Target] = {} /\ AsksOnce(sent[Target])
    \/ ~Asks(sent[Target]) /\ inbox[Target] = {IF auto[Target] THEN "ON" ELSE "OFF"}
AutoInv == Unused /\ Agreed /\ Asked

(* What sending one more command, or taking the first, makes of these.       *)
LEMMA AsksFacts ==
  ASSUME NEW s \in Seq(Commands)
  PROVE  /\ ~Asks(<<>>)
         /\ \A c \in Commands \ {"toggle"} : ~Asks(s) => ~Asks(Append(s, c))
         /\ ~Asks(s) => AsksOnce(Append(s, "toggle"))
         /\ s # <<>> => /\ ~Asks(s) => Head(s) # "toggle" /\ ~Asks(Tail(s))
                        /\ AsksOnce(s) /\ Head(s) = "toggle" => ~Asks(Tail(s))
                        /\ AsksOnce(s) /\ Head(s) # "toggle" => AsksOnce(Tail(s))
                        /\ Head(s) = "toggle" => Asks(s)
<1>1. ~Asks(<<>>)
  BY DEF Asks
<1>2. ASSUME NEW c \in Commands, ~Asks(s)
      PROVE  /\ c # "toggle" => ~Asks(Append(s, c))
             /\ c = "toggle" => AsksOnce(Append(s, c))
  <2>1. PICK r \in Seq(Commands) : r = Append(s, c)
    BY PushedFacts
  <2>2. /\ Len(s) \in Nat /\ Len(r) = Len(s) + 1 /\ r[Len(s) + 1] = c
        /\ \A i \in 1..Len(s) : r[i] = s[i]
    BY <2>1, PushedFacts
  <2>3. \A i \in 1..Len(r) : r[i] = "toggle" <=> (i = Len(r) /\ c = "toggle")
    <3>1. \A i \in 1..Len(r) : i \in 1..Len(s) \/ i = Len(s) + 1
      BY <2>2
    <3> QED BY <1>2, <2>2, <3>1 DEF Asks
  <2>4. Len(r) \in 1..Len(r)
    BY <2>2
  <2> QED BY <2>1, <2>3, <2>4 DEF Asks, AsksOnce
<1>3. ASSUME s # <<>>
      PROVE  /\ ~Asks(s) => Head(s) # "toggle" /\ ~Asks(Tail(s))
             /\ AsksOnce(s) /\ Head(s) = "toggle" => ~Asks(Tail(s))
             /\ AsksOnce(s) /\ Head(s) # "toggle" => AsksOnce(Tail(s))
             /\ Head(s) = "toggle" => Asks(s)
  <2>1. PICK r \in Seq(Commands) : r = Tail(s)
    BY <1>3, TailFacts
  <2>2. /\ Len(s) \in Nat \ {0} /\ Head(s) = s[1] /\ Len(r) = Len(s) - 1
        /\ \A i \in 1..Len(r) : r[i] = s[i + 1]
    BY <1>3, <2>1, TailFacts
  <2>3. ~Asks(s) => Head(s) # "toggle" /\ ~Asks(r)
    BY <2>2 DEF Asks
  <2>4. AsksOnce(s) /\ Head(s) = "toggle" => ~Asks(r)
    BY <2>2 DEF Asks, AsksOnce
  <2>5. AsksOnce(s) /\ Head(s) # "toggle" => AsksOnce(r)
    <3> SUFFICES ASSUME NEW i \in 1..Len(s), \A j \in 1..Len(s) : s[j] = "toggle" <=> i = j, s[1] # "toggle"
                 PROVE  AsksOnce(r)
      BY <2>2 DEF AsksOnce
    <3>1. i # 1 /\ i - 1 \in 1..Len(r)
      BY <2>2
    <3>2. \A j \in 1..Len(r) : r[j] = "toggle" <=> i - 1 = j
      BY <2>2, <3>1
    <3> QED BY <3>1, <3>2 DEF AsksOnce
  <2>6. Head(s) = "toggle" => Asks(s)
    BY <2>2 DEF Asks
  <2> QED BY <2>1, <2>3, <2>4, <2>5, <2>6
<1> QED BY <1>1, <1>2, <1>3 DEF Commands

(* A launch that is unused now was unused before.                           *)
LEMMA UnusedBefore ==
  ASSUME ControlInv, [Next]_vars, NEW l \in Launch, StateOf(l)' \in {"absent", "starting"}
  PROVE  StateOf(l) \in {"absent", "starting"}
<1>1. CASE Begins
  <2>1. Opened' = Opened /\ failed' = failed /\ cur' = cur + 1 /\ cur \in Nat
    BY <1>1, OpenedFacts DEF Begins, Opened
  <2>2. l \in Int /\ (l > cur' \/ l = cur' => l > cur)
    BY <2>1, LaunchesAssumption DEF Launch
  <2> QED BY <2>1, <2>2, StateIs DEF StateOf
<1>2. CASE Registers \/ Abandons
  BY <1>2 DEF Registers, Abandons, Fails, StateOf, Opening, OpenPc, Opened
<1>3. CASE ComesUp
  BY <1>3 DEF ComesUp, StateOf, Opening
<1>4. CASE Closes
  BY <1>4 DEF Closes, Closed, StateOf, Opening
<1>5. CASE Stays
  <2>1. StateOf(l)' = StateOf(l)
    BY <1>5, SameState DEF Stays, Moves, Launches, Opened, OpenPc, TestPc
  <2> QED BY <1>5, <2>1
<1> QED BY <1>1, <1>2, <1>3, <1>4, <1>5, StepKinds

(* Launchers are right at first.                                            *)
LEMMA AutoInit == Init => AutoInv
<1> SUFFICES ASSUME Init PROVE AutoInv
  OBVIOUS
<1>1. ~Asks(<<>>)
  BY DEF Asks
<1> QED BY <1>1 DEF Init, StartInit, AutoInv, Unused, Agreed, Asked, Opened

(* Nobody speaks to the procServ of a launch that is not open yet.           *)
LEMMA AutoUnused ==
  ASSUME ControlInv, ProcTypes, ServerInv, SentInv, AutoInv, [Next]_vars
  PROVE  Unused'
<1> SUFFICES ASSUME NEW l \in ProcServs, StateOf(l)' \in {"absent", "starting"}
             PROVE  auto'[l] /\ autorestart'[l]
  BY DEF Unused
<1>1. StateOf(l) \in {"absent", "starting"} /\ auto[l] /\ autorestart[l]
  BY UnusedBefore DEF ProcServs, AutoInv, Unused
<1>2. l \notin Opened
  <2>1. l \in Opened => l \in Int /\ cur \in Int /\ ~(l > cur)
    BY OpenedFacts
  <2> QED BY <1>1, <2>1, StateIs
<1>3. sent[l] = <<>> /\ (pc \in TestPc => l # Target)
  BY <1>1, <1>2, TargetFacts DEF SentInv
<1> USE DEF servers, ProcTypes
<1>4. CASE Toggle \/ Reconnect \/ SpawnServer \/ CloseTelnet \/ Silent
  BY <1>1, <1>4 DEF Toggle, Reconnect, SpawnServer, CloseTelnet, Silent
<1>5. CASE ReadAnswer
  BY <1>1, <1>3, <1>5 DEF ReadAnswer, TestPc
<1>6. CASE KillServer \/ Forgets
  <2>1. l # Top
    BY <1>2, <1>6, FrontFacts
       DEF KillServer, Forgets, FindsNone, KillRaises, ControlInv, AtWork, Closing, Opened, Top
  <2> QED BY <1>1, <1>6, <2>1 DEF KillServer, Killed, Forgets, FindsNone, KillRaises, ClosedServer
<1>7. CASE \E c \in Commands \ {"toggle"} : Sends(c)
  BY <1>1, <1>7 DEF Sends
<1>8. ASSUME NEW k \in ProcServs, Takes(k) PROVE auto'[l] = auto[l] /\ autorestart' = autorestart
  <2>1. ~Toggles(l)
    BY <1>3 DEF Toggles, Does
  <2> QED BY <1>8, <2>1 DEF Takes, Restarts, Quits, Saves, Toggles, Revives, Noise, serverFrame
<1>9. CASE \E k \in ProcServs : Takes(k)
  BY <1>1, <1>8, <1>9
<1> QED BY TalkSteps, <1>4, <1>5, <1>6, <1>7, <1>9

(* While toggle_autorestart does not begin or end.                          *)
LEMMA AutoTakes ==
  ASSUME ControlInv, ProcTypes, AutoInv, NEW k \in ProcServs, Takes(k)
  PROVE  Agreed' /\ Asked'
<1> USE DEF ProcTypes
<1>1. /\ pc' = pc /\ pids' = pids /\ autorestart' = autorestart /\ Target' = Target /\ Opened' = Opened
      /\ Runs(k) /\ (pc = "answer" => Target \in ProcServs /\ Target \in Opened)
  BY TargetFacts DEF Takes, Restarts, Quits, Saves, Toggles, Revives, Noise, Does, serverFrame, control,
                     Target, TestPc, Opened
<1>2. PICK s \in Seq(Commands) : s = sent[k]
  OBVIOUS
<1>3. CASE Restarts(k) \/ Quits(k) \/ Saves(k)
  <2>1. PICK r \in Seq(Commands) : r = Tail(s) /\ s # <<>> /\ Head(s) # "toggle"
    BY <1>2, <1>3, TailFacts DEF Restarts, Quits, Saves, Does
  <2>2. sent'[k] = r /\ \A l \in ProcServs : l # k => sent'[l] = sent[l]
    BY <1>2, <1>3, <2>1 DEF Restarts, Quits, Saves, Does
  <2>3. UNCHANGED <<auto, inbox, astray>>
    BY <1>3 DEF Restarts, Quits, Saves
  <2>4. (~Asks(s) => ~Asks(r)) /\ (AsksOnce(s) => AsksOnce(r))
    BY <2>1, AsksFacts
  <2>5. Agreed'
    BY <1>1, <1>2, <2>2, <2>3, <2>4 DEF AutoInv, Agreed
  <2>6. Asked'
    BY <1>1, <1>2, <2>2, <2>3, <2>4 DEF AutoInv, Asked
  <2> QED BY <2>5, <2>6
<1>4. CASE Toggles(k)
  <2>1. PICK r \in Seq(Commands) : r = Tail(s) /\ s # <<>> /\ Head(s) = "toggle"
    BY <1>2, <1>4, TailFacts DEF Toggles, Does
  <2>2. sent'[k] = r /\ \A l \in ProcServs : l # k => sent'[l] = sent[l]
    BY <1>2, <1>4, <2>1 DEF Toggles, Does
  <2>3. /\ astray' = astray /\ auto'[k] = ~auto[k]
        /\ inbox'[k] = inbox[k] \cup {IF auto[k] THEN "OFF" ELSE "ON"}
        /\ \A l \in ProcServs : l # k => auto'[l] = auto[l] /\ inbox'[l] = inbox[l]
    BY <1>4 DEF Toggles
  <2>4. Asks(s) /\ (AsksOnce(s) => ~Asks(r))
    BY <2>1, AsksFacts
  <2>5. k \in astray \/ (pc = "answer" /\ k = Target) \/ k \notin Opened
    BY <1>2, <2>4 DEF AutoInv, Agreed
  <2>6. Agreed'
    BY <1>1, <2>2, <2>3, <2>5 DEF AutoInv, Agreed
  <2>7. Asked'
    BY <1>1, <1>2, <2>2, <2>3, <2>4, <2>5 DEF AutoInv, Asked
  <2> QED BY <2>6, <2>7
<1>5. CASE Revives(k)
  <2>1. UNCHANGED <<sent, auto, inbox, astray>>
    BY <1>5 DEF Revives
  <2> QED BY <1>1, <2>1 DEF AutoInv, Agreed, Asked
<1>6. CASE Noise(k)
  <2>1. /\ sent' = sent /\ auto' = auto /\ (pc # "answer" => astray' = astray)
        /\ (pc = "answer" => astray' = astray \cup {k})
        /\ \A l \in ProcServs : l # k => inbox'[l] = inbox[l]
    BY <1>6 DEF Noise
  <2> QED BY <1>1, <2>1 DEF AutoInv, Agreed, Asked
<1> QED BY <1>3, <1>4, <1>5, <1>6 DEF Takes

(* What the launchers do.                                                   *)
LEMMA AutoElse ==
  ASSUME ControlInv, ProcTypes, ServerInv, SentInv, AutoInv, [Next]_vars, ~(\E k \in ProcServs : Takes(k))
  PROVE  Agreed' /\ Asked'
<1> USE DEF servers, ProcTypes, TestPc
<1>1. /\ pc \in TestPc => Target \in ProcServs
      /\ pc \in TestPc \/ pc' \in TestPc => Target' = Target
      /\ Closing("procserv") => Top \in ProcServs
      /\ \A l \in ProcServs : sent[l] \in Seq(Commands)
      /\ \A l \in Opened' : l \in Opened \/ (l = cur /\ ComesUp)
  BY TargetFacts, TargetStays, FrontFacts, OpenedBy DEF Closing, Top, ControlInv, ProcServs
<1>2. CASE Silent
  <2>1. \A l \in ProcServs : l = cur /\ ComesUp => ~Asks(sent[l]) /\ autorestart[l] = auto[l]
    <3> SUFFICES ASSUME NEW l \in ProcServs, l = cur, ComesUp PROVE ~Asks(sent[l]) /\ autorestart[l] = auto[l]
      OBVIOUS
    <3>1. pc \in OpenPc /\ StateOf(l) = "starting"
      BY OpenedFacts, StateIs DEF ComesUp, OpenPc
    <3>2. sent[l] = <<>>
      BY <3>1 DEF SentInv, OpenPc, ClosePc
    <3> QED BY <3>1, <3>2, AsksFacts DEF AutoInv, Unused
  <2> QED BY <1>1, <1>2, <2>1 DEF Silent, AutoInv, Agreed, Asked
<1>3. CASE SpawnServer
  <2>1. /\ pc # "answer" /\ pc' # "answer" /\ UNCHANGED <<sent, inbox, auto, autorestart, astray>>
        /\ pids' \subseteq pids \cup {cur} /\ Opened' = Opened /\ cur \notin Opened
    BY <1>3, OpenedFacts DEF SpawnServer, Spawn, Opened, OpenPc
  <2> QED BY <2>1 DEF AutoInv, Agreed, Asked
<1>4. CASE KillServer
  <2>1. /\ pc # "answer" /\ pc' # "answer" /\ UNCHANGED <<sent, inbox, autorestart, astray>>
        /\ Top \in ProcServs /\ Opened' = Opened /\ pids' \subseteq pids
    BY <1>1, <1>4 DEF KillServer, Killed, ControlInv, AtWork, Opened
  <2>2. \A l \in ProcServs : l \in pids' => auto'[l] = auto[l]
    BY <1>4, <2>1 DEF KillServer, Killed
  <2> QED BY <2>1, <2>2 DEF AutoInv, Agreed, Asked
<1>4a. CASE Forgets
  <2>1. /\ pc # "answer" /\ pc' = "unwind" /\ UNCHANGED <<pids, sent, inbox, auto>> /\ Closes
        /\ autorestart' = [autorestart EXCEPT ![Top] = TRUE] /\ astray' = astray \ {Top}
    BY <1>4a DEF Forgets, FindsNone, KillRaises, ClosedServer, Closed, Closes, ControlInv, AtWork, Closing, record
  <2>2. \A l \in Opened' : l \in Opened /\ l # Top
    BY <2>1, ClosedOpened
  <2> QED BY <2>1, <2>2 DEF AutoInv, Agreed, Asked
<1>5. CASE CloseTelnet
  <2>1. /\ pc # "answer" /\ pc' # "answer" /\ UNCHANGED <<pids, auto, autorestart, astray>>
        /\ \A l \in ProcServs : sent'[l] = sent[l] \/ sent'[l] = <<>>
        /\ Opened' = Opened
    BY <1>1, <1>5 DEF CloseTelnet, Opened
  <2> QED BY <2>1, AsksFacts DEF AutoInv, Agreed, Asked
<1>6. CASE Reconnect
  <2>1. /\ pc # "answer" /\ pc' # "answer" /\ UNCHANGED <<pids, auto, autorestart, astray>>
        /\ \A l \in ProcServs : sent'[l] = sent[l] \/ sent'[l] = <<>>
        /\ Opened' = Opened
    BY <1>1, <1>6 DEF Reconnect, Raise, Go, testFrame, Opened
  <2> QED BY <2>1, AsksFacts DEF AutoInv, Agreed, Asked
<1>7. ASSUME NEW c \in Commands \ {"toggle"}, Sends(c)
      PROVE  Agreed' /\ Asked'
  <2>1. /\ pc # "answer" /\ pc' # "answer" /\ UNCHANGED <<pids, auto, autorestart, astray>>
        /\ \A l \in ProcServs : sent'[l] = sent[l] \/ sent'[l] = Append(sent[l], c)
        /\ Opened' = Opened
    BY <1>1, <1>7, TargetStays DEF Sends, Send, Opened
  <2>2. \A l \in ProcServs : ~Asks(sent[l]) => ~Asks(sent'[l])
    <3> SUFFICES ASSUME NEW l \in ProcServs, ~Asks(sent[l]) PROVE ~Asks(sent'[l])
      OBVIOUS
    <3>1. PICK s \in Seq(Commands) : s = sent[l]
      BY <1>1
    <3>2. ~Asks(Append(s, c))
      BY <1>7, <3>1, AsksFacts
    <3>3. sent'[l] = s \/ sent'[l] = Append(s, c)
      BY <2>1, <3>1
    <3> QED BY <3>1, <3>2, <3>3
  <2> QED BY <2>1, <2>2 DEF AutoInv, Agreed, Asked
<1>8. CASE Toggle
  <2>1. /\ pc = "test" /\ pc' = "answer" /\ UNCHANGED <<pids, auto, autorestart, astray>>
        /\ inbox'[Target] = {} /\ sent'[Target] = Append(sent[Target], "toggle")
        /\ \A l \in ProcServs : l # Target => sent'[l] = sent[l]
        /\ Target' = Target /\ Target \in ProcServs /\ Opened' = Opened /\ Target \in Opened
    BY <1>1, <1>8, TargetFacts DEF Toggle, Doing, Send, testFrame, Opened
  <2>2. Agreed'
    BY <2>1 DEF AutoInv, Agreed
  <2>3. Target \notin astray => AsksOnce(sent'[Target])
    BY <1>1, <2>1, AsksFacts DEF AutoInv, Agreed
  <2> QED BY <2>1, <2>2, <2>3 DEF Asked
<1>9. CASE ReadAnswer
  <2>1. /\ pc = "answer" /\ pc' = "test" /\ UNCHANGED <<pids, auto, sent>>
        /\ Target' = Target /\ Target \in ProcServs /\ Opened' = Opened
    BY <1>1, <1>9 DEF ReadAnswer, Raise, Go, testFrame, Opened
  <2>2. CASE inbox[Target] = {}
    BY <1>9, <2>1, <2>2 DEF ReadAnswer, AutoInv, Agreed, Asked
  <2>3. CASE inbox[Target] # {}
    <3>1. /\ astray' = astray
          /\ autorestart'[Target] = ("OFF" \notin inbox[Target])
          /\ \A l \in ProcServs : l # Target => autorestart'[l] = autorestart[l]
      BY <1>9, <2>1, <2>3 DEF ReadAnswer
    <3>2. Target \notin astray => ~Asks(sent[Target]) /\ autorestart'[Target] = auto[Target]
      BY <2>1, <2>3, <3>1 DEF AutoInv, Asked
    <3> QED BY <2>1, <3>1, <3>2 DEF AutoInv, Agreed, Asked
  <2> QED BY <2>2, <2>3
<1>10. CASE \E c \in Commands \ {"toggle"} : Sends(c)
  BY <1>7, <1>10
<1> QED BY TalkSteps, <1>2, <1>3, <1>4, <1>4a, <1>5, <1>6, <1>8, <1>9, <1>10

(* Every step.                                                              *)
LEMMA AutoStep == ControlInv /\ ProcTypes /\ ServerInv /\ SentInv /\ AutoInv /\ [Next]_vars => AutoInv'
BY AutoUnused, AutoTakes, AutoElse DEF AutoInv

(* The launcher knows whether procServ restarts its IOC: every toggle that   *)
(* was not answered by something else has been answered before the launcher *)
(* goes on, in the words of what procServ does then.                        *)
THEOREM AutorestartIsKnown == Spec => []AutorestartKnown
<1>1. AutoInv => AutorestartKnown
  BY DEF AutoInv, Agreed, AutorestartKnown, Runs
<1>2. Init => ProcTypes
  BY ProcServAssumption DEF Init, StartInit, ProcTypes, Commands
<1> QED
  BY <1>1, <1>2, ControlInit, ControlStep, ServerInit, ServerStep, ProcTypesStep, SentInit, SentStep,
     AutoInit, AutoStep, PTL DEF Spec

---------------------------------------------------------------------------
(* The macros an IOC run by procServ has read.                              *)

(* From writing the macros to seeing the prompt, the IOC may still run with  *)
(* other ones.  Otherwise the IOC of an open launcher has read the file, if  *)
(* the launcher wrote it last and the last restart went well.  A prompt     *)
(* that came since the start is that of an IOC that was started since, and  *)
(* has read the file.                                                       *)
Restarting == pc \in {"await", "resend"} \/ Doing("start")
HasRead(l) == process[l] \in Booted => booted[l] = file
HasReadFile ==
  \A l \in ProcServs \cap Opened :
    file.of = l /\ l \notin upset /\ ~(Restarting /\ l = Target) => HasRead(l)
ReadsAfresh ==
  pc \in {"await", "resend"} =>
    /\ file.of = Target /\ Target \in fresh => HasRead(Target)
    /\ "now" \in log[NameOf[Target]].unread => Target \in fresh
    /\ fresh \subseteq {Target}
RunInv == HasReadFile /\ ReadsAfresh

(* Nothing has read a file at first.                                        *)
LEMMA RunInit == Init => RunInv
BY DEF Init, StartInit, RunInv, HasReadFile, ReadsAfresh, HasRead, Booted, Alive, ProcServs, Opened

(* What an IOC has read stays so while the file and the IOC stay, or it ends. *)
LEMMA ReadStays ==
  ASSUME IocTypes, NEW l \in Launch, HasRead(l), file' = file, booted' = booted,
         process' = process \/ (\E k \in Launch : process' = [process EXCEPT ![k] = "gone"])
  PROVE  HasRead(l)'
BY DEF HasRead, IocTypes, Booted, Alive

(* Opening a launch.                                                        *)
LEMMA RunOpens ==
  ASSUME ControlInv, IocTypes, OpenInv, RunInv, [Next]_vars, OpenStep
  PROVE  RunInv'
<1> USE LaunchesAssumption DEF iocs, files, OpenPc, procVars, IocTypes
<1>1. pc' \notin {"await", "resend", "test"} /\ pc \notin {"await", "resend", "test"} /\ upset' = upset
  BY DEF OpenStep, Open, BeginOpen, RefuseOpen, PrepareFiles, SpawnRaises, SeesConsole, PollsConsole,
         ConsoleTimesOut, SetInits, InitsRaise, EndOpen, OpenRaises, Fails, SpawnServer, Spawn, Connect,
         ConnectRaises
<1>2. pc \in OpenPc => cur \in Launch
  BY OpenedFacts
<1>2a. \A l \in Opened' : l \in Opened \/ (l = cur /\ pc \in {"exists", "connect"})
  BY OpenedBy DEF ComesUp
<1>3. CASE PrepareFiles
  <2>1. file'.of = cur /\ cur \notin Opened /\ Opened' = Opened
    BY <1>3, OpenedFacts DEF PrepareFiles, MacrosOf, Opened
  <2> QED BY <1>1, <2>1 DEF RunInv, HasReadFile, ReadsAfresh, HasRead, Booted, Alive
<1>4. CASE SpawnServer
  <2>1. process'[cur] = "booting" /\ booted' = booted /\ file' = file
        /\ (\A l \in Launch : l # cur => process'[l] = process[l])
        /\ Opened' = Opened
    BY <1>2, <1>4 DEF SpawnServer, Spawn, Opened
  <2> QED BY <1>1, <2>1 DEF RunInv, HasReadFile, ReadsAfresh, HasRead, Booted, Alive, Restarting, Doing,
                            ProcServs
<1>5. CASE UNCHANGED <<process, booted, file>>
  <2>1. pc \in {"exists", "connect"} => HasRead(cur)
    BY DEF OpenInv, OwnFile, HasRead
  <2> QED BY <1>1, <1>2a, <1>5, <2>1 DEF RunInv, HasReadFile, ReadsAfresh, HasRead, Restarting, Doing
<1>6. ~PrepareFiles /\ ~SpawnServer => UNCHANGED <<process, booted, file>>
  BY DEF OpenStep, Open, BeginOpen, RefuseOpen, SpawnRaises, SeesConsole, PollsConsole, ConsoleHit,
         ConsoleMiss, ConsoleTimesOut, SetInits, InitsRaise, EndOpen, OpenRaises, Connect, ConnectRaises
<1> QED BY <1>3, <1>4, <1>5, <1>6

(* Closing, and all calls but those below.                                  *)
RunRests ==
  /\ pc \notin OpenPc /\ UNCHANGED <<booted, file>>
  /\ \A l \in Opened' : l \in upset => l \in upset'
  /\ process' = process \/ (\E k \in Launch : process' = [process EXCEPT ![k] = "gone"])
  /\ Restarting => pc \in {"await", "resend"} /\ pc' \in {"await", "resend"}
  /\ pc' \in {"await", "resend"} => pc \in {"await", "resend"} /\ UNCHANGED <<process, log, fresh>>

(* Steps that have nothing to do with a restart.                            *)
LEMMA RunKept ==
  ASSUME ControlInv, IocTypes, RunInv, [Next]_vars, RunRests
  PROVE  RunInv'
<1>1. pc \in TestPc \/ pc' \in TestPc => Target' = Target
  BY TargetStays
<1>2. \A l \in ProcServs : l \in Launch
  BY DEF ProcServs
<1>2a. \A l \in Opened' : l \in Opened
  BY OpenedBy DEF RunRests
<1>3. HasReadFile'
  BY <1>1, <1>2, <1>2a, ReadStays DEF RunRests, RunInv, HasReadFile, Restarting, TestPc
<1>4. ReadsAfresh'
  BY <1>1 DEF RunRests, RunInv, ReadsAfresh, HasRead, TestPc
<1> QED BY <1>3, <1>4 DEF RunInv

(* Closing is such a step.                                                  *)
LEMMA RunCloses ==
  ASSUME ControlInv, [Next]_vars,
         (Close /\ UNCHANGED procVars) \/ CloseTelnet \/ Forgets \/ FindProcesses \/ KillServer
  PROVE  RunRests
<1> USE DEF iocs, files, procVars, OpenPc, Restarting, Doing, Closed, RunRests
<1>1. stack # <<>> => Top \in Launch
  BY FrontFacts DEF ControlInv, Top
<1>2. CASE /\ BeginUnwind \/ EndUnwind \/ CloseRaises \/ SeenGone \/ StillThere \/ TellToExit
           /\ UNCHANGED procVars
  BY <1>2 DEF BeginUnwind, EndUnwind, CloseRaises, SeenGone, StillThere, TellToExit
<1>3. CASE (KillIoc \/ KillPython) /\ UNCHANGED procVars
  BY <1>1, <1>3 DEF KillIoc, KillPython, Kill, Closing, ControlInv, AtWork
<1>4. CASE CloseTelnet \/ FindProcesses
  BY <1>4 DEF CloseTelnet, FindProcesses
<1>5. CASE KillServer
  BY <1>1, <1>5 DEF KillServer, Killed, ControlInv, AtWork, Closing
<1>6. CASE Forgets
  <2>1. pc \in {"search", "kill"} /\ pc' = "unwind" /\ upset' = upset \ {Top} /\ UNCHANGED <<process, booted, file>>
    BY <1>6 DEF Forgets, FindsNone, KillRaises, ClosedServer
  <2>2. Closes
    BY <1>6, <2>1 DEF Forgets, FindsNone, KillRaises, ClosedServer, Closes, ControlInv, AtWork, Closing, record
  <2>3. \A l \in Opened' : l # Top
    BY <2>2, ClosedOpened
  <2> QED BY <2>1, <2>3
<1> QED BY <1>2, <1>3, <1>4, <1>5, <1>6 DEF Close

(* The calls that have to do with a restart.                                *)
RunCalls ==
  SetMacros \/ SendStart \/ SeesStart \/ PollsStart \/ Reconnect \/ Resend \/ ReconnectRaises \/ StartRaises

(* So are the other steps of a test.                                        *)
LEMMA RunTests ==
  ASSUME Test \/ Calls, ~RunCalls
  PROVE  RunRests
<1> USE DEF iocs, files, OpenPc, Restarting, Doing, RunRests, testFrame, callFrame, RunCalls
<1>1. CASE BeginTests \/ EndTests \/ JustSend \/ Toggle
  BY <1>1 DEF BeginTests, EndTests, JustSend, Toggle, Go, startVars, control
<1>2. CASE CallStartWithMacros \/ CallStart \/ LeaveBody \/ Pass \/ Reraise \/ SeesPv
  BY <1>2 DEF CallStartWithMacros, CallStart, Call, LeaveBody, Pass, Reraise, SeesPv, Go, Advance, Raise
<1>3. CASE ReadAnswer
  BY <1>3 DEF ReadAnswer, Go, Raise
<1> QED BY <1>1, <1>2, <1>3 DEF Test, Calls

(* The steps of a restart.                                                  *)
LEMMA RunCalled ==
  ASSUME ControlInv, TodoInv, IocTypes, RunInv, [Next]_vars, RunCalls
  PROVE  RunInv'
<1> USE LaunchesAssumption DEF iocs, files, testFrame, awaitFrame, RunInv, HasReadFile, ReadsAfresh, HasRead,
                               Restarting, RunCalls
<1>1. /\ Target \in ProcServs /\ Target' = Target /\ Target \in Launch /\ NameOf[Target] \in Name
      /\ Opened' = Opened /\ UNCHANGED <<process, booted>>
  <2>1. pc \in TestPc
    BY DEF SetMacros, SendStart, SeesStart, PollsStart, Reconnect, Resend, ReconnectRaises, StartRaises,
           Doing, TestPc
  <2>2. Opened' = Opened /\ UNCHANGED <<process, booted>>
    BY DEF SetMacros, SendStart, SeesStart, PollsStart, Reconnect, Resend, ReconnectRaises, StartRaises, Opened
  <2> QED BY <2>1, <2>2, TargetFacts, TargetStays DEF ProcServs
<1>2. CASE SetMacros
  <2>1. /\ todo \in Seq(Steps) /\ todo # <<>> /\ todo' = Tail(todo) /\ First.op = "macros"
        /\ pc' = "test" /\ upset' = upset /\ file'.of = Target
    BY <1>2 DEF SetMacros, Doing, Advance, Go, TodoInv
  <2>2. /\ Len(todo) \in Nat \ {0} /\ First = todo[1] /\ todo' \in Seq(Steps)
        /\ Len(todo') = Len(todo) - 1 /\ \A i \in 1..Len(todo) - 1 : todo'[i] = todo[i + 1]
    BY <2>1, TailFacts DEF First
  <2>3. 2 <= Len(todo) /\ todo[2].op = "start"
    BY <2>1, <2>2 DEF TodoInv, MacrosPlaced
  <2>4. todo' # <<>> /\ Head(todo') = todo[2]
    BY <2>2, <2>3
  <2>5. Restarting'
    BY <2>1, <2>3, <2>4 DEF Doing, First
  <2> QED BY <1>1, <2>1, <2>5
<1>3. CASE SendStart
  <2>1. /\ pc' = "await" /\ file' = file /\ upset' = upset /\ fresh' = {}
        /\ Restarting /\ Restarting'
    BY <1>3 DEF SendStart
  <2>2. log'[NameOf[Target]] = Aged(log[NameOf[Target]])
    BY <1>1, <1>3 DEF SendStart, SetLog, IocTypes
  <2>3. "now" \notin log'[NameOf[Target]].unread
    <3>1. log[NameOf[Target]] \in LF!Log
      BY <1>1 DEF IocTypes
    <3> QED BY <2>2, <3>1 DEF Aged, LF!Log
  <2> QED BY <1>1, <2>1, <2>3
<1>4. CASE SeesStart
  <2>1. /\ pc = "await" /\ pc' = "test" /\ file' = file
        /\ upset' = IF "now" \in log[NameOf[Target]].unread THEN upset \ {Target} ELSE upset \cup {Target}
    BY <1>4 DEF SeesStart, ConsoleHit, Advance, Go
  <2>2. file.of = Target /\ Target \notin upset' => HasRead(Target)
    BY <2>1
  <2>3. \A l \in ProcServs \cap Opened : l # Target /\ file.of = l /\ l \notin upset => HasRead(l)
    OBVIOUS
  <2> QED BY <1>1, <2>1, <2>2, <2>3
<1>5. CASE PollsStart
  <2>1. /\ pc = "await" /\ pc' = "await" /\ file' = file /\ upset' = upset /\ fresh' = fresh
    BY <1>5 DEF PollsStart, ConsoleMiss
  <2>2. log'[NameOf[Target]] = LF!AllRead(log[NameOf[Target]])
    BY <1>1, <1>5 DEF PollsStart, ConsoleMiss, SetLog, IocTypes
  <2>3. "now" \notin log'[NameOf[Target]].unread
    BY <2>2 DEF LF!AllRead
  <2> QED BY <1>1, <2>1, <2>3
<1>6. CASE Resend
  <2>1. pc = "resend" /\ pc' = "await" /\ file' = file /\ log' = log /\ upset' = upset /\ fresh' = fresh
    BY <1>6 DEF Resend
  <2> QED BY <1>1, <2>1
<1>7. CASE Reconnect \/ ReconnectRaises
  <2>1. /\ pc = "await" /\ pc' \in {"resend", "test"} /\ file' = file /\ log' = log /\ fresh' = fresh
        /\ (pc' = "resend" /\ upset' = upset) \/ upset' = upset \cup {Target}
    BY <1>7 DEF Reconnect, ReconnectRaises, Raise, Go
  <2> QED BY <1>1, <2>1
<1>8. CASE StartRaises
  <2>1. pc' = "test" /\ file' = file /\ upset' = upset \cup {Target} /\ Restarting
    BY <1>8 DEF StartRaises, Raise, Go
  <2> QED BY <1>1, <2>1
<1> QED BY <1>2, <1>3, <1>4, <1>5, <1>6, <1>7, <1>8

(* Processes.                                                               *)
LEMMA NowTexts ==
  ASSUME IocTypes, Processes, NEW n \in Name, "now" \in log'[n].unread
  PROVE  "now" \in log[n].unread \/ fresh # {}
<1> USE LaunchesAssumption DEF IocTypes
<1>1. \A lg \in LF!Log, w \in {"earlier", "now"} : w # "now" =>
        /\ "now" \in LF!Printed(lg, w).unread => "now" \in lg.unread
        /\ "now" \in LF!PrintedFirst(lg).unread => "now" \in lg.unread
        /\ "now" \in LF!PrintedRest(lg, w).unread => "now" \in lg.unread
  BY DEF LF!Printed, LF!PrintedFirst, LF!PrintedRest, LF!Log
<1>2. SUFFICES ASSUME fresh = {} PROVE "now" \in log[n].unread
  OBVIOUS
<1>3. \A l : Age(l) = "earlier"
  BY <1>2 DEF Age
<1>4. ASSUME NEW l \in Launch, Prompt(l) \/ Saves(l)
      PROVE  "now" \in log[n].unread
  <2>1. PICK m \in Name : m = NameOf[l]
    OBVIOUS
  <2>2. log[m] \in LF!Log
    OBVIOUS
  <2>3. CASE UNCHANGED log
    BY <2>3
  <2>4. CASE ~UNCHANGED log
    <3>1. PICK new \in LF!Log : SetLog(m, new) /\ ("now" \in new.unread => "now" \in log[m].unread)
      BY <1>1, <1>3, <1>4, <2>1, <2>2, <2>4, LogTypes DEF Prompt, Saves
    <3>2. log'[m] = new /\ \A k \in Name : k # m => log'[k] = log[k]
      BY <3>1, SetLogType
    <3> QED BY <3>1, <3>2
  <2> QED BY <2>3, <2>4
<1>5. ASSUME NEW l \in Launch, ReadMacros(l) \/ Serve(l) \/ Exit(l) \/ Die(l) PROVE UNCHANGED log
  BY <1>5 DEF ReadMacros, Serve, Exit, Die, files
<1>6. ASSUME NEW l \in ProcServs, Restarts(l) \/ Quits(l) \/ Toggles(l) \/ Revives(l) \/ Noise(l)
      PROVE  UNCHANGED log
  BY <1>6 DEF Restarts, Quits, Toggles, Revives, Noise
<1> QED BY <1>4, <1>5, <1>6 DEF Processes, ProcServs

(* What procServ and the IOCs do.                                           *)
LEMMA RunProcesses ==
  ASSUME ControlInv, IocTypes, SentInv, RunInv, [Next]_vars, Processes
  PROVE  RunInv'
<1> USE LaunchesAssumption
<1>1. UNCHANGED <<control, file, todo, upset>>
  BY DEF Processes, ReadMacros, Serve, Prompt, Exit, Die, procVars, files,
         Restarts, Quits, Saves, Toggles, Revives, Noise, serverFrame
<1>2. Target' = Target /\ Restarting' = Restarting /\ pc' = pc /\ Opened' = Opened
  BY <1>1 DEF control, Target, Restarting, Doing, First, Opened
<1>3. \A l \in Launch : HasRead(l) => HasRead(l)'
  <2> SUFFICES ASSUME NEW l \in Launch, HasRead(l) PROVE HasRead(l)'
    OBVIOUS
  <2> QED BY <1>1, ProcessSteps DEF HasRead, Booted, Alive
<1>4. HasReadFile'
  BY <1>1, <1>2, <1>3 DEF RunInv, HasReadFile, ProcServs
<1>5. \A l \in Launch : l \in fresh' \ fresh =>
        l \in ProcServs /\ l \in Opened /\ sent[l] # <<>> /\ process'[l] = "booting"
  <2>1. ASSUME NEW l \in ProcServs, Restarts(l)
        PROVE  /\ sent[l] # <<>>
               /\ fresh' = fresh \/ (fresh' = fresh \cup ({l} \cap Opened) /\ process'[l] = "booting")
    BY <2>1 DEF Restarts, Does, Boots, Becomes, IocTypes, ProcServs
  <2>2. (\E l \in ProcServs : Restarts(l)) \/ fresh' = fresh
    BY DEF Processes, ReadMacros, Serve, Prompt, Exit, Die, history, Quits, Saves, Toggles, Revives, Noise
  <2> QED BY <2>1, <2>2
<1>6. fresh \subseteq fresh'
  BY DEF Processes, ReadMacros, Serve, Prompt, Exit, Die, history, Restarts, Quits, Saves, Toggles, Revives, Noise
<1>7. ReadsAfresh'
  <2> SUFFICES ASSUME pc \in {"await", "resend"}
               PROVE  /\ file.of = Target /\ Target \in fresh' => HasRead(Target)'
                      /\ "now" \in log'[NameOf[Target]].unread => Target \in fresh'
                      /\ fresh' \subseteq {Target}
    BY <1>1, <1>2 DEF ReadsAfresh
  <2>1. Target \in Launch /\ NameOf[Target] \in Name /\ fresh' \subseteq Launch
    BY TargetFacts, ProcessTypes DEF TestPc, ProcServs, IocTypes
  <2>2. fresh' \subseteq {Target}
    <3>1. \A l \in Opened : StateOf(l) # "closed"
      BY StateIs
    <3> QED BY <1>5, <2>1, <3>1 DEF SentInv, TestPc, ClosePc, RunInv, ReadsAfresh
  <2>3. "now" \in log'[NameOf[Target]].unread => Target \in fresh'
    BY <1>6, <2>1, NowTexts DEF RunInv, ReadsAfresh
  <2>4. file.of = Target /\ Target \in fresh' => HasRead(Target)'
    <3>1. PICK t \in Launch : t = Target /\ t = Target'
      BY <1>2, <2>1
    <3>2. CASE file.of = Target /\ t \in fresh
      BY <1>3, <2>1, <3>1, <3>2 DEF RunInv, ReadsAfresh, HasRead
    <3>3. CASE t \in fresh' \ fresh
      BY <1>5, <3>1, <3>3 DEF HasRead, Booted
    <3> QED BY <3>1, <3>2, <3>3
  <2> QED BY <2>2, <2>3, <2>4
<1> QED BY <1>4, <1>7 DEF RunInv

(* Every step.                                                              *)
LEMMA RunStep ==
  ControlInv /\ TodoInv /\ IocTypes /\ OpenInv /\ SentInv /\ RunInv /\ [Next]_vars => RunInv'
<1> SUFFICES ASSUME ControlInv, TodoInv, IocTypes, OpenInv, SentInv, RunInv, [Next]_vars PROVE RunInv'
  OBVIOUS
<1>1. CASE Done \/ UNCHANGED vars
  <2>1. /\ pc' = pc /\ UNCHANGED <<stack, todo, process, booted, file, log, fresh, upset>>
    BY <1>1 DEF Done, vars, startVars, procVars, control, iocs, files, history, servers
  <2> QED BY <2>1 DEF RunInv, HasReadFile, ReadsAfresh, HasRead, Restarting, Doing, First, Target, Opened
<1>2. CASE Test \/ Calls
  BY <1>2, RunTests, RunCalled, RunKept
<1>3. CASE Processes
  BY <1>3, RunProcesses
<1>4. CASE Program
  <2>1. \/ OpenStep \/ Calls
        \/ (Close /\ UNCHANGED procVars) \/ CloseTelnet \/ Forgets \/ FindProcesses \/ KillServer
    BY <1>4, Zenon DEF Program, OpenStep, Forgets
  <2> QED BY <1>2, <2>1, RunOpens, RunCloses, RunKept
<1> QED BY <1>1, <1>2, <1>3, <1>4 DEF Next

(* In the body of a test, once its macros file has been written, an IOC runs *)
(* with the macros its launcher holds, unless a restart raised or took an    *)
(* old prompt, or that of an IOC left behind, for the new one.              *)
THEOREM RunsWithMacros == Spec => []RunsWithItsMacros
<1>1. ControlInv /\ MacrosInv /\ RunInv => RunsWithItsMacros
  <2> SUFFICES ASSUME ControlInv, MacrosInv, RunInv, Doing("body"), file.of = Target, Target \notin upset,
                      process[Target] \in Serving
               PROVE  booted[Target] = file /\ file.macros = macros[Target]
    BY DEF RunsWithItsMacros
  <2>1. Target \in ProcServs /\ Target \in Opened
    BY TargetFacts DEF Doing, TestPc
  <2>2. ~Restarting
    BY DEF Restarting, Doing
  <2> QED BY <2>1, <2>2 DEF MacrosInv, RunInv, HasReadFile, HasRead, Booted, Serving, Alive
<1>2. Init => ProcTypes
  BY ProcServAssumption DEF Init, StartInit, ProcTypes, Commands
<1> QED
  BY <1>1, <1>2, ControlInit, ControlStep, TodoInit, TodoStep, MacrosInit, MacrosStep, ServerInit, ServerStep,
     IocTypesInit, IocTypesStep, ProcTypesStep, OpenInvInit, OpenInvStep, SentInit, SentStep,
     RunInit, RunStep, PTL DEF Spec
=============================================================================
