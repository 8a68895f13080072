------------------------------ MODULE ProcServ ------------------------------
(***************************************************************************)
(* The launchers of ioc_launcher.py together: those of IocStart, and        *)
(* ProcServLauncher, whose IOC is the child of a procServ process that is   *)
(* sent commands over telnet.  Between opening and closing, tests restart   *)
(* the IOC, with other macros too, and switch autorestart.                  *)
(***************************************************************************)
EXTENDS IocStart, FiniteSets

CONSTANTS
  Retries,    \* retry_limit of start_ioc
  Depth,      \* bound on nested start_with_macros
  Unanswered, \* bound on the commands procServ has not carried out yet
  Uses        \* the sets of methods that a test class uses

ProcServs == {l \in Launch : Class[l] = "procserv"}

ASSUME ProcServAssumption ==
  /\ Retries \in Nat \ {0} /\ Depth \in Nat /\ Unanswered \in Nat \ {0}
  /\ Uses \subseteq SUBSET {"start", "macros", "restart", "quit", "save", "toggle"}

VARIABLES
  uses,        \* the methods the tests being run use
  todo,        \* what is left to do of the calls of the test, innermost first
  tries,       \* how often start_ioc may still send
  pids,        \* launches of whose procServ a process runs (it is two of cygwin)
  auto,        \* procServ's autorestart
  autorestart, \* what the launcher believes of it
  sent,        \* commands on their way
  inbox,       \* what read_very_eager would return: does it say ON, or OFF
  macros,      \* self.macros of each launcher
  cutOff,      \* launchers whose telnet connection could not be made again
  astray,      \* history: launchers whose toggle was answered by something else or not at all
  upset        \* history: launchers whose macros may not be in use, for a known reason

servers == <<pids, auto, sent, inbox>>
procVars == <<uses, todo, tries, servers, autorestart, macros, cutOff, astray, upset>>
vars == <<startVars, procVars>>

---------------------------------------------------------------------------
(* The calls of a test, as sequences of steps.                              *)

Step(op) == [op |-> op, macros |-> Original, pending |-> FALSE]
UseMacros(m) == [Step("macros") EXCEPT !.macros = m]
Body == << Step("body") >>

MacrosLast(m) ==  \* mutant: the file is written when the IOC has been restarted
  << Step("start"), UseMacros(m), Step("exists") >>
Restart(m) == << UseMacros(m), Step("start"), Step("exists") >>
NoFinally(m) ==  \* mutant: the original macros are restored when nothing raised only
  Restart(m) \o Body \o Restart(Original)
StartWithMacros(m) ==
  Restart(m) \o Body \o << Step("finally") >> \o Restart(Original) \o << Step("reraise") >>

First == Head(todo)
Doing(op) == pc = "test" /\ todo # <<>> /\ First.op = op
Finallys == {i \in DOMAIN todo : todo[i].op = "finally"}
InnermostFinally == CHOOSE i \in Finallys : \A j \in Finallys : i <= j
Bodies == {i \in DOMAIN todo : todo[i].op = "body"}

Go(steps) == todo' = steps /\ pc' = "test"
Advance == Go(Tail(todo))

(* An exception goes to the finally of the context it is in, and is raised   *)
(* again after it; without one it ends the test.                            *)
RaiseTo ==
  IF Finallys = {} THEN Body
  ELSE [i \in 1..(Len(todo) - InnermostFinally) |->
          IF i = Len(Restart(Original)) + 1
            THEN [Step("reraise") EXCEPT !.pending = TRUE]
            ELSE todo[i + InnermostFinally]]
Raise == Go(RaiseTo)

Opened == {stack[i] : i \in DOMAIN stack}

(* Tests use the procServ launchers among the open ones.                    *)
Target == CHOOSE l \in ProcServs : \E i \in DOMAIN stack : stack[i] = l
HasTarget == \E i \in DOMAIN stack : stack[i] \in ProcServs

(* Bounds: a test makes its next call when procServ has caught up; of the     *)
(* restarts a call sends, those beyond the bound count as one.              *)
Room == Len(sent[Target]) < Unanswered
Beyond(cmds) == Len(cmds) > Unanswered /\ cmds[Len(cmds)] = "restart"

Connected == Target \notin cutOff
Send(cmd) ==
  /\ Connected
  /\ sent' = [sent EXCEPT ![Target] = IF cmd = "restart" /\ Beyond(@) THEN @ ELSE Append(@, cmd)]

---------------------------------------------------------------------------
Init ==
  /\ StartInit /\ uses = {}
  /\ todo = <<>> /\ tries = 0
  /\ pids = {}
  /\ auto = [l \in ProcServs |-> TRUE] /\ autorestart = [l \in ProcServs |-> TRUE]
  /\ sent = [l \in ProcServs |-> <<>>] /\ inbox = [l \in ProcServs |-> {}]
  /\ macros = [l \in ProcServs |-> Original]
  /\ cutOff = {} /\ astray = {} /\ upset = {}

(* Popen of procServ, which starts the IOC.                                 *)
SpawnServer ==
  /\ Spawn
  /\ IF Class[cur] = "procserv" THEN pids' = pids \cup {cur} ELSE UNCHANGED pids
  /\ UNCHANGED <<uses, todo, tries, auto, sent, inbox, autorestart, macros, cutOff, astray, upset>>

(* The telnet connection, and the text procServ welcomes with.              *)
Connect ==
  /\ pc = "connect"
  /\ stack' = Append(stack, cur) /\ pc' = "idle"
  /\ UNCHANGED <<cur, raising, left, iocs, files, record, history, procVars>>

ConnectRaises ==
  /\ pc = "connect"
  /\ Fails(cur)
  /\ UNCHANGED <<cur, stack, left, iocs, files, history, procVars>>

---------------------------------------------------------------------------
(* Tests.                                                                   *)

BeginTests ==
  /\ pc = "idle" /\ ModuleOpen /\ HasTarget
  /\ Go(Body) /\ uses' \in Uses
  /\ UNCHANGED <<cur, stack, raising, left, iocs, files, record, history,
                 tries, servers, autorestart, macros, cutOff, astray, upset>>

EndTests ==
  /\ Doing("body") /\ Len(todo) = 1
  /\ pc' = "unwind" /\ todo' = <<>> /\ uses' = {}
  /\ UNCHANGED <<cur, stack, raising, left, iocs, files, record, history,
                 tries, servers, autorestart, macros, cutOff, astray, upset>>

testFrame == <<cur, stack, raising, iocs, record, spared, crowded>>
callFrame == <<uses, left, files, fresh, tries, servers, autorestart, macros, cutOff, astray, upset>>

Call(steps) == Doing("body") /\ Go(steps \o todo) /\ UNCHANGED <<testFrame, callFrame>>

CallStartWithMacros == \E m \in Override :
  "macros" \in uses /\ Room /\ Cardinality(Bodies) <= Depth /\ Call(StartWithMacros(m))
CallStart == "start" \in uses /\ Room /\ Call(<< Step("start") >>)

(* The body of a context ends, or raises.                                   *)
LeaveBody ==
  /\ Doing("body") /\ Len(todo) > 1
  /\ Advance \/ Raise
  /\ UNCHANGED <<testFrame, callFrame>>

Pass == Doing("finally") /\ Advance /\ UNCHANGED <<testFrame, callFrame>>

Reraise ==
  /\ Doing("reraise")
  /\ IF First.pending THEN Raise ELSE Advance
  /\ UNCHANGED <<testFrame, callFrame>>

(* Commands without an answer: start_ioc without waiting, quit_ioc and      *)
(* force_manual_save.                                                       *)
JustSend == \E cmd \in {"restart", "quit", "save"} \cap uses :
  /\ Doing("body") /\ Room /\ Send(cmd)
  /\ UNCHANGED <<uses, startVars, todo, tries, pids, auto, inbox, autorestart, macros, cutOff, astray, upset>>

---------------------------------------------------------------------------
(* _start_with_macros, _start_with_original_macros.                         *)

SetMacros ==
  /\ Doing("macros")
  /\ macros' = [macros EXCEPT ![Target] = First.macros]
  /\ file' = [of |-> Target, macros |-> First.macros]
  /\ Advance
  /\ UNCHANGED <<uses, testFrame, left, log, open, fresh, tries, servers, autorestart, cutOff, astray, upset>>

(* start_ioc(wait=True): send, wait_for_console, reconnect and send again.  *)
awaitFrame == <<uses, testFrame, todo, pids, auto, autorestart, macros, cutOff, astray>>

SendStart ==
  /\ Doing("start")
  /\ Send("restart")
  /\ tries' = Retries - 1 /\ left' = ConsolePolls
  /\ fresh' = {}
  /\ SetLog(NameOf[Target], Aged(log[NameOf[Target]]))
  /\ pc' = "await"
  /\ UNCHANGED <<awaitFrame, file, open, inbox, upset>>

SeesStart ==
  /\ pc = "await" /\ ConsoleHit(NameOf[Target])
  /\ upset' = IF "now" \in log[NameOf[Target]].unread THEN upset \ {Target} ELSE upset \cup {Target}
  /\ Advance /\ tries' = 0
  /\ UNCHANGED <<uses, testFrame, servers, autorestart, macros, cutOff, astray>>

PollsStart ==
  /\ pc = "await" /\ ConsoleMiss(NameOf[Target])
  /\ UNCHANGED <<pc, awaitFrame, tries, sent, inbox, upset>>

(* What was on its way over the old connection may be lost with it.         *)
Reconnect ==
  /\ pc = "await" /\ left = 0
  /\ \E kept \in {sent[Target], <<>>} : sent' = [sent EXCEPT ![Target] = kept]
  /\ inbox' = [inbox EXCEPT ![Target] = {}]
  /\ IF tries > 0
       THEN pc' = "resend" /\ UNCHANGED <<todo, upset>>
       ELSE Raise /\ upset' = upset \cup {Target}
  /\ UNCHANGED <<uses, testFrame, left, files, fresh, tries, pids, auto,
                 autorestart, macros, cutOff, astray>>

Resend ==
  /\ pc = "resend"
  /\ Send("restart")
  /\ tries' = tries - 1 /\ left' = ConsolePolls /\ pc' = "await"
  /\ UNCHANGED <<awaitFrame, files, fresh, inbox, upset>>

ReconnectRaises ==
  /\ pc = "await" /\ left = 0
  /\ Raise /\ tries' = 0
  /\ upset' = upset \cup {Target} /\ cutOff' = cutOff \cup {Target}
  /\ UNCHANGED <<uses, testFrame, left, files, fresh, servers, autorestart, macros, astray>>

(* Writing to a connection that is not there raises.                         *)
StartRaises ==
  /\ Doing("start") /\ ~Connected
  /\ Raise /\ upset' = upset \cup {Target}
  /\ UNCHANGED <<uses, testFrame, left, files, fresh, tries, servers, autorestart, macros, cutOff, astray>>

(* ca.assert_that_pv_exists(pv_to_wait_for, timeout=60)                     *)
SeesPv ==
  /\ Doing("exists")
  /\ IF ServersOf(NameOf[Target]) # {} THEN Advance ELSE Raise
  /\ UNCHANGED <<testFrame, callFrame>>

---------------------------------------------------------------------------
(* toggle_autorestart.                                                      *)

ToggleUnflushed ==  \* mutant: the first read_very_eager is left out
  /\ Doing("body") /\ Room /\ "toggle" \in uses
  /\ Send("toggle") /\ pc' = "answer"
  /\ UNCHANGED <<uses, testFrame, left, files, fresh, todo, tries, pids, auto, inbox,
                 autorestart, macros, cutOff, astray, upset>>
Toggle ==
  /\ Doing("body") /\ Room /\ "toggle" \in uses
  /\ inbox' = [inbox EXCEPT ![Target] = {}]
  /\ Send("toggle") /\ pc' = "answer"
  /\ UNCHANGED <<uses, testFrame, left, files, fresh, todo, tries, pids, auto,
                 autorestart, macros, cutOff, astray, upset>>

ReadAnswer ==
  /\ pc = "answer"
  /\ inbox' = [inbox EXCEPT ![Target] = {}]
  /\ IF inbox[Target] = {}
       THEN Raise /\ astray' = astray \cup {Target} /\ UNCHANGED autorestart
       ELSE /\ autorestart' = [autorestart EXCEPT ![Target] = "OFF" \notin inbox[Target]]
            /\ Go(todo)
            /\ UNCHANGED astray
  /\ UNCHANGED <<uses, testFrame, left, files, fresh, tries, pids, auto, sent, macros, cutOff, upset>>

---------------------------------------------------------------------------
(* close.                                                                   *)

CloseTelnet ==
  /\ pc = "unwind" /\ Closing("procserv")
  /\ \E kept \in {sent[Top], <<>>} : sent' = [sent EXCEPT ![Top] = kept]
  /\ inbox' = [inbox EXCEPT ![Top] = {}]
  /\ pc' = "search"
  /\ UNCHANGED <<cur, stack, raising, left, iocs, files, record, history,
                 uses, todo, tries, pids, auto, autorestart, macros, cutOff, astray, upset>>

(* The launcher has gone with all it knew, its procServ may have not.        *)
ClosedServer ==
  /\ Closed
  /\ spared' = spared \cup ({Top} \cap pids)
  /\ autorestart' = [autorestart EXCEPT ![Top] = TRUE]
  /\ cutOff' = cutOff \ {Top} /\ astray' = astray \ {Top} /\ upset' = upset \ {Top}
  /\ UNCHANGED <<left, iocs, files, record, crowded, fresh,
                 uses, todo, tries, pids, auto, sent, inbox, macros>>

(* Processes that may not be looked at are passed over.                      *)
FindsNone == pc = "search" /\ ClosedServer

FindProcesses ==
  /\ pc = "search" /\ Top \in pids
  /\ pc' = "kill"
  /\ UNCHANGED <<cur, stack, raising, left, iocs, files, record, history, procVars>>

(* The kills of one round: killing one of the two processes may remove both, *)
(* the other is then killed in vain; or it has no effect, and the next       *)
(* search finds it again.  The IOC may survive its procServ.                 *)
Killed ==
  \/ UNCHANGED <<pids, auto, process>>
  \/ /\ pids' = pids \ {Top} /\ auto' = [auto EXCEPT ![Top] = TRUE]
     /\ process' \in {process, [process EXCEPT ![Top] = "gone"]}
KillOnce ==  \* mutant: nobody looks again
  /\ pc = "kill" /\ Killed /\ Closed
  /\ UNCHANGED <<left, booted, exiting, inited, files, record, history,
                 uses, todo, tries, sent, inbox, autorestart, macros, cutOff, astray, upset>>
KillServer ==
  /\ pc = "kill" /\ Killed
  /\ pc' = "search"
  /\ UNCHANGED <<cur, stack, raising, left, booted, exiting, inited, files, record, history,
                 uses, todo, tries, sent, inbox, autorestart, macros, cutOff, astray, upset>>

(* Any error other than that the process has gone leaves close.              *)
KillRaises == pc = "kill" /\ ClosedServer

---------------------------------------------------------------------------
(* procServ and its IOC.                                                    *)

Runs(l) == l \in pids
Does(l, cmd) == Runs(l) /\ sent[l] # <<>> /\ Head(sent[l]) = cmd /\ sent' = [sent EXCEPT ![l] = Tail(@)]
serverFrame == <<uses, control, booted, exiting, file, open, record, spared, crowded,
                 todo, tries, pids, autorestart, macros, cutOff>>

Boots(l) == Becomes(l, "booting") /\ inited' = inited \ {l}

(* ^X; without autorestart it may be a mere stop of an IOC that runs.       *)
Restarts(l) ==
  /\ Does(l, "restart")
  /\ \/ Boots(l) /\ fresh' = fresh \cup ({l} \cap Opened)
     \/ ~auto[l] /\ process[l] \in Alive /\ Becomes(l, "gone") /\ UNCHANGED <<inited, fresh>>
  /\ UNCHANGED <<serverFrame, log, auto, inbox, astray, upset>>

Quits(l) ==
  /\ Does(l, "quit")
  /\ Becomes(l, "gone")
  /\ UNCHANGED <<serverFrame, inited, fresh, log, auto, inbox, astray, upset>>

(* The IOC carries out a command and prints its prompt again.               *)
Saves(l) ==
  /\ Does(l, "save")
  /\ IF process[l] = "up" THEN SetLog(NameOf[l], LF!Printed(log[NameOf[l]], Age(l))) ELSE UNCHANGED log
  /\ UNCHANGED <<serverFrame, process, inited, fresh, auto, inbox, astray, upset>>

Toggles(l) ==
  /\ Does(l, "toggle")
  /\ auto' = [auto EXCEPT ![l] = ~@]
  /\ inbox' = [inbox EXCEPT ![l] = @ \cup {IF auto[l] THEN "OFF" ELSE "ON"}]
  /\ UNCHANGED <<serverFrame, process, inited, fresh, log, astray, upset>>

Revives(l) ==
  /\ Runs(l) /\ auto[l] /\ process[l] = "gone"
  /\ Boots(l)
  /\ UNCHANGED <<serverFrame, fresh, log, auto, sent, inbox, astray, upset>>

(* What the IOC prints arrives over telnet too, and may say ON or OFF; it    *)
(* matters to toggle_autorestart only.                                      *)
Noise(l) ==
  /\ Runs(l) /\ process[l] = "up" /\ "toggle" \in uses
  /\ \E word \in {"ON", "OFF"} : inbox' = [inbox EXCEPT ![l] = @ \cup {word}]
  /\ astray' = IF pc = "answer" THEN astray \cup {l} ELSE astray
  /\ UNCHANGED <<serverFrame, process, inited, fresh, log, auto, sent, upset>>

---------------------------------------------------------------------------
Done == pc = "idle" /\ cur = NLaunches /\ stack = <<>> /\ UNCHANGED vars

Test == BeginTests \/ EndTests \/ CallStartWithMacros \/ CallStart \/ LeaveBody \/ JustSend \/ Toggle
Calls == Pass \/ Reraise \/ SetMacros
         \/ SendStart \/ SeesStart \/ PollsStart \/ Reconnect \/ Resend \/ ReconnectRaises \/ StartRaises
         \/ SeesPv
         \/ ReadAnswer
Program ==
  \/ SpawnServer
  \/ (Open \/ Close) /\ UNCHANGED procVars
  \/ Connect \/ ConnectRaises
  \/ Calls
  \/ CloseTelnet \/ FindsNone \/ FindProcesses \/ KillServer \/ KillRaises

Processes ==
  \/ \E l \in Launch :
       (ReadMacros(l) \/ Serve(l) \/ Prompt(l) \/ Exit(l) \/ Die(l)) /\ UNCHANGED procVars
  \/ \E l \in ProcServs :
       Restarts(l) \/ Quits(l) \/ Saves(l) \/ Toggles(l) \/ Revives(l) \/ Noise(l)

Next == Program \/ Test \/ Processes \/ Done

Spec == Init /\ [][Next]_vars

(* The waits of the launchers are bounded; a kill that is tried again and    *)
(* again has its effect at last; nothing is promised of tests, IOCs and      *)
(* procServ.                                                                *)
FairSpec == Spec /\ WF_vars(Program) /\ SF_vars(KillServer /\ pids' # pids)

---------------------------------------------------------------------------
(* Properties                                                               *)

(* Every variable stays in its type.                                        *)
TypeOK ==
  /\ uses \in Uses \cup {{}}
  /\ pc \in {"idle", "check", "spawn", "console", "inits", "exists", "connect", "test", "await",
             "resend", "answer", "unwind", "closing", "search", "kill"}
  /\ cur \in 0..NLaunches /\ stack \in Seq(Launch) /\ raising \in BOOLEAN /\ left \in Nat
  /\ process \in [Launch -> Alive \cup {"none", "gone"}] /\ booted \in [Launch -> MacrosFile]
  /\ exiting \subseteq Launch /\ spared \subseteq ProcServs /\ inited \subseteq Launch
  /\ file \in MacrosFile /\ log \in [Name -> LF!Log] /\ open \subseteq Launch
  /\ RunningIOCs \in [Name -> 0..NLaunches] /\ failed \subseteq Launch
  /\ crowded \subseteq Launch /\ fresh \subseteq Launch
  /\ todo \in Seq([op : {"macros", "start", "exists", "body", "finally", "reraise"},
                   macros : Override \cup {Original}, pending : BOOLEAN])
  /\ tries \in 0..Retries /\ pids \subseteq ProcServs
  /\ auto \in [ProcServs -> BOOLEAN] /\ autorestart \in [ProcServs -> BOOLEAN]
  /\ sent \in [ProcServs -> Seq({"restart", "quit", "save", "toggle"})]
  /\ inbox \in [ProcServs -> SUBSET {"ON", "OFF"}]
  /\ macros \in [ProcServs -> Override \cup {Original}]
  /\ cutOff \subseteq ProcServs /\ astray \subseteq ProcServs /\ upset \subseteq ProcServs

(* An IOC that is open runs with the macros of its own launch, although all  *)
(* launches write the same file: open ends only when the IOC has read it.   *)
OwnMacros ==
  \A l \in Opened \cap Watched :
    Class[l] # "procserv" /\ l \notin crowded /\ process[l] \in Alive => booted[l] = MacrosOf(l)

(* An IOC that is open has been given its initial values (inits).           *)
InitsReachIoc ==
  \A l \in Opened \cap Inits :
    Class[l] # "procserv" /\ l \notin crowded /\ process[l] \in Alive => l \in inited

(* wait_for_console overlooks no text: when its last poll has failed and the *)
(* IOC has printed the text in one piece, the text came after that poll.    *)
TextNotOverlooked ==
  pc = "console" /\ left = 0 /\ process[cur] = "up" /\ cur \notin Halting
    => LF!HasText(log[NameOf[cur]])

(* A launcher closed leaves no procServ process behind, unless close was     *)
(* not let see or kill one.                                                 *)
NoServerLeft ==
  \A l \in ProcServs :
    l \notin Opened /\ (l # cur \/ pc \in {"idle", "unwind"}) /\ l \notin failed \cup spared => ~Runs(l)

(* In the body of a test, once its macros file has been written again, an   *)
(* IOC runs with the macros its launcher holds, however contexts are nested *)
(* and left, unless a restart raised or took an old prompt, or that of an    *)
(* IOC left behind, for the new one.                                        *)
RunsWithItsMacros ==
  Doing("body") /\ file.of = Target /\ Target \notin upset /\ process[Target] \in Serving
    => booted[Target] = file /\ file.macros = macros[Target]

(* Outside of start_with_macros the launcher and its file hold the original *)
(* macros, whatever was raised in the contexts that were left.              *)
MacrosComeBack ==
  Doing("body") /\ Len(todo) = 1 =>
    macros[Target] = Original /\ (file.of = Target => file.macros = Original)

(* The launcher knows whether procServ restarts its IOC, unless a toggle    *)
(* was answered late or by the IOC.                                         *)
AutorestartKnown ==
  \A l \in ProcServs \cap Opened :
    l \notin astray /\ pc # "answer" /\ Runs(l) => autorestart[l] = auto[l]

(* Opening, closing and every call of a test come to an end.                *)
CallsEnd == pc # "idle" /\ ~Doing("body") ~> pc = "idle" \/ Doing("body")

(* The launchers keep the promise of IocLife.                               *)
StateOf(l) ==
  IF l > cur THEN "absent"
  ELSE IF l \in failed THEN "abandoned"
  ELSE IF l \in Opened THEN "up"
  ELSE IF l = cur /\ (Opening \/ pc = "connect") THEN "starting"
  ELSE "closed"
Life == INSTANCE IocLife WITH state <- [l \in Launch |-> StateOf(l)], running <- RunningIOCs
Implements == Life!Spec
=============================================================================
