------------------------------ MODULE IocStart ------------------------------
(***************************************************************************)
(* BaseLauncher.open and the closing of IocLauncher and PythonIOCLauncher,  *)
(* one launch after another, as the devices of a module and of the modules  *)
(* after it are opened and closed.  The launches share the macros file and, *)
(* when they have the same name, the log file and the PVs.                  *)
(* The specification is in ProcServ, which adds the third launcher.         *)
(***************************************************************************)
EXTENDS Integers, Sequences

CONSTANTS
  NLaunches,  \* launches are 1..NLaunches, opened in this order
  Name,       \* IOC names
  NameOf,     \* NameOf[l]: the IOC launched
  LastOf,     \* the launches that are the last device of their module
  Class,      \* Class[l]: its ioc_launcher_class
  Watched,    \* launches with a pv_for_existence
  Inits,      \* launches with initial values to set
  Override,   \* the macros start_with_macros is called with
  ConsolePolls, \* polls of wait_for_console, one per second
  ClosePolls, \* polls of IocLauncher.close
  Logged,     \* names whose log file holds the text of an earlier invocation
  Mortal,     \* launches whose IOC may end by itself
  Halting     \* launches whose IOC may print the started text in two writes

Launch == 1..NLaunches
Original == "original"

ASSUME LaunchesAssumption ==
  /\ NLaunches \in Nat \ {0} /\ ConsolePolls \in Nat \ {0} /\ ClosePolls \in Nat \ {0}
  /\ NameOf \in [Launch -> Name] /\ Class \in [Launch -> {"ioc", "python", "procserv"}]
  /\ LastOf \subseteq Launch /\ Watched \subseteq Launch /\ Mortal \subseteq Launch /\ Halting \subseteq Launch
  /\ Inits \subseteq Launch
  /\ Original \notin Override

VARIABLES
  pc,       \* where the framework is
  cur,      \* the launch opened last
  stack,    \* the launches that are open, the last one last
  raising,  \* open has raised, CheckExistencePv.__exit__ is still to come
  left,     \* polls left in the current wait
  process,  \* the IOC process of each launch
  booted,   \* history: whose macros it read, and which
  exiting,  \* launches told to exit
  spared,   \* history: launches whose close left procServ processes it may not see or kill
  inited,   \* IOCs that were given initial values
  file,     \* the macros file
  log,      \* the log file of each name
  open,     \* launches whose LogFileManager is open
  RunningIOCs,
  failed,   \* launches whose open raised
  crowded,  \* history: launches begun when an IOC of their name might still run
  fresh     \* history: IOCs of open launches begun since the start that is being waited for

LF == INSTANCE LogFile WITH Writer <- {"earlier", "now"}

NoLaunch == 0
NoMacros == [of |-> NoLaunch, macros |-> Original]
MacrosFile == [of : Launch \cup {NoLaunch}, macros : Override \cup {Original}]

control == <<pc, cur, stack, raising, left>>
iocs == <<process, booted, exiting, inited>>
files == <<file, log, open>>
record == <<RunningIOCs, failed>>
history == <<spared, crowded, fresh>>
startVars == <<control, iocs, files, record, history>>

---------------------------------------------------------------------------
(* A process reads the macros file when it begins to boot, serves its PVs   *)
(* from iocInit on, and prints its prompt at the end of st.cmd.             *)
Alive == {"booting", "configured", "serving", "up"}
Serving == {"serving", "up"}
ServersOf(n) == {l \in Launch : NameOf[l] = n /\ process[l] \in Serving}

(* With no existence PV, CheckExistencePv does nothing and close looks for  *)
(* a PV nobody serves.                                                      *)
PvFound(l) == l \in Watched /\ ServersOf(NameOf[l]) # {}

SetLog(n, new) == log' = [log EXCEPT ![n] = new]
Aged(lg) == [lg EXCEPT !.unread = IF @ = {} THEN {} ELSE {"earlier"}]

Fails(l) ==
  /\ failed' = failed \cup {l} /\ pc' = "unwind" /\ raising' = FALSE
  /\ UNCHANGED RunningIOCs

---------------------------------------------------------------------------
StartInit ==
  /\ pc = "idle" /\ cur = NoLaunch /\ stack = <<>> /\ raising = FALSE /\ left = 0
  /\ process = [l \in Launch |-> "none"] /\ booted = [l \in Launch |-> NoMacros]
  /\ exiting = {} /\ spared = {} /\ inited = {}
  /\ file = NoMacros
  /\ log = [n \in Name |-> [before |-> n \in Logged, unread |-> {}, half |-> "none"]]
  /\ open = {} /\ RunningIOCs = [n \in Name |-> NoLaunch] /\ failed = {}
  /\ crowded = {} /\ fresh = {}

---------------------------------------------------------------------------
(* open.  The devices of a module are opened one after another; after one   *)
(* that failed, all are closed.                                             *)
ModuleOpen == stack # <<>> /\ cur \in LastOf
BeginOpen ==
  /\ pc = "idle" /\ cur < NLaunches /\ ~ModuleOpen
  /\ cur' = cur + 1 /\ pc' = "check"
  /\ UNCHANGED <<stack, raising, left, iocs, files, record, history>>

RefuseOpen ==
  /\ pc = "check" /\ PvFound(cur)
  /\ Fails(cur)
  /\ UNCHANGED <<cur, stack, left, iocs, files, history>>

MacrosOf(l) == [of |-> l, macros |-> Original]

(* create_macros_file and LogFileManager.__init__                           *)
PrepareFiles ==
  /\ pc = "check" /\ ~PvFound(cur)
  /\ file' = MacrosOf(cur)
  /\ SetLog(NameOf[cur], LF!Reopened(log[NameOf[cur]], "earlier"))
  /\ open' = open \cup {cur}
  /\ pc' = "spawn"
  /\ UNCHANGED <<cur, stack, raising, left, iocs, record, history>>

Spawn ==
  /\ pc = "spawn"
  /\ process' = [process EXCEPT ![cur] = "booting"]
  /\ SetLog(NameOf[cur], Aged(log[NameOf[cur]]))
  /\ crowded' = IF \E l \in Launch :
                     NameOf[l] = NameOf[cur] /\ (process[l] \in Alive \/ l \in failed \cup spared)
                  THEN crowded \cup {cur} ELSE crowded
  /\ fresh' = {cur}
  /\ pc' = "console" /\ left' = ConsolePolls
  /\ UNCHANGED <<cur, stack, raising, booted, exiting, inited, file, open, record, spared>>

(* Popen raises, or the process is gone before the return is written to it. *)
SpawnRaises ==
  /\ pc = "spawn"
  /\ raising' = TRUE /\ pc' = "exists"
  /\ UNCHANGED <<cur, stack, left, iocs, files, record, history>>

(* wait_for_console.                                                        *)
ConsoleHit(n) ==
  /\ left > 0 /\ LF!HasText(log[n])
  /\ SetLog(n, LF!AllRead(log[n]))
  /\ fresh' = {} /\ left' = 0
  /\ UNCHANGED <<file, open>>
EndlessMiss(n) ==  \* mutant: the polls are not counted
  /\ left > 0 /\ ~LF!HasText(log[n])
  /\ SetLog(n, LF!AllRead(log[n]))
  /\ UNCHANGED <<left, file, open, fresh>>
UnboundedMiss(n) ==  \* mutant: polls beyond the timeout
  /\ ~LF!HasText(log[n])
  /\ left' = left - 1
  /\ SetLog(n, LF!AllRead(log[n]))
  /\ UNCHANGED <<file, open, fresh>>
DeafMiss(n) ==  \* mutant: the text may be in a line that is not looked at
  /\ left > 0
  /\ left' = left - 1
  /\ SetLog(n, LF!AllRead(log[n]))
  /\ UNCHANGED <<file, open, fresh>>
ConsoleMiss(n) ==
  /\ left > 0 /\ ~LF!HasText(log[n])
  /\ left' = left - 1
  /\ SetLog(n, LF!AllRead(log[n]))
  /\ UNCHANGED <<file, open, fresh>>

SeesConsole ==
  /\ pc = "console" /\ ConsoleHit(NameOf[cur])
  /\ pc' = IF cur \in Inits THEN "inits" ELSE "exists"
  /\ UNCHANGED <<cur, stack, raising, iocs, record, spared, crowded>>

PollsConsole ==
  /\ pc = "console" /\ ConsoleMiss(NameOf[cur])
  /\ UNCHANGED <<pc, cur, stack, raising, iocs, record, spared, crowded>>

(* There is no try after the last sleep.                                    *)
ConsoleTimesOut ==
  /\ pc = "console" /\ left = 0
  /\ raising' = TRUE /\ pc' = "exists" /\ fresh' = {}
  /\ UNCHANGED <<cur, stack, left, iocs, files, record, spared, crowded>>

(* set_pv_value waits until the PV exists, and raises when it does not.     *)
SetInitsUnseen ==  \* mutant: nobody waits for the PV, the write is lost
  /\ pc = "inits"
  /\ inited' = inited \cup ServersOf(NameOf[cur])
  /\ pc' = "exists"
  /\ UNCHANGED <<cur, stack, raising, left, process, booted, exiting, files, record, history>>

SetInits ==
  /\ pc = "inits"
  /\ \E s \in ServersOf(NameOf[cur]) : inited' = inited \cup {s}
  /\ pc' = "exists"
  /\ UNCHANGED <<cur, stack, raising, left, process, booted, exiting, files, record, history>>

InitsRaise ==
  /\ pc = "inits" /\ ServersOf(NameOf[cur]) = {}
  /\ raising' = TRUE /\ pc' = "exists"
  /\ UNCHANGED <<cur, stack, left, iocs, files, record, history>>

(* CheckExistencePv.__exit__, then add_ioc.                                 *)
Assumed(l) == TRUE  \* mutant: the PV is not looked for
Exists(l) == l \in Watched => PvFound(l)

EndOpen ==
  /\ pc = "exists" /\ ~raising /\ Exists(cur)
  /\ RunningIOCs' = [RunningIOCs EXCEPT ![NameOf[cur]] = cur]
  /\ IF Class[cur] = "procserv"
       THEN pc' = "connect" /\ UNCHANGED stack
       ELSE pc' = "idle" /\ stack' = Append(stack, cur)
  /\ UNCHANGED <<cur, raising, left, iocs, files, failed, history>>

(* It asserts that the PV exists also when the body raised.                 *)
OpenRaises ==
  /\ pc = "exists" /\ (raising \/ ~Exists(cur))
  /\ Fails(cur)
  /\ UNCHANGED <<cur, stack, left, iocs, files, history>>

---------------------------------------------------------------------------
(* close: in reverse order, when the tests are over or an open has raised.  *)

Top == stack[Len(stack)]
ClosedFirst ==  \* mutant: the device opened first is closed first
  /\ stack' = Tail(stack) /\ pc' = "unwind"
  /\ UNCHANGED <<cur, raising>>
Closed ==
  /\ stack' = SubSeq(stack, 1, Len(stack) - 1) /\ pc' = "unwind"
  /\ UNCHANGED <<cur, raising>>
Closing(c) == stack # <<>> /\ Class[Top] = c

BeginUnwind ==
  /\ pc = "idle" /\ ModuleOpen
  /\ pc' = "unwind"
  /\ UNCHANGED <<cur, stack, raising, left, iocs, files, record, history>>

EndUnwind ==
  /\ pc = "unwind" /\ stack = <<>>
  /\ pc' = "idle"
  /\ UNCHANGED <<cur, stack, raising, left, iocs, files, record, history>>

TellToExit ==
  /\ pc = "unwind" /\ Closing("ioc") /\ process[Top] \in Alive
  /\ exiting' = exiting \cup {Top}
  /\ pc' = "closing" /\ left' = ClosePolls
  /\ UNCHANGED <<cur, stack, raising, process, booted, inited, files, record, history>>

(* The pipe of a process that has ended; the log stays open.                *)
CloseRaises ==
  /\ pc = "unwind" /\ Closing("ioc") /\ process[Top] \notin Alive
  /\ Closed
  /\ UNCHANGED <<left, iocs, files, record, history>>

SeenGone ==
  /\ pc = "closing" /\ ~PvFound(Top)
  /\ open' = open \ {Top} /\ left' = 0
  /\ Closed
  /\ UNCHANGED <<iocs, file, log, record, history>>

StillThere ==
  /\ pc = "closing" /\ PvFound(Top) /\ left > 0
  /\ left' = left - 1
  /\ UNCHANGED <<pc, cur, stack, raising, iocs, files, record, history>>

(* Whatever kill does, close goes on.                                       *)
Kill(l) == process' \in {process, [process EXCEPT ![l] = "gone"]}

KillIoc ==
  /\ pc = "closing" /\ PvFound(Top) /\ left = 0
  /\ Kill(Top)
  /\ open' = open \ {Top}
  /\ Closed
  /\ UNCHANGED <<left, booted, exiting, inited, file, log, record, history>>

KillPython ==
  /\ pc = "unwind" /\ Closing("python")
  /\ Kill(Top)
  /\ open' = open \ {Top}
  /\ Closed
  /\ UNCHANGED <<left, booted, exiting, inited, file, log, record, history>>

---------------------------------------------------------------------------
(* The IOC processes.                                                       *)

Becomes(l, ph) == process' = [process EXCEPT ![l] = ph]
Age(l) == IF l \in fresh THEN "now" ELSE "earlier"

ReadMacros(l) ==
  /\ process[l] = "booting" /\ Becomes(l, "configured")
  /\ booted' = [booted EXCEPT ![l] = file]
  /\ UNCHANGED <<control, exiting, inited, files, record, history>>

Serve(l) ==
  /\ process[l] = "configured" /\ Becomes(l, "serving")
  /\ UNCHANGED <<control, booted, exiting, inited, files, record, history>>

Prompt(l) ==
  /\ process[l] = "serving"
  /\ LET lg == log[NameOf[l]] IN
     \/ Becomes(l, "up") /\ SetLog(NameOf[l], LF!Printed(lg, Age(l)))
     \/ l \in Halting /\ lg.half = "none" /\ UNCHANGED process /\ SetLog(NameOf[l], LF!PrintedFirst(lg))
     \/ l \in Halting /\ lg.half # "none" /\ Becomes(l, "up") /\ SetLog(NameOf[l], LF!PrintedRest(lg, Age(l)))
  /\ UNCHANGED <<control, booted, exiting, inited, file, open, record, history>>

(* An IOC reads its input when it has started.                              *)
Exit(l) ==
  /\ l \in exiting /\ process[l] = "up" /\ Becomes(l, "gone")
  /\ UNCHANGED <<control, booted, exiting, inited, files, record, history>>

Die(l) ==
  /\ l \in Mortal /\ process[l] \in Alive /\ Becomes(l, "gone")
  /\ UNCHANGED <<control, booted, exiting, inited, files, record, history>>

---------------------------------------------------------------------------
Opening == pc \in {"check", "spawn", "console", "inits", "exists"}

Open == BeginOpen \/ RefuseOpen \/ PrepareFiles \/ SpawnRaises
        \/ SeesConsole \/ PollsConsole \/ ConsoleTimesOut
        \/ SetInits \/ InitsRaise \/ EndOpen \/ OpenRaises
Close == BeginUnwind \/ EndUnwind \/ TellToExit \/ CloseRaises
         \/ SeenGone \/ StillThere \/ KillIoc \/ KillPython
=============================================================================
