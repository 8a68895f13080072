----------------------------- MODULE CmdEmulator -----------------------------
(* An emulator that is a command line: CommandLineEmulatorLauncher, with        *)
(* BeckhoffEmulatorLauncher (which only supplies the command and waits for it)  *)
(* and DAQMxEmulatorLauncher (whose closing, disconnecting and reconnecting are *)
(* command lines too).  The commands and the processes they start are external. *)
EXTENDS Integers

CONSTANTS Kids,         \* processes the commands may start
          MaxCommands   \* bound: command lines of one launcher

ASSUME CmdAssumption == MaxCommands \in Nat \ {0} /\ Kids \cap (0..MaxCommands) = {}

Mains == 1..MaxCommands
Procs == Mains \cup Kids
Nobody == 0

VARIABLES
  cpc,       \* new, waiting, open, gone, leaked, child, main
  launcher,  \* [daqmx, wait]: the class, and emulator_wait_to_finish
  back,      \* where the program goes on when a command it waits for has ended
  running,   \* processes that run
  parent,    \* who started a process
  handle,    \* self._process
  todo,      \* children listed and not yet seen to
  ending,    \* processes that were told to terminate
  listed,    \* history: what closing had to end
  log        \* self._log_file is open

cmdVars == <<cpc, launcher, back, running, parent, handle, todo, ending, listed, log>>

CmdInit ==
  /\ cpc = "new"
  /\ launcher \in [daqmx : BOOLEAN, wait : BOOLEAN]
  /\ launcher.daqmx => launcher.wait
  /\ back = "open" /\ running = {} /\ parent = [p \in Procs |-> Nobody]
  /\ handle = Nobody /\ todo = {} /\ ending = {} /\ listed = {} /\ log = FALSE

\* _call_command_line: self._process is the new command's from now on.
CallCommandLine(then) ==
  /\ handle < MaxCommands
  /\ handle' = handle + 1
  /\ running' = running \cup {handle + 1}
  /\ cpc' = IF launcher.wait THEN "waiting" ELSE then
  /\ back' = then

OpenCmd ==
  /\ cpc = "new"
  /\ log' = TRUE /\ CallCommandLine("open")
  /\ UNCHANGED <<launcher, parent, todo, ending, listed>>

\* Popen raises: __enter__ ends, and nothing closes the log.
OpenCmdRaises ==
  /\ cpc = "new" /\ cpc' = "leaked" /\ log' = TRUE
  /\ UNCHANGED <<launcher, back, running, parent, handle, todo, ending, listed>>

\* self._process.wait() has no timeout.
CommandEnds ==
  /\ cpc = "waiting" /\ handle \notin running
  /\ cpc' = back
  /\ UNCHANGED <<launcher, back, running, parent, handle, todo, ending, listed, log>>

\* disconnect_device and reconnect_device, called by a test.
RunCommand ==
  /\ cpc = "open" /\ launcher.daqmx /\ handle < MaxCommands - 1
  /\ CallCommandLine("open")
  /\ UNCHANGED <<launcher, parent, todo, ending, listed, log>>

CloseDaqmx ==
  /\ cpc = "open" /\ launcher.daqmx
  /\ CallCommandLine("closing")
  /\ UNCHANGED <<launcher, parent, todo, ending, listed, log>>

BeginCloseCmd ==
  /\ cpc = "open" /\ ~launcher.daqmx
  /\ cpc' = "closing"
  /\ UNCHANGED <<launcher, back, running, parent, handle, todo, ending, listed, log>>

\* Mutant: children(), without those further down.
ChildrenOnly(p) == {k \in running : parent[k] = p}

\* children(recursive=True), found from a process by way of processes that run.
Descendants(p) ==
  {k \in running \ {p} :
     \A S \in SUBSET running :
       (\A j \in running : parent[j] \in S \cup {p} => j \in S) => k \in S}

\* The reference: a process that runs and what it started, directly or not.
Family(p) ==
  {k \in running :
     /\ p \in running
     /\ \A S \in SUBSET running :
          (p \in S /\ \A j \in running : parent[j] \in S => j \in S) => k \in S}

\* A process that has ended may have children still, or is no such process.
ListChildren ==
  /\ cpc = "closing"
  /\ \/ todo' = Descendants(handle)
     \/ handle \notin running /\ todo' = {}
  /\ listed' = Family(handle)
  /\ cpc' = "child"
  /\ UNCHANGED <<launcher, back, running, parent, handle, ending, log>>

\* is_running and terminate of one child, in the order psutil lists them.
TerminateChild ==
  /\ cpc = "child" /\ ending \cap todo = {}
  /\ \E k \in todo :
       /\ ending' = ending \cup ({k} \cap running)
       /\ todo' = IF k \in running THEN todo ELSE todo \ {k}
  /\ UNCHANGED <<cpc, launcher, back, running, parent, handle, listed, log>>

\* Mutant: one try around the loop, which a child that has gone leaves.
GivesUpOnGone ==
  /\ cpc = "child"
  /\ \E k \in ending \cap todo : k \notin running
  /\ todo' = {}
  /\ UNCHANGED <<cpc, launcher, back, running, parent, handle, ending, listed, log>>

\* child.wait() has no timeout.
ChildGone ==
  /\ cpc = "child"
  /\ \E k \in ending \cap todo : k \notin running /\ todo' = todo \ {k}
  /\ UNCHANGED <<cpc, launcher, back, running, parent, handle, ending, listed, log>>

TerminateMain ==
  /\ cpc = "child" /\ todo = {}
  /\ ending' = ending \cup ({handle} \cap running)
  /\ cpc' = "main"
  /\ UNCHANGED <<launcher, back, running, parent, handle, todo, listed, log>>

CmdClosed ==
  /\ cpc = "main" /\ handle \notin running
  /\ cpc' = "gone" /\ log' = FALSE
  /\ UNCHANGED <<launcher, back, running, parent, handle, todo, ending, listed>>

\* A process starts another, ends by itself, or because it was told to.
Starts(p, k) ==
  /\ p \in running /\ k \in Kids \ running /\ parent[k] = Nobody
  /\ running' = running \cup {k} /\ parent' = [parent EXCEPT ![k] = p]
  /\ UNCHANGED <<cpc, launcher, back, handle, todo, ending, listed, log>>

Ends(p) ==
  /\ p \in running
  /\ running' = running \ {p}
  /\ UNCHANGED <<cpc, launcher, back, parent, handle, todo, ending, listed, log>>

CmdProgram ==
  \/ OpenCmd \/ CommandEnds \/ ListChildren \/ TerminateChild \/ ChildGone
  \/ TerminateMain \/ CmdClosed

CmdTest == RunCommand \/ CloseDaqmx \/ BeginCloseCmd

CmdWorld ==
  \/ OpenCmdRaises
  \/ \E p \in Procs : Ends(p) \/ \E k \in Kids : Starts(p, k)

CmdNext == CmdProgram \/ CmdTest \/ CmdWorld
==============================================================================
