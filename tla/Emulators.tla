------------------------------ MODULE Emulators ------------------------------
(* The launchers of emulator_launcher.py together: the module under test has    *)
(* either emulators of Lewis or a command line, as its IOCS list says.          *)
EXTENDS LewisBackdoor, CmdEmulator

VARIABLE class   \* which launcher class run_tests takes from the module

vars == <<class, lewisVars, cmdVars>>

Init ==
  /\ class \in {"lewis", "cmd"} /\ LewisInit /\ CmdInit
  /\ class = "lewis" => ~launcher.wait

LewisStep == class = "lewis" /\ LewisNext /\ UNCHANGED <<class, cmdVars>>
CmdStep == class = "cmd" /\ CmdNext /\ UNCHANGED <<class, lewisVars>>

Next == LewisStep \/ CmdStep

Spec == Init /\ [][Next]_vars

\* A process that was told to terminate, or whose end the program waits for as the
\* end of a command, does end.
Awaited(p) ==
  /\ p \in ending \/ (cpc = "waiting" /\ p = handle)
  /\ class = "cmd" /\ Ends(p) /\ UNCHANGED <<class, lewisVars>>

\* The program does not stop by itself; when the test body is left to the test.
FairSpec ==
  /\ Spec
  /\ WF_vars(class = "lewis" /\ LewisProgram /\ UNCHANGED <<class, cmdVars>>)
  /\ WF_vars(class = "cmd" /\ CmdProgram /\ UNCHANGED <<class, lewisVars>>)
  /\ \A p \in Procs : WF_vars(Awaited(p))

-----------------------------------------------------------------------------
\* The state has the shape its comments give it, and no wait is past its limit.
TypeOK ==
  /\ pc \in {"opening", "test", "poll", "unwind", "closing", "gone", "leaked"}
  /\ next \in 1..(NEmulators + 1)
  /\ alive \in [Addrs -> BOOLEAN] /\ bound \in [Addrs -> BOOLEAN]
  /\ port \in [Addrs -> Ports]
  /\ device \in [Addrs -> [Vars -> Values]]
  /\ flag \in [Addrs -> {"None", "True", "False"}]
  /\ polls \in 0..CtlPolls /\ waits \in Nat /\ calls \in 0..MaxCalls
  /\ late \subseteq Request /\ Cardinality(late) <= MaxLate
  /\ Len(stack) <= Depth /\ raising \in BOOLEAN
  /\ missed \subseteq Addrs \X Vars /\ seen \subseteq Values
  /\ cpc \in {"new", "waiting", "open", "closing", "child", "main", "gone", "leaked"}
  /\ running \subseteq Procs /\ todo \subseteq Kids /\ ending \subseteq Procs
  /\ handle \in 0..MaxCommands

ContextVars == {c.var : c \in {d \in Calls : d.kind = "enter"}}
LinkVars == {c.var : c \in {d \in Calls : d.kind = "off"}}

\* Between two calls of a test a device is as the launcher left it, except for variables
\* whose last command was not carried out in time, and emulators given one control port:
\*  - it is disconnected just when a context that disconnected it is open and no context
\*    inside it has connected it again (backdoor_simulate_disconnected_device, however
\*    its body ended);
\*  - _connected agrees with the simulation: connect and disconnect send no command on
\*    its word.
DeviceAsCommanded ==
  pc = "test" /\ ~shared =>
    /\ \A a \in Addrs, v \in ContextVars :
         <<a, v>> \notin missed =>
           (device[a][v] = "False"
              <=> \E i \in 1..Len(stack) :
                    stack[i].held /\ <<stack[i].on, stack[i].var>> = <<a, v>>)
    /\ \A a \in Addrs, v \in LinkVars :
         <<a, v>> \notin missed => device[a][v] = flag[a]

\* The latest call was an assertion of this kind, and it passed.
Passed(kind) == pc \in {"test", "unwind"} /\ verdict = "passed" /\ call.kind = kind

\* An assertion that an emulator has a value, on its own or after a setting, passes
\* only if the variable had that value at some time since the call began: the answer
\* to another command, or none, does not count
\* (assert_that_emulator_value_is, backdoor_set_and_assert_set).
PassedWasTrue == Passed("is") /\ ~shared => call.val \in seen

\* What assert_that_emulator_value_is_not says of itself: the variable "does not have
\* the passed value and [...] does not become the passed value within the timeout".
EmulatorIsNot == Passed("isnot") /\ ~shared => call.val \notin seen

\* Two emulators have one control port only when the second search came before the
\* first emulator had bound the port it was given (get_free_ports closes its sockets).
PortsDiffer ==
  \A a, b \in Addrs : a # b /\ alive[a] /\ alive[b] /\ port[a] = port[b] => shared

\* After a normal closing no emulator runs, although one may have ended by itself
\* before; of a command line, neither the process nor anything it had started, directly
\* or not, when its children were listed.
NothingLeft ==
  /\ pc = "gone" => \A a \in Addrs : ~alive[a]
  /\ cpc = "gone" => handle \notin running /\ listed \cap running = {}

\* The program is not in the middle of anything.
Settled == IF class = "lewis" THEN pc \in {"test", "gone", "leaked"}
                              ELSE cpc \in {"open", "gone", "leaked"}

\* Every call of a test, every opening and every closing ends, whatever emulators,
\* lewis-control and commands do, as long as processes end that were told to.
CallsEnd == ~Settled ~> Settled
==============================================================================
