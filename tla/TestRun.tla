------------------------------ MODULE TestRun ------------------------------
(***************************************************************************)
(* One invocation of run_tests.py: the loop over (mode, module), and for   *)
(* each module the nest of context managers that changes the environment,  *)
(* launches each device (its emulator, then its IOC), runs the tests, and  *)
(* unwinds.  The launchers are LewisLauncher, NullEmulatorLauncher,        *)
(* MultiLewisLauncher and IocLauncher; their processes are seen only as    *)
(* running or not, and an IOC as serving its existence PV or not.          *)
(***************************************************************************)
EXTENDS Integers, Sequences

CONSTANTS
  NModules,   \* the modules named on the command line, in sorted order, are 1..NModules
  Mode,       \* the test modes
  RecSim,     \* the mode in which no emulator process is started
  ModesOf,    \* ModesOf[m]: TEST_MODES of module m
  Enabled,    \* modules whose build architecture fits
  Requested,  \* modes admitted by --tests-mode
  IocName, EmulatorId,
  Suites,     \* the IOCS lists of the modules, one element for each choice of modules
  MaxPass,    \* bound on the passes of the outer loop
  UserEnv,    \* EPICS_CA_ADDR_LIST when the program is started
  None,       \* no launcher, no mode
  Faults      \* what the environment may do wrong in this instance

Module == 1..NModules
FaultKind == {"build",        \* building the launchers of a module raises
              "emulator",     \* opening an emulator raises
              "ioc",          \* an IOC does not come up in time
              "dies",         \* an IOC process ends by itself
              "stuck",        \* an IOC survives being closed
              "lateBoot",     \* an abandoned IOC finishes booting later
              "interrupt"}    \* Ctrl-C
Launcher == [pass : Nat, mod : Module, mode : Mode, dev : Nat]
Job == Module \X Mode
IocEntry == [ioc : IocName, kind : {"none", "emulator", "emulators"}, id : EmulatorId]

ASSUME ConstantsAssumption ==
  /\ NModules \in Nat \ {0} /\ MaxPass \in Nat \ {0}
  /\ RecSim \in Mode
  /\ ModesOf \in [Module -> SUBSET Mode]
  /\ Enabled \subseteq Module /\ Requested \subseteq Mode
  /\ Suites \subseteq [Module -> Seq(IocEntry)]
  /\ Faults \subseteq FaultKind
  /\ UserEnv \in {"unset", "site"}
  /\ None \notin Mode \cup Launcher \cup Job

VARIABLES
  Iocs,       \* Iocs[m]: the IOCS list of module m
  repeat, ask, \* --repeat-until-fail, --ask-before-running
  pc,         \* where the framework is
  pass, modesLeft, mode, mod,   \* the loops
  dev,        \* the device being opened
  stack,      \* the entered contexts, innermost last
  exc,        \* the exception being propagated
  env,        \* EPICS_CA_ADDR_LIST of the process
  oldEnv,     \* its value saved by modified_environment
  testMode,   \* IOCRegister.test_mode
  emulators,  \* launchers whose emulator process runs
  RunningEmulators, RunningIOCs, \* the two registers
  booting, serving, \* launchers whose IOC process runs, without and with its PVs
  prompted,   \* log files that hold the text an IOC prints when started
  late,       \* history: IOCs that came up after the check made for another of their name
  verdict,    \* what runner.run said of the module being tested
  results,    \* test_results of this pass
  exit,       \* the exit status
  testsOk,    \* history: modules whose runner reported success, this pass
  troubled,   \* history: modules one of whose devices raised, this pass
  bereaved,   \* history: modules one of whose IOC processes ended by itself, this pass
  stopped     \* history: the module during which the user stopped the run

options == <<Iocs, repeat, ask>>
loopVars == <<pass, modesLeft, mode, mod, results, exit>>
envVars == <<env, oldEnv, testMode>>
emuVars == <<emulators, RunningEmulators>>
iocVars == <<booting, serving, RunningIOCs, prompted, late>>
history == <<testsOk, troubled, bereaved, stopped>>
vars == <<options, pc, dev, stack, exc, verdict, loopVars, envVars, emuVars, iocVars, history>>

Context == [kind : {"emulator", "ioc"}, dev : Nat]
Address == {"unset", "site", "empty", "broadcast"}

---------------------------------------------------------------------------
(* The current module, its devices and their launchers.                     *)

ThisJob == <<mod, mode>>
LauncherOf(d) == [pass |-> pass, mod |-> mod, mode |-> mode, dev |-> d]
NameOf(l) == Iocs[l.mod][l.dev].ioc
LogFile(l) == <<l.mod, l.mode, NameOf(l)>>

(* An "emulator" entry always has a launcher, NullEmulatorLauncher in       *)
(* RECSIM; an "emulators" entry has none in RECSIM.                         *)
HasEmulator(d) ==
  LET kind == Iocs[mod][d].kind
  IN  kind = "emulator" \/ (kind = "emulators" /\ mode # RecSim)

(* A LewisLauncher registers under its id, a MultiLewisLauncher under the   *)
(* name of the test module.                                                 *)
Key == EmulatorId \cup Module
ModuleKey(d) == mod  \* mutant: every launcher registers under the module
KeyOf(d) == IF Iocs[mod][d].kind = "emulators" THEN mod ELSE Iocs[mod][d].id

ServersOf(n) == {l \in serving : NameOf(l) = n}

(* What assert_that_pv_does_not_exist finds out.                            *)
NameNeverInUse(n) == FALSE  \* mutant: no existence check
NameInUse(n) == ServersOf(n) # {}

Top == stack[Len(stack)]
Pop == SubSeq(stack, 1, Len(stack) - 1)

Selected(m, mo) == mo \in ModesOf[m] /\ mo \in Requested /\ m \in Enabled

Raise(e) == exc' = e /\ pc' = "unwind"
Trouble == troubled' = troubled \cup {ThisJob}

---------------------------------------------------------------------------
Init ==
  /\ Iocs \in Suites /\ repeat \in BOOLEAN /\ ask \in BOOLEAN
  /\ pc = "loop" /\ pass = 1 /\ mod = NModules + 1 /\ mode = None
  /\ modesLeft = UNION {ModesOf[m] : m \in Module}
  /\ dev = 0 /\ stack = <<>> /\ exc = "none" /\ verdict = "none"
  /\ env = UserEnv /\ oldEnv = env /\ testMode = None
  /\ emulators = {} /\ RunningEmulators = [k \in Key |-> None]
  /\ booting = {} /\ serving = {} /\ RunningIOCs = [n \in IocName |-> None]
  /\ prompted \in {{}, Module \X Mode \X IocName}  \* log files outlive an invocation
  /\ late = {}
  /\ results = [j \in Job |-> "none"] /\ exit = "none"
  /\ testsOk = {} /\ troubled = {} /\ bereaved = {} /\ stopped = None

(* load_and_run_tests: modes is a set, so the order of the modes is open;   *)
(* the modules of one mode come in sorted order.                            *)
PickMode ==
  /\ pc = "loop" /\ mod = NModules + 1
  /\ \E mo \in modesLeft : mode' = mo /\ modesLeft' = modesLeft \ {mo}
  /\ mod' = 1
  /\ UNCHANGED <<options, pc, dev, stack, exc, verdict, pass, results, exit, envVars, emuVars, iocVars, history>>

SkipModule ==
  /\ pc = "loop" /\ mod \in Module /\ ~Selected(mod, mode)
  /\ mod' = mod + 1
  /\ UNCHANGED <<options, pc, dev, stack, exc, verdict, pass, modesLeft, mode, results, exit,
                 envVars, emuVars, iocVars, history>>

(* clean_environment and make_device_launchers_from_module run outside the  *)
(* try of run_tests: what they raise ends the whole invocation.             *)
LaunchersRaise ==
  /\ pc = "loop" /\ mod \in Module /\ Selected(mod, mode)
  /\ "build" \in Faults \/ Iocs[mod] = <<>>
  /\ pc' = "exited" /\ exit' = "one"
  /\ UNCHANGED <<options, dev, stack, exc, verdict, pass, modesLeft, mode, mod, results,
                 envVars, emuVars, iocVars, history>>

StartModule ==
  /\ pc = "loop" /\ mod \in Module /\ Selected(mod, mode) /\ Iocs[mod] # <<>>
  /\ pc' = "emulator" /\ dev' = 1 /\ exc' = "none" /\ verdict' = "none"
  /\ testMode' = mode
  /\ oldEnv' = env /\ env' = "broadcast"
  /\ late' = {}
  /\ UNCHANGED <<options, stack, loopVars, emuVars, booting, serving, RunningIOCs, prompted, history>>

---------------------------------------------------------------------------
(* Entering the devices.                                                    *)

OpenEmulator ==
  /\ pc = "emulator" /\ HasEmulator(dev)
  /\ emulators' = IF mode = RecSim THEN emulators ELSE emulators \cup {LauncherOf(dev)}
  /\ RunningEmulators' = [RunningEmulators EXCEPT ![KeyOf(dev)] = LauncherOf(dev)]
  /\ stack' = Append(stack, [kind |-> "emulator", dev |-> dev])
  /\ pc' = "ioc"
  /\ UNCHANGED <<options, dev, exc, verdict, loopVars, envVars, iocVars, history>>

SkipEmulator ==  \* mutant: the emulator of a device is left out
  /\ pc = "emulator"
  /\ pc' = "ioc"
  /\ UNCHANGED <<options, dev, stack, exc, verdict, loopVars, envVars, emuVars, iocVars, history>>

NoEmulator ==
  /\ pc = "emulator" /\ ~HasEmulator(dev)
  /\ pc' = "ioc"
  /\ UNCHANGED <<options, dev, stack, exc, verdict, loopVars, envVars, emuVars, iocVars, history>>

(* MultiLewisLauncher opens one after another and closes none when a later  *)
(* one raises.                                                              *)
OpenEmulatorRaises ==
  /\ "emulator" \in Faults
  /\ pc = "emulator" /\ HasEmulator(dev) /\ mode # RecSim
  /\ \/ UNCHANGED emulators
     \/ /\ Iocs[mod][dev].kind = "emulators"
        /\ emulators' = emulators \cup {LauncherOf(dev)}
  /\ Raise("error") /\ Trouble
  /\ UNCHANGED <<options, dev, stack, verdict, loopVars, envVars, RunningEmulators, iocVars,
                 testsOk, bereaved, stopped>>

(* CheckExistencePv.__enter__: nobody may serve the PV yet.                 *)
RefuseIoc ==
  /\ pc = "ioc" /\ NameInUse(NameOf(LauncherOf(dev)))
  /\ Raise("error") /\ Trouble
  /\ UNCHANGED <<options, dev, stack, verdict, loopVars, envVars, emuVars, iocVars,
                 testsOk, bereaved, stopped>>

SpawnIoc ==
  /\ pc = "ioc" /\ ~NameInUse(NameOf(LauncherOf(dev)))
  /\ booting' = booting \cup {LauncherOf(dev)}
  /\ pc' = "console"
  /\ UNCHANGED <<options, dev, stack, exc, verdict, loopVars, envVars, emuVars, serving,
                 RunningIOCs, prompted, late, history>>

SkipLast ==  \* mutant: the last device is not opened
  IF dev + 1 < Len(Iocs[mod]) THEN "emulator" ELSE IF ask THEN "prompt" ELSE "testing"
AfterDevice ==
  IF dev < Len(Iocs[mod]) THEN "emulator" ELSE IF ask THEN "prompt" ELSE "testing"

(* wait_for_console found the started text in the log, and                  *)
(* CheckExistencePv.__exit__ found the PV.                                  *)
IocOpened ==
  LET l == LauncherOf(dev) IN
  /\ pc = "console" /\ LogFile(l) \in prompted /\ ServersOf(NameOf(l)) # {}
  /\ RunningIOCs' = [RunningIOCs EXCEPT ![NameOf(l)] = l]
  /\ stack' = Append(stack, [kind |-> "ioc", dev |-> dev])
  /\ dev' = dev + 1
  /\ pc' = AfterDevice
  /\ UNCHANGED <<options, exc, verdict, loopVars, envVars, emuVars, booting, serving, prompted, late, history>>

(* One of the waits timed out, or setting an initial PV failed.  close is   *)
(* not called for a launcher whose open raised: its process stays.          *)
WaitForever == FALSE  \* mutant: the waits have no timeout
GivesUp == "ioc" \in Faults \/ LauncherOf(dev) \notin booting \cup serving

OpenIocRaises ==
  /\ pc = "console" /\ GivesUp
  /\ Raise("error") /\ Trouble
  /\ UNCHANGED <<options, dev, stack, verdict, loopVars, envVars, emuVars, iocVars,
                 testsOk, bereaved, stopped>>

---------------------------------------------------------------------------
(* The tests, and the user.                                                 *)

AnswerYes ==
  /\ pc = "prompt" /\ pc' = "testing"
  /\ UNCHANGED <<options, dev, stack, exc, verdict, loopVars, envVars, emuVars, iocVars, history>>

AnswerNo ==
  /\ pc = "prompt" /\ pc' = "parked"
  /\ UNCHANGED <<options, dev, stack, exc, verdict, loopVars, envVars, emuVars, iocVars, history>>

AnswerQuit ==
  /\ pc = "parked"
  /\ Raise("exit") /\ stopped' = ThisJob
  /\ UNCHANGED <<options, dev, stack, verdict, loopVars, envVars, emuVars, iocVars, testsOk, troubled, bereaved>>

RunTests ==
  /\ pc = "testing"
  /\ \/ verdict' = "pass" /\ testsOk' = testsOk \cup {ThisJob}
     \/ verdict' = "fail" /\ UNCHANGED testsOk
  /\ pc' = "unwind"
  /\ UNCHANGED <<options, dev, stack, exc, loopVars, envVars, emuVars, iocVars, troubled, bereaved, stopped>>

(* Within the body Ctrl-C becomes sys.exit(0); elsewhere the                *)
(* KeyboardInterrupt itself propagates.  It can leave behind the process    *)
(* an open had started, and the context a close was working on.  While an   *)
(* IOC starts, CheckExistencePv.__exit__ still asserts that its PV exists,  *)
(* and its AssertionError replaces the KeyboardInterrupt.                   *)
InterruptBody ==
  /\ "interrupt" \in Faults
  /\ pc \in {"prompt", "parked", "testing"}
  /\ Raise("exit") /\ stopped' = ThisJob
  /\ UNCHANGED <<options, dev, stack, verdict, loopVars, envVars, emuVars, iocVars, testsOk, troubled, bereaved>>

InterruptOpening ==
  /\ "interrupt" \in Faults
  /\ pc \in {"emulator", "ioc"}
  /\ \/ UNCHANGED emulators
     \/ /\ pc = "emulator" /\ HasEmulator(dev) /\ mode # RecSim
        /\ emulators' = emulators \cup {LauncherOf(dev)}
  /\ Raise("interrupt") /\ stopped' = ThisJob
  /\ UNCHANGED <<options, dev, stack, verdict, loopVars, envVars, RunningEmulators, iocVars,
                 testsOk, troubled, bereaved>>

InterruptBooting ==
  /\ "interrupt" \in Faults
  /\ pc = "console" /\ stopped' = ThisJob
  /\ \/ Raise("interrupt") /\ UNCHANGED troubled
     \/ GivesUp /\ Raise("error") /\ Trouble
  /\ UNCHANGED <<options, dev, stack, verdict, loopVars, envVars, emuVars, iocVars, testsOk, bereaved>>

InterruptClosing ==
  /\ "interrupt" \in Faults
  /\ pc = "unwind" /\ stack # <<>>
  /\ Raise("interrupt") /\ stopped' = ThisJob
  /\ stack' = Pop
  /\ UNCHANGED <<options, dev, verdict, loopVars, envVars, emuVars, iocVars, testsOk, troubled, bereaved>>

---------------------------------------------------------------------------
(* Leaving the devices, innermost first; what a close raises replaces what  *)
(* was being propagated.                                                    *)

KeepRegistered(k) == RunningEmulators  \* mutant: nothing is removed
Unregister(k) == [RunningEmulators EXCEPT ![k] = None]

(* EmulatorRegister.remove_emulator deletes the key, and raises KeyError    *)
(* when it is not there.                                                    *)
CloseEmulator ==
  LET l == LauncherOf(Top.dev) IN
  /\ pc = "unwind" /\ stack # <<>> /\ Top.kind = "emulator"
  /\ emulators' = emulators \ {l}
  /\ IF RunningEmulators[KeyOf(Top.dev)] = None
     THEN exc' = "error" /\ Trouble /\ UNCHANGED RunningEmulators
     ELSE /\ RunningEmulators' = Unregister(KeyOf(Top.dev))
          /\ UNCHANGED <<exc, troubled>>
  /\ stack' = Pop
  /\ UNCHANGED <<options, pc, dev, verdict, loopVars, envVars, iocVars, testsOk, bereaved, stopped>>

(* "exit" ends the IOC, or kill does, or "Will continue anyway".  An IOC    *)
(* without PVs yet is not waited for at all.                                *)
CloseIoc ==
  LET l == LauncherOf(Top.dev) IN
  /\ pc = "unwind" /\ stack # <<>> /\ Top.kind = "ioc"
  /\ \/ booting' = booting \ {l} /\ serving' = serving \ {l}
     \/ "stuck" \in Faults /\ UNCHANGED <<booting, serving>>
  /\ stack' = Pop
  /\ UNCHANGED <<options, pc, dev, exc, verdict, loopVars, envVars, emuVars, RunningIOCs, prompted, late,
                 history>>

(* Writing "exit" to the pipe of a process that has ended raises OSError.   *)
CloseIocRaises ==
  /\ pc = "unwind" /\ stack # <<>> /\ Top.kind = "ioc"
  /\ LauncherOf(Top.dev) \notin booting \cup serving
  /\ exc' = "error" /\ Trouble
  /\ stack' = Pop
  /\ UNCHANGED <<options, pc, dev, verdict, loopVars, envVars, emuVars, iocVars, testsOk, bereaved, stopped>>

(* modified_environment restores after a normal exit only; a variable that  *)
(* was not set is restored as the empty string.                             *)
NotRestored == env  \* mutant: the old value is read after the update
RestoredNone ==  \* mutant: None where the variable was not set
  IF oldEnv = "unset" THEN None ELSE oldEnv
Restored == IF oldEnv = "unset" THEN "empty" ELSE oldEnv

(* except Exception: the result is that of a test that fails, whatever the  *)
(* runner had said.                                                         *)
BareExcept == exc # "none"  \* mutant: sys.exit and Ctrl-C are caught as well
Caught == exc = "error"

RunnerVerdict ==  \* mutant: the result of the runner is kept
  IF verdict = "none" THEN "fail" ELSE verdict
Reported == IF exc = "none" THEN verdict ELSE "fail"

FinishModule ==
  /\ pc = "unwind" /\ stack = <<>> /\ exc = "none"
  /\ env' = Restored
  /\ results' = [results EXCEPT ![ThisJob] = Reported]
  /\ mod' = mod + 1 /\ pc' = "loop"
  /\ UNCHANGED <<options, dev, stack, exc, verdict, pass, modesLeft, mode, exit, oldEnv, testMode,
                 emuVars, iocVars, history>>

ReportFailure ==
  /\ pc = "unwind" /\ stack = <<>> /\ Caught
  /\ results' = [results EXCEPT ![ThisJob] = Reported]
  /\ mod' = mod + 1 /\ pc' = "loop"
  /\ UNCHANGED <<options, dev, stack, exc, verdict, pass, modesLeft, mode, exit, envVars,
                 emuVars, iocVars, history>>

StopRun ==
  /\ pc = "unwind" /\ stack = <<>> /\ exc # "none" /\ ~Caught
  /\ exit' = IF exc = "exit" THEN "zero" ELSE "interrupt"
  /\ pc' = "exited"
  /\ UNCHANGED <<options, dev, stack, exc, verdict, pass, modesLeft, mode, mod, results, envVars,
                 emuVars, iocVars, history>>

---------------------------------------------------------------------------
(* The end of load_and_run_tests, and the while loop of the main program.   *)

PassOver == pc = "loop" /\ mod = NModules + 1 /\ modesLeft = {}
SomePassed == \E j \in Job : results[j] = "pass"  \* mutant: any for all
Success == \A j \in Job : results[j] # "fail"

RepeatPass ==
  /\ PassOver /\ Success /\ repeat
  /\ IF pass < MaxPass
     THEN /\ pass' = pass + 1
          /\ modesLeft' = UNION {ModesOf[m] : m \in Module}
          /\ results' = [j \in Job |-> "none"]
          /\ testsOk' = {} /\ troubled' = {} /\ bereaved' = {}
          /\ UNCHANGED pc
     ELSE pc' = "bound" /\ UNCHANGED <<pass, modesLeft, results, testsOk, troubled, bereaved>>
  /\ UNCHANGED <<options, dev, stack, exc, verdict, mode, mod, exit, envVars, emuVars, iocVars, stopped>>

ExitProgram ==
  /\ PassOver /\ ~(Success /\ repeat)
  /\ exit' = IF Success THEN "zero" ELSE "one"
  /\ pc' = "exited"
  /\ UNCHANGED <<options, dev, stack, exc, verdict, pass, modesLeft, mode, mod, results, envVars,
                 emuVars, iocVars, history>>

---------------------------------------------------------------------------
(* The IOC processes.                                                       *)

Launched(l) ==
  /\ l.pass = pass /\ l.mod = mod /\ l.mode = mode
  /\ \/ pc = "console" /\ l.dev = dev
     \/ \E i \in 1..Len(stack) : stack[i] = [kind |-> "ioc", dev |-> l.dev]

(* Another IOC of its name is open, or is being opened and has been checked. *)
Rivals(l, d) ==
  /\ Launched(LauncherOf(d)) /\ LauncherOf(d) # l
  /\ NameOf(LauncherOf(d)) = NameOf(l)
Overtakes(l) == \E d \in {stack[i].dev : i \in 1..Len(stack)} \cup {dev} : Rivals(l, d)

IocBoots ==
  /\ \E l \in booting :
       /\ "lateBoot" \in Faults \/ Launched(l)
       /\ late' = IF Overtakes(l) THEN late \cup {l} ELSE late
       /\ booting' = booting \ {l} /\ serving' = serving \cup {l}
       /\ prompted' = prompted \cup {LogFile(l)}
  /\ UNCHANGED <<options, pc, dev, stack, exc, verdict, loopVars, envVars, emuVars, RunningIOCs, history>>

IocDies ==
  /\ "dies" \in Faults
  /\ \E l \in booting \cup serving :
       /\ booting' = booting \ {l} /\ serving' = serving \ {l}
       /\ bereaved' = IF Launched(l) THEN bereaved \cup {<<l.mod, l.mode>>} ELSE bereaved
  /\ UNCHANGED <<options, pc, dev, stack, exc, verdict, loopVars, envVars, emuVars, RunningIOCs,
                 prompted, late, testsOk, troubled, stopped>>

Stopped == pc \in {"exited", "bound"} /\ UNCHANGED vars

Program ==
  \/ PickMode \/ SkipModule \/ LaunchersRaise \/ StartModule
  \/ OpenEmulator \/ NoEmulator \/ OpenEmulatorRaises
  \/ RefuseIoc \/ SpawnIoc \/ IocOpened \/ OpenIocRaises
  \/ RunTests
  \/ CloseEmulator \/ CloseIoc \/ CloseIocRaises
  \/ FinishModule \/ ReportFailure \/ StopRun
  \/ RepeatPass \/ ExitProgram

User ==
  \/ AnswerYes \/ AnswerNo \/ AnswerQuit
  \/ InterruptBody \/ InterruptOpening \/ InterruptBooting \/ InterruptClosing

Next ==
  \/ Program \/ User
  \/ IocBoots \/ IocDies
  \/ Stopped

Spec == Init /\ [][Next]_vars

(* Every wait of the framework is bounded by a timeout and the tests end;   *)
(* nothing is promised of the user or of the IOC processes.                 *)
FairSpec == Spec /\ WF_vars(Program)
---------------------------------------------------------------------------
(* Properties                                                               *)

(* Every variable stays in its type.                                        *)
TypeOK ==
  /\ pc \in {"loop", "emulator", "ioc", "console", "prompt", "parked", "testing",
             "unwind", "exited", "bound"}
  /\ pass \in Nat /\ modesLeft \subseteq Mode /\ mode \in Mode \cup {None}
  /\ mod \in 1..(NModules + 1) /\ dev \in Nat /\ stack \in Seq(Context)
  /\ exc \in {"none", "error", "exit", "interrupt"} /\ verdict \in {"none", "pass", "fail"}
  /\ env \in Address /\ oldEnv \in Address /\ testMode \in Mode \cup {None}
  /\ emulators \subseteq Launcher /\ RunningEmulators \in [Key -> Launcher \cup {None}]
  /\ booting \subseteq Launcher /\ serving \subseteq Launcher
  /\ RunningIOCs \in [IocName -> Launcher \cup {None}]
  /\ prompted \subseteq Module \X Mode \X IocName /\ late \subseteq Launcher
  /\ results \in [Job -> {"none", "pass", "fail"}]
  /\ exit \in {"none", "zero", "one", "interrupt"}
  /\ testsOk \subseteq Job /\ troubled \subseteq Job /\ bereaved \subseteq Job
  /\ stopped \in Job \cup {None}
  /\ Iocs \in Suites /\ repeat \in BOOLEAN /\ ask \in BOOLEAN

(* Tests run in the environment of run_tests, in the mode of their module,  *)
(* with every emulator of the module registered and running, and every IOC  *)
(* of it registered, whatever earlier modules left behind.                  *)
TestsHaveTheirDevices ==
  pc = "testing" =>
    /\ env = "broadcast" /\ testMode = mode
    /\ \A d \in 1..Len(Iocs[mod]) :
         /\ RunningIOCs[Iocs[mod][d].ioc] = LauncherOf(d)
         /\ HasEmulator(d) => RunningEmulators[KeyOf(d)] = LauncherOf(d)
         /\ HasEmulator(d) /\ mode # RecSim => LauncherOf(d) \in emulators

(* From the spawning of an IOC to its close, its emulator runs: device      *)
(* launchers enter the emulator first and leave it last.                    *)
EmulatorOutlivesIoc ==
  \A l \in booting \cup serving :
    Launched(l) /\ HasEmulator(l.dev) /\ mode # RecSim => l \in emulators

(* While tests run, each of their IOC names is served by the IOC launched   *)
(* for them; who else serves it, left by an earlier module, came up only    *)
(* after the check of CheckExistencePv.__enter__.  An IOC that had come up  *)
(* before, and survived its close or was abandoned, is never met.           *)
UniqueServer ==
  pc = "testing" =>
    \A d \in 1..Len(Iocs[mod]) : ServersOf(Iocs[mod][d].ioc) \subseteq {LauncherOf(d)} \cup late

(* An IOC enters the register only when it serves its existence PV, or one   *)
(* that came up after the check does in its place.                          *)
OpenedIocAnswers ==
  [][\A n \in IocName :
       RunningIOCs'[n] # RunningIOCs[n] =>
         RunningIOCs'[n] \in serving \/ ServersOf(n) \cap late # {}]_vars

(* An IOC that is registered has been started correctly: it serves its      *)
(* existence PV itself.                                                     *)
OpenedIocServes ==
  [][\A n \in IocName :
       RunningIOCs'[n] # RunningIOCs[n] => RunningIOCs'[n] \in serving]_vars

(* Between modules an emulator process still running, or still registered,  *)
(* belongs to a module of this pass reported as failed.                     *)
LeaksAreFailures ==
  pc = "loop" =>
    /\ \A l \in emulators : l.pass = pass /\ results[<<l.mod, l.mode>>] = "fail"
    /\ \A k \in Key : LET l == RunningEmulators[k] IN
         l # None => l.pass = pass /\ results[<<l.mod, l.mode>>] = "fail"

(* A module is reported as passed exactly when its runner said so and no    *)
(* device of it raised on the way in or out.                                *)
ResultIsHonest ==
  \A j \in Job :
    results[j] # "none" => (results[j] = "pass" <=> j \in testsOk \ troubled)

(* A module whose tests pass is reported as passed, unless one of its IOCs  *)
(* ended by itself.                                                         *)
VerdictStands == \A j \in Job : results[j] = "fail" /\ j \in testsOk => j \in bereaved

(* Unless the user stopped it, the program exits with 0 only when every     *)
(* selected module passed in every selected mode, and never with            *)
(* --repeat-until-fail.                                                     *)
ZeroMeansAllPassed ==
  exit = "zero" /\ stopped = None =>
    /\ ~repeat
    /\ \A j \in Job : Selected(j[1], j[2]) => results[j] = "pass"

(* Ctrl-C, or Q at the prompt, ends testing: no tests start after it, unless *)
(* a device of the module being stopped raises on the way in or out.        *)
NoTestsAfterStop == [][stopped \notin {None} \cup troubled => pc' # "testing"]_vars

(* Ctrl-C, or Q at the prompt, ends testing: no tests start after it.       *)
StopIsFinal == [][stopped # None => pc' # "testing"]_vars

(* Between modules, as long as none failed, EPICS_CA_ADDR_LIST has the value *)
(* the user gave it; one the user had not set is the empty string instead   *)
(* once a module has been tested.                                           *)
EnvironmentKept ==
  pc = "loop" /\ Success =>
    /\ env # UserEnv => UserEnv = "unset" /\ env = "empty"
    /\ env = "unset" => results = [j \in Job |-> "none"]

(* Without a prompt the program comes to its end.                           *)
Terminates == ~ask => <>(pc \in {"exited", "bound"})

(* Every context entered is left again, whatever raises and whenever the    *)
(* user interrupts; only the prompt can hold it open.                       *)
ContextsAreLeft == stack # <<>> /\ ~ask ~> stack = <<>>
=============================================================================
