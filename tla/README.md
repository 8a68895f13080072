# A TLA+ verification of the IOC test framework

The framework (`run_tests.py`, `run_utils.py`, `utils/`) starts EPICS IOCs and
device emulators, runs unittest suites against them over channel access, and
stops everything again. Its hard part is not the assertions but what happens
between processes that boot, hang, die or stay: the modules here specify that
part, TLC checks them on small instances, and TLAPS proves every safety property
of the passing runs for every value of the constants.

## 1. Inventory

| Component (source) | State | Operations | Hard behaviour |
|---|---|---|---|
| Run loop (`run_tests.py`) | current mode and module, `test_results`, exit status, environment | load, run each module in each mode, prompt, report, repeat, Ctrl-C | exceptions of cleanups, interrupts, results overwritten |
| Environment (`run_utils.py`) | `EPICS_CA_ADDR_LIST` | `modified_environment` | not restored when the body raises |
| Device launchers (`device_launcher.py`) | stack of entered contexts | enter emulator, enter IOC, unwind | a later device raises while earlier ones are open |
| IOC launchers (`ioc_launcher.py`) | `RunningIOCs`, the process, its log file, the macros file | open, close; for procServ also start, quit, toggle autorestart, restart with macros | processes that survive, late boots, retries of telnet commands |
| Emulator launchers (`emulator_launcher.py`) | `RunningEmulators`, process, `_connected` | open, close, backdoor commands, disconnect and connect | commands that time out silently, shared register keys, child processes |
| Channel access (`channel_access.py`) | prefix; monitor values and callback counts | set a PV, poll it until it satisfies a condition, watch it | the PV changes between the polls and after the last one |
| Log files (`log_file.py`) | file contents, read position | open, read new lines, wait for a text | appended files, lines read before they are complete |
| Test helpers (`testing.py`) | manager mode, collected log lines, retries | contexts around a test body, retried tests | what `__exit__` does with the body's exception, fixtures of retried tests |
| Free ports (`free_ports.py`) | none | search | a port taken between search and use |
| Calibration, axis (`calibration_utils.py`, `axis.py`) | PVs of the IOC | contexts and helpers over channel access | restoring after a failure |
| Device tests (`tests/`, `common_tests/`) | - | clients of the framework | about single devices, not modelled |

How they interact: the run loop builds one device launcher per `IOCS` entry and
enters them one after another; each enters its emulator and then its IOC. The
IOC launcher asks channel access that the existence PV is absent, starts the
process, reads its log until it prints the started text, asks that the PV
exists, and registers itself. Tests find their devices in the two registers.
Unwinding closes in reverse order. Launchers meet each other through what
outlives a module: processes, registers, log files, the environment.

What makes each component correct:

- run loop: a result is what the runner said unless a device failed, the exit
  status sums up the results, a stop stops, every run ends;
- device launchers: when tests run, their devices and only theirs are up;
- IOC launcher: an IOC is registered only when it serves; nothing is left
  behind silently;
- emulator launchers: an emulator lives at least as long as its IOC; the state
  the launcher believes the emulator to be in is the state it is in;
- channel access: an assertion that passes held at some moment between call and
  return, one that fails did not hold for the stated time;
- procServ launcher: an IOC runs with the macros its launcher holds, whatever
  contexts were left how; closing leaves no procServ behind;
- log files: a text is found when, and only when, it was printed;
- test helpers: a passed test ran to its end, fixtures are balanced, settings
  are put back, contexts judge only what happened in them.

## 2. Modules

| Module | Models |
|---|---|
| `TestRun` | one invocation of `run_tests.py`: run loop, environment, device launchers, IOC and emulator processes, both registers |
| `MCTestRun` | the instances TLC checks |
| `TestRunProofs` | proofs: types, results and the exit status, the environment, stopping |
| `TestRunDeviceProofs` | proofs: the devices of the module being run, what it leaves behind, who serves a name, verdicts |
| `ChannelAccess` | the channel access object of a test: setting and polling PVs of IOCs that change, go away and come back |
| `ChannelAccessProofs` | proofs: types, what a passing and a failing assertion mean, the prefix, the alarm context |
| `LogFile` | a log file and its reader: texts read, not yet read, or split over two writes |
| `IocStart` | `BaseLauncher.open` in detail, and the closing of `IocLauncher` and `PythonIOCLauncher` |
| `ProcServ` | `IocStart` with `ProcServLauncher`: telnet commands, restarts with macros, autorestart |
| `IocLife` | the abstract specification of an IOC launcher, which `ProcServ` implements |
| `MCProcServ` | its instance |
| `ProcServProofs` | proofs: launchers implement `IocLife`, closing, the steps left of a call, macros, types |
| `ProcServIocProofs` | proofs: the IOC being opened and the open one, commands and answers, restarts with macros |
| `LewisBackdoor` | `LewisLauncher`, `MultiLewisLauncher`, the backdoor and what tests call on it |
| `CmdEmulator` | emulators that are command lines, and the processes these start |
| `Emulators`, `MCEmulators` | a module with either; the instance |
| `EmulatorsProofs` | proofs: control ports, types, closing, passed assertions, devices as commanded |
| `Monitors` | the monitors of channel access, and `assert_pv_processed` with its opposite |
| `TestHelpers`, `MCTestHelpers` | a test with retries, and its nested contexts, those of `Monitors` among them; the instance |
| `TestHelpersProofs` | proofs: fixtures, types, settings, what a pass needs |
| `SequenceLemmas` | what the proofs use of stacks and of calls' remaining steps |

### TestRun

Control points (`pc`) and the code they stand for:

| `pc` | the code is |
|---|---|
| `loop` | between two modules in `load_and_run_tests`, or between two passes |
| `emulator`, `ioc`, `console` | entering device `dev`: before its emulator, before `CheckExistencePv.__enter__`, from `Popen` to the end of `open` |
| `prompt`, `parked` | in `prompt_user_to_run_tests`, before and after the answer N |
| `testing` | in `runner.run` |
| `unwind` | leaving the contexts of `stack`, with `exc` being propagated |
| `exited`, `bound` | the program has ended; the bound on passes is reached |

`Iocs`, `repeat` and `ask` are the suite and two options, chosen initially. A
launcher is identified by pass, module, mode and device. Its IOC process is
`booting` (runs, serves nothing), `serving` (its existence PV answers) or gone.
Several launchers may serve one name: an IOC that was not closed, and the next.
`prompted` is the set of log files that hold the started text; IOC logs are
opened for appending and their names hold no date, so an initial state has
either none or all of them from earlier invocations. `testsOk`, `troubled`,
`bereaved`, `stopped` and `late` are histories that no action reads; `late` holds
the IOCs that came up after the check made for another of their name (`Rivals`).
`UserEnv` is what the user had put into `EPICS_CA_ADDR_LIST`, if anything.

Every exception is one of three: `error` (an `Exception`), `exit`
(`SystemExit`) and `interrupt` (`KeyboardInterrupt`). A cleanup that raises
replaces the one being propagated, as Python does.

What is left to the environment (`Faults`): building launchers raises, an
emulator does not open, an IOC does not come up in time, ends by itself, or
survives being closed (the code prints "Will continue anyway"), an IOC whose
start was given up boots later, and Ctrl-C. Ctrl-C may come at every control
point except `loop`: there no context is open and it simply ends the program.

Abstractions. Importing the test modules (`ModuleTests`) happens before the
loop, and ends the program when it fails: not modelled. Emulator processes do
not end by themselves. `cleanup_subprocs_on_process_exit`, which kills what is
left when the program exits, is external. The existence PV of an IOC is always
specified. Two runs do not overlap.

### ChannelAccess

A method of the object is the sequence of primitive steps it makes (`SetPvValue`,
`AssertDict`, `PutIntoAlarm`, ...), kept in `todo`; the actions carry out its
first step. `Poll`, `Read`, `Accept`, `TryAgain` and `GiveUp` are the loop of
`_wait_for_pv_lambda`: the time is looked at before each read, and when it is
over the PV is read once more. `Probe`, `Found` and `Missed` are the loop of
`assert_that_pv_exists`. All assertions on values differ only in the set of
values they accept (`good`); in an over-time assertion that set depends on the
value sampled first. An exception ends the call, or skips to behind the
`finally` step of the alarm context, which keeps it in `pending` and raises it
again at `reraise`.

`Tick` moves the stop watch of the current step (`elapsed`, which stays at
`MaxElapsed`) and the sleeping time `rest`; between two steps of the program any
time may pass. The readback changes at any moment, the severity of the record
follows its simulated severity when the IOC scans it, IOCs become unreachable
and reachable again (not restarted: they keep their PVs). PVs under another
prefix read as anything. `held` and `since` are histories of the condition the
first step watches: whether it was true since the step began, and since when it
is without a break. `raised` is one of the object.

Abstractions. Time has ticks; a poll's 0.01 s and a probe's 1 s are one tick
each. Writes and reads that fail do so at once. A body of the alarm context
passes, raises, or sets a PV of another IOC. Messages are left out. Monitors and
`assert_pv_processed`, which surround the body of a test, are in `Monitors`.

### IocStart, ProcServ, IocLife, LogFile

`TestRun` takes the opening of an IOC for one step of waiting; here it is in
detail, one launch after another. Launches are numbered in the order in which
they are opened; `LastOf` says where modules end. What they share is what makes
it hard: the macros file, which each `open` writes again; the log file and the
PVs, when two have the same name.

| `pc` | the code is |
|---|---|
| `check`, `spawn` | in `CheckExistencePv.__enter__`, and before `Popen` |
| `console`, `inits`, `exists` | in `wait_for_console`, before `set_pv_value` of the initial values, before `CheckExistencePv.__exit__` |
| `connect` | before `Telnet` of `ProcServLauncher.open` |
| `test`, `await`, `resend`, `answer` | in a test; waiting for the prompt, before the command is sent again, before the answer to a toggle is read |
| `unwind`, `closing`, `search`, `kill` | between two closings; polling the PV; before `_find_processes`; killing what it found |

An IOC reads the macros file when it begins to boot, serves its PVs from
`iocInit` on and prints its prompt at the end of `st.cmd` (`booting`,
`configured`, `serving`, `up`). That order is what `open` relies on: it ends
only after the prompt, when the file has been read. `LogFile` keeps of a log
only the started texts: whether there is one before the reader's position, who
printed those behind it (`earlier` or since the start being waited for, `now`),
and whether the file ends in half a text, of which the reader may have taken
the first part. A new `LogFileManager` starts at the beginning of the file, so
it finds what earlier IOCs of the name printed; `crowded` marks the launches
begun when one of those might still run.

`todo` holds what is left of the calls a test is in, innermost first;
`StartWithMacros` and `Restart` are the sequences of their steps, and an
exception drops everything up to the `finally` of the innermost context.
procServ is external: it carries out commands in order, later or never, also
those that were under way when the connection was closed, and its IOC may be
killed with it or survive it. A connection that could not be made again stays
cut off (`cutOff`), and writing to it raises (`StartRaises`). `close` searches and
kills in rounds (`FindProcesses`, `KillServer`); a kill may have no effect, an
error of it leaves `close` (`KillRaises`), and processes that may not be looked
at are passed over (`FindsNone`): the last two leave procServ running (`spared`).
`astray` and `upset` mark what is known to go wrong: a toggle answered by
something else, a restart that raised or took an old prompt, or that of an IOC
left behind, for the new one.

`IocLife` says what a launcher promises: launches are started one at a time, a
start ends with the IOC up or abandoned, what is up is closed in reverse order,
after a failed start everything is closed before the next, and the register
holds the launch registered last. `ProcServ` implements it with `StateOf` as
the refinement mapping (`Implements`). The mapping shows two oddities of the
code: a procServ IOC is registered before its telnet connection is made, and
stays registered when that raises; and it is then not closed.

What the code does and the model keeps, although a reader may not expect it:
`start_ioc` does not write the macros file, so an IOC restarted by a test boots
with the macros of the device opened last; `force_manual_save` leaves prompts
unread, which the next `start_ioc(wait=True)` takes for its own;
`ProcServLauncher.close` leaves its log file open; a launcher without
`pv_for_existence` is neither refused nor waited for.

### LewisBackdoor, CmdEmulator, Emulators

Every backdoor command is a process `lewis-control`. The program looks at it
39 times, ends it when it has not exited with code 0, and tells its caller
nothing: `Terminates` returns like `SeesExit`, with whatever output there was.
The request may have left already (`late`) and may be carried out after newer
ones. A request that was not carried out leaves its variable unknown (`missed`).
`call` is the call of the test that waits for the command; `Return` is what each
kind of call does next. `flag` is `_connected`.

`port` and `bound` separate the port an emulator was given from the one it has:
`get_free_ports` closes its sockets before the emulator opens them, so two
searches may return one port (`shared`).

`CmdEmulator` follows processes: those the command starts (`Starts`) and
those psutil finds from the one the launcher holds. Closing lists the
descendants, terminates and awaits each, then the main process. A process that
the main one starts after the listing, or left behind by a main process that
has ended, is not closed; `NothingLeft` is about those listed. For DAQMx the
process held is that of the command run last, the stop command when it closes.

The class is chosen initially (`class`), as the `IOCS` entry does. Other
observations: an assertion that a value *is not* something takes the empty
output of a command that was ended for a value, and passes, unless its cast
rejects it; a nested simulated disconnection of the same device connects it
again when the inner context is left; an exception in `MultiLewisLauncher`'s
second `_open` leaves the first emulator running, since `__enter__` raised;
`_connected` changes when a command was sent, carried out or not.

### TestHelpers, Monitors

A test as the runner runs it: `setUp`, body, tearDown; `unstable_test` calls
`setUp` and the test again, with a `tearDown` in a `finally`. The body opens
contexts (`stack`), each of which may be left by its end or by an exception.
`ManagerMode` and `use_calibration_file` write a setting and read it back
(`work`); the IOC obeys when it likes. `assert_log_messages` reads what is
unread on entering, and judges what is unread on leaving. A watch of `Monitors`
is judged when its body has ended, and not at all when it raised (nothing
stands in a `finally`): the values a monitor got, all or the last, or the
record's time stamp. Changes of the record queue up in the library (`queue`),
which may merge the last ones, and calls back from a thread of its own at any
moment (`CallsBack`); tests rely on that where they only sleep
(`tests/rikenfe_plc.py:103`). `PvUpdateTimeValueSource` gets its second time
stamp without `pv_access`; `source` says whether stamps of the two kinds are
alike.

`got`, `inner`, `had` and `ran` are histories kept in the contexts: what was
printed, whether another context read the log inside this one, the values the
record had, whether it was processed. `tests/refl.py:291` and
`tests/sans2d_vacuum.py:133` call a monitor assertion without `with`, so that
it checks nothing: a slip of those tests that the model of the helper does not
show.

## 3. Runs

| Run | Configuration | Result |
|---|---|---|
| `testrun` | `TestRun_faults.cfg` | all properties hold |
| `two_emulators` | `TestRun_readme.cfg` | `VerdictStands` is violated |
| `late_boot` | `TestRun_late.cfg` | `OpenedIocServes` is violated |
| `stop` | `TestRun_stop.cfg` | `StopIsFinal` is violated |
| `channel_access` | `ChannelAccess.cfg` | all properties hold |
| `is_not` | `ChannelAccess_isnot.cfg` | `IsNotWatches` is violated |
| `alarm_left` | `ChannelAccess_alarm.cfg` | `AlarmNeverLeft` is violated |
| `proc_serv` | `ProcServ.cfg` | all properties hold |
| `lewis` | `Emulators.cfg` | all properties hold |
| `emulator_is_not` | `Emulators_isnot.cfg` | `EmulatorIsNot` is violated |
| `helpers` | `TestHelpers.cfg` | all properties hold |
| `log_swallow` | `TestHelpers_swallow.cfg` | `BodyFailuresShow` is violated |

`testrun` has two modules, one in each mode, so that the order of modes (a
Python set) is open; both use IOC name `A`, so what one leaves behind meets the
other; the second has two devices, so a failing one meets an open one. Two
passes (`MaxPass`) let a repeated pass meet what the first left. Both kinds of
emulator entry occur. Every option and every fault is enabled.

What the properties say: tests have their own devices (`TestsHaveTheirDevices`),
and whoever else serves one of their IOC names came up after the check for its
PV (`UniqueServer`); an emulator outlives its IOC (`EmulatorOutlivesIoc`); an IOC
is registered only when it serves its PV or such a latecomer does
(`OpenedIocAnswers`); leaks happen only in modules reported as failed
(`LeaksAreFailures`); results and exit status say what happened
(`ResultIsHonest`, `VerdictStands`, `ZeroMeansAllPassed`); until a module fails,
the environment between modules is the user's, except that an address list that
was not set has become the empty string (`EnvironmentKept`); a stop is lost only
when a device raises (`NoTestsAfterStop`); and every run ends with every context
left (`Terminates`, `ContextsAreLeft`).

`late_boot` states the check without the excuse: what is registered serves its
PV itself. An IOC whose start was given up is not closed, and may come up between
the check for the PV and the registration of the next IOC of its name; when the
log still holds the text of an earlier start, the next one is registered before
it serves anything, although `CheckExistencePv` "Checks to see if a IOC has been
started correctly" (`utils/ioc_launcher.py:59`).

Two disagreements of the run loop with its texts have no run, since they can be
read off one line: `--failfast` is given to the runner of one module, and the
next module is tested all the same (`run_tests.py:357` against `README.md:73` and
the help at `run_tests.py:439`); and `modified_environment`, which "returns them
to their original state" (`run_utils.py:30`), does not when the body raises
(`:39`, no `finally`), and returns what was unset as the empty string (`:35`).

`channel_access` calls every method, in any order and also after one that
raised (a test may catch the exception, or a new test starts with a new object).
Two values are enough, since a condition is only true or false of a value;
the timeouts are 0 (only the last try), 1 (the default) and 2 ticks, and
`MaxElapsed` is past them all, so polls may come late. It shows that an
assertion passes only on a value read in this wait (`PassedHeld`) and gives up
only when the condition did not hold from before the timeout on
(`GivesUpLate`), that the alarm context cleans up whatever its body does unless
the cleanup itself raises (`AlarmNotLeft`), that the prefix is put back unless
a call raised (`PrefixKept`), and that every call ends (`CallsEnd`).

`proc_serv` has a procServ IOC `A` and a Python IOC `B` in one module, then a
plain IOC `A` in the next: the launcher with most state, another that overwrites
its macros file while it is open, and one that meets its log and possibly its
surviving process. Only the last gets initial values and may print its text in
two writes, and only its IOC ends by itself; the log of `B` holds the text of an
earlier invocation, that of `A` gets one when the launch before has started. Two IOCs of one name in one module are
not considered. Tests use one of three sets of methods (`MCUses`), contexts
nest twice, one command is on its way at a time, retries are two (three in the
code), and a wait polls once (60 times): later polls see nothing a first and a
last do not. A test makes its next call when procServ has caught up (`Room`), and
of the restarts a call sends, those beyond the bound count as one (`Beyond`): a
third start finds an IOC that boots already. It shows that an open IOC has read its own macros
(`OwnMacros`) and got its initial values (`InitsReachIoc`), that no text is
overlooked (`TextNotOverlooked`), that macros follow contexts
(`RunsWithItsMacros`, `MacrosComeBack`), that the launcher's idea of autorestart
is right (`AutorestartKnown`), that closing leaves no procServ that it may see
and kill (`NoServerLeft`), that every call ends (`CallsEnd`), and that `IocLife`
is implemented.

`lewis` has two emulators and two ports, and tests of two calls out of eight:
each way to set, assert, disconnect and connect, over three variables, one for
each, so that a call meets what one before it left. A command is looked at once
(39 times) and one ended command's request may be under way. The command line
starts up to three processes, and DAQMx runs two commands. Between calls a
device is as last commanded, except for what was missed (`DeviceAsCommanded`);
an assertion that a device *has* a value passes only if it had since the call
began (`PassedWasTrue`; for *has not* see `emulator_is_not`); ports
differ unless the search raced (`PortsDiffer`); nothing listed is left
(`NothingLeft`); everything ends (`CallsEnd`). Deadlock is not checked: the
launcher of one module is opened and closed once, and then nothing happens.
`emulator_is_not` has the same instance: the docstring promises of
`assert_that_emulator_value_is_not` that the device does not have the value and
does not get it within the timeout. A command that was ended early leaves an
empty output, which as a string differs from every value, so the assertion
passes though the device had the value throughout. With a cast that refuses the
empty string it goes on, and passes at the first look that shows another value,
like `assert_that_pv_is_not` in the run `is_not`.

`helpers` has two retries and two nested contexts; a setting is tried twice
(ten times in the code), a record is processed twice under one watch, one
message of each kind waits to be read. The tests of a class use settings and
log contexts, watches, or a log context and a watch (`MCUses`); tests follow
each other without bound, so a setting left by one meets the next. It shows
that fixtures match (`FixturesMatch`, which also records that two `setUp`s are
outstanding during a retry), that settings are put back unless writing or
checking them failed (`SettingsPutBack`), and that what passes was earned
(`PassEarned`). Every write, check, set-up, tear-down and body may raise.
`log_swallow` uses the same instance: a failing assertion inside
`assert_log_messages` is lost, since `__exit__` returns `True`; so would be any
exception, `KeyboardInterrupt` included.

The seven violated properties are disagreements of the code with its README,
docstrings, messages or tests; `PROJECT.json` quotes them under "findings".

Fairness. `FairSpec` assumes weak fairness of the framework's own steps
(`Program`) and of nothing else: every wait of the code has a timeout (120 s
for the started text, 30 s for the PV, 60 s and 60 s for closing) and the tests
are taken to end. Nothing is assumed of the user (the prompt may wait for ever,
hence `~ask`) or of IOC processes. The mutant `WaitForever`, which removes the
timeouts, breaks both liveness properties. In `ChannelAccess` fairness is of
the program and of the clock, not of the IOCs: `CallsEnd` holds when they stay
away. In `ProcServ` it is of the launchers (`WF_vars(Program)`), whose waits are
counted, and of kills: one that is tried again and again has its effect at last
(strong fairness of the `KillServer` that removes a process), since the loop of
`close` has no limit and a process that can be found but never killed would keep
it for ever; nothing is assumed of tests, IOCs or procServ. In `Emulators` it is of the program, and of the end of
processes that were told to terminate (which on Windows kills them) or that the
code waits for without a timeout (`Awaited`): without the latter,
`CommandLineEmulatorLauncher` may wait for ever. `TestHelpers` states no
liveness: the runner is external, and the waits are those of `ChannelAccess`.

## 4. Proofs

Every invariant and every action property of a passing run is a theorem: for
any number of modules, devices, launches, emulators, retries and nested
contexts, any values and timeouts, any `IOCS` lists and any faults; hypotheses are named
below. Each follows the same argument: an invariant that
the initial states satisfy, that every action keeps, and that implies the
property. TLC checked each such invariant on instances like those of section 3
before it was proved. The constants are assumed to be what each module's named
assumption says, no more: `ConstantsAssumption` (of `TestRun` and of
`ChannelAccess`), `LewisAssumption`, `CmdAssumption`, `HelpersAssumption`,
`LaunchesAssumption`, `ProcServAssumption`. Most conjuncts are types; the others
keep model values apart (`None` is no time stamp, a child process is no command
line).

The hypotheses theorems add, and what happens without them:

| Hypothesis | Theorems | Without it |
|---|---|---|
| `DistinctDevices`, `DistinctEverywhere`: devices of the module (of every module) differ in IOC name or register key, or both | `TestsFindTheirDevices`, `VerdictsStand` | a register entry is overwritten, and removed by the wrong launcher; two `emulators` entries share a key, which is the finding of `two_emulators` |
| `DistinctNames`: launches of one name are in different modules | `OwnMacrosAreRead`, `InitsHaveReachedIoc` | the second IOC of a name is opened while the first runs, and texts and PVs of the two are not told apart |
| `OneUse`: a test uses a variable of a device in one way, in contexts, by connect and disconnect, or as a value; and connect and disconnect name one variable | `DevicesAreAsCommanded` | the launcher believes one thing, a context or a test has commanded another |

They are about the suite, never about what happens in a run.

### TestRun

- `TypeCorrect`: types do not follow from the loop variables alone, since
  `mod` runs one past the last module and `dev` one past the last device.
  `CurrentOK` adds which control points have a current module and device, and
  that devices on the stack and of processes are devices of their module.
- `ResultsAreHonest`, `ZeroExitMeansAllPassed`: `LoopInv` relates the results
  to the loops. `Due` jobs have no result and are neither `testsOk` nor
  `troubled`; jobs that are `Over` and were selected have one; the job being run
  has none, and its histories are tied to `exc` and `verdict`.
- `EnvironmentIsKept`: `EnvironmentInv` adds that, as long as no module failed,
  the value `modified_environment` has saved is the user's, or the empty string
  in place of none (`UsersOwn`): what it restores is no leak of an earlier module.
- `StopEndsTesting`, an action property: after Ctrl-C or Q the run is over, or
  the stop is on its way out, or an error of a clean-up has replaced it
  (`StopInv`); then the module is reported as failed, and only then may tests
  start again.
- `EmulatorsOutliveIocs`, `TestsFindTheirDevices`: `DeviceInv` says that the
  stack is ordered by device with the emulator before the IOC (`Ordered`), that
  every IOC lies above its emulator (`EmulatorFirst`), how far entering has come
  (`Frontier`), and that what is on the stack runs and is registered.
- `OnlyFailuresLeak`: `LeakInv` says that whatever runs or is registered belongs
  to a failed module of this pass or to the job being run, and in the latter
  case is on the stack or the job has an error to report. It needs no distinct
  keys: when two devices share one, it is enough that some context on the stack
  will remove it (`KeyIsHeld`).
- `OnlyLateOthersServe`, `RegisteredIocsAnswer`: the check for the PV finds it
  absent, so nobody serves the name then. `ServeInv` says that whoever serves the
  name of another IOC, one that is open or has been checked and is waited for
  (`Rivals`), is `late`: it cannot have served when the check was made. Neither
  theorem needs a hypothesis on the suite or on the faults.
- `VerdictsStand`: `VerdictInv` accounts for every IOC of an entered device: it
  has its process, or it ended by itself. So its closing, which raises when
  there is none, spoils a passed module only then.

### ChannelAccess

- `TypeCorrect`: every method is a sequence of steps, by a lemma for each
  constructor, and so is what an exception skips to. `Step` says which PV each
  kind of step may name, without which reads and writes would have no type.
- `PassedMeansHeld`, `GivenUpMeansUnmet`: neither is inductive. `LoopInv` adds
  that the last try comes when the time is over. Its essence is that a value
  which does not satisfy the condition was read at a moment when `since` was
  forgotten, and anything learnt later, on the last try, is past the timeout.
- `PrefixComesBack`: `RestoreInv` says of the steps still to be done that every
  use of another prefix has its restoring behind it (`Bracketed`), and that a
  prefix which is not the object's own is restored before another is used
  (`Restores`). Both are kept by doing the first step; nothing nests.
- `AlarmIsTakenBack`: the steps left of an alarm context are either `Guarded`,
  that is, the clean-up lies behind them and so is where an exception skips to,
  or a suffix of the clean-up (`Cleaning`), whose length tells what has been
  done. Behind the write the record is out of alarm.

### Launchers: IocStart, ProcServ, IocLife

- `LaunchersImplementIocLife`: `ControlInv` says which launch is where: those on
  the stack are in order and no later than `cur` (`InOrder`), and each control
  point has the launch its code works on (`AtWork`). Under it every action is
  one of six kinds of step, whichever class it belongs to (`Begins`,
  `ComesUp`, `Registers`, `Abandons`, `Closes`, or `Stays`, which leaves the
  launches alone), and each kind is a step of `IocLife` or none. IOCs,
  processes and tests only ever make steps that stay.
- `NoServerIsLeft`: `ServerInv`, that a launch not begun or closed has no
  procServ process unless close was not let see or kill it (`spared`), follows
  from that order: only the launch being opened gets a process, only the one
  being closed loses it, and close ends when it finds none.
- `MacrosAreRestored`: `TodoInv` says where a call has steps that set macros:
  each context has, behind it, the `finally` that sets the original ones
  (`Restores`, `MacrosPlaced`), which is where an exception goes. `MacrosInv`:
  once no step is left that sets macros, launcher and file have the original
  ones.
- `ProcServTypes`: with these, types of logs, PVs and answers.
- `NoTextOverlooked`: `OpenInv` says that nothing of a launch runs before it is
  spawned, so that the prompt of an IOC which is up and whose console is being
  read was printed behind the reader's position, whole, and is still to be read.
- `OwnMacrosAreRead`, `InitsHaveReachedIoc`: `AliveInv` says that, from the
  spawning on, no other IOC of the name runs, nor can a procServ left behind start
  one, so that the text, the PV and the
  initial values are those of the launcher's own IOC (`Alone`); and that the
  file is what this launch wrote until that IOC has read it.
- `AutorestartIsKnown`: `SentInv` says which launchers have commands on their
  way: the one a test uses, those still to be closed, and closed ones whose
  procServ was left. `AutoInv` says that a toggle is awaited only while exactly one is on its
  way or its answer has come, and the answer is the state it left.
- `RunsWithMacros`: `RunInv` says that an IOC which has started since the wait
  began has read the file its launcher wrote, and that a text printed since is
  of such an IOC; an IOC left behind never counts as started since.

### Emulators

- `PortsAreDifferent`: `PortsDiffer` with types is inductive. Every step opens
  an emulator or leaves the ports and makes none alive (`StepOpensOrNot`); a
  port that is found is not bound, so whoever has it has yet to bind it.
- `EmulatorsTypes`: `CommandInv` ties the command being awaited to the call
  that asked for it; `CmdInv` says of processes who may still be started.
- `ClosingLeavesNothing`: from the listing on, what was listed and runs is still
  to be terminated (`ProcessInv`); closing has ended the emulators it is past
  (`ClosingInv`).
- `PassedIsTrue`: a request goes to the port of the emulator it is for and one
  that was given up keeps its variable in doubt (`RequestsInv`); `ApartInv`
  keeps the ports of two emulators apart; then the value a variable has, and
  what a command of the call has read, are among those it has had since the
  call began (`SeenInv`).
- `DevicesAreAsCommanded`: `DeviceInv` extends the property to the middle of a
  call: every variable is as expected except what was missed and what the
  current command is about, and that one once its request was carried out.

### TestHelpers, Monitors

- `FixturesAreBalanced`: `FixturesDue` says for every control point how many
  `setUp`s await their `tearDown`. The first run has no `tearDown` of its own,
  so one more is due throughout the retries; only a retry reaches `tearDown`.
  Contexts never leave the body, whatever raises.
- `HelpersTypes`: `WorkInv` says whose setting is written and read back, and
  that there is room for the context it belongs to.
- `SettingsAreBack`: `SettingsInv` says that a setting outside `stuck`, which no
  open context uses and which is not being set, is asked for and held at its
  default.
- `PassesAreEarned`: `ResultInv` says which result belongs to which way out of
  the body, and `ContextsInv` what an open context knows: messages printed since
  it was entered are unread or were read by a context inside it, and the values
  a watch got are among those the record had.

### Only model-checked

`Terminates`, `ContextsAreLeft` and `CallsEnd` (of `ChannelAccess`, `ProcServ`
and `Emulators`) need fairness, and with it ENABLED, which the prover does not
handle; TLC checks them on the instances of section 3. The seven violated
properties are counterexamples and there is nothing to prove.

## 5. Plan

Models, in the order in which they were written, all done: `TestRun` (the run
and its devices), `ChannelAccess`, `IocStart` with `LogFile` and `ProcServ`,
`LewisBackdoor` and `CmdEmulator`, `TestHelpers`, `Monitors`. None of them uses
a RECURSIVE operator, so that all can be proved about. The search for free
ports is part of `LewisBackdoor`; it needs no module of its own.

Proofs: the safety properties of all passing runs and the refinement of
`IocLife` are proved. What is left to do:

1. Weaker hypotheses: `DevicesAreAsCommanded` does not need all `OneUse` asks of
   variables that a test only reads, and `VerdictsStand` could ask of the module
   in question alone what `DistinctEverywhere` asks of all.
2. What still holds of modules whose devices share a name or a key, beyond
   `OnlyFailuresLeak`, `OnlyLateOthersServe` and `RegisteredIocsAnswer`, which do
   not need them distinct.
3. An abstract specification of a run, of jobs that get results and an exit
   status, which `TestRun` would implement through `LoopInv`.

## 6. Not modelled

- Test suites for single devices, configuration and data directories, batch and
  CI files, constants, argument parsing, the coverage report, formatting.
- Assertions that differ from modelled ones in a predicate over one value only
  (ranges, percentages, one of several), and look-ups without state
  (`get_running_lewis_and_ioc`, `axis.py`).
- Code nobody calls: `LewisLauncher.check`, `get_free_ports_from_list`; and
  `UnableToConnectToEmulatorException`, which nobody raises.
- Processes that `Popen` cannot start while a DAQMx emulator is being closed,
  disconnected or reconnected.
- The environment variables an IOC is given, and simulation by
  `set_simulated_value`, a single call of channel access.

Lewis, procServ, the IOCs, channel access itself, unittest and psutil are
external: they appear as the actions their users in `src/` must expect of them.
