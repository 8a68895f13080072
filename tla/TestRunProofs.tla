--------------------------- MODULE TestRunProofs ---------------------------
(***************************************************************************)
(* Proofs about TestRun, for every number of modules, every choice of      *)
(* their IOCS lists and every set of faults.                               *)
(***************************************************************************)
EXTENDS TestRun, SequenceTheorems, TLAPS

---------------------------------------------------------------------------
(* The stack of contexts.                                                   *)

(* A sequence without its last element.                                     *)
LEMMA FrontLen ==
  ASSUME NEW S, NEW s \in Seq(S), s # <<>>
  PROVE  Len(SubSeq(s, 1, Len(s) - 1)) = Len(s) - 1
<1> DEFINE n == Len(s) - 1
<1>1. n \in Nat /\ 1 \in Int /\ n \in Int
  OBVIOUS
<1>2. \A i \in 1..n : s[i] \in S
  OBVIOUS
<1>3. Len(SubSeq(s, 1, n)) = IF 1 <= n THEN n - 1 + 1 ELSE 0
  <2> HIDE DEF n
  <2> QED
    BY <1>1, <1>2, SubSeqProperties
<1>4. (IF 1 <= n THEN n - 1 + 1 ELSE 0) = n
  <2> HIDE DEF n
  <2>1. CASE n = 0
    BY <2>1
  <2>2. CASE n # 0
    <3>1. 1 <= n
      BY <1>1, <2>2
    <3> QED
      BY <1>1, <3>1
  <2> QED
    BY <2>1, <2>2
<1> QED
  BY <1>3, <1>4

(* Leaving the innermost context keeps the others.                          *)
LEMMA PopType ==
  ASSUME stack \in Seq(Context), stack # <<>>
  PROVE  /\ Len(stack) \in Nat \ {0}
         /\ Pop \in Seq(Context) /\ Len(Pop) = Len(stack) - 1
         /\ \A i \in 1..Len(stack) - 1 : Pop[i] = stack[i]
         /\ Top \in Context /\ Top = stack[Len(stack)]
<1>1. Len(stack) \in Nat \ {0} /\ stack[Len(stack)] \in Context
  OBVIOUS
<1>2. Pop \in Seq(Context)
  BY DEF Pop
<1>3. Len(Pop) = Len(stack) - 1
  BY FrontLen DEF Pop
<1>4. \A i \in 1..Len(stack) - 1 : Pop[i] = stack[i]
  BY DEF Pop
<1> QED
  BY <1>1, <1>2, <1>3, <1>4 DEF Top

(* The launcher of a device of the current module is a launcher.            *)
LEMMA LauncherType ==
  ASSUME TypeOK, mode \in Mode, mod \in Module, NEW d \in Nat
  PROVE  LauncherOf(d) \in Launcher
  BY DEF TypeOK, LauncherOf, Launcher, Module

(* The IOCS list of a module is a sequence of entries.                      *)
LEMMA IocsType ==
  ASSUME Iocs \in Suites, NEW m \in Module
  PROVE  Iocs[m] \in Seq(IocEntry)
  BY ConstantsAssumption

(* The union of the modes of all modules is a set of modes.                 *)
LEMMA AllModesType == UNION {ModesOf[m] : m \in Module} \subseteq Mode
  BY ConstantsAssumption

(* Contexts are records of a kind and a device.                             *)
LEMMA ContextType ==
  ASSUME NEW d \in Nat
  PROVE  /\ [kind |-> "ioc", dev |-> d] \in Context
         /\ [kind |-> "emulator", dev |-> d] \in Context
  BY DEF Context

(* Every entry has its name among the names and its key among the keys.     *)
LEMMA EntryType ==
  ASSUME Iocs \in Suites, mod \in Module, NEW d \in 1..Len(Iocs[mod])
  PROVE  /\ NameOf(LauncherOf(d)) = Iocs[mod][d].ioc
         /\ NameOf(LauncherOf(d)) \in IocName
         /\ KeyOf(d) \in Key
<1>1. Iocs[mod][d] \in IocEntry
  BY IocsType
<1> QED
  BY <1>1 DEF IocEntry, NameOf, LauncherOf, KeyOf, Key

(* Entering a context of a device of the module.                            *)
LEMMA PushType ==
  ASSUME stack \in Seq(Context), NEW n \in Nat, NEW c \in Context, c.dev \in 1..n,
         \A i \in 1..Len(stack) : stack[i].dev \in 1..n
  PROVE  /\ Append(stack, c) \in Seq(Context) /\ Append(stack, c) # <<>>
         /\ \A i \in 1..Len(Append(stack, c)) : Append(stack, c)[i].dev \in 1..n
  OBVIOUS

(* Leaving a context.                                                       *)
LEMMA PopDevs ==
  ASSUME stack \in Seq(Context), stack # <<>>, NEW n,
         \A i \in 1..Len(stack) : stack[i].dev \in 1..n
  PROVE  Pop \in Seq(Context) /\ \A i \in 1..Len(Pop) : Pop[i].dev \in 1..n
  BY PopType

---------------------------------------------------------------------------
(* Types.  A module is current from StartModule on, which the type of the   *)
(* loop variables alone does not say.                                       *)

Running == pc \notin {"loop", "exited", "bound"}

(* While a module is run, mode, mod and dev name it and one of its devices. *)
CurrentOK ==
  /\ Running => mode \in Mode /\ mod \in Module
  /\ mod \in Module => mode \in Mode
  /\ pc \in {"emulator", "ioc", "console"} => dev \in 1..Len(Iocs[mod])
  /\ \A i \in 1..Len(stack) : stack[i].dev \in 1..Len(Iocs[mod])
  /\ stack # <<>> => Running
  /\ \A l \in booting \cup serving : l.dev \in 1..Len(Iocs[l.mod])

TInv == TypeOK /\ CurrentOK

(* The types and the current job, as one inductive invariant.               *)
LEMMA TypesHold == Spec => []TInv
<1>1. Init => TInv
  BY ConstantsAssumption DEF Init, TInv, TypeOK, CurrentOK, Running, Module, Key, Job, Launcher, Address
<1>0. NModules \in Nat \ {0}
  BY ConstantsAssumption
<1>2. TInv /\ [Next]_vars => TInv'
  <2> SUFFICES ASSUME TInv, [Next]_vars
               PROVE  TInv'
    OBVIOUS
  <2> USE DEF TInv, Running, TypeOK, CurrentOK, options, loopVars, envVars, emuVars, iocVars, history
  <2>1. CASE PickMode
    BY <1>0, <2>1 DEF PickMode, Module
  <2>2. CASE SkipModule
    BY <1>0, <2>2 DEF SkipModule, Module
  <2>3. CASE LaunchersRaise
    BY <1>0, <2>3 DEF LaunchersRaise
  <2>4. CASE StartModule
    BY <1>0, <2>4, IocsType DEF StartModule, Module, Address
  <2>5. CASE OpenEmulator
    <3>1. LauncherOf(dev) \in Launcher
      BY <2>5, LauncherType DEF OpenEmulator
    <3>2. RunningEmulators' \in [Key -> Launcher \cup {None}] /\ emulators' \subseteq Launcher
      BY <2>5, <3>1 DEF OpenEmulator
    <3>3. [kind |-> "emulator", dev |-> dev] \in Context
      BY ContextType
    <3>4. Len(Iocs[mod]) \in Nat
      BY <2>5, IocsType DEF OpenEmulator
    <3>5. /\ stack' \in Seq(Context)
          /\ \A i \in 1..Len(stack') : stack'[i].dev \in 1..Len(Iocs[mod])
      BY <2>5, <3>3, <3>4, PushType DEF OpenEmulator
    <3> QED
      BY <1>0, <2>5, <3>2, <3>5 DEF OpenEmulator
  <2>6. CASE NoEmulator
    BY <1>0, <2>6 DEF NoEmulator
  <2>7. CASE OpenEmulatorRaises
    BY <1>0, <2>7, LauncherType DEF OpenEmulatorRaises, Raise, Trouble, ThisJob, Job
  <2>8. CASE RefuseIoc
    BY <1>0, <2>8 DEF RefuseIoc, Raise, Trouble, ThisJob, Job
  <2>9. CASE SpawnIoc
    <3>1. LauncherOf(dev) \in Launcher
      BY <2>9, LauncherType DEF SpawnIoc
    <3>2. LauncherOf(dev).mod = mod /\ LauncherOf(dev).dev = dev
      BY DEF LauncherOf
    <3> QED
      BY <1>0, <2>9, <3>1, <3>2 DEF SpawnIoc
  <2>10. CASE IocOpened
    <3>1. LauncherOf(dev) \in Launcher
      BY <2>10, LauncherType DEF IocOpened
    <3>2. RunningIOCs' \in [IocName -> Launcher \cup {None}]
      BY <2>10, <3>1 DEF IocOpened
    <3>3. [kind |-> "ioc", dev |-> dev] \in Context
      BY ContextType
    <3>4. Len(Iocs[mod]) \in Nat
      BY <2>10, IocsType DEF IocOpened
    <3>5. /\ stack' \in Seq(Context)
          /\ \A i \in 1..Len(stack') : stack'[i].dev \in 1..Len(Iocs[mod])
      BY <2>10, <3>3, <3>4, PushType DEF IocOpened
    <3>6. /\ pc' \in {"emulator", "prompt", "testing"}
          /\ pc' = "emulator" => dev + 1 \in 1..Len(Iocs[mod])
      BY <2>10, <3>4 DEF IocOpened, AfterDevice
    <3> QED
      BY <1>0, <2>10, <3>2, <3>5, <3>6 DEF IocOpened
  <2>11. CASE OpenIocRaises
    BY <1>0, <2>11 DEF OpenIocRaises, Raise, Trouble, ThisJob, Job
  <2>12. CASE RunTests
    BY <1>0, <2>12 DEF RunTests, ThisJob, Job
  <2>13. CASE CloseEmulator
    <3>1. /\ stack' \in Seq(Context)
          /\ \A i \in 1..Len(stack') : stack'[i].dev \in 1..Len(Iocs[mod])
      BY <2>13, PopDevs DEF CloseEmulator
    <3>2. RunningEmulators' \in [Key -> Launcher \cup {None}]
      BY <2>13 DEF CloseEmulator, Unregister
    <3>3. exc' \in {"none", "error", "exit", "interrupt"} /\ troubled' \subseteq Job
      BY <2>13 DEF CloseEmulator, Trouble, ThisJob, Job
    <3> QED
      BY <1>0, <2>13, <3>1, <3>2, <3>3 DEF CloseEmulator
  <2>14. CASE CloseIoc
    <3>1. /\ stack' \in Seq(Context)
          /\ \A i \in 1..Len(stack') : stack'[i].dev \in 1..Len(Iocs[mod])
      BY <2>14, PopDevs DEF CloseIoc
    <3> QED
      BY <1>0, <2>14, <3>1 DEF CloseIoc
  <2>15. CASE CloseIocRaises
    <3>1. /\ stack' \in Seq(Context)
          /\ \A i \in 1..Len(stack') : stack'[i].dev \in 1..Len(Iocs[mod])
      BY <2>15, PopDevs DEF CloseIocRaises
    <3> QED
      BY <1>0, <2>15, <3>1 DEF CloseIocRaises, Trouble, ThisJob, Job
  <2>16. CASE FinishModule
    BY <1>0, <2>16 DEF FinishModule, ThisJob, Job, Restored, Reported, Address, Module
  <2>17. CASE ReportFailure
    BY <1>0, <2>17 DEF ReportFailure, ThisJob, Job, Reported, Module
  <2>18. CASE StopRun
    BY <1>0, <2>18 DEF StopRun
  <2>19. CASE RepeatPass
    BY <1>0, <2>19, AllModesType DEF RepeatPass, PassOver, Job
  <2>20. CASE ExitProgram
    BY <1>0, <2>20 DEF ExitProgram, PassOver
  <2>21. CASE AnswerYes
    BY <1>0, <2>21 DEF AnswerYes
  <2>22. CASE AnswerNo
    BY <1>0, <2>22 DEF AnswerNo
  <2>23. CASE AnswerQuit
    BY <1>0, <2>23 DEF AnswerQuit, Raise, ThisJob, Job
  <2>24. CASE InterruptBody
    BY <1>0, <2>24 DEF InterruptBody, Raise, ThisJob, Job
  <2>25. CASE InterruptOpening
    BY <1>0, <2>25, LauncherType DEF InterruptOpening, Raise, ThisJob, Job
  <2>30. CASE InterruptBooting
    BY <1>0, <2>30 DEF InterruptBooting, Raise, Trouble, ThisJob, Job
  <2>26. CASE InterruptClosing
    BY <1>0, <2>26, PopDevs DEF InterruptClosing, Raise, ThisJob, Job
  <2>27. CASE IocBoots
    <3>1. PICK l \in booting :
            /\ booting' = booting \ {l} /\ serving' = serving \cup {l}
            /\ prompted' = prompted \cup {LogFile(l)}
      BY <2>27 DEF IocBoots
    <3>2. l.mod \in Module /\ l.mode \in Mode /\ l.dev \in 1..Len(Iocs[l.mod])
      BY <3>1 DEF Launcher
    <3>3. LogFile(l) \in Module \X Mode \X IocName
      <4>1. Iocs[l.mod][l.dev] \in IocEntry
        BY <3>2, IocsType
      <4>2. NameOf(l) \in IocName
        BY <4>1 DEF NameOf, IocEntry
      <4> QED
        BY <3>2, <4>2 DEF LogFile
    <3>4. /\ booting' \subseteq Launcher /\ serving' \subseteq Launcher
          /\ prompted' \subseteq Module \X Mode \X IocName
      BY <3>1, <3>3
    <3>5. \A k \in (booting \cup serving)' : k.dev \in 1..Len(Iocs[k.mod])
      BY <3>1
    <3> QED
      BY <2>27, <3>4, <3>5 DEF IocBoots
  <2>28. CASE IocDies
    <3>1. PICK l \in booting \cup serving :
            /\ booting' = booting \ {l} /\ serving' = serving \ {l}
            /\ bereaved' = IF Launched(l) THEN bereaved \cup {<<l.mod, l.mode>>} ELSE bereaved
      BY <2>28 DEF IocDies
    <3>2. <<l.mod, l.mode>> \in Job
      BY <3>1 DEF Job, Launcher
    <3>3. /\ booting' \subseteq Launcher /\ serving' \subseteq Launcher /\ bereaved' \subseteq Job
      BY <3>1, <3>2
    <3>4. \A k \in (booting \cup serving)' : k.dev \in 1..Len(Iocs[k.mod])
      BY <3>1
    <3> QED
      BY <2>28, <3>3, <3>4 DEF IocDies
  <2>29. CASE UNCHANGED vars
    BY <2>29 DEF TypeOK, CurrentOK, vars, options, loopVars, envVars, emuVars, iocVars, history
  <2> QED
    BY <2>1, <2>2, <2>3, <2>4, <2>5, <2>6, <2>7, <2>8, <2>9, <2>10, <2>11, <2>12, <2>13, <2>14, <2>15, <2>16, <2>17, <2>18, <2>19, <2>20, <2>21, <2>22, <2>23, <2>24, <2>25, <2>26, <2>27, <2>28, <2>29, <2>30 DEF Next, Program, User, Stopped
<1> QED
  BY <1>1, <1>2, PTL DEF Spec

(* Every variable of the program stays in its type.                         *)
THEOREM TypeCorrect == Spec => []TypeOK
<1>1. TInv => TypeOK
  BY DEF TInv
<1> QED
  BY <1>1, TypesHold, PTL

---------------------------------------------------------------------------
(* The loops and the reported results.                                      *)

(* The turn of j in this pass is still to come, or has passed.              *)
Due(j) ==
  \/ j[2] \in modesLeft
  \/ j[2] = mode /\ (j[1] > mod \/ (j[1] = mod /\ pc = "loop"))
Over(j) == j[2] \notin modesLeft /\ (j[2] = mode => j[1] < mod)

(* What is known of the job being run.                                      *)
CurrentJobInv ==
  /\ results[ThisJob] = "none"
  /\ exc = "none" => ThisJob \notin troubled
  /\ exc = "error" => ThisJob \in troubled
  /\ exc = "exit" => stopped # None
  /\ verdict = "pass" <=> ThisJob \in testsOk
  /\ pc = "unwind" /\ exc = "none" => verdict # "none"
  /\ pc # "unwind" => exc = "none" /\ verdict = "none"

LoopInv ==
  /\ \A j \in Job : Due(j) => results[j] = "none" /\ j \notin testsOk /\ j \notin troubled
  /\ \A j \in Job : Over(j) /\ Selected(j[1], j[2]) => results[j] # "none"
  /\ mod \in Module => mode \notin modesLeft
  /\ Running => CurrentJobInv
  /\ pc # "exited" => exit = "none"
  /\ ResultIsHonest
  /\ ZeroMeansAllPassed

(* A job is a pair of a module and a mode.                                  *)
LEMMA JobPair ==
  ASSUME NEW j \in Job
  PROVE  j[1] \in Module /\ j[2] \in Mode /\ j = <<j[1], j[2]>>
  BY DEF Job

(* The job being run is one, and is not "no job".                           *)
LEMMA ThisJobType ==
  ASSUME mode \in Mode, mod \in Module
  PROVE  ThisJob \in Job /\ ThisJob # None
  BY ConstantsAssumption DEF ThisJob, Job

(* A step within the run of a module touches the record of that job alone.  *)
LEMMA RunningStep ==
  ASSUME TInv, LoopInv, Running, Running', UNCHANGED <<options, loopVars>>, CurrentJobInv',
         \A j \in Job : j # ThisJob => (j \in testsOk' <=> j \in testsOk)
                                       /\ (j \in troubled' <=> j \in troubled)
  PROVE  LoopInv'
<1>1. mode \in Mode /\ mod \in Module /\ ThisJob' = ThisJob /\ pc # "loop" /\ pc' # "loop"
  BY DEF TInv, CurrentOK, Running, ThisJob, loopVars
<1>2. UNCHANGED <<modesLeft, mode, mod, results, exit, repeat>>
  BY DEF options, loopVars
<1>3. results[ThisJob] = "none" /\ exit = "none"
  BY DEF LoopInv, CurrentJobInv, Running
<1>4. ASSUME NEW j \in Job, Due(j)'
      PROVE  Due(j) /\ j # ThisJob
  <2>1. Due(j)
    BY <1>1, <1>2, <1>4 DEF Due
  <2>2. j # ThisJob
    BY <1>1, <2>1 DEF Due, ThisJob, LoopInv, TInv, TypeOK, Module
  <2> QED
    BY <2>1, <2>2
<1>5. ASSUME NEW j \in Job, Over(j)'
      PROVE  Over(j)
  BY <1>2, <1>5 DEF Over
<1>6. \A j \in Job : Due(j)' => results'[j] = "none" /\ j \notin testsOk' /\ j \notin troubled'
  BY <1>2, <1>4 DEF LoopInv
<1>7. \A j \in Job : Over(j)' /\ Selected(j[1], j[2]) => results'[j] # "none"
  BY <1>2, <1>5 DEF LoopInv
<1>8. ResultIsHonest'
  BY <1>2, <1>3 DEF LoopInv, ResultIsHonest
<1> QED
  BY <1>1, <1>2, <1>3, <1>6, <1>7, <1>8 DEF LoopInv, Running, ZeroMeansAllPassed

(* The record of the jobs that are neither over nor current stays blank,    *)
(* and that of the jobs that are over is final.                             *)
LEMMA LoopHolds == Spec => []LoopInv
<1>1. Init => LoopInv
  <2> SUFFICES ASSUME Init
               PROVE  LoopInv
    OBVIOUS
  <2>1. \A j \in Job : results[j] = "none"
    BY DEF Init
  <2>2. ASSUME NEW j \in Job, Over(j)
        PROVE  ~Selected(j[1], j[2])
    BY <2>2, JobPair DEF Over, Selected, Init
  <2>3. mod \notin Module
    BY ConstantsAssumption DEF Init, Module
  <2> QED
    BY <2>1, <2>2, <2>3 DEF Init, LoopInv, Running, ResultIsHonest, ZeroMeansAllPassed
<1>2. TInv /\ TInv' /\ LoopInv /\ [Next]_vars => LoopInv'
  <2> SUFFICES ASSUME TInv, TInv', LoopInv, [Next]_vars
               PROVE  LoopInv'
    OBVIOUS
  <2>0. NModules \in Nat \ {0}
    BY ConstantsAssumption
  <2>1. CASE PickMode
    <3>1. PICK mo \in modesLeft : mode' = mo /\ modesLeft' = modesLeft \ {mo}
      BY <2>1 DEF PickMode
    <3>2. /\ UNCHANGED <<pc, results, exit, testsOk, troubled, stopped, repeat>>
          /\ pc = "loop" /\ mod = NModules + 1 /\ mod' = 1
      BY <2>1 DEF PickMode, envVars, iocVars, history, options
    <3>3. ASSUME NEW j \in Job, Due(j)'
          PROVE  Due(j)
      BY <3>1, <3>2, <3>3 DEF Due
    <3>4. ASSUME NEW j \in Job, Over(j)'
          PROVE  Over(j)
      BY <2>0, <3>1, <3>2, <3>4, JobPair DEF Over, Module
    <3> QED
      BY <3>1, <3>2, <3>3, <3>4
      DEF LoopInv, Running, ResultIsHonest, ZeroMeansAllPassed
  <2>2. CASE SkipModule
    <3>1. /\ UNCHANGED <<pc, modesLeft, mode, results, exit, testsOk, troubled, stopped, repeat>>
          /\ pc = "loop" /\ mod \in Module /\ mod' = mod + 1 /\ ~Selected(mod, mode)
      BY <2>2 DEF SkipModule, history, options
    <3>2. ASSUME NEW j \in Job, Due(j)'
          PROVE  Due(j)
      BY <2>0, <3>1, <3>2, JobPair DEF Due, Module
    <3>3. ASSUME NEW j \in Job, Over(j)', Selected(j[1], j[2])
          PROVE  Over(j)
      BY <2>0, <3>1, <3>3, JobPair DEF Over, Module
    <3> QED
      BY <3>1, <3>2, <3>3 DEF LoopInv, Running, ResultIsHonest, ZeroMeansAllPassed
  <2>3. CASE LaunchersRaise
    <3>1. /\ UNCHANGED <<modesLeft, mode, mod, results, testsOk, troubled, stopped, repeat>>
          /\ pc = "loop" /\ pc' = "exited" /\ exit' = "one"
      BY <2>3 DEF LaunchersRaise, history, options
    <3> QED
      BY <3>1 DEF LoopInv, Running, Due, Over, ResultIsHonest, ZeroMeansAllPassed
  <2>4. CASE StartModule
    <3>1. /\ UNCHANGED <<modesLeft, mode, mod, results, exit, testsOk, troubled, stopped, repeat>>
          /\ pc = "loop" /\ pc' = "emulator" /\ mod \in Module
          /\ exc' = "none" /\ verdict' = "none"
      BY <2>4 DEF StartModule, loopVars, history, options
    <3>2. ThisJob \in Job /\ Due(ThisJob) /\ ThisJob' = ThisJob
      BY <3>1, ThisJobType DEF TInv, CurrentOK, Due, ThisJob
    <3>3. CurrentJobInv'
      BY <3>1, <3>2 DEF LoopInv, CurrentJobInv
    <3> QED
      BY <3>1, <3>3 DEF LoopInv, Running, Due, Over, ResultIsHonest, ZeroMeansAllPassed
  <2>5. CASE OpenEmulator
    <3>1. Running /\ Running' /\ UNCHANGED <<options, loopVars>>
      BY <2>5 DEF OpenEmulator, Running
    <3>2. ThisJob' = ThisJob /\ ThisJob \in Job /\ ThisJob # None
      BY <3>1, ThisJobType DEF TInv, CurrentOK, ThisJob, loopVars
    <3>3. CurrentJobInv'
      BY <2>5, <3>1, <3>2 DEF OpenEmulator, LoopInv, CurrentJobInv, loopVars, history
    <3>4. \A j \in Job : j # ThisJob => (j \in testsOk' <=> j \in testsOk)
                                         /\ (j \in troubled' <=> j \in troubled)
      BY <2>5 DEF OpenEmulator, history
    <3> QED
      BY <3>1, <3>3, <3>4, RunningStep
  <2>6. CASE NoEmulator
    <3>1. Running /\ Running' /\ UNCHANGED <<options, loopVars>>
      BY <2>6 DEF NoEmulator, Running
    <3>2. ThisJob' = ThisJob /\ ThisJob \in Job /\ ThisJob # None
      BY <3>1, ThisJobType DEF TInv, CurrentOK, ThisJob, loopVars
    <3>3. CurrentJobInv'
      BY <2>6, <3>1, <3>2 DEF NoEmulator, LoopInv, CurrentJobInv, loopVars, history
    <3>4. \A j \in Job : j # ThisJob => (j \in testsOk' <=> j \in testsOk)
                                         /\ (j \in troubled' <=> j \in troubled)
      BY <2>6 DEF NoEmulator, history
    <3> QED
      BY <3>1, <3>3, <3>4, RunningStep
  <2>7. CASE SpawnIoc
    <3>1. Running /\ Running' /\ UNCHANGED <<options, loopVars>>
      BY <2>7 DEF SpawnIoc, Running
    <3>2. ThisJob' = ThisJob /\ ThisJob \in Job /\ ThisJob # None
      BY <3>1, ThisJobType DEF TInv, CurrentOK, ThisJob, loopVars
    <3>3. CurrentJobInv'
      BY <2>7, <3>1, <3>2 DEF SpawnIoc, LoopInv, CurrentJobInv, loopVars, history
    <3>4. \A j \in Job : j # ThisJob => (j \in testsOk' <=> j \in testsOk)
                                         /\ (j \in troubled' <=> j \in troubled)
      BY <2>7 DEF SpawnIoc, history
    <3> QED
      BY <3>1, <3>3, <3>4, RunningStep
  <2>8. CASE IocOpened
    <3>1. Running /\ Running' /\ UNCHANGED <<options, loopVars>>
      BY <2>8 DEF IocOpened, Running, AfterDevice
    <3>2. ThisJob' = ThisJob /\ ThisJob \in Job /\ ThisJob # None
      BY <3>1, ThisJobType DEF TInv, CurrentOK, ThisJob, loopVars
    <3>3. CurrentJobInv'
      BY <2>8, <3>1, <3>2 DEF IocOpened, AfterDevice, LoopInv, CurrentJobInv, loopVars, history
    <3>4. \A j \in Job : j # ThisJob => (j \in testsOk' <=> j \in testsOk)
                                         /\ (j \in troubled' <=> j \in troubled)
      BY <2>8 DEF IocOpened, AfterDevice, history
    <3> QED
      BY <3>1, <3>3, <3>4, RunningStep
  <2>9. CASE AnswerYes
    <3>1. Running /\ Running' /\ UNCHANGED <<options, loopVars>>
      BY <2>9 DEF AnswerYes, Running
    <3>2. ThisJob' = ThisJob /\ ThisJob \in Job /\ ThisJob # None
      BY <3>1, ThisJobType DEF TInv, CurrentOK, ThisJob, loopVars
    <3>3. CurrentJobInv'
      BY <2>9, <3>1, <3>2 DEF AnswerYes, LoopInv, CurrentJobInv, loopVars, history
    <3>4. \A j \in Job : j # ThisJob => (j \in testsOk' <=> j \in testsOk)
                                         /\ (j \in troubled' <=> j \in troubled)
      BY <2>9 DEF AnswerYes, history
    <3> QED
      BY <3>1, <3>3, <3>4, RunningStep
  <2>10. CASE AnswerNo
    <3>1. Running /\ Running' /\ UNCHANGED <<options, loopVars>>
      BY <2>10 DEF AnswerNo, Running
    <3>2. ThisJob' = ThisJob /\ ThisJob \in Job /\ ThisJob # None
      BY <3>1, ThisJobType DEF TInv, CurrentOK, ThisJob, loopVars
    <3>3. CurrentJobInv'
      BY <2>10, <3>1, <3>2 DEF AnswerNo, LoopInv, CurrentJobInv, loopVars, history
    <3>4. \A j \in Job : j # ThisJob => (j \in testsOk' <=> j \in testsOk)
                                         /\ (j \in troubled' <=> j \in troubled)
      BY <2>10 DEF AnswerNo, history
    <3> QED
      BY <3>1, <3>3, <3>4, RunningStep
  <2>11. CASE OpenEmulatorRaises
    <3>1. Running /\ Running' /\ UNCHANGED <<options, loopVars>>
      BY <2>11 DEF OpenEmulatorRaises, Running, Raise, Trouble
    <3>2. ThisJob' = ThisJob /\ ThisJob \in Job /\ ThisJob # None
      BY <3>1, ThisJobType DEF TInv, CurrentOK, ThisJob, loopVars
    <3>3. CurrentJobInv'
      BY <2>11, <3>1, <3>2 DEF OpenEmulatorRaises, Raise, Trouble, LoopInv, CurrentJobInv, loopVars, history
    <3>4. \A j \in Job : j # ThisJob => (j \in testsOk' <=> j \in testsOk)
                                         /\ (j \in troubled' <=> j \in troubled)
      BY <2>11 DEF OpenEmulatorRaises, Raise, Trouble, history
    <3> QED
      BY <3>1, <3>3, <3>4, RunningStep
  <2>12. CASE RefuseIoc
    <3>1. Running /\ Running' /\ UNCHANGED <<options, loopVars>>
      BY <2>12 DEF RefuseIoc, Running, Raise, Trouble
    <3>2. ThisJob' = ThisJob /\ ThisJob \in Job /\ ThisJob # None
      BY <3>1, ThisJobType DEF TInv, CurrentOK, ThisJob, loopVars
    <3>3. CurrentJobInv'
      BY <2>12, <3>1, <3>2 DEF RefuseIoc, Raise, Trouble, LoopInv, CurrentJobInv, loopVars, history
    <3>4. \A j \in Job : j # ThisJob => (j \in testsOk' <=> j \in testsOk)
                                         /\ (j \in troubled' <=> j \in troubled)
      BY <2>12 DEF RefuseIoc, Raise, Trouble, history
    <3> QED
      BY <3>1, <3>3, <3>4, RunningStep
  <2>13. CASE OpenIocRaises
    <3>1. Running /\ Running' /\ UNCHANGED <<options, loopVars>>
      BY <2>13 DEF OpenIocRaises, Running, Raise, Trouble
    <3>2. ThisJob' = ThisJob /\ ThisJob \in Job /\ ThisJob # None
      BY <3>1, ThisJobType DEF TInv, CurrentOK, ThisJob, loopVars
    <3>3. CurrentJobInv'
      BY <2>13, <3>1, <3>2 DEF OpenIocRaises, Raise, Trouble, LoopInv, CurrentJobInv, loopVars, history
    <3>4. \A j \in Job : j # ThisJob => (j \in testsOk' <=> j \in testsOk)
                                         /\ (j \in troubled' <=> j \in troubled)
      BY <2>13 DEF OpenIocRaises, Raise, Trouble, history
    <3> QED
      BY <3>1, <3>3, <3>4, RunningStep
  <2>14. CASE CloseEmulator
    <3>1. Running /\ Running' /\ UNCHANGED <<options, loopVars>>
      BY <2>14 DEF CloseEmulator, Running, Trouble
    <3>2. ThisJob' = ThisJob /\ ThisJob \in Job /\ ThisJob # None
      BY <3>1, ThisJobType DEF TInv, CurrentOK, ThisJob, loopVars
    <3>3. CurrentJobInv'
      BY <2>14, <3>1, <3>2 DEF CloseEmulator, Trouble, LoopInv, CurrentJobInv, loopVars, history
    <3>4. \A j \in Job : j # ThisJob => (j \in testsOk' <=> j \in testsOk)
                                         /\ (j \in troubled' <=> j \in troubled)
      BY <2>14 DEF CloseEmulator, Trouble, history
    <3> QED
      BY <3>1, <3>3, <3>4, RunningStep
  <2>15. CASE CloseIocRaises
    <3>1. Running /\ Running' /\ UNCHANGED <<options, loopVars>>
      BY <2>15 DEF CloseIocRaises, Running, Trouble
    <3>2. ThisJob' = ThisJob /\ ThisJob \in Job /\ ThisJob # None
      BY <3>1, ThisJobType DEF TInv, CurrentOK, ThisJob, loopVars
    <3>3. CurrentJobInv'
      BY <2>15, <3>1, <3>2 DEF CloseIocRaises, Trouble, LoopInv, CurrentJobInv, loopVars, history
    <3>4. \A j \in Job : j # ThisJob => (j \in testsOk' <=> j \in testsOk)
                                         /\ (j \in troubled' <=> j \in troubled)
      BY <2>15 DEF CloseIocRaises, Trouble, history
    <3> QED
      BY <3>1, <3>3, <3>4, RunningStep
  <2>16. CASE CloseIoc
    <3>1. Running /\ Running' /\ UNCHANGED <<options, loopVars>>
      BY <2>16 DEF CloseIoc, Running
    <3>2. ThisJob' = ThisJob /\ ThisJob \in Job /\ ThisJob # None
      BY <3>1, ThisJobType DEF TInv, CurrentOK, ThisJob, loopVars
    <3>3. CurrentJobInv'
      BY <2>16, <3>1, <3>2 DEF CloseIoc, LoopInv, CurrentJobInv, loopVars, history
    <3>4. \A j \in Job : j # ThisJob => (j \in testsOk' <=> j \in testsOk)
                                         /\ (j \in troubled' <=> j \in troubled)
      BY <2>16 DEF CloseIoc, history
    <3> QED
      BY <3>1, <3>3, <3>4, RunningStep
  <2>17. CASE RunTests
    <3>1. Running /\ Running' /\ UNCHANGED <<options, loopVars>>
      BY <2>17 DEF RunTests, Running
    <3>2. ThisJob' = ThisJob /\ ThisJob \in Job /\ ThisJob # None
      BY <3>1, ThisJobType DEF TInv, CurrentOK, ThisJob, loopVars
    <3>3. CurrentJobInv'
      BY <2>17, <3>1, <3>2 DEF RunTests, LoopInv, CurrentJobInv, loopVars, history
    <3>4. \A j \in Job : j # ThisJob => (j \in testsOk' <=> j \in testsOk)
                                         /\ (j \in troubled' <=> j \in troubled)
      BY <2>17 DEF RunTests, history
    <3> QED
      BY <3>1, <3>3, <3>4, RunningStep
  <2>18. CASE AnswerQuit
    <3>1. Running /\ Running' /\ UNCHANGED <<options, loopVars>>
      BY <2>18 DEF AnswerQuit, Running, Raise
    <3>2. ThisJob' = ThisJob /\ ThisJob \in Job /\ ThisJob # None
      BY <3>1, ThisJobType DEF TInv, CurrentOK, ThisJob, loopVars
    <3>3. CurrentJobInv'
      BY <2>18, <3>1, <3>2 DEF AnswerQuit, Raise, LoopInv, CurrentJobInv, loopVars, history
    <3>4. \A j \in Job : j # ThisJob => (j \in testsOk' <=> j \in testsOk)
                                         /\ (j \in troubled' <=> j \in troubled)
      BY <2>18 DEF AnswerQuit, Raise, history
    <3> QED
      BY <3>1, <3>3, <3>4, RunningStep
  <2>19. CASE InterruptBody
    <3>1. Running /\ Running' /\ UNCHANGED <<options, loopVars>>
      BY <2>19 DEF InterruptBody, Running, Raise
    <3>2. ThisJob' = ThisJob /\ ThisJob \in Job /\ ThisJob # None
      BY <3>1, ThisJobType DEF TInv, CurrentOK, ThisJob, loopVars
    <3>3. CurrentJobInv'
      BY <2>19, <3>1, <3>2 DEF InterruptBody, Raise, LoopInv, CurrentJobInv, loopVars, history
    <3>4. \A j \in Job : j # ThisJob => (j \in testsOk' <=> j \in testsOk)
                                         /\ (j \in troubled' <=> j \in troubled)
      BY <2>19 DEF InterruptBody, Raise, history
    <3> QED
      BY <3>1, <3>3, <3>4, RunningStep
  <2>20. CASE InterruptOpening
    <3>1. Running /\ Running' /\ UNCHANGED <<options, loopVars>>
      BY <2>20 DEF InterruptOpening, Running, Raise
    <3>2. ThisJob' = ThisJob /\ ThisJob \in Job /\ ThisJob # None
      BY <3>1, ThisJobType DEF TInv, CurrentOK, ThisJob, loopVars
    <3>3. CurrentJobInv'
      BY <2>20, <3>1, <3>2 DEF InterruptOpening, Raise, LoopInv, CurrentJobInv, loopVars, history
    <3>4. \A j \in Job : j # ThisJob => (j \in testsOk' <=> j \in testsOk)
                                         /\ (j \in troubled' <=> j \in troubled)
      BY <2>20 DEF InterruptOpening, Raise, history
    <3> QED
      BY <3>1, <3>3, <3>4, RunningStep
  <2>27. CASE InterruptBooting
    <3>1. Running /\ Running' /\ UNCHANGED <<options, loopVars>>
      BY <2>27 DEF InterruptBooting, Running, Raise
    <3>2. ThisJob' = ThisJob /\ ThisJob \in Job /\ ThisJob # None
      BY <3>1, ThisJobType DEF TInv, CurrentOK, ThisJob, loopVars
    <3>3. CurrentJobInv'
      BY <2>27, <3>1, <3>2 DEF InterruptBooting, Raise, Trouble, LoopInv, CurrentJobInv, loopVars, history
    <3>4. \A j \in Job : j # ThisJob => (j \in testsOk' <=> j \in testsOk)
                                         /\ (j \in troubled' <=> j \in troubled)
      BY <2>27 DEF InterruptBooting, Raise, Trouble, history
    <3> QED
      BY <3>1, <3>3, <3>4, RunningStep
  <2>21. CASE InterruptClosing
    <3>1. Running /\ Running' /\ UNCHANGED <<options, loopVars>>
      BY <2>21 DEF InterruptClosing, Running, Raise
    <3>2. ThisJob' = ThisJob /\ ThisJob \in Job /\ ThisJob # None
      BY <3>1, ThisJobType DEF TInv, CurrentOK, ThisJob, loopVars
    <3>3. CurrentJobInv'
      BY <2>21, <3>1, <3>2 DEF InterruptClosing, Raise, LoopInv, CurrentJobInv, loopVars, history
    <3>4. \A j \in Job : j # ThisJob => (j \in testsOk' <=> j \in testsOk)
                                         /\ (j \in troubled' <=> j \in troubled)
      BY <2>21 DEF InterruptClosing, Raise, history
    <3> QED
      BY <3>1, <3>3, <3>4, RunningStep
  <2>22. ASSUME FinishModule \/ ReportFailure
         PROVE  LoopInv'
    <3>1. /\ UNCHANGED <<modesLeft, mode, exit, testsOk, troubled, stopped, repeat>>
          /\ pc = "unwind" /\ pc' = "loop" /\ mod' = mod + 1
          /\ results' = [results EXCEPT ![ThisJob] = Reported]
          /\ exc = "none" \/ exc = "error"
      BY <2>22 DEF FinishModule, ReportFailure, Caught, history, options
    <3>2. mod \in Module /\ mode \in Mode /\ ThisJob \in Job /\ mode \notin modesLeft
      BY <3>1, ThisJobType DEF TInv, CurrentOK, Running, LoopInv
    <3>3. CurrentJobInv
      BY <3>1 DEF LoopInv, Running
    <3>4. Reported # "none" /\ (Reported = "pass" <=> ThisJob \in testsOk \ troubled)
      BY <3>1, <3>3 DEF Reported, CurrentJobInv, TInv, TypeOK
    <3>5. /\ results'[ThisJob] = Reported
          /\ \A j \in Job : j # ThisJob => results'[j] = results[j]
      BY <3>1, <3>2 DEF TInv, TypeOK
    <3>6. ASSUME NEW j \in Job, Due(j)'
          PROVE  Due(j) /\ j # ThisJob
      BY <2>0, <3>1, <3>2, <3>6, JobPair DEF Due, Module, ThisJob
    <3>7. ASSUME NEW j \in Job, Over(j)', j # ThisJob
          PROVE  Over(j)
      BY <2>0, <3>1, <3>2, <3>7, JobPair DEF Over, Module, ThisJob
    <3>8. ResultIsHonest'
      BY <3>1, <3>4, <3>5 DEF LoopInv, ResultIsHonest
    <3> QED
      BY <3>1, <3>2, <3>4, <3>5, <3>6, <3>7, <3>8
      DEF LoopInv, Running, ZeroMeansAllPassed
  <2>23. CASE StopRun
    <3>1. /\ UNCHANGED <<modesLeft, mode, mod, results, testsOk, troubled, stopped, repeat>>
          /\ pc = "unwind" /\ pc' = "exited"
          /\ exit' = "zero" => exc = "exit"
      BY <2>23 DEF StopRun, history, options
    <3>2. exit' = "zero" => stopped # None
      BY <3>1 DEF LoopInv, Running, CurrentJobInv
    <3> QED
      BY <3>1, <3>2 DEF LoopInv, Running, Due, Over, ResultIsHonest, ZeroMeansAllPassed
  <2>24. CASE RepeatPass
    <3>1. CASE pass < MaxPass
      <4>1. /\ pc' = "loop" /\ modesLeft' = UNION {ModesOf[m] : m \in Module}
            /\ results' = [j \in Job |-> "none"]
            /\ testsOk' = {} /\ troubled' = {}
            /\ UNCHANGED <<mode, mod, exit, repeat>> /\ mod = NModules + 1 /\ pc = "loop"
        BY <2>24, <3>1 DEF RepeatPass, PassOver, options
      <4>2. ASSUME NEW j \in Job, Over(j)'
            PROVE  ~Selected(j[1], j[2])
        BY <4>1, <4>2, JobPair DEF Over, Selected
      <4> QED
        BY <2>0, <4>1, <4>2 DEF LoopInv, Running, Module, ResultIsHonest, ZeroMeansAllPassed
    <3>2. CASE ~(pass < MaxPass)
      <4>1. /\ pc = "loop" /\ pc' = "bound"
            /\ UNCHANGED <<modesLeft, mode, mod, results, exit, testsOk, troubled, repeat>>
        BY <2>24, <3>2 DEF RepeatPass, PassOver, options
      <4> QED
        BY <4>1 DEF LoopInv, Running, Due, Over, ResultIsHonest, ZeroMeansAllPassed
    <3> QED
      BY <3>1, <3>2
  <2>25. CASE ExitProgram
    <3>1. /\ UNCHANGED <<modesLeft, mode, mod, results, testsOk, troubled, stopped, repeat>>
          /\ pc = "loop" /\ pc' = "exited" /\ mod = NModules + 1 /\ modesLeft = {}
          /\ exit' = "zero" => Success /\ ~repeat
      BY <2>25 DEF ExitProgram, PassOver, history, options
    <3>2. ASSUME NEW j \in Job
          PROVE  Over(j)
      BY <2>0, <3>1, JobPair DEF Over, Module
    <3>3. ASSUME exit' = "zero", NEW j \in Job, Selected(j[1], j[2])
          PROVE  results[j] = "pass"
      BY <3>1, <3>2, <3>3 DEF LoopInv, Success, TInv, TypeOK
    <3>4. ZeroMeansAllPassed'
      BY <3>1, <3>3 DEF ZeroMeansAllPassed, Selected
    <3> QED
      BY <3>1, <3>4 DEF LoopInv, Running, Due, Over, ResultIsHonest
  <2>26. CASE IocBoots \/ IocDies \/ UNCHANGED vars
    <3>1. UNCHANGED <<pc, modesLeft, mode, mod, results, exit, testsOk, troubled, stopped,
                      repeat, exc, verdict>>
      BY <2>26 DEF IocBoots, IocDies, vars, loopVars, history, options
    <3> QED
      BY <3>1 DEF LoopInv, Running, CurrentJobInv, ThisJob, Due, Over, ResultIsHonest,
                  ZeroMeansAllPassed
  <2> QED
    BY <2>1, <2>2, <2>3, <2>4, <2>5, <2>6, <2>7, <2>8, <2>9, <2>10, <2>11, <2>12, <2>13, <2>14, <2>15, <2>16, <2>17, <2>18, <2>19, <2>20, <2>21, <2>22, <2>23, <2>24, <2>25, <2>26, <2>27 DEF Next, Program, User, Stopped
<1> QED
  BY <1>1, <1>2, TypesHold, PTL DEF Spec

(* A module is reported as passed exactly when its runner said so and none  *)
(* of its devices raised on the way in or out (run_tests).                  *)
THEOREM ResultsAreHonest == Spec => []ResultIsHonest
<1>1. LoopInv => ResultIsHonest
  BY DEF LoopInv
<1> QED
  BY <1>1, LoopHolds, PTL

(* The exit status is 0 only when every selected module passed in every     *)
(* selected mode of a single pass, or the user stopped the run.             *)
THEOREM ZeroExitMeansAllPassed == Spec => []ZeroMeansAllPassed
<1>1. LoopInv => ZeroMeansAllPassed
  BY DEF LoopInv
<1> QED
  BY <1>1, LoopHolds, PTL

---------------------------------------------------------------------------
(* The environment between modules.                                         *)

(* As long as no module failed, what modified_environment has saved is the  *)
(* value of the user, or the empty string the code puts in place of none.   *)
UsersOwn(e) == e = UserEnv \/ (UserEnv = "unset" /\ e = "empty")

EnvironmentInv ==
  /\ EnvironmentKept
  /\ Running /\ Success => UsersOwn(oldEnv)

(* A step that reports nothing and leaves the saved value alone.            *)
LEMMA EnvironmentStep ==
  ASSUME EnvironmentInv, UNCHANGED <<results, oldEnv>>,
         \/ Running /\ pc' # "loop"
         \/ pc = "loop" /\ env' = env /\ ~Running'
         \/ ~Running /\ pc # "loop" /\ pc' = pc
  PROVE  EnvironmentInv'
BY DEF EnvironmentInv, EnvironmentKept, Success, Running, UsersOwn

(* The environment is restored as long as no module failed.                 *)
LEMMA EnvironmentHolds == Spec => []EnvironmentInv
<1>1. Init => EnvironmentInv
  BY DEF Init, EnvironmentInv, EnvironmentKept, Running
<1>2. TInv /\ LoopInv /\ EnvironmentInv /\ [Next]_vars => EnvironmentInv'
  <2> SUFFICES ASSUME TInv, LoopInv, EnvironmentInv, [Next]_vars
               PROVE  EnvironmentInv'
    OBVIOUS
  <2>1. CASE PickMode \/ SkipModule \/ LaunchersRaise \/ ExitProgram
    <3>1. /\ UNCHANGED <<results, oldEnv, env>> /\ pc = "loop" /\ pc' \in {"loop", "exited"}
      BY <2>1 DEF PickMode, SkipModule, LaunchersRaise, ExitProgram, PassOver, envVars, loopVars
    <3> QED
      BY <3>1, EnvironmentStep DEF Running
  <2>2. CASE StartModule
    <3>1. /\ pc = "loop" /\ pc' = "emulator" /\ oldEnv' = env /\ results' = results
      BY <2>2 DEF StartModule, loopVars
    <3>2. Success => UsersOwn(env)
      BY <3>1 DEF EnvironmentInv, EnvironmentKept, UsersOwn
    <3>3. (Success => UsersOwn(oldEnv))'
      BY <3>1, <3>2 DEF Success, UsersOwn
    <3> QED
      BY <3>1, <3>3 DEF EnvironmentInv, EnvironmentKept
  <2>3. CASE \/ OpenEmulator \/ NoEmulator \/ OpenEmulatorRaises \/ RefuseIoc \/ SpawnIoc \/ IocOpened
             \/ OpenIocRaises \/ RunTests \/ CloseEmulator \/ CloseIoc \/ CloseIocRaises \/ StopRun
             \/ User
    <3>1. /\ Running /\ pc' # "loop" /\ UNCHANGED <<results, oldEnv>>
      <4>1. CASE \/ OpenEmulator \/ NoEmulator \/ OpenEmulatorRaises \/ RefuseIoc \/ SpawnIoc
        BY <4>1 DEF Running, OpenEmulator, NoEmulator, OpenEmulatorRaises, RefuseIoc, SpawnIoc, Raise,
                    loopVars, envVars
      <4>2. CASE IocOpened \/ OpenIocRaises \/ RunTests
        BY <4>2 DEF Running, IocOpened, AfterDevice, OpenIocRaises, RunTests, Raise, loopVars, envVars
      <4>3. CASE CloseEmulator \/ CloseIoc \/ CloseIocRaises \/ StopRun
        BY <4>3 DEF Running, CloseEmulator, CloseIoc, CloseIocRaises, StopRun, loopVars, envVars
      <4>4. CASE User
        BY <4>4 DEF Running, User, AnswerYes, AnswerNo, AnswerQuit, InterruptBody, InterruptOpening,
                    InterruptBooting, InterruptClosing, Raise, loopVars, envVars
      <4> QED
        BY <2>3, <4>1, <4>2, <4>3, <4>4
    <3> QED
      BY <3>1, EnvironmentStep
  <2>4. CASE FinishModule
    <3>1. /\ pc = "unwind" /\ pc' = "loop" /\ env' = Restored
          /\ results' = [results EXCEPT ![ThisJob] = Reported]
      BY <2>4 DEF FinishModule
    <3>2. results[ThisJob] = "none" /\ results \in [Job -> {"none", "pass", "fail"}]
      BY <3>1 DEF LoopInv, Running, CurrentJobInv, TInv, TypeOK
    <3>3. ASSUME Success'
          PROVE  Success
      BY <3>1, <3>2, <3>3 DEF Success
    <3>4. Success' => UsersOwn(env') /\ env' # "unset"
      BY <3>1, <3>3, ConstantsAssumption DEF EnvironmentInv, Running, Restored, UsersOwn
    <3> QED
      BY <3>1, <3>4 DEF EnvironmentInv, EnvironmentKept, Running, UsersOwn
  <2>5. CASE ReportFailure
    <3>1. /\ pc = "unwind" /\ pc' = "loop" /\ exc = "error"
          /\ results' = [results EXCEPT ![ThisJob] = Reported]
      BY <2>5 DEF ReportFailure, Caught
    <3>2. ThisJob \in Job /\ results \in [Job -> {"none", "pass", "fail"}]
      BY <3>1, ThisJobType DEF TInv, TypeOK, CurrentOK, Running
    <3>3. results'[ThisJob] = "fail"
      BY <3>1, <3>2 DEF Reported
    <3>4. ~Success'
      BY <3>2, <3>3 DEF Success
    <3> QED
      BY <3>1, <3>4 DEF EnvironmentInv, EnvironmentKept, Running
  <2>6. CASE RepeatPass
    <3>1. /\ pc = "loop" /\ pc' \in {"loop", "bound"} /\ env' = env /\ Success
          /\ pc' = "loop" => results' = [j \in Job |-> "none"]
      BY <2>6 DEF RepeatPass, PassOver, envVars
    <3> QED
      BY <3>1 DEF EnvironmentInv, EnvironmentKept, Running
  <2>7. CASE IocBoots \/ IocDies \/ UNCHANGED vars
    <3>1. UNCHANGED <<pc, results, oldEnv, env>>
      BY <2>7 DEF IocBoots, IocDies, vars, envVars, loopVars
    <3> QED
      BY <3>1 DEF EnvironmentInv, EnvironmentKept, Success, Running, UsersOwn
  <2> QED
    BY <2>1, <2>2, <2>3, <2>4, <2>5, <2>6, <2>7 DEF Next, Program, Stopped
<1> QED
  BY <1>1, <1>2, TypesHold, LoopHolds, PTL DEF Spec

(* Between modules, as long as none failed, the environment is the user's,  *)
(* but for an address list that was not set, which is empty after the first *)
(* module (modified_environment).                                           *)
THEOREM EnvironmentIsKept == Spec => []EnvironmentKept
<1>1. EnvironmentInv => EnvironmentKept
  BY DEF EnvironmentInv
<1> QED
  BY <1>1, EnvironmentHolds, PTL

---------------------------------------------------------------------------
(* Stopping.                                                                *)

(* Once the user stopped the run it is over, or ending, or the stop was     *)
(* replaced by an error of the module and the module reported as failed.    *)
StopInv ==
  stopped # None =>
    \/ pc = "exited"
    \/ pc = "unwind" /\ stopped = ThisJob /\ exc # "none"
    \/ stopped \in troubled /\ results[stopped] = "fail"

(* The stop of the run, as long as no error replaced it, leads to its end.  *)
LEMMA StopHolds == Spec => []StopInv
<1>1. Init => StopInv
  BY DEF Init, StopInv
<1>2. TInv /\ LoopInv /\ StopInv /\ [Next]_vars => StopInv'
  <2> SUFFICES ASSUME TInv, LoopInv, StopInv, [Next]_vars
               PROVE  StopInv'
    OBVIOUS
  <2>1. CASE PickMode \/ SkipModule \/ LaunchersRaise \/ StartModule \/ ExitProgram
    <3>1. pc = "loop" /\ UNCHANGED <<stopped, troubled, results>>
      BY <2>1 DEF PickMode, SkipModule, LaunchersRaise, StartModule, ExitProgram, PassOver, history, loopVars
    <3> QED
      BY <3>1 DEF StopInv
  <2>2. CASE \/ OpenEmulator \/ NoEmulator \/ OpenEmulatorRaises \/ RefuseIoc \/ SpawnIoc \/ IocOpened
             \/ OpenIocRaises \/ RunTests \/ AnswerYes \/ AnswerNo
    <3>1. /\ pc \in {"emulator", "ioc", "console", "testing", "prompt"}
          /\ troubled \subseteq troubled' /\ UNCHANGED <<stopped, results>>
      BY <2>2 DEF OpenEmulator, NoEmulator, OpenEmulatorRaises, RefuseIoc, SpawnIoc, IocOpened, OpenIocRaises,
                  RunTests, AnswerYes, AnswerNo, Trouble, history, loopVars
    <3> QED
      BY <3>1 DEF StopInv
  <2>3. CASE AnswerQuit \/ InterruptBody \/ InterruptOpening \/ InterruptBooting \/ InterruptClosing
    <3>1. /\ stopped' = ThisJob /\ pc' = "unwind" /\ exc' # "none" /\ UNCHANGED <<mod, mode>>
      BY <2>3 DEF AnswerQuit, InterruptBody, InterruptOpening, InterruptBooting, InterruptClosing, Raise,
                  loopVars
    <3> QED
      BY <3>1 DEF StopInv, ThisJob
  <2>4. CASE CloseEmulator \/ CloseIoc \/ CloseIocRaises
    <3>1. /\ pc = "unwind" /\ pc' = "unwind" /\ troubled \subseteq troubled'
          /\ exc # "none" => exc' # "none"
          /\ UNCHANGED <<stopped, results, mod, mode>>
      BY <2>4 DEF CloseEmulator, CloseIoc, CloseIocRaises, Trouble, history, loopVars
    <3> QED
      BY <3>1 DEF StopInv, ThisJob
  <2>5. CASE FinishModule \/ ReportFailure
    <3>1. /\ pc = "unwind" /\ pc' = "loop" /\ UNCHANGED <<stopped, troubled>>
          /\ results' = [results EXCEPT ![ThisJob] = Reported]
          /\ exc \in {"none", "error"}
      BY <2>5 DEF FinishModule, ReportFailure, Caught, history
    <3>2. CurrentJobInv /\ ThisJob \in Job /\ results \in [Job -> {"none", "pass", "fail"}]
          /\ stopped \in Job \cup {None}
      BY <3>1, ThisJobType DEF TInv, TypeOK, CurrentOK, LoopInv, Running
    <3>3. CASE stopped = ThisJob
      <4>1. CASE exc = "none"
        BY <3>1, <3>2, <3>3, <4>1 DEF StopInv, CurrentJobInv
      <4>2. CASE exc = "error"
        BY <3>1, <3>2, <3>3, <4>2 DEF StopInv, CurrentJobInv, Reported
      <4> QED
        BY <3>1, <4>1, <4>2
    <3>4. CASE stopped # ThisJob
      BY <3>1, <3>2, <3>4 DEF StopInv
    <3> QED
      BY <3>3, <3>4
  <2>6. CASE StopRun
    BY <2>6 DEF StopRun, StopInv
  <2>7. CASE RepeatPass
    <3>1. pc = "loop" /\ Success /\ stopped' = stopped
      BY <2>7 DEF RepeatPass, PassOver
    <3>2. stopped = None
      BY <3>1 DEF StopInv, Success, TInv, TypeOK
    <3> QED
      BY <3>1, <3>2 DEF StopInv
  <2>8. CASE IocBoots \/ IocDies \/ UNCHANGED vars
    <3>1. UNCHANGED <<pc, stopped, troubled, results, exc, mod, mode>>
      BY <2>8 DEF IocBoots, IocDies, vars, history, loopVars
    <3> QED
      BY <3>1 DEF StopInv, ThisJob
  <2> QED
    BY <2>1, <2>2, <2>3, <2>4, <2>5, <2>6, <2>7, <2>8 DEF Next, Program, User, Stopped
<1> QED
  BY <1>1, <1>2, TypesHold, LoopHolds, PTL DEF Spec

(* Ctrl-C, or Q at the prompt, ends testing: no tests start after it, unless *)
(* a device of the module being stopped raises on the way in or out.        *)
THEOREM StopEndsTesting == Spec => NoTestsAfterStop
<1>1. TInv /\ LoopInv /\ StopInv /\ [Next]_vars =>
        [stopped \notin {None} \cup troubled => pc' # "testing"]_vars
  <2> SUFFICES ASSUME TInv, LoopInv, StopInv, [Next]_vars, stopped \notin {None} \cup troubled, vars' # vars
               PROVE  pc' # "testing"
    OBVIOUS
  <2>1. \/ pc = "exited"
        \/ pc = "unwind"
    BY DEF StopInv
  <2>2. CASE pc = "exited"
    <3>1. pc' = "exited"
      BY <2>2 DEF Next, Program, User, Stopped, PickMode, SkipModule, LaunchersRaise, StartModule, OpenEmulator,
           NoEmulator, OpenEmulatorRaises, RefuseIoc, SpawnIoc, IocOpened, OpenIocRaises, RunTests,
           CloseEmulator, CloseIoc, CloseIocRaises, FinishModule, ReportFailure, StopRun, RepeatPass,
           ExitProgram, PassOver, AnswerYes, AnswerNo, AnswerQuit, InterruptBody, InterruptOpening,
           InterruptBooting, InterruptClosing, IocBoots, IocDies, vars
    <3> QED
      BY <3>1
  <2>3. CASE pc = "unwind"
    <3>1. pc' \in {"unwind", "loop", "exited"}
      BY <2>3 DEF Next, Program, User, Stopped, PickMode, SkipModule, LaunchersRaise, StartModule, OpenEmulator,
           NoEmulator, OpenEmulatorRaises, RefuseIoc, SpawnIoc, IocOpened, OpenIocRaises, RunTests,
           CloseEmulator, CloseIoc, CloseIocRaises, FinishModule, ReportFailure, StopRun, RepeatPass,
           ExitProgram, PassOver, AnswerYes, AnswerNo, AnswerQuit, InterruptBody, InterruptOpening,
           InterruptBooting, InterruptClosing, Raise, IocBoots, IocDies, vars
    <3> QED
      BY <3>1
  <2> QED
    BY <2>1, <2>2, <2>3
<1>2. NoTestsAfterStop <=> [][stopped \notin {None} \cup troubled => pc' # "testing"]_vars
  BY DEF NoTestsAfterStop
<1> QED
  BY <1>1, <1>2, TypesHold, LoopHolds, StopHolds, PTL DEF Spec
=============================================================================
