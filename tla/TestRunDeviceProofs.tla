------------------------ MODULE TestRunDeviceProofs ------------------------
(***************************************************************************)
(* What holds of the devices of the module being run: the order in which   *)
(* their contexts are entered and left, the emulators that run meanwhile,  *)
(* and the registers the tests look their devices up in.                   *)
(***************************************************************************)
EXTENDS TestRunProofs

On(c) == \E i \in 1..Len(stack) : stack[i] = c
EmulatorContext(d) == [kind |-> "emulator", dev |-> d]
IocContext(d) == [kind |-> "ioc", dev |-> d]

(* No two devices of the current module share an IOC name or a register     *)
(* key.  Two devices with "emulators" do share their key.                   *)
DistinctDevices ==
  \A c, d \in 1..Len(Iocs[mod]) : c # d =>
    /\ Iocs[mod][c].ioc # Iocs[mod][d].ioc
    /\ HasEmulator(c) /\ HasEmulator(d) => KeyOf(c) # KeyOf(d)

---------------------------------------------------------------------------
(* The inductive invariant.                                                 *)

(* Devices are entered in the order of IOCS, the emulator before the IOC.   *)
Ordered ==
  \A i, j \in 1..Len(stack) : i < j =>
    \/ stack[i].dev < stack[j].dev
    \/ stack[i].dev = stack[j].dev /\ stack[i].kind = "emulator" /\ stack[j].kind = "ioc"

(* An IOC is entered under its emulator.                                    *)
EmulatorFirst ==
  \A i \in 1..Len(stack) :
    IF stack[i].kind = "ioc"
    THEN HasEmulator(stack[i].dev) =>
           \E j \in 1..Len(stack) : j < i /\ stack[j] = EmulatorContext(stack[i].dev)
    ELSE HasEmulator(stack[i].dev)

Opened(n) == \A d \in 1..n : On(IocContext(d))

(* How far the entering of the devices has come.                            *)
Frontier ==
  /\ pc \in {"emulator", "ioc", "console"} =>
       /\ Opened(dev - 1)
       /\ \A i \in 1..Len(stack) :
            \/ stack[i].dev < dev
            \/ pc # "emulator" /\ stack[i] = EmulatorContext(dev)
  /\ pc \in {"ioc", "console"} /\ HasEmulator(dev) => On(EmulatorContext(dev))
  /\ pc \in {"prompt", "parked", "testing"} => Opened(Len(Iocs[mod]))

EmulatorsRun ==
  mode # RecSim =>
    \A i \in 1..Len(stack) :
      stack[i].kind = "emulator" => LauncherOf(stack[i].dev) \in emulators

Registered ==
  \A i \in 1..Len(stack) :
    IF stack[i].kind = "ioc"
    THEN RunningIOCs[Iocs[mod][stack[i].dev].ioc] = LauncherOf(stack[i].dev)
    ELSE RunningEmulators[KeyOf(stack[i].dev)] = LauncherOf(stack[i].dev)

DeviceInv ==
  /\ Running => env = "broadcast" /\ testMode = mode
  /\ Ordered /\ EmulatorFirst /\ Frontier /\ EmulatorsRun
  /\ DistinctDevices => Registered

---------------------------------------------------------------------------
(* Steps that keep the stack, the job and the registers.                    *)
Kept == UNCHANGED <<Iocs, pass, mode, mod, stack, env, testMode, emulators, RunningEmulators,
                    RunningIOCs>>

(* Unwinding and leaving the module asks nothing of the frontier.           *)
LEMMA KeptStep ==
  ASSUME DeviceInv, Running, Kept,
         \/ pc' \in {"unwind", "exited"}
         \/ pc \in {"prompt", "parked"} /\ pc' \in {"parked", "testing"}
         \/ pc \in {"emulator", "ioc"} /\ dev' = dev /\ Frontier'
  PROVE  DeviceInv'
<1>1. Frontier'
  BY DEF Frontier, DeviceInv, Opened, On, Kept
<1>2. Ordered' /\ EmulatorFirst' /\ EmulatorsRun'
  BY DEF Kept, DeviceInv, Ordered, EmulatorFirst, EmulatorsRun, HasEmulator, LauncherOf, EmulatorContext
<1>3. DistinctDevices' => Registered'
  BY DEF Kept, DeviceInv, Registered, DistinctDevices, HasEmulator, KeyOf, LauncherOf
<1> QED
  BY <1>1, <1>2, <1>3 DEF DeviceInv, Kept

(* With no context entered little is left to hold.                          *)
LEMMA EmptyStack ==
  ASSUME stack = <<>>, Running => env = "broadcast" /\ testMode = mode,
         \/ ~Running
         \/ pc = "emulator" /\ dev = 1
         \/ pc = "unwind"
  PROVE  DeviceInv
BY DEF DeviceInv, Ordered, EmulatorFirst, Frontier, Opened, EmulatorsRun, Registered, Running

(* The same of the state after a step.                                      *)
LEMMA EmptyStackNext ==
  ASSUME stack' = <<>>, Running' => env' = "broadcast" /\ testMode' = mode',
         \/ ~Running'
         \/ pc' = "emulator" /\ dev' = 1
         \/ pc' = "unwind"
  PROVE  DeviceInv'
BY DEF DeviceInv, Ordered, EmulatorFirst, Frontier, Opened, EmulatorsRun, Registered, Running

(* What appending a context does.                                           *)
LEMMA PushFacts ==
  ASSUME stack \in Seq(Context), NEW c \in Context, stack' = Append(stack, c)
  PROVE  /\ Len(stack) \in Nat /\ Len(stack') = Len(stack) + 1
         /\ stack'[Len(stack) + 1] = c
         /\ \A i \in 1..Len(stack) : stack'[i] = stack[i]
         /\ \A i \in 1..Len(stack) : stack[i] \in Context
OBVIOUS

(* What is left after the innermost context is left.                        *)
LEMMA Unwinding ==
  ASSUME TInv, DeviceInv, pc = "unwind", pc' = "unwind", stack # <<>>, stack' = Pop,
         UNCHANGED <<Iocs, pass, mode, mod, env, testMode>>
  PROVE  /\ Ordered' /\ EmulatorFirst' /\ Frontier'
         /\ (Running => env = "broadcast" /\ testMode = mode)'
         /\ Len(stack') = Len(stack) - 1 /\ Len(stack) \in Nat \ {0}
         /\ \A i \in 1..Len(stack') : stack'[i] = stack[i]
         /\ Top = stack[Len(stack)]
         /\ \A i \in 1..Len(stack) : stack[i] \in Context /\ stack[i].dev \in 1..Len(Iocs[mod])
<1>1. /\ Len(stack') = Len(stack) - 1 /\ Len(stack) \in Nat \ {0}
      /\ \A i \in 1..Len(stack') : stack'[i] = stack[i]
      /\ Top = stack[Len(stack)]
  BY PopType DEF TInv, TypeOK
<1>2. \A i \in 1..Len(stack) : stack[i] \in Context /\ stack[i].dev \in 1..Len(Iocs[mod])
  BY DEF TInv, TypeOK, CurrentOK
<1>3. Ordered'
  BY <1>1 DEF DeviceInv, Ordered
<1>4. EmulatorFirst'
  BY <1>1 DEF DeviceInv, EmulatorFirst, HasEmulator, EmulatorContext
<1>5. Frontier' /\ (Running => env = "broadcast" /\ testMode = mode)'
  BY DEF DeviceInv, Frontier, Running
<1> QED
  BY <1>1, <1>2, <1>3, <1>4, <1>5

---------------------------------------------------------------------------
(* The contexts of the current module are ordered, and registered.          *)
LEMMA DevicesHold == Spec => []DeviceInv
<1>1. Init => DeviceInv
  BY EmptyStack DEF Init, Running
<1>2. TInv /\ TInv' /\ DeviceInv /\ [Next]_vars => DeviceInv'
  <2> SUFFICES ASSUME TInv, TInv', DeviceInv, [Next]_vars
               PROVE  DeviceInv'
    OBVIOUS
  <2>0. \A i \in 1..Len(stack) : stack[i] \in Context /\ stack[i].dev \in 1..Len(Iocs[mod])
    BY DEF TInv, TypeOK, CurrentOK
  <2>1. CASE OpenEmulator
    <3>1. /\ Running /\ pc = "emulator" /\ pc' = "ioc" /\ HasEmulator(dev)
          /\ UNCHANGED <<Iocs, pass, mode, mod, dev, env, testMode, RunningIOCs>>
          /\ emulators' = IF mode = RecSim THEN emulators ELSE emulators \cup {LauncherOf(dev)}
          /\ RunningEmulators' = [RunningEmulators EXCEPT ![KeyOf(dev)] = LauncherOf(dev)]
          /\ stack' = Append(stack, EmulatorContext(dev))
      BY <2>1 DEF OpenEmulator, Running, options, loopVars, envVars, iocVars, EmulatorContext
    <3>2. mod \in Module /\ mode \in Mode /\ dev \in 1..Len(Iocs[mod]) /\ dev \in Nat
      BY <3>1 DEF TInv, CurrentOK, TypeOK
    <3>3. EmulatorContext(dev) \in Context /\ stack \in Seq(Context)
      BY <3>2, ContextType DEF EmulatorContext, TInv, TypeOK
    <3>4. /\ Len(stack) \in Nat /\ Len(stack') = Len(stack) + 1
          /\ stack'[Len(stack) + 1] = EmulatorContext(dev)
          /\ \A i \in 1..Len(stack) : stack'[i] = stack[i]
      BY <3>1, <3>3, PushFacts
    <3>5. /\ \A i \in 1..Len(stack) : stack[i].dev < dev
          /\ Opened(dev - 1)
      BY <3>1 DEF DeviceInv, Frontier
    <3>6. EmulatorContext(dev).dev = dev /\ EmulatorContext(dev).kind = "emulator"
      BY DEF EmulatorContext
    <3>7. Ordered'
      <4> SUFFICES ASSUME NEW i \in 1..Len(stack'), NEW j \in 1..Len(stack'), i < j
                   PROVE  \/ stack'[i].dev < stack'[j].dev
                          \/ /\ stack'[i].dev = stack'[j].dev
                             /\ stack'[i].kind = "emulator" /\ stack'[j].kind = "ioc"
        BY DEF Ordered
      <4>1. i \in 1..Len(stack) /\ (j \in 1..Len(stack) \/ j = Len(stack) + 1)
        BY <3>4
      <4>2. CASE j \in 1..Len(stack)
        BY <3>4, <4>1, <4>2 DEF DeviceInv, Ordered
      <4>3. CASE j = Len(stack) + 1
        BY <3>4, <3>5, <3>6, <4>1, <4>3
      <4> QED
        BY <4>1, <4>2, <4>3
    <3>8. \A d : HasEmulator(d)' <=> HasEmulator(d)
      BY <3>1 DEF HasEmulator
    <3>9. EmulatorFirst'
      BY <3>1, <3>4, <3>6, <3>8 DEF DeviceInv, EmulatorFirst, EmulatorContext
    <3>10. \A c : On(c) => On(c)'
      BY <3>4 DEF On
    <3>11. Frontier'
      <4>1. Opened(dev - 1)'
        BY <3>1, <3>5, <3>10 DEF Opened, IocContext
      <4>2. On(EmulatorContext(dev))'
        BY <3>1, <3>4 DEF On, EmulatorContext
      <4>3. \A i \in 1..Len(stack') : stack'[i].dev < dev \/ stack'[i] = EmulatorContext(dev)
        BY <3>4, <3>5
      <4> QED
        BY <3>1, <4>1, <4>2, <4>3 DEF Frontier, EmulatorContext
    <3>12. \A d : LauncherOf(d)' = LauncherOf(d)
      BY <3>1 DEF LauncherOf
    <3>13. EmulatorsRun'
      BY <3>1, <3>4, <3>6, <3>12 DEF DeviceInv, EmulatorsRun
    <3>14. ASSUME DistinctDevices'
           PROVE  Registered'
      <4>1. DistinctDevices /\ Registered
        BY <3>1, <3>14 DEF DeviceInv, DistinctDevices, HasEmulator, KeyOf
      <4>2. KeyOf(dev) \in Key /\ RunningEmulators \in [Key -> Launcher \cup {None}]
        BY <3>2, EntryType DEF TInv, TypeOK
      <4>3. RunningEmulators'[KeyOf(dev)] = LauncherOf(dev)
        BY <3>1, <4>2
      <4>4. ASSUME NEW i \in 1..Len(stack), stack[i].kind = "emulator"
            PROVE  RunningEmulators'[KeyOf(stack[i].dev)] = LauncherOf(stack[i].dev)
        <5>1. stack[i].dev # dev /\ HasEmulator(stack[i].dev) /\ stack[i].dev \in 1..Len(Iocs[mod])
          BY <2>0, <3>2, <3>5, <4>4 DEF DeviceInv, EmulatorFirst
        <5>2. KeyOf(stack[i].dev) # KeyOf(dev) /\ KeyOf(stack[i].dev) \in Key
          BY <3>1, <3>2, <4>1, <5>1, EntryType DEF DistinctDevices, TInv, TypeOK
        <5> QED
          BY <3>1, <4>1, <4>2, <4>4, <5>2 DEF Registered
      <4>5. \A d : KeyOf(d)' = KeyOf(d)
        BY <3>1 DEF KeyOf
      <4>6. stack'[Len(stack) + 1].kind = "emulator" /\ stack'[Len(stack) + 1].dev = dev
        BY <3>4, <3>6
      <4>7. \A i \in 1..Len(stack') : i \in 1..Len(stack) \/ i = Len(stack) + 1
        BY <3>4
      <4>8. \A i \in 1..Len(stack) : stack[i].kind = "ioc" =>
              RunningIOCs'[Iocs'[mod'][stack[i].dev].ioc] = LauncherOf(stack[i].dev)
        BY <3>1, <4>1 DEF Registered
      <4>9. \A i \in 1..Len(stack) : stack[i].kind # "ioc" => stack[i].kind = "emulator"
        BY <2>0 DEF Context
      <4> QED
        BY <3>4, <3>12, <4>3, <4>4, <4>5, <4>6, <4>7, <4>8, <4>9 DEF Registered
    <3>15. (Running => env = "broadcast" /\ testMode = mode)'
      BY <3>1 DEF DeviceInv, Running
    <3> QED
      BY <3>7, <3>9, <3>11, <3>13, <3>14, <3>15 DEF DeviceInv
  <2>2. CASE IocOpened
    <3>1. /\ Running /\ pc = "console" /\ pc' = AfterDevice /\ dev' = dev + 1
          /\ UNCHANGED <<Iocs, pass, mode, mod, env, testMode, emulators, RunningEmulators>>
          /\ RunningIOCs' = [RunningIOCs EXCEPT ![NameOf(LauncherOf(dev))] = LauncherOf(dev)]
          /\ stack' = Append(stack, IocContext(dev))
      BY <2>2 DEF IocOpened, Running, options, loopVars, envVars, emuVars, IocContext
    <3>2. mod \in Module /\ mode \in Mode /\ dev \in 1..Len(Iocs[mod]) /\ dev \in Nat
      BY <3>1 DEF TInv, CurrentOK, TypeOK
    <3>3. IocContext(dev) \in Context /\ stack \in Seq(Context)
      BY <3>2, ContextType DEF IocContext, TInv, TypeOK
    <3>4. /\ Len(stack) \in Nat /\ Len(stack') = Len(stack) + 1
          /\ stack'[Len(stack) + 1] = IocContext(dev)
          /\ \A i \in 1..Len(stack) : stack'[i] = stack[i]
      BY <3>1, <3>3, PushFacts
    <3>5. /\ \A i \in 1..Len(stack) : stack[i].dev < dev \/ stack[i] = EmulatorContext(dev)
          /\ Opened(dev - 1)
          /\ HasEmulator(dev) => On(EmulatorContext(dev))
      BY <3>1 DEF DeviceInv, Frontier
    <3>6. IocContext(dev).dev = dev /\ IocContext(dev).kind = "ioc"
      BY DEF IocContext
    <3>7. Ordered'
      <4> SUFFICES ASSUME NEW i \in 1..Len(stack'), NEW j \in 1..Len(stack'), i < j
                   PROVE  \/ stack'[i].dev < stack'[j].dev
                          \/ /\ stack'[i].dev = stack'[j].dev
                             /\ stack'[i].kind = "emulator" /\ stack'[j].kind = "ioc"
        BY DEF Ordered
      <4>1. i \in 1..Len(stack) /\ (j \in 1..Len(stack) \/ j = Len(stack) + 1)
        BY <3>4
      <4>2. CASE j \in 1..Len(stack)
        BY <3>4, <4>1, <4>2 DEF DeviceInv, Ordered
      <4>3. CASE j = Len(stack) + 1
        BY <3>4, <3>5, <3>6, <4>1, <4>3 DEF EmulatorContext
      <4> QED
        BY <4>1, <4>2, <4>3
    <3>8. \A d : HasEmulator(d)' <=> HasEmulator(d)
      BY <3>1 DEF HasEmulator
    <3>9. EmulatorFirst'
      <4> SUFFICES ASSUME NEW i \in 1..Len(stack')
                   PROVE  IF stack'[i].kind = "ioc"
                          THEN HasEmulator(stack[i].dev)' =>
                                 \E j \in 1..Len(stack') : j < i /\ stack'[j] = EmulatorContext(stack'[i].dev)
                          ELSE HasEmulator(stack[i].dev)'
        BY DEF EmulatorFirst, EmulatorContext
      <4>1. CASE i \in 1..Len(stack)
        <5>1. HasEmulator(stack[i].dev)' <=> HasEmulator(stack[i].dev)
          BY <3>1, <3>4, <4>1 DEF HasEmulator
        <5>2. stack'[i] = stack[i]
          BY <3>4, <4>1
        <5>3. IF stack[i].kind = "ioc"
              THEN HasEmulator(stack[i].dev) =>
                     \E j \in 1..Len(stack) : j < i /\ stack[j] = EmulatorContext(stack[i].dev)
              ELSE HasEmulator(stack[i].dev)
          BY <4>1 DEF DeviceInv, EmulatorFirst
        <5>4. CASE stack[i].kind = "ioc" /\ HasEmulator(stack[i].dev)
          <6>1. PICK j \in 1..Len(stack) : j < i /\ stack[j] = EmulatorContext(stack[i].dev)
            BY <5>3, <5>4
          <6>2. j \in 1..Len(stack') /\ stack'[j] = EmulatorContext(stack'[i].dev)
            BY <3>4, <5>2, <6>1
          <6> QED
            BY <5>1, <5>2, <5>4, <6>1, <6>2
        <5> QED
          BY <5>1, <5>2, <5>3, <5>4
      <4>2. CASE i = Len(stack) + 1
        <5>1. stack'[i].kind = "ioc" /\ stack'[i].dev = dev
          BY <3>4, <3>6, <4>2
        <5>2. HasEmulator(stack[i].dev)' <=> HasEmulator(dev)
          BY <3>1, <5>1 DEF HasEmulator
        <5>3. CASE HasEmulator(dev)
          <6>1. PICK j \in 1..Len(stack) : stack[j] = EmulatorContext(dev)
            BY <3>5, <5>3 DEF On
          <6>2. j < i /\ j \in 1..Len(stack') /\ stack'[j] = EmulatorContext(stack'[i].dev)
            BY <3>4, <4>2, <5>1, <6>1
          <6> QED
            BY <5>1, <6>2
        <5> QED
          BY <5>1, <5>2, <5>3
      <4> QED
        BY <3>4, <4>1, <4>2
    <3>10. \A c : On(c) => On(c)'
      BY <3>4 DEF On
    <3>11. \A d \in 1..dev : On(IocContext(d))'
      <4>1. stack'[Len(stack) + 1] = [kind |-> "ioc", dev |-> dev] /\ Len(stack) + 1 \in 1..Len(stack')
        BY <3>4 DEF IocContext
      <4>2. ASSUME NEW d \in 1..dev - 1
            PROVE  \E i \in 1..Len(stack') : stack'[i] = [kind |-> "ioc", dev |-> d]
        BY <3>4, <3>5 DEF Opened, On, IocContext
      <4>3. ASSUME NEW d \in 1..dev
            PROVE  \E i \in 1..Len(stack') : stack'[i] = [kind |-> "ioc", dev |-> d]
        BY <3>2, <4>1, <4>2, <4>3
      <4> QED
        BY <4>3 DEF On, IocContext
    <3>12. Frontier'
      <4>1. Len(Iocs[mod]) \in Nat
        BY <3>2, IocsType DEF TInv, TypeOK
      <4>2. \/ pc' = "emulator" /\ dev < Len(Iocs[mod])
            \/ pc' \in {"prompt", "testing"} /\ dev = Len(Iocs[mod])
        BY <3>1, <3>2, <4>1 DEF AfterDevice
      <4>3. \A i \in 1..Len(stack') : stack'[i].dev < dev'
        <5>1. \A i \in 1..Len(stack') : stack'[i].dev \in 1..dev
          BY <2>0, <3>2, <3>4, <3>5, <3>6 DEF EmulatorContext
        <5> QED
          BY <3>1, <3>2, <5>1
      <4>4. dev' - 1 = dev
        BY <3>1, <3>2
      <4>5. Opened(dev - 1)'
        BY <3>11, <4>4 DEF Opened
      <4>6. dev = Len(Iocs[mod]) => Opened(Len(Iocs[mod]))'
        BY <3>1, <3>11 DEF Opened
      <4> QED
        BY <4>2, <4>3, <4>5, <4>6 DEF Frontier
    <3>13. \A d : LauncherOf(d)' = LauncherOf(d)
      BY <3>1 DEF LauncherOf
    <3>14. EmulatorsRun'
      BY <3>1, <3>4, <3>6, <3>13 DEF DeviceInv, EmulatorsRun
    <3>15. ASSUME DistinctDevices'
           PROVE  Registered'
      <4>1. DistinctDevices /\ Registered
        BY <3>1, <3>15 DEF DeviceInv, DistinctDevices, HasEmulator, KeyOf
      <4>2. /\ NameOf(LauncherOf(dev)) = Iocs[mod][dev].ioc /\ Iocs[mod][dev].ioc \in IocName
            /\ RunningIOCs \in [IocName -> Launcher \cup {None}]
        BY <3>2, EntryType DEF TInv, TypeOK
      <4>3. RunningIOCs'[Iocs[mod][dev].ioc] = LauncherOf(dev)
        BY <3>1, <4>2
      <4>4. ASSUME NEW i \in 1..Len(stack), stack[i].kind = "ioc"
            PROVE  RunningIOCs'[Iocs[mod][stack[i].dev].ioc] = LauncherOf(stack[i].dev)
        <5>1. stack[i].dev # dev /\ stack[i].dev \in 1..Len(Iocs[mod])
          BY <2>0, <3>2, <3>5, <4>4 DEF EmulatorContext
        <5>2. Iocs[mod][stack[i].dev].ioc # Iocs[mod][dev].ioc /\ Iocs[mod][stack[i].dev].ioc \in IocName
          BY <3>2, <4>1, <5>1, EntryType DEF DistinctDevices, TInv, TypeOK
        <5> QED
          BY <3>1, <4>1, <4>2, <4>4, <5>2 DEF Registered
      <4>5. \A d : KeyOf(d)' = KeyOf(d)
        BY <3>1 DEF KeyOf
      <4>6. stack'[Len(stack) + 1].kind = "ioc" /\ stack'[Len(stack) + 1].dev = dev
        BY <3>4, <3>6
      <4>7. \A i \in 1..Len(stack') : i \in 1..Len(stack) \/ i = Len(stack) + 1
        BY <3>4
      <4>8. \A i \in 1..Len(stack) : stack[i].kind # "ioc" =>
              RunningEmulators'[KeyOf(stack[i].dev)] = LauncherOf(stack[i].dev)
        BY <3>1, <4>1 DEF Registered
      <4>9. UNCHANGED <<Iocs, mod>>
        BY <3>1
      <4> QED
        BY <3>4, <3>13, <4>3, <4>4, <4>5, <4>6, <4>7, <4>8, <4>9 DEF Registered
    <3>16. (Running => env = "broadcast" /\ testMode = mode)'
      BY <3>1 DEF DeviceInv, Running
    <3> QED
      BY <3>7, <3>9, <3>12, <3>14, <3>15, <3>16 DEF DeviceInv
  <2>3. CASE NoEmulator \/ SpawnIoc
    <3>1. Running /\ Kept /\ pc \in {"emulator", "ioc"} /\ dev' = dev
      BY <2>3 DEF NoEmulator, SpawnIoc, Running, Kept, options, loopVars, envVars, emuVars, iocVars
    <3>2. Frontier'
      <4>1. CASE NoEmulator
        BY <4>1 DEF NoEmulator, options, loopVars, DeviceInv, Frontier, Opened, On, HasEmulator, EmulatorContext
      <4>2. CASE SpawnIoc
        BY <4>2 DEF SpawnIoc, options, loopVars, DeviceInv, Frontier, Opened, On, HasEmulator, EmulatorContext
      <4> QED
        BY <2>3, <4>1, <4>2
    <3> QED
      BY <3>1, <3>2, KeptStep
  <2>4. CASE RefuseIoc \/ OpenIocRaises \/ AnswerQuit \/ RunTests \/ InterruptBody \/ InterruptBooting
    <3>1. Running /\ Kept /\ pc' = "unwind"
      BY <2>4 DEF RefuseIoc, OpenIocRaises, AnswerQuit, RunTests, InterruptBody, InterruptBooting,
                  Raise, Running, Kept, options, loopVars, envVars, emuVars, iocVars
    <3> QED
      BY <3>1, KeptStep
  <2>5. CASE AnswerYes \/ AnswerNo
    <3>1. Running /\ Kept /\ pc = "prompt" /\ pc' \in {"parked", "testing"}
      BY <2>5 DEF AnswerYes, AnswerNo, Running, Kept, options, loopVars, envVars, emuVars, iocVars
    <3> QED
      BY <3>1, KeptStep
  <2>6. CASE StopRun
    <3>1. Running /\ Kept /\ pc' = "exited"
      BY <2>6 DEF StopRun, Running, Kept, options, loopVars, envVars, emuVars, iocVars
    <3> QED
      BY <3>1, KeptStep
  <2>7. CASE PickMode \/ SkipModule \/ LaunchersRaise \/ RepeatPass \/ ExitProgram
    <3>1. stack' = <<>> /\ ~Running'
      BY <2>7 DEF PickMode, SkipModule, LaunchersRaise, RepeatPass, ExitProgram, PassOver, Running,
                  TInv, CurrentOK
    <3> QED
      BY <3>1, EmptyStackNext
  <2>8. CASE FinishModule \/ ReportFailure
    <3>1. stack' = <<>> /\ ~Running'
      BY <2>8 DEF FinishModule, ReportFailure, Running
    <3> QED
      BY <3>1, EmptyStackNext
  <2>9. CASE StartModule
    <3>1. stack' = <<>> /\ env' = "broadcast" /\ testMode' = mode' /\ pc' = "emulator" /\ dev' = 1
      BY <2>9 DEF StartModule, loopVars, TInv, CurrentOK, Running
    <3> QED
      BY <3>1, EmptyStackNext
  <2>10. CASE OpenEmulatorRaises \/ InterruptOpening
    <3>1. /\ Running /\ pc' = "unwind" /\ emulators \subseteq emulators'
          /\ UNCHANGED <<Iocs, pass, mode, mod, stack, env, testMode, RunningEmulators, RunningIOCs>>
      BY <2>10 DEF OpenEmulatorRaises, InterruptOpening, Raise, Running, options, loopVars, envVars,
                   emuVars, iocVars
    <3>2. Ordered' /\ EmulatorFirst' /\ Frontier'
      BY <3>1 DEF DeviceInv, Ordered, EmulatorFirst, Frontier, HasEmulator, EmulatorContext
    <3>3. EmulatorsRun' /\ (DistinctDevices' => Registered')
      BY <3>1 DEF DeviceInv, EmulatorsRun, DistinctDevices, Registered, HasEmulator, KeyOf, LauncherOf
    <3> QED
      BY <3>1, <3>2, <3>3 DEF DeviceInv, Running
  <2>11. CASE CloseIoc \/ CloseIocRaises \/ InterruptClosing
    <3>1. /\ pc = "unwind" /\ pc' = "unwind" /\ stack # <<>> /\ stack' = Pop
          /\ UNCHANGED <<Iocs, pass, mode, mod, env, testMode, emulators, RunningEmulators, RunningIOCs>>
      BY <2>11 DEF CloseIoc, CloseIocRaises, InterruptClosing, Raise, options, loopVars, envVars,
                   emuVars, iocVars
    <3>2. /\ Ordered' /\ EmulatorFirst' /\ Frontier'
          /\ (Running => env = "broadcast" /\ testMode = mode)'
          /\ Len(stack') = Len(stack) - 1 /\ Len(stack) \in Nat \ {0}
          /\ \A i \in 1..Len(stack') : stack'[i] = stack[i]
      BY <3>1, Unwinding
    <3>3. EmulatorsRun'
      BY <3>1, <3>2 DEF DeviceInv, EmulatorsRun, HasEmulator, LauncherOf
    <3>4. DistinctDevices' => Registered'
      BY <3>1, <3>2 DEF DeviceInv, DistinctDevices, Registered, HasEmulator, KeyOf, LauncherOf
    <3> QED
      BY <3>2, <3>3, <3>4 DEF DeviceInv
  <2>12. CASE CloseEmulator
    <3> DEFINE d == stack[Len(stack)].dev
    <3>1. /\ pc = "unwind" /\ pc' = "unwind" /\ stack # <<>> /\ stack' = Pop
          /\ Top.kind = "emulator" /\ emulators' = emulators \ {LauncherOf(Top.dev)}
          /\ \/ UNCHANGED RunningEmulators
             \/ RunningEmulators' = Unregister(KeyOf(Top.dev))
          /\ UNCHANGED <<Iocs, pass, mode, mod, env, testMode, RunningIOCs>>
      BY <2>12 DEF CloseEmulator, options, loopVars, envVars, iocVars
    <3>2. /\ Ordered' /\ EmulatorFirst' /\ Frontier'
          /\ (Running => env = "broadcast" /\ testMode = mode)'
          /\ Len(stack') = Len(stack) - 1 /\ Len(stack) \in Nat \ {0}
          /\ \A i \in 1..Len(stack') : stack'[i] = stack[i]
          /\ Top = stack[Len(stack)]
          /\ \A i \in 1..Len(stack) : stack[i] \in Context /\ stack[i].dev \in 1..Len(Iocs[mod])
      BY <3>1, Unwinding
    <3>3. ASSUME NEW i \in 1..Len(stack')
          PROVE  stack[i].dev # d
      <4>1. i \in 1..Len(stack) /\ i < Len(stack) /\ Len(stack) \in 1..Len(stack)
        BY <3>2
      <4>2. stack[i].dev \in Nat /\ d \in Nat
        BY <3>2, <4>1 DEF Context
      <4> QED
        BY <3>1, <3>2, <4>1, <4>2 DEF DeviceInv, Ordered
    <3>4. EmulatorsRun'
      BY <3>1, <3>2, <3>3 DEF DeviceInv, EmulatorsRun, LauncherOf
    <3>5. ASSUME DistinctDevices'
          PROVE  Registered'
      <4>1. DistinctDevices /\ Registered
        BY <3>1, <3>5 DEF DeviceInv, DistinctDevices, HasEmulator, KeyOf
      <4>2. mod \in Module /\ d \in 1..Len(Iocs[mod]) /\ HasEmulator(d)
        BY <3>1, <3>2 DEF TInv, CurrentOK, Running, DeviceInv, EmulatorFirst
      <4>3. ASSUME NEW i \in 1..Len(stack'), stack[i].kind = "emulator"
            PROVE  RunningEmulators'[KeyOf(stack[i].dev)] = LauncherOf(stack[i].dev)
        <5>1. i \in 1..Len(stack) /\ stack[i].dev \in 1..Len(Iocs[mod])
          BY <3>2
        <5>2. HasEmulator(stack[i].dev) /\ stack[i].dev # d
          BY <3>3, <4>3, <5>1 DEF DeviceInv, EmulatorFirst
        <5>3. KeyOf(stack[i].dev) # KeyOf(d) /\ KeyOf(stack[i].dev) \in Key
          BY <4>1, <4>2, <5>1, <5>2, EntryType DEF DistinctDevices, TInv, TypeOK
        <5>4. RunningEmulators[KeyOf(stack[i].dev)] = LauncherOf(stack[i].dev)
          BY <4>1, <4>3, <5>1 DEF Registered
        <5> QED
          BY <3>1, <3>2, <5>3, <5>4 DEF Unregister, TInv, TypeOK
      <4>4. \A i \in 1..Len(stack') : stack[i].kind # "ioc" => stack[i].kind = "emulator"
        BY <3>2 DEF Context
      <4>5. \A i \in 1..Len(stack') : i \in 1..Len(stack)
        BY <3>2
      <4>6. \A c : KeyOf(c)' = KeyOf(c) /\ LauncherOf(c)' = LauncherOf(c)
        BY <3>1 DEF KeyOf, LauncherOf
      <4>7. ASSUME NEW i \in 1..Len(stack'), stack[i].kind = "ioc"
            PROVE  RunningIOCs'[Iocs'[mod'][stack[i].dev].ioc] = LauncherOf(stack[i].dev)
        BY <3>1, <4>1, <4>5, <4>7 DEF Registered
      <4> QED
        BY <3>2, <4>3, <4>4, <4>6, <4>7 DEF Registered
    <3> QED
      BY <3>2, <3>4, <3>5 DEF DeviceInv
  <2>13. CASE IocBoots \/ IocDies \/ UNCHANGED vars
    <3>1. Kept /\ UNCHANGED <<pc, dev>>
      BY <2>13 DEF IocBoots, IocDies, vars, options, loopVars, envVars, emuVars, iocVars, Kept
    <3>2. Ordered' /\ EmulatorFirst' /\ Frontier'
      BY <3>1 DEF Kept, DeviceInv, Ordered, EmulatorFirst, Frontier, Opened, On, HasEmulator, EmulatorContext
    <3>3. EmulatorsRun' /\ (DistinctDevices' => Registered')
      BY <3>1 DEF Kept, DeviceInv, EmulatorsRun, Registered, DistinctDevices, HasEmulator, KeyOf, LauncherOf
    <3> QED
      BY <3>1, <3>2, <3>3 DEF Kept, DeviceInv, Running
  <2> QED
    BY <2>1, <2>2, <2>3, <2>4, <2>5, <2>6, <2>7, <2>8, <2>9, <2>10, <2>11, <2>12, <2>13
    DEF Next, Program, User, Stopped
<1> QED
  BY <1>1, <1>2, TypesHold, PTL DEF Spec

(* From the spawning of an IOC to its close, its emulator runs: device      *)
(* launchers enter the emulator first and leave it last.                    *)
THEOREM EmulatorsOutliveIocs == Spec => []EmulatorOutlivesIoc
<1>1. TInv /\ DeviceInv => EmulatorOutlivesIoc
  <2> SUFFICES ASSUME TInv, DeviceInv, NEW l \in booting \cup serving, Launched(l),
                      HasEmulator(l.dev), mode # RecSim
               PROVE  l \in emulators
    BY DEF EmulatorOutlivesIoc
  <2>1. l = LauncherOf(l.dev)
    BY DEF TInv, TypeOK, Launcher, Launched, LauncherOf
  <2>2. On(EmulatorContext(l.dev))
    <3>1. CASE pc = "console" /\ l.dev = dev
      BY <3>1 DEF DeviceInv, Frontier
    <3>2. CASE \E i \in 1..Len(stack) : stack[i] = [kind |-> "ioc", dev |-> l.dev]
      BY <3>2 DEF DeviceInv, EmulatorFirst, On
    <3> QED
      BY <3>1, <3>2 DEF Launched
  <2> QED
    BY <2>1, <2>2 DEF On, EmulatorContext, DeviceInv, EmulatorsRun
<1> QED
  BY <1>1, TypesHold, DevicesHold, PTL

(* Tests run in the environment of run_tests, in the mode of their module,  *)
(* with every device of the module registered under its own name and every  *)
(* emulator of it running, provided no two devices share a name or a key.   *)
THEOREM TestsFindTheirDevices == Spec => [](DistinctDevices => TestsHaveTheirDevices)
<1>1. TInv /\ DeviceInv /\ DistinctDevices => TestsHaveTheirDevices
  <2> SUFFICES ASSUME TInv, DeviceInv, DistinctDevices, pc = "testing"
               PROVE  TestsHaveTheirDevices
    BY DEF TestsHaveTheirDevices
  <2>1. env = "broadcast" /\ testMode = mode
    BY DEF DeviceInv, Running
  <2>2. ASSUME NEW d \in 1..Len(Iocs[mod])
        PROVE  /\ RunningIOCs[Iocs[mod][d].ioc] = LauncherOf(d)
               /\ HasEmulator(d) => RunningEmulators[KeyOf(d)] = LauncherOf(d)
               /\ HasEmulator(d) /\ mode # RecSim => LauncherOf(d) \in emulators
    <3>1. PICK i \in 1..Len(stack) : stack[i] = [kind |-> "ioc", dev |-> d]
      BY DEF DeviceInv, Frontier, Opened, On, IocContext
    <3>2. RunningIOCs[Iocs[mod][d].ioc] = LauncherOf(d)
      BY <3>1 DEF DeviceInv, Registered
    <3>3. ASSUME HasEmulator(d)
          PROVE  \E j \in 1..Len(stack) : stack[j] = [kind |-> "emulator", dev |-> d]
      BY <3>1, <3>3 DEF DeviceInv, EmulatorFirst, EmulatorContext
    <3> QED
      BY <3>2, <3>3 DEF DeviceInv, Registered, EmulatorsRun
  <2> QED
    BY <2>1, <2>2 DEF TestsHaveTheirDevices
<1> QED
  BY <1>1, TypesHold, DevicesHold, PTL

---------------------------------------------------------------------------
(* What a module leaves behind.                                             *)

(* The launcher l is one of a failed module of this pass.                   *)
OfFailure(l) == l.pass = pass /\ results[<<l.mod, l.mode>>] = "fail"

(* It is one of the module being run.                                       *)
OfThisJob(l) == Running /\ l.pass = pass /\ <<l.mod, l.mode>> = ThisJob

(* Some context entered and not left registers under the key k.             *)
KeyIsHeld(k) == \E i \in 1..Len(stack) : stack[i].kind = "emulator" /\ KeyOf(stack[i].dev) = k

(* While nothing is being raised, what runs or is registered for the module *)
(* being run is still to be closed; otherwise the module will have failed.  *)
LeakInv ==
  pc # "exited" =>
    /\ \A l \in emulators :
         OfFailure(l) \/ (OfThisJob(l) /\ (exc # "none" \/ On(EmulatorContext(l.dev))))
    /\ \A k \in Key : RunningEmulators[k] # None =>
         LET l == RunningEmulators[k]
         IN  OfFailure(l) \/ (OfThisJob(l) /\ (exc # "none" \/ KeyIsHeld(k)))

(* A step within the run of a module that keeps its emulators.              *)
LEMMA LeakStep ==
  ASSUME TInv, LeakInv, Running, Running',
         UNCHANGED <<Iocs, pass, mode, mod, results, emulators, RunningEmulators>>,
         \/ exc' # "none"
         \/ exc' = exc /\ \A d : On(EmulatorContext(d)) => On(EmulatorContext(d))'
  PROVE  LeakInv'
<1>1. \A l : (OfFailure(l) <=> OfFailure(l)') /\ (OfThisJob(l) <=> OfThisJob(l)')
  BY DEF OfFailure, OfThisJob, ThisJob
<1>2. ASSUME exc' = exc, \A d : On(EmulatorContext(d)) => On(EmulatorContext(d))', NEW k, KeyIsHeld(k)
      PROVE  KeyIsHeld(k)'
  <2>1. PICK i \in 1..Len(stack) : stack[i].kind = "emulator" /\ KeyOf(stack[i].dev) = k
    BY <1>2 DEF KeyIsHeld
  <2>2. stack[i] = EmulatorContext(stack[i].dev)
    <3>1. stack[i] \in [kind : {"emulator", "ioc"}, dev : Nat]
      <4>1. stack \in Seq(Context) /\ i \in 1..Len(stack)
        BY <2>1 DEF TInv, TypeOK
      <4>2. stack[i] \in Context
        BY ONLY <4>1
      <4> QED
        BY <4>2 DEF Context
    <3>2. \A c \in [kind : {"emulator", "ioc"}, dev : Nat] :
            c.kind = "emulator" => c = [kind |-> "emulator", dev |-> c.dev]
      OBVIOUS
    <3> QED
      BY <2>1, <3>1, <3>2 DEF EmulatorContext
  <2>3. On(EmulatorContext(stack[i].dev))
    BY <2>2 DEF On
  <2>4. PICK n \in 1..Len(stack') : stack'[n] = EmulatorContext(stack[i].dev)
    <3> DEFINE d == stack[i].dev
    <3>1. On(EmulatorContext(d)) => \E n \in 1..Len(stack') : stack'[n] = EmulatorContext(d)
      <4> HIDE DEF d
      <4> QED
        BY <1>2 DEF On, EmulatorContext
    <3> QED
      BY <2>3, <3>1
  <2>5. stack'[n].kind = "emulator" /\ stack'[n].dev = stack[i].dev
    BY <2>4 DEF EmulatorContext
  <2> QED
    BY <2>1, <2>4, <2>5 DEF KeyIsHeld, KeyOf
<1>3. pc # "exited" /\ pc' # "exited"
  BY DEF Running
<1>4. CASE exc' # "none"
  BY <1>1, <1>3, <1>4 DEF LeakInv
<1>5. CASE exc' = exc /\ \A d : On(EmulatorContext(d)) => On(EmulatorContext(d))'
  BY <1>1, <1>2, <1>3, <1>5 DEF LeakInv
<1> QED
  BY <1>4, <1>5

(* Between modules and after them only failures are left.                   *)
LEMMA LeakBetween ==
  ASSUME LeakInv, ~Running, pc # "exited", UNCHANGED <<pass, results, emulators, RunningEmulators>>
  PROVE  LeakInv'
BY DEF LeakInv, OfFailure, OfThisJob

(* A leftover emulator belongs to the module being run or to a failure.     *)
LEMMA LeaksHold == Spec => []LeakInv
<1>1. Init => LeakInv
  BY DEF Init, LeakInv
<1>2. TInv /\ LoopInv /\ DeviceInv /\ LeakInv /\ [Next]_vars => LeakInv'
  <2> SUFFICES ASSUME TInv, LoopInv, DeviceInv, LeakInv, [Next]_vars
               PROVE  LeakInv'
    OBVIOUS
  <2>1. CASE PickMode \/ SkipModule \/ LaunchersRaise \/ StartModule \/ ExitProgram
    <3>1. /\ pc = "loop" /\ UNCHANGED <<pass, results, emulators, RunningEmulators>>
      BY <2>1 DEF PickMode, SkipModule, LaunchersRaise, StartModule, ExitProgram, PassOver, loopVars, emuVars
    <3> QED
      BY <3>1, LeakBetween DEF Running
  <2>2. CASE \/ NoEmulator \/ RefuseIoc \/ SpawnIoc \/ OpenIocRaises \/ RunTests
             \/ AnswerYes \/ AnswerNo \/ AnswerQuit \/ InterruptBody \/ InterruptBooting
    <3>1. /\ Running /\ Running' /\ (exc' # "none" \/ (exc' = exc /\ stack' = stack))
          /\ UNCHANGED <<Iocs, pass, mode, mod, results, emulators, RunningEmulators>>
      BY <2>2 DEF Running, NoEmulator, RefuseIoc, SpawnIoc, OpenIocRaises, RunTests, AnswerYes, AnswerNo,
                  AnswerQuit, InterruptBody, InterruptBooting, Raise, options, loopVars, emuVars
    <3>2. exc' # "none" \/ (exc' = exc /\ \A d : On(EmulatorContext(d)) => On(EmulatorContext(d))')
      BY <3>1 DEF On, EmulatorContext
    <3> QED
      BY <3>1, <3>2, LeakStep
  <2>3. CASE IocOpened \/ CloseIoc \/ CloseIocRaises \/ InterruptClosing
    <3>1. /\ Running /\ Running'
          /\ UNCHANGED <<Iocs, pass, mode, mod, results, emulators, RunningEmulators>>
      BY <2>3 DEF Running, IocOpened, AfterDevice, CloseIoc, CloseIocRaises, InterruptClosing, Raise,
                  options, loopVars, emuVars
    <3>2. exc' # "none" \/ (exc' = exc /\ \A d : On(EmulatorContext(d)) => On(EmulatorContext(d))')
      <4>1. CASE IocOpened
        <5>1. dev \in Nat /\ stack \in Seq(Context) /\ [kind |-> "ioc", dev |-> dev] \in Context
          BY ContextType DEF TInv, TypeOK
        <5>2. exc' = exc /\ stack' = Append(stack, [kind |-> "ioc", dev |-> dev])
          BY <4>1 DEF IocOpened
        <5>3. Len(stack) \in Nat /\ Len(stack') = Len(stack) + 1
              /\ \A i \in 1..Len(stack) : stack'[i] = stack[i]
          BY <5>1, <5>2, PushFacts
        <5> QED
          BY <5>2, <5>3 DEF On, EmulatorContext
      <4>2. CASE CloseIoc
        <5>1. /\ exc' = exc /\ stack' = Pop /\ stack # <<>> /\ Top.kind = "ioc" /\ stack \in Seq(Context)
          BY <4>2 DEF CloseIoc, TInv, TypeOK
        <5>2. /\ Len(stack) \in Nat \ {0} /\ Len(stack') = Len(stack) - 1
              /\ \A i \in 1..Len(stack) - 1 : stack'[i] = stack[i]
              /\ stack[Len(stack)].kind = "ioc"
          BY <5>1, PopType
        <5> QED
          BY <5>1, <5>2 DEF On, EmulatorContext
      <4>3. CASE CloseIocRaises \/ InterruptClosing
        BY <4>3 DEF CloseIocRaises, InterruptClosing, Raise
      <4> QED
        BY <2>3, <4>1, <4>2, <4>3
    <3> QED
      BY <3>1, <3>2, LeakStep
  <2>4. CASE OpenEmulator
    <3>1. /\ Running /\ Running' /\ pc # "exited" /\ exc' = exc
          /\ UNCHANGED <<Iocs, pass, mode, mod, results>>
          /\ emulators' \subseteq emulators \cup {LauncherOf(dev)}
          /\ RunningEmulators' = [RunningEmulators EXCEPT ![KeyOf(dev)] = LauncherOf(dev)]
          /\ stack' = Append(stack, EmulatorContext(dev))
      BY <2>4 DEF OpenEmulator, Running, options, loopVars, EmulatorContext
    <3>2. EmulatorContext(dev) \in Context /\ stack \in Seq(Context) /\ dev \in Nat
      BY ContextType DEF EmulatorContext, TInv, TypeOK
    <3>3. /\ Len(stack) \in Nat /\ Len(stack') = Len(stack) + 1
          /\ stack'[Len(stack) + 1] = EmulatorContext(dev)
          /\ \A i \in 1..Len(stack) : stack'[i] = stack[i]
      BY <3>1, <3>2, PushFacts
    <3>4. OfThisJob(LauncherOf(dev))' /\ LauncherOf(dev).dev = dev
      BY <3>1 DEF OfThisJob, LauncherOf, ThisJob
    <3>5. \A l : (OfFailure(l) => OfFailure(l)') /\ (OfThisJob(l) => OfThisJob(l)')
      BY <3>1 DEF OfFailure, OfThisJob, ThisJob
    <3>6. \A d : On(EmulatorContext(d)) => On(EmulatorContext(d))'
      BY <3>3 DEF On, EmulatorContext
    <3>7. \A k : KeyIsHeld(k) => KeyIsHeld(k)'
      BY <3>1, <3>3 DEF KeyIsHeld, KeyOf
    <3>8. On(EmulatorContext(dev))'
      <4>1. Len(stack) + 1 \in 1..Len(stack')
        BY <3>3
      <4>2. \E i \in 1..Len(stack') : stack'[i] = EmulatorContext(dev)
        BY <3>3, <4>1
      <4> QED
        BY <2>4, <4>2 DEF On, EmulatorContext, OpenEmulator
    <3>9. \A k : k = KeyOf(dev) => KeyIsHeld(k)'
      <4>1. Len(stack) + 1 \in 1..Len(stack') /\ KeyOf(dev)' = KeyOf(dev)
        BY <2>4, <3>1, <3>3 DEF KeyOf, OpenEmulator
      <4>2. stack'[Len(stack) + 1].kind = "emulator" /\ stack'[Len(stack) + 1].dev = dev
        BY <3>3 DEF EmulatorContext
      <4>3. \E i \in 1..Len(stack') : stack'[i].kind = "emulator" /\ stack'[i].dev = dev
        BY <4>1, <4>2
      <4> QED
        BY <3>1, <4>3 DEF KeyIsHeld, KeyOf
    <3>10. \A l \in emulators' :
             OfFailure(l)' \/ (OfThisJob(l)' /\ (exc' # "none" \/ On(EmulatorContext(l.dev))'))
      <4> SUFFICES ASSUME NEW l \in emulators'
                   PROVE  OfFailure(l)' \/ (OfThisJob(l)' /\ (exc' # "none" \/ On(EmulatorContext(l.dev))'))
        OBVIOUS
      <4>1. CASE l = LauncherOf(dev)
        <5>1. On(EmulatorContext(l.dev))'
          BY <2>4, <3>4, <3>8, <4>1 DEF On, EmulatorContext, OpenEmulator
        <5>2. OfThisJob(l)'
          BY <2>4, <3>1, <4>1 DEF OfThisJob, LauncherOf, ThisJob
        <5> QED
          BY <5>1, <5>2
      <4>2. CASE l \in emulators
        BY <3>1, <3>5, <3>6, <4>2 DEF LeakInv
      <4> QED
        BY <3>1, <4>1, <4>2
    <3>11. ASSUME NEW k \in Key, RunningEmulators'[k] # None
           PROVE  \/ OfFailure(RunningEmulators[k])'
                  \/ OfThisJob(RunningEmulators[k])' /\ (exc' # "none" \/ KeyIsHeld(k)')
      <4>1. CASE k = KeyOf(dev)
        <5>1. RunningEmulators'[k] = LauncherOf(dev)
          BY <3>1, <4>1 DEF TInv, TypeOK
        <5>2. OfThisJob(RunningEmulators[k])'
          BY <3>1, <5>1 DEF OfThisJob, LauncherOf, ThisJob
        <5> QED
          BY <3>9, <4>1, <5>2
      <4>2. CASE k # KeyOf(dev)
        <5>1. RunningEmulators'[k] = RunningEmulators[k]
          BY <3>1, <4>2 DEF TInv, TypeOK
        <5>2. \/ OfFailure(RunningEmulators[k])
              \/ OfThisJob(RunningEmulators[k]) /\ (exc # "none" \/ KeyIsHeld(k))
          BY <3>1, <3>11, <5>1 DEF LeakInv
        <5> QED
          BY <3>1, <3>7, <5>1, <5>2 DEF OfFailure, OfThisJob, ThisJob
      <4> QED
        BY <4>1, <4>2
    <3> QED
      BY <3>10, <3>11 DEF LeakInv
  <2>5. CASE OpenEmulatorRaises \/ InterruptOpening
    <3>1. /\ Running /\ Running' /\ pc # "exited" /\ exc' # "none"
          /\ UNCHANGED <<pass, mode, mod, results, RunningEmulators>>
          /\ emulators' \subseteq emulators \cup {LauncherOf(dev)}
      BY <2>5 DEF OpenEmulatorRaises, InterruptOpening, Running, Raise, loopVars
    <3>2. \A l : (OfFailure(l) => OfFailure(l)') /\ (OfThisJob(l) => OfThisJob(l)')
      BY <3>1 DEF OfFailure, OfThisJob, ThisJob
    <3>3. \A l : l = LauncherOf(dev) => OfThisJob(l)'
      BY <3>1 DEF OfThisJob, LauncherOf, ThisJob
    <3>4. \A l \in emulators' : OfFailure(l)' \/ OfThisJob(l)'
      BY <3>1, <3>2, <3>3 DEF LeakInv
    <3>5. \A k \in Key : RunningEmulators[k] # None =>
            OfFailure(RunningEmulators[k])' \/ OfThisJob(RunningEmulators[k])'
      BY <3>1 DEF LeakInv, OfFailure, OfThisJob, ThisJob
    <3> QED
      BY <3>1, <3>4, <3>5 DEF LeakInv
  <2>6. CASE CloseEmulator
    <3>1. /\ Running /\ Running' /\ pc # "exited"
          /\ UNCHANGED <<Iocs, pass, mode, mod, results>> /\ stack # <<>> /\ stack' = Pop
          /\ Top.kind = "emulator" /\ emulators' = emulators \ {LauncherOf(Top.dev)}
          /\ \/ exc' = "error" /\ RunningEmulators' = RunningEmulators
             \/ exc' = exc /\ RunningEmulators' = Unregister(KeyOf(Top.dev))
      BY <2>6 DEF CloseEmulator, Running, options, loopVars
    <3>2. /\ Len(stack) \in Nat \ {0} /\ Len(stack') = Len(stack) - 1
          /\ \A i \in 1..Len(stack) - 1 : stack'[i] = stack[i]
          /\ Top = stack[Len(stack)]
      BY <3>1, PopType DEF TInv, TypeOK
    <3>3. \A l : (OfFailure(l) => OfFailure(l)') /\ (OfThisJob(l) => OfThisJob(l)')
      BY <3>1 DEF OfFailure, OfThisJob, ThisJob
    <3>4. CASE exc' # "none"
      <4>1. \A l \in emulators' : OfFailure(l)' \/ OfThisJob(l)'
        BY <3>1, <3>3 DEF LeakInv
      <4>2. ASSUME NEW k \in Key, RunningEmulators'[k] # None
            PROVE  OfFailure(RunningEmulators[k])' \/ OfThisJob(RunningEmulators[k])'
        <5>1. RunningEmulators'[k] = RunningEmulators[k]
          BY <3>1, <4>2 DEF Unregister, TInv, TypeOK
        <5> QED
          BY <3>1, <4>2, <5>1 DEF LeakInv, OfFailure, OfThisJob, ThisJob
      <4> QED
        BY <3>4, <4>1, <4>2 DEF LeakInv
    <3>5. CASE exc' = "none"
      <4>1. exc = "none" /\ RunningEmulators' = [RunningEmulators EXCEPT ![KeyOf(Top.dev)] = None]
        BY <3>1, <3>5 DEF Unregister
      <4>2. ASSUME NEW l \in emulators, l # LauncherOf(Top.dev), OfThisJob(l), On(EmulatorContext(l.dev))
            PROVE  On(EmulatorContext(l.dev))'
        <5>1. l = LauncherOf(l.dev)
          BY <4>2 DEF TInv, TypeOK, Launcher, LauncherOf, OfThisJob, ThisJob
        <5>2. PICK i \in 1..Len(stack) : stack[i] = EmulatorContext(l.dev)
          BY <4>2 DEF On
        <5>3. i # Len(stack)
          BY <3>2, <4>2, <5>1, <5>2 DEF EmulatorContext
        <5>4. i \in 1..Len(stack') /\ stack'[i] = EmulatorContext(l.dev)
          BY <3>2, <5>2, <5>3
        <5> QED
          BY <5>4 DEF On, EmulatorContext
      <4>3. \A l \in emulators' : OfFailure(l)' \/ (OfThisJob(l)' /\ On(EmulatorContext(l.dev))')
        <5> SUFFICES ASSUME NEW l \in emulators'
                     PROVE  OfFailure(l)' \/ (OfThisJob(l)' /\ On(EmulatorContext(l.dev))')
          OBVIOUS
        <5>1. l \in emulators /\ l # LauncherOf(Top.dev)
          BY <3>1
        <5>2. OfFailure(l) \/ (OfThisJob(l) /\ On(EmulatorContext(l.dev)))
          BY <3>1, <4>1, <5>1 DEF LeakInv
        <5>3. CASE OfFailure(l)
          BY <3>3, <5>3
        <5>4. CASE OfThisJob(l) /\ On(EmulatorContext(l.dev))
          BY <3>3, <4>2, <5>1, <5>4
        <5> QED
          BY <5>2, <5>3, <5>4
      <4>4. ASSUME NEW k \in Key, RunningEmulators'[k] # None
            PROVE  OfFailure(RunningEmulators[k])' \/ (OfThisJob(RunningEmulators[k])' /\ KeyIsHeld(k)')
        <5>1. k # KeyOf(Top.dev) /\ RunningEmulators'[k] = RunningEmulators[k]
          BY <4>1, <4>4 DEF TInv, TypeOK
        <5>2. \/ OfFailure(RunningEmulators[k])
              \/ OfThisJob(RunningEmulators[k]) /\ KeyIsHeld(k)
          BY <3>1, <4>1, <4>4, <5>1 DEF LeakInv
        <5>3. ASSUME KeyIsHeld(k)
              PROVE  KeyIsHeld(k)'
          <6>1. PICK i \in 1..Len(stack) : stack[i].kind = "emulator" /\ KeyOf(stack[i].dev) = k
            BY <5>3 DEF KeyIsHeld
          <6>2. i # Len(stack)
            BY <3>2, <5>1, <6>1
          <6>3. i \in 1..Len(stack') /\ stack'[i] = stack[i]
            BY <3>2, <6>2
          <6> QED
            BY <3>1, <6>1, <6>3 DEF KeyIsHeld, KeyOf
        <5> QED
          BY <3>1, <5>1, <5>2, <5>3 DEF OfFailure, OfThisJob, ThisJob
      <4> QED
        BY <4>3, <4>4 DEF LeakInv
    <3> QED
      BY <3>4, <3>5
  <2>7. CASE FinishModule
    <3>1. /\ pc = "unwind" /\ stack = <<>> /\ exc = "none" /\ UNCHANGED <<pass, emulators, RunningEmulators>>
          /\ results' = [results EXCEPT ![ThisJob] = Reported]
      BY <2>7 DEF FinishModule, emuVars
    <3>2. results[ThisJob] = "none" /\ results \in [Job -> {"none", "pass", "fail"}]
      BY <3>1 DEF LoopInv, Running, CurrentJobInv, TInv, TypeOK
    <3>3. \A l : OfFailure(l) => OfFailure(l)'
      BY <3>1, <3>2 DEF OfFailure
    <3>4. \A l \in emulators : OfFailure(l)
      BY <3>1 DEF LeakInv, On
    <3>5. \A k \in Key : RunningEmulators[k] # None => OfFailure(RunningEmulators[k])
      BY <3>1 DEF LeakInv, KeyIsHeld
    <3>6. \A k \in Key : RunningEmulators'[k] # None => OfFailure(RunningEmulators[k])'
      BY <3>1, <3>2, <3>5 DEF OfFailure
    <3> QED
      BY <3>1, <3>3, <3>4, <3>6 DEF LeakInv
  <2>8. CASE ReportFailure
    <3>1. /\ pc = "unwind" /\ exc = "error" /\ UNCHANGED <<pass, emulators, RunningEmulators>>
          /\ results' = [results EXCEPT ![ThisJob] = Reported]
      BY <2>8 DEF ReportFailure, Caught, emuVars
    <3>2. ThisJob \in Job /\ results \in [Job -> {"none", "pass", "fail"}]
      BY <3>1, ThisJobType DEF TInv, TypeOK, CurrentOK, Running
    <3>3. results'[ThisJob] = "fail"
      BY <3>1, <3>2 DEF Reported
    <3>4. \A l : OfFailure(l) \/ OfThisJob(l) => l.pass = pass' /\ results'[<<l.mod, l.mode>>] = "fail"
      BY <3>1, <3>2, <3>3 DEF OfFailure, OfThisJob
    <3>5. \A l \in emulators' : OfFailure(l)'
      BY <3>1, <3>4 DEF LeakInv, OfFailure
    <3>6. \A k \in Key : RunningEmulators'[k] # None => OfFailure(RunningEmulators[k])'
      BY <3>1, <3>4 DEF LeakInv, OfFailure
    <3> QED
      BY <3>5, <3>6 DEF LeakInv
  <2>9. CASE StopRun
    BY <2>9 DEF StopRun, LeakInv
  <2>10. CASE RepeatPass
    <3>1. pc = "loop" /\ Success /\ UNCHANGED <<emulators, RunningEmulators>>
      BY <2>10 DEF RepeatPass, PassOver, emuVars
    <3>2. \A l \in Launcher : ~OfFailure(l) /\ ~OfThisJob(l)
      BY <3>1 DEF Success, OfFailure, OfThisJob, Launcher, Job, Running
    <3>3. emulators = {} /\ \A k \in Key : RunningEmulators[k] = None
      BY <3>1, <3>2 DEF LeakInv, TInv, TypeOK
    <3> QED
      BY <3>1, <3>3 DEF LeakInv
  <2>11. CASE IocBoots \/ IocDies \/ UNCHANGED vars
    <3>1. UNCHANGED <<pc, Iocs, pass, mode, mod, results, exc, stack, emulators, RunningEmulators>>
      BY <2>11 DEF IocBoots, IocDies, vars, options, loopVars, emuVars
    <3> QED
      BY <3>1 DEF LeakInv, OfFailure, OfThisJob, ThisJob, Running, On, EmulatorContext, KeyIsHeld, KeyOf
  <2> QED
    BY <2>1, <2>2, <2>3, <2>4, <2>5, <2>6, <2>7, <2>8, <2>9, <2>10, <2>11 DEF Next, Program, User, Stopped
<1> QED
  BY <1>1, <1>2, TypesHold, LoopHolds, DevicesHold, PTL DEF Spec

(* Between modules an emulator process still running, or still registered,  *)
(* belongs to a module of this pass reported as failed.                     *)
THEOREM OnlyFailuresLeak == Spec => []LeaksAreFailures
<1>1. LeakInv => LeaksAreFailures
  BY DEF LeakInv, LeaksAreFailures, OfFailure, OfThisJob, Running
<1> QED
  BY <1>1, LeaksHold, PTL

---------------------------------------------------------------------------
(* Who serves the names of the IOCs.                                        *)

(* Whoever serves the name of another IOC that is open, or being opened and  *)
(* checked, came up after that check, which found nobody.                   *)
ServeInv == \A l \in serving : \A d \in Nat : Rivals(l, d) => l \in late

(* A step that boots and spawns no IOC and enters none.                     *)
LEMMA ServeStep ==
  ASSUME ServeInv, UNCHANGED <<Iocs, pass, mode, mod, late>>, serving' \subseteq serving,
         \A i \in 1..Len(stack') : stack'[i].kind = "ioc" =>
           \E j \in 1..Len(stack) : stack[j] = stack'[i],
         pc' = "console" => pc = "console" /\ dev' = dev
  PROVE  ServeInv'
<1> SUFFICES ASSUME NEW l \in serving', NEW d \in Nat, Rivals(l, d)'
             PROVE  l \in late
  BY DEF ServeInv
<1>1. LauncherOf(d)' = LauncherOf(d) /\ NameOf(LauncherOf(d))' = NameOf(LauncherOf(d)) /\ NameOf(l)' = NameOf(l)
  BY DEF LauncherOf, NameOf
<1>2. Launched(LauncherOf(d))'
  BY DEF Rivals
<1>3. Launched(LauncherOf(d))
  <2>1. CASE pc' = "console" /\ LauncherOf(d)'.dev = dev'
    BY <1>1, <1>2, <2>1 DEF Launched
  <2>2. CASE \E i \in 1..Len(stack') : stack'[i] = [kind |-> "ioc", dev |-> LauncherOf(d)'.dev]
    BY <1>1, <1>2, <2>2 DEF Launched
  <2> QED
    BY <1>2, <2>1, <2>2 DEF Launched
<1> QED
  BY <1>1, <1>3 DEF ServeInv, Rivals

(* With no context entered and no IOC awaited nothing is left to hold.      *)
LEMMA ServeOutside ==
  ASSUME stack' = <<>>, pc' # "console"
  PROVE  ServeInv'
BY DEF ServeInv, Rivals, Launched

(* Whoever serves the name of another IOC came up after its check.          *)
LEMMA ServersHold == Spec => []ServeInv
<1>1. Init => ServeInv
  BY DEF Init, ServeInv
<1>2. TInv /\ DeviceInv /\ ServeInv /\ [Next]_vars => ServeInv'
  <2> SUFFICES ASSUME TInv, DeviceInv, ServeInv, [Next]_vars
               PROVE  ServeInv'
    OBVIOUS
  <2>1. CASE PickMode \/ SkipModule \/ LaunchersRaise \/ StartModule \/ RepeatPass \/ ExitProgram
             \/ FinishModule \/ ReportFailure
    <3>1. stack' = <<>> /\ pc' # "console"
      BY <2>1 DEF PickMode, SkipModule, LaunchersRaise, StartModule, RepeatPass, ExitProgram, PassOver,
                  FinishModule, ReportFailure, TInv, CurrentOK, Running
    <3> QED
      BY <3>1, ServeOutside
  <2>2. CASE \/ NoEmulator \/ OpenEmulatorRaises \/ RefuseIoc \/ OpenIocRaises \/ RunTests \/ StopRun
             \/ AnswerYes \/ AnswerNo \/ AnswerQuit \/ InterruptBody \/ InterruptOpening \/ InterruptBooting
    <3>1. /\ UNCHANGED <<Iocs, pass, mode, mod, serving, late, stack>> /\ pc' # "console"
      BY <2>2 DEF NoEmulator, OpenEmulatorRaises, RefuseIoc, OpenIocRaises, RunTests, StopRun, AnswerYes,
                  AnswerNo, AnswerQuit, InterruptBody, InterruptOpening, InterruptBooting, Raise, options,
                  loopVars, iocVars
    <3> QED
      BY <3>1, ServeStep
  <2>3. CASE OpenEmulator
    <3>1. /\ UNCHANGED <<Iocs, pass, mode, mod, serving, late>> /\ pc' # "console"
          /\ stack' = Append(stack, EmulatorContext(dev))
      BY <2>3 DEF OpenEmulator, options, loopVars, iocVars, EmulatorContext
    <3>2. EmulatorContext(dev) \in Context /\ stack \in Seq(Context)
      BY ContextType DEF EmulatorContext, TInv, TypeOK
    <3>3. /\ Len(stack) \in Nat /\ Len(stack') = Len(stack) + 1
          /\ stack'[Len(stack) + 1] = EmulatorContext(dev)
          /\ \A i \in 1..Len(stack) : stack'[i] = stack[i]
      BY <3>1, <3>2, PushFacts
    <3>4. ASSUME NEW i \in 1..Len(stack'), stack'[i].kind = "ioc"
          PROVE  \E j \in 1..Len(stack) : stack[j] = stack'[i]
      BY <3>3, <3>4 DEF EmulatorContext
    <3> QED
      BY <3>1, <3>4, ServeStep
  <2>4. CASE CloseEmulator \/ CloseIoc \/ CloseIocRaises \/ InterruptClosing
    <3>1. /\ UNCHANGED <<Iocs, pass, mode, mod, late>> /\ pc' # "console"
          /\ serving' \subseteq serving
          /\ stack # <<>> /\ stack' = Pop
      BY <2>4 DEF CloseEmulator, CloseIoc, CloseIocRaises, InterruptClosing, Raise, options, loopVars, iocVars
    <3>2. /\ Len(stack) \in Nat \ {0} /\ Len(stack') = Len(stack) - 1
          /\ \A i \in 1..Len(stack) - 1 : stack'[i] = stack[i]
      BY <3>1, PopType DEF TInv, TypeOK
    <3>3. ASSUME NEW i \in 1..Len(stack')
          PROVE  \E j \in 1..Len(stack) : stack[j] = stack'[i]
      BY <3>2
    <3> QED
      BY <3>1, <3>3, ServeStep
  <2>5. CASE SpawnIoc
    <3>1. /\ ServersOf(NameOf(LauncherOf(dev))) = {}
          /\ UNCHANGED <<Iocs, pass, mode, mod, serving, late, stack, dev>>
      BY <2>5 DEF SpawnIoc, NameInUse, options, loopVars
    <3> SUFFICES ASSUME NEW l \in serving, NEW d \in Nat, Rivals(l, d)'
                 PROVE  l \in late
      BY <3>1 DEF ServeInv
    <3>2. /\ LauncherOf(d)' = LauncherOf(d) /\ NameOf(LauncherOf(d))' = NameOf(LauncherOf(d))
          /\ NameOf(l)' = NameOf(l) /\ LauncherOf(d).dev = d
      BY <3>1 DEF LauncherOf, NameOf
    <3>3. d # dev
      BY <3>1, <3>2 DEF Rivals, ServersOf
    <3>4. Launched(LauncherOf(d))
      BY <3>1, <3>2, <3>3 DEF Rivals, Launched
    <3> QED
      BY <3>2, <3>4 DEF Rivals, ServeInv
  <2>6. CASE IocOpened
    <3>1. /\ pc = "console" /\ pc' # "console" /\ stack' = Append(stack, IocContext(dev))
          /\ UNCHANGED <<Iocs, pass, mode, mod, serving, late>>
      BY <2>6 DEF IocOpened, AfterDevice, options, loopVars, iocVars, IocContext
    <3>2. IocContext(dev) \in Context /\ stack \in Seq(Context) /\ IocContext(dev).dev = dev
      BY ContextType DEF IocContext, TInv, TypeOK
    <3>3. /\ Len(stack) \in Nat /\ Len(stack') = Len(stack) + 1
          /\ stack'[Len(stack) + 1] = IocContext(dev)
          /\ \A i \in 1..Len(stack) : stack'[i] = stack[i]
      BY <3>1, <3>2, PushFacts
    <3> SUFFICES ASSUME NEW l \in serving, NEW d \in Nat, Rivals(l, d)'
                 PROVE  l \in late
      BY <3>1 DEF ServeInv
    <3>4. /\ LauncherOf(d)' = LauncherOf(d) /\ NameOf(LauncherOf(d))' = NameOf(LauncherOf(d))
          /\ NameOf(l)' = NameOf(l)
          /\ LauncherOf(d) = [pass |-> pass, mod |-> mod, mode |-> mode, dev |-> d]
      BY <3>1 DEF LauncherOf, NameOf
    <3>5. PICK i \in 1..Len(stack') : stack'[i] = [kind |-> "ioc", dev |-> d]
      BY <3>1, <3>4 DEF Rivals, Launched
    <3>6. Launched(LauncherOf(d))
      <4>1. CASE i \in 1..Len(stack)
        BY <3>3, <3>4, <3>5, <4>1 DEF Launched
      <4>2. CASE i = Len(stack) + 1
        BY <3>1, <3>2, <3>3, <3>4, <3>5, <4>2 DEF Launched
      <4> QED
        BY <3>3, <4>1, <4>2
    <3> QED
      BY <3>4, <3>6 DEF Rivals, ServeInv
  <2>7. CASE IocBoots
    <3>1. PICK b \in booting : /\ serving' = serving \cup {b}
                               /\ late' = IF Overtakes(b) THEN late \cup {b} ELSE late
      BY <2>7 DEF IocBoots
    <3>2. UNCHANGED <<Iocs, pass, mode, mod, dev, pc, stack>>
      BY <2>7 DEF IocBoots, options, loopVars
    <3> SUFFICES ASSUME NEW l \in serving', NEW d \in Nat, Rivals(l, d)
                 PROVE  l \in late'
      BY <3>2 DEF ServeInv, Rivals, Launched, LauncherOf, NameOf
    <3>3. CASE l \in serving
      BY <3>1, <3>3 DEF ServeInv
    <3>4. CASE l = b
      <4>1. LauncherOf(d).dev = d
        BY DEF LauncherOf
      <4>2. d \in {stack[i].dev : i \in 1..Len(stack)} \cup {dev}
        BY <4>1 DEF Rivals, Launched
      <4> QED
        BY <3>1, <3>4, <4>2 DEF Overtakes
    <3> QED
      BY <3>1, <3>3, <3>4
  <2>8. CASE IocDies \/ UNCHANGED vars
    <3>1. /\ UNCHANGED <<Iocs, pass, mode, mod, dev, pc, stack, late>>
          /\ serving' \subseteq serving
      BY <2>8 DEF IocDies, vars, options, loopVars, iocVars
    <3> QED
      BY <3>1, ServeStep
  <2> QED
    BY <2>1, <2>2, <2>3, <2>4, <2>5, <2>6, <2>7, <2>8 DEF Next, Program, User, Stopped
<1> QED
  BY <1>1, <1>2, TypesHold, DevicesHold, PTL DEF Spec

(* While tests run, each of their IOC names is served by the IOC launched   *)
(* for them, and by others only when these came up after its check.         *)
THEOREM OnlyLateOthersServe == Spec => []UniqueServer
<1>1. TInv /\ DeviceInv /\ ServeInv => UniqueServer
  <2> SUFFICES ASSUME TInv, DeviceInv, ServeInv, pc = "testing", NEW d \in 1..Len(Iocs[mod]),
                      NEW l \in ServersOf(Iocs[mod][d].ioc), l # LauncherOf(d)
               PROVE  l \in late
    BY DEF UniqueServer
  <2>1. PICK i \in 1..Len(stack) : stack[i] = [kind |-> "ioc", dev |-> d]
    BY DEF DeviceInv, Frontier, Opened, On, IocContext
  <2>2. Launched(LauncherOf(d))
    BY <2>1 DEF Launched, LauncherOf
  <2>3. NameOf(LauncherOf(d)) = Iocs[mod][d].ioc
    BY EntryType DEF TInv, TypeOK, CurrentOK, Running
  <2>4. d \in Nat
    BY IocsType DEF TInv, TypeOK, CurrentOK, Running
  <2> QED
    BY <2>2, <2>3, <2>4 DEF ServeInv, Rivals, ServersOf
<1> QED
  BY <1>1, TypesHold, DevicesHold, ServersHold, PTL

(* An IOC enters the register only when it serves its existence PV, or one   *)
(* that came up after the check does in its place (CheckExistencePv).       *)
THEOREM RegisteredIocsAnswer == Spec => OpenedIocAnswers
<1> DEFINE Answers(n) == RunningIOCs'[n] # RunningIOCs[n] =>
                           RunningIOCs'[n] \in serving \/ ServersOf(n) \cap late # {}
<1>1. TInv /\ ServeInv /\ [Next]_vars => [\A n \in IocName : Answers(n)]_vars
  <2> SUFFICES ASSUME TInv, ServeInv, Next, NEW n \in IocName, RunningIOCs'[n] # RunningIOCs[n]
               PROVE  RunningIOCs'[n] \in serving \/ ServersOf(n) \cap late # {}
    BY DEF vars
  <2>1. IocOpened
    <3>1. ~IocOpened => RunningIOCs' = RunningIOCs
      BY DEF Next, Program, User, Stopped, PickMode, SkipModule, LaunchersRaise, StartModule, OpenEmulator,
           NoEmulator, OpenEmulatorRaises, RefuseIoc, SpawnIoc, OpenIocRaises, RunTests,
           CloseEmulator, CloseIoc, CloseIocRaises, FinishModule, ReportFailure, StopRun, RepeatPass,
           ExitProgram, PassOver, AnswerYes, AnswerNo, AnswerQuit, InterruptBody, InterruptOpening,
           InterruptBooting, InterruptClosing, IocBoots, IocDies, vars, iocVars
    <3> QED
      BY <3>1
  <2>2. /\ pc = "console" /\ ServersOf(NameOf(LauncherOf(dev))) # {}
        /\ RunningIOCs' = [RunningIOCs EXCEPT ![NameOf(LauncherOf(dev))] = LauncherOf(dev)]
    BY <2>1 DEF IocOpened
  <2>3. n = NameOf(LauncherOf(dev)) /\ RunningIOCs'[n] = LauncherOf(dev)
    BY <2>2 DEF TInv, TypeOK
  <2>4. PICK l : l \in serving /\ NameOf(l) = n
    BY <2>2, <2>3 DEF ServersOf
  <2>5. Launched(LauncherOf(dev)) /\ dev \in Nat
    BY <2>2 DEF Launched, LauncherOf, TInv, TypeOK
  <2>6. l = LauncherOf(dev) \/ l \in late
    BY <2>3, <2>4, <2>5 DEF ServeInv, Rivals
  <2> QED
    BY <2>3, <2>4, <2>6 DEF ServersOf
<1>2. OpenedIocAnswers <=> [][\A n \in IocName : Answers(n)]_vars
  BY DEF OpenedIocAnswers
<1> QED
  BY <1>1, <1>2, TypesHold, ServersHold, PTL DEF Spec

---------------------------------------------------------------------------
(* What the tests said, and what is reported.                               *)

(* The devices of a module are told apart by their names and, those that    *)
(* have a launcher in that mode, by their register keys.                    *)
EmulatedIn(j, d) ==
  LET kind == Iocs[j[1]][d].kind
  IN  kind = "emulator" \/ (kind = "emulators" /\ j[2] # RecSim)
KeyIn(j, d) == IF Iocs[j[1]][d].kind = "emulators" THEN j[1] ELSE Iocs[j[1]][d].id
DistinctIn(j) ==
  \A c, d \in 1..Len(Iocs[j[1]]) : c # d =>
    /\ Iocs[j[1]][c].ioc # Iocs[j[1]][d].ioc
    /\ EmulatedIn(j, c) /\ EmulatedIn(j, d) => KeyIn(j, c) # KeyIn(j, d)
DistinctEverywhere == \A j \in Job : DistinctIn(j)

OpenIoc(i) == i \in 1..Len(stack) /\ stack[i].kind = "ioc"

(* The IOC of the device d still has its process, or has ended by itself.   *)
Accounted(d) == LauncherOf(d) \in booting \cup serving \/ ThisJob \in bereaved

(* After tests that passed only a device whose IOC ended by itself raises.  *)
VerdictInv ==
  /\ \A i \in 1..Len(stack) : OpenIoc(i) => Accounted(stack[i].dev)
  /\ pc = "console" => Accounted(dev)
  /\ DistinctEverywhere =>
       /\ Running /\ exc = "error" /\ ThisJob \in testsOk => ThisJob \in bereaved
       /\ VerdictStands

(* The condition on all modules gives that on the current one.              *)
LEMMA DistinctHere ==
  ASSUME mod \in Module, mode \in Mode, DistinctEverywhere
  PROVE  DistinctDevices
<1>1. DistinctIn(<<mod, mode>>)
  BY DEF DistinctEverywhere, Job
<1> QED
  BY <1>1 DEF DistinctIn, DistinctDevices, EmulatedIn, KeyIn, HasEmulator, KeyOf

(* A step that raises no error of its own, closes no IOC and reports        *)
(* nothing.                                                                 *)
LEMMA VerdictStep ==
  ASSUME VerdictInv, UNCHANGED <<Iocs, pass, mode, mod, results, bereaved>>,
         booting \cup serving \subseteq booting' \cup serving',
         \A i \in 1..Len(stack') : stack'[i].kind = "ioc" =>
           \E j \in 1..Len(stack) : stack[j] = stack'[i],
         pc' = "console" => (pc = "console" /\ dev' = dev) \/ Accounted(dev)',
         testsOk' = testsOk, Running,
         exc' = "error" => exc = "error" \/ ThisJob \notin testsOk \/ ThisJob \in bereaved
                           \/ ~DistinctEverywhere
  PROVE  VerdictInv'
<1>1. ASSUME NEW i \in 1..Len(stack'), OpenIoc(i)'
      PROVE  Accounted(stack[i].dev)'
  <2>1. PICK j \in 1..Len(stack) : stack[j] = stack'[i]
    BY <1>1 DEF OpenIoc
  <2>2. Accounted(stack[j].dev)
    BY <1>1, <2>1 DEF VerdictInv, OpenIoc
  <2> QED
    BY <2>1, <2>2 DEF Accounted, LauncherOf, ThisJob
<1>2. pc' = "console" => Accounted(dev)'
  BY DEF VerdictInv, Accounted, LauncherOf, ThisJob
<1>3. DistinctEverywhere' => DistinctEverywhere
  BY DEF DistinctEverywhere, DistinctIn, EmulatedIn, KeyIn
<1>4. DistinctEverywhere' => VerdictStands'
  BY <1>3 DEF VerdictInv, VerdictStands
<1>5. ASSUME DistinctEverywhere', exc' = "error", ThisJob' \in testsOk'
      PROVE  ThisJob' \in bereaved'
  BY <1>3, <1>5 DEF VerdictInv, ThisJob
<1> QED
  BY <1>1, <1>2, <1>4, <1>5 DEF VerdictInv

(* With no context entered only the reported results matter.                *)
LEMMA VerdictOutside ==
  ASSUME VerdictInv, stack' = <<>>, pc' # "console",
         Running' => exc' # "error",
         DistinctEverywhere' => VerdictStands'
  PROVE  VerdictInv'
BY DEF VerdictInv

(* Tests that passed are reported as passed, or an IOC of theirs has ended. *)
LEMMA VerdictsHold == Spec => []VerdictInv
<1>1. Init => VerdictInv
  BY DEF Init, VerdictInv, VerdictStands, Running
<1>2. TInv /\ LoopInv /\ DeviceInv /\ VerdictInv /\ [Next]_vars => VerdictInv'
  <2> SUFFICES ASSUME TInv, LoopInv, DeviceInv, VerdictInv, [Next]_vars
               PROVE  VerdictInv'
    OBVIOUS
  <2>1. CASE PickMode \/ SkipModule \/ LaunchersRaise \/ StartModule \/ ExitProgram
    <3>1. stack' = <<>> /\ pc' # "console" /\ (Running' => exc' # "error")
          /\ UNCHANGED <<Iocs, results, testsOk, bereaved>>
      BY <2>1 DEF PickMode, SkipModule, LaunchersRaise, StartModule, ExitProgram, PassOver,
                  options, history, loopVars, TInv, CurrentOK, Running
    <3>2. DistinctEverywhere' => VerdictStands'
      BY <3>1 DEF VerdictInv, VerdictStands, DistinctEverywhere, DistinctIn, EmulatedIn, KeyIn
    <3> QED
      BY <3>1, <3>2, VerdictOutside
  <2>2. CASE RepeatPass
    <3>1. stack' = <<>> /\ pc' # "console" /\ ~Running' /\ pc = "loop" /\ Iocs' = Iocs
          /\ \/ testsOk' = {}
             \/ UNCHANGED <<results, testsOk, bereaved>>
      BY <2>2 DEF RepeatPass, PassOver, options, TInv, CurrentOK, Running
    <3>2. DistinctEverywhere' => VerdictStands'
      BY <3>1 DEF VerdictInv, VerdictStands, DistinctEverywhere, DistinctIn, EmulatedIn, KeyIn
    <3> QED
      BY <3>1, <3>2, VerdictOutside
  <2>3. CASE \/ NoEmulator \/ OpenEmulatorRaises \/ RefuseIoc \/ SpawnIoc \/ OpenIocRaises \/ StopRun
             \/ AnswerYes \/ AnswerNo \/ AnswerQuit \/ InterruptBody \/ InterruptOpening \/ InterruptBooting
    <3>1. /\ UNCHANGED <<Iocs, pass, mode, mod, results, bereaved, testsOk, stack>> /\ Running
          /\ booting \cup serving \subseteq booting' \cup serving'
      BY <2>3 DEF NoEmulator, OpenEmulatorRaises, RefuseIoc, SpawnIoc, OpenIocRaises, StopRun, AnswerYes,
                  AnswerNo, AnswerQuit, InterruptBody, InterruptOpening, InterruptBooting, Raise, options,
                  loopVars, iocVars, history, Running
    <3>2. pc' = "console" => Accounted(dev)'
      BY <2>3 DEF NoEmulator, OpenEmulatorRaises, RefuseIoc, SpawnIoc, OpenIocRaises, StopRun, AnswerYes,
                  AnswerNo, AnswerQuit, InterruptBody, InterruptOpening, InterruptBooting, Raise,
                  loopVars, Accounted, LauncherOf
    <3>3. exc' = "error" => exc = "error" \/ ThisJob \notin testsOk
      <4>1. CurrentJobInv
        BY <3>1 DEF LoopInv
      <4>2. pc # "unwind" => ThisJob \notin testsOk
        BY <4>1 DEF CurrentJobInv
      <4>3. pc = "unwind" => exc' = exc
        BY <2>3 DEF NoEmulator, OpenEmulatorRaises, RefuseIoc, SpawnIoc, OpenIocRaises, StopRun, AnswerYes,
                  AnswerNo, AnswerQuit, InterruptBody, InterruptOpening, InterruptBooting
      <4> QED
        BY <4>2, <4>3
    <3> QED
      BY <3>1, <3>2, <3>3, VerdictStep
  <2>4. CASE RunTests
    <3>1. /\ UNCHANGED <<Iocs, pass, mode, mod, results, bereaved, booting, serving, stack, exc>>
          /\ pc = "testing" /\ pc' = "unwind" /\ testsOk' \subseteq testsOk \cup {ThisJob}
      BY <2>4 DEF RunTests, options, loopVars, iocVars
    <3>2. exc = "none" /\ results[ThisJob] = "none"
      BY <3>1 DEF LoopInv, Running, CurrentJobInv
    <3>3. DistinctEverywhere' => VerdictStands'
      BY <3>1, <3>2 DEF VerdictInv, VerdictStands, DistinctEverywhere, DistinctIn, EmulatedIn, KeyIn
    <3>4. \A i \in 1..Len(stack') : OpenIoc(i)' => Accounted(stack[i].dev)'
      BY <3>1 DEF VerdictInv, OpenIoc, Accounted, LauncherOf, ThisJob
    <3> QED
      BY <3>1, <3>2, <3>3, <3>4 DEF VerdictInv
  <2>5. CASE OpenEmulator
    <3>1. /\ UNCHANGED <<Iocs, pass, mode, mod, results, bereaved, testsOk, booting, serving, exc>>
          /\ Running /\ pc' # "console" /\ stack' = Append(stack, EmulatorContext(dev))
      BY <2>5 DEF OpenEmulator, options, loopVars, iocVars, history, Running, EmulatorContext
    <3>2. EmulatorContext(dev) \in Context /\ stack \in Seq(Context)
      BY ContextType DEF EmulatorContext, TInv, TypeOK
    <3>3. /\ Len(stack) \in Nat /\ Len(stack') = Len(stack) + 1
          /\ stack'[Len(stack) + 1] = EmulatorContext(dev)
          /\ \A i \in 1..Len(stack) : stack'[i] = stack[i]
      BY <3>1, <3>2, PushFacts
    <3>4. ASSUME NEW i \in 1..Len(stack'), stack'[i].kind = "ioc"
          PROVE  \E j \in 1..Len(stack) : stack[j] = stack'[i]
      BY <3>3, <3>4 DEF EmulatorContext
    <3> QED
      BY <3>1, <3>4, VerdictStep
  <2>6. CASE IocOpened
    <3>1. /\ UNCHANGED <<Iocs, pass, mode, mod, results, bereaved, testsOk, booting, serving, exc>>
          /\ pc = "console" /\ pc' # "console" /\ stack' = Append(stack, IocContext(dev))
      BY <2>6 DEF IocOpened, AfterDevice, options, loopVars, iocVars, history, IocContext
    <3>2. IocContext(dev) \in Context /\ stack \in Seq(Context) /\ IocContext(dev).dev = dev
      BY ContextType DEF IocContext, TInv, TypeOK
    <3>3. /\ Len(stack) \in Nat /\ Len(stack') = Len(stack) + 1
          /\ stack'[Len(stack) + 1] = IocContext(dev)
          /\ \A i \in 1..Len(stack) : stack'[i] = stack[i]
      BY <3>1, <3>2, PushFacts
    <3>4. exc = "none"
      BY <3>1 DEF LoopInv, Running, CurrentJobInv
    <3>5. ASSUME NEW i \in 1..Len(stack'), OpenIoc(i)'
          PROVE  Accounted(stack[i].dev)'
      <4>1. \A d : Accounted(d) => LauncherOf(d)' \in booting' \cup serving' \/ ThisJob' \in bereaved'
        BY <3>1 DEF Accounted, LauncherOf, ThisJob
      <4>2. CASE i \in 1..Len(stack)
        <5>1. Accounted(stack[i].dev) /\ stack'[i] = stack[i]
          BY <3>3, <3>5, <4>2 DEF VerdictInv, OpenIoc
        <5> QED
          BY <3>1, <5>1 DEF Accounted, LauncherOf, ThisJob
      <4>3. CASE i = Len(stack) + 1
        <5>1. Accounted(dev) /\ stack'[i].dev = dev
          BY <3>1, <3>2, <3>3, <4>3 DEF VerdictInv
        <5> QED
          BY <3>1, <5>1 DEF Accounted, LauncherOf, ThisJob
      <4> QED
        BY <3>3, <4>2, <4>3
    <3>6. DistinctEverywhere' => VerdictStands'
      BY <3>1 DEF VerdictInv, VerdictStands, DistinctEverywhere, DistinctIn, EmulatedIn, KeyIn
    <3> QED
      BY <3>1, <3>4, <3>5, <3>6 DEF VerdictInv
  <2>7. CASE CloseEmulator \/ InterruptClosing
    <3>1. /\ UNCHANGED <<Iocs, pass, mode, mod, results, bereaved, testsOk, booting, serving>>
          /\ Running /\ pc = "unwind" /\ pc' # "console" /\ stack # <<>> /\ stack' = Pop
      BY <2>7 DEF CloseEmulator, InterruptClosing, Raise, options, loopVars, iocVars, history, Running
    <3>2. /\ Len(stack) \in Nat \ {0} /\ Len(stack') = Len(stack) - 1
          /\ \A i \in 1..Len(stack) - 1 : stack'[i] = stack[i]
          /\ Top = stack[Len(stack)] /\ Top \in Context
      BY <3>1, PopType DEF TInv, TypeOK
    <3>3. ASSUME NEW i \in 1..Len(stack')
          PROVE  \E j \in 1..Len(stack) : stack[j] = stack'[i]
      BY <3>2
    <3>4. exc' = "error" => exc = "error" \/ ~DistinctEverywhere
      <4>1. CASE InterruptClosing
        BY <4>1 DEF InterruptClosing, Raise
      <4>2. CASE CloseEmulator
        <5> SUFFICES ASSUME DistinctEverywhere
                     PROVE  exc' = exc
          OBVIOUS
        <5>1. DistinctDevices
          BY <3>1, DistinctHere DEF TInv, CurrentOK
        <5>2. RunningEmulators[KeyOf(Top.dev)] = LauncherOf(Top.dev)
          BY <3>2, <4>2, <5>1 DEF CloseEmulator, DeviceInv, Registered
        <5>3. LauncherOf(Top.dev) \in Launcher
          BY <3>1, <3>2, LauncherType DEF TInv, CurrentOK, Context
        <5>4. LauncherOf(Top.dev) # None
          BY <5>3, ConstantsAssumption
        <5> QED
          BY <4>2, <5>2, <5>4 DEF CloseEmulator
      <4> QED
        BY <2>7, <4>1, <4>2
    <3> QED
      BY <3>1, <3>3, <3>4, VerdictStep
  <2>8. CASE CloseIoc \/ CloseIocRaises
    <3> DEFINE d == Top.dev
    <3>1. /\ UNCHANGED <<Iocs, pass, mode, mod, results, bereaved, testsOk>>
          /\ Running /\ pc = "unwind" /\ pc' = "unwind" /\ stack # <<>> /\ stack' = Pop /\ Top.kind = "ioc"
          /\ (booting \cup serving) \ {LauncherOf(d)} \subseteq booting' \cup serving'
      BY <2>8 DEF CloseIoc, CloseIocRaises, options, loopVars, iocVars, history, Running
    <3>2. /\ Len(stack) \in Nat \ {0} /\ Len(stack') = Len(stack) - 1
          /\ \A i \in 1..Len(stack) - 1 : stack'[i] = stack[i]
          /\ Top = stack[Len(stack)] /\ Top \in Context
          /\ \A i \in 1..Len(stack) : stack[i].dev \in Nat
      <4>1. stack \in Seq(Context) /\ \A i \in 1..Len(stack) : stack[i].dev \in 1..Len(Iocs[mod])
        BY DEF TInv, TypeOK, CurrentOK
      <4>2. \A i \in 1..Len(stack) : stack[i].dev \in Nat
        BY <4>1
      <4> QED
        BY <3>1, <4>1, <4>2, PopType
    <3>3. exc' = "error" => exc = "error" \/ ThisJob \in bereaved
      <4>1. CASE CloseIoc
        BY <4>1 DEF CloseIoc
      <4>2. CASE CloseIocRaises
        <5>1. OpenIoc(Len(stack)) /\ Len(stack) \in 1..Len(stack)
          BY <3>1, <3>2 DEF OpenIoc
        <5>2. Accounted(d)
          BY <3>2, <5>1 DEF VerdictInv
        <5> QED
          BY <4>2, <5>2 DEF CloseIocRaises, Accounted
      <4> QED
        BY <2>8, <4>1, <4>2
    <3>4. ASSUME NEW i \in 1..Len(stack'), OpenIoc(i)'
          PROVE  Accounted(stack[i].dev)'
      <4>1. i \in 1..Len(stack) /\ i < Len(stack) /\ stack'[i] = stack[i] /\ OpenIoc(i)
            /\ Len(stack) \in 1..Len(stack)
        BY <3>2, <3>4 DEF OpenIoc
      <4>2. stack[i].dev # d
        <5>1. \/ stack[i].dev < d
              \/ stack[i].dev = d /\ stack[i].kind = "emulator"
          BY <3>2, <4>1 DEF DeviceInv, Ordered
        <5> QED
          BY <3>2, <4>1, <5>1 DEF OpenIoc
      <4>3. LauncherOf(stack[i].dev) # LauncherOf(d)
        BY <4>2 DEF LauncherOf
      <4>4. Accounted(stack[i].dev)
        BY <4>1 DEF VerdictInv
      <4> QED
        BY <3>1, <4>1, <4>3, <4>4 DEF Accounted, LauncherOf, ThisJob
    <3>5. DistinctEverywhere' => DistinctEverywhere /\ VerdictStands'
      BY <3>1 DEF VerdictInv, VerdictStands, DistinctEverywhere, DistinctIn, EmulatedIn, KeyIn
    <3>6. DistinctEverywhere' /\ exc' = "error" /\ ThisJob' \in testsOk' => ThisJob' \in bereaved'
      BY <3>1, <3>3, <3>5 DEF VerdictInv, ThisJob
    <3> QED
      BY <3>1, <3>4, <3>5, <3>6 DEF VerdictInv
  <2>9. CASE FinishModule \/ ReportFailure
    <3>1. /\ UNCHANGED <<Iocs, testsOk, bereaved>> /\ ~Running' /\ pc' # "console" /\ stack' = <<>>
          /\ pc = "unwind" /\ results' = [results EXCEPT ![ThisJob] = Reported]
          /\ exc \in {"none", "error"}
      BY <2>9 DEF FinishModule, ReportFailure, Caught, options, history, Running
    <3>2. CurrentJobInv /\ results \in [Job -> {"none", "pass", "fail"}] /\ ThisJob \in Job
      BY <3>1, ThisJobType DEF LoopInv, Running, TInv, TypeOK, CurrentOK
    <3>3. DistinctEverywhere' => DistinctEverywhere
      BY <3>1 DEF DistinctEverywhere, DistinctIn, EmulatedIn, KeyIn
    <3>4. ASSUME DistinctEverywhere, ThisJob \in testsOk, Reported = "fail"
          PROVE  ThisJob \in bereaved
      BY <3>1, <3>2, <3>4 DEF VerdictInv, Running, Reported, CurrentJobInv
    <3>5. ASSUME DistinctEverywhere, NEW j \in Job, results'[j] = "fail", j \in testsOk
          PROVE  j \in bereaved
      <4>1. CASE j = ThisJob
        BY <3>1, <3>2, <3>4, <3>5, <4>1
      <4>2. CASE j # ThisJob
        BY <3>1, <3>2, <3>5, <4>2 DEF VerdictInv, VerdictStands
      <4> QED
        BY <4>1, <4>2
    <3>6. DistinctEverywhere' => VerdictStands'
      BY <3>1, <3>3, <3>5 DEF VerdictStands
    <3> QED
      BY <3>1, <3>6, VerdictOutside
  <2>10. CASE IocBoots
    <3>1. /\ UNCHANGED <<Iocs, pass, mode, mod, results, bereaved, testsOk, stack, pc, dev, exc>>
          /\ booting' \cup serving' = booting \cup serving
      BY <2>10 DEF IocBoots, options, loopVars, history
    <3>2. \A i \in 1..Len(stack') : OpenIoc(i)' => Accounted(stack[i].dev)'
      BY <3>1 DEF VerdictInv, OpenIoc, Accounted, LauncherOf, ThisJob
    <3>3. pc' = "console" => Accounted(dev)'
      BY <3>1 DEF VerdictInv, Accounted, LauncherOf, ThisJob
    <3>4. DistinctEverywhere' => DistinctEverywhere /\ VerdictStands'
      BY <3>1 DEF VerdictInv, VerdictStands, DistinctEverywhere, DistinctIn, EmulatedIn, KeyIn
    <3> QED
      BY <3>1, <3>2, <3>3, <3>4 DEF VerdictInv, Running, ThisJob
  <2>11. CASE IocDies
    <3>1. PICK l \in booting \cup serving :
            /\ booting' = booting \ {l} /\ serving' = serving \ {l}
            /\ bereaved' = IF Launched(l) THEN bereaved \cup {<<l.mod, l.mode>>} ELSE bereaved
      BY <2>11 DEF IocDies
    <3>2. UNCHANGED <<Iocs, pass, mode, mod, results, testsOk, stack, pc, dev, exc>>
      BY <2>11 DEF IocDies, options, loopVars
    <3>3. ASSUME NEW d, Accounted(d),
                 (pc = "console" /\ d = dev)
                   \/ \E i \in 1..Len(stack) : stack[i] = [kind |-> "ioc", dev |-> d]
          PROVE  LauncherOf(d)' \in booting' \cup serving' \/ ThisJob' \in bereaved'
      <4>1. CASE l = LauncherOf(d)
        <5>1. Launched(l) /\ <<l.mod, l.mode>> = ThisJob
          BY <3>3, <4>1 DEF Launched, LauncherOf, ThisJob
        <5> QED
          BY <3>1, <3>2, <5>1 DEF ThisJob
      <4>2. CASE l # LauncherOf(d)
        BY <3>1, <3>2, <3>3, <4>2 DEF Accounted, LauncherOf, ThisJob
      <4> QED
        BY <4>1, <4>2
    <3>4. ASSUME NEW i \in 1..Len(stack'), OpenIoc(i)'
          PROVE  Accounted(stack[i].dev)'
      <4>1. i \in 1..Len(stack) /\ OpenIoc(i) /\ stack'[i] = stack[i] /\ stack \in Seq(Context)
        BY <3>2, <3>4 DEF OpenIoc, TInv, TypeOK
      <4>2. stack[i] \in [kind : {"emulator", "ioc"}, dev : Nat]
        <5>1. stack[i] \in Context
          BY ONLY <4>1
        <5> QED
          BY <5>1 DEF Context
      <4>3. stack[i] = [kind |-> "ioc", dev |-> stack[i].dev]
        <5>1. \A c \in [kind : {"emulator", "ioc"}, dev : Nat] :
                c.kind = "ioc" => c = [kind |-> "ioc", dev |-> c.dev]
          OBVIOUS
        <5> QED
          BY <4>1, <4>2, <5>1 DEF OpenIoc
      <4>4. PICK d : d = stack[i].dev
        OBVIOUS
      <4>5. Accounted(d) /\ stack[i] = [kind |-> "ioc", dev |-> d]
        BY <4>1, <4>3, <4>4 DEF VerdictInv
      <4>6. LauncherOf(d)' \in booting' \cup serving' \/ ThisJob' \in bereaved'
        BY <3>3, <4>1, <4>5
      <4> QED
        BY <4>1, <4>4, <4>6 DEF Accounted, LauncherOf
    <3>5. pc' = "console" => Accounted(dev)'
      BY <3>2, <3>3 DEF VerdictInv, Accounted, LauncherOf
    <3>6. bereaved \subseteq bereaved'
      BY <3>1
    <3>7. DistinctEverywhere' => DistinctEverywhere /\ VerdictStands'
      BY <3>2, <3>6 DEF VerdictInv, VerdictStands, DistinctEverywhere, DistinctIn, EmulatedIn, KeyIn
    <3>8. DistinctEverywhere' /\ Running' /\ exc' = "error" /\ ThisJob' \in testsOk' => ThisJob' \in bereaved'
      BY <3>2, <3>6, <3>7 DEF VerdictInv, Running, ThisJob
    <3> QED
      BY <3>4, <3>5, <3>7, <3>8 DEF VerdictInv
  <2>12. CASE UNCHANGED vars
    <3>1. UNCHANGED <<Iocs, pass, mode, mod, results, bereaved, testsOk, stack, pc, dev, exc, booting, serving>>
      BY <2>12 DEF vars, options, loopVars, iocVars, history
    <3>2. \A i \in 1..Len(stack') : OpenIoc(i)' => Accounted(stack[i].dev)'
      BY <3>1 DEF VerdictInv, OpenIoc, Accounted, LauncherOf, ThisJob
    <3>3. DistinctEverywhere' => DistinctEverywhere /\ VerdictStands'
      BY <3>1 DEF VerdictInv, VerdictStands, DistinctEverywhere, DistinctIn, EmulatedIn, KeyIn
    <3> QED
      BY <3>1, <3>2, <3>3 DEF VerdictInv, Running, ThisJob, Accounted, LauncherOf
  <2> QED
    BY <2>1, <2>2, <2>3, <2>4, <2>5, <2>6, <2>7, <2>8, <2>9, <2>10, <2>11, <2>12
    DEF Next, Program, User, Stopped
<1> QED
  BY <1>1, <1>2, TypesHold, LoopHolds, DevicesHold, PTL DEF Spec

(* A module whose tests pass is reported as passed, unless one of its IOCs  *)
(* ended by itself, provided the devices of a module have names and         *)
(* register keys of their own.                                              *)
THEOREM VerdictsStand == Spec => [](DistinctEverywhere => VerdictStands)
<1>1. VerdictInv => (DistinctEverywhere => VerdictStands)
  BY DEF VerdictInv
<1> QED
  BY <1>1, VerdictsHold, PTL
=============================================================================
