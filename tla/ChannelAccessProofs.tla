------------------------ MODULE ChannelAccessProofs ------------------------
(***************************************************************************)
(* Proofs about ChannelAccess, for every set of values and conditions and   *)
(* every timeout.                                                           *)
(***************************************************************************)
EXTENDS ChannelAccess, SequenceLemmas, SequenceTheorems, TLAPS

---------------------------------------------------------------------------
(* The methods are sequences of steps.                                      *)

(* Short sequences.                                                         *)
LEMMA Short ==
  ASSUME NEW S
  PROVE  /\ \A a \in S : << a >> \in Seq(S)
         /\ \A a, b \in S : << a, b >> \in Seq(S)
         /\ \A a, b, c \in S : << a, b, c >> \in Seq(S)
  OBVIOUS

(* The step constructors make steps.                                        *)
LEMMA StepTypes ==
  /\ \A op \in Op \ {"use", "write", "expect"}, arg \in Arg : Do(op, arg) \in Step
  /\ \A p \in Prefix \cup {"same"} : Do("use", p) \in Step
  /\ Do("write", "SP") \in Step
  /\ \A t \in Nat : Nap(t) \in Step
  /\ \A v \in Value : Write("SP", v) \in Step
  /\ \A a \in Alarm : Write("SIMS", a) \in Step
  /\ \A pv \in {"RB", "SEVR"}, S \in SUBSET (Value \cup Alarm), t \in Nat : Expect(pv, S, t) \in Step
<1>1. \A op \in Op, arg \in Arg :
        Do(op, arg) \in [op : Op, arg : Arg, good : SUBSET (Value \cup Alarm), limit : Nat, soft : BOOLEAN]
  BY DEF Do
<1>2. \A op \in Op \ {"use", "write", "expect"}, arg \in Arg : Do(op, arg) \in Step
  BY <1>1 DEF Step, Do
<1>3. \A p \in Prefix \cup {"same"} : Do("use", p) \in Step
  BY DEF Step, Do, Op, Arg, Prefix
<1>4. Do("write", "SP") \in Step
  BY DEF Step, Do, Op, Arg
<1>5. \A t \in Nat : Nap(t) \in Step
  BY DEF Step, Nap, Do, Op, Arg
<1>6. \A v \in Value : Write("SP", v) \in Step
  BY DEF Step, Write, Do, Op, Arg
<1>7. \A a \in Alarm : Write("SIMS", a) \in Step
  BY DEF Step, Write, Do, Op, Arg
<1>8. \A pv \in {"RB", "SEVR"}, S \in SUBSET (Value \cup Alarm), t \in Nat : Expect(pv, S, t) \in Step
  BY DEF Step, Expect, Do, Op, Arg
<1> QED
  BY <1>2, <1>3, <1>4, <1>5, <1>6, <1>7, <1>8

(* Waiting for a PV to exist, or not to, is one step.                       *)
LEMMA AssertExistsType ==
  ASSUME NEW op \in {"exists", "absent"}, NEW t \in Nat
  PROVE  AssertExists(op, t) \in Seq(Step)
<1>1. [Do(op, "none") EXCEPT !.limit = t] \in Step
  BY DEF Step, Do, Op, Arg
<1> QED
  BY <1>1, Short DEF AssertExists

(* set_pv_value is a sequence of steps.                                     *)
LEMMA SetPvValueType ==
  ASSUME NEW pv, NEW v, Write(pv, v) \in Step, NEW p \in Prefix \cup {"same"}, NEW wait \in Nat
  PROVE  SetPvValue(pv, v, p, wait) \in Seq(Step)
<1>1. << Do("use", p) >> \in Seq(Step)
  <2>1. Do("use", p) \in Step
    BY StepTypes
  <2> QED
    BY <2>1, Short
<1>2. AssertExists("exists", DefaultTimeout) \in Seq(Step)
  BY AssertExistsType, ConstantsAssumption
<1>3. << Write(pv, v), Do("restore", "none"), Nap(wait) >> \in Seq(Step)
  <2>1. Do("restore", "none") \in Step /\ Nap(wait) \in Step
    BY StepTypes DEF Op, Arg
  <2> QED
    BY <2>1, Short
<1> QED
  BY <1>1, <1>2, <1>3, ConcatProperties DEF SetPvValue

(* The single waits are sequences of steps.                                 *)
LEMMA WaitTypes ==
  ASSUME NEW t \in Nat
  PROVE  /\ \A S \in SUBSET Value : << Expect("RB", S, t) >> \in Seq(Step)
         /\ \A a \in Alarm : AssertAlarmIs(a, t) \in Seq(Step)
<1>1. \A S \in SUBSET Value : Expect("RB", S, t) \in Step
  BY StepTypes
<1>2. \A a \in Alarm : Expect("SEVR", {a}, t) \in Step
  BY StepTypes
<1> QED
  BY <1>1, <1>2, Short DEF AssertAlarmIs

(* Setting and clearing an alarm, and the context around a body.            *)
LEMMA AlarmType ==
  ASSUME NEW body \in Bodies
  PROVE  PutIntoAlarm(body) \in Seq(Step)
<1>1. \A a \in Alarm : SetAndCheckAlarm(a) \in Seq(Step)
  <2> TAKE a \in Alarm
  <2>1. Write("SIMS", a) \in Step
    BY StepTypes
  <2>2. SetPvValue("SIMS", a, "same", DefaultWait) \in Seq(Step)
    BY <2>1, SetPvValueType, ConstantsAssumption
  <2>3. AssertAlarmIs(a, DefaultTimeout) \in Seq(Step)
    BY WaitTypes, ConstantsAssumption
  <2> QED
    BY <2>2, <2>3, ConcatProperties DEF SetAndCheckAlarm
<1>2. body \in Seq(Step)
  <2>1. << Do("body", "none") >> \in Seq(Step)
    <3>1. Do("body", "none") \in Step
      BY StepTypes DEF Op, Arg
    <3> QED
      BY <3>1, Short
  <2>2. \A v \in Value : SetPvValue("SP", v, "other", DefaultWait) \in Seq(Step)
    BY StepTypes, SetPvValueType, ConstantsAssumption DEF Prefix
  <2>3. << >> \in Seq(Step)
    BY EmptySeq
  <2>4. \/ body = << >> \/ body = << Do("body", "none") >>
        \/ \E v \in Value : body = SetPvValue("SP", v, "other", DefaultWait)
    BY DEF Bodies
  <2> QED
    BY <2>1, <2>2, <2>3, <2>4
<1>3. << Do("finally", "none") >> \in Seq(Step) /\ << Do("reraise", "none") >> \in Seq(Step)
  <2>1. Do("finally", "none") \in Step /\ Do("reraise", "none") \in Step
    BY StepTypes DEF Op, Arg
  <2> QED
    BY <2>1, Short
<1>4. SetAndCheckAlarm(InAlarm) \in Seq(Step) /\ SetAndCheckAlarm(NoAlarm) \in Seq(Step)
  BY <1>1 DEF Alarm
<1> QED
  BY <1>2, <1>3, <1>4, ConcatProperties DEF PutIntoAlarm
---------------------------------------------------------------------------
(* Types.                                                                   *)

(* The histories keep their types.                                          *)
LEMMA TrackTypes ==
  ASSUME TypeOK, elapsed' \in 0..MaxElapsed, Track \/ TrackNew
  PROVE  held' \in BOOLEAN /\ since' \in 0..MaxElapsed \cup {Never}
<1>1. Watched' \in BOOLEAN
  BY DEF Watched
<1>2. CASE Track
  BY <1>1, <1>2 DEF Track, TypeOK
<1>3. CASE TrackNew
  BY <1>1, <1>3, ConstantsAssumption DEF TrackNew, TypeOK
<1> QED
  BY <1>2, <1>3

(* Turning to other steps keeps the types of the local variables.           *)
LEMMA ProceedTypes ==
  ASSUME TypeOK, NEW s \in Seq(Step), Proceed(s)
  PROVE  /\ todo' \in Seq(Step) /\ phase' = "loop" /\ elapsed' \in 0..MaxElapsed
         /\ rest' \in Nat /\ last' \in BOOLEAN /\ seen' \subseteq Value \cup Alarm
<1>1. /\ todo' = s /\ phase' = "loop" /\ elapsed' = 0 /\ rest' = 0 /\ last' = FALSE
      /\ seen' = {}
  BY DEF Proceed
<1>2. elapsed' \in 0..MaxElapsed
  BY <1>1, ConstantsAssumption
<1>3. seen' \subseteq Value \cup Alarm
  BY <1>1, Zenon
<1> QED
  BY <1>1, <1>2, <1>3

(* The first step is a step.                                                *)
LEMMA FirstType ==
  ASSUME TypeOK, todo # << >>
  PROVE  First \in Step /\ Tail(todo) \in Seq(Step)
  BY HeadTailProperties DEF TypeOK, First

(* What ending a step or raising leave of the types of the call.            *)
CallTypes ==
  /\ todo' \in Seq(Step) /\ phase' = "loop" /\ elapsed' \in 0..MaxElapsed
  /\ rest' \in Nat /\ last' \in BOOLEAN /\ seen' \subseteq Value \cup Alarm
  /\ errors' \in BOOLEAN /\ pending' \in Exception \cup {"none"}
  /\ outcome' \in Exception \cup {"returned", "running"} /\ raised' \in BOOLEAN

(* A step that ends normally.                                               *)
LEMMA AdvanceTypes ==
  ASSUME TypeOK, todo # << >>, Advance
  PROVE  CallTypes
<1>1. Proceed(Tail(todo)) /\ Tail(todo) \in Seq(Step)
  BY FirstType DEF Advance
<1>2. /\ errors' \in BOOLEAN /\ pending' \in Exception \cup {"none"}
      /\ outcome' \in Exception \cup {"returned", "running"} /\ raised' \in BOOLEAN
  BY DEF Advance, TypeOK
<1> QED
  BY <1>1, <1>2, ProceedTypes DEF CallTypes

(* A step that raises.                                                      *)
LEMMA RaiseTypes ==
  ASSUME TypeOK, NEW exc \in Exception, Raise(exc)
  PROVE  CallTypes
<1>1. /\ errors' \in BOOLEAN /\ pending' \in Exception \cup {"none"}
      /\ outcome' \in Exception \cup {"returned", "running"} /\ raised' \in BOOLEAN
  BY DEF Raise, TypeOK
<1>2. CASE Finallys = {}
  <2>1. << >> \in Seq(Step) /\ Proceed(<< >>)
    BY <1>2, EmptySeq DEF Raise
  <2> QED
    BY <1>1, <2>1, ProceedTypes DEF CallTypes
<1>3. CASE Finallys # {}
  <2>1. PICK i \in Finallys : Proceed(SubSeq(todo, i + 1, Len(todo)))
    BY <1>3 DEF Raise
  <2>2. todo \in Seq(Step) /\ i \in 1..Len(todo) /\ Len(todo) \in Nat
    BY <2>1, LenProperties DEF TypeOK, Finallys
  <2>3. SubSeq(todo, i + 1, Len(todo)) \in Seq(Step)
    <3>1. i + 1 \in Int /\ Len(todo) \in Int /\ \A j \in i + 1..Len(todo) : todo[j] \in Step
      BY <2>2, ElementOfSeq
    <3> QED
      BY <3>1, SubSeqProperties
  <2> QED
    BY <1>1, <2>1, <2>3, ProceedTypes DEF CallTypes
<1> QED
  BY <1>2, <1>3

---------------------------------------------------------------------------
(* Every method keeps the types.                                            *)
LEMMA CallsKeepTypes ==
  ASSUME TypeOK, NEW name \in Method, NEW steps \in Seq(Step), Call(name, steps)
  PROVE  TypeOK'
<1>1. /\ todo' \in Seq(Step) /\ phase' = "loop" /\ elapsed' \in 0..MaxElapsed
      /\ rest' \in Nat /\ last' \in BOOLEAN /\ seen' \subseteq Value \cup Alarm
  BY ProceedTypes DEF Call
<1>2. held' \in BOOLEAN /\ since' \in 0..MaxElapsed \cup {Never}
  BY <1>1, TrackTypes DEF Call
<1> QED
  BY <1>1, <1>2 DEF Call, TypeOK, object

(* Beginning a call keeps the types.                                        *)
LEMMA TestKeepsTypes == TypeOK /\ Test => TypeOK'
<1> SUFFICES ASSUME TypeOK, Test PROVE TypeOK'
  OBVIOUS
<1> USE ConstantsAssumption
<1>0. \A v \in Value, p \in Prefix \cup {"same"} : SetPvValue("SP", v, p, DefaultWait) \in Seq(Step)
  BY StepTypes, SetPvValueType
<1>1. CASE CallExists
  <2>1. PICK t \in Timeouts : Call("exists", AssertExists("exists", t))
    BY <1>1 DEF CallExists
  <2> QED
    BY <2>1, AssertExistsType, CallsKeepTypes DEF Method
<1>2. CASE CallAbsent
  <2>1. PICK t \in Timeouts : Call("absent", AssertExists("absent", t))
    BY <1>2 DEF CallAbsent
  <2> QED
    BY <2>1, AssertExistsType, CallsKeepTypes DEF Method
<1>3. CASE CallSet
  BY <1>0, <1>3, CallsKeepTypes DEF CallSet, Method
<1>4. CASE CallSetOther
  BY <1>0, <1>4, CallsKeepTypes DEF CallSetOther, Method, Prefix
<1>5. CASE CallIs
  <2>1. PICK S \in Conditions, t \in Timeouts : Call("is", AssertThatPvIs(S, t))
    BY <1>5 DEF CallIs
  <2>2. AssertThatPvIs(S, t) \in Seq(Step)
    BY WaitTypes DEF AssertThatPvIs
  <2> QED
    BY <2>1, <2>2, CallsKeepTypes DEF Method
<1>6. CASE CallIsNot
  <2>1. PICK S \in Conditions, t \in Timeouts : Call("is not", AssertThatPvIsNot(S, t))
    BY <1>6 DEF CallIsNot
  <2>2. AssertThatPvIsNot(S, t) \in Seq(Step)
    BY WaitTypes DEF AssertThatPvIsNot
  <2> QED
    BY <2>1, <2>2, CallsKeepTypes DEF Method
<1>7. CASE CallProcessed
  <2>1. PICK S \in Conditions, t \in Timeouts : Call("processed", AssertAfterProcessing(S, t))
    BY <1>7 DEF CallProcessed
  <2>2. Do("write", "SP") \in Step /\ Expect("RB", S, DefaultTimeout) \in Step
    BY StepTypes
  <2>3. AssertAfterProcessing(S, t) \in Seq(Step)
    BY <2>2, Short DEF AssertAfterProcessing
  <2> QED
    BY <2>1, <2>3, CallsKeepTypes DEF Method
<1>8. CASE CallSetpoint
  <2>1. PICK v \in Value, t \in Timeouts : Call("setpoint", AssertSettingSetpoint(v, {v}, t))
    BY <1>8 DEF CallSetpoint
  <2>2. SetPvValue("SP", v, "same", 0) \in Seq(Step)
    BY StepTypes, SetPvValueType
  <2>3. AssertThatPvIs({v}, t) \in Seq(Step) /\ AssertAlarmIs(NoAlarm, t) \in Seq(Step)
    BY WaitTypes DEF AssertThatPvIs, Alarm
  <2>4. AssertSettingSetpoint(v, {v}, t) \in Seq(Step)
    BY <2>2, <2>3, ConcatProperties DEF AssertSettingSetpoint
  <2> QED
    BY <2>1, <2>4, CallsKeepTypes DEF Method
<1>9. CASE CallOverTime
  <2>1. PICK c \in {">", "<", "=", "#"} : Call("over time", AssertOverTime(c, DefaultWait))
    BY <1>9 DEF CallOverTime
  <2>2. [Do("sample", c) EXCEPT !.limit = DefaultWait] \in Step
    BY DEF Step, Do, Op, Arg
  <2>3. AssertOverTime(c, DefaultWait) \in Seq(Step)
    BY <2>2, Short DEF AssertOverTime
  <2> QED
    BY <2>1, <2>3, CallsKeepTypes DEF Method
<1>10. CASE CallDict
  <2>1. PICK S \in Conditions : Call("dict", AssertDict(S))
    BY <1>10 DEF CallDict
  <2>2. /\ [Expect("RB", S, DefaultTimeout) EXCEPT !.soft = TRUE] \in Step
        /\ [Expect("SEVR", {NoAlarm}, DefaultTimeout) EXCEPT !.soft = TRUE] \in Step
        /\ Do("verdict", "none") \in Step
    BY DEF Step, Expect, Do, Op, Arg, Alarm
  <2>3. AssertDict(S) \in Seq(Step)
    BY <2>2, Short DEF AssertDict
  <2> QED
    BY <2>1, <2>3, CallsKeepTypes DEF Method
<1>11. CASE CallAlarm
  BY <1>11, AlarmType, CallsKeepTypes DEF CallAlarm, Method
<1>12. CASE NewObject
  BY <1>12 DEF NewObject, TypeOK, locals, Prefix
<1> QED
  BY <1>1, <1>2, <1>3, <1>4, <1>5, <1>6, <1>7, <1>8, <1>9, <1>10, <1>11, <1>12 DEF Test

(* So does every step of a method.                                          *)
LEMMA ProgramKeepsTypes == TypeOK /\ Program => TypeOK'
<1> SUFFICES ASSUME TypeOK, Program PROVE TypeOK'
  OBVIOUS
<1> USE DEF object, ending, At
<1>0. CASE /\ CallTypes /\ (Track \/ TrackNew) /\ UNCHANGED <<up, call>>
           /\ val' \in [RB : Value, SIMS : Alarm, SEVR : Alarm]
           /\ prefix' \in Prefix /\ original_prefix' \in Prefix
  <2>1. held' \in BOOLEAN /\ since' \in 0..MaxElapsed \cup {Never}
    BY <1>0, TrackTypes DEF CallTypes
  <2> QED
    BY <1>0, <2>1 DEF CallTypes, TypeOK
<1>1. CASE Poll
  <2>1. held' \in BOOLEAN /\ since' \in 0..MaxElapsed \cup {Never}
    BY <1>1, TrackTypes DEF Poll, TypeOK
  <2> QED
    BY <1>1, <2>1 DEF Poll, TypeOK
<1>2. CASE Read
  <2>1. held' \in BOOLEAN /\ since' \in 0..MaxElapsed \cup {Never}
    BY <1>2, TrackTypes DEF Read, TypeOK
  <2>2. First.arg \in {"RB", "SEVR"}
    BY <1>2, FirstType DEF Read, Step
  <2>3. val[First.arg] \in Value \cup Alarm
    BY <2>2 DEF TypeOK
  <2>4. \A v \in Readable(First.arg) : {v} \subseteq Value \cup Alarm
    BY <2>3 DEF Readable
  <2>5. seen' \subseteq Value \cup Alarm
    BY <1>2, <2>4 DEF Read
  <2> QED
    BY <1>2, <2>1, <2>5 DEF Read, TypeOK
<1>3. CASE Accept
  BY <1>0, <1>3, AdvanceTypes DEF Accept, TypeOK
<1>4. CASE TryAgain
  <2>1. held' \in BOOLEAN /\ since' \in 0..MaxElapsed \cup {Never}
    BY <1>4, TrackTypes DEF TryAgain, TypeOK
  <2> QED
    BY <1>4, <2>1 DEF TryAgain, TypeOK
<1>5. CASE GiveUp
  <2>1. CASE Raise("unreachable") \/ Raise("assertion")
    <3>1. CallTypes
      BY <2>1, RaiseTypes DEF Exception
    <3> QED
      BY <1>0, <1>5, <3>1 DEF GiveUp, TypeOK
  <2>2. CASE Proceed(Tail(todo)) /\ errors' = TRUE /\ UNCHANGED <<pending, outcome, raised>>
    <3>1. /\ errors' \in BOOLEAN /\ pending' \in Exception \cup {"none"}
          /\ outcome' \in Exception \cup {"returned", "running"} /\ raised' \in BOOLEAN
      BY <2>2 DEF TypeOK
    <3>2. CallTypes
      BY <1>5, <2>2, <3>1, ProceedTypes, FirstType DEF GiveUp, CallTypes
    <3> QED
      BY <1>0, <1>5, <3>2 DEF GiveUp, TypeOK
  <2>3. First.soft \in BOOLEAN
    BY <1>5, FirstType DEF GiveUp, Step
  <2> QED
    BY <1>5, <2>1, <2>2, <2>3 DEF GiveUp
<1>6. CASE Probe
  <2>1. held' \in BOOLEAN /\ since' \in 0..MaxElapsed \cup {Never}
    BY <1>6, TrackTypes DEF Probe, TypeOK
  <2> QED
    BY <1>6, <2>1 DEF Probe, TypeOK
<1>7. CASE Found
  <2>1. CallTypes
    BY <1>7, AdvanceTypes, RaiseTypes DEF Found, Exception
  <2> QED
    BY <1>0, <1>7, <2>1 DEF Found, TypeOK
<1>8. CASE Missed
  <2>1. CASE ~last
    <3>1. held' \in BOOLEAN /\ since' \in 0..MaxElapsed \cup {Never}
      BY <1>8, <2>1, TrackTypes DEF Missed, TypeOK
    <3> QED
      BY <1>8, <2>1, <3>1 DEF Missed, TypeOK
  <2>2. CASE last
    <3>1. CallTypes
      BY <1>8, <2>2, AdvanceTypes, RaiseTypes DEF Missed, Exception
    <3> QED
      BY <1>0, <1>8, <2>2, <3>1 DEF Missed, TypeOK
  <2> QED
    BY <2>1, <2>2
<1>9. CASE UsePrefix
  <2>1. First.arg \in Prefix \cup {"same"}
    BY <1>9, FirstType DEF UsePrefix, Step
  <2> QED
    BY <1>0, <1>9, <2>1, AdvanceTypes DEF UsePrefix, TypeOK
<1>10. CASE RestorePrefix
  BY <1>0, <1>10, AdvanceTypes DEF RestorePrefix, TypeOK
<1>11. CASE WritePv
  <2>1. CallTypes
    BY <1>11, AdvanceTypes, RaiseTypes DEF WritePv, Exception
  <2>2. First.arg = "SIMS" => (CHOOSE a \in First.good : TRUE) \in Alarm
    <3> SUFFICES ASSUME First.arg = "SIMS" PROVE (CHOOSE a \in First.good : TRUE) \in Alarm
      OBVIOUS
    <3>1. PICK a \in Alarm : First.good = {a}
      BY <1>11, FirstType DEF WritePv, Step
    <3> QED
      BY <3>1
  <2>3. val' \in [RB : Value, SIMS : Alarm, SEVR : Alarm]
    BY <1>11, <2>2 DEF WritePv, TypeOK
  <2> QED
    BY <1>0, <1>11, <2>1, <2>3 DEF WritePv, TypeOK
<1>12. CASE Sleep
  <2>1. First.limit \in Nat
    BY <1>12, FirstType DEF Sleep, Step
  <2>2. held' \in BOOLEAN /\ since' \in 0..MaxElapsed \cup {Never}
    BY <1>12, TrackTypes DEF Sleep, TypeOK
  <2> QED
    BY <1>12, <2>1, <2>2 DEF Sleep, TypeOK
<1>13. CASE Wake
  BY <1>0, <1>13, AdvanceTypes DEF Wake, TypeOK
<1>14. CASE Sample
  <2>1. CASE up[prefix]
    <3>1. PICK v \in Readable("RB") \cap Value : Proceed(Trend(First.arg, First.limit, v))
      BY <1>14, <2>1 DEF Sample
    <3>2. First.limit \in Nat
      BY <1>14, FirstType DEF Sample, Step
    <3>3. Nap(First.limit) \in Step
      BY <3>2, StepTypes
    <3>4. Expect("RB", {w \in Value : Compare(First.arg, w, v)}, DefaultTimeout) \in Step
      BY StepTypes, ConstantsAssumption
    <3>5. Trend(First.arg, First.limit, v) \in Seq(Step)
      BY <3>3, <3>4, Short DEF Trend
    <3>6. CallTypes
      BY <1>14, <2>1, <3>1, <3>5, ProceedTypes DEF Sample, CallTypes, TypeOK
    <3> QED
      BY <1>0, <1>14, <3>6 DEF Sample, TypeOK
  <2>2. CASE ~up[prefix]
    BY <1>0, <1>14, <2>2, RaiseTypes DEF Sample, Exception, TypeOK
  <2> QED
    BY <2>1, <2>2
<1>15. CASE BodyRaises
  BY <1>0, <1>15, RaiseTypes DEF BodyRaises, Exception, TypeOK
<1>16. CASE EnterFinally
  BY <1>0, <1>16, AdvanceTypes DEF EnterFinally, TypeOK
<1>17. CASE Reraise
  <2>1. pending = "none" \/ pending \in Exception
    BY DEF TypeOK
  <2>2. CallTypes
    BY <1>17, <2>1, AdvanceTypes, RaiseTypes DEF Reraise
  <2> QED
    BY <1>0, <1>17, <2>2 DEF Reraise, TypeOK
<1>18. CASE Verdict
  <2>1. CallTypes
    BY <1>18, AdvanceTypes, RaiseTypes DEF Verdict, Exception
  <2> QED
    BY <1>0, <1>18, <2>1 DEF Verdict, TypeOK
<1> QED
  BY <1>1, <1>2, <1>3, <1>4, <1>5, <1>6, <1>7, <1>8, <1>9, <1>10, <1>11, <1>12, <1>13, <1>14,
     <1>15, <1>16, <1>17, <1>18 DEF Program

(* And so do the clock and the IOCs.                                        *)
LEMMA EnvironmentKeepsTypes == TypeOK /\ (Tick \/ Iocs) => TypeOK'
<1> SUFFICES ASSUME TypeOK, Tick \/ Iocs PROVE TypeOK'
  OBVIOUS
<1> USE DEF object, ending, locals
<1>1. CASE Tick
  <2>1. elapsed' \in 0..MaxElapsed /\ rest' \in Nat
    BY <1>1, ConstantsAssumption DEF Tick, TypeOK
  <2>2. held' \in BOOLEAN /\ since' \in 0..MaxElapsed \cup {Never}
    BY <1>1, <2>1, TrackTypes DEF Tick
  <2> QED
    BY <1>1, <2>1, <2>2 DEF Tick, TypeOK
<1>2. CASE Iocs
  <2>1. Environment
    BY <1>2 DEF Iocs, ReadbackChanges, RecordScanned, Unreachable, Reachable
  <2>2. held' \in BOOLEAN /\ since' \in 0..MaxElapsed \cup {Never}
    BY <2>1, TrackTypes DEF Environment, TypeOK
  <2>3. up' \in [Prefix -> BOOLEAN]
    BY <1>2 DEF Iocs, ReadbackChanges, RecordScanned, Unreachable, Reachable, TypeOK
  <2>4. val' \in [RB : Value, SIMS : Alarm, SEVR : Alarm]
    BY <1>2 DEF Iocs, ReadbackChanges, RecordScanned, Unreachable, Reachable, TypeOK
  <2> QED
    BY <2>1, <2>2, <2>3, <2>4 DEF Environment, TypeOK
<1> QED
  BY <1>1, <1>2

(* The variables keep their types: every method the object offers is a      *)
(* sequence of steps, and what an exception skips to is one.                *)
THEOREM TypeCorrect == Spec => []TypeOK
<1>1. Init => TypeOK
  <2> SUFFICES ASSUME Init PROVE TypeOK
    OBVIOUS
  <2>1. up \in [Prefix -> BOOLEAN] /\ todo \in Seq(Step) /\ 0 \in 0..MaxElapsed
    BY EmptySeq, ConstantsAssumption DEF Init
  <2>2. val \in [RB : Value, SIMS : Alarm, SEVR : Alarm]
    BY DEF Init, Alarm
  <2>3. seen \subseteq Value \cup Alarm
    <3>1. seen = {}
      BY DEF Init
    <3> QED
      BY <3>1, Zenon
  <2> QED
    BY <2>1, <2>2, <2>3 DEF Init, TypeOK, Prefix
<1>2. TypeOK /\ [Next]_vars => TypeOK'
  <2>1. TypeOK /\ UNCHANGED vars => TypeOK'
    BY DEF TypeOK, vars, locals, object, ending
  <2> QED
    BY <2>1, TestKeepsTypes, ProgramKeepsTypes, EnvironmentKeepsTypes DEF Next
<1> QED
  BY <1>1, <1>2, PTL DEF Spec

---------------------------------------------------------------------------
(* The polling loop.                                                        *)

(* While the first step waits for a condition: the last try comes when the  *)
(* time is over; an answer that satisfies the condition was true when it    *)
(* was read, and one that does not was read after the condition ceased.     *)
LoopInv ==
  todo # << >> /\ First.op = "expect" =>
    /\ phase \in {"read", "judge"} /\ last => elapsed >= First.limit
    /\ phase = "judge" /\ Satisfied /\ prefix = "own" => held
    /\ phase = "judge" /\ ~Satisfied /\ last => since = Never \/ since >= First.limit

(* A step that has just begun satisfies it.                                 *)
LEMMA LoopBegins ==
  ASSUME NEW s, Proceed(s)
  PROVE  LoopInv'
<1>1. phase' = "loop"
  BY DEF Proceed
<1> QED
  BY <1>1 DEF LoopInv

(* Ending a step begins another.                                            *)
LEMMA EndsBegin ==
  ASSUME Advance \/ \E exc \in Exception : Raise(exc)
  PROVE  \E s : Proceed(s)
  BY DEF Advance, Raise

(* While the call waits and time passes or the IOCs move, the histories     *)
(* only forget that the condition holds, or learn when it began to.         *)
LEMMA LoopWaits ==
  ASSUME TypeOK, LoopInv, Track, UNCHANGED <<todo, phase, last, seen, prefix>>,
         elapsed' \in 0..MaxElapsed, elapsed' >= elapsed
  PROVE  LoopInv'
<1> SUFFICES ASSUME todo # << >>, First.op = "expect"
             PROVE  LoopInv'
  BY DEF LoopInv, First
<1>1. First \in Step /\ First' = First /\ First.limit \in Nat
  BY FirstType DEF First, Step
<1>2. Satisfied' = Satisfied
  BY <1>1 DEF Satisfied
<1>3. phase \in {"read", "judge"} /\ last => elapsed' >= First.limit
  BY <1>1, ConstantsAssumption DEF LoopInv, TypeOK
<1>4. phase = "judge" /\ Satisfied /\ prefix = "own" => held'
  BY DEF LoopInv, Track
<1>5. since' \in {Never, elapsed', since}
  BY DEF Track
<1>6. phase = "judge" /\ ~Satisfied /\ last => since' = Never \/ since' >= First.limit
  BY <1>3, <1>5 DEF LoopInv
<1> QED
  BY <1>1, <1>2, <1>3, <1>4, <1>6 DEF LoopInv

(* Reading: what is read is judged by the condition watched.                *)
LEMMA ReadKeepsLoop ==
  ASSUME TypeOK, LoopInv, Read
  PROVE  LoopInv'
<1> USE DEF Read, At, object
<1>1. First \in Step /\ First' = First /\ First.limit \in Nat /\ First.op = "expect"
  BY FirstType DEF First, Step
<1>2. last => elapsed >= First.limit
  BY <1>1 DEF LoopInv
<1>3. Satisfied' /\ prefix = "own" => held'
  <2> SUFFICES ASSUME Satisfied', prefix = "own" PROVE held'
    OBVIOUS
  <2>1. up[prefix] /\ seen' = {val[First.arg]}
    <3>1. CASE up[prefix]
      BY <3>1 DEF Readable
    <3>2. CASE ~up[prefix]
      BY <1>1, <3>2 DEF Satisfied
    <3> QED
      BY <3>1, <3>2
  <2>2. val[First.arg] \in First.good
    BY <1>1, <2>1 DEF Satisfied
  <2>3. Watched'
    BY <1>1, <2>1, <2>2 DEF Watched
  <2> QED
    BY <2>3 DEF Track
<1>4. ~Satisfied' => since' = Never
  <2> SUFFICES ASSUME ~Satisfied' PROVE since' = Never
    OBVIOUS
  <2>1. ~Watched'
    <3> SUFFICES ASSUME up[prefix], prefix = "own", val[First.arg] \in First.good PROVE FALSE
      BY <1>1 DEF Watched
    <3>1. seen' = {val[First.arg]}
      BY DEF Readable
    <3> QED
      BY <1>1, <3>1 DEF Satisfied
  <2> QED
    BY <2>1 DEF Track
<1> QED
  BY <1>1, <1>2, <1>3, <1>4 DEF LoopInv

(* Every step keeps it.                                                     *)
LEMMA LoopStep == TypeOK /\ LoopInv /\ [Next]_vars => LoopInv'
<1> SUFFICES ASSUME TypeOK, LoopInv, [Next]_vars PROVE LoopInv'
  OBVIOUS
<1>1. CASE Test
  <2>1. CASE NewObject
    BY <2>1 DEF NewObject, LoopInv
  <2>2. CASE \E s : Proceed(s)
    BY <2>2, LoopBegins
  <2> QED
    BY <1>1, <2>1, <2>2 DEF Test, Call, CallExists, CallAbsent, CallSet, CallSetOther, CallIs,
       CallIsNot, CallProcessed, CallSetpoint, CallOverTime, CallDict, CallAlarm
<1>2. CASE Poll
  <2>1. todo # << >> => First \in Step /\ First' = First /\ First.limit \in Nat
    BY <1>2, FirstType DEF First, Step, Poll
  <2> QED
    BY <1>2, <2>1 DEF Poll, LoopInv, At, TypeOK
<1>3. CASE Read
  BY <1>3, ReadKeepsLoop
<1>4. CASE TryAgain
  BY <1>4 DEF TryAgain, LoopInv
<1>5. CASE Probe
  BY <1>5 DEF Probe, LoopInv, At, First
<1>6. CASE Missed /\ ~last
  BY <1>6 DEF Missed, LoopInv
<1>7. CASE Sleep
  BY <1>7 DEF Sleep, LoopInv
<1>8. CASE \E s : Proceed(s)
  BY <1>8, LoopBegins
<1>9. CASE \/ Accept \/ GiveUp \/ Found \/ (Missed /\ last) \/ UsePrefix \/ RestorePrefix
           \/ WritePv \/ Wake \/ Sample \/ BodyRaises \/ EnterFinally \/ Reraise \/ Verdict
  <2>1. pending = "none" \/ pending \in Exception
    BY DEF TypeOK
  <2>2. {"assertion", "unreachable", "body"} = Exception
    BY DEF Exception
  <2>3. \E s : Proceed(s)
    BY <1>9, <2>1, <2>2, EndsBegin DEF Accept, GiveUp, Found, Missed, UsePrefix, RestorePrefix,
       WritePv, Wake, Sample, BodyRaises, EnterFinally, Reraise, Verdict
  <2> QED
    BY <1>8, <2>3
<1>10. CASE Tick
  BY <1>10, LoopWaits, ConstantsAssumption DEF Tick, object, TypeOK
<1>11. CASE Iocs
  <2>1. Environment
    BY <1>11 DEF Iocs, ReadbackChanges, RecordScanned, Unreachable, Reachable
  <2> QED
    BY <2>1, LoopWaits, ConstantsAssumption DEF Environment, object, locals, TypeOK
<1>12. CASE UNCHANGED vars
  BY <1>12 DEF vars, locals, object, LoopInv, First, Satisfied
<1> QED
  BY <1>1, <1>2, <1>3, <1>4, <1>5, <1>6, <1>7, <1>9, <1>10, <1>11, <1>12 DEF Next, Program

(* The invariant of the loop, and what it says of the answers.              *)
LEMMA LoopCorrect == Spec => []LoopInv
<1>1. Init => LoopInv
  BY DEF Init, LoopInv
<1> QED
  BY <1>1, LoopStep, TypeCorrect, PTL DEF Spec

(* An assertion that passes was true of the PV at a moment of its wait, for *)
(* every condition, timeout and behaviour of the PV.                        *)
THEOREM PassedMeansHeld == Spec => []PassedHeld
<1>1. LoopInv => PassedHeld
  BY DEF LoopInv, PassedHeld, At
<1> QED
  BY <1>1, LoopCorrect, PTL

(* An assertion that gives up was not true of the PV from before its        *)
(* timeout on.                                                              *)
THEOREM GivenUpMeansUnmet == Spec => []GivesUpLate
<1>1. LoopInv => GivesUpLate
  BY DEF LoopInv, GivesUpLate, At
<1> QED
  BY <1>1, LoopCorrect, PTL

---------------------------------------------------------------------------
(* What the steps of a call do to its prefix, to the record in simulated    *)
(* alarm, and to the steps that follow.                                     *)

(* The first step is done; only a write changes a PV of the record.         *)
Passes ==
  /\ todo # << >> /\ First.op \notin {"use", "restore", "sample"}
  /\ todo' = Tail(todo) /\ UNCHANGED <<object, call, raised>>
  /\ val' = IF First.op = "write" /\ First.arg = "SIMS" /\ prefix = "own"
              THEN [val EXCEPT !.SIMS = CHOOSE a \in First.good : TRUE] ELSE val

(* An exception leaves the first step; only a body raises one of its own.   *)
Fails ==
  /\ todo # << >> /\ UNCHANGED <<val, object, call>>
  /\ \E exc \in Exception : Raise(exc) /\ (exc = "body" => First.op \in {"body", "reraise"})

(* The call goes on with its first step, or there is no call.               *)
Still == UNCHANGED <<object, call, todo, outcome, raised>> /\ val'.SIMS = val.SIMS

(* Every step of the program is one of these, or changes the prefix.        *)
LEMMA ProgramCases ==
  ASSUME TypeOK, Program
  PROVE  Passes \/ Fails \/ Still \/ UsePrefix \/ RestorePrefix \/ Sample
<1> USE DEF At, object, ending
<1>1. CASE Poll \/ Read \/ TryAgain \/ Probe \/ Sleep
  BY <1>1 DEF Poll, Read, TryAgain, Probe, Sleep, Still
<1>2. CASE Accept \/ Wake \/ EnterFinally
  BY <1>2 DEF Accept, Wake, EnterFinally, Advance, Proceed, Passes
<1>3. CASE GiveUp
  <2>1. First.soft \in BOOLEAN
    BY <1>3, FirstType DEF GiveUp, Step
  <2>2. CASE Raise("unreachable") \/ Raise("assertion")
    BY <1>3, <2>2 DEF GiveUp, Fails, Exception
  <2>3. CASE Proceed(Tail(todo)) /\ UNCHANGED <<pending, outcome, raised>>
    BY <1>3, <2>3 DEF GiveUp, Proceed, Passes
  <2> QED
    BY <1>3, <2>1, <2>2, <2>3 DEF GiveUp
<1>4. CASE Found \/ Missed
  BY <1>4 DEF Found, Missed, Advance, Proceed, Passes, Fails, Still, Exception
<1>5. CASE WritePv
  <2>1. CASE up[prefix]
    BY <1>5, <2>1 DEF WritePv, Advance, Proceed, Passes
  <2>2. CASE ~up[prefix]
    BY <1>5, <2>2 DEF WritePv, Fails, Exception
  <2> QED
    BY <2>1, <2>2
<1>6. CASE BodyRaises
  BY <1>6 DEF BodyRaises, Fails, Exception
<1>7. CASE Reraise
  <2>1. CASE pending = "none"
    BY <1>7, <2>1 DEF Reraise, Advance, Proceed, Passes
  <2>2. CASE pending # "none"
    BY <1>7, <2>2 DEF Reraise, Fails, TypeOK
  <2> QED
    BY <2>1, <2>2
<1>8. CASE Verdict
  <2>1. CASE errors
    BY <1>8, <2>1 DEF Verdict, Fails, Exception
  <2>2. CASE ~errors
    BY <1>8, <2>2 DEF Verdict, Advance, Proceed, Passes
  <2> QED
    BY <2>1, <2>2
<1> QED
  BY <1>1, <1>2, <1>3, <1>4, <1>5, <1>6, <1>7, <1>8 DEF Program

(* The clock and the IOCs do not touch a call.                              *)
LEMMA OutsideIsStill ==
  ASSUME TypeOK, Tick \/ Iocs \/ UNCHANGED vars
  PROVE  Still
<1>1. CASE Tick \/ UNCHANGED vars
  BY <1>1 DEF Tick, vars, object, ending, Still
<1>2. CASE Iocs
  BY <1>2 DEF Iocs, ReadbackChanges, RecordScanned, Unreachable, Reachable, Environment, ending, Still, TypeOK
<1> QED
  BY <1>1, <1>2

---------------------------------------------------------------------------
(* The methods give back the prefix they use.                               *)

(* A use of a prefix is followed by its restoring, before another is used.  *)
Bracketed(s) ==
  \A i \in 1..Len(s) : s[i].op = "use" =>
    \E j \in 1..Len(s) : i < j /\ s[j].op = "restore" /\ \A k \in 1..Len(s) : i < k /\ k < j => s[k].op # "use"

(* What Sample replaces the steps of is a method of its own.                *)
Alone(s) == \A i \in 1..Len(s) : s[i].op = "sample" => Len(s) = 1

(* Neither matters to a sequence of other steps.                            *)
Plain(s) == \A i \in 1..Len(s) : s[i].op \notin {"use", "sample"}
(* A sequence of other steps satisfies both.                                *)
LEMMA PlainSteps ==
  ASSUME NEW s, Plain(s)
  PROVE  Bracketed(s) /\ Alone(s)
  BY DEF Plain, Bracketed, Alone

(* The first steps and those after them, one by one.                        *)
LEMMA Joined ==
  ASSUME NEW s \in Seq(Step), NEW t \in Seq(Step)
  PROVE  /\ s \o t \in Seq(Step) /\ Len(s \o t) = Len(s) + Len(t) /\ Len(s) \in Nat /\ Len(t) \in Nat
         /\ \A i \in 1..Len(s) : (s \o t)[i] = s[i]
         /\ \A i \in 1..Len(t) : (s \o t)[Len(s) + i] = t[i]
  BY ConcatProperties

(* Where the parentheses are does not matter.                               *)
LEMMA JoinedThrice ==
  ASSUME NEW s \in Seq(Step), NEW t \in Seq(Step), NEW u \in Seq(Step)
  PROVE  (s \o t) \o u = s \o (t \o u)
  BY ConcatAssociative

(* One bracketed sequence after another is one.                             *)
LEMMA BracketedJoined ==
  ASSUME NEW s \in Seq(Step), NEW t \in Seq(Step), Bracketed(s), Bracketed(t)
  PROVE  Bracketed(s \o t)
<1> DEFINE u == s \o t
<1>1. /\ Len(u) = Len(s) + Len(t) /\ Len(s) \in Nat /\ Len(t) \in Nat
      /\ \A i \in 1..Len(s) : u[i] = s[i]
      /\ \A i \in 1..Len(t) : u[Len(s) + i] = t[i]
  BY Joined
<1> HIDE DEF u
<1> SUFFICES ASSUME NEW i \in 1..Len(u), u[i].op = "use"
             PROVE  \E j \in 1..Len(u) : i < j /\ u[j].op = "restore"
                      /\ \A k \in 1..Len(u) : i < k /\ k < j => u[k].op # "use"
  BY DEF Bracketed, u
<1>2. CASE i \in 1..Len(s)
  <2>1. PICK j \in 1..Len(s) : i < j /\ s[j].op = "restore" /\ \A k \in 1..Len(s) : i < k /\ k < j => s[k].op # "use"
    BY <1>1, <1>2 DEF Bracketed
  <2>2. j \in 1..Len(u) /\ i < j /\ u[j].op = "restore"
    BY <1>1, <2>1
  <2>3. \A k \in 1..Len(u) : i < k /\ k < j => k \in 1..Len(s)
    BY <1>1, <2>1
  <2> QED
    BY <1>1, <2>1, <2>2, <2>3
<1>3. CASE i \notin 1..Len(s)
  <2> DEFINE n == i - Len(s)
  <2>1. n \in 1..Len(t) /\ i = Len(s) + n /\ t[n].op = "use"
    <3>1. n \in 1..Len(t) /\ i = Len(s) + n
      BY <1>1, <1>3
    <3> HIDE DEF n
    <3> QED
      BY <1>1, <3>1
  <2>2. PICK j \in 1..Len(t) : n < j /\ t[j].op = "restore" /\ \A k \in 1..Len(t) : n < k /\ k < j => t[k].op # "use"
    <3> HIDE DEF n
    <3> QED
      BY <2>1 DEF Bracketed
  <2>3. Len(s) + j \in 1..Len(u) /\ i < Len(s) + j /\ u[Len(s) + j].op = "restore"
    BY <1>1, <2>1, <2>2
  <2>4. ASSUME NEW k \in 1..Len(u), i < k, k < Len(s) + j PROVE u[k].op # "use"
    <3>1. k - Len(s) \in 1..Len(t) /\ n < k - Len(s) /\ k - Len(s) < j /\ k = Len(s) + (k - Len(s))
      BY <1>1, <2>1, <2>2, <2>4
    <3> QED
      BY <1>1, <2>2, <3>1
  <2> QED
    BY <2>3, <2>4
<1> QED
  BY <1>2, <1>3

(* Five steps, put together as set_pv_value does.                           *)
LEMMA Five ==
  ASSUME NEW a \in Step, NEW b \in Step, NEW c \in Step, NEW d \in Step, NEW e \in Step
  PROVE  LET s == << a >> \o << b >> \o << c, d, e >> IN
         Len(s) = 5 /\ s[1] = a /\ s[2] = b /\ s[3] = c /\ s[4] = d /\ s[5] = e
<1>1. << a >> \in Seq(Step) /\ << b >> \in Seq(Step) /\ << c, d, e >> \in Seq(Step)
  BY Short
<1>2. /\ << a >> \o << b >> \in Seq(Step) /\ Len(<< a >> \o << b >>) = 2
      /\ (<< a >> \o << b >>)[1] = a /\ (<< a >> \o << b >>)[2] = b
  BY <1>1, ConcatProperties
<1>3. PICK q \in Seq(Step) : q = << a >> \o << b >>
  BY <1>2
<1>4. PICK t \in Seq(Step) : t = << c, d, e >>
  BY <1>1
<1>5. t[1] = c /\ t[2] = d /\ t[3] = e /\ Len(t) = 3
  BY <1>4
<1>6. Len(q) = 2 /\ q[1] = a /\ q[2] = b
  BY <1>2, <1>3
<1> DEFINE u == q \o t
<1>7. /\ Len(u) = Len(q) + Len(t)
      /\ \A i \in 1..Len(q) : u[i] = q[i]
      /\ \A i \in 1..Len(t) : u[Len(q) + i] = t[i]
  BY Joined
<1> HIDE DEF u
<1>8. Len(u) = 5 /\ u[1] = a /\ u[2] = b
  BY <1>5, <1>6, <1>7
<1>9. u[2 + 1] = c /\ u[2 + 2] = d /\ u[2 + 3] = e
  BY <1>5, <1>6, <1>7
<1>10. u[3] = c /\ u[4] = d /\ u[5] = e
  BY <1>9
<1> QED
  BY <1>3, <1>4, <1>8, <1>10 DEF u

(* set_pv_value, step by step.                                              *)
LEMMA SetPvValueSteps ==
  ASSUME NEW pv, NEW v, Write(pv, v) \in Step, NEW p \in Prefix \cup {"same"}, NEW wait \in Nat
  PROVE  LET s == SetPvValue(pv, v, p, wait) IN
         /\ Len(s) = 5 /\ s[1] = Do("use", p) /\ s[2].op = "exists" /\ s[3] = Write(pv, v)
         /\ s[4] = Do("restore", "none") /\ s[5].op = "nap"
         /\ Bracketed(s) /\ \A i \in 1..5 : s[i].op \notin {"sample", "finally"}
<1> DEFINE e == [Do("exists", "none") EXCEPT !.limit = DefaultTimeout]
<1>1. /\ Do("use", p).op = "use" /\ e.op = "exists" /\ Write(pv, v).op = "write"
      /\ Do("restore", "none").op = "restore" /\ Nap(wait).op = "nap"
  BY DEF Do, Write, Nap
<1>2. /\ Do("use", p) \in Step /\ Write(pv, v) \in Step /\ Do("restore", "none") \in Step /\ Nap(wait) \in Step
      /\ e \in Step
  <2>1. e \in Step
    BY ConstantsAssumption DEF Step, Do, Op, Arg
  <2> QED
    BY <2>1, StepTypes DEF Op, Arg
<1>3. SetPvValue(pv, v, p, wait)
        = << Do("use", p) >> \o << e >> \o << Write(pv, v), Do("restore", "none"), Nap(wait) >>
  BY DEF SetPvValue, AssertExists
<1>4. PICK a1 \in Step : a1 = Do("use", p) /\ a1.op = "use"
  BY <1>1, <1>2
<1>5. PICK a2 \in Step : a2 = e /\ a2.op = "exists"
  BY <1>1, <1>2
<1>6. PICK a3 \in Step : a3 = Write(pv, v) /\ a3.op = "write"
  BY <1>1, <1>2
<1>7. PICK a4 \in Step : a4 = Do("restore", "none") /\ a4.op = "restore"
  BY <1>1, <1>2
<1>8. PICK a5 \in Step : a5 = Nap(wait) /\ a5.op = "nap"
  BY <1>1, <1>2
<1>9. PICK s : s = SetPvValue(pv, v, p, wait) /\ s = << a1 >> \o << a2 >> \o << a3, a4, a5 >>
  BY <1>3, <1>4, <1>5, <1>6, <1>7, <1>8
<1> HIDE DEF e
<1>10. Len(s) = 5 /\ s[1] = a1 /\ s[2] = a2 /\ s[3] = a3 /\ s[4] = a4 /\ s[5] = a5
  BY <1>9, Five
<1>11. \A i \in 1..5 : s[i].op \notin {"sample", "finally"} /\ (i # 1 => s[i].op # "use")
  <2>1. \A i \in 1..5 : i = 1 \/ i = 2 \/ i = 3 \/ i = 4 \/ i = 5
    OBVIOUS
  <2> QED
    BY <1>4, <1>5, <1>6, <1>7, <1>8, <1>10, <2>1
<1>12. Bracketed(s)
  <2> SUFFICES ASSUME NEW i \in 1..Len(s), s[i].op = "use"
               PROVE  \E j \in 1..Len(s) : i < j /\ s[j].op = "restore"
                        /\ \A k \in 1..Len(s) : i < k /\ k < j => s[k].op # "use"
    BY DEF Bracketed
  <2>1. i = 1
    BY <1>10, <1>11
  <2>2. 4 \in 1..Len(s) /\ i < 4 /\ s[4].op = "restore"
    <3>1. 4 \in 1..Len(s) /\ i < 4
      BY ONLY <1>10, <2>1
    <3>2. s[4].op = "restore"
      BY ONLY <1>7, <1>10
    <3> QED
      BY <3>1, <3>2
  <2>3. \A k \in 1..Len(s) : i < k /\ k < 4 => s[k].op # "use"
    BY <1>10, <1>11, <2>1
  <2> QED
    BY <2>2, <2>3
<1> QED
  BY <1>4, <1>5, <1>6, <1>7, <1>8, <1>9, <1>10, <1>11, <1>12

(* One step, and the steps that have no argument.                           *)
LEMMA OneStep ==
  ASSUME NEW x \in Step
  PROVE  << x >> \in Seq(Step) /\ Len(<< x >>) = 1 /\ << x >>[1] = x
  OBVIOUS

(* A step without an argument.                                              *)
LEMMA SimpleStep ==
  ASSUME NEW op \in Op \ {"use", "write", "expect"}
  PROVE  \E x \in Step : x = Do(op, "none") /\ x.op = op
<1>1. Do(op, "none") \in Step
  BY StepTypes DEF Arg
<1>2. Do(op, "none").op = op
  BY DEF Do
<1> QED
  BY <1>1, <1>2

(* A step that waits for a value, in either form.                           *)
LEMMA ExpectStep ==
  ASSUME NEW pv \in {"RB", "SEVR"}, NEW S \in SUBSET (Value \cup Alarm), NEW t \in Nat
  PROVE  /\ \E x \in Step : x = Expect(pv, S, t) /\ x.op = "expect"
         /\ \E x \in Step : x = [Expect(pv, S, t) EXCEPT !.soft = TRUE] /\ x.op = "expect"
<1>1. Expect(pv, S, t) \in Step
  BY StepTypes
<1>2. Expect(pv, S, t).op = "expect"
  BY DEF Expect, Do
<1>3. [Expect(pv, S, t) EXCEPT !.soft = TRUE] \in Step
  BY <1>1, <1>2 DEF Step
<1>4. [Expect(pv, S, t) EXCEPT !.soft = TRUE].op = "expect"
  BY <1>1, <1>2 DEF Step
<1> QED
  BY <1>1, <1>2, <1>3, <1>4

(* What a context does when it is left, in seven steps: the last steps of   *)
(* put_simulated_record_into_alarm.                                         *)
Cleanup == SetAndCheckAlarm(NoAlarm) \o << Do("reraise", "none") >>

(* Setting a simulated alarm, step by step.                                 *)
LEMMA SetAlarmSteps ==
  ASSUME NEW a \in Alarm
  PROVE  \E s \in Seq(Step) :
         /\ s = SetAndCheckAlarm(a) /\ Len(s) = 6 /\ Bracketed(s)
         /\ s[1] = Do("use", "same") /\ s[2].op = "exists" /\ s[3] = Write("SIMS", a)
         /\ s[4].op = "restore" /\ s[5].op = "nap" /\ s[6].op = "expect"
<1>1. PICK q : q = SetPvValue("SIMS", a, "same", DefaultWait)
  OBVIOUS
<1>2. PICK x \in Step : x = Expect("SEVR", {a}, DefaultTimeout) /\ x.op = "expect"
  <2>1. Expect("SEVR", {a}, DefaultTimeout) \in Step
    BY StepTypes, ConstantsAssumption
  <2>2. Expect("SEVR", {a}, DefaultTimeout).op = "expect"
    BY DEF Expect, Do
  <2> QED
    BY <2>1, <2>2
<1>3. Write("SIMS", a) \in Step /\ "same" \in Prefix \cup {"same"} /\ DefaultWait \in Nat
  BY StepTypes, ConstantsAssumption
<1>4. q \in Seq(Step)
  BY <1>1, <1>3, SetPvValueType
<1>5. /\ Len(q) = 5 /\ q[1] = Do("use", "same") /\ q[2].op = "exists" /\ q[3] = Write("SIMS", a)
      /\ q[4] = Do("restore", "none") /\ q[5].op = "nap" /\ Bracketed(q)
  BY <1>1, <1>3, SetPvValueSteps
<1>6. Do("restore", "none").op = "restore"
  BY DEF Do
<1>7. PICK t \in Seq(Step) : t = << x >> /\ Len(t) = 1 /\ t[1] = x
  BY OneStep
<1>8. Bracketed(t)
  BY <1>2, <1>7 DEF Bracketed
<1>9. PICK s : s = q \o t
  OBVIOUS
<1>10. /\ s \in Seq(Step) /\ Len(s) = Len(q) + Len(t)
       /\ \A i \in 1..Len(q) : s[i] = q[i]
       /\ \A i \in 1..Len(t) : s[Len(q) + i] = t[i]
  BY <1>4, <1>9, Joined
<1>11. Bracketed(s)
  BY <1>4, <1>5, <1>8, <1>9, BracketedJoined
<1>12. Len(s) = 6 /\ (\A i \in 1..5 : s[i] = q[i]) /\ s[5 + 1] = x
  BY ONLY <1>5, <1>7, <1>10
<1>13. s[1] = q[1] /\ s[2] = q[2] /\ s[3] = q[3] /\ s[4] = q[4] /\ s[5] = q[5] /\ s[6] = x
  BY ONLY <1>12
<1>14. s = SetAndCheckAlarm(a)
  BY <1>1, <1>2, <1>7, <1>9 DEF SetAndCheckAlarm, AssertAlarmIs
<1> QED
  BY ONLY <1>2, <1>5, <1>6, <1>10, <1>11, <1>12, <1>13, <1>14

(* The steps of Cleanup.                                                    *)
LEMMA CleanupSteps ==
  /\ Cleanup \in Seq(Step) /\ Len(Cleanup) = 7 /\ Bracketed(Cleanup)
  /\ Cleanup[1].op = "use" /\ Cleanup[1].arg = "same" /\ Cleanup[2].op = "exists"
  /\ Cleanup[3].op = "write" /\ Cleanup[3].arg = "SIMS" /\ Cleanup[3].good = {NoAlarm}
  /\ Cleanup[4].op = "restore" /\ Cleanup[5].op = "nap" /\ Cleanup[6].op = "expect"
  /\ Cleanup[7].op = "reraise"
<1>1. NoAlarm \in Alarm
  BY DEF Alarm
<1>2. PICK q \in Seq(Step) :
         /\ q = SetAndCheckAlarm(NoAlarm) /\ Len(q) = 6 /\ Bracketed(q)
         /\ q[1] = Do("use", "same") /\ q[2].op = "exists" /\ q[3] = Write("SIMS", NoAlarm)
         /\ q[4].op = "restore" /\ q[5].op = "nap" /\ q[6].op = "expect"
  BY <1>1, SetAlarmSteps
<1>3. PICK x \in Step : x = Do("reraise", "none") /\ x.op = "reraise"
  BY SimpleStep DEF Op
<1>4. PICK t \in Seq(Step) : t = << x >> /\ Len(t) = 1 /\ t[1] = x
  BY OneStep
<1>5. Bracketed(t)
  BY <1>3, <1>4 DEF Bracketed
<1>6. PICK s : s = q \o t
  OBVIOUS
<1>7. /\ s \in Seq(Step) /\ Len(s) = Len(q) + Len(t)
      /\ \A i \in 1..Len(q) : s[i] = q[i]
      /\ \A i \in 1..Len(t) : s[Len(q) + i] = t[i]
  BY <1>6, Joined
<1>8. Bracketed(s)
  BY <1>2, <1>5, <1>6, BracketedJoined
<1>9. Len(s) = 7 /\ (\A i \in 1..6 : s[i] = q[i]) /\ s[6 + 1] = x
  BY ONLY <1>2, <1>4, <1>7
<1>10. s[1] = q[1] /\ s[2] = q[2] /\ s[3] = q[3] /\ s[4] = q[4] /\ s[5] = q[5] /\ s[6] = q[6] /\ s[7] = x
  BY ONLY <1>9
<1>11. /\ Do("use", "same").op = "use" /\ Do("use", "same").arg = "same"
       /\ Write("SIMS", NoAlarm).op = "write" /\ Write("SIMS", NoAlarm).arg = "SIMS"
       /\ Write("SIMS", NoAlarm).good = {NoAlarm}
  BY DEF Do, Write
<1>12. s = Cleanup
  BY <1>2, <1>3, <1>4, <1>6 DEF Cleanup
<1>13. /\ s[1].op = "use" /\ s[1].arg = "same" /\ s[2].op = "exists"
       /\ s[3].op = "write" /\ s[3].arg = "SIMS" /\ s[3].good = {NoAlarm}
  BY ONLY <1>2, <1>10, <1>11
<1>14. s[4].op = "restore" /\ s[5].op = "nap" /\ s[6].op = "expect" /\ s[7].op = "reraise"
  BY ONLY <1>2, <1>3, <1>10
<1>15. s \in Seq(Step) /\ Len(s) = 7 /\ Bracketed(s)
  BY ONLY <1>7, <1>8, <1>9
<1> QED
  BY ONLY <1>12, <1>13, <1>14, <1>15

(* A context that is left ends with Cleanup, behind its only finally.       *)
Guarded(s) ==
  \E i \in 1..Len(s) :
    /\ Len(s) = i + 7 /\ s[i].op = "finally"
    /\ \A k \in 1..7 : s[i + k] = Cleanup[k]
    /\ \A k \in 1..(i - 1) : s[k].op # "finally"

(* Steps that neither sample nor end a try.                                 *)
Inner(s) == \A k \in 1..Len(s) : s[k].op \notin {"finally", "sample"}

(* Two such sequences make one.                                             *)
LEMMA InnerJoined ==
  ASSUME NEW s \in Seq(Step), NEW t \in Seq(Step), Inner(s), Inner(t)
  PROVE  Inner(s \o t)
<1>1. PICK u : u = s \o t
  OBVIOUS
<1>2. /\ Len(u) = Len(s) + Len(t) /\ Len(s) \in Nat /\ Len(t) \in Nat
      /\ \A i \in 1..Len(s) : u[i] = s[i]
      /\ \A i \in 1..Len(t) : u[Len(s) + i] = t[i]
  BY <1>1, Joined
<1>3. SUFFICES ASSUME NEW k \in 1..Len(u) PROVE u[k].op \notin {"finally", "sample"}
  BY <1>1 DEF Inner
<1>4. CASE k \in 1..Len(s)
  BY <1>2, <1>4 DEF Inner
<1>5. CASE k \notin 1..Len(s)
  <2>1. PICK j \in 1..Len(t) : k = Len(s) + j
    <3>1. k - Len(s) \in 1..Len(t) /\ k = Len(s) + (k - Len(s))
      BY ONLY <1>2, <1>3, <1>5
    <3> QED
      BY <3>1
  <2>2. u[k] = t[j]
    BY <1>2, <2>1
  <2> QED
    BY <2>2 DEF Inner
<1> QED
  BY <1>4, <1>5

(* The bodies of the contexts are such sequences.                           *)
LEMMA BodySteps ==
  ASSUME NEW body \in Bodies
  PROVE  body \in Seq(Step) /\ Bracketed(body) /\ Inner(body)
<1>1. CASE body = << >>
  BY <1>1, EmptySeq DEF Bracketed, Inner
<1>2. CASE body = << Do("body", "none") >>
  <2>1. PICK x \in Step : x = Do("body", "none") /\ x.op = "body"
    BY SimpleStep DEF Op
  <2>2. PICK t \in Seq(Step) : t = << x >> /\ Len(t) = 1 /\ t[1] = x
    BY OneStep
  <2>3. Bracketed(t) /\ Inner(t)
    BY <2>1, <2>2 DEF Bracketed, Inner
  <2>4. body = t
    BY <1>2, <2>1, <2>2
  <2> QED
    BY <2>3, <2>4
<1>3. ASSUME NEW v \in Value, body = SetPvValue("SP", v, "other", DefaultWait)
      PROVE  body \in Seq(Step) /\ Bracketed(body) /\ Inner(body)
  <2>1. Write("SP", v) \in Step /\ "other" \in Prefix \cup {"same"} /\ DefaultWait \in Nat
    BY StepTypes, ConstantsAssumption DEF Prefix
  <2>2. body \in Seq(Step)
    BY <1>3, <2>1, SetPvValueType
  <2>3. /\ Len(body) = 5 /\ Bracketed(body)
        /\ \A i \in 1..5 : body[i].op \notin {"sample", "finally"}
    BY <1>3, <2>1, SetPvValueSteps
  <2> QED
    BY <2>2, <2>3 DEF Inner
<1> QED
  BY <1>1, <1>2, <1>3 DEF Bodies

(* A context is its set-up, its body and its finally, and then Cleanup.     *)
LEMMA EndsWithCleanup ==
  ASSUME NEW body, NEW f \in Seq(Step),
         f = SetAndCheckAlarm(InAlarm) \o body \o << Do("finally", "none") >>
  PROVE  PutIntoAlarm(body) = f \o Cleanup
<1>1. PICK x \in Step : x = Do("reraise", "none")
  BY SimpleStep DEF Op
<1>2. NoAlarm \in Alarm
  BY DEF Alarm
<1>3. SetAndCheckAlarm(NoAlarm) \in Seq(Step)
  BY <1>2, SetAlarmSteps
<1>4. << Do("reraise", "none") >> \in Seq(Step)
  BY <1>1, OneStep
<1>5. (f \o SetAndCheckAlarm(NoAlarm)) \o << Do("reraise", "none") >>
        = f \o (SetAndCheckAlarm(NoAlarm) \o << Do("reraise", "none") >>)
  BY ONLY <1>3, <1>4, f \in Seq(Step), JoinedThrice
<1> QED
  BY <1>5 DEF PutIntoAlarm, Cleanup

(* put_simulated_record_into_alarm gives back its prefix, samples nothing,  *)
(* and ends with its clean-up.                                              *)
LEMMA PutIntoAlarmSteps ==
  ASSUME NEW body \in Bodies
  PROVE  /\ Bracketed(PutIntoAlarm(body)) /\ Guarded(PutIntoAlarm(body)) /\ Alone(PutIntoAlarm(body))
<1>1. PICK q \in Seq(Step) : q = SetAndCheckAlarm(InAlarm) /\ Bracketed(q) /\ Inner(q)
  <2>1. InAlarm \in Alarm
    BY DEF Alarm
  <2>2. PICK q \in Seq(Step) :
         /\ q = SetAndCheckAlarm(InAlarm) /\ Len(q) = 6 /\ Bracketed(q)
         /\ q[1] = Do("use", "same") /\ q[2].op = "exists" /\ q[3] = Write("SIMS", InAlarm)
         /\ q[4].op = "restore" /\ q[5].op = "nap" /\ q[6].op = "expect"
    BY <2>1, SetAlarmSteps
  <2>3. q[1].op = "use" /\ q[3].op = "write"
    BY <2>2 DEF Do, Write
  <2>4. \A k \in 1..6 : k = 1 \/ k = 2 \/ k = 3 \/ k = 4 \/ k = 5 \/ k = 6
    OBVIOUS
  <2>5. Inner(q)
    BY <2>2, <2>3, <2>4 DEF Inner
  <2> QED
    BY <2>2, <2>5
<1>2. body \in Seq(Step) /\ Bracketed(body) /\ Inner(body)
  BY BodySteps
<1>3. PICK x \in Step : x = Do("finally", "none") /\ x.op = "finally"
  BY SimpleStep DEF Op
<1>4. PICK t \in Seq(Step) : t = << x >> /\ Len(t) = 1 /\ t[1] = x
  BY OneStep
<1>8. PICK c \in Seq(Step) : c = Cleanup
  BY CleanupSteps
<1>9. PICK d \in Seq(Step) : d = q \o body /\ Bracketed(d) /\ Inner(d)
  <2>1. q \o body \in Seq(Step)
    BY <1>2, Joined
  <2> QED
    BY <1>1, <1>2, <2>1, BracketedJoined, InnerJoined
<1>10. PICK f \in Seq(Step) : f = d \o t /\ Bracketed(f)
  <2>1. d \o t \in Seq(Step)
    BY Joined
  <2>2. Bracketed(t)
    BY <1>3, <1>4 DEF Bracketed
  <2> QED
    BY <1>9, <2>1, <2>2, BracketedJoined
<1>11. /\ Len(d) \in Nat /\ Len(f) = Len(d) + Len(t)
       /\ \A i \in 1..Len(d) : f[i] = d[i]
       /\ \A i \in 1..Len(t) : f[Len(d) + i] = t[i]
  BY <1>10, Joined
<1>12. PICK s \in Seq(Step) : s = f \o c /\ Bracketed(s)
  <2>1. f \o c \in Seq(Step)
    BY Joined
  <2>2. Bracketed(c)
    BY <1>8, CleanupSteps
  <2> QED
    BY <1>10, <2>1, <2>2, BracketedJoined
<1>13. /\ Len(s) = Len(f) + Len(c) /\ Len(f) \in Nat
       /\ \A i \in 1..Len(f) : s[i] = f[i]
       /\ \A i \in 1..Len(c) : s[Len(f) + i] = c[i]
  BY <1>12, Joined
<1>14. Len(c) = 7
  BY <1>8, CleanupSteps
<1>15. PICK i \in Nat : i = Len(f) /\ i = Len(d) + 1
  <2>1. Len(f) = Len(d) + 1 /\ Len(f) \in Nat
    BY ONLY <1>4, <1>11, <1>13
  <2> QED
    BY ONLY <2>1
<1>16. /\ i \in 1..Len(s) /\ Len(s) = i + 7
       /\ \A k \in 1..7 : s[i + k] = c[k]
  <2>1. i \in 1..Len(s) /\ Len(s) = i + 7
    <3>1. Len(s) = Len(f) + 7 /\ Len(d) \in Nat
      BY ONLY <1>11, <1>13, <1>14
    <3>2. \A m \in Nat : m + 1 \in 1..(m + 1 + 7)
      OBVIOUS
    <3> QED
      BY ONLY <1>15, <3>1, <3>2
  <2>2. \A k \in 1..7 : s[i + k] = c[k]
    BY ONLY <1>13, <1>14, <1>15
  <2> QED
    BY <2>1, <2>2
<1>17. \A k \in 1..(i - 1) : s[k] = d[k] /\ k \in 1..Len(d)
  BY ONLY <1>11, <1>13, <1>15
<1>18. s[i].op = "finally"
  <2>1. s[i] = f[i] /\ f[i] = t[1]
    BY ONLY <1>4, <1>11, <1>13, <1>15
  <2> QED
    BY <1>3, <1>4, <2>1
<1>19. Guarded(s)
  <2>1. \A k \in 1..7 : s[i + k] = Cleanup[k]
    BY <1>8, <1>16
  <2>2. \A k \in 1..(i - 1) : s[k].op # "finally"
    BY <1>9, <1>17 DEF Inner
  <2> QED
    BY <1>16, <1>18, <2>1, <2>2, Zenon DEF Guarded
<1>20. Alone(s)
  <2> SUFFICES ASSUME NEW k \in 1..Len(s) PROVE s[k].op # "sample"
    BY DEF Alone
  <2>1. CASE k \in 1..(i - 1)
    BY <1>9, <1>17, <2>1 DEF Inner
  <2>2. CASE k = i
    BY <1>18, <2>2
  <2>3. CASE k \notin 1..i
    <3>1. PICK j \in 1..7 : k = i + j
      <4>1. k \in 1..(i + 7) /\ i \in Nat
        BY ONLY <1>15, <1>16, k \in 1..Len(s)
      <4>2. k - i \in 1..7 /\ k = i + (k - i)
        BY ONLY <2>3, <4>1
      <4> QED
        BY <4>2
    <3>2. s[k] = Cleanup[j]
      BY <1>8, <1>16, <3>1
    <3>3. j = 1 \/ j = 2 \/ j = 3 \/ j = 4 \/ j = 5 \/ j = 6 \/ j = 7
      OBVIOUS
    <3> QED
      BY <3>2, <3>3, CleanupSteps
  <2>4. k \in 1..(i - 1) \/ k = i \/ k \notin 1..i
    BY ONLY <1>15, <1>16
  <2> QED
    BY <2>1, <2>2, <2>3, <2>4
<1>21. s = PutIntoAlarm(body)
  <2>1. f = SetAndCheckAlarm(InAlarm) \o body \o << Do("finally", "none") >>
    BY <1>1, <1>3, <1>4, <1>9, <1>10
  <2>2. PutIntoAlarm(body) = f \o Cleanup
    BY <2>1, EndsWithCleanup
  <2> QED
    BY <1>8, <1>12, <2>2
<1> QED
  BY <1>12, <1>19, <1>20, <1>21

(* A method of a few steps that use no prefix.                              *)
LEMMA FewSteps ==
  /\ \A x \in Step : x.op # "use" => Bracketed(<< x >>) /\ Alone(<< x >>)
  /\ \A x \in Step : x.op \notin {"finally", "sample"} => Inner(<< x >>)
  /\ \A x, y \in Step : x.op \notin {"use", "sample"} /\ y.op \notin {"use", "sample"}
       => Bracketed(<< x, y >>) /\ Alone(<< x, y >>)
  /\ \A x, y, z \in Step :
       x.op \notin {"use", "sample"} /\ y.op \notin {"use", "sample"} /\ z.op \notin {"use", "sample"}
         => Bracketed(<< x, y, z >>) /\ Alone(<< x, y, z >>)
<1>1. ASSUME NEW x \in Step, x.op # "use"
      PROVE  Bracketed(<< x >>) /\ Alone(<< x >>)
  <2>1. PICK s : s = << x >> /\ Len(s) = 1 /\ s[1] = x
    BY OneStep
  <2>2. Bracketed(s) /\ Alone(s)
    BY <1>1, <2>1 DEF Bracketed, Alone
  <2> QED
    BY <2>1, <2>2
<1>2. ASSUME NEW x \in Step, x.op \notin {"finally", "sample"}
      PROVE  Inner(<< x >>)
  <2>1. PICK s : s = << x >> /\ Len(s) = 1 /\ s[1] = x
    BY OneStep
  <2>2. Inner(s)
    BY <1>2, <2>1 DEF Inner
  <2> QED
    BY <2>1, <2>2
<1>3. ASSUME NEW x \in Step, NEW y \in Step,
             x.op \notin {"use", "sample"}, y.op \notin {"use", "sample"}
      PROVE  Bracketed(<< x, y >>) /\ Alone(<< x, y >>)
  <2>1. PICK s : s = << x, y >> /\ Len(s) = 2 /\ s[1] = x /\ s[2] = y
    <3>1. PICK s : s = << x, y >>
      OBVIOUS
    <3>2. Len(s) = 2 /\ s[1] = x /\ s[2] = y
      BY ONLY <3>1
    <3> QED
      BY <3>1, <3>2
  <2>2. Plain(s)
    BY <1>3, <2>1 DEF Plain
  <2> QED
    BY <2>1, <2>2, PlainSteps
<1>4. ASSUME NEW x \in Step, NEW y \in Step, NEW z \in Step,
             x.op \notin {"use", "sample"}, y.op \notin {"use", "sample"}, z.op \notin {"use", "sample"}
      PROVE  Bracketed(<< x, y, z >>) /\ Alone(<< x, y, z >>)
  <2>1. PICK s : s = << x, y, z >> /\ Len(s) = 3 /\ s[1] = x /\ s[2] = y /\ s[3] = z
    <3>1. PICK s : s = << x, y, z >>
      OBVIOUS
    <3>2. Len(s) = 3 /\ s[1] = x /\ s[2] = y /\ s[3] = z
      BY ONLY <3>1
    <3> QED
      BY <3>1, <3>2
  <2>2. Plain(s)
    BY <1>4, <2>1 DEF Plain
  <2> QED
    BY <2>1, <2>2, PlainSteps
<1> QED
  BY <1>1, <1>2, <1>3, <1>4

(* set_pv_value, and assert_setting_setpoint_sets_readback.                 *)
LEMMA SettingSteps ==
  ASSUME NEW v \in Value
  PROVE  /\ \A p \in Prefix \cup {"same"} : /\ Bracketed(SetPvValue("SP", v, p, DefaultWait))
                                            /\ Alone(SetPvValue("SP", v, p, DefaultWait))
         /\ \A t \in Timeouts : /\ Bracketed(AssertSettingSetpoint(v, {v}, t))
                                /\ Alone(AssertSettingSetpoint(v, {v}, t))
<1>1. Write("SP", v) \in Step /\ DefaultWait \in Nat /\ 0 \in Nat
  BY StepTypes, ConstantsAssumption
<1>2. ASSUME NEW p \in Prefix \cup {"same"}, NEW wait \in Nat
      PROVE  /\ Bracketed(SetPvValue("SP", v, p, wait)) /\ Alone(SetPvValue("SP", v, p, wait))
             /\ Inner(SetPvValue("SP", v, p, wait)) /\ SetPvValue("SP", v, p, wait) \in Seq(Step)
  <2>1. PICK s : s = SetPvValue("SP", v, p, wait)
    OBVIOUS
  <2>2. Len(s) = 5 /\ Bracketed(s) /\ \A i \in 1..5 : s[i].op \notin {"sample", "finally"}
    BY <1>1, <2>1, SetPvValueSteps
  <2>3. Inner(s) /\ Alone(s)
    BY <2>2 DEF Inner, Alone
  <2>4. s \in Seq(Step)
    BY <1>1, <2>1, SetPvValueType
  <2> QED
    BY <2>1, <2>2, <2>3, <2>4
<1>3. ASSUME NEW t \in Timeouts
      PROVE  Bracketed(AssertSettingSetpoint(v, {v}, t)) /\ Alone(AssertSettingSetpoint(v, {v}, t))
  <2>1. t \in Nat /\ v \in Value \cup Alarm /\ NoAlarm \in Value \cup Alarm
    BY ConstantsAssumption DEF Alarm
  <2>2. PICK x \in Step : x = Expect("RB", {v}, t) /\ x.op = "expect"
    BY <2>1, ExpectStep
  <2>3. PICK y \in Step : y = Expect("SEVR", {NoAlarm}, t) /\ y.op = "expect"
    BY <2>1, ExpectStep
  <2>4. PICK a \in Seq(Step) : a = << x >> /\ Bracketed(a) /\ Inner(a)
    BY <2>2, OneStep, FewSteps
  <2>5. PICK b \in Seq(Step) : b = << y >> /\ Bracketed(b) /\ Inner(b)
    BY <2>3, OneStep, FewSteps
  <2>6. PICK q \in Seq(Step) : q = SetPvValue("SP", v, "same", 0) /\ Bracketed(q) /\ Inner(q)
    BY <1>1, <1>2
  <2>7. PICK d \in Seq(Step) : d = q \o a /\ Bracketed(d) /\ Inner(d)
    <3>1. q \o a \in Seq(Step)
      BY Joined
    <3> QED
      BY <2>4, <2>6, <3>1, BracketedJoined, InnerJoined
  <2>8. PICK s : s = d \o b /\ Bracketed(s) /\ Inner(s)
    <3>1. d \o b \in Seq(Step)
      BY Joined
    <3> QED
      BY <2>5, <2>7, <3>1, BracketedJoined, InnerJoined
  <2>9. s = AssertSettingSetpoint(v, {v}, t)
    <3>1. AssertThatPvIs({v}, t) = a
      BY <2>2, <2>4 DEF AssertThatPvIs
    <3>2. AssertAlarmIs(NoAlarm, t) = b
      BY <2>3, <2>5 DEF AssertAlarmIs
    <3> QED
      BY <2>6, <2>7, <2>8, <3>1, <3>2, Zenon DEF AssertSettingSetpoint
  <2>10. Alone(s)
    BY <2>8 DEF Alone, Inner
  <2> QED
    BY <2>8, <2>9, <2>10
<1> QED
  BY <1>1, <1>2, <1>3

(* Every method that a test calls gives back the prefix it uses.            *)
LEMMA TestSteps ==
  ASSUME Test
  PROVE  \/ NewObject
         \/ \E name, s :
              Call(name, s) /\ Bracketed(s) /\ Alone(s) /\ (name = "alarm" => Guarded(s))
<1> USE ConstantsAssumption
<1>1. CASE CallExists \/ CallAbsent
  <2>1. PICK op \in {"exists", "absent"}, t \in Timeouts : Call(op, AssertExists(op, t))
    BY <1>1 DEF CallExists, CallAbsent
  <2>2. PICK x \in Step : x = [Do(op, "none") EXCEPT !.limit = t] /\ x.op = op
    <3>1. [Do(op, "none") EXCEPT !.limit = t] \in Step
      BY DEF Step, Do, Op, Arg
    <3>2. [Do(op, "none") EXCEPT !.limit = t].op = op
      BY DEF Do
    <3> QED
      BY <3>1, <3>2
  <2>3. Bracketed(<< x >>) /\ Alone(<< x >>)
    BY <2>2, FewSteps
  <2> QED
    BY <2>1, <2>2, <2>3 DEF AssertExists
<1>2. CASE CallSet \/ CallSetOther
  <2>1. PICK name \in {"set", "set other"}, p \in Prefix \cup {"same"}, v \in Value :
          Call(name, SetPvValue("SP", v, p, DefaultWait))
    BY <1>2 DEF CallSet, CallSetOther, Prefix
  <2> QED
    BY <2>1, SettingSteps
<1>3. CASE CallIs \/ CallIsNot
  <2>1. PICK name \in {"is", "is not"}, S \in SUBSET Value, t \in Nat :
          Call(name, << Expect("RB", S, t) >>)
    <3>1. CASE CallIs
      BY <3>1 DEF CallIs, AssertThatPvIs
    <3>2. CASE CallIsNot
      BY <3>2 DEF CallIsNot, AssertThatPvIsNot
    <3> QED
      BY <1>3, <3>1, <3>2
  <2>2. PICK x \in Step : x = Expect("RB", S, t) /\ x.op = "expect"
    BY ExpectStep
  <2>3. Bracketed(<< x >>) /\ Alone(<< x >>)
    BY <2>2, FewSteps
  <2> QED
    BY <2>1, <2>2, <2>3
<1>4. CASE CallProcessed
  <2>1. PICK S \in Conditions, t \in Timeouts : Call("processed", AssertAfterProcessing(S, t))
    BY <1>4 DEF CallProcessed
  <2>2. PICK x \in Step : x = Do("write", "SP") /\ x.op = "write"
    BY StepTypes DEF Do
  <2>3. PICK y \in Step : y = Expect("RB", S, DefaultTimeout) /\ y.op = "expect"
    BY ExpectStep
  <2>4. Bracketed(<< x, y >>) /\ Alone(<< x, y >>)
    BY <2>2, <2>3, FewSteps
  <2> QED
    BY <2>1, <2>2, <2>3, <2>4 DEF AssertAfterProcessing
<1>5. CASE CallSetpoint
  <2>1. PICK v \in Value, t \in Timeouts : Call("setpoint", AssertSettingSetpoint(v, {v}, t))
    BY <1>5 DEF CallSetpoint
  <2> QED
    BY <2>1, SettingSteps
<1>6. CASE CallOverTime
  <2>1. PICK c \in {">", "<", "=", "#"} : Call("over time", AssertOverTime(c, DefaultWait))
    BY <1>6 DEF CallOverTime
  <2>2. PICK x \in Step : x = [Do("sample", c) EXCEPT !.limit = DefaultWait] /\ x.op = "sample"
    <3>1. [Do("sample", c) EXCEPT !.limit = DefaultWait] \in Step
      BY DEF Step, Do, Op, Arg
    <3>2. [Do("sample", c) EXCEPT !.limit = DefaultWait].op = "sample"
      BY DEF Do
    <3> QED
      BY <3>1, <3>2
  <2>3. Bracketed(<< x >>) /\ Alone(<< x >>)
    BY <2>2, FewSteps
  <2>4. AssertOverTime(c, DefaultWait) = << x >>
    BY <2>2 DEF AssertOverTime
  <2>5. Call("over time", << x >>)
    BY <2>1, <2>4
  <2>6. "over time" # "alarm"
    OBVIOUS
  <2> QED
    BY ONLY <2>3, <2>5, <2>6
<1>7. CASE CallDict
  <2>1. PICK S \in Conditions : Call("dict", AssertDict(S))
    BY <1>7 DEF CallDict
  <2>2. PICK x \in Step : x = [Expect("RB", S, DefaultTimeout) EXCEPT !.soft = TRUE] /\ x.op = "expect"
    BY ExpectStep
  <2>3. PICK y \in Step : y = [Expect("SEVR", {NoAlarm}, DefaultTimeout) EXCEPT !.soft = TRUE] /\ y.op = "expect"
    BY ExpectStep DEF Alarm
  <2>4. PICK z \in Step : z = Do("verdict", "none") /\ z.op = "verdict"
    BY SimpleStep DEF Op
  <2>5. Bracketed(<< x, y, z >>) /\ Alone(<< x, y, z >>)
    BY <2>2, <2>3, <2>4, FewSteps
  <2> QED
    BY <2>1, <2>2, <2>3, <2>4, <2>5 DEF AssertDict
<1>8. CASE CallAlarm
  <2>1. PICK body \in Bodies : Call("alarm", PutIntoAlarm(body))
    BY <1>8 DEF CallAlarm
  <2> QED
    BY <2>1, PutIntoAlarmSteps
<1> QED
  BY <1>1, <1>2, <1>3, <1>4, <1>5, <1>6, <1>7, <1>8 DEF Test

---------------------------------------------------------------------------
(* Between the calls the prefix is the object's own, until one raises.      *)

(* A prefix is given back before another is used.                           *)
Restores(s) ==
  \E j \in 1..Len(s) : s[j].op = "restore" /\ \A k \in 1..Len(s) : k < j => s[k].op # "use"

(* A prefix that is not the object's own is about to be given back, and so  *)
(* is every one that the steps to come will use.                            *)
RestoreInv ==
  /\ Alone(todo)
  /\ ~raised => /\ Bracketed(todo) /\ original_prefix = "own"
                /\ prefix = "own" \/ Restores(todo)

(* When the first step is done, the others are as they were; behind a use   *)
(* the prefix is restored.                                                  *)
LEMMA WithoutFirst ==
  ASSUME NEW s \in Seq(Step), s # << >>
  PROVE  /\ Alone(s) => Alone(Tail(s))
         /\ Bracketed(s) => Bracketed(Tail(s))
         /\ Restores(s) /\ Head(s).op # "restore" => Head(s).op # "use" /\ Restores(Tail(s))
         /\ Bracketed(s) /\ Head(s).op = "use" => Restores(Tail(s))
<1>1. PICK t : t = Tail(s)
  OBVIOUS
<1>2. /\ Len(s) \in Nat \ {0} /\ Head(s) = s[1] /\ t \in Seq(Step) /\ Len(t) = Len(s) - 1
      /\ \A i \in 1..Len(s) - 1 : t[i] = s[i + 1]
  BY <1>1, TailFacts
<1>3. \A i \in 1..Len(t) : i + 1 \in 1..Len(s) /\ t[i] = s[i + 1]
  BY ONLY <1>2
<1>4. \A j \in 1..Len(s) : j # 1 => j - 1 \in 1..Len(t) /\ t[j - 1] = s[j]
  <2> SUFFICES ASSUME NEW j \in 1..Len(s), j # 1 PROVE j - 1 \in 1..Len(t) /\ t[j - 1] = s[j]
    OBVIOUS
  <2>1. j - 1 \in 1..Len(t) /\ (j - 1) + 1 = j
    BY ONLY <1>2, j \in 1..Len(s), j # 1
  <2> QED
    BY <1>3, <2>1
<1>5. ASSUME Alone(s) PROVE Alone(t)
  <2> SUFFICES ASSUME NEW i \in 1..Len(t), t[i].op = "sample" PROVE FALSE
    BY DEF Alone
  <2>1. i + 1 \in 1..Len(s) /\ s[i + 1].op = "sample"
    BY <1>3
  <2>2. Len(s) = 1
    BY <1>5, <2>1 DEF Alone
  <2> QED
    BY ONLY <1>2, <2>2, i \in 1..Len(t)
<1>6. ASSUME NEW i \in 1..Len(s), NEW j \in 1..Len(s), i < j, s[j].op = "restore",
             \A k \in 1..Len(s) : i < k /\ k < j => s[k].op # "use"
      PROVE  /\ j - 1 \in 1..Len(t) /\ t[j - 1].op = "restore"
             /\ \A k \in 1..Len(t) : i - 1 < k /\ k < j - 1 => t[k].op # "use"
  <2>1. j # 1
    BY ONLY <1>2, <1>6
  <2>2. ASSUME NEW k \in 1..Len(t), i - 1 < k, k < j - 1 PROVE t[k].op # "use"
    <3>1. k + 1 \in 1..Len(s) /\ t[k] = s[k + 1]
      BY <1>3
    <3>2. i < k + 1 /\ k + 1 < j
      BY ONLY <1>2, <2>2, i \in 1..Len(s), j \in 1..Len(s)
    <3> QED
      BY <1>6, <3>1, <3>2
  <2> QED
    BY <1>4, <1>6, <2>1, <2>2
<1>7. ASSUME Bracketed(s) PROVE Bracketed(t)
  <2> SUFFICES ASSUME NEW n \in 1..Len(t), t[n].op = "use"
               PROVE  \E j \in 1..Len(t) : n < j /\ t[j].op = "restore"
                        /\ \A k \in 1..Len(t) : n < k /\ k < j => t[k].op # "use"
    BY DEF Bracketed
  <2>1. PICK i \in 1..Len(s) : i = n + 1 /\ t[n] = s[i]
    BY <1>3
  <2>2. PICK j \in 1..Len(s) : i < j /\ s[j].op = "restore" /\ \A k \in 1..Len(s) : i < k /\ k < j => s[k].op # "use"
    BY <1>7, <2>1 DEF Bracketed
  <2>3. PICK m : m = j - 1
    OBVIOUS
  <2>4. /\ m \in 1..Len(t) /\ t[m].op = "restore"
        /\ \A k \in 1..Len(t) : i - 1 < k /\ k < m => t[k].op # "use"
    BY <1>6, <2>2, <2>3
  <2>5. n < m /\ i - 1 = n
    BY ONLY <1>2, <2>1, <2>2, <2>3, n \in 1..Len(t)
  <2> QED
    BY <2>4, <2>5
<1>8. ASSUME Restores(s), Head(s).op # "restore" PROVE Head(s).op # "use" /\ Restores(t)
  <2>1. PICK j \in 1..Len(s) : s[j].op = "restore" /\ \A k \in 1..Len(s) : k < j => s[k].op # "use"
    BY <1>8 DEF Restores
  <2>2. j # 1 /\ 1 \in 1..Len(s) /\ 1 < j
    <3>1. j # 1
      BY <1>2, <1>8, <2>1
    <3> QED
      BY ONLY <1>2, <3>1, j \in 1..Len(s)
  <2>3. s[1].op # "use"
    BY <2>1, <2>2
  <2>4. PICK m : m = j - 1
    OBVIOUS
  <2>5. m \in 1..Len(t) /\ t[m].op = "restore"
    BY <1>4, <2>1, <2>2, <2>4
  <2>6. ASSUME NEW k \in 1..Len(t), k < m PROVE t[k].op # "use"
    <3>1. k + 1 \in 1..Len(s) /\ t[k] = s[k + 1]
      BY <1>3
    <3>2. k + 1 < j
      BY ONLY <1>2, <2>4, <2>6, j \in 1..Len(s)
    <3> QED
      BY <2>1, <3>1, <3>2
  <2>7. Restores(t)
    BY <2>5, <2>6 DEF Restores
  <2> QED
    BY <1>2, <2>3, <2>7
<1>9. ASSUME Bracketed(s), Head(s).op = "use" PROVE Restores(t)
  <2>1. PICK i \in 1..Len(s) : i = 1 /\ s[i].op = "use"
    BY <1>2, <1>9
  <2>2. PICK j \in 1..Len(s) : i < j /\ s[j].op = "restore" /\ \A k \in 1..Len(s) : i < k /\ k < j => s[k].op # "use"
    BY <1>9, <2>1 DEF Bracketed
  <2>3. PICK m : m = j - 1
    OBVIOUS
  <2>4. /\ m \in 1..Len(t) /\ t[m].op = "restore"
        /\ \A k \in 1..Len(t) : i - 1 < k /\ k < m => t[k].op # "use"
    BY <1>6, <2>2, <2>3
  <2>5. \A k \in 1..Len(t) : i - 1 < k
    BY ONLY <2>1
  <2> QED
    BY <2>4, <2>5 DEF Restores
<1> QED
  BY <1>1, <1>5, <1>7, <1>8, <1>9

(* What is behind a finally, when an exception goes there.                  *)
LEMMA BehindFinally ==
  ASSUME NEW s \in Seq(Step), NEW i \in 1..Len(s)
  PROVE  /\ SubSeq(s, i + 1, Len(s)) \in Seq(Step)
         /\ Len(SubSeq(s, i + 1, Len(s))) = Len(s) - i
         /\ \A k \in 1..Len(s) - i : SubSeq(s, i + 1, Len(s))[k] = s[i + k]
<1>1. PICK m \in Int, n \in Int : m = i + 1 /\ n = Len(s) /\ m \in 1..n + 1 /\ n \in Nat
  OBVIOUS
<1>2. SubSeq(s, m, n) \in Seq(Step)
  BY <1>1, SubSeqProperties
<1>3. Len(SubSeq(s, m, n)) = n - m + 1
  BY <1>1, SubSeqProperties
<1>4. \A k \in 1..n - m + 1 : SubSeq(s, m, n)[k] = s[m + k - 1]
  BY <1>1, SubSeqProperties
<1>5. n - m + 1 = n - i
  BY ONLY <1>1, i \in 1..Len(s)
<1>6. \A k \in 1..n - i : m + k - 1 = i + k
  BY ONLY <1>1, i \in 1..Len(s)
<1> QED
  BY <1>1, <1>2, <1>3, <1>4, <1>5, <1>6

(* An exception leaves no steps, or those behind a finally.                 *)
LEMMA RaisedSteps ==
  ASSUME TypeOK, NEW exc, Raise(exc)
  PROVE  /\ raised' = TRUE
         /\ \/ Finallys = {} /\ todo' = << >> /\ outcome' = exc
            \/ \E i \in Finallys : /\ todo' = SubSeq(todo, i + 1, Len(todo)) /\ outcome' = outcome
                                   /\ i \in 1..Len(todo) /\ todo[i].op = "finally"
<1>1. CASE Finallys = {}
  BY <1>1 DEF Raise, Proceed
<1>2. CASE Finallys # {}
  <2>1. PICK i \in Finallys : Proceed(SubSeq(todo, i + 1, Len(todo)))
    BY <1>2 DEF Raise
  <2>2. i \in 1..Len(todo) /\ todo[i].op = "finally"
    BY DEF Finallys, TypeOK
  <2> QED
    BY <1>2, <2>1, <2>2 DEF Raise, Proceed
<1> QED
  BY <1>1, <1>2

(* They are alone if all were.                                              *)
LEMMA RaisedAlone ==
  ASSUME TypeOK, NEW exc, Raise(exc), Alone(todo)
  PROVE  Alone(todo')
<1>1. CASE todo' = << >>
  BY <1>1 DEF Alone
<1>2. ASSUME NEW i \in 1..Len(todo), todo' = SubSeq(todo, i + 1, Len(todo))
      PROVE  Alone(todo')
  <2>1. PICK s \in Seq(Step) : s = todo
    BY DEF TypeOK
  <2>2. PICK t : t = SubSeq(s, i + 1, Len(s))
    OBVIOUS
  <2>3. Len(s) \in Nat /\ Len(t) = Len(s) - i /\ \A k \in 1..Len(s) - i : t[k] = s[i + k]
    BY <2>1, <2>2, BehindFinally
  <2>4. ASSUME NEW k \in 1..Len(t), t[k].op = "sample" PROVE FALSE
    <3>1. k \in 1..Len(s) - i /\ i + k \in 1..Len(s) /\ i + k > 1
      BY ONLY <2>1, <2>3, i \in 1..Len(todo), k \in 1..Len(t)
    <3>2. s[i + k].op = "sample"
      BY <2>3, <2>4, <3>1
    <3>3. Len(s) = 1
      BY <2>1, <3>1, <3>2 DEF Alone
    <3> QED
      BY ONLY <3>1, <3>3
  <2>5. Alone(t)
    BY <2>4 DEF Alone
  <2>6. todo' = t
    BY <1>2, <2>1, <2>2
  <2> QED
    BY <2>5, <2>6 DEF Alone
<1> QED
  BY <1>1, <1>2, RaisedSteps

(* Every step keeps the invariant.                                          *)
LEMMA RestoreStep ==
  ASSUME TypeOK, RestoreInv, [Next]_vars
  PROVE  RestoreInv'
<1>1. todo \in Seq(Step)
  BY DEF TypeOK
<1>2. ASSUME Still PROVE RestoreInv'
  BY <1>2 DEF Still, object, RestoreInv, Alone, Bracketed, Restores
<1>3. ASSUME Passes PROVE RestoreInv'
  <2>1. PICK t : t = Tail(todo) /\ todo' = t
    BY <1>3 DEF Passes
  <2>2. First.op # "restore"
    BY <1>3 DEF Passes
  <2>3. Alone(t) /\ (~raised => Bracketed(t) /\ (Restores(todo) => Restores(t)))
    BY <1>1, <1>3, <2>1, <2>2, WithoutFirst DEF Passes, First, RestoreInv
  <2>4. UNCHANGED <<prefix, original_prefix, raised>>
    BY <1>3 DEF Passes, object
  <2> QED
    BY <2>1, <2>3, <2>4 DEF RestoreInv
<1>4. ASSUME Fails PROVE RestoreInv'
  <2>1. PICK exc \in Exception : Raise(exc)
    BY <1>4 DEF Fails
  <2>2. Alone(todo') /\ raised' = TRUE
    BY <2>1, RaisedAlone, RaisedSteps DEF RestoreInv
  <2> QED
    BY <2>2 DEF RestoreInv
<1>5. ASSUME UsePrefix PROVE RestoreInv'
  <2>1. PICK t : t = Tail(todo) /\ todo' = t
    BY <1>5 DEF UsePrefix, Advance, Proceed
  <2>2. First.op = "use" /\ todo # << >> /\ original_prefix' = prefix /\ raised' = raised
    BY <1>5 DEF UsePrefix, At, Advance
  <2>3. Alone(t)
    BY <1>1, <2>1, <2>2, WithoutFirst DEF RestoreInv
  <2>4. ASSUME ~raised PROVE Bracketed(t) /\ Restores(t) /\ prefix = "own"
    <3>1. ~Restores(todo)
      BY <1>1, <2>2, WithoutFirst DEF First
    <3> QED
      BY <1>1, <2>1, <2>2, <2>4, <3>1, WithoutFirst DEF First, RestoreInv
  <2> QED
    BY <2>1, <2>2, <2>3, <2>4 DEF RestoreInv
<1>6. ASSUME RestorePrefix PROVE RestoreInv'
  <2>1. PICK t : t = Tail(todo) /\ todo' = t
    BY <1>6 DEF RestorePrefix, Advance, Proceed
  <2>2. /\ todo # << >> /\ prefix' = original_prefix /\ original_prefix' = original_prefix
        /\ raised' = raised
    BY <1>6 DEF RestorePrefix, At, Advance
  <2>3. Alone(t) /\ (~raised => Bracketed(t) /\ original_prefix = "own")
    BY <1>1, <2>1, <2>2, WithoutFirst DEF RestoreInv
  <2> QED
    BY <2>1, <2>2, <2>3 DEF RestoreInv
<1>7. ASSUME Sample PROVE RestoreInv'
  <2>1. CASE up[prefix]
    <3>1. PICK v \in Readable("RB") \cap Value : Proceed(Trend(First.arg, First.limit, v)) /\ UNCHANGED raised
      BY <1>7, <2>1 DEF Sample, ending
    <3>2. First.limit \in Nat /\ First.op = "sample" /\ todo # << >>
      BY <1>7, FirstType DEF Sample, At, Step
    <3>3. PICK x \in Step : x = Nap(First.limit) /\ x.op = "nap"
      BY <3>2, StepTypes DEF Nap, Do
    <3>4. PICK S \in SUBSET Value : S = {w \in Value : Compare(First.arg, w, v)}
      OBVIOUS
    <3>5. PICK y \in Step : y = Expect("RB", S, DefaultTimeout) /\ y.op = "expect"
      BY ExpectStep, ConstantsAssumption
    <3>6. Bracketed(<< x, y >>) /\ Alone(<< x, y >>)
      BY <3>3, <3>5, FewSteps
    <3>7. todo' = << x, y >>
      BY <3>1, <3>3, <3>4, <3>5 DEF Proceed, Trend
    <3>8. prefix' = prefix /\ original_prefix' = original_prefix /\ raised' = raised
      BY <1>7, <3>1 DEF Sample, object
    <3>9. ~Restores(todo)
      <4>1. Len(todo) \in Nat \ {0} /\ First = todo[1]
        BY <1>1, <3>2, TailFacts DEF First
      <4>2. 1 \in 1..Len(todo) /\ todo[1].op = "sample"
        BY <3>2, <4>1
      <4>3. Len(todo) = 1
        BY <4>2 DEF RestoreInv, Alone
      <4> QED
        BY <4>2, <4>3 DEF Restores
    <3> QED
      BY <3>6, <3>7, <3>8, <3>9 DEF RestoreInv
  <2>2. CASE ~up[prefix]
    <3>1. Raise("unreachable")
      BY <1>7, <2>2 DEF Sample
    <3>2. Alone(todo') /\ raised' = TRUE
      BY <3>1, RaisedAlone, RaisedSteps DEF RestoreInv
    <3> QED
      BY <3>2 DEF RestoreInv
  <2> QED
    BY <2>1, <2>2
<1>8. ASSUME Test PROVE RestoreInv'
  <2>1. CASE NewObject
    <3>1. todo' = << >> /\ prefix' = "own" /\ original_prefix' = "own"
      BY <2>1 DEF NewObject
    <3> QED
      BY <3>1 DEF RestoreInv, Alone, Bracketed
  <2>2. ASSUME NEW name, NEW s, Call(name, s), Bracketed(s), Alone(s)
        PROVE  RestoreInv'
    <3>1. todo = << >> /\ todo' = s /\ UNCHANGED <<prefix, original_prefix, raised>>
      BY <2>2 DEF Call, Proceed, object
    <3>2. ~Restores(todo)
      BY <3>1 DEF Restores
    <3> QED
      BY <2>2, <3>1, <3>2 DEF RestoreInv
  <2> QED
    BY <1>8, <2>1, <2>2, TestSteps
<1>9. \/ Test \/ Passes \/ Fails \/ Still \/ UsePrefix \/ RestorePrefix \/ Sample
  BY ProgramCases, OutsideIsStill DEF Next
<1> QED
  BY <1>2, <1>3, <1>4, <1>5, <1>6, <1>7, <1>8, <1>9

(* After a call the object has its own prefix, unless a call has raised:    *)
(* set_pv_value gives back the prefix it uses.                              *)
THEOREM PrefixComesBack == Spec => []PrefixKept
<1>1. Init => RestoreInv
  BY DEF Init, RestoreInv, Alone, Bracketed
<1>2. TypeOK /\ RestoreInv /\ [Next]_vars => RestoreInv'
  BY RestoreStep
<1>3. RestoreInv => PrefixKept
  BY DEF RestoreInv, PrefixKept, Restores
<1> QED
  BY <1>1, <1>2, <1>3, TypeCorrect, PTL DEF Spec

---------------------------------------------------------------------------
(* The record is taken out of simulated alarm.                              *)

(* The last steps of a clean-up.                                            *)
Cleaning(s) == Len(s) \in 0..7 /\ \A k \in 1..Len(s) : s[k] = Cleanup[k + 7 - Len(s)]

(* The record that the object writes to is not in alarm.                    *)
NotLeft == prefix = "own" => val.SIMS = NoAlarm

(* A context has its clean-up before it, or is in it: then the prefix it    *)
(* uses for it is the one it gives back, and behind the write the record is *)
(* not in alarm.                                                            *)
CleanInv ==
  call = "alarm" =>
    \/ Guarded(todo)
    \/ /\ Cleaning(todo)
       /\ Len(todo) \in 4..6 => original_prefix = prefix
       /\ Len(todo) \in 1..4 => NotLeft
       /\ Len(todo) = 0 /\ outcome \in {"returned", "body"} => NotLeft

(* What the first step of a clean-up is, and what is behind it.             *)
LEMMA CleaningSteps ==
  ASSUME NEW s \in Seq(Step), s # << >>, Cleaning(s)
  PROVE  /\ Len(s) \in 1..7 /\ Head(s) = Cleanup[8 - Len(s)]
         /\ Cleaning(Tail(s)) /\ Len(Tail(s)) = Len(s) - 1
         /\ Head(s).op \notin {"sample", "body", "finally"}
         /\ Head(s).op = "use" <=> Len(s) = 7
         /\ Len(s) = 7 => Head(s).arg = "same"
         /\ Head(s).op = "restore" <=> Len(s) = 4
         /\ Head(s).op = "reraise" <=> Len(s) = 1
         /\ Head(s).op = "write" <=> Len(s) = 5
         /\ Len(s) = 5 => Head(s).arg = "SIMS" /\ Head(s).good = {NoAlarm}
         /\ \A k \in 1..Len(s) : s[k].op # "finally"
<1>1. PICK t : t = Tail(s)
  OBVIOUS
<1>2. /\ Len(s) \in Nat \ {0} /\ Head(s) = s[1] /\ t \in Seq(Step) /\ Len(t) = Len(s) - 1
      /\ \A i \in 1..Len(s) - 1 : t[i] = s[i + 1]
  BY <1>1, TailFacts
<1>3. Len(s) \in 1..7 /\ \A k \in 1..Len(s) : s[k] = Cleanup[k + 7 - Len(s)]
  <2>1. Len(s) \in 0..7 /\ \A k \in 1..Len(s) : s[k] = Cleanup[k + 7 - Len(s)]
    BY DEF Cleaning
  <2>2. Len(s) \in 1..7
    <3>1. Len(s) \in Nat \ {0} /\ Len(s) \in 0..7
      BY ONLY <1>2, <2>1
    <3> QED
      BY ONLY <3>1
  <2> QED
    BY <2>1, <2>2
<1>4. PICK n \in 1..7 : n = Len(s)
  BY <1>3
<1>5. Head(s) = Cleanup[8 - n]
  <2>1. 1 \in 1..n /\ 1 + 7 - n = 8 - n
    BY ONLY n \in 1..7
  <2> QED
    BY <1>2, <1>3, <1>4, <2>1
<1>6. Cleaning(t)
  <2>1. Len(t) \in 0..7 /\ Len(t) = n - 1
    <3>1. Len(t) = n - 1
      BY ONLY <1>2, <1>4
    <3> QED
      BY ONLY <3>1, n \in 1..7
  <2>2. ASSUME NEW k \in 1..Len(t) PROVE t[k] = Cleanup[k + 7 - Len(t)]
    <3>1. k + 1 \in 1..n /\ k \in 1..n - 1 /\ (k + 1) + 7 - n = k + 7 - Len(t)
      BY ONLY <2>1, <2>2, n \in 1..7
    <3>2. t[k] = s[k + 1]
      BY ONLY <1>2, <1>4, <3>1
    <3>3. s[k + 1] = Cleanup[(k + 1) + 7 - n]
      BY ONLY <1>3, <1>4, <3>1
    <3> QED
      BY <3>1, <3>2, <3>3
  <2> QED
    BY <2>1, <2>2 DEF Cleaning
<1>7. PICK h : h = Head(s)
  OBVIOUS
<1>8. /\ n = 7 => h.op = "use" /\ h.arg = "same"
      /\ n = 6 => h.op = "exists"
      /\ n = 5 => h.op = "write" /\ h.arg = "SIMS" /\ h.good = {NoAlarm}
      /\ n = 4 => h.op = "restore"
      /\ n = 3 => h.op = "nap"
      /\ n = 2 => h.op = "expect"
      /\ n = 1 => h.op = "reraise"
  <2>1. /\ 8 - 7 = 1 /\ 8 - 6 = 2 /\ 8 - 5 = 3 /\ 8 - 4 = 4 /\ 8 - 3 = 5 /\ 8 - 2 = 6 /\ 8 - 1 = 7
    OBVIOUS
  <2> QED
    BY <1>5, <1>7, <2>1, CleanupSteps
<1>9. n = 1 \/ n = 2 \/ n = 3 \/ n = 4 \/ n = 5 \/ n = 6 \/ n = 7
  OBVIOUS
<1>10. /\ h.op \notin {"sample", "body", "finally"}
       /\ h.op = "use" <=> n = 7
       /\ n = 7 => h.arg = "same"
       /\ h.op = "restore" <=> n = 4
       /\ h.op = "reraise" <=> n = 1
       /\ h.op = "write" <=> n = 5
       /\ n = 5 => h.arg = "SIMS" /\ h.good = {NoAlarm}
  BY ONLY <1>8, <1>9
<1>11. ASSUME NEW k \in 1..Len(s) PROVE s[k].op # "finally"
  <2>1. PICK m \in 1..7 : m = k + 7 - n
    <3>1. k + 7 - n \in 1..7
      <4>1. n \in 1..7 /\ k \in 1..n
        BY <1>4
      <4>2. \A a \in 1..7 : \A b \in 1..a : b + 7 - a \in 1..7
        OBVIOUS
      <4> QED
        BY ONLY <4>1, <4>2
    <3> QED
      BY <3>1
  <2>2. s[k] = Cleanup[m]
    BY <1>3, <1>4, <2>1
  <2>3. m = 1 \/ m = 2 \/ m = 3 \/ m = 4 \/ m = 5 \/ m = 6 \/ m = 7
    OBVIOUS
  <2> QED
    BY <2>2, <2>3, CleanupSteps
<1> QED
  BY <1>1, <1>2, <1>4, <1>5, <1>6, <1>7, <1>10, <1>11

(* Behind the finally is the clean-up.                                      *)
LEMMA GuardedSteps ==
  ASSUME NEW s \in Seq(Step), Guarded(s)
  PROVE  /\ s # << >> /\ Len(s) > 7
         /\ \E i \in 1..Len(s) : s[i].op = "finally"
         /\ Head(s).op # "finally" => Guarded(Tail(s))
         /\ Head(s).op = "finally" => Cleaning(Tail(s)) /\ Len(Tail(s)) = 7
         /\ \A i \in 1..Len(s) : s[i].op = "finally"
              => Cleaning(SubSeq(s, i + 1, Len(s))) /\ Len(SubSeq(s, i + 1, Len(s))) = 7
<1>1. PICK i \in 1..Len(s) :
        /\ Len(s) = i + 7 /\ s[i].op = "finally"
        /\ \A k \in 1..7 : s[i + k] = Cleanup[k]
        /\ \A k \in 1..(i - 1) : s[k].op # "finally"
  BY DEF Guarded
<1>2. i \in Nat \ {0} /\ Len(s) > 7
  <2>1. Len(s) = i + 7 /\ Len(s) \in Nat
    BY <1>1
  <2> QED
    BY ONLY <2>1, i \in 1..Len(s)
<1>3. s # << >>
  BY <1>2
<1>4. PICK t : t = Tail(s)
  OBVIOUS
<1>5. /\ Len(s) \in Nat \ {0} /\ Head(s) = s[1] /\ t \in Seq(Step) /\ Len(t) = Len(s) - 1
      /\ \A j \in 1..Len(s) - 1 : t[j] = s[j + 1]
  BY <1>3, <1>4, TailFacts
<1>6. ASSUME Head(s).op # "finally" PROVE Guarded(t)
  <2>1. i # 1
    BY <1>1, <1>5, <1>6
  <2>2. PICK m : m = i - 1
    OBVIOUS
  <2>3. m \in 1..Len(t) /\ Len(t) = m + 7 /\ m \in 1..Len(s) - 1 /\ m + 1 = i
    <3>1. Len(s) = i + 7 /\ Len(t) = Len(s) - 1 /\ i \in Nat /\ i > 1 /\ m = i - 1
      BY ONLY <1>1, <1>2, <1>5, <2>1, <2>2
    <3> QED
      BY ONLY <3>1
  <2>4. t[m].op = "finally"
    BY <1>1, <1>5, <2>3
  <2>5. ASSUME NEW k \in 1..7 PROVE t[m + k] = Cleanup[k]
    <3>1. m + k \in 1..Len(s) - 1 /\ (m + k) + 1 = i + k
      <4>1. Len(s) = i + 7 /\ i = m + 1 /\ m \in Nat \ {0} /\ k \in 1..7
        BY ONLY <1>1, <1>2, <2>1, <2>2, k \in 1..7
      <4> QED
        BY ONLY <4>1
    <3>2. t[m + k] = s[(m + k) + 1]
      BY <1>5, <3>1
    <3> QED
      BY <1>1, <3>1, <3>2
  <2>6. ASSUME NEW k \in 1..(m - 1) PROVE t[k].op # "finally"
    <3>1. k \in 1..Len(s) - 1 /\ k + 1 \in 1..(i - 1)
      BY ONLY <1>1, <1>2, <2>3, k \in 1..(m - 1)
    <3>2. t[k] = s[k + 1]
      BY <1>5, <3>1
    <3> QED
      BY <1>1, <3>1, <3>2
  <2> QED
    BY <2>3, <2>4, <2>5, <2>6 DEF Guarded
<1>7. ASSUME NEW t2, Len(t2) = 7, \A k \in 1..7 : t2[k] = s[i + k]
      PROVE  Cleaning(t2)
  <2>1. ASSUME NEW k \in 1..Len(t2) PROVE t2[k] = Cleanup[k + 7 - Len(t2)]
    <3>1. k \in 1..7 /\ k + 7 - Len(t2) = k
      BY ONLY <1>7, k \in 1..Len(t2)
    <3> QED
      BY <1>1, <1>7, <3>1
  <2>2. Len(t2) \in 0..7
    BY <1>7
  <2> QED
    BY <2>1, <2>2 DEF Cleaning
<1>8. ASSUME Head(s).op = "finally" PROVE Cleaning(t) /\ Len(t) = 7
  <2>1. i = 1
    <3>1. ~(1 \in 1..(i - 1))
      BY <1>1, <1>5, <1>8
    <3> QED
      BY ONLY <1>2, <3>1
  <2>2. Len(t) = 7
    BY ONLY <1>1, <1>5, <2>1
  <2>3. ASSUME NEW k \in 1..7 PROVE t[k] = s[i + k]
    <3>1. k \in 1..Len(s) - 1 /\ k + 1 = i + k
      BY ONLY <1>1, <2>1, k \in 1..7
    <3>2. t[k] = s[k + 1]
      BY <1>5, <3>1
    <3> QED
      BY <3>1, <3>2
  <2> QED
    BY <1>7, <2>2, <2>3
<1>9. ASSUME NEW j \in 1..Len(s), s[j].op = "finally"
      PROVE  Cleaning(SubSeq(s, j + 1, Len(s))) /\ Len(SubSeq(s, j + 1, Len(s))) = 7
  <2>1. j = i
    <3>1. ~(j \in 1..(i - 1))
      BY <1>1, <1>9
    <3>2. ~(j > i)
      <4> SUFFICES ASSUME j > i PROVE FALSE
        OBVIOUS
      <4>1. PICK k \in 1..7 : k = j - i
        <5>1. j - i \in 1..7
          BY ONLY <1>1, <1>2, j > i, j \in 1..Len(s)
        <5> QED
          BY <5>1
      <4>2. j = i + k
        BY ONLY <1>2, <4>1, j \in 1..Len(s)
      <4>3. s[j] = Cleanup[k]
        BY <1>1, <4>2
      <4>4. k = 1 \/ k = 2 \/ k = 3 \/ k = 4 \/ k = 5 \/ k = 6 \/ k = 7
        OBVIOUS
      <4> QED
        BY <1>9, <4>3, <4>4, CleanupSteps
    <3> QED
      BY ONLY <1>2, <3>1, <3>2, j \in 1..Len(s)
  <2>2. PICK t2 : t2 = SubSeq(s, j + 1, Len(s))
    OBVIOUS
  <2>3. Len(t2) = Len(s) - j /\ \A k \in 1..Len(s) - j : t2[k] = s[j + k]
    BY <2>2, BehindFinally
  <2>4. Len(s) - j = 7
    BY ONLY <1>1, <1>2, <2>1
  <2>5. Len(t2) = 7 /\ \A k \in 1..7 : t2[k] = s[i + k]
    BY <2>1, <2>3, <2>4
  <2> QED
    BY <1>7, <2>2, <2>5
<1> QED
  BY <1>1, <1>2, <1>3, <1>4, <1>6, <1>8, <1>9

(* What is to be shown when the clean-up has begun.                         *)
LEMMA CleaningNow ==
  ASSUME NEW t, todo' = t, Cleaning(t),
         \/ Len(t) = 7
         \/ Len(t) \in 5..6 /\ original_prefix' = prefix'
         \/ Len(t) = 4 /\ original_prefix' = prefix' /\ NotLeft'
         \/ Len(t) \in 0..3 /\ NotLeft'
         \/ Len(t) = 0 /\ outcome' \notin {"returned", "body"}
  PROVE  CleanInv'
<1>1. Cleaning(todo)'
  BY DEF Cleaning
<1>2. Len(todo') = Len(t)
  OBVIOUS
<1>3. /\ (Len(todo') \in 4..6 => original_prefix' = prefix')
      /\ (Len(todo') \in 1..4 => NotLeft')
      /\ (Len(todo') = 0 /\ outcome' \in {"returned", "body"} => NotLeft')
  <2>1. PICK n : n = Len(t) /\ n = Len(todo')
    BY <1>2
  <2>2. CASE n = 7
    BY ONLY <2>1, <2>2
  <2>3. CASE n \in 5..6 /\ original_prefix' = prefix'
    BY ONLY <2>1, <2>3
  <2>4. CASE n = 4 /\ original_prefix' = prefix' /\ NotLeft'
    BY ONLY <2>1, <2>4
  <2>5. CASE n \in 0..3 /\ NotLeft'
    <3>1. Len(todo') \in 0..3 /\ NotLeft'
      BY ONLY <2>1, <2>5
    <3>2. ~(Len(todo') \in 4..6)
      BY ONLY <3>1
    <3> QED
      BY <3>1, <3>2
  <2>6. CASE n = 0 /\ outcome' \notin {"returned", "body"}
    BY ONLY <2>1, <2>6
  <2> QED
    BY <2>1, <2>2, <2>3, <2>4, <2>5, <2>6
<1> QED
  BY <1>1, <1>3 DEF CleanInv

(* An exception in the context goes to the clean-up; one in the clean-up    *)
(* ends the call, and is the body's own only when it is raised again.       *)
LEMMA CleanFails ==
  ASSUME TypeOK, CleanInv, call = "alarm", Fails
  PROVE  CleanInv'
<1>1. todo \in Seq(Step) /\ todo # << >>
  BY DEF TypeOK, Fails
<1>2. UNCHANGED <<val, prefix, original_prefix, call>>
  BY DEF Fails, object
<1>3. PICK exc \in Exception : Raise(exc) /\ (exc = "body" => First.op \in {"body", "reraise"})
  BY DEF Fails
<1>4. CASE Guarded(todo)
  <2>1. Finallys # {}
    <3>1. \E i \in 1..Len(todo) : todo[i].op = "finally"
      BY <1>1, <1>4, GuardedSteps
    <3>2. DOMAIN todo = 1..Len(todo)
      BY <1>1
    <3> QED
      BY <3>1, <3>2 DEF Finallys
  <2>2. PICK i \in Finallys : /\ todo' = SubSeq(todo, i + 1, Len(todo))
                              /\ i \in 1..Len(todo) /\ todo[i].op = "finally"
    BY <1>3, <2>1, RaisedSteps
  <2>3. PICK t : t = SubSeq(todo, i + 1, Len(todo)) /\ todo' = t
    BY <2>2
  <2>4. Cleaning(t) /\ Len(t) = 7
    BY <1>1, <1>4, <2>2, <2>3, GuardedSteps
  <2> QED
    BY ONLY <2>3, <2>4, CleaningNow
<1>5. CASE ~Guarded(todo)
  <2>1. Cleaning(todo) /\ (Len(todo) \in 1..4 => NotLeft)
    BY <1>5 DEF CleanInv
  <2>2. /\ First.op # "body" /\ (First.op = "reraise" => Len(todo) = 1)
        /\ \A k \in 1..Len(todo) : todo[k].op # "finally"
    BY <1>1, <2>1, CleaningSteps DEF First
  <2>3. todo' = << >> /\ outcome' = exc
    BY <1>3, <2>2, RaisedSteps
  <2>4. ASSUME exc \in {"returned", "body"} PROVE NotLeft'
    <3>1. First.op = "reraise"
      BY <1>3, <2>2, <2>4 DEF Exception
    <3>2. Len(todo) \in 1..4
      BY <2>2, <3>1
    <3> QED
      BY <1>2, <2>1, <3>2 DEF NotLeft
  <2> QED
    <3>1. PICK t : t = << >> /\ Len(t) = 0
      OBVIOUS
    <3>2. Cleaning(t)
      BY <3>1 DEF Cleaning
    <3> QED
      BY <2>3, <2>4, <3>1, <3>2, CleaningNow
<1> QED
  BY <1>4, <1>5

(* A step of the context that is done.                                      *)
LEMMA CleanPasses ==
  ASSUME TypeOK, CleanInv, call = "alarm", Passes
  PROVE  CleanInv'
<1>1. todo \in Seq(Step) /\ todo # << >> /\ First.op \notin {"use", "restore", "sample"}
  BY DEF TypeOK, Passes
<1>2. UNCHANGED <<prefix, original_prefix, call>>
  BY DEF Passes, object
<1>3. PICK t : t = Tail(todo) /\ todo' = t
  BY DEF Passes
<1>4. CASE Guarded(todo)
  <2>1. Guarded(t) \/ (Cleaning(t) /\ Len(t) = 7)
    BY <1>1, <1>3, <1>4, GuardedSteps
  <2> QED
    <3>1. CASE Guarded(t)
      BY <1>3, <3>1 DEF CleanInv
    <3>2. CASE Cleaning(t) /\ Len(t) = 7
      BY <1>3, <3>2, CleaningNow
    <3> QED
      BY <2>1, <3>1, <3>2
<1>5. CASE ~Guarded(todo)
  <2>1. /\ Cleaning(todo) /\ (Len(todo) \in 1..4 => NotLeft)
        /\ (Len(todo) \in 4..6 => original_prefix = prefix)
    BY <1>5 DEF CleanInv
  <2>2. /\ Len(todo) \in 1..7 /\ Cleaning(t) /\ Len(t) = Len(todo) - 1
        /\ (First.op = "write" <=> Len(todo) = 5)
        /\ (Len(todo) = 5 => First.arg = "SIMS" /\ First.good = {NoAlarm})
        /\ (First.op = "restore" <=> Len(todo) = 4) /\ (First.op = "use" <=> Len(todo) = 7)
    BY <1>1, <1>3, <2>1, CleaningSteps DEF First
  <2>3. PICK n \in 1..7 : n = Len(todo)
    BY <2>2
  <2>4. /\ n # 4 /\ n # 7 /\ Len(t) = n - 1
        /\ (n \in 1..4 => NotLeft) /\ (n \in 4..6 => original_prefix = prefix)
        /\ (First.op = "write" <=> n = 5) /\ (n = 5 => First.arg = "SIMS" /\ First.good = {NoAlarm})
    BY <1>1, <2>1, <2>2, <2>3
  <2>6. CASE n = 6
    <3>1. Len(t) \in 5..6 /\ original_prefix' = prefix'
      BY <1>2, <2>4, <2>6
    <3> QED
      BY <1>3, <2>2, <3>1, CleaningNow
  <2>7. CASE n = 5
    <3>1. NotLeft'
      <4> SUFFICES ASSUME prefix = "own" PROVE val'.SIMS = NoAlarm
        BY <1>2 DEF NotLeft
      <4>1. val' = [val EXCEPT !.SIMS = CHOOSE a \in First.good : TRUE]
        BY <2>4, <2>7 DEF Passes
      <4>2. (CHOOSE a \in {NoAlarm} : TRUE) = NoAlarm
        OBVIOUS
      <4> QED
        BY <2>4, <2>7, <4>1, <4>2 DEF TypeOK
    <3>2. Len(t) = 4 /\ original_prefix' = prefix' /\ NotLeft'
      BY <1>2, <2>4, <2>7, <3>1
    <3> QED
      BY <1>3, <2>2, <3>1, <3>2, CleaningNow
  <2>8. CASE n \in 1..3
    <3>1. val' = val
      BY <2>4, <2>8 DEF Passes
    <3>2. NotLeft'
      BY <1>2, <2>4, <2>8, <3>1 DEF NotLeft
    <3>3. Len(t) \in 0..3 /\ NotLeft'
      BY ONLY <2>4, <2>8, <3>2
    <3> QED
      BY <1>3, <2>2, <3>2, <3>3, CleaningNow
  <2> QED
    BY <2>4, <2>6, <2>7, <2>8
<1> QED
  BY <1>4, <1>5

(* The prefix of a clean-up is the one that it gives back.                  *)
LEMMA CleanPrefix ==
  ASSUME TypeOK, CleanInv, call = "alarm", UsePrefix \/ RestorePrefix
  PROVE  CleanInv'
<1>1. todo \in Seq(Step) /\ todo # << >> /\ First.op \in {"use", "restore"}
  BY DEF TypeOK, UsePrefix, RestorePrefix, At
<1>2. PICK t : t = Tail(todo) /\ todo' = t
  BY DEF UsePrefix, RestorePrefix, Advance, Proceed
<1>3. CASE Guarded(todo)
  <2>1. Guarded(t)
    BY <1>1, <1>2, <1>3, GuardedSteps DEF First
  <2> QED
    BY <1>2, <2>1 DEF CleanInv
<1>4. CASE ~Guarded(todo)
  <2>1. /\ Cleaning(todo) /\ (Len(todo) \in 1..4 => NotLeft)
        /\ (Len(todo) \in 4..6 => original_prefix = prefix)
    BY <1>4 DEF CleanInv
  <2>2. /\ Cleaning(t) /\ Len(t) = Len(todo) - 1
        /\ (First.op = "use" => Len(todo) = 7 /\ First.arg = "same")
        /\ (First.op = "restore" => Len(todo) = 4)
    BY <1>1, <1>2, <2>1, CleaningSteps DEF First
  <2>3. CASE First.op = "use"
    <3>1. UsePrefix
      BY <2>3 DEF RestorePrefix, At
    <3>2. Len(t) \in 5..6 /\ original_prefix' = prefix'
      BY <2>2, <2>3, <3>1 DEF UsePrefix
    <3> QED
      BY <1>2, <2>2, <3>2, CleaningNow
  <2>4. CASE First.op = "restore"
    <3>1. RestorePrefix
      BY <2>4 DEF UsePrefix, At
    <3>2. Len(t) = 3 /\ original_prefix = prefix /\ NotLeft
      BY <2>1, <2>2, <2>4
    <3>3. prefix' = prefix /\ val' = val
      BY <3>1, <3>2 DEF RestorePrefix
    <3>4. NotLeft'
      BY <3>2, <3>3 DEF NotLeft
    <3>5. Len(t) \in 0..3 /\ NotLeft'
      BY <3>2, <3>4
    <3> QED
      BY <1>2, <2>2, <3>5, CleaningNow
  <2> QED
    BY <1>1, <2>3, <2>4
<1> QED
  BY <1>3, <1>4

(* Every step keeps the invariant of the clean-up.                          *)
LEMMA CleanStep ==
  ASSUME TypeOK, RestoreInv, CleanInv, [Next]_vars
  PROVE  CleanInv'
<1>1. ASSUME Still PROVE CleanInv'
  BY <1>1 DEF Still, object, CleanInv, Guarded, Cleaning, NotLeft
<1>2. ASSUME Passes \/ Fails \/ UsePrefix \/ RestorePrefix \/ Sample PROVE CleanInv'
  <2>1. call' = call
    BY <1>2 DEF Passes, Fails, UsePrefix, RestorePrefix, Sample
  <2>2. CASE call # "alarm"
    BY <2>1, <2>2 DEF CleanInv
  <2>3. CASE call = "alarm" /\ ~Sample
    BY <1>2, <2>3, CleanPasses, CleanFails, CleanPrefix
  <2>4. ASSUME call = "alarm", Sample PROVE FALSE
    <3>1. todo \in Seq(Step) /\ todo # << >> /\ First.op = "sample"
      BY <2>4 DEF TypeOK, Sample, At
    <3>2. Len(todo) = 1
      <4>1. Len(todo) \in Nat \ {0} /\ First = todo[1]
        BY <3>1, TailFacts DEF First
      <4>2. 1 \in 1..Len(todo) /\ todo[1].op = "sample"
        BY <3>1, <4>1
      <4> QED
        BY <4>2 DEF RestoreInv, Alone
    <3>3. CASE Guarded(todo)
      <4>1. Len(todo) > 7
        BY <3>1, <3>3, GuardedSteps
      <4> QED
        BY <3>2, <4>1
    <3>4. CASE Cleaning(todo)
      BY <3>1, <3>4, CleaningSteps DEF First
    <3> QED
      BY <2>4, <3>3, <3>4 DEF CleanInv
  <2> QED
    BY <2>2, <2>3, <2>4
<1>3. ASSUME Test PROVE CleanInv'
  <2>1. CASE NewObject
    BY <2>1 DEF NewObject, CleanInv
  <2>2. ASSUME NEW name, NEW s, Call(name, s), name = "alarm" => Guarded(s)
        PROVE  CleanInv'
    <3>1. call' = name /\ todo' = s
      BY <2>2 DEF Call, Proceed
    <3> QED
      BY <2>2, <3>1 DEF CleanInv
  <2> QED
    BY <1>3, <2>1, <2>2, TestSteps
<1>4. \/ Test \/ Passes \/ Fails \/ Still \/ UsePrefix \/ RestorePrefix \/ Sample
  BY ProgramCases, OutsideIsStill DEF Next
<1> QED
  BY <1>1, <1>2, <1>3, <1>4

(* After put_simulated_record_into_alarm the record is not simulated to be  *)
(* in alarm, whatever its body did and raised, unless the cleaning up       *)
(* raised itself.                                                           *)
THEOREM AlarmIsTakenBack == Spec => []AlarmNotLeft
<1>1. Init => RestoreInv /\ CleanInv
  BY DEF Init, RestoreInv, Alone, Bracketed, CleanInv
<1>2. TypeOK /\ RestoreInv /\ CleanInv /\ [Next]_vars => RestoreInv' /\ CleanInv'
  BY RestoreStep, CleanStep
<1>3. RestoreInv /\ CleanInv => AlarmNotLeft
  BY DEF CleanInv, AlarmNotLeft, Guarded, NotLeft
<1> QED
  BY <1>1, <1>2, <1>3, TypeCorrect, PTL DEF Spec
=============================================================================
