--------------------------- MODULE ChannelAccess ---------------------------
(***************************************************************************)
(* The ChannelAccess object of a test: set_pv_value, the assertions that    *)
(* poll a PV, and the context that puts a record into alarm, against PVs    *)
(* that change while they are watched and IOCs that come and go.  A method  *)
(* is the sequence of steps it makes; the actions carry them out.           *)
(***************************************************************************)
EXTENDS Integers, Sequences

CONSTANTS
  Value,          \* values of the readback, integers
  NoAlarm, InAlarm,
  Conditions,     \* the sets of values tests wait for
  DefaultTimeout, \* default_timeout, in ticks of the clock
  DefaultWait,    \* default_wait_time
  Timeouts,       \* the timeouts tests pass
  MaxElapsed,     \* bound at which a stop watch stays
  Never,          \* not a time
  Methods,        \* the methods tests call
  Faults          \* the prefixes whose IOC may go away

Alarm == {NoAlarm, InAlarm}
Prefix == {"own", "other"}
Exception == {"assertion", "unreachable", "body"}
Method == {"exists", "absent", "set", "set other", "is", "is not", "processed", "setpoint",
           "over time", "dict", "alarm"}

Op == {"expect", "exists", "absent", "use", "restore", "write", "nap", "sample", "body",
       "finally", "reraise", "verdict"}
(* arg: the PV, prefix or comparator of the step; good: the values waited   *)
(* for, or the value written; soft: an AssertionError is caught.            *)
Arg == {"RB", "SP", "SIMS", "SEVR", "own", "other", "same", ">", "<", "=", "#", "none"}
Step == {s \in [op : Op, arg : Arg, good : SUBSET (Value \cup Alarm), limit : Nat, soft : BOOLEAN] :
           /\ s.op = "expect" => s.arg \in {"RB", "SEVR"}
           /\ s.op = "use" => s.arg \in Prefix \cup {"same"}
           /\ s.op = "write" /\ s.arg = "SIMS" => \E a \in Alarm : s.good = {a}}

ASSUME ConstantsAssumption ==
  /\ Value \subseteq Int
  /\ NoAlarm # InAlarm /\ Alarm \cap Value = {}
  /\ Conditions \subseteq SUBSET Value
  /\ DefaultTimeout \in Nat /\ DefaultWait \in Nat /\ Timeouts \subseteq Nat
  /\ MaxElapsed \in Nat /\ \A t \in Timeouts \cup {DefaultTimeout} : t < MaxElapsed
  /\ Never \notin Nat
  /\ Methods \subseteq Method /\ Faults \subseteq Prefix

VARIABLES
  up,       \* up[p]: the IOC with prefix p can be reached
  val,      \* PVs of the IOC under test: the readback, and of the record its
            \* simulated severity and severity
  prefix, original_prefix,
  call,     \* the method called last
  todo,     \* the steps it has still to make
  phase,    \* how far the first of them is
  elapsed, rest, \* its stop watch, and the time it will still sleep
  last,     \* it makes its last try
  seen,     \* what it has read: {} when the PV could not be reached
  errors,   \* error_message is not empty
  pending,  \* the exception a finally clause holds back
  outcome,  \* how the call ended
  raised,   \* history: a call of this object has raised
  held,     \* history: what the first step watches was true since it began
  since     \* history: since when it is true without a break

locals == <<phase, elapsed, rest, last, seen>>
object == <<prefix, original_prefix>>
ending == <<errors, pending, outcome, raised>>
vars == <<up, val, object, call, todo, locals, ending, held, since>>

---------------------------------------------------------------------------
(* The methods.                                                             *)

Do(op, arg) == [op |-> op, arg |-> arg, good |-> {}, limit |-> 0, soft |-> FALSE]
Nap(t) == [Do("nap", "none") EXCEPT !.limit = t]
(* What a write to SP or PROC does to the readback is up to the IOC.        *)
Write(pv, v) == [Do("write", pv) EXCEPT !.good = {v}]
AssertExists(op, t) == << [Do(op, "none") EXCEPT !.limit = t] >>
Expect(pv, S, t) == [Do("expect", pv) EXCEPT !.good = S, !.limit = t]

NoRestore(pv, v, p, wait) ==  \* mutant: the prefix is not restored
  << Do("use", p) >> \o AssertExists("exists", DefaultTimeout) \o << Write(pv, v), Nap(wait) >>
SetPvValue(pv, v, p, wait) ==
  << Do("use", p) >> \o AssertExists("exists", DefaultTimeout)
    \o << Write(pv, v), Do("restore", "none"), Nap(wait) >>

(* assert_that_pv_is, _is_path, _is_number, _is_one_of, _is_within_range    *)
(* and the negated forms differ in the values they accept; _alarm_is_not    *)
(* only in the PV.                                                          *)
AssertThatPvIs(S, t) == << Expect("RB", S, t) >>
AssertThatPvIsNot(S, t) == << Expect("RB", Value \ S, t) >>

(* The timeout given is not passed on.                                      *)
AssertAfterProcessing(S, t) == << Do("write", "SP"), Expect("RB", S, DefaultTimeout) >>

FieldKept(a, t) == << Expect("SIMS", {a}, t) >>  \* mutant: the field is not replaced
AssertAlarmIs(a, t) == << Expect("SEVR", {a}, t) >>

AssertSettingSetpoint(v, S, t) ==
  SetPvValue("SP", v, "same", 0) \o AssertThatPvIs(S, t) \o AssertAlarmIs(NoAlarm, t)

Compare(c, v, w) == CASE c = ">" -> v > w [] c = "<" -> v < w [] c = "=" -> v = w [] c = "#" -> v # w
AssertOverTime(c, wait) == << [Do("sample", c) EXCEPT !.limit = wait] >>
Trend(c, wait, initial) ==
  << Nap(wait), Expect("RB", {v \in Value : Compare(c, v, initial)}, DefaultTimeout) >>

AssertDict(S) ==
  << [Expect("RB", S, DefaultTimeout) EXCEPT !.soft = TRUE],
     [Expect("SEVR", {NoAlarm}, DefaultTimeout) EXCEPT !.soft = TRUE], Do("verdict", "none") >>

SetAndCheckAlarm(a) ==
  SetPvValue("SIMS", a, "same", DefaultWait) \o AssertAlarmIs(a, DefaultTimeout)
NoFinally(body) ==  \* mutant: cleaned up only when the body does not raise
  SetAndCheckAlarm(InAlarm) \o body \o SetAndCheckAlarm(NoAlarm)
PutIntoAlarm(body) ==
  SetAndCheckAlarm(InAlarm) \o body \o << Do("finally", "none") >> \o SetAndCheckAlarm(NoAlarm)
    \o << Do("reraise", "none") >>

---------------------------------------------------------------------------
First == Head(todo)
At(ops, ph) == todo # << >> /\ First.op \in ops /\ phase = ph

Answered == seen # {}  \* mutant: any answer will do
Satisfied == seen \cap First.good # {}

(* What the first step watches.                                             *)
Watched == /\ todo # << >>
           /\ up[prefix]
           /\ \/ First.op \in {"exists", "absent"}
              \/ First.op = "expect" /\ prefix = "own" /\ val[First.arg] \in First.good

(* The histories, after a step of the call or of its environment.           *)
Track ==
  /\ held' = (held \/ Watched')
  /\ since' = IF ~Watched' THEN Never ELSE IF since = Never THEN elapsed' ELSE since
TrackNew == held' = Watched' /\ since' = IF Watched' THEN 0 ELSE Never

(* The program turns to the steps s.                                        *)
Proceed(s) ==
  /\ todo' = s
  /\ phase' = "loop" /\ elapsed' = 0 /\ rest' = 0 /\ last' = FALSE /\ seen' = {}

Advance ==
  /\ Proceed(Tail(todo))
  /\ outcome' = IF Tail(todo) = << >> THEN "returned" ELSE outcome
  /\ UNCHANGED <<errors, pending, raised>>

Finallys == {i \in DOMAIN todo : todo[i].op = "finally"}
(* An exception skips to behind the next finally, or ends the call.         *)
Raise(exc) ==
  /\ raised' = TRUE
  /\ UNCHANGED errors
  /\ IF Finallys = {}
       THEN Proceed(<< >>) /\ outcome' = exc /\ pending' = "none"
       ELSE /\ \E i \in Finallys : Proceed(SubSeq(todo, i + 1, Len(todo)))
            /\ pending' = exc
            /\ UNCHANGED outcome

---------------------------------------------------------------------------
Init ==
  /\ up = [p \in Prefix |-> TRUE]
  /\ \E v \in Value : val = [RB |-> v, SIMS |-> NoAlarm, SEVR |-> NoAlarm]
  /\ prefix = "own" /\ original_prefix = "own"
  /\ call = "none" /\ todo = << >>
  /\ phase = "loop" /\ elapsed = 0 /\ rest = 0 /\ last = FALSE /\ seen = {}
  /\ errors = FALSE /\ pending = "none" /\ outcome = "returned" /\ raised = FALSE
  /\ held = FALSE /\ since = Never

Call(name, steps) ==
  /\ name \in Methods /\ todo = << >>
  /\ call' = name
  /\ Proceed(steps)
  /\ errors' = FALSE /\ pending' = "none" /\ outcome' = "running"
  /\ UNCHANGED <<up, val, object, raised>>
  /\ TrackNew

CallExists == \E t \in Timeouts : Call("exists", AssertExists("exists", t))
CallAbsent == \E t \in Timeouts : Call("absent", AssertExists("absent", t))
CallSet == \E v \in Value : Call("set", SetPvValue("SP", v, "same", DefaultWait))
CallSetOther == \E v \in Value : Call("set other", SetPvValue("SP", v, "other", DefaultWait))
CallIs == \E S \in Conditions, t \in Timeouts : Call("is", AssertThatPvIs(S, t))
CallIsNot == \E S \in Conditions, t \in Timeouts : Call("is not", AssertThatPvIsNot(S, t))
CallProcessed == \E S \in Conditions, t \in Timeouts : Call("processed", AssertAfterProcessing(S, t))
CallSetpoint == \E v \in Value, t \in Timeouts : Call("setpoint", AssertSettingSetpoint(v, {v}, t))
CallOverTime == \E c \in {">", "<", "=", "#"} : Call("over time", AssertOverTime(c, DefaultWait))
CallDict == \E S \in Conditions : Call("dict", AssertDict(S))
Bodies == {<< >>, << Do("body", "none") >>} \cup {SetPvValue("SP", v, "other", DefaultWait) : v \in Value}
CallAlarm == \E body \in Bodies : Call("alarm", PutIntoAlarm(body))

(* The next test of the suite: setUp makes a new object.                    *)
NewObject ==
  /\ todo = << >> /\ raised
  /\ prefix' = "own" /\ original_prefix' = "own"
  /\ call' = "none" /\ outcome' = "returned" /\ raised' = FALSE
  /\ UNCHANGED <<up, val, todo, locals, errors, pending, held, since>>

---------------------------------------------------------------------------
(* _wait_for_pv_lambda, and the loop of assert_that_pv_exists.              *)

FreshPoll ==  \* mutant: the start time is taken again at every poll
  /\ At({"expect", "exists", "absent"}, "loop") /\ rest = 0
  /\ last' = (First.limit = 0) /\ phase' = "read" /\ elapsed' = 0
  /\ UNCHANGED <<up, val, object, call, todo, rest, seen, ending>>
  /\ Track
NoLastTry ==  \* mutant: the last value read is judged, not a new one
  /\ At({"expect", "exists", "absent"}, "loop") /\ rest = 0
  /\ last' = (elapsed >= First.limit)
  /\ phase' = IF last' THEN "judge" ELSE "read"
  /\ UNCHANGED <<up, val, object, call, todo, elapsed, rest, seen, ending>>
  /\ Track
Poll ==
  /\ At({"expect", "exists", "absent"}, "loop") /\ rest = 0
  /\ last' = (elapsed >= First.limit)
  /\ phase' = "read"
  /\ UNCHANGED <<up, val, object, call, todo, elapsed, rest, seen, ending>>
  /\ Track

Readable(pv) == IF prefix = "own" THEN {val[pv]} ELSE Value \cup Alarm

Read ==
  /\ At({"expect"}, "read")
  /\ IF up[prefix] THEN \E v \in Readable(First.arg) : seen' = {v} ELSE seen' = {}
  /\ phase' = "judge"
  /\ UNCHANGED <<up, val, object, call, todo, elapsed, rest, last, ending>>
  /\ Track

Accept ==
  /\ At({"expect"}, "judge") /\ Satisfied
  /\ Advance
  /\ UNCHANGED <<up, val, object, call>>
  /\ TrackNew

TryAgain ==
  /\ At({"expect"}, "judge") /\ ~Satisfied /\ ~last
  /\ rest' = 1 /\ phase' = "loop"
  /\ UNCHANGED <<up, val, object, call, todo, elapsed, last, seen, ending>>
  /\ Track

GiveUp ==
  /\ At({"expect"}, "judge") /\ ~Satisfied /\ last
  /\ CASE seen = {} -> Raise("unreachable")
       [] seen # {} /\ ~First.soft -> Raise("assertion")
       [] seen # {} /\ First.soft ->
            Proceed(Tail(todo)) /\ errors' = TRUE /\ UNCHANGED <<pending, outcome, raised>>
  /\ UNCHANGED <<up, val, object, call>>
  /\ TrackNew

(* ca.pv_exists(pv, timeout=1.0)                                            *)
Probe ==
  /\ At({"exists", "absent"}, "read")
  /\ phase' = "probe" /\ rest' = 1
  /\ UNCHANGED <<up, val, object, call, todo, elapsed, last, seen, ending>>
  /\ Track

Found ==
  /\ At({"exists", "absent"}, "probe") /\ up[prefix]
  /\ IF First.op = "exists" THEN Advance ELSE Raise("assertion")
  /\ UNCHANGED <<up, val, object, call>>
  /\ TrackNew

Missed ==
  /\ At({"exists", "absent"}, "probe") /\ ~up[prefix] /\ rest = 0
  /\ UNCHANGED <<up, val, object, call>>
  /\ IF ~last
       THEN /\ phase' = "loop"
            /\ UNCHANGED <<todo, elapsed, rest, last, seen, ending>>
            /\ Track
       ELSE /\ IF First.op = "exists" THEN Raise("assertion") ELSE Advance
            /\ TrackNew

---------------------------------------------------------------------------
(* The other steps.                                                         *)

UsePrefix ==
  /\ At({"use"}, "loop")
  /\ original_prefix' = prefix
  /\ prefix' = IF First.arg = "same" THEN prefix ELSE First.arg
  /\ Advance
  /\ UNCHANGED <<up, val, call>>
  /\ TrackNew

RestorePrefix ==
  /\ At({"restore"}, "loop")
  /\ prefix' = original_prefix
  /\ Advance
  /\ UNCHANGED <<up, val, original_prefix, call>>
  /\ TrackNew

WritePv ==
  /\ At({"write"}, "loop")
  /\ IF up[prefix]
       THEN /\ val' = IF prefix = "own" /\ First.arg = "SIMS"
                        THEN [val EXCEPT !.SIMS = CHOOSE a \in First.good : TRUE] ELSE val
            /\ Advance
       ELSE Raise("unreachable") /\ UNCHANGED val
  /\ UNCHANGED <<up, object, call>>
  /\ TrackNew

Sleep ==
  /\ At({"nap"}, "loop")
  /\ phase' = "asleep" /\ rest' = First.limit
  /\ UNCHANGED <<up, val, object, call, todo, elapsed, last, seen, ending>>
  /\ Track

Wake ==
  /\ At({"nap"}, "asleep") /\ rest = 0
  /\ Advance
  /\ UNCHANGED <<up, val, object, call>>
  /\ TrackNew

(* get_pv_value of the initial value.                                       *)
Sample ==
  /\ At({"sample"}, "loop")
  /\ IF up[prefix]
       THEN /\ \E v \in Readable("RB") \cap Value : Proceed(Trend(First.arg, First.limit, v))
            /\ UNCHANGED ending
       ELSE Raise("unreachable")
  /\ UNCHANGED <<up, val, object, call>>
  /\ TrackNew

BodyRaises == At({"body"}, "loop") /\ Raise("body") /\ UNCHANGED <<up, val, object, call>> /\ TrackNew

EnterFinally ==
  At({"finally"}, "loop") /\ Advance /\ UNCHANGED <<up, val, object, call>> /\ TrackNew

Reraise ==
  /\ At({"reraise"}, "loop")
  /\ IF pending = "none" THEN Advance ELSE Raise(pending)
  /\ UNCHANGED <<up, val, object, call>>
  /\ TrackNew

Verdict ==
  /\ At({"verdict"}, "loop")
  /\ IF errors THEN Raise("assertion") ELSE Advance
  /\ UNCHANGED <<up, val, object, call>>
  /\ TrackNew

---------------------------------------------------------------------------
(* Time and the IOCs.                                                       *)

Tick ==
  /\ todo # << >> /\ (elapsed < MaxElapsed \/ rest > 0)
  /\ elapsed' = IF elapsed < MaxElapsed THEN elapsed + 1 ELSE elapsed
  /\ rest' = IF rest > 0 THEN rest - 1 ELSE 0
  /\ UNCHANGED <<up, val, object, call, todo, phase, last, seen, ending>>
  /\ Track

Environment == UNCHANGED <<object, call, todo, locals, ending>> /\ Track

ReadbackChanges == \E v \in Value \ {val.RB} : val' = [val EXCEPT !.RB = v] /\ UNCHANGED up /\ Environment
RecordScanned ==
  /\ up["own"] /\ val.SEVR # val.SIMS
  /\ val' = [val EXCEPT !.SEVR = val.SIMS]
  /\ UNCHANGED up /\ Environment
Unreachable(p) == p \in Faults /\ up[p] /\ up' = [up EXCEPT ![p] = FALSE] /\ UNCHANGED val /\ Environment
Reachable(p) == ~up[p] /\ up' = [up EXCEPT ![p] = TRUE] /\ UNCHANGED val /\ Environment

Test == \/ CallExists \/ CallAbsent \/ CallSet \/ CallSetOther \/ CallIs \/ CallIsNot \/ CallProcessed
        \/ CallSetpoint \/ CallOverTime \/ CallDict \/ CallAlarm \/ NewObject
Program == \/ Poll \/ Read \/ Accept \/ TryAgain \/ GiveUp \/ Probe \/ Found \/ Missed
           \/ UsePrefix \/ RestorePrefix \/ WritePv \/ Sleep \/ Wake \/ Sample \/ BodyRaises
           \/ EnterFinally \/ Reraise \/ Verdict
Iocs == ReadbackChanges \/ RecordScanned \/ \E p \in Prefix : Unreachable(p) \/ Reachable(p)

Next == Test \/ Program \/ Tick \/ Iocs
Spec == Init /\ [][Next]_vars
FairSpec == Spec /\ WF_vars(Program) /\ WF_vars(Tick)

---------------------------------------------------------------------------
(* Properties.                                                              *)

(* The types of the variables.                                              *)
TypeOK ==
  /\ up \in [Prefix -> BOOLEAN]
  /\ val \in [RB : Value, SIMS : Alarm, SEVR : Alarm]
  /\ prefix \in Prefix /\ original_prefix \in Prefix
  /\ call \in Method \cup {"none"} /\ todo \in Seq(Step)
  /\ phase \in {"loop", "read", "judge", "probe", "asleep"}
  /\ elapsed \in 0..MaxElapsed /\ rest \in Nat /\ last \in BOOLEAN
  /\ seen \subseteq Value \cup Alarm
  /\ errors \in BOOLEAN /\ pending \in Exception \cup {"none"}
  /\ outcome \in Exception \cup {"returned", "running"} /\ raised \in BOOLEAN
  /\ held \in BOOLEAN /\ since \in 0..MaxElapsed \cup {Never}

(* An assertion is about to pass only when the PV satisfied the condition   *)
(* at some moment since it began to wait: what it read before it slept, or  *)
(* in another step of the call, does not count.  (_wait_for_pv_lambda,      *)
(* assert_that_pv_value_causes_func_to_return_true)                         *)
PassedHeld == At({"expect"}, "judge") /\ Satisfied /\ prefix = "own" => held

(* An assertion gives up only when the PV did not satisfy the condition     *)
(* throughout: one that became true before the timeout and stayed so is     *)
(* found, by the last try if not by the loop, however late the polls are.   *)
GivesUpLate ==
  At({"expect"}, "judge") /\ ~Satisfied /\ last => since = Never \/ since >= First.limit

(* After put_simulated_record_into_alarm the record is not simulated to be  *)
(* in alarm: unless setting it back raised, whatever its body did, and      *)
(* whatever calls came before.                                              *)
AlarmNotLeft ==
  call = "alarm" /\ todo = << >> /\ prefix = "own" /\ outcome \in {"returned", "body"}
    => val.SIMS = NoAlarm

(* set_pv_value with a prefix leaves the object with its own, except when   *)
(* it raises.                                                               *)
PrefixKept == todo = << >> /\ prefix # "own" => raised

(* Every call ends, though PVs flicker and IOCs go away for ever.           *)
CallsEnd == todo # << >> ~> todo = << >>

(* Docstring of put_simulated_record_into_alarm: records are not left in    *)
(* alarm when the test fails.  With an IOC that stays reachable.            *)
AlarmNeverLeft == todo = << >> => val.SIMS = NoAlarm

(* Docstring of assert_that_pv_is_not: it is an error when the PV becomes   *)
(* the value within the timeout.  So it does not return before.             *)
IsNotWatches ==
  [][call = "is not" /\ todo # << >> /\ todo' = << >> /\ outcome' = "returned"
       => elapsed >= First.limit]_vars
=============================================================================
