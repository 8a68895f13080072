-------------------------- MODULE TestHelpersProofs --------------------------
(* The helpers of a test, for any number of retries, contexts and messages: the *)
(* fixtures are balanced, settings are put back, and a pass is earned.          *)
EXTENDS TestHelpers, SequenceLemmas, TLAPS

InBody == {"body", "write", "confirm", "watch", "unwind", "attempted"}

\* The setUps that await their tearDown, by where the runner and unstable_test are.
\* The first run has no tearDown of its own, so one more is due while it is retried;
\* only a retry is torn down by unstable_test.
FixturesDue ==
  /\ pc = "idle" => due = 0
  /\ pc = "setUp" => due = (IF attempt > 0 THEN 1 ELSE 0)
  /\ pc \in InBody => due = (IF attempt > 0 THEN 2 ELSE 1)
  /\ pc = "tearDown" => due = 2 /\ attempt > 0
  /\ pc = "runnerTearDown" => due = 1

FixturesInv ==
  /\ pc \in InBody \cup {"idle", "setUp", "tearDown", "runnerTearDown"}
  /\ attempt \in Nat
  /\ FixturesDue

\* Nothing is due before the first test.
LEMMA FixturesInit == Init => FixturesInv
BY DEF Init, FixturesInv, FixturesDue, InBody

\* The steps of the runner and of unstable_test keep count.
LEMMA FixturesRunner ==
  ASSUME FixturesInv,
         \/ StartTest \/ SetUp \/ Skip \/ BodyEnds \/ Unwound
         \/ FirstRunFails \/ AttemptOver \/ TearDown \/ RunnerTearDown
         \/ \E e \in Errors : SetUpRaises(e) \/ BodyRaises(e) \/ TearDownRaises(e)
  PROVE  FixturesInv'
<1> USE DEF FixturesInv, FixturesDue, InBody
<1>1. CASE StartTest
  BY <1>1 DEF StartTest, history
<1>2. CASE SetUp
  BY <1>2 DEF SetUp, test
<1>3. CASE Skip \/ BodyEnds \/ Unwound
  BY <1>3 DEF Skip, BodyEnds, Unwound, test, history
<1>4. CASE FirstRunFails
  BY <1>4 DEF FirstRunFails, history
<1>5. CASE AttemptOver
  BY <1>5 DEF AttemptOver, test, history
<1>6. CASE TearDown
  <2>1. CASE exc = "assert" /\ attempt < MaxRetries
    BY <1>6, <2>1 DEF TearDown
  <2>2. CASE ~(exc = "assert" /\ attempt < MaxRetries)
    BY <1>6, <2>2 DEF TearDown
  <2> QED BY <2>1, <2>2
<1>7. CASE RunnerTearDown
  BY <1>7 DEF RunnerTearDown
<1>8. ASSUME NEW e \in Errors, SetUpRaises(e) \/ BodyRaises(e) \/ TearDownRaises(e)
      PROVE  FixturesInv'
  BY <1>8 DEF SetUpRaises, BodyRaises, TearDownRaises, history
<1> QED BY <1>1, <1>2, <1>3, <1>4, <1>5, <1>6, <1>7, <1>8

\* Whatever contexts, the IOC and its records do stays inside the body.
LEMMA FixturesContexts ==
  ASSUME FixturesInv,
         \/ LeaveSetting \/ WriteSetting \/ Confirmed \/ TryAgain \/ LeaveLog
         \/ LeaveWatch \/ WatchSatisfied \/ Unwatched
         \/ \E e \in Errors : SettingRaises(e) \/ WatchRaises(e)
         \/ \E s \in Settings : EnterSetting(s) \/ Obeys(s)
         \/ \E args \in LogArgs : EnterLog(args)
         \/ \E args \in WatchArgs : EnterWatch(args)
         \/ \E k \in Messages : Prints(k)
         \/ \E v \in Values, alarm \in BOOLEAN, merged \in SUBSET (1..Open) : RecordProcesses(v, alarm, merged)
         \/ \E i \in 1..Open : CallsBack(i)
  PROVE  FixturesInv'
<1> USE DEF FixturesInv, FixturesDue, InBody
<1>1. CASE LeaveSetting \/ WriteSetting \/ TryAgain
  BY <1>1 DEF LeaveSetting, WriteSetting, TryAgain, test, history
<1>2. CASE Confirmed
  BY <1>2 DEF Confirmed, Onward
<1>3. CASE LeaveLog
  BY <1>3 DEF LeaveLog
<1>4. CASE LeaveWatch \/ WatchSatisfied \/ Unwatched
  BY <1>4 DEF LeaveWatch, WatchSatisfied, Unwatched, Judging, test, history
<1>5. ASSUME NEW e \in Errors, SettingRaises(e) \/ WatchRaises(e)
      PROVE  FixturesInv'
  BY <1>5 DEF SettingRaises, WatchRaises, Judging, history
<1>6. ASSUME NEW s \in Settings, EnterSetting(s) \/ Obeys(s)
      PROVE  FixturesInv'
  BY <1>6 DEF EnterSetting, Obeys, test, history
<1>7. ASSUME NEW args, EnterLog(args) \/ EnterWatch(args)
      PROVE  FixturesInv'
  BY <1>7 DEF EnterLog, EnterWatch, history
<1>8. ASSUME NEW k, Prints(k) \/ CallsBack(k)
      PROVE  FixturesInv'
  BY <1>8 DEF Prints, CallsBack, history
<1>9. ASSUME NEW v, NEW alarm, NEW merged, RecordProcesses(v, alarm, merged)
      PROVE  FixturesInv'
  BY <1>9 DEF RecordProcesses, history
<1> QED BY <1>1, <1>2, <1>3, <1>4, <1>5, <1>6, <1>7, <1>8, <1>9

\* In every state the count is right.
LEMMA FixturesAlways == Spec => []FixturesInv
<1>1. FixturesInv /\ [Next]_vars => FixturesInv'
  <2> SUFFICES ASSUME FixturesInv, [Next]_vars PROVE FixturesInv'
    OBVIOUS
  <2>1. CASE Next
    BY <2>1, FixturesRunner, FixturesContexts, Zenon DEF Next
  <2>2. CASE UNCHANGED vars
    BY <2>2 DEF vars, test, history, FixturesInv, FixturesDue, InBody
  <2> QED BY <2>1, <2>2
<1> QED BY FixturesInit, <1>1, PTL DEF Spec

\* Every test, retried or not, leaves as many tearDowns behind as setUps, and during a
\* retry two of them are due.
THEOREM FixturesAreBalanced == Spec => []FixturesMatch
<1>1. FixturesInv => FixturesMatch
  BY DEF FixturesInv, FixturesDue, FixturesMatch, InBody
<1> QED BY FixturesAlways, <1>1, PTL

-----------------------------------------------------------------------------
(* Types.                                                                      *)

LogContexts ==
  [kind : {"log"}, args : LogArgs, got : [Messages -> 0..MaxMessages], inner : BOOLEAN]
Watches ==
  [kind : Monitored \cup Timed, want : Seq(Values), all : Seq(Values), ran : BOOLEAN,
   queue : Seq(Values), had : Seq(Values), before : Nat \cup {None}]
Contexts == [kind : Settings] \cup LogContexts \cup Watches

\* Outside of the body no context is open.  A setting is written as long as tries are
\* left; it is being entered where there is room for it, or left with its context on top.  A
\* watch that waits for its answer is on top.
Outside == {"idle", "setUp", "attempted", "tearDown", "runnerTearDown"}
Writing == {"write", "confirm"}
WorkInv ==
  /\ pc \in Outside => stack = <<>>
  /\ pc = "write" => work.tries < SetTries
  /\ pc = "confirm" => asked[work.setting] = work.to
  /\ pc \in Writing =>
       /\ work.setting \in Settings
       /\ IF work.entering THEN Open < Depth
          ELSE stack # <<>> /\ Top.kind = work.setting /\ work.to = "default"
  /\ pc = "watch" => stack # <<>> /\ Top.kind \in Monitored \cup Timed

StackInv == stack \in Seq(Contexts) /\ Open <= Depth
Works == [setting : Settings \cup {None}, to : {"default", "used"}, tries : 0..SetTries, entering : BOOLEAN]
ShapeInv ==
  /\ pc \in Outside \cup Writing \cup {"body", "watch", "unwind"} /\ RecordTypeOK
  /\ unstable \in BOOLEAN /\ attempt \in 0..MaxRetries
  /\ exc \in Errors \cup {"none", "skip"}
  /\ result \in {"none", "passed", "failed", "skipped"}
  /\ work \in Works
  /\ asked \in [Settings -> {"default", "used"}] /\ value \in [Settings -> {"default", "used"}]
  /\ unread \in [Messages -> 0..MaxMessages]
  /\ stuck \subseteq Settings

\* What is in a context, kind by kind.
LEMMA KindFacts ==
  ASSUME NEW c \in Contexts
  PROVE  /\ c.kind = "log" <=> c \in LogContexts
         /\ c.kind \in Monitored \cup Timed <=> c \in Watches
         /\ c.kind \in Settings <=> c \in [kind : Settings]
<1>1. c \in [kind : Settings] => c.kind \in {"manager", "calibration"}
  BY DEF Settings
<1>2. c \in LogContexts => c.kind = "log"
  BY DEF LogContexts
<1>3. c \in Watches => c.kind \in {"values", "latest", "processed", "still"}
  BY DEF Watches, Monitored, Timed
<1>4. c \in [kind : Settings] \/ c \in LogContexts \/ c \in Watches
  BY DEF Contexts
<1> QED BY <1>1, <1>2, <1>3, <1>4 DEF Settings, Monitored, Timed

\* A log context that read, or was read over, is one; so is a watch.
LEMMA LogContextType ==
  /\ \A args \in LogArgs : LogContext(args) \in LogContexts /\ LogContext(args).kind = "log"
  /\ \A c \in LogContexts :
       /\ [c EXCEPT !.inner = TRUE] \in LogContexts
       /\ \A k \in Messages : c.got[k] < MaxMessages => [c EXCEPT !.got[k] = @ + 1] \in LogContexts
<1> USE HelpersAssumption
<1>1. NoMessages \in [Messages -> 0..MaxMessages]
  BY DEF NoMessages
<1>2. ASSUME NEW args \in LogArgs PROVE LogContext(args) \in LogContexts /\ LogContext(args).kind = "log"
  BY <1>1 DEF LogContext, LogContexts
<1>3. ASSUME NEW c \in LogContexts
      PROVE  [c EXCEPT !.inner = TRUE] \in LogContexts
  BY DEF LogContexts
<1>4. ASSUME NEW c \in LogContexts, NEW k \in Messages, c.got[k] < MaxMessages
      PROVE  [c EXCEPT !.got[k] = @ + 1] \in LogContexts
  <2> DEFINE g == [c.got EXCEPT ![k] = @ + 1]
  <2>1. c.got \in [Messages -> 0..MaxMessages]
    BY DEF LogContexts
  <2>2. g \in [Messages -> 0..MaxMessages]
    BY <1>4, <2>1
  <2>3. [c EXCEPT !.got[k] = @ + 1] = [c EXCEPT !.got = g]
    OBVIOUS
  <2> HIDE DEF g
  <2> QED BY <2>2, <2>3 DEF LogContexts
<1> QED BY <1>2, <1>3, <1>4

(* Watches stay watches of their kind, whatever they see.                   *)
LEMMA WatchTypes ==
  ASSUME stamp \in Nat, readback \in Values
  PROVE  /\ \A args \in WatchArgs : /\ WatchContext(args) \in Watches
                                    /\ WatchContext(args).kind = args.kind
         /\ \A w \in Watches :
              /\ \A v \in Values, alarm, m \in BOOLEAN : Sees(w, v, alarm, m) \in Watches /\ Sees(w, v, alarm, m).kind = w.kind
              /\ w.queue # <<>> => CallBack(w) \in Watches /\ CallBack(w).kind = w.kind
<1> USE HelpersAssumption
<1>1. ASSUME NEW args \in WatchArgs
      PROVE  WatchContext(args) \in Watches /\ WatchContext(args).kind = args.kind
  <2>1. args.kind \in Monitored \cup Timed /\ args.want \in Seq(Values)
    OBVIOUS
  <2>2. << >> \in Seq(Values) /\ << readback >> \in Seq(Values)
    OBVIOUS
  <2> QED BY <2>1, <2>2 DEF WatchContext, Watches
<1>2. ASSUME NEW w \in Watches, NEW v \in Values, NEW alarm \in BOOLEAN, NEW m \in BOOLEAN
      PROVE  Sees(w, v, alarm, m) \in Watches /\ Sees(w, v, alarm, m).kind = w.kind
  <2>1. Append(w.had, v) \in Seq(Values) /\ Append(w.queue, v) \in Seq(Values)
    BY PushedFacts DEF Watches
  <2>2. w.queue # <<>> => Append(Front(w.queue), v) \in Seq(Values)
    BY FrontFacts, PushedFacts DEF Watches, Front
  <2> QED BY <2>1, <2>2 DEF Sees, Watches
<1>3. ASSUME NEW w \in Watches, w.queue # <<>>
      PROVE  CallBack(w) \in Watches /\ CallBack(w).kind = w.kind
  <2>1. Append(w.all, Head(w.queue)) \in Seq(Values) /\ Tail(w.queue) \in Seq(Values)
    BY <1>3, TailFacts, PushedFacts DEF Watches
  <2> QED BY <2>1 DEF CallBack, Watches
<1> QED BY <1>1, <1>2, <1>3

TypeInv == ShapeInv /\ StackInv /\ WorkInv

\* Before the first test.
LEMMA TypesInit == Init => TypeInv
<1> SUFFICES ASSUME Init PROVE TypeInv
  OBVIOUS
<1> USE HelpersAssumption DEF Init
<1>1. StackInv
  BY DEF StackInv, Open
<1>2. ShapeInv
  <2>1. /\ asked \in [Settings -> {"default", "used"}] /\ value \in [Settings -> {"default", "used"}]
        /\ unread \in [Messages -> 0..MaxMessages] /\ work \in Works
    BY DEF NoMessages, NoWork, Works
  <2>2. RecordTypeOK
    BY DEF RecordInit, RecordTypeOK, Values
  <2>3. /\ pc = "idle" /\ unstable = FALSE /\ attempt = 0 /\ exc = "none" /\ result = "none" /\ stuck = {}
        /\ 0 \in 0..MaxRetries
    OBVIOUS
  <2> QED BY ONLY <2>1, <2>2, <2>3 DEF ShapeInv, Outside
<1>3. WorkInv
  BY DEF WorkInv, Writing
<1> QED BY <1>1, <1>2, <1>3 DEF TypeInv

\* The runner and unstable_test count attempts up to max_retries; they open no context.
LEMMA TypesRunner ==
  ASSUME TypeInv,
         \/ StartTest \/ SetUp \/ Skip \/ BodyEnds \/ Unwound
         \/ FirstRunFails \/ AttemptOver \/ TearDown \/ RunnerTearDown
         \/ \E e \in Errors : SetUpRaises(e) \/ BodyRaises(e) \/ TearDownRaises(e)
  PROVE  TypeInv'
<1> USE HelpersAssumption DEF Outside, Writing
<1>1. UNCHANGED <<record, stack, work, asked, value, unread, stuck>>
  BY DEF StartTest, SetUp, Skip, BodyEnds, Unwound, FirstRunFails, AttemptOver, TearDown,
         RunnerTearDown, SetUpRaises, BodyRaises, TearDownRaises, test, ioc, history
<1>2. /\ pc' \in Outside \cup {"body", "unwind"}
      /\ pc' \in Outside => stack = <<>>
  BY DEF StartTest, SetUp, Skip, BodyEnds, Unwound, FirstRunFails, AttemptOver, TearDown,
         RunnerTearDown, SetUpRaises, BodyRaises, TearDownRaises, TypeInv, WorkInv
<1>3. /\ unstable' \in BOOLEAN /\ attempt' \in 0..MaxRetries
      /\ exc' \in Errors \cup {"none", "skip"}
      /\ result' \in {"none", "passed", "failed", "skipped"}
  <2> USE DEF TypeInv, ShapeInv
  <2>1. CASE StartTest \/ SetUp \/ Skip \/ BodyEnds \/ Unwound
    BY <2>1 DEF StartTest, SetUp, Skip, BodyEnds, Unwound, test
  <2>2. CASE FirstRunFails \/ AttemptOver
    BY <2>2 DEF FirstRunFails, AttemptOver, test
  <2>3. CASE TearDown
    BY <2>3 DEF TearDown
  <2>4. CASE RunnerTearDown
    BY <2>4 DEF RunnerTearDown
  <2>5. ASSUME NEW e \in Errors, SetUpRaises(e) \/ BodyRaises(e) \/ TearDownRaises(e)
        PROVE  <1>3!1 /\ <1>3!2 /\ <1>3!3
    BY <2>5 DEF SetUpRaises, BodyRaises, TearDownRaises
  <2> QED BY <2>1, <2>2, <2>3, <2>4, <2>5
<1>4. ShapeInv'
  BY <1>1, <1>2, <1>3 DEF TypeInv, ShapeInv, RecordTypeOK, record
<1>5. StackInv'
  BY <1>1 DEF TypeInv, StackInv, Open
<1>6. WorkInv'
  BY <1>1, <1>2 DEF WorkInv
<1> QED BY <1>4, <1>5, <1>6 DEF TypeInv

\* ManagerMode and use_calibration_file: a setting is being entered where there is room
\* for it, or left with its context on top.
LEMMA TypesSettings ==
  ASSUME TypeInv,
         \/ LeaveSetting \/ WriteSetting \/ Confirmed \/ TryAgain
         \/ \E e \in Errors : SettingRaises(e)
         \/ \E s \in Settings : EnterSetting(s) \/ Obeys(s)
  PROVE  TypeInv'
<1> USE HelpersAssumption DEF TypeInv
<1>1. CASE LeaveSetting \/ TryAgain
  <2>1. UNCHANGED <<record, test, ioc, history>>
    BY <1>1 DEF LeaveSetting, TryAgain
  <2>2. StackInv'
    BY <2>1 DEF StackInv, Open, test
  <2>5. work' \in Works /\ pc' = "write"
    <3>1. CASE LeaveSetting
      <4>1. PICK s \in Settings : s = Top.kind
        BY <3>1 DEF LeaveSetting
      <4>2. work' = [setting |-> s, to |-> "default", tries |-> 0, entering |-> FALSE] /\ pc' = "write"
        BY <3>1, <4>1 DEF LeaveSetting
      <4>3. 0 \in 0..SetTries
        OBVIOUS
      <4> QED BY ONLY <4>2, <4>3 DEF Works
    <3>2. CASE TryAgain
      BY <3>2 DEF TryAgain, ShapeInv
    <3> QED BY <1>1, <3>1, <3>2
  <2>3. ShapeInv'
    BY <2>1, <2>5 DEF ShapeInv, RecordTypeOK, Writing, test, ioc, history, record
  <2>4. WorkInv'
    BY <1>1, <2>1 DEF LeaveSetting, TryAgain, WorkInv, ShapeInv, Outside, Writing, Open, Top, test, ioc
  <2> QED BY <2>2, <2>3, <2>4
<1>2. CASE WriteSetting
  <2> USE <1>2 DEF WriteSetting
  <2>1. work.tries < SetTries /\ work.setting \in Settings /\ work \in Works
    BY DEF WorkInv, ShapeInv, Writing
  <2>2. /\ work'.setting = work.setting /\ work'.to = work.to /\ work'.entering = work.entering
        /\ work'.tries = work.tries + 1 /\ work' \in Works
    BY <2>1 DEF Works
  <2>3. asked' \in [Settings -> {"default", "used"}] /\ asked'[work.setting] = work.to
    BY <2>1 DEF ShapeInv, Works
  <2>4. StackInv'
    BY DEF StackInv, Open, test
  <2>5. ShapeInv'
    BY <2>2, <2>3 DEF ShapeInv, RecordTypeOK, Writing, test, history, record
  <2>6. WorkInv'
    BY <2>2, <2>3 DEF WorkInv, Outside, Writing, Open, Top, test
  <2> QED BY <2>4, <2>5, <2>6
<1>3. CASE Confirmed \/ \E e \in Errors : SettingRaises(e)
  <2>1. /\ pc \in Writing /\ work.setting \in Settings
        /\ IF work.entering THEN Open < Depth ELSE stack # <<>>
    BY <1>3 DEF Confirmed, SettingRaises, WorkInv, Writing
  <2>2. [kind |-> work.setting] \in Contexts
    BY <2>1 DEF Contexts
  <2>3. stack' \in Seq(Contexts) /\ Len(stack') <= Depth
    <3>1. stack' \in {stack, Outer, Append(stack, [kind |-> work.setting])}
      BY <1>3 DEF Confirmed, SettingRaises
    <3>2. CASE stack' = stack
      BY <3>2 DEF StackInv, Open
    <3>3. CASE stack' = Outer /\ stack # <<>>
      BY <3>3, FrontFacts DEF StackInv, Open, Outer
    <3>4. CASE stack' = Append(stack, [kind |-> work.setting]) /\ Open < Depth
      BY <3>4, <2>2, PushedFacts DEF StackInv, Open
    <3> QED BY <1>3, <2>1, <3>1, <3>2, <3>3, <3>4 DEF Confirmed, SettingRaises
  <2>4. /\ pc' \in {"body", "unwind"} /\ exc' \in Errors \cup {"none", "skip"}
        /\ stuck' \subseteq Settings /\ work' = NoWork
        /\ UNCHANGED <<record, unstable, attempt, result, ioc>>
    BY <1>3, <2>1 DEF Confirmed, SettingRaises, Onward, ShapeInv
  <2>5. StackInv'
    BY <2>3 DEF StackInv, Open
  <2>6. ShapeInv'
    BY <2>4 DEF ShapeInv, RecordTypeOK, NoWork, Works, ioc, record
  <2>7. WorkInv'
    BY <2>4 DEF WorkInv, Outside, Writing
  <2> QED BY <2>5, <2>6, <2>7
<1>4. ASSUME NEW s \in Settings, EnterSetting(s) PROVE TypeInv'
  <2> USE <1>4 DEF EnterSetting
  <2>1. StackInv'
    BY DEF StackInv, Open, test
  <2>2. ShapeInv'
    BY DEF ShapeInv, RecordTypeOK, Works, Writing, test, ioc, history, record
  <2>3. WorkInv'
    BY DEF WorkInv, Outside, Writing, Open, test, ioc
  <2> QED BY <2>1, <2>2, <2>3
<1>5. ASSUME NEW s \in Settings, Obeys(s) PROVE TypeInv'
  <2> USE <1>5 DEF Obeys
  <2>1. StackInv'
    BY DEF StackInv, Open, test
  <2>2. ShapeInv'
    BY DEF ShapeInv, RecordTypeOK, test, history, record
  <2>3. WorkInv'
    BY DEF WorkInv, Open, Top, test
  <2> QED BY <2>1, <2>2, <2>3
<1> QED BY <1>1, <1>2, <1>3, <1>4, <1>5

\* Contexts open and close, and are told of what happens, while the body runs: that the
\* ones that are open then are contexts is what there is to show.
LEMMA TypesOfBody ==
  ASSUME TypeInv, stack' \in Seq(Contexts), Len(stack') <= Depth,
         pc' \in {"body", "watch", "unwind"},
         pc' = "watch" => stack' # <<>> /\ Top'.kind \in Monitored \cup Timed,
         exc' \in Errors \cup {"none", "skip"}, unread' \in [Messages -> 0..MaxMessages],
         RecordTypeOK', UNCHANGED <<unstable, attempt, result, work, asked, value, stuck>>
  PROVE  TypeInv'
<1>1. StackInv'
  BY DEF StackInv, Open
<1>2. ShapeInv'
  BY DEF TypeInv, ShapeInv
<1>3. WorkInv'
  BY DEF WorkInv, Outside, Writing, Top
<1> QED BY <1>1, <1>2, <1>3 DEF TypeInv

\* A context is put on top, or the one on top is left.
LEMMA OpenedOrLeft ==
  ASSUME TypeInv
  PROVE  /\ Open \in Nat /\ \A i \in 1..Open : stack[i] \in Contexts
         /\ \A c \in Contexts : Open < Depth => Append(stack, c) \in Seq(Contexts)
                                                /\ Len(Append(stack, c)) <= Depth
         /\ stack # <<>> => /\ Outer \in Seq(Contexts) /\ Len(Outer) <= Depth
                            /\ Open \in 1..Open /\ Top \in Contexts
<1> USE HelpersAssumption DEF TypeInv, StackInv, Open
<1>1. Open \in Nat /\ \A i \in 1..Open : stack[i] \in Contexts
  OBVIOUS
<1>2. ASSUME NEW c \in Contexts, Open < Depth
      PROVE  Append(stack, c) \in Seq(Contexts) /\ Len(Append(stack, c)) <= Depth
  BY <1>2, PushedFacts
<1>3. ASSUME stack # <<>>
      PROVE  Outer \in Seq(Contexts) /\ Len(Outer) <= Depth /\ Open \in 1..Open /\ Top \in Contexts
  BY <1>3, FrontFacts DEF Outer, Top
<1> QED BY <1>1, <1>2, <1>3

\* Every open context may be told, and stays a context.
LEMMA AllTold ==
  ASSUME TypeInv, NEW t \in [1..Open -> Contexts]
  PROVE  t \in Seq(Contexts) /\ Len(t) = Open /\ Open <= Depth
<1>1. Open \in Nat /\ Open <= Depth
  BY DEF TypeInv, StackInv, Open
<1>2. t \in Seq(Contexts)
  BY <1>1
<1>3. Len(t) = Open
  BY <1>1
<1> QED BY <1>1, <1>2, <1>3

\* assert_log_messages reads the log, which empties what is unread.
LEMMA TypesLog ==
  ASSUME TypeInv, LeaveLog \/ \E args \in LogArgs : EnterLog(args)
  PROVE  TypeInv'
<1>0. NoMessages \in [Messages -> 0..MaxMessages]
  BY HelpersAssumption DEF NoMessages
<1>1. CASE LeaveLog
  <2>1. Outer \in Seq(Contexts) /\ Len(Outer) <= Depth
    BY <1>1, OpenedOrLeft DEF LeaveLog
  <2>2. exc' \in {"none", "assert"} /\ pc' \in {"body", "unwind"} /\ stack' = Outer /\ unread' = NoMessages
        /\ UNCHANGED <<record, unstable, attempt, result, work, asked, value, stuck>>
    BY <1>1 DEF LeaveLog
  <2>3. RecordTypeOK'
    BY <2>2 DEF TypeInv, ShapeInv, RecordTypeOK, record
  <2> QED BY <1>0, <2>1, <2>2, <2>3, TypesOfBody DEF Errors
<1>2. ASSUME NEW args \in LogArgs, EnterLog(args) PROVE TypeInv'
  <2> DEFINE F(i) == IF stack[i].kind = "log" THEN [stack[i] EXCEPT !.inner = TRUE] ELSE stack[i]
             t == [i \in 1..Open |-> F(i)]
  <2>1. \A i \in 1..Open : F(i) \in Contexts
    BY OpenedOrLeft, KindFacts, LogContextType DEF Contexts
  <2>2. t \in Seq(Contexts) /\ Len(t) = Open
    <3>1. t \in [1..Open -> Contexts]
      BY <2>1
    <3> HIDE DEF t
    <3> QED BY <3>1, AllTold
  <2>3. LogContext(args) \in Contexts
    BY LogContextType DEF Contexts
  <2>4. /\ Open < Depth /\ pc = "body" /\ stack' = Append(t, LogContext(args)) /\ unread' = NoMessages
        /\ UNCHANGED <<pc, record, unstable, attempt, exc, result, work, asked, value, stuck>>
    BY <1>2 DEF EnterLog, history
  <2> HIDE DEF t
  <2>5. stack' \in Seq(Contexts) /\ Len(stack') <= Depth
    BY <2>2, <2>3, <2>4, OpenedOrLeft, PushedFacts, HelpersAssumption
  <2>6. RecordTypeOK' /\ exc' \in Errors \cup {"none", "skip"}
    BY <2>4 DEF TypeInv, ShapeInv, RecordTypeOK, record
  <2> QED BY <1>0, <2>4, <2>5, <2>6, TypesOfBody
<1> QED BY <1>1, <1>2

\* The watches: a monitor is first called back with the value the record has.
LEMMA TypesWatches ==
  ASSUME TypeInv,
         \/ LeaveWatch \/ WatchSatisfied \/ Unwatched
         \/ \E e \in Errors : WatchRaises(e)
         \/ \E args \in WatchArgs : EnterWatch(args)
  PROVE  TypeInv'
<1>1. CASE LeaveWatch \/ WatchSatisfied \/ Unwatched \/ \E e \in Errors : WatchRaises(e)
  <2>1. stack # <<>> /\ stack' \in {stack, Outer}
    BY <1>1 DEF LeaveWatch, WatchSatisfied, Unwatched, WatchRaises, Judging, TypeInv, WorkInv, test
  <2>2. stack' \in Seq(Contexts) /\ Len(stack') <= Depth
    BY <2>1, OpenedOrLeft DEF TypeInv, StackInv, Open
  <2>3. /\ pc' \in {"body", "watch", "unwind"} /\ (pc' = "watch" => stack' = stack)
        /\ exc' \in Errors \cup {exc}
        /\ UNCHANGED <<record, unstable, attempt, result, work, asked, value, unread, stuck>>
    BY <1>1 DEF LeaveWatch, WatchSatisfied, Unwatched, WatchRaises, test, ioc, history
  <2>4. RecordTypeOK' /\ exc' \in Errors \cup {"none", "skip"} /\ unread' \in [Messages -> 0..MaxMessages]
    BY <2>3 DEF TypeInv, ShapeInv, RecordTypeOK, record
  <2>5. pc' = "watch" => stack' # <<>> /\ Top'.kind \in Monitored \cup Timed
    BY <1>1, <2>1, <2>3 DEF LeaveWatch, WatchSatisfied, Unwatched, WatchRaises, Watching, Top, Open, TypeInv,
                            WorkInv, test
  <2> QED BY <2>2, <2>3, <2>4, <2>5, TypesOfBody
<1>2. ASSUME NEW args \in WatchArgs, EnterWatch(args) PROVE TypeInv'
  <2>1. RecordTypeOK'
    BY <1>2, HelpersAssumption DEF EnterWatch, RecordFound, TypeInv, ShapeInv, RecordTypeOK, record
  <2>2. args.kind \in Monitored \cup Timed /\ args.want \in Seq(Values)
    BY HelpersAssumption
  <2>3. WatchContext(args)' \in Contexts
    <3>1. <<>> \in Seq(Values) /\ <<readback'>> \in Seq(Values) /\ stamp' \in Nat
      BY <2>1, HelpersAssumption DEF RecordTypeOK
    <3>2. WatchContext(args)' \in Watches
      BY <2>2, <3>1 DEF WatchContext, Watches
    <3> QED BY <3>2 DEF Contexts
  <2>4. /\ Open < Depth /\ pc = "body" /\ stack' = Append(stack, WatchContext(args)')
        /\ UNCHANGED <<pc, unstable, attempt, exc, result, work, asked, value, unread, stuck>>
    BY <1>2 DEF EnterWatch, ioc, history
  <2>5. stack' \in Seq(Contexts) /\ Len(stack') <= Depth
    BY <2>3, <2>4, OpenedOrLeft
  <2>6. exc' \in Errors \cup {"none", "skip"} /\ unread' \in [Messages -> 0..MaxMessages]
    BY <2>4 DEF TypeInv, ShapeInv
  <2> QED BY <2>1, <2>4, <2>5, <2>6, TypesOfBody
<1> QED BY <1>1, <1>2

\* What the IOC prints, and what the record does, reaches every context that listens.
LEMMA TypesIoc ==
  ASSUME TypeInv,
         \/ \E k \in Messages : Prints(k)
         \/ \E v \in Values, alarm \in BOOLEAN, merged \in SUBSET (1..Open) : RecordProcesses(v, alarm, merged)
         \/ \E i \in 1..Open : CallsBack(i)
  PROVE  TypeInv'
<1> USE HelpersAssumption
<1>0. stamp \in Nat /\ readback \in Values
  BY DEF TypeInv, ShapeInv, RecordTypeOK
<1>1. ASSUME NEW k \in Messages, Prints(k) PROVE TypeInv'
  <2> DEFINE F(i) == IF stack[i].kind = "log" THEN [stack[i] EXCEPT !.got[k] = @ + 1] ELSE stack[i]
  <2>1. \A i \in 1..Open : F(i) \in Contexts
    BY <1>1, OpenedOrLeft, KindFacts, LogContextType DEF Contexts, Prints
  <2>2. stack' = [i \in 1..Open |-> F(i)]
    BY <1>1 DEF Prints
  <2>3. stack' \in Seq(Contexts) /\ Len(stack') <= Depth
    <3>1. stack' \in [1..Open -> Contexts]
      BY <2>1, <2>2
    <3> QED BY <3>1, AllTold
  <2>4. /\ pc' \in {"body", "unwind"} /\ unread' = [unread EXCEPT ![k] = @ + 1] /\ unread[k] < MaxMessages
        /\ UNCHANGED <<record, unstable, attempt, exc, result, work, asked, value, stuck>>
    BY <1>1 DEF Prints, history
  <2>5. RecordTypeOK' /\ exc' \in Errors \cup {"none", "skip"} /\ unread' \in [Messages -> 0..MaxMessages]
    BY <2>4 DEF TypeInv, ShapeInv, RecordTypeOK, record
  <2> QED BY <2>3, <2>4, <2>5, TypesOfBody
<1>2. ASSUME NEW v \in Values, NEW alarm \in BOOLEAN, NEW merged \in SUBSET (1..Open), RecordProcesses(v, alarm, merged) PROVE TypeInv'
  <2> DEFINE F(i) == IF Watching(i) THEN Sees(stack[i], v, alarm, i \in merged) ELSE stack[i]
  <2>1. ASSUME NEW i \in 1..Open PROVE F(i) \in Contexts
    <3>1. stack[i] \in Contexts /\ (i \in merged) \in BOOLEAN
      BY OpenedOrLeft
    <3>2. Watching(i) => stack[i] \in Watches
      BY <3>1, KindFacts DEF Watching
    <3>3. Watching(i) => Sees(stack[i], v, alarm, i \in merged) \in Contexts
      BY <1>0, <3>1, <3>2, WatchTypes DEF Contexts
    <3> QED BY <3>1, <3>3
  <2>2. /\ stack' = [i \in 1..Open |-> F(i)] /\ stamp' = stamp + 1 /\ readback' = v /\ stamp < MaxEvents
        /\ pc \in {"body", "watch"} /\ 1 <= Open
        /\ UNCHANGED <<pc, unstable, attempt, exc, result, work, asked, value, unread, stuck>>
    BY <1>2, OpenedOrLeft DEF RecordProcesses, ioc, history
  <2>3. stack' \in Seq(Contexts) /\ Len(stack') = Open /\ Open <= Depth
    <3>1. stack' \in [1..Open -> Contexts]
      BY <2>1, <2>2
    <3> QED BY <3>1, AllTold
  <2>4. RecordTypeOK' /\ exc' \in Errors \cup {"none", "skip"} /\ unread' \in [Messages -> 0..MaxMessages]
    BY <2>2 DEF TypeInv, ShapeInv, RecordTypeOK
  <2>5. pc' = "watch" => stack' # <<>> /\ Top'.kind \in Monitored \cup Timed
    <3>1. Open \in 1..Open /\ stack[Open] \in Contexts /\ stack' # <<>> /\ Top' = F(Open)
      BY <2>2, <2>3, OpenedOrLeft DEF Top, Open
    <3>2. pc = "watch" => stack[Open].kind \in Monitored \cup Timed
      BY DEF TypeInv, WorkInv, Top, Open
    <3>3. stack[Open] \in Watches => Sees(stack[Open], v, alarm, Open \in merged).kind = stack[Open].kind
      <4> DEFINE m == Open \in merged
      <4>1. m \in BOOLEAN
        OBVIOUS
      <4> HIDE DEF m
      <4>2. \A w \in Watches : Sees(w, v, alarm, m).kind = w.kind
        BY <1>0, <4>1, WatchTypes
      <4> QED BY <4>2 DEF m
    <3> QED BY <2>2, <3>1, <3>2, <3>3, KindFacts DEF Watching
  <2> QED BY <2>2, <2>3, <2>4, <2>5, TypesOfBody
<1>3. ASSUME NEW i \in 1..Open, CallsBack(i) PROVE TypeInv'
  <2>1. stack[i] \in Contexts /\ stack[i].kind \in Monitored /\ stack[i].queue # <<>>
    BY <1>3, OpenedOrLeft DEF CallsBack
  <2>2. CallBack(stack[i]) \in Contexts
    BY <1>0, <2>1, KindFacts, WatchTypes DEF Contexts
  <2>3. /\ stack' = [stack EXCEPT ![i] = CallBack(stack[i])] /\ pc \in {"body", "watch"}
        /\ UNCHANGED <<pc, record, unstable, attempt, exc, result, work, asked, value, unread, stuck>>
    BY <1>3 DEF CallsBack, ioc, history
  <2>4. stack' \in Seq(Contexts) /\ Len(stack') = Open /\ Open <= Depth /\ Open >= 1
    BY <2>2, <2>3 DEF TypeInv, StackInv, Open
  <2>5. RecordTypeOK' /\ exc' \in Errors \cup {"none", "skip"} /\ unread' \in [Messages -> 0..MaxMessages]
    BY <2>3 DEF TypeInv, ShapeInv, RecordTypeOK, record
  <2>6. pc' = "watch" => stack' # <<>> /\ Top'.kind \in Monitored \cup Timed
    <3>1. CallBack(stack[i]).kind = stack[i].kind
      BY <1>0, <2>1, KindFacts, WatchTypes
    <3>2. Open' = Open /\ Top'.kind = Top.kind /\ stack' # <<>>
      <4>1. stack \in Seq(Contexts) /\ stack' = [stack EXCEPT ![i] = CallBack(stack[i])]
        BY <2>3 DEF TypeInv, StackInv
      <4>2. Open' = Open /\ Open \in 1..Open
        BY <2>4 DEF Open
      <4>3. stack'[Open] = IF i = Open THEN CallBack(stack[i]) ELSE stack[Open]
        BY <4>1, <4>2 DEF Open
      <4> QED BY <2>4, <3>1, <4>2, <4>3 DEF Top, Open
    <3> QED BY <2>3, <3>2 DEF TypeInv, WorkInv
  <2> QED BY <2>3, <2>4, <2>5, <2>6, TypesOfBody
<1> QED BY <1>1, <1>2, <1>3

(* Every step keeps the types.                                              *)
LEMMA TypesStep == TypeInv /\ [Next]_vars => TypeInv'
<1> SUFFICES ASSUME TypeInv, [Next]_vars PROVE TypeInv'
  OBVIOUS
<1>1. CASE Next
  BY <1>1, TypesRunner, TypesSettings, TypesLog, TypesWatches, TypesIoc, Zenon DEF Next
<1>2. CASE UNCHANGED vars
  <2>1. ShapeInv'
    BY <1>2 DEF vars, record, test, ioc, history, TypeInv, ShapeInv, RecordTypeOK
  <2>2. StackInv' /\ WorkInv'
    BY <1>2 DEF vars, test, ioc, TypeInv, StackInv, WorkInv, Open, Top
  <2> QED BY <2>1, <2>2 DEF TypeInv
<1> QED BY <1>1, <1>2

\* In every state the contexts, the settings and the counters have their shape, whatever
\* the numbers of retries, tries, contexts and messages.
THEOREM HelpersTypes == Spec => []TypeOK
<1>1. Spec => []TypeInv
  BY TypesInit, TypesStep, PTL DEF Spec
<1>2. TypeInv /\ FixturesInv => TypeOK
  <2> SUFFICES ASSUME TypeInv, FixturesInv PROVE TypeOK
    OBVIOUS
  <2>1. due \in 0..2
    BY DEF FixturesInv, FixturesDue, InBody
  <2>2. work.tries \in 0..SetTries /\ Len(stack) <= Depth
    BY DEF TypeInv, ShapeInv, StackInv, Open, Works
  <2> QED BY <2>1, <2>2 DEF TypeInv, ShapeInv, TypeOK
<1> QED BY <1>1, <1>2, FixturesAlways, PTL

-----------------------------------------------------------------------------
(* Settings.                                                                   *)

InUse(s) == \E i \in 1..Open : stack[i].kind = s
BeingSet(s) == pc \in Writing /\ work.setting = s /\ ~(work.entering /\ work.tries = 0)

\* At any time a setting that is not in use, nor being set, has its default, and the IOC
\* has obeyed.
SettingsInv ==
  \A s \in Settings : s \notin stuck /\ ~InUse(s) /\ ~BeingSet(s)
                        => asked[s] = "default" /\ value[s] = "default"

\* The contexts of settings that are open stay where they are: others may be opened or
\* left above them, or told what happened.
Below == \A i \in 1..Open : stack[i].kind \in Settings
                              => i \in 1..Open' /\ stack'[i].kind = stack[i].kind

\* What opens, tells and leaves other contexts leaves the settings in use.
LEMMA OtherContexts ==
  ASSUME TypeInv,
         \/ LeaveLog \/ LeaveWatch \/ WatchSatisfied \/ Unwatched
         \/ \E e \in Errors : WatchRaises(e)
         \/ \E args \in LogArgs : EnterLog(args)
         \/ \E args \in WatchArgs : EnterWatch(args)
         \/ \E k \in Messages : Prints(k)
         \/ \E v \in Values, alarm \in BOOLEAN, merged \in SUBSET (1..Open) : RecordProcesses(v, alarm, merged)
         \/ \E i \in 1..Open : CallsBack(i)
  PROVE  Below /\ pc \notin Writing /\ pc' \notin Writing /\ UNCHANGED <<asked, value, stuck>>
<1>0. stamp \in Nat /\ readback \in Values /\ stack \in Seq(Contexts) /\ Open \in Nat
      /\ \A i \in 1..Open : stack[i] \in Contexts
  BY HelpersAssumption, OpenedOrLeft DEF TypeInv, ShapeInv, StackInv, RecordTypeOK
<1>1. pc \notin Writing /\ pc' \notin Writing /\ UNCHANGED <<asked, value, stuck>>
  BY DEF LeaveLog, LeaveWatch, WatchSatisfied, Unwatched, WatchRaises, Judging, EnterLog, EnterWatch,
         Prints, RecordProcesses, CallsBack, Writing, ioc, history
<1>2. ASSUME NEW t \in Seq(Contexts), Len(t) = Open, NEW c \in Contexts, stack' = Append(t, c),
             \A i \in 1..Open : t[i].kind = stack[i].kind
      PROVE  Below
  BY <1>0, <1>2, PushedFacts DEF Below, Open
<1>3. ASSUME stack # <<>>, stack' = Outer, Top.kind \notin Settings
      PROVE  Below
  BY <1>0, <1>3, FrontFacts DEF Below, Open, Outer, Top
<1>4. ASSUME DOMAIN stack' = 1..Open, Len(stack') = Open,
             \A i \in 1..Open : stack[i].kind \in Settings => stack'[i].kind = stack[i].kind
      PROVE  Below
  BY <1>4 DEF Below, Open
<1>5. ASSUME LeaveLog PROVE Below
  BY <1>3, <1>5 DEF LeaveLog, Settings
<1>6. ASSUME LeaveWatch \/ WatchSatisfied \/ Unwatched \/ \E e \in Errors : WatchRaises(e)
      PROVE  Below
  <2>1. stack # <<>> /\ stack' \in {stack, Outer}
    BY <1>6 DEF LeaveWatch, WatchSatisfied, Unwatched, WatchRaises, Judging, TypeInv, WorkInv, test
  <2>2. CASE stack' = stack
    BY <2>2 DEF Below, Open
  <2>3. CASE stack' = Outer
    <3>1. Top.kind \notin Settings
      <4>1. CASE pc = "watch"
        BY <4>1 DEF TypeInv, WorkInv, Monitored, Timed, Settings
      <4>2. CASE pc # "watch"
        BY <1>6, <2>1, <4>2 DEF LeaveWatch, WatchSatisfied, Unwatched, WatchRaises, Judging, Watching,
                                Top, Open, test, Monitored, Timed, Settings
      <4> QED BY <4>1, <4>2
    <3> QED BY <1>3, <2>1, <2>3, <3>1
  <2> QED BY <2>1, <2>2, <2>3
<1>7. ASSUME NEW args \in LogArgs, EnterLog(args) PROVE Below
  <2> DEFINE t == [i \in 1..Open |->
                     IF stack[i].kind = "log" THEN [stack[i] EXCEPT !.inner = TRUE] ELSE stack[i]]
  <2>1. ASSUME NEW i \in 1..Open PROVE t[i] \in Contexts /\ t[i].kind = stack[i].kind
    BY <1>0, KindFacts, LogContextType DEF Contexts
  <2>2. stack' = Append(t, LogContext(args)) /\ LogContext(args) \in Contexts
    BY <1>7, LogContextType DEF EnterLog, Contexts
  <2>3. t \in [1..Open -> Contexts]
    BY <2>1
  <2> HIDE DEF t
  <2> QED BY <1>2, <2>1, <2>2, <2>3, AllTold
<1>8. ASSUME NEW args \in WatchArgs, EnterWatch(args) PROVE Below
  <2>1. stack' = Append(stack, WatchContext(args)') /\ TypeInv'
    BY <1>8, TypesWatches DEF EnterWatch
  <2> QED BY <1>0, <2>1 DEF Below, Open
<1>9. ASSUME NEW k \in Messages, Prints(k) PROVE Below
  BY <1>0, <1>4, <1>9 DEF Prints, Settings
<1>10. ASSUME NEW v \in Values, NEW alarm \in BOOLEAN, NEW merged \in SUBSET (1..Open), RecordProcesses(v, alarm, merged) PROVE Below
  BY <1>0, <1>4, <1>10 DEF RecordProcesses, Watching, Settings, Monitored, Timed
<1>11. ASSUME NEW i \in 1..Open, CallsBack(i) PROVE Below
  <2>1. stack' = [stack EXCEPT ![i] = CallBack(stack[i])] /\ stack[i].kind \notin Settings
    BY <1>11 DEF CallsBack, Settings, Monitored
  <2>2. DOMAIN stack' = 1..Open /\ Len(stack') = Open /\ \A j \in 1..Open : j # i => stack'[j] = stack[j]
    BY <1>0, <2>1 DEF Open
  <2> QED BY <1>4, <2>1, <2>2
<1> QED BY <1>1, <1>5, <1>6, <1>7, <1>8, <1>9, <1>10, <1>11

\* A setting in use below stays in use, so that what does not set anything keeps the
\* invariant.
LEMMA SettingsLeftAlone ==
  ASSUME TypeInv, SettingsInv, Below, pc \notin Writing, pc' \notin Writing,
         UNCHANGED <<asked, value, stuck>>
  PROVE  SettingsInv'
<1> SUFFICES ASSUME NEW s \in Settings, s \notin stuck, ~InUse(s)'
             PROVE  asked[s] = "default" /\ value[s] = "default"
  BY DEF SettingsInv
<1>1. ~InUse(s)
  BY DEF InUse, Below
<1> QED BY <1>1 DEF SettingsInv, BeingSet

(* The steps of the runner touch no setting.                                *)
LEMMA SettingsRunner ==
  ASSUME TypeInv, SettingsInv,
         \/ StartTest \/ SetUp \/ Skip \/ BodyEnds \/ Unwound
         \/ FirstRunFails \/ AttemptOver \/ TearDown \/ RunnerTearDown
         \/ \E e \in Errors : SetUpRaises(e) \/ BodyRaises(e) \/ TearDownRaises(e)
  PROVE  SettingsInv'
<1>1. UNCHANGED <<stack, asked, value, stuck>>
  BY DEF StartTest, SetUp, Skip, BodyEnds, Unwound, FirstRunFails, AttemptOver, TearDown,
         RunnerTearDown, SetUpRaises, BodyRaises, TearDownRaises, test, ioc, history
<1>2. pc \notin Writing /\ pc' \notin Writing
  BY DEF StartTest, SetUp, Skip, BodyEnds, Unwound, FirstRunFails, AttemptOver, TearDown,
         RunnerTearDown, SetUpRaises, BodyRaises, TearDownRaises, Writing
<1>3. Below
  BY <1>1 DEF Below, Open
<1> QED BY <1>1, <1>2, <1>3, SettingsLeftAlone

\* A context of a setting opens once the setting was read back as used, and is left once
\* it was read back as the default; a step that raises in between leaves it stuck.
LEMMA SettingsSet ==
  ASSUME TypeInv, SettingsInv,
         \/ LeaveSetting \/ WriteSetting \/ Confirmed \/ TryAgain
         \/ \E e \in Errors : SettingRaises(e)
         \/ \E s \in Settings : EnterSetting(s) \/ Obeys(s)
  PROVE  SettingsInv'
<1> SUFFICES ASSUME NEW s \in Settings, s \notin stuck', ~InUse(s)', ~BeingSet(s)'
             PROVE  asked'[s] = "default" /\ value'[s] = "default"
  BY DEF SettingsInv
<1>0. stack \in Seq(Contexts) /\ Open \in Nat
  BY OpenedOrLeft DEF TypeInv, StackInv
<1>1. CASE LeaveSetting
  <2>1. UNCHANGED <<stack, asked, value, stuck>> /\ pc \notin Writing
    BY <1>1 DEF LeaveSetting, test, ioc, history, Writing
  <2>2. ~InUse(s) /\ ~BeingSet(s)
    BY <2>1 DEF InUse, Open, BeingSet
  <2> QED BY <2>1, <2>2 DEF SettingsInv
<1>2. CASE WriteSetting
  <2>1. /\ UNCHANGED <<stack, value, stuck>> /\ asked' = [asked EXCEPT ![work.setting] = work.to]
        /\ work' = [work EXCEPT !.tries = @ + 1] /\ pc = "write" /\ pc' = "confirm"
    BY <1>2 DEF WriteSetting, test, history
  <2>2. work \in Works /\ asked \in [Settings -> {"default", "used"}]
    BY DEF TypeInv, ShapeInv
  <2>3. work'.setting = work.setting /\ work'.tries = work.tries + 1 /\ work.tries \in Nat
    BY <2>1, <2>2, HelpersAssumption DEF Works
  <2>4. s # work.setting
    BY <2>1, <2>3 DEF BeingSet, Writing
  <2>5. ~InUse(s) /\ ~BeingSet(s) /\ s \notin stuck
    BY <2>1, <2>4 DEF InUse, Open, BeingSet
  <2>6. asked'[s] = asked[s]
    BY <2>1, <2>2, <2>4
  <2> QED BY <2>1, <2>5, <2>6 DEF SettingsInv
<1>3. CASE TryAgain
  <2>1. UNCHANGED <<stack, asked, value, stuck, work>> /\ pc \in Writing /\ pc' \in Writing
    BY <1>3 DEF TryAgain, test, ioc, history, Writing
  <2>2. ~InUse(s) /\ ~BeingSet(s)
    BY <2>1 DEF InUse, Open, BeingSet
  <2> QED BY <2>1, <2>2 DEF SettingsInv
<1>4. CASE Confirmed
  <2>1. /\ UNCHANGED <<asked, value>> /\ value[work.setting] = work.to /\ asked[work.setting] = work.to
        /\ stack' = IF work.entering THEN Append(stack, [kind |-> work.setting]) ELSE Outer
        /\ stuck' = IF work.entering THEN stuck ELSE stuck \ {work.setting}
        /\ pc \in Writing
    BY <1>4 DEF Confirmed, ioc, TypeInv, WorkInv, Writing
  <2>2. CASE work.entering
    <3>1. Open' = Open + 1 /\ stack'[Open'].kind = work.setting
          /\ \A i \in 1..Open : i \in 1..Open' /\ stack'[i] = stack[i]
      BY <1>0, <2>1, <2>2 DEF Open
    <3>2. s # work.setting /\ ~InUse(s)
      BY <1>0, <3>1 DEF InUse
    <3> QED BY <2>1, <2>2, <3>2 DEF SettingsInv, BeingSet
  <2>3. CASE ~work.entering
    <3>1. stack # <<>> /\ Top.kind = work.setting /\ work.to = "default" /\ stack' = Outer
      BY <2>1, <2>3 DEF TypeInv, WorkInv
    <3>2. CASE s = work.setting
      BY <2>1, <3>1, <3>2
    <3>3. CASE s # work.setting
      <4>1. \A i \in 1..Open : stack[i].kind = s => i \in 1..Open' /\ stack'[i] = stack[i]
        BY <1>0, <3>1, <3>3, FrontFacts DEF Open, Outer, Top
      <4>2. ~InUse(s)
        BY <4>1 DEF InUse
      <4> QED BY <2>1, <3>3, <4>2 DEF SettingsInv, BeingSet
    <3> QED BY <3>2, <3>3
  <2> QED BY <2>2, <2>3
<1>5. ASSUME NEW e \in Errors, SettingRaises(e)
      PROVE  asked'[s] = "default" /\ value'[s] = "default"
  <2>1. /\ UNCHANGED <<asked, value>> /\ pc \in Writing
        /\ stack' = IF work.entering THEN stack ELSE Outer
        /\ stuck' = IF work.entering /\ work.tries = 0 THEN stuck ELSE stuck \cup {work.setting}
    BY <1>5 DEF SettingRaises, ioc, Writing
  <2>2. s \notin stuck /\ ~BeingSet(s)
    BY <2>1 DEF BeingSet
  <2>3. ~InUse(s)
    <3>1. CASE work.entering
      BY <2>1, <3>1 DEF InUse, Open
    <3>2. CASE ~work.entering
      <4>1. stack # <<>> /\ Top.kind = work.setting /\ stack' = Outer /\ s # work.setting
        BY <2>1, <3>2 DEF TypeInv, WorkInv
      <4>2. \A i \in 1..Open : stack[i].kind = s => i \in 1..Open' /\ stack'[i] = stack[i]
        BY <1>0, <4>1, FrontFacts DEF Open, Outer, Top
      <4> QED BY <4>2 DEF InUse
    <3> QED BY <3>1, <3>2
  <2> QED BY <2>1, <2>2, <2>3 DEF SettingsInv
<1>6. ASSUME NEW s2 \in Settings, EnterSetting(s2)
      PROVE  asked'[s] = "default" /\ value'[s] = "default"
  <2>1. UNCHANGED <<stack, asked, value, stuck>> /\ pc \notin Writing
    BY <1>6 DEF EnterSetting, test, ioc, history, Writing
  <2>2. ~InUse(s) /\ ~BeingSet(s)
    BY <2>1 DEF InUse, Open, BeingSet
  <2> QED BY <2>1, <2>2 DEF SettingsInv
<1>7. ASSUME NEW s2 \in Settings, Obeys(s2)
      PROVE  asked'[s] = "default" /\ value'[s] = "default"
  <2>1. /\ UNCHANGED <<stack, asked, stuck, pc, work>>
        /\ value[s2] # asked[s2] /\ value' = [value EXCEPT ![s2] = asked[s2]]
    BY <1>7 DEF Obeys, test, history
  <2>2. ~InUse(s) /\ ~BeingSet(s)
    BY <2>1 DEF InUse, Open, BeingSet
  <2>3. asked[s] = "default" /\ value[s] = "default" /\ s # s2
    BY <2>1, <2>2 DEF SettingsInv
  <2> QED BY <2>1, <2>3 DEF TypeInv, ShapeInv
<1> QED BY <1>1, <1>2, <1>3, <1>4, <1>5, <1>6, <1>7

\* Between tests every setting is back, unless entering or leaving it failed part way:
\* with any number of contexts inside each other, of the same setting too, and whatever
\* is raised.
THEOREM SettingsAreBack == Spec => []SettingsPutBack
<1>1. Init => SettingsInv
  BY DEF Init, SettingsInv
<1>2. TypeInv /\ SettingsInv /\ [Next]_vars => SettingsInv'
  <2> SUFFICES ASSUME TypeInv, SettingsInv, [Next]_vars PROVE SettingsInv'
    OBVIOUS
  <2>1. CASE Next
    BY <2>1, SettingsRunner, SettingsSet, OtherContexts, SettingsLeftAlone, Zenon DEF Next
  <2>2. CASE UNCHANGED vars
    BY <2>2 DEF vars, test, ioc, history, SettingsInv, InUse, BeingSet, Open
  <2> QED BY <2>1, <2>2
<1>3. TypeInv /\ SettingsInv => SettingsPutBack
  <2> SUFFICES ASSUME TypeInv, SettingsInv, pc = "idle", NEW s \in Settings, s \notin stuck
               PROVE  value[s] = "default" /\ asked[s] = "default"
    BY DEF SettingsPutBack
  <2>1. stack = <<>> /\ pc \notin Writing
    BY DEF TypeInv, WorkInv, Outside, Writing
  <2>2. ~InUse(s) /\ ~BeingSet(s)
    BY <2>1 DEF InUse, BeingSet, Open
  <2> QED BY <2>2 DEF SettingsInv
<1> QED BY <1>1, <1>2, <1>3, TypesInit, TypesStep, PTL DEF Spec

-----------------------------------------------------------------------------
(* Passes.                                                                     *)

\* Where an exception is on its way, and when a run of the test has come to its end.
ResultInv ==
  /\ pc # "idle" => result = "none"
  /\ pc \in {"attempted", "tearDown", "runnerTearDown"} /\ exc = "none" => returned
  /\ result = "passed" => returned
  /\ pc \in {"setUp", "body", "watch"} => exc = "none"
  /\ pc = "unwind" => exc # "none"

\* A test that has come through without an exception has come to its end.
LEMMA ResultStep == TypeInv /\ ResultInv /\ [Next]_vars => ResultInv'
<1> SUFFICES ASSUME TypeInv, ResultInv, [Next]_vars PROVE ResultInv'
  OBVIOUS
<1> USE DEF ResultInv
<1>1. CASE StartTest \/ SetUp \/ Skip \/ BodyEnds \/ Unwound
  BY <1>1 DEF StartTest, SetUp, Skip, BodyEnds, Unwound, test, history
<1>2. CASE FirstRunFails \/ AttemptOver \/ TearDown \/ RunnerTearDown
  BY <1>2 DEF FirstRunFails, AttemptOver, TearDown, RunnerTearDown, test, history
<1>3. CASE \E e \in Errors : SetUpRaises(e) \/ BodyRaises(e) \/ TearDownRaises(e)
  BY <1>3 DEF SetUpRaises, BodyRaises, TearDownRaises, Errors, history
<1>4. CASE LeaveSetting \/ WriteSetting \/ Confirmed \/ TryAgain \/ LeaveLog
  BY <1>4 DEF LeaveSetting, WriteSetting, Confirmed, TryAgain, LeaveLog, Onward, test, history
<1>5. CASE LeaveWatch \/ WatchSatisfied \/ Unwatched
  BY <1>5 DEF LeaveWatch, WatchSatisfied, Unwatched, Judging, test, history
<1>6. CASE \E e \in Errors : SettingRaises(e) \/ WatchRaises(e)
  BY <1>6 DEF SettingRaises, WatchRaises, Judging, Errors, history
<1>7. CASE \E s \in Settings : EnterSetting(s) \/ Obeys(s)
  BY <1>7 DEF EnterSetting, Obeys, test, history
<1>8. CASE (\E args \in LogArgs : EnterLog(args)) \/ (\E args \in WatchArgs : EnterWatch(args))
  BY <1>8 DEF EnterLog, EnterWatch, history
<1>9. CASE \/ \E k \in Messages : Prints(k)
           \/ \E v \in Values, alarm \in BOOLEAN, merged \in SUBSET (1..Open) : RecordProcesses(v, alarm, merged)
           \/ \E i \in 1..Open : CallsBack(i)
  BY <1>9 DEF Prints, RecordProcesses, CallsBack, history
<1>10. CASE UNCHANGED vars
  BY <1>10 DEF vars, test, history
<1> QED BY <1>1, <1>2, <1>3, <1>4, <1>5, <1>6, <1>7, <1>8, <1>9, <1>10, Zenon DEF Next

\* What was delivered in the order of a record's values still is when the record has one
\* more, when that one is delivered too, and when the last one was merged away.
LEMMA SubsequenceFacts ==
  ASSUME NEW s \in Seq(Values), NEW t \in Seq(Values), NEW v \in Values, Subsequence(s, t)
  PROVE  /\ Subsequence(s, Append(t, v))
         /\ Subsequence(Append(s, v), Append(t, v))
         /\ s # <<>> => Subsequence(SubSeq(s, 1, Len(s) - 1), t)
<1>1. PICK at \in [DOMAIN s -> DOMAIN t] :
             /\ \A i \in DOMAIN s : s[i] = t[at[i]]
             /\ \A i, j \in DOMAIN s : i < j => at[i] < at[j]
  BY DEF Subsequence
<1>2. /\ DOMAIN s = 1..Len(s) /\ DOMAIN t = 1..Len(t) /\ Len(s) \in Nat /\ Len(t) \in Nat
      /\ DOMAIN Append(t, v) = 1..Len(t) + 1 /\ DOMAIN Append(s, v) = 1..Len(s) + 1
      /\ \A i \in 1..Len(t) : Append(t, v)[i] = t[i]
      /\ \A i \in 1..Len(s) : Append(s, v)[i] = s[i]
      /\ Append(t, v)[Len(t) + 1] = v /\ Append(s, v)[Len(s) + 1] = v
  OBVIOUS
<1>3. \A i \in 1..Len(s) : at[i] \in 1..Len(t)
  BY <1>1, <1>2
<1>4. Subsequence(s, Append(t, v))
  <2>1. at \in [DOMAIN s -> DOMAIN Append(t, v)]
    BY <1>1, <1>2
  <2>2. \A i \in DOMAIN s : s[i] = Append(t, v)[at[i]]
    BY <1>1, <1>2, <1>3
  <2> QED BY <1>1, <2>1, <2>2 DEF Subsequence
<1>5. Subsequence(Append(s, v), Append(t, v))
  <2> DEFINE u == [i \in 1..Len(s) + 1 |-> IF i = Len(s) + 1 THEN Len(t) + 1 ELSE at[i]]
  <2>1. u \in [DOMAIN Append(s, v) -> DOMAIN Append(t, v)]
    BY <1>2, <1>3
  <2>2. \A i \in DOMAIN Append(s, v) : Append(s, v)[i] = Append(t, v)[u[i]]
    <3>1. SUFFICES ASSUME NEW i \in 1..Len(s) + 1 PROVE Append(s, v)[i] = Append(t, v)[u[i]]
      BY <1>2
    <3>2. CASE i = Len(s) + 1
      BY <1>2, <3>2
    <3>3. CASE i \in 1..Len(s)
      <4>1. u[i] = at[i]
        BY <1>2, <3>3
      <4> HIDE DEF u
      <4> QED BY <1>1, <1>2, <1>3, <3>3, <4>1
    <3>4. i = Len(s) + 1 \/ i \in 1..Len(s)
      <4>1. Len(s) \in Nat
        OBVIOUS
      <4> DEFINE n == Len(s)
      <4> HIDE DEF n
      <4>2. n \in Nat /\ i \in 1..n + 1 => i = n + 1 \/ i \in 1..n
        OBVIOUS
      <4> QED BY <4>1, <4>2 DEF n
    <3> HIDE DEF u
    <3> QED BY <3>2, <3>3, <3>4
  <2>3. \A i, j \in DOMAIN Append(s, v) : i < j => u[i] < u[j]
    <3>1. SUFFICES ASSUME NEW i \in 1..Len(s) + 1, NEW j \in 1..Len(s) + 1, i < j PROVE u[i] < u[j]
      BY <1>2
    <3>2. i \in 1..Len(s) /\ u[i] = at[i] /\ at[i] \in 1..Len(t)
      BY <1>2, <1>3, <3>1
    <3>3. CASE j = Len(s) + 1
      BY <1>2, <3>2, <3>3
    <3>4. CASE j \in 1..Len(s)
      <4>1. u[j] = at[j]
        BY <1>2, <3>4
      <4> QED BY <1>1, <1>2, <3>1, <3>2, <3>4, <4>1
    <3> HIDE DEF u
    <3> QED BY <1>2, <3>3, <3>4
  <2> HIDE DEF u
  <2> QED BY <2>1, <2>2, <2>3 DEF Subsequence
<1>6. ASSUME s # <<>> PROVE Subsequence(SubSeq(s, 1, Len(s) - 1), t)
  <2> DEFINE f == SubSeq(s, 1, Len(s) - 1)
             u == [i \in 1..Len(s) - 1 |-> at[i]]
  <2>1. f \in Seq(Values) /\ Len(f) = Len(s) - 1 /\ \A i \in 1..Len(s) - 1 : f[i] = s[i]
    BY <1>6, FrontFacts
  <2> HIDE DEF f
  <2>2. DOMAIN f = 1..Len(s) - 1
    BY <2>1
  <2>3. u \in [DOMAIN f -> DOMAIN t]
    BY <1>2, <1>3, <2>2
  <2>4. (\A i \in DOMAIN f : f[i] = t[u[i]]) /\ (\A i, j \in DOMAIN f : i < j => u[i] < u[j])
    BY <1>1, <1>2, <2>1, <2>2
  <2> HIDE DEF u
  <2>5. Subsequence(f, t)
    BY <2>3, <2>4 DEF Subsequence
  <2> QED BY <2>5 DEF f
<1> QED BY <1>4, <1>5, <1>6

\* Values that were called back, and those that wait to be: calling back moves one from
\* the second to the first, a new one waits last, and it may take the place of the one
\* before.
LEMMA DeliveryFacts ==
  ASSUME NEW a \in Seq(Values), NEW q \in Seq(Values), NEW v \in Values
  PROVE  /\ a \o q \in Seq(Values)
         /\ \A i \in DOMAIN a : i \in DOMAIN (a \o q) /\ (a \o q)[i] = a[i]
         /\ a \o Append(q, v) = Append(a \o q, v)
         /\ q # <<>> => /\ Append(a, Head(q)) \o Tail(q) = a \o q
                        /\ a \o q # <<>>
                        /\ a \o Append(SubSeq(q, 1, Len(q) - 1), v)
                             = Append(SubSeq(a \o q, 1, Len(a \o q) - 1), v)
<1>1. a \o q \in Seq(Values) /\ Len(a \o q) = Len(a) + Len(q) /\ Len(a) \in Nat /\ Len(q) \in Nat
  OBVIOUS
<1>2. a \o Append(q, v) = Append(a \o q, v)
  OBVIOUS
<1>3. ASSUME q # <<>>
      PROVE  /\ Append(a, Head(q)) \o Tail(q) = a \o q
             /\ a \o q # <<>>
  BY <1>1, <1>3
<1>4. ASSUME q # <<>>
      PROVE  a \o Append(SubSeq(q, 1, Len(q) - 1), v) = Append(SubSeq(a \o q, 1, Len(a \o q) - 1), v)
  BY <1>1, <1>4
<1>5. \A i \in DOMAIN a : i \in DOMAIN (a \o q) /\ (a \o q)[i] = a[i]
  BY <1>1
<1> QED BY <1>1, <1>2, <1>3, <1>4, <1>5

\* So they are still delivered in order once there is a new one, merged or not, and once
\* one was called back.
LEMMA DeliveryKept ==
  ASSUME NEW a \in Seq(Values), NEW q \in Seq(Values), NEW h \in Seq(Values), NEW v \in Values,
         Subsequence(a \o q, h)
  PROVE  /\ Subsequence(a \o Append(q, v), Append(h, v))
         /\ q # <<>> => /\ Subsequence(a \o Append(SubSeq(q, 1, Len(q) - 1), v), Append(h, v))
                        /\ Subsequence(Append(a, Head(q)) \o Tail(q), h)
<1> DEFINE s == a \o q
           f == SubSeq(s, 1, Len(s) - 1)
<1>1. s \in Seq(Values) /\ a \o Append(q, v) = Append(s, v)
  BY DeliveryFacts
<1>2. q # <<>> => /\ Append(a, Head(q)) \o Tail(q) = s
                  /\ s # <<>>
                  /\ a \o Append(SubSeq(q, 1, Len(q) - 1), v) = Append(f, v)
  BY DeliveryFacts
<1> HIDE DEF s
<1>3. Subsequence(Append(s, v), Append(h, v))
  BY <1>1, SubsequenceFacts DEF s
<1>4. ASSUME q # <<>> PROVE Subsequence(Append(f, v), Append(h, v))
  <2>1. f \in Seq(Values)
    BY <1>1, <1>2, <1>4, FrontFacts
  <2>2. Subsequence(f, h)
    BY <1>1, <1>2, <1>4, SubsequenceFacts DEF s
  <2> HIDE DEF f
  <2> QED BY <2>1, <2>2, SubsequenceFacts
<1> QED BY <1>1, <1>2, <1>3, <1>4 DEF s

\* The values called back so far are among those the record had, and so is the latest.
LEMMA DeliveredOnes ==
  ASSUME NEW a \in Seq(Values), NEW q \in Seq(Values), NEW h \in Seq(Values), Subsequence(a \o q, h)
  PROVE  Subsequence(a, h) /\ (a # <<>> => Last(a) \in ToSet(h))
<1> DEFINE s == a \o q
<1>1. PICK at \in [DOMAIN s -> DOMAIN h] :
             /\ \A i \in DOMAIN s : s[i] = h[at[i]]
             /\ \A i, j \in DOMAIN s : i < j => at[i] < at[j]
  BY DEF Subsequence
<1>2. Len(a) \in Nat /\ DOMAIN a = 1..Len(a) /\ \A i \in DOMAIN a : i \in DOMAIN s /\ s[i] = a[i]
  BY DeliveryFacts DEF Values
<1> DEFINE u == [i \in DOMAIN a |-> at[i]]
<1> HIDE DEF s
<1>3. u \in [DOMAIN a -> DOMAIN h]
  BY <1>1, <1>2
<1>4. (\A i \in DOMAIN a : a[i] = h[u[i]]) /\ (\A i, j \in DOMAIN a : i < j => u[i] < u[j])
  BY <1>1, <1>2
<1> HIDE DEF u
<1>5. Subsequence(a, h)
  BY <1>3, <1>4 DEF Subsequence
<1>6. ASSUME a # <<>> PROVE Last(a) \in ToSet(h)
  <2>1. Len(a) \in DOMAIN a
    BY <1>2, <1>6
  <2>2. u[Len(a)] \in DOMAIN h /\ Last(a) = h[u[Len(a)]]
    BY <1>3, <1>4, <2>1 DEF Last
  <2> QED BY <2>2 DEF ToSet
<1> QED BY <1>5, <1>6

\* What an open context knows of what happened while it was open.  assert_log_messages
\* has at most what was printed to read, and all of it unless another one read inside it;
\* a monitor was called back, or will be, with values the record had, in their order; and
\* the time stamp is later than the first one if the record was processed.
LogKept(c) == (\A k \in Messages : unread[k] <= c.got[k]) /\ (~c.inner => unread = c.got)
Delivered(w) == Subsequence(w.all \o w.queue, w.had)
Timely(w) ==
  IF w.ran THEN w.before = None \/ w.before < stamp
  ELSE w.before = IF source = "pva" THEN None ELSE stamp

ContextInv(c) ==
  /\ c.kind = "log" => LogKept(c)
  /\ c.kind \in Monitored => Delivered(c)
  /\ c.kind \in Timed => Timely(c)

\* Only the innermost of the contexts that read the log may have it to itself.
ContextsInv ==
  /\ \A i \in 1..Open : ContextInv(stack[i])
  /\ \A i, j \in 1..Open : i < j /\ stack[i].kind = "log" /\ stack[j].kind = "log" => stack[i].inner

\* A context that is content with what it sees is content with what happened.
LEMMA ContentRightly ==
  ASSUME TypeInv, stack # <<>>, ContextInv(Top)
  PROVE  /\ Top.kind = "log" /\ AsExpected(Top.args, unread) => Justified(Top)
         /\ Top.kind \in Monitored \cup Timed /\ Satisfied(Top) => Earned(Top)
<1>0. Top \in Contexts
  BY OpenedOrLeft
<1>1. ASSUME Top.kind = "log", AsExpected(Top.args, unread) PROVE Justified(Top)
  <2>1. Top \in LogContexts /\ LogKept(Top)
    BY <1>0, <1>1, KindFacts DEF ContextInv
  <2>2. /\ unread["wanted"] \in Nat /\ Top.got["wanted"] \in Nat
        /\ unread["wanted"] <= Top.got["wanted"]
    BY <2>1, HelpersAssumption DEF TypeInv, ShapeInv, LogContexts, LogKept, Messages
  <2>3. ~Top.inner => unread = Top.got
    BY <2>1 DEF LogKept
  <2> QED BY <1>1, <2>2, <2>3 DEF AsExpected, Justified
<1>2. ASSUME Top.kind \in Monitored \cup Timed, Satisfied(Top) PROVE Earned(Top)
  <2> DEFINE w == Top
  <2>0. w \in Watches /\ stamp \in Nat /\ None \notin Nat /\ ContextInv(w)
    BY <1>0, <1>2, KindFacts, HelpersAssumption DEF TypeInv, ShapeInv, RecordTypeOK
  <2>1. CASE w.kind \in Monitored
    <3> HIDE DEF w
    <3>1. w.all \in Seq(Values) /\ w.queue \in Seq(Values) /\ w.had \in Seq(Values)
          /\ Subsequence(w.all \o w.queue, w.had)
      BY <2>0, <2>1 DEF Watches, ContextInv, Delivered
    <3>2. Subsequence(w.all, w.had) /\ (w.all # <<>> => Last(w.all) \in ToSet(w.had))
      BY <3>1, DeliveredOnes
    <3>3. Satisfied(w)
      BY <1>2 DEF w
    <3> QED BY <2>1, <3>2, <3>3 DEF w, Satisfied, Earned, Monitored
  <2>2. CASE w.kind \in Timed
    <3>1. Timely(w) /\ w.ran \in BOOLEAN /\ w.before \in Nat \cup {None}
      BY <2>0, <2>2 DEF Watches, ContextInv
    <3> QED BY <1>2, <2>0, <2>2, <3>1 DEF Satisfied, Earned, Timely, Timed
  <2> QED BY <1>2, <2>1, <2>2
<1> QED BY <1>1, <1>2

\* Contexts that stay as they are know as much as before, while the log is not read and
\* the record is not processed; a setting's context knows nothing.
LEMMA ContextsStay ==
  ASSUME TypeInv, ContextsInv, UNCHANGED <<record, unread>>,
         \/ stack' = stack
         \/ stack # <<>> /\ stack' = Outer
         \/ \E s \in Settings : stack' = Append(stack, [kind |-> s])
  PROVE  ContextsInv'
<1>0. stack \in Seq(Contexts) /\ Open \in Nat
  BY OpenedOrLeft DEF TypeInv, StackInv
<1>1. \A c : ContextInv(c) => /\ c.kind = "log" => (\A k \in Messages : unread'[k] <= c.got[k]) /\ (~c.inner => unread' = c.got)
                              /\ c.kind \in Monitored => Delivered(c)
                              /\ c.kind \in Timed => IF c.ran THEN c.before = None \/ c.before < stamp'
                                                     ELSE c.before = IF source' = "pva" THEN None ELSE stamp'
  BY DEF ContextInv, LogKept, Timely, record
<1>2. CASE stack' = stack
  BY <1>1, <1>2 DEF ContextsInv, ContextInv, LogKept, Timely, Delivered, Open
<1>3. CASE stack # <<>> /\ stack' = Outer
  <2>1. Open' = Open - 1 /\ \A i \in 1..Open' : i \in 1..Open /\ stack'[i] = stack[i]
    BY <1>0, <1>3, FrontFacts DEF Open, Outer
  <2> QED BY <1>0, <1>1, <2>1 DEF ContextsInv, ContextInv, LogKept, Timely, Delivered
<1>4. ASSUME NEW s \in Settings, stack' = Append(stack, [kind |-> s]) PROVE ContextsInv'
  <2>1. /\ Open' = Open + 1 /\ stack'[Open + 1] = [kind |-> s]
        /\ \A i \in 1..Open : stack'[i] = stack[i]
    BY <1>0, <1>4 DEF Open
  <2>2. stack'[Open + 1].kind \notin {"log"} \cup Monitored \cup Timed
    BY <2>1 DEF Settings, Monitored, Timed
  <2>3. \A i \in 1..Open' : i \in 1..Open \/ i = Open + 1
    BY <1>0, <2>1
  <2>4. ASSUME NEW i \in 1..Open' PROVE ContextInv(stack[i])'
    <3>1. CASE i \in 1..Open
      BY <1>1, <2>1, <3>1 DEF ContextsInv, ContextInv, LogKept, Timely, Delivered
    <3>2. CASE i = Open + 1
      BY <2>2, <3>2 DEF ContextInv
    <3> QED BY <2>3, <3>1, <3>2
  <2>5. ASSUME NEW i \in 1..Open', NEW j \in 1..Open', i < j, stack'[i].kind = "log", stack'[j].kind = "log"
        PROVE  stack'[i].inner
    <3>1. i \in 1..Open /\ j \in 1..Open
      BY <2>2, <2>3, <2>5
    <3> QED BY <2>1, <2>5, <3>1 DEF ContextsInv
  <2> QED BY <2>4, <2>5 DEF ContextsInv
<1> QED BY <1>2, <1>3, <1>4

\* assert_log_messages empties what is unread, for all that are open: those around it
\* have no longer all that was printed.
LEMMA ContextsLog ==
  ASSUME TypeInv, ContextsInv, LeaveLog \/ \E args \in LogArgs : EnterLog(args)
  PROVE  ContextsInv'
<1>0. stack \in Seq(Contexts) /\ Open \in Nat /\ \A i \in 1..Open : stack[i] \in Contexts
  BY OpenedOrLeft DEF TypeInv, StackInv
<1>1. ASSUME NEW c \in LogContexts, unread' = NoMessages
      PROVE  \A k \in Messages : unread'[k] <= c.got[k]
  BY <1>1, HelpersAssumption DEF LogContexts, NoMessages
<1>2. CASE LeaveLog
  <2>1. /\ stack # <<>> /\ stack[Open].kind = "log" /\ stack' = Outer /\ unread' = NoMessages
        /\ UNCHANGED record
    BY <1>2 DEF LeaveLog, Top, Open
  <2>2. Open' = Open - 1 /\ Open \in 1..Open /\ \A i \in 1..Open' : i \in 1..Open /\ i < Open /\ stack'[i] = stack[i]
    BY <1>0, <2>1, FrontFacts DEF Open, Outer
  <2>3. ASSUME NEW i \in 1..Open' PROVE ContextInv(stack[i])'
    <3>1. i \in 1..Open /\ stack'[i] = stack[i] /\ (stack[i].kind = "log" => stack[i].inner)
      BY <2>1, <2>2 DEF ContextsInv
    <3>2. stack[i].kind = "log" => \A k \in Messages : unread'[k] <= stack[i].got[k]
      BY <1>0, <1>1, <2>1, <3>1, KindFacts
    <3> QED BY <2>1, <3>1, <3>2 DEF ContextsInv, ContextInv, LogKept, Timely, Delivered, record
  <2>4. ASSUME NEW i \in 1..Open', NEW j \in 1..Open', i < j, stack'[i].kind = "log", stack'[j].kind = "log"
        PROVE  stack'[i].inner
    BY <2>2, <2>4 DEF ContextsInv
  <2> QED BY <2>3, <2>4 DEF ContextsInv
<1>3. ASSUME NEW args \in LogArgs, EnterLog(args) PROVE ContextsInv'
  <2> DEFINE t == [i \in 1..Open |->
                     IF stack[i].kind = "log" THEN [stack[i] EXCEPT !.inner = TRUE] ELSE stack[i]]
  <2>1. ASSUME NEW i \in 1..Open
        PROVE  /\ t[i] \in Contexts /\ t[i].kind = stack[i].kind
               /\ stack[i].kind = "log" => t[i].inner /\ t[i] \in LogContexts
               /\ stack[i].kind # "log" => t[i] = stack[i]
    <3>1. CASE stack[i].kind = "log"
      <4>1. stack[i] \in LogContexts /\ t[i] = [stack[i] EXCEPT !.inner = TRUE]
        BY <1>0, <3>1, KindFacts
      <4>2. t[i] \in LogContexts
        BY <4>1, LogContextType
      <4>3. t[i].inner /\ t[i].kind = "log"
        BY <4>1, <4>2 DEF LogContexts
      <4> QED BY <3>1, <4>2, <4>3 DEF Contexts
    <3>2. CASE stack[i].kind # "log"
      BY <1>0, <3>2
    <3> QED BY <3>1, <3>2
  <2>2. /\ stack' = Append(t, LogContext(args)) /\ LogContext(args) \in LogContexts
        /\ unread' = NoMessages /\ UNCHANGED record
    BY <1>3, LogContextType DEF EnterLog
  <2>3. t \in [1..Open -> Contexts]
    BY <2>1
  <2> HIDE DEF t
  <2>4. t \in Seq(Contexts) /\ Len(t) = Open
    BY <2>3, AllTold
  <2>5. /\ Open' = Open + 1 /\ stack'[Open + 1] = LogContext(args)
        /\ \A i \in 1..Open : stack'[i] = t[i]
    BY <1>0, <2>2, <2>4 DEF Open, Contexts
  <2>6. \A i \in 1..Open' : i \in 1..Open \/ i = Open + 1
    BY <1>0, <2>5
  <2>7. ASSUME NEW i \in 1..Open PROVE ContextInv(stack[i])'
    <3>1. CASE stack[i].kind = "log"
      <4>1. stack'[i] \in LogContexts /\ stack'[i].inner
        BY <2>1, <2>5, <3>1
      <4>2. stack'[i].kind = "log" /\ \A k \in Messages : unread'[k] <= stack'[i].got[k]
        BY <1>1, <2>2, <4>1 DEF LogContexts
      <4> QED BY <4>1, <4>2 DEF ContextInv, LogKept, Monitored, Timed
    <3>2. CASE stack[i].kind # "log"
      <4>1. stack'[i] = stack[i]
        BY <2>1, <2>5, <3>2
      <4> QED BY <2>2, <3>2, <4>1 DEF ContextsInv, ContextInv, Timely, Delivered, record
    <3> QED BY <3>1, <3>2
  <2>8. ASSUME NEW i \in 1..Open', i = Open + 1 PROVE ContextInv(stack[i])'
    <3>1. stack'[i].kind = "log" /\ stack'[i].got = NoMessages
      BY <2>5, <2>8 DEF LogContext
    <3>2. \A k \in Messages : unread'[k] <= stack'[i].got[k]
      BY <2>2, <3>1 DEF NoMessages
    <3> QED BY <2>2, <3>1, <3>2 DEF ContextInv, LogKept, Monitored, Timed
  <2>9. ASSUME NEW i \in 1..Open', NEW j \in 1..Open', i < j, stack'[i].kind = "log", stack'[j].kind = "log"
         PROVE  stack'[i].inner
    <3>1. i \in 1..Open
      BY <1>0, <2>5, <2>6, <2>9
    <3> QED BY <2>1, <2>5, <2>9, <3>1
  <2> QED BY <2>6, <2>7, <2>8, <2>9 DEF ContextsInv
<1> QED BY <1>2, <1>3

\* A watch begins with the value, or the time stamp, that the record has.
LEMMA ContextsWatch ==
  ASSUME TypeInv, ContextsInv, NEW args \in WatchArgs, EnterWatch(args)
  PROVE  ContextsInv'
<1>0. stack \in Seq(Contexts) /\ Open \in Nat
  BY OpenedOrLeft DEF TypeInv, StackInv
<1>1. /\ stack' = Append(stack, WatchContext(args)') /\ UNCHANGED unread
      /\ stack # <<>> => UNCHANGED record
      /\ args.kind \in Monitored \cup Timed
      /\ readback' \in Values
  BY HelpersAssumption DEF EnterWatch, RecordFound, TypeInv, ShapeInv, RecordTypeOK, record, ioc
<1>2. WatchContext(args)' \in Contexts
  <2>1. TypeInv'
    BY TypesWatches
  <2> QED BY <1>0, <1>1, <2>1, OpenedOrLeft DEF TypeInv, StackInv, Open
<1>3. /\ Open' = Open + 1 /\ stack'[Open + 1] = WatchContext(args)'
      /\ \A i \in 1..Open : stack'[i] = stack[i]
  BY <1>0, <1>1 DEF Open
<1>4. \A i \in 1..Open' : i \in 1..Open \/ i = Open + 1
  BY <1>0, <1>3
<1>5. ASSUME NEW i \in 1..Open PROVE ContextInv(stack[i])'
  <2>1. stack # <<>> /\ stack'[i] = stack[i]
    BY <1>0, <1>3 DEF Open
  <2> QED BY <1>1, <2>1 DEF ContextsInv, ContextInv, LogKept, Timely, Delivered, record
<1>6. ASSUME NEW i \in 1..Open', i = Open + 1 PROVE ContextInv(stack[i])'
  <2>1. /\ stack'[i].kind = args.kind /\ stack'[i].all = <<>> /\ ~stack'[i].ran
        /\ args.kind \in Monitored => stack'[i].queue = <<readback'>> /\ stack'[i].had = <<readback'>>
        /\ args.kind \in Timed => stack'[i].before = IF source' = "pva" THEN None ELSE stamp'
    BY <1>3, <1>6 DEF WatchContext, Monitored, Timed
  <2>2. args.kind \in Monitored => Subsequence(stack'[i].all \o stack'[i].queue, stack'[i].had)
    <3> DEFINE one == <<readback'>>
    <3>1. one \in Seq(Values) /\ <<>> \o one = one /\ DOMAIN one = {1}
      BY <1>1
    <3> HIDE DEF one
    <3>2. Subsequence(one, one)
      <4>1. [j \in DOMAIN one |-> j] \in [DOMAIN one -> DOMAIN one]
        OBVIOUS
      <4> QED BY <4>1 DEF Subsequence
    <3> QED BY <2>1, <3>1, <3>2 DEF one
  <2> QED BY <1>1, <2>1, <2>2 DEF ContextInv, Timely, Delivered, Monitored, Timed
<1>7. ASSUME NEW i \in 1..Open', NEW j \in 1..Open', i < j, stack'[i].kind = "log", stack'[j].kind = "log"
      PROVE  stack'[i].inner
  <2>1. WatchContext(args)'.kind # "log"
    BY <1>1 DEF WatchContext, Monitored, Timed
  <2>2. i \in 1..Open /\ j \in 1..Open
    BY <1>0, <1>3, <1>4, <1>7, <2>1
  <2> QED BY <1>3, <1>7, <2>2 DEF ContextsInv
<1> QED BY <1>4, <1>5, <1>6, <1>7 DEF ContextsInv

\* A message is counted by every context that reads the log, whether it waits or not.
LEMMA ContextsPrints ==
  ASSUME TypeInv, ContextsInv, NEW k \in Messages, Prints(k)
  PROVE  ContextsInv'
<1>0. stack \in Seq(Contexts) /\ Open \in Nat /\ \A i \in 1..Open : stack[i] \in Contexts
  BY OpenedOrLeft DEF TypeInv, StackInv
<1>1. /\ unread' = [unread EXCEPT ![k] = @ + 1] /\ UNCHANGED record
      /\ stack' = [i \in 1..Open |->
                     IF stack[i].kind = "log" THEN [stack[i] EXCEPT !.got[k] = @ + 1] ELSE stack[i]]
      /\ \A i \in 1..Open : stack[i].kind = "log" => stack[i].got[k] < MaxMessages
  BY DEF Prints
<1>2. unread \in [Messages -> 0..MaxMessages] /\ MaxMessages \in Nat
  BY HelpersAssumption DEF TypeInv, ShapeInv
<1>3. Open' = Open
  BY <1>0, <1>1 DEF Open
<1>4. ASSUME NEW i \in 1..Open
      PROVE  /\ ContextInv(stack[i])' /\ stack'[i].kind = stack[i].kind
             /\ stack[i].kind = "log" => stack'[i].inner = stack[i].inner
  <2>1. CASE stack[i].kind = "log"
    <3>1. PICK c \in LogContexts : c = stack[i]
      BY <1>0, <2>1, KindFacts
    <3> DEFINE g == [c.got EXCEPT ![k] = @ + 1]
    <3>2. c.got \in [Messages -> 0..MaxMessages] /\ LogKept(c) /\ c.kind = "log"
      BY <2>1, <3>1 DEF LogContexts, ContextsInv, ContextInv
    <3>3. stack'[i] = [c EXCEPT !.got = g]
      BY <1>1, <2>1, <3>1
    <3>4. (\A m \in Messages : unread'[m] <= g[m]) /\ (~c.inner => unread' = g)
      <4>1. ~c.inner => unread' = g
        BY <1>1, <3>2 DEF LogKept
      <4>2. ASSUME NEW m \in Messages PROVE unread'[m] <= g[m]
        <5>1. unread[m] \in Nat /\ c.got[m] \in Nat /\ unread[m] <= c.got[m]
          BY <1>2, <3>2 DEF LogKept
        <5>2. /\ unread'[m] = IF m = k THEN unread[m] + 1 ELSE unread[m]
              /\ g[m] = IF m = k THEN c.got[m] + 1 ELSE c.got[m]
          BY <1>1, <1>2, <3>2
        <5> HIDE DEF g
        <5> QED BY <5>1, <5>2
      <4> QED BY <4>1, <4>2
    <3> HIDE DEF g
    <3>5. stack'[i].got = g /\ stack'[i].inner = c.inner /\ stack'[i].kind = "log"
      BY <3>1, <3>2, <3>3 DEF LogContexts
    <3> QED BY <2>1, <3>1, <3>4, <3>5 DEF ContextInv, LogKept, Monitored, Timed
  <2>2. CASE stack[i].kind # "log"
    <3>1. stack'[i] = stack[i]
      BY <1>1, <2>2
    <3> QED BY <1>1, <2>2, <3>1 DEF ContextsInv, ContextInv, Timely, Delivered, record
  <2> QED BY <2>1, <2>2
<1>5. ASSUME NEW i \in 1..Open', NEW j \in 1..Open', i < j, stack'[i].kind = "log", stack'[j].kind = "log"
      PROVE  stack'[i].inner
  BY <1>3, <1>4, <1>5 DEF ContextsInv
<1> QED BY <1>3, <1>4, <1>5 DEF ContextsInv

\* The record has a new value or alarm, or neither, and a monitor an event or none.
LEMMA ContextsProcesses ==
  ASSUME TypeInv, ContextsInv, NEW v \in Values, NEW alarm \in BOOLEAN, NEW merged \in SUBSET (1..Open),
         RecordProcesses(v, alarm, merged)
  PROVE  ContextsInv'
<1>0. stack \in Seq(Contexts) /\ Open \in Nat /\ \A i \in 1..Open : stack[i] \in Contexts
  BY OpenedOrLeft DEF TypeInv, StackInv
<1>1. /\ stamp' = stamp + 1 /\ UNCHANGED <<source, unread>>
      /\ stack' = [i \in 1..Open |-> IF Watching(i) THEN Sees(stack[i], v, alarm, i \in merged) ELSE stack[i]]
      /\ stamp \in Nat /\ readback \in Values
  BY HelpersAssumption DEF RecordProcesses, TypeInv, ShapeInv, RecordTypeOK, ioc
<1>2. Open' = Open
  BY <1>0, <1>1 DEF Open
<1>3. ASSUME NEW i \in 1..Open
      PROVE  /\ ContextInv(stack[i])'
             /\ stack[i].kind # "log" => stack'[i].kind # "log"
             /\ stack[i].kind = "log" => stack'[i] = stack[i]
  <2>1. CASE Watching(i)
    <3>1. PICK w \in Watches : w = stack[i]
      BY <1>0, <2>1, KindFacts DEF Watching
    <3> DEFINE m == i \in merged
    <3>2. m \in BOOLEAN
      OBVIOUS
    <3>3. stack'[i] = Sees(w, v, alarm, m)
      BY <1>1, <2>1, <3>1
    <3> HIDE DEF m
    <3>4. w.kind \in Monitored \cup Timed /\ ContextInv(w)
      BY <3>1 DEF Watches, ContextsInv
    <3>5. CASE w.kind \in Timed
      <4>1. stack'[i].kind = w.kind /\ stack'[i].before = w.before /\ stack'[i].ran
        BY <3>3, <3>5 DEF Sees, Watches
      <4>2. w.before = None \/ w.before < stamp'
        <5>1. Timely(w) /\ w.before \in Nat \cup {None}
          BY <3>4, <3>5 DEF ContextInv, Watches
        <5> QED BY <1>1, <5>1 DEF Timely
      <4> QED BY <3>1, <3>5, <4>1, <4>2 DEF ContextInv, Timely, Monitored, Timed
    <3>6. CASE w.kind \in Monitored
      <4>1. stack'[i].kind = w.kind
        BY <1>1, <3>2, <3>3, WatchTypes
      <4>2. /\ w.all \in Seq(Values) /\ w.queue \in Seq(Values) /\ w.had \in Seq(Values)
            /\ Subsequence(w.all \o w.queue, w.had)
        BY <3>4, <3>6 DEF Watches, ContextInv, Delivered
      <4>3. Subsequence(stack'[i].all \o stack'[i].queue, stack'[i].had)
        <5>1. CASE v = readback /\ ~alarm
          BY <3>3, <4>2, <5>1 DEF Sees, Watches
        <5>2. CASE (v # readback \/ alarm) /\ m /\ w.queue # <<>>
          <6>1. /\ stack'[i].all = w.all /\ stack'[i].had = Append(w.had, v)
                /\ stack'[i].queue = Append(SubSeq(w.queue, 1, Len(w.queue) - 1), v)
            BY <3>3, <3>6, <5>2 DEF Sees, Front, Watches, Monitored, Timed
          <6> QED BY <4>2, <5>2, <6>1, DeliveryKept
        <5>3. CASE (v # readback \/ alarm) /\ ~(m /\ w.queue # <<>>)
          <6>1. /\ stack'[i].all = w.all /\ stack'[i].had = Append(w.had, v)
                /\ stack'[i].queue = Append(w.queue, v)
            BY <3>3, <3>6, <5>3 DEF Sees, Watches, Monitored, Timed
          <6> QED BY <4>2, <6>1, DeliveryKept
        <5> QED BY <5>1, <5>2, <5>3
      <4> QED BY <3>1, <3>6, <4>1, <4>3 DEF ContextInv, Delivered, Monitored, Timed
    <3> QED BY <3>4, <3>5, <3>6
  <2>2. CASE ~Watching(i)
    <3>1. stack'[i] = stack[i]
      BY <1>1, <2>2
    <3> QED BY <1>1, <2>2, <3>1 DEF ContextsInv, ContextInv, LogKept, Watching, Monitored, Timed
  <2> QED BY <2>1, <2>2
<1>4. ASSUME NEW i \in 1..Open', NEW j \in 1..Open', i < j, stack'[i].kind = "log", stack'[j].kind = "log"
      PROVE  stack'[i].inner
  BY <1>2, <1>3, <1>4 DEF ContextsInv
<1> QED BY <1>2, <1>3, <1>4 DEF ContextsInv

\* A callback moves a value from those that wait to those that came.
LEMMA ContextsCallsBack ==
  ASSUME TypeInv, ContextsInv, NEW n \in 1..Open, CallsBack(n)
  PROVE  ContextsInv'
<1>0. stack \in Seq(Contexts) /\ Open \in Nat /\ \A i \in 1..Open : stack[i] \in Contexts
  BY OpenedOrLeft DEF TypeInv, StackInv
<1>1. PICK w \in Watches : w = stack[n]
  BY <1>0, KindFacts DEF CallsBack
<1>2. /\ w.kind \in Monitored /\ w.queue # <<>> /\ stack' = [stack EXCEPT ![n] = CallBack(w)]
      /\ UNCHANGED <<record, unread>>
  BY <1>1 DEF CallsBack, ioc
<1>3. /\ Open' = Open /\ stack'[n] = CallBack(w)
      /\ \A i \in 1..Open : i # n => stack'[i] = stack[i]
  BY <1>0, <1>2 DEF Open
<1>4. ContextInv(stack[n])' /\ stack'[n].kind = w.kind
  <2>1. /\ stack'[n].kind = w.kind /\ stack'[n].had = w.had
        /\ stack'[n].all = Append(w.all, Head(w.queue)) /\ stack'[n].queue = Tail(w.queue)
    BY <1>3 DEF CallBack, Watches
  <2>2. /\ w.all \in Seq(Values) /\ w.queue \in Seq(Values) /\ Subsequence(w.all \o w.queue, w.had)
    BY <1>1, <1>2 DEF Watches, ContextsInv, ContextInv, Delivered
  <2>3. w.had \in Seq(Values) /\ 0 \in Values
    BY DEF Watches, Values
  <2>4. Subsequence(stack'[n].all \o stack'[n].queue, stack'[n].had)
    BY <1>2, <2>1, <2>2, <2>3, DeliveryKept
  <2> QED BY <1>2, <2>1, <2>4 DEF ContextInv, Delivered, Monitored, Timed
<1>5. ASSUME NEW i \in 1..Open, i # n PROVE ContextInv(stack[i])'
  BY <1>2, <1>3, <1>5 DEF ContextsInv, ContextInv, LogKept, Timely, Delivered, record
<1>6. ASSUME NEW i \in 1..Open', NEW j \in 1..Open', i < j, stack'[i].kind = "log", stack'[j].kind = "log"
      PROVE  stack'[i].inner
  <2>1. w.kind # "log"
    BY <1>2 DEF Monitored
  <2> QED BY <1>3, <1>4, <1>6, <2>1 DEF ContextsInv
<1> QED BY <1>3, <1>4, <1>5, <1>6 DEF ContextsInv

\* No context is ever content with what did not happen in it.
LEMMA ContextsStep ==
  TypeInv /\ ContextsInv /\ ~misled /\ [Next]_vars => ContextsInv' /\ ~misled'
<1> SUFFICES ASSUME TypeInv, ContextsInv, ~misled, [Next]_vars PROVE ContextsInv' /\ ~misled'
  OBVIOUS
<1>0. stack # <<>> => ContextInv(Top)
  BY OpenedOrLeft DEF ContextsInv, Top, Open
<1>1. CASE \/ StartTest \/ SetUp \/ Skip \/ BodyEnds \/ Unwound
           \/ FirstRunFails \/ AttemptOver \/ TearDown \/ RunnerTearDown
           \/ \E e \in Errors : SetUpRaises(e) \/ BodyRaises(e) \/ TearDownRaises(e)
  <2>1. UNCHANGED <<record, stack, unread, misled>>
    BY <1>1 DEF StartTest, SetUp, Skip, BodyEnds, Unwound, FirstRunFails, AttemptOver, TearDown,
                RunnerTearDown, SetUpRaises, BodyRaises, TearDownRaises, test, ioc, history
  <2> QED BY <2>1, ContextsStay
<1>2. CASE \/ LeaveSetting \/ WriteSetting \/ Confirmed \/ TryAgain
           \/ \E e \in Errors : SettingRaises(e)
           \/ \E s \in Settings : EnterSetting(s) \/ Obeys(s)
  <2>1. UNCHANGED <<record, unread, misled>>
    BY <1>2 DEF LeaveSetting, WriteSetting, Confirmed, TryAgain, SettingRaises, EnterSetting, Obeys,
                test, ioc, history
  <2>2. \/ stack' = stack
        \/ stack # <<>> /\ stack' = Outer
        \/ \E s \in Settings : stack' = Append(stack, [kind |-> s])
    <3>1. CASE Confirmed \/ \E e \in Errors : SettingRaises(e)
      <4>1. work.setting \in Settings /\ (~work.entering => stack # <<>>)
        BY <3>1 DEF Confirmed, SettingRaises, TypeInv, WorkInv, Writing
      <4>2. stack' \in {stack, Outer, Append(stack, [kind |-> work.setting])}
            /\ (stack' = Outer \/ work.entering \/ stack' = stack)
        BY <3>1 DEF Confirmed, SettingRaises
      <4>3. stack # <<>> \/ stack' # Outer \/ stack' = stack
            \/ stack' = Append(stack, [kind |-> work.setting])
        BY <3>1, <4>1 DEF Confirmed, SettingRaises
      <4> QED BY <4>1, <4>2, <4>3
    <3>2. CASE ~(Confirmed \/ \E e \in Errors : SettingRaises(e))
      BY <1>2, <3>2 DEF LeaveSetting, WriteSetting, TryAgain, EnterSetting, Obeys, test
    <3> QED BY <3>1, <3>2
  <2> QED BY <2>1, <2>2, ContextsStay
<1>3. CASE LeaveLog \/ \E args \in LogArgs : EnterLog(args)
  <2>1. ~misled'
    BY <1>0, <1>3, ContentRightly DEF LeaveLog, EnterLog, history
  <2> QED BY <1>3, <2>1, ContextsLog
<1>4. CASE LeaveWatch \/ WatchSatisfied \/ Unwatched \/ \E e \in Errors : WatchRaises(e)
  <2>1. UNCHANGED <<record, unread>> /\ stack # <<>> /\ stack' \in {stack, Outer}
    BY <1>4 DEF LeaveWatch, WatchSatisfied, Unwatched, WatchRaises, Judging, TypeInv, WorkInv, test, ioc
  <2>2. ~misled'
    <3>1. CASE WatchSatisfied
      <4>1. stack # <<>> /\ Top.kind \in Monitored \cup Timed /\ Satisfied(Top)
        BY <3>1 DEF WatchSatisfied, Judging, TypeInv, WorkInv, Monitored
      <4> QED BY <1>0, <3>1, <4>1, ContentRightly DEF WatchSatisfied
    <3>2. CASE ~WatchSatisfied
      BY <1>4, <3>2 DEF LeaveWatch, Unwatched, WatchRaises, history
    <3> QED BY <3>1, <3>2
  <2>3. ContextsInv'
    BY <2>1, ContextsStay
  <2> QED BY <2>2, <2>3
<1>5. ASSUME NEW args \in WatchArgs, EnterWatch(args) PROVE ContextsInv' /\ ~misled'
  BY <1>5, ContextsWatch DEF EnterWatch, history
<1>6. ASSUME NEW k \in Messages, Prints(k) PROVE ContextsInv' /\ ~misled'
  BY <1>6, ContextsPrints DEF Prints, history
<1>7. ASSUME NEW v \in Values, NEW alarm \in BOOLEAN, NEW merged \in SUBSET (1..Open), RecordProcesses(v, alarm, merged)
      PROVE  ContextsInv' /\ ~misled'
  BY <1>7, ContextsProcesses DEF RecordProcesses, history
<1>8. ASSUME NEW i \in 1..Open, CallsBack(i) PROVE ContextsInv' /\ ~misled'
  BY <1>8, ContextsCallsBack DEF CallsBack, history
<1>9. CASE UNCHANGED vars
  <2>1. UNCHANGED <<record, stack, unread, misled>>
    BY <1>9 DEF vars, test, ioc, history
  <2> QED BY <2>1, ContextsStay
<1> QED BY <1>1, <1>2, <1>3, <1>4, <1>5, <1>6, <1>7, <1>8, <1>9, Zenon DEF Next

\* A test that is reported as passed came to its end, and whatever a context was content
\* with happened in it: however contexts stand inside each other, whenever callbacks come
\* and however many events are merged.
THEOREM PassesAreEarned == Spec => []PassEarned
<1>1. Init => ResultInv /\ ContextsInv /\ ~misled
  BY DEF Init, ResultInv, ContextsInv, Open
<1>2. TypeInv /\ ResultInv /\ ContextsInv /\ ~misled /\ [Next]_vars
        => ResultInv' /\ ContextsInv' /\ ~misled'
  BY ResultStep, ContextsStep
<1>3. ResultInv /\ ~misled => PassEarned
  BY DEF ResultInv, PassEarned
<1> QED BY <1>1, <1>2, <1>3, TypesInit, TypesStep, PTL DEF Spec
=============================================================================
