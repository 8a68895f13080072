----------------------------- MODULE TestHelpers -----------------------------
(* The helpers of testing.py and calibration_utils.py in the tests of one IOC:  *)
(* a test that may be skipped or retried (skip_if_condition, unstable_test)     *)
(* under the fixtures of the unittest runner, whose body opens the contexts     *)
(* ManagerMode, use_calibration_file, assert_log_messages and the watches of    *)
(* Monitors inside each other.  The runner, the IOC and its log are external.   *)
EXTENDS Monitors

CONSTANTS MaxRetries,   \* max_retries of unstable_test
          Depth,        \* bound: contexts open at once
          SetTries,     \* bound: tries of set_calibration_file (10 in the code)
          LogArgs,      \* arguments of assert_log_messages the tests use
          MaxMessages,  \* bound: messages of a kind that wait to be read
          WatchArgs,    \* watches the tests use: kind, and the values wanted
          Uses          \* bound: the kinds of context that are used together

Settings == {"manager", "calibration"}
Messages == {"wanted", "other", "autosave"}
Errors == {"assert", "other"}           \* AssertionError, the error class to retry; any other

ASSUME HelpersAssumption ==
  /\ MaxRetries \in Nat /\ Depth \in Nat /\ MaxMessages \in Nat
  /\ SetTries \in Nat \ {0}
  /\ LogArgs \subseteq [need : BOOLEAN, limit : Nat \cup {None}, ignore : BOOLEAN]
  /\ MaxEvents \in Nat /\ None \notin Nat
  /\ WatchArgs \subseteq [kind : Monitored \cup Timed, want : Seq(Values)]

VARIABLES
  uses,      \* the kinds of context the tests use
  pc,        \* idle, setUp, body, write, confirm, watch, unwind, attempted, tearDown,
             \* runnerTearDown
  unstable,  \* the test is decorated with unstable_test
  attempt,   \* retries begun
  exc,       \* the exception on its way out of the test method, or none
  result,    \* of the latest test, none while it runs
  stack,     \* contexts open, outermost first
  work,      \* the setting being written: [setting, to, tries, entering]
  asked, value,   \* a setting as it was last written, and as the IOC has it
  unread,    \* messages the log file manager has not read, by kind
  due,       \* history: setUps begun that have had no tearDown
  returned,  \* history: the latest run of the test function came to its end
  stuck,     \* history: settings whose entering or leaving failed part way
  misled,    \* history: a context was content with what did not happen in it
  lost       \* history: an exception of its body was lost

test == <<uses, unstable, attempt, exc, result, stack>>
ioc == <<asked, value, unread>>
history == <<due, returned, stuck, misled, lost>>
vars == <<pc, record, test, work, ioc, history>>

NoMessages == [k \in Messages |-> 0]
NoWork == [setting |-> None, to |-> "default", tries |-> 0, entering |-> FALSE]

Init ==
  /\ RecordInit /\ uses \in Uses
  /\ pc = "idle" /\ unstable = FALSE /\ attempt = 0 /\ exc = "none"
  /\ result = "none" /\ stack = <<>> /\ work = NoWork
  /\ asked = [s \in Settings |-> "default"] /\ value = asked /\ unread = NoMessages
  /\ due = 0 /\ returned = FALSE /\ stuck = {} /\ misled = FALSE /\ lost = FALSE

Open == Len(stack)
Top == stack[Len(stack)]
Outer == SubSeq(stack, 1, Len(stack) - 1)
Onward(e) == IF e = "none" THEN "body" ELSE "unwind"

(***************************************************************************)
(* The runner and unstable_test.                                           *)
(***************************************************************************)

StartTest ==
  /\ pc = "idle"
  /\ unstable' \in BOOLEAN
  /\ attempt' = 0 /\ exc' = "none" /\ result' = "none" /\ pc' = "setUp"
  /\ UNCHANGED <<record, uses, stack, work, ioc, history>>

SetUp ==
  /\ pc = "setUp"
  /\ pc' = "body" /\ due' = due + 1 /\ returned' = FALSE
  /\ UNCHANGED <<record, test, work, ioc, stuck, misled, lost>>

\* The runner runs no tearDown after a setUp that raised; the retry's finally does.
SetUpRaises(e) ==
  /\ pc = "setUp"
  /\ exc' = e /\ returned' = FALSE
  /\ IF attempt = 0
       THEN pc' = "idle" /\ result' = "failed" /\ UNCHANGED due
       ELSE pc' = "tearDown" /\ due' = due + 1 /\ UNCHANGED result
  /\ UNCHANGED <<record, uses, unstable, attempt, stack, work, ioc, stuck, misled, lost>>

\* skip_if_condition: the condition is asked when the test is run.
Skip ==
  /\ pc = "body" /\ stack = <<>> /\ exc = "none" /\ attempt = 0
  /\ exc' = "skip" /\ pc' = "attempted"
  /\ UNCHANGED <<record, uses, unstable, attempt, result, stack, work, ioc, history>>

BodyEnds ==
  /\ pc = "body" /\ stack = <<>>
  /\ returned' = TRUE /\ pc' = "attempted"
  /\ UNCHANGED <<record, test, work, ioc, due, stuck, misled, lost>>

BodyRaises(e) ==
  /\ pc = "body"
  /\ exc' = e /\ pc' = "unwind"
  /\ UNCHANGED <<record, uses, unstable, attempt, result, stack, work, ioc, history>>

Unwound ==
  /\ pc = "unwind" /\ stack = <<>>
  /\ pc' = "attempted"
  /\ UNCHANGED <<record, test, work, ioc, history>>

\* Mutant: a retry that passed returns without tearDown.
TearDownOnFailure ==
  /\ pc = "attempted"
  /\ ~(attempt = 0 /\ unstable /\ exc = "assert" /\ MaxRetries > 0)
  /\ pc' = IF attempt > 0 /\ exc # "none" THEN "tearDown" ELSE "runnerTearDown"
  /\ UNCHANGED <<record, test, work, ioc, history>>

\* The first run has no tearDown of its own: its failure goes on to a retry at once.
FirstRunFails ==
  /\ pc = "attempted" /\ attempt = 0 /\ unstable /\ exc = "assert" /\ MaxRetries > 0
  /\ attempt' = 1 /\ exc' = "none" /\ pc' = "setUp"
  /\ UNCHANGED <<record, uses, unstable, result, stack, work, ioc, history>>

AttemptOver ==
  /\ pc = "attempted"
  /\ ~(attempt = 0 /\ unstable /\ exc = "assert" /\ MaxRetries > 0)
  /\ pc' = IF attempt > 0 THEN "tearDown" ELSE "runnerTearDown"
  /\ UNCHANGED <<record, test, work, ioc, history>>

\* Mutant: last_error is not raised once the retries are used up.
TearDownForgets ==
  /\ pc = "tearDown"
  /\ due' = due - 1
  /\ IF exc = "assert" /\ attempt < MaxRetries
       THEN attempt' = attempt + 1 /\ exc' = "none" /\ pc' = "setUp"
       ELSE /\ pc' = "runnerTearDown" /\ UNCHANGED attempt
            /\ exc' = IF exc = "assert" THEN "none" ELSE exc
  /\ UNCHANGED <<record, uses, unstable, result, stack, work, ioc, returned, stuck, misled, lost>>

\* The finally of a retry; the loop goes on only after an error of the error class.
TearDown ==
  /\ pc = "tearDown"
  /\ due' = due - 1
  /\ IF exc = "assert" /\ attempt < MaxRetries
       THEN attempt' = attempt + 1 /\ exc' = "none" /\ pc' = "setUp"
       ELSE pc' = "runnerTearDown" /\ UNCHANGED <<attempt, exc>>
  /\ UNCHANGED <<record, uses, unstable, result, stack, work, ioc, returned, stuck, misled, lost>>

\* An exception of tearDown replaces what the retry came to, and ends the loop.
TearDownRaises(e) ==
  /\ pc = "tearDown"
  /\ due' = due - 1 /\ exc' = e /\ pc' = "runnerTearDown"
  /\ UNCHANGED <<record, uses, unstable, attempt, result, stack, work, ioc, returned, stuck, misled, lost>>

RunnerTearDown ==
  /\ pc = "runnerTearDown"
  /\ due' = due - 1 /\ pc' = "idle"
  /\ result' \in {IF exc = "none" THEN "passed" ELSE IF exc = "skip" THEN "skipped" ELSE "failed",
                  "failed"}
  /\ UNCHANGED <<record, uses, unstable, attempt, exc, stack, work, ioc, returned, stuck, misled, lost>>

(***************************************************************************)
(* ManagerMode and use_calibration_file.                                   *)
(***************************************************************************)

EnterSetting(s) ==
  /\ pc = "body" /\ Open < Depth /\ s \in uses
  /\ work' = [setting |-> s, to |-> "used", tries |-> 0, entering |-> TRUE]
  /\ pc' = "write"
  /\ UNCHANGED <<record, test, ioc, history>>

\* Mutant: use_calibration_file without try and finally.
LeaveUnlessRaising ==
  /\ pc \in {"body", "unwind"} /\ stack # <<>> /\ Top.kind \in Settings
  /\ IF pc = "unwind" /\ Top.kind = "calibration"
       THEN stack' = Outer /\ UNCHANGED <<pc, work>>
       ELSE /\ work' = [setting |-> Top.kind, to |-> "default", tries |-> 0, entering |-> FALSE]
            /\ pc' = "write" /\ UNCHANGED stack
  /\ UNCHANGED <<record, uses, unstable, attempt, exc, result, ioc, history>>

LeaveSetting ==
  /\ pc \in {"body", "unwind"} /\ stack # <<>> /\ Top.kind \in Settings
  /\ work' = [setting |-> Top.kind, to |-> "default", tries |-> 0, entering |-> FALSE]
  /\ pc' = "write"
  /\ UNCHANGED <<record, test, ioc, history>>

WriteSetting ==
  /\ pc = "write"
  /\ asked' = [asked EXCEPT ![work.setting] = work.to]
  /\ work' = [work EXCEPT !.tries = @ + 1]
  /\ pc' = "confirm"
  /\ UNCHANGED <<record, test, value, unread, history>>

\* Mutant: the setting is not read back.
Unconfirmed ==
  /\ pc = "confirm"
  /\ stack' = IF work.entering THEN Append(stack, [kind |-> work.setting]) ELSE Outer
  /\ stuck' = IF work.entering THEN stuck ELSE stuck \ {work.setting}
  /\ pc' = Onward(exc) /\ work' = NoWork
  /\ UNCHANGED <<record, uses, unstable, attempt, exc, result, ioc, due, returned, misled, lost>>

\* assert_that_pv_is of the manager mode, or CAL:RBV read back.
Confirmed ==
  /\ pc = "confirm" /\ value[work.setting] = work.to
  /\ stack' = IF work.entering THEN Append(stack, [kind |-> work.setting]) ELSE Outer
  /\ stuck' = IF work.entering THEN stuck ELSE stuck \ {work.setting}
  /\ pc' = Onward(exc) /\ work' = NoWork
  /\ UNCHANGED <<record, uses, unstable, attempt, exc, result, ioc, due, returned, misled, lost>>

\* Mutant: one try too many.
TryOnceMore ==
  /\ pc = "confirm" /\ work.setting = "calibration"
  /\ value[work.setting] # work.to /\ work.tries <= SetTries
  /\ pc' = "write"
  /\ UNCHANGED <<record, test, work, ioc, history>>

TryAgain ==
  /\ pc = "confirm" /\ work.setting = "calibration"
  /\ value[work.setting] # work.to /\ work.tries < SetTries
  /\ pc' = "write"
  /\ UNCHANGED <<record, test, work, ioc, history>>

\* A write or a check raises.  Entering is outside the try, and __exit__ is not
\* called after an __enter__ that raised: the context is not open.
SettingRaises(e) ==
  /\ pc \in {"write", "confirm"}
  /\ exc' = e /\ pc' = "unwind" /\ work' = NoWork
  /\ stack' = IF work.entering THEN stack ELSE Outer
  /\ stuck' = IF work.entering /\ work.tries = 0 THEN stuck ELSE stuck \cup {work.setting}
  /\ UNCHANGED <<record, uses, unstable, attempt, result, ioc, due, returned, misled, lost>>

(***************************************************************************)
(* assert_log_messages.                                                    *)
(***************************************************************************)

LogContext(args) == [kind |-> "log", args |-> args, got |-> NoMessages, inner |-> FALSE]

\* Mutant: __enter__ does not read the excess log.
EnterLogUnread(args) ==
  /\ pc = "body" /\ Open < Depth /\ "log" \in uses
  /\ stack' = Append(stack, LogContext(args))
  /\ UNCHANGED <<pc, record, uses, unstable, attempt, exc, result, work, ioc, history>>

\* read_log takes what a context around this one has not read yet.
EnterLog(args) ==
  /\ pc = "body" /\ Open < Depth /\ "log" \in uses
  /\ unread' = NoMessages
  /\ stack' = Append([i \in 1..Open |->
                        IF stack[i].kind = "log" THEN [stack[i] EXCEPT !.inner = TRUE] ELSE stack[i]],
                     LogContext(args))
  /\ UNCHANGED <<pc, record, uses, unstable, attempt, exc, result, work, asked, value, history>>

\* What counts of messages read: lines of autosave only when they are not ignored.
Counted(args, m) == m["wanted"] + m["other"] + (IF args.ignore THEN 0 ELSE m["autosave"])

AsExpected(args, m) ==
  /\ args.limit # None => Counted(args, m) <= args.limit
  /\ args.need => m["wanted"] > 0

\* The reference: judged by what was printed since the context was entered.
Justified(log) ==
  /\ log.args.limit # None /\ ~log.inner => Counted(log.args, log.got) <= log.args.limit
  /\ log.args.need => log.got["wanted"] > 0

\* __exit__ judges what it reads and returns True: whatever the body raised is over.
LeaveLog ==
  /\ pc \in {"body", "unwind"} /\ stack # <<>> /\ Top.kind = "log"
  /\ unread' = NoMessages /\ stack' = Outer
  /\ IF AsExpected(Top.args, unread)
       THEN /\ exc' = "none" /\ pc' = "body"
            /\ lost' = (lost \/ exc # "none") /\ misled' = (misled \/ ~Justified(Top))
       ELSE exc' = "assert" /\ pc' = "unwind" /\ UNCHANGED <<misled, lost>>
  /\ UNCHANGED <<record, uses, unstable, attempt, result, work, asked, value, due, returned, stuck>>

(***************************************************************************)
(* The watches of Monitors.                                                *)
(***************************************************************************)

Watching(i) == stack[i].kind \in Monitored \cup Timed

EnterWatch(args) ==
  /\ pc = "body" /\ Open < Depth /\ args.kind \in uses
  /\ IF stack = <<>> THEN RecordFound ELSE UNCHANGED record
  /\ stack' = Append(stack, WatchContext(args)')
  /\ UNCHANGED <<pc, uses, unstable, attempt, exc, result, work, ioc, history>>

\* The body has ended: all but monitor_gets_values poll until they are satisfied.
LeaveWatch ==
  /\ pc = "body" /\ stack # <<>> /\ Watching(Open) /\ Top.kind # "values"
  /\ pc' = "watch"
  /\ UNCHANGED <<record, test, work, ioc, history>>

Judging ==
  \/ pc = "watch"
  \/ pc = "body" /\ stack # <<>> /\ Top.kind = "values"

WatchSatisfied ==
  /\ Judging /\ Satisfied(Top)
  /\ misled' = (misled \/ ~Earned(Top))
  /\ stack' = Outer /\ pc' = "body"
  /\ UNCHANGED <<record, uses, unstable, attempt, exc, result, work, ioc>>
  /\ UNCHANGED <<due, returned, stuck, lost>>

\* It was not at the end of the wait, or a time stamp could not be read.
WatchRaises(e) ==
  /\ Judging
  /\ IF e = "assert" THEN ~Satisfied(Top) ELSE Top.kind \in Timed
  /\ exc' = e /\ stack' = Outer /\ pc' = "unwind"
  /\ UNCHANGED <<record, uses, unstable, attempt, result, work, ioc, history>>

\* What stands behind the yield is not run when the body raised.
Unwatched ==
  /\ pc = "unwind" /\ stack # <<>> /\ Watching(Open)
  /\ stack' = Outer
  /\ UNCHANGED <<pc, record, uses, unstable, attempt, exc, result, work, ioc, history>>

(***************************************************************************)
(* The IOC and the library.                                                *)
(***************************************************************************)

Obeys(s) ==
  /\ value[s] # asked[s]
  /\ value' = [value EXCEPT ![s] = asked[s]]
  /\ UNCHANGED <<pc, record, test, work, asked, unread, history>>

Prints(k) ==
  /\ pc \in {"body", "unwind"} /\ "log" \in uses
  /\ unread[k] < MaxMessages
  /\ stack # <<>> => Top.kind = "log"
  /\ \A i \in 1..Open : stack[i].kind = "log" => stack[i].got[k] < MaxMessages
  /\ unread' = [unread EXCEPT ![k] = @ + 1]
  /\ stack' = [i \in 1..Open |->
                 IF stack[i].kind = "log" THEN [stack[i] EXCEPT !.got[k] = @ + 1] ELSE stack[i]]
  /\ UNCHANGED <<pc, record, uses, unstable, attempt, exc, result, work, asked, value, history>>

RecordProcesses(v, alarm, merged) ==
  /\ pc \in {"body", "watch"} /\ stamp < MaxEvents
  /\ \E i \in 1..Open : Watching(i)
  /\ stamp' = stamp + 1 /\ readback' = v
  /\ stack' = [i \in 1..Open |-> IF Watching(i) THEN Sees(stack[i], v, alarm, i \in merged) ELSE stack[i]]
  /\ UNCHANGED <<pc, source, uses, unstable, attempt, exc, result, work, ioc, history>>

CallsBack(i) ==
  /\ pc \in {"body", "watch"}
  /\ stack[i].kind \in Monitored /\ stack[i].queue # <<>>
  /\ stack' = [stack EXCEPT ![i] = CallBack(@)]
  /\ UNCHANGED <<pc, record, uses, unstable, attempt, exc, result, work, ioc, history>>

Next ==
  \/ StartTest \/ SetUp \/ Skip \/ BodyEnds \/ Unwound
  \/ FirstRunFails \/ AttemptOver \/ TearDown \/ RunnerTearDown
  \/ LeaveSetting \/ WriteSetting \/ Confirmed \/ TryAgain \/ LeaveLog
  \/ LeaveWatch \/ WatchSatisfied \/ Unwatched
  \/ \E e \in Errors : SetUpRaises(e) \/ BodyRaises(e) \/ TearDownRaises(e) \/ SettingRaises(e)
                       \/ WatchRaises(e)
  \/ \E s \in Settings : EnterSetting(s) \/ Obeys(s)
  \/ \E args \in LogArgs : EnterLog(args)
  \/ \E args \in WatchArgs : EnterWatch(args)
  \/ \E k \in Messages : Prints(k)
  \/ \E v \in Values, alarm \in BOOLEAN, merged \in SUBSET (1..Open) : RecordProcesses(v, alarm, merged)
  \/ \E i \in 1..Open : CallsBack(i)

Spec == Init /\ [][Next]_vars

-----------------------------------------------------------------------------
\* The state has the shape its comments give it; retries, tries and contexts keep
\* their limits.
TypeOK ==
  /\ RecordTypeOK
  /\ unstable \in BOOLEAN /\ attempt \in 0..MaxRetries
  /\ exc \in Errors \cup {"none", "skip"}
  /\ result \in {"none", "passed", "failed", "skipped"}
  /\ Len(stack) <= Depth /\ work.tries \in 0..SetTries
  /\ asked \in [Settings -> {"default", "used"}] /\ value \in [Settings -> {"default", "used"}]
  /\ unread \in [Messages -> 0..MaxMessages]
  /\ due \in 0..2 /\ stuck \subseteq Settings

\* However a test with retries ends, setUp and tearDown have run equally often when
\* the next test starts; and while the body of a retry runs, two setUps are without
\* their tearDown (the first failed run is torn down last, by the runner), so a fixture
\* that a second setUp finds in use is met by every retry.
FixturesMatch ==
  /\ pc = "idle" => due = 0
  /\ pc \in {"body", "write", "confirm", "unwind"} => due = (IF attempt > 0 THEN 2 ELSE 1)

\* Between tests manager mode is off and the calibration file is the default one,
\* unless setting it up or putting it back failed part way: a later context that was
\* left well makes up for that.
SettingsPutBack ==
  pc = "idle" => \A s \in Settings : s \notin stuck => value[s] = "default" /\ asked[s] = "default"

\* A test is reported as passed only if its latest run came to its end, and a context
\* is content only with what happened while it was open.  For assert_log_messages: the
\* message it wants was printed, and no more than it allows, as long as no other such
\* context read the log inside it.  For the watches: the record had the values wanted,
\* in their order, whenever the callbacks came; it was processed, or was not, unless
\* time stamps are written in two ways.
PassEarned ==
  /\ result = "passed" => returned
  /\ ~misled

\* An exception in the body of assert_log_messages, the assertions of the tests that
\* stand there among them, reaches the test (it does not: __exit__ returns True).
BodyFailuresShow == ~lost
==============================================================================
