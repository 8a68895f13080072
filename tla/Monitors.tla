------------------------------ MODULE Monitors ------------------------------
(* The assertions of ChannelAccess that stand around a body and judge what a PV *)
(* did meanwhile: by the values a monitor was called back with, in a thread of  *)
(* the library and later than the record changed, or by the record's time       *)
(* stamp.  The record and the library are external.                             *)
EXTENDS Integers, SequencesExt

CONSTANTS MaxEvents,    \* bound: the record is processed so often under one watch
          None

Values == 0..1                          \* a test tells two values apart
Monitored == {"values", "latest"}       \* monitor_gets_values; monitor_is, monitor_is_number
Timed == {"processed", "still"}         \* assert_pv_processed, assert_pv_not_processed

VARIABLES
  readback,  \* value of the watched record
  stamp,     \* its time stamp: how often it was processed under the outermost watch
  source     \* how PVs are read: ca, pva, or alike: pva, which writes time stamps as ca does

record == <<readback, stamp, source>>

RecordInit ==
  readback = 0 /\ stamp = 0 /\ source = "ca"

\* The outermost watch finds the record in any state.
RecordFound ==
  readback' \in Values /\ stamp' = 0 /\ source' \in {"ca", "pva", "alike"}

RecordTypeOK == readback \in Values /\ stamp \in 0..MaxEvents

\* A watch begins.  A monitor is first called back with the value the record has; the
\* time stamp is read with self.pv_access.  had and ran are histories: the values since
\* then, and whether the record was processed.
WatchContext(args) ==
  [kind |-> args.kind, want |-> args.want, all |-> <<>>, ran |-> FALSE,
   queue |-> IF args.kind \in Monitored THEN <<readback>> ELSE <<>>,
   had |-> IF args.kind \in Monitored THEN <<readback>> ELSE <<>>,
   before |-> IF args.kind \in Monitored \/ source = "pva" THEN None ELSE stamp]

\* The record is processed and reads v.  A monitor has an event when the value or the
\* alarm changed, and is called back with the value either way; the library merges the
\* event with the one that waits when it has no room for more.
Sees(watch, v, alarm, merged) ==
  IF watch.kind \in Timed \/ (v = readback /\ ~alarm) THEN [watch EXCEPT !.ran = TRUE]
  ELSE [watch EXCEPT
          !.ran = TRUE, !.had = Append(@, v),
          !.queue = Append(IF merged /\ @ # <<>> THEN Front(@) ELSE @, v)]

\* Mutant: the newest value comes first.
CallBackReversed(watch) ==
  [watch EXCEPT !.all = <<Head(watch.queue)>> \o @, !.queue = Tail(@)]

\* _set_val
CallBack(watch) == [watch EXCEPT !.all = Append(@, Head(watch.queue)), !.queue = Tail(@)]

\* What is judged once the body has ended: all values, the latest one, or the time stamp,
\* which is now read over channel access whatever pv_access says.
Satisfied(watch) ==
  /\ watch.kind = "values" => watch.all = watch.want
  /\ watch.kind = "latest" => watch.all # <<>> /\ Last(watch.all) = watch.want[1]
  /\ watch.kind = "processed" => stamp # watch.before
  /\ watch.kind = "still" => stamp = watch.before

Subsequence(s, t) ==
  \E at \in [DOMAIN s -> DOMAIN t] :
    /\ \A i \in DOMAIN s : s[i] = t[at[i]]
    /\ \A i, j \in DOMAIN s : i < j => at[i] < at[j]

\* The reference: judged by what the record did.  Time stamps of two kinds that differ
\* as texts tell nothing, so those are excluded.
Earned(watch) ==
  /\ watch.kind = "values" => Subsequence(watch.want, watch.had)
  /\ watch.kind = "latest" => watch.want[1] \in ToSet(watch.had)
  /\ watch.kind = "processed" => (source # "pva" => watch.ran)
  /\ watch.kind = "still" => ~watch.ran
=============================================================================
