--------------------------- MODULE MCTestHelpers ---------------------------
(* The arguments found in the tests: of assert_log_messages, a text the log    *)
(* must contain, or a number of messages it may not exceed; of the monitors,   *)
(* the values wanted.                                                          *)
EXTENDS TestHelpers

MCLogArgs == {[need |-> TRUE, limit |-> None, ignore |-> TRUE],
              [need |-> FALSE, limit |-> 1, ignore |-> FALSE]}

MCWatchArgs == {[kind |-> "values", want |-> <<0, 1>>], [kind |-> "latest", want |-> <<1>>],
                [kind |-> "processed", want |-> <<>>], [kind |-> "still", want |-> <<>>]}

\* The tests of a class use settings and log contexts, watches, or some of each.
MCUses == {{"manager", "calibration", "log"}, {"values", "latest", "processed", "still"},
           {"log", "processed"}}
============================================================================
