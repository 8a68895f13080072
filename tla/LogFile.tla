------------------------------ MODULE LogFile -------------------------------
(***************************************************************************)
(* LogFileManager: the log of an IOC, seen by one reader.  Of what an IOC   *)
(* prints only its started text matters (by default the prompt "epics>").   *)
(* An IOC may get it into the file in two writes.                           *)
(*   before    the file holds the text in front of the reader's position    *)
(*   unread    who printed the texts behind the position                    *)
(*   half      the file ends with the first part of the text, which the     *)
(*             reader has, or has not, taken                                *)
(***************************************************************************)
CONSTANT Writer

Log == [before : BOOLEAN, unread : SUBSET Writer, half : {"none", "unread", "read"}]

(* A new reader starts at the beginning of a file opened for appending:     *)
(* whatever earlier readers took, it takes again.                           *)
Reopened(log, someone) ==
  [before |-> FALSE,
   unread |-> log.unread \cup (IF log.before THEN {someone} ELSE {}),
   half |-> IF log.half = "none" THEN "none" ELSE "unread"]

(* read_log takes all there is, a line that is not complete included.       *)
HasText(log) == log.unread # {}
AllRead(log) ==
  [before |-> log.before \/ HasText(log),
   unread |-> {},
   half |-> IF log.half = "none" THEN "none" ELSE "read"]

Printed(log, w) == [log EXCEPT !.unread = @ \cup {w}, !.half = "none"]
PrintedFirst(log) == [log EXCEPT !.half = "unread"]
(* The second part completes the text only for a reader that has not taken  *)
(* the first.                                                               *)
PrintedRest(log, w) ==
  IF log.half = "read" THEN [log EXCEPT !.before = TRUE, !.half = "none"]
                       ELSE Printed(log, w)
=============================================================================
