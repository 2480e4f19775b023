------------------------------- MODULE Search -------------------------------
(***************************************************************************)
(* What main.rs promises for one rule file: the search ends, and what it   *)
(* reports is the chainable part of every match of every readable file,    *)
(* the same set on every run whatever the thread pool did.  If the regex   *)
(* engine gives up on a file that is searched, the process panics and      *)
(* nothing is reported.                                                    *)
(***************************************************************************)
EXTENDS SearchData

VARIABLES status,   \* "searching", "reported" or "crashed"
          report    \* the set of results handed to the output

vars == <<status, report>>

Init == status = "searching" /\ report = {}

Finish ==
  /\ status = "searching"
  /\ Faults = {}
  /\ status' = "reported"
  /\ report' = filter_chainable_results(Expected)

Crash ==
  /\ status = "searching"
  /\ Faults # {}
  /\ status' = "crashed"
  /\ UNCHANGED report

Next == Finish \/ Crash

Safety == Init /\ [][Next]_vars

Spec == Safety /\ WF_vars(Next)
=============================================================================
