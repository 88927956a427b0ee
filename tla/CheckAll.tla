------------------------------ MODULE CheckAll ------------------------------
(***************************************************************************)
(* What ExportFile::check_all_declars promises, whatever the number of     *)
(* threads and however the declarations are cut into chunks and sessions:  *)
(* each declaration is run at most once, and the run ends with one         *)
(* verdict.  The verdict is "accept" only when every declaration was run   *)
(* and none failed; otherwise it is the failure of a declaration that was  *)
(* run, or "internal" when the checker itself could not go on.             *)
(***************************************************************************)
EXTENDS Naturals

CONSTANTS Declars,      \* the declarations of the export file
          MayBreak      \* whether the checker itself may fail (thread spawn)

Failures == {"reject", "decline", "internal"}
Outcomes == {"ok"} \cup Failures

VARIABLES fate,         \* what checking each declaration gives
          runs,         \* how often each declaration was run
          verdict       \* "none" until the run ends

vars == <<fate, runs, verdict>>

Init ==
  /\ fate \in [Declars -> Outcomes]
  /\ runs = [d \in Declars |-> 0]
  /\ verdict = "none"

Run(d) ==
  /\ verdict = "none"
  /\ runs[d] = 0
  /\ runs' = [runs EXCEPT ![d] = 1]
  /\ UNCHANGED <<fate, verdict>>

Accept ==
  /\ verdict = "none"
  /\ \A d \in Declars : runs[d] = 1 /\ fate[d] = "ok"
  /\ verdict' = "accept"
  /\ UNCHANGED <<fate, runs>>

Fail ==
  /\ verdict = "none"
  /\ \E d \in Declars : runs[d] = 1 /\ fate[d] # "ok" /\ verdict' = fate[d]
  /\ UNCHANGED <<fate, runs>>

Break ==
  /\ MayBreak
  /\ verdict = "none"
  /\ verdict' = "internal"
  /\ UNCHANGED <<fate, runs>>

Next == (\E d \in Declars : Run(d)) \/ Accept \/ Fail \/ Break

Spec == Init /\ [][Next]_vars
=============================================================================
