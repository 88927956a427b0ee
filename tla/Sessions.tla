------------------------------ MODULE Sessions ------------------------------
(***************************************************************************)
(* One checker thread with all it remembers (TcCache and the thread's part *)
(* of TcCtx): it checks declarations, forces values as they come up, and   *)
(* ends sessions, which clears some caches and keeps others.               *)
(***************************************************************************)
EXTENDS Checks, Store

CONSTANTS MaxChecks, MaxWork, MaxSessions   \* bounds on a behaviour: of
                                  \* declarations, with what is forced, and sessions

VARIABLE count   \* how many of each there were

vars == <<checkVars, storeVars, count>>

Init ==
  /\ ChecksInit /\ StoreInit
  /\ count = [checks |-> 0, work |-> 0, sessions |-> 1]

\* A rejected declaration ends the thread.
Tick(what) ==
  /\ verdict.accepted
  /\ count' = [w \in DOMAIN count |-> count[w] + (IF w \in what THEN 1 ELSE 0)]
  /\ count'.checks <= MaxChecks /\ count'.work <= MaxWork /\ count'.sessions <= MaxSessions

CheckOne ==
  /\ Tick({"checks", "work"})
  /\ ChecksNext
  /\ UNCHANGED storeVars

ForceOne ==
  /\ Tick({"work"})
  /\ ForceAny
  /\ UNCHANGED checkVars

\* check_inductive_declar clears the caches between its steps.
ClearCaches ==
  /\ ~ordered
  /\ Tick({"sessions"})
  /\ Clear
  /\ type_cache' = {}
  /\ UNCHANGED <<ordered, envs, checked_closed, leaf_checked, leaf_stamp, verdict>>

\* run_session_inner, when the arena is over its budget.
ClearSession ==
  /\ ordered
  /\ Tick({"sessions"})
  /\ ForgetTypeChecks
  /\ ForgetValues

Next == CheckOne \/ ForceOne \/ ClearCaches \/ ClearSession

Spec == Init /\ [][Next]_vars
=============================================================================
