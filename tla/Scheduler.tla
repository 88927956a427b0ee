----------------------------- MODULE Scheduler -----------------------------
(***************************************************************************)
(* ExportFile::check_all_declars (checker/tc.rs): the main thread, its     *)
(* checker threads, the shared chunk counter `task_num`, the Reporter's    *)
(* stop flag and progress count, and the sessions a thread cuts its work   *)
(* into when its value arena outgrows SESSION_BUDGET.  What checking one   *)
(* declaration gives is its `fate`: it depends on the declaration alone,   *)
(* because EnvLimit::ByName hides every later declaration.                 *)
(***************************************************************************)
EXTENDS Naturals, FiniteSets

CONSTANTS
  Total,        \* number of declarations, indexed 0 .. Total - 1
  ChunkSize,    \* CHUNK_SIZE
  NumThreads,   \* config.num_threads
  Fates,        \* what checking a declaration may give
  Sizes,        \* bytes one declaration may add to the arena
  Budget,       \* SESSION_BUDGET
  SpawnMayFail, \* whether the system may refuse a thread
  Laggards      \* the threads whose Relaxed load of the stop flag may read
                \* FALSE after another thread stored TRUE

Failures == {"reject", "decline", "internal"}

ASSUME SchedulerAssumption ==
  /\ Total \in Nat
  /\ ChunkSize \in Nat \ {0}
  /\ NumThreads \in Nat \ {0}
  /\ "ok" \in Fates /\ Fates \subseteq {"ok"} \cup Failures
  /\ Sizes # {} /\ Sizes \subseteq Nat
  /\ Budget \in Nat
  /\ SpawnMayFail \in BOOLEAN

Declars == 0 .. Total - 1
Threads == 0 .. NumThreads - 1

VARIABLES
  fate,         \* what checking each declaration gives
  task_num,     \* the shared counter the threads claim chunks from
  stopped,      \* Reporter.stopped
  done,         \* Reporter.done
  runs,         \* history: how often each declaration was checked
  pc,           \* where each checker thread is
  lo, hi,       \* the chunk a thread holds: lo .. hi - 1 is still to do
  used,         \* used_bytes of the thread's value arena
  payload,      \* the panic payload a thread died of, or "none"
  mpc, mi,      \* where the main thread is, and its loop index
  thrown,       \* the payload the main thread unwinds with, or "none"
  verdict       \* the result of check_all_declars

shared == <<fate, task_num, stopped, done, runs>>
tvars  == <<pc, lo, hi, used, payload>>
mvars  == <<mpc, mi, thrown, verdict>>
vars   == <<shared, tvars, mvars>>

Init ==
  /\ mpc \in {"parse", "spawn"}                       \* config.parse_only
  /\ fate \in [Declars -> Fates]
  /\ mpc = "parse" => \A d \in Declars : fate[d] = "ok"  \* check(d, || {})
  /\ task_num = 0
  /\ stopped = FALSE
  /\ done = 0
  /\ runs = [d \in Declars |-> 0]
  /\ pc = [t \in Threads |-> "unborn"]
  /\ lo = [t \in Threads |-> 0]
  /\ hi = [t \in Threads |-> 0]
  /\ used = [t \in Threads |-> 0]
  /\ payload = [t \in Threads |-> "none"]
  /\ mi = 0
  /\ thrown = "none"
  /\ verdict = "none"

-----------------------------------------------------------------------------
(* Checker threads.                                                        *)

(* Mutated forms of an operator, each a slip the checked properties must
   catch, stand before the operator they replace. *)

ChunkEndUnclamped(s) == s + ChunkSize
ChunkEndInclusive(s) == IF s + ChunkSize + 1 < Total THEN s + ChunkSize + 1 ELSE Total

\* The end of the chunk that starts at s.
ChunkEnd(s) == IF s + ChunkSize < Total THEN s + ChunkSize ELSE Total

\* What a thread's load of the stop flag may return.
SeenStopped(t) == {stopped} \cup (IF t \in Laggards THEN {FALSE} ELSE {})

\* The next declaration of the chunk, or the next chunk.
Resume(i, end) == IF i < end THEN "check" ELSE "claim"

Over(bytes) == bytes > Budget

\* claim(), first half: task_num.fetch_add(CHUNK_SIZE).
FetchAdd(t) ==
  /\ pc[t] = "claim"
  /\ NumThreads > 1
  /\ task_num' = task_num + ChunkSize
  /\ lo' = [lo EXCEPT ![t] = task_num]
  /\ hi' = [hi EXCEPT ![t] = ChunkEnd(task_num)]
  /\ pc' = [pc EXCEPT ![t] = "test"]
  /\ UNCHANGED <<fate, stopped, done, runs, used, payload, mvars>>

\* The session has no next chunk: clear_session, and the thread returns.
Finish(t) ==
  /\ pc' = [pc EXCEPT ![t] = "done"]
  /\ used' = [used EXCEPT ![t] = 0]
  /\ UNCHANGED <<shared, lo, hi, payload, mvars>>

RefusedPastEndOnly(t, seen) == lo[t] >= Total

\* claim(), second half: None past the end or after a failure.
Refused(t, seen) == lo[t] >= Total \/ seen

Test(t) ==
  /\ pc[t] = "test"
  /\ \E seen \in SeenStopped(t) :
       \/ Refused(t, seen) /\ Finish(t)
       \/ /\ ~Refused(t, seen)
          /\ pc' = [pc EXCEPT ![t] = "check"]
          /\ UNCHANGED <<shared, lo, hi, used, payload, mvars>>

\* The serial checker's next_chunk is || None.
SerialEnd(t) ==
  /\ pc[t] = "claim"
  /\ NumThreads = 1
  /\ Finish(t)

\* report.check of a declaration that passes, and the budget test after it.
CheckPasses(t) ==
  /\ pc[t] = "check"
  /\ fate[lo[t]] = "ok"
  /\ runs' = [runs EXCEPT ![lo[t]] = @ + 1]
  /\ done' = done + 1
  /\ lo' = [lo EXCEPT ![t] = @ + 1]
  /\ \E b \in Sizes :
       /\ used' = [used EXCEPT ![t] = @ + b]
       /\ pc' = [pc EXCEPT ![t] = IF Over(used[t] + b) THEN "clear"
                                  ELSE Resume(lo[t] + 1, hi[t])]
  /\ UNCHANGED <<fate, task_num, stopped, hi, payload, mvars>>

\* report.check of a declaration that fails: recorded before the flag is set.
CheckFails(t) ==
  /\ pc[t] = "check"
  /\ fate[lo[t]] # "ok"
  /\ runs' = [runs EXCEPT ![lo[t]] = @ + 1]
  /\ done' = done + 1
  /\ lo' = [lo EXCEPT ![t] = @ + 1]
  /\ payload' = [payload EXCEPT ![t] = fate[lo[t]]]
  /\ pc' = [pc EXCEPT ![t] = "stop"]
  /\ UNCHANGED <<fate, task_num, stopped, hi, used, mvars>>

\* stopped.store(true), and the thread unwinds: its chunk is abandoned.
Stop(t) ==
  /\ pc[t] = "stop"
  /\ stopped' = TRUE
  /\ pc' = [pc EXCEPT ![t] = "panicked"]
  /\ UNCHANGED <<fate, task_num, done, runs, lo, hi, used, payload, mvars>>

ClearSessionDropsPending(t) ==
  /\ pc[t] = "clear"
  /\ used' = [used EXCEPT ![t] = 0]
  /\ pc' = [pc EXCEPT ![t] = "claim"]
  /\ UNCHANGED <<shared, lo, hi, payload, mvars>>

ClearSessionKeepsArena(t) ==
  /\ pc[t] = "clear"
  /\ pc' = [pc EXCEPT ![t] = Resume(lo[t], hi[t])]
  /\ UNCHANGED <<shared, lo, hi, used, payload, mvars>>

ClearSessionSpins(t) ==
  /\ pc[t] = "clear"
  /\ used' = [used EXCEPT ![t] = 0]
  /\ UNCHANGED <<shared, pc, lo, hi, payload, mvars>>

\* clear_session between two sessions; the pending range is taken up again.
ClearSession(t) ==
  /\ pc[t] = "clear"
  /\ used' = [used EXCEPT ![t] = 0]
  /\ pc' = [pc EXCEPT ![t] = Resume(lo[t], hi[t])]
  /\ UNCHANGED <<shared, lo, hi, payload, mvars>>

Thread(t) ==
  \/ FetchAdd(t) \/ Test(t) \/ SerialEnd(t)
  \/ CheckPasses(t) \/ CheckFails(t) \/ Stop(t) \/ ClearSession(t)

-----------------------------------------------------------------------------
(* The main thread.                                                        *)

\* parse_only: every declaration is reported, none is checked.
ParseStep ==
  /\ mpc = "parse"
  /\ IF mi < Total
     THEN /\ runs' = [runs EXCEPT ![mi] = @ + 1]
          /\ done' = done + 1
          /\ mi' = mi + 1
          /\ UNCHANGED mpc
     ELSE /\ mpc' = "finish"
          /\ UNCHANGED <<runs, done, mi>>
  /\ UNCHANGED <<fate, task_num, stopped, tvars, thrown, verdict>>

\* The main loop's next index, or its next loop.
Loop(i, at, next) ==
  IF i + 1 < NumThreads THEN mpc' = at /\ mi' = i + 1
                        ELSE mpc' = next /\ mi' = 0

\* A parallel thread starts by claiming, the serial one with (0, total).
Spawn ==
  /\ mpc = "spawn"
  /\ IF NumThreads > 1
     THEN pc' = [pc EXCEPT ![mi] = "claim"] /\ UNCHANGED hi
     ELSE /\ pc' = [pc EXCEPT ![mi] = Resume(0, Total)]
          /\ hi' = [hi EXCEPT ![mi] = Total]
  /\ Loop(mi, "spawn", "join")
  /\ UNCHANGED <<shared, lo, used, payload, thrown, verdict>>

\* spawn_scoped(..).unwrap() panics; the scope waits for the threads it has.
SpawnFails ==
  /\ mpc = "spawn"
  /\ SpawnMayFail
  /\ thrown' = "internal"
  /\ mpc' = "leave"
  /\ UNCHANGED <<shared, tvars, mi, verdict>>

JoinSwallows ==
  /\ mpc = "join"
  /\ pc[mi] \in {"done", "panicked"}
  /\ Loop(mi, "join", "leave")
  /\ UNCHANGED <<shared, tvars, thrown, verdict>>

\* t.join(), in the order of the handles; the first payload is rethrown.
Join ==
  /\ mpc = "join"
  /\ \/ /\ pc[mi] = "done"
        /\ Loop(mi, "join", "leave")
        /\ UNCHANGED thrown
     \/ /\ pc[mi] = "panicked"
        /\ thrown' = payload[mi]
        /\ mpc' = "leave"
        /\ UNCHANGED mi
  /\ UNCHANGED <<shared, tvars, verdict>>

Ended(t) == pc[t] \in {"unborn", "done", "panicked"}

\* thread::scope returns, or goes on unwinding, once every thread has ended.
LeaveScope ==
  /\ mpc = "leave"
  /\ \A t \in Threads : Ended(t)
  /\ mpc' = "finish"
  /\ UNCHANGED <<shared, tvars, mi, thrown, verdict>>

\* catch_unwind and CheckError::from_panic.
FromPanic(p) == IF p = "none" THEN "accept" ELSE p

Conclude ==
  /\ mpc = "finish"
  /\ verdict' = FromPanic(thrown)
  /\ mpc' = "exited"
  /\ UNCHANGED <<shared, tvars, mi, thrown>>

Main == ParseStep \/ Spawn \/ SpawnFails \/ Join \/ LeaveScope \/ Conclude

Exited == mpc = "exited" /\ UNCHANGED vars

Next == Main \/ (\E t \in Threads : Thread(t)) \/ Exited

Spec == Init /\ [][Next]_vars

\* The operating system schedules every runnable thread.
FairSpec ==
  /\ Spec
  /\ WF_vars(Main)
  /\ \A t \in Threads : WF_vars(Thread(t))

-----------------------------------------------------------------------------
(* Properties.                                                             *)

TypeOK ==
  /\ fate \in [Declars -> Fates]
  /\ task_num \in Nat
  /\ stopped \in BOOLEAN
  /\ done \in Nat
  /\ runs \in [Declars -> Nat]
  /\ pc \in [Threads -> {"unborn", "claim", "test", "check", "clear", "stop",
                         "done", "panicked"}]
  /\ lo \in [Threads -> Nat]
  /\ hi \in [Threads -> 0 .. Total]
  /\ used \in [Threads -> Nat]
  /\ payload \in [Threads -> {"none"} \cup Failures]
  /\ mpc \in {"parse", "spawn", "join", "leave", "finish", "exited"}
  /\ mi \in Nat
  /\ mpc \in {"spawn", "join"} => mi \in Threads
  /\ thrown \in {"none"} \cup Failures
  /\ verdict \in {"none", "accept"} \cup Failures

\* The declarations a thread still has to check.
Held(t) == IF pc[t] \in {"test", "check", "clear"} THEN lo[t] .. hi[t] - 1 ELSE {}

(* A declaration a thread holds was never checked and no other thread holds
   it: the chunks of fetch_add do not overlap, and the range left over from a
   session is neither handed out again nor restarted. *)
HeldOnce ==
  \A t \in Threads : \A d \in Held(t) :
    runs[d] = 0 /\ \A u \in Threads \ {t} : d \notin Held(u)

(* When every thread has returned normally, nothing was lost between chunks
   and sessions: every declaration was checked. *)
NothingLost ==
  (mpc \notin {"parse", "spawn"} /\ \A t \in Threads : pc[t] = "done")
    => \A d \in Declars : runs[d] = 1

(* A thread's arena outgrows the budget by at most one declaration: the test
   after each declaration ends the session, across chunks too. *)
SessionBounded ==
  \A t \in Threads : \E b \in Sizes \cup {0} : used[t] <= Budget + b

\* The declarations a thread has been granted and has not checked.
Granted(t) == IF pc[t] = "test" THEN {} ELSE Held(t)

(* With a coherent view of the flag, no thread is given more work once a
   failure was flagged, be it by a thread that another one missed: threads only
   finish the chunk they are in. *)
NoWorkAfterStop ==
  [][stopped => \A t \in Threads \ Laggards : Granted(t)' \subseteq Granted(t)]_vars

(* The run ends: no schedule leaves the main thread waiting for ever. *)
Terminates == <>(verdict # "none")

(* The threads, chunks and sessions implement what check_all_declars
   promises. *)
Abs == INSTANCE CheckAll WITH MayBreak <- SpawnMayFail
Promise == Abs!Spec
=============================================================================
