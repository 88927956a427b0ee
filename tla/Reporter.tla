------------------------------ MODULE Reporter ------------------------------
(***************************************************************************)
(* The Reporter (report.rs): checker threads record declarations on one    *)
(* screen.  A line is kept for every declaration when verbose, else for    *)
(* those that are not plainly ok; the others show for a while on a live    *)
(* line at the bottom of a terminal, which the next text erases.  Records  *)
(* that show nothing only count, without the lock.                         *)
(***************************************************************************)
EXTENDS Naturals, Sequences, FiniteSets

CONSTANTS
  Checkers,
  PerThread,   \* how many declarations a thread checks
  WriteMayFail \* whether writing to standard output may fail

ASSUME ReporterAssumption ==
  /\ IsFiniteSet(Checkers) /\ "free" \notin Checkers
  /\ PerThread \in Nat \ {0}
  /\ WriteMayFail \in BOOLEAN

Total == PerThread * Cardinality(Checkers)

VARIABLES
  verbose, live,      \* output.verbose, and whether live_width is Some
  done,               \* Reporter.done
  lock,               \* who holds the screen: a thread, or "free"
  out,                \* Screen.out is Some
  live_shown, live_at,
  pc, left,           \* where a thread is, and the declarations it has left
  status,             \* the status of the declaration a thread records
  count,              \* a thread's local `done`
  finished,           \* Reporter::finish has returned
  lines, bottom,      \* what is on the terminal: the counts on the kept lines
                      \* and on the live line, 0 if there is none
  garbled             \* whether a text was written after an unerased live line

screen       == <<out, live_shown, live_at>>
display      == <<lines, bottom, garbled>>
tvars        == <<pc, left, status, count>>
reporterVars == <<verbose, live, done, lock, screen, tvars, finished, display>>

ReporterInit ==
  /\ verbose \in BOOLEAN /\ live \in BOOLEAN
  /\ live => ~verbose                      \* main.rs: live without --verbose
  /\ done = 0
  /\ lock = "free"
  /\ out = TRUE /\ live_shown = FALSE /\ live_at = FALSE
  /\ pc = [t \in Checkers |-> "check"]
  /\ left = [t \in Checkers |-> PerThread]
  /\ status = [t \in Checkers |-> "ok"]
  /\ count = [t \in Checkers |-> 0]
  /\ finished = FALSE
  /\ lines = <<>> /\ bottom = 0 /\ garbled = FALSE

-----------------------------------------------------------------------------
Persist(t) == verbose \/ status[t] # "ok"

Move(t, to) == pc' = [pc EXCEPT ![t] = to]

\* Reporter::check: a declaration was checked.
CheckOne(t) ==
  /\ pc[t] = "check"
  /\ left[t] > 0
  /\ \E s \in {"ok", "warn", "fail"} : status' = [status EXCEPT ![t] = s]
  /\ left' = [left EXCEPT ![t] = @ - 1]
  /\ Move(t, "record")
  /\ UNCHANGED <<verbose, live, done, lock, screen, count, finished, display>>

\* A failure unwinds the thread; what it had left is not checked.
After(t) == IF status[t] = "fail" THEN "unwound" ELSE "check"

(* Mutated forms of an operator, each a slip the checked properties must
   catch, stand before the operator they replace. *)

\* record, without a screen to write to.
CountOnly(t) ==
  /\ pc[t] = "record"
  /\ ~Persist(t) /\ ~live
  /\ done' = done + 1
  /\ Move(t, After(t))
  /\ UNCHANGED <<verbose, live, lock, screen, left, status, count, finished, display>>

LockCountsEarly(t) ==
  /\ pc[t] = "record"
  /\ Persist(t) \/ live
  /\ \/ /\ count[t] = 0
        /\ done' = done + 1
        /\ count' = [count EXCEPT ![t] = done + 1]
        /\ UNCHANGED <<lock, pc>>
     \/ /\ count[t] # 0
        /\ lock = "free"
        /\ lock' = t
        /\ Move(t, "show")
        /\ UNCHANGED <<done, count>>
  /\ UNCHANGED <<verbose, live, screen, left, status, finished, display>>

\* screen.lock(), which a panic elsewhere never poisons for good.
Lock(t) ==
  /\ pc[t] = "record"
  /\ Persist(t) \/ live
  /\ lock = "free"
  /\ lock' = t
  /\ Move(t, "count")
  /\ UNCHANGED <<verbose, live, done, screen, left, status, count, finished, display>>

\* done.fetch_add under the lock; others may count without it.
Count(t) ==
  /\ pc[t] = "count"
  /\ done' = done + 1
  /\ count' = [count EXCEPT ![t] = done + 1]
  /\ Move(t, "show")
  /\ UNCHANGED <<verbose, live, lock, screen, left, status, finished, display>>

Release(t) ==
  /\ lock' = "free"
  /\ count' = [count EXCEPT ![t] = 0]
  /\ Move(t, After(t))
  /\ UNCHANGED <<verbose, live, done, left, status, finished>>

\* A text that is not kept is not written within LIVE_INTERVAL of the last.
Throttled(t) ==
  /\ pc[t] = "show"
  /\ ~Persist(t) /\ live_at
  /\ Release(t)
  /\ UNCHANGED <<screen, display>>

\* What is left of the live line once a text begins: `clear`, if it is known.
Uncleared == IF live_shown THEN 0 ELSE bottom

\* Screen::emit of a text that makes the terminal show ls and b; an error
\* closes the screen, and nothing is written to a closed one.
Emit(ls, b) ==
  \/ /\ out
     /\ lines' = ls /\ bottom' = b
     /\ garbled' = (garbled \/ Uncleared # 0)
     /\ UNCHANGED out
  \/ out /\ WriteMayFail /\ out' = FALSE /\ UNCHANGED display
  \/ ~out /\ UNCHANGED <<out, display>>

\* A line that is kept, written where the live line was.
Keep(t) ==
  /\ pc[t] = "show"
  /\ Persist(t)
  /\ live_shown' = FALSE
  /\ Emit(Append(lines, count[t]), 0)
  /\ Release(t)
  /\ UNCHANGED live_at

ShowUnmarked(t) ==
  /\ pc[t] = "show"
  /\ ~Persist(t)
  /\ live_at' = TRUE
  /\ Emit(lines, count[t])
  /\ Release(t)
  /\ UNCHANGED live_shown

\* The live line: the interval since the last one has passed.
Show(t) ==
  /\ pc[t] = "show"
  /\ ~Persist(t)
  /\ live_shown' = TRUE
  /\ live_at' = TRUE
  /\ Emit(lines, count[t])
  /\ Release(t)

\* Reporter::finish, once the threads have ended.
Finish ==
  /\ ~finished
  /\ \A t \in Checkers : pc[t] = "unwound" \/ (pc[t] = "check" /\ left[t] = 0)
  /\ lock = "free"
  /\ live_shown' = FALSE
  /\ Emit(lines, Uncleared)
  /\ finished' = TRUE
  /\ UNCHANGED <<verbose, live, done, lock, live_at, tvars>>

Thread(t) == \/ CheckOne(t) \/ CountOnly(t) \/ Lock(t) \/ Count(t)
             \/ Throttled(t) \/ Keep(t) \/ Show(t)

Ended == finished /\ UNCHANGED reporterVars

ReporterNext == (\E t \in Checkers : Thread(t)) \/ Finish \/ Ended

ReporterSpec == ReporterInit /\ [][ReporterNext]_reporterVars

-----------------------------------------------------------------------------
(* Properties.                                                             *)

TypeOK ==
  /\ done \in 0 .. Total
  /\ lock \in Checkers \cup {"free"}
  /\ {verbose, live, out, live_shown, live_at, finished, garbled} \subseteq BOOLEAN
  /\ pc \in [Checkers -> {"check", "record", "count", "show", "unwound"}]
  /\ left \in [Checkers -> 0 .. PerThread]
  /\ count \in [Checkers -> 0 .. Total]
  /\ bottom \in 0 .. Total
  /\ \A i \in DOMAIN lines : lines[i] \in 1 .. Total

(* The counts on the kept lines grow from line to line, though threads race to
   record and some count without the lock. *)
LinesAscend ==
  \A i \in DOMAIN lines : i > 1 => lines[i - 1] < lines[i]

\* How many declarations were checked.
Checked == Cardinality({d \in Checkers \X (1 .. PerThread) : left[d[1]] < d[2]})

(* No text is written after a live line that still shows, and a run leaves none
   behind and has counted what it checked. *)
Legible ==
  /\ ~garbled
  /\ finished => (out => bottom = 0) /\ done = Checked
=============================================================================
