----------------------------- MODULE ConvProbe -----------------------------
(***************************************************************************)
(* Conversion of two values and its three caches (checker/conv.rs).  Two   *)
(* applications of one definition are first compared by a probe of their   *)
(* arguments on a budget of PROBE_CAP comparisons each; a probe may run    *)
(* out, in which case its failures mean nothing and must not be kept.      *)
(* A question on types asked on the way (conv_types_at, for proof          *)
(* irrelevance) suspends the budget and may probe in its turn.             *)
(*                                                                         *)
(* Terms are abstracted to the pairs compared: what a pair is decided by   *)
(* is its `shape`, whose pairs come later in the order of Pairs.           *)
(***************************************************************************)
EXTENDS Naturals, Sequences

CONSTANTS
  Last,      \* pairs are 1 .. Last
  Graphs,    \* the terms: each gives every pair its shape, see IsShape
  Cap        \* PROBE_CAP

Pairs == 1 .. Last

(* kind   "yes", "no"  decided at once
          "spine"      one head that neither unfolds nor computes, or two Pis
          "delta"      two applications of one definition
          "iota"       two applications of one recursor or quotient constant
          "step"       a definition on one side only, or another on each
   args   the pairs of arguments to compare
   ty     the pair of types, when both sides are proofs; 0 if not
   next   the pair after the sides unfold or compute; 0 if they do not
   forced whether only unfold_value_for_conv with force unfolds them: the Nat
          arithmetic that nat_red_defer leaves alone
   cache  whether is_cacheable, and "pos" when a side is a lambda *)
IsShape(s) ==
  /\ s.kind \in {"yes", "no", "spine", "delta", "iota", "step"}
  /\ s.args \in Seq(Pairs)
  /\ s.ty \in Pairs \cup {0} /\ s.next \in Pairs \cup {0}
  /\ s.kind = "delta" => s.next # 0
  /\ s.forced \in BOOLEAN /\ (s.kind = "iota" => ~s.forced)
  /\ s.cache \in {"no", "pos", "both"}

\* The pairs a pair is decided by come after it.
IsGraph(g) ==
  /\ DOMAIN g = Pairs
  /\ \A p \in Pairs :
       /\ IsShape(g[p])
       /\ \A i \in DOMAIN g[p].args : g[p].args[i] > p
       /\ {g[p].ty, g[p].next} \subseteq {0} \cup p + 1 .. Last

\* Whether the pairs of a term are convertible, without budgets or caches;
\* force tells whether what nat_red_defer leaves alone may be unfolded.
Truth(g, force) ==
  LET true[p \in Pairs] ==
        LET s == g[p]
        IN  \/ s.kind = "yes"
            \/ s.kind \in {"spine", "delta", "iota"} /\ \A i \in DOMAIN s.args : true[s.args[i]]
            \/ s.ty # 0 /\ true[s.ty]
            \/ /\ s.kind \in {"delta", "iota", "step"} /\ s.next # 0
               /\ s.forced => force
               /\ true[s.next]
  IN  true

\* A definition or a recursor gives convertible values on convertible arguments.
Congruent(g) ==
  \A force \in BOOLEAN : LET true == Truth(g, force) IN
    \A p \in Pairs :
      /\ g[p].kind \in {"delta", "iota"} /\ g[p].next # 0
      /\ \A i \in DOMAIN g[p].args : true[g[p].args[i]]
      => true[g[p].next]

ASSUME ConvAssumption ==
  /\ Last \in Nat \ {0}
  /\ \A g \in Graphs : IsGraph(g) /\ Congruent(g)
  /\ Cap \in Nat \ {0}

VARIABLES
  shape,                                  \* the shape of each pair
  pos, neg, probed,                       \* conv_cache_pos, _neg, _neg_probe
  probe_depth, probe_budget, probe_exhausted,
  ctl, at, res,                           \* what is done next, to which pair; the answer
  stack                                   \* the calls that wait for an answer

caches == <<pos, neg, probed>>
probe  == <<probe_depth, probe_budget, probe_exhausted>>
vars   == <<shape, caches, probe, ctl, at, res, stack>>

Init ==
  /\ shape \in Graphs
  /\ pos = {} /\ neg = {} /\ probed = {}
  /\ probe_depth = 0 /\ probe_budget = 0 /\ probe_exhausted = FALSE
  /\ ctl = "idle" /\ at = 0 /\ res = FALSE
  /\ stack = <<>>

-----------------------------------------------------------------------------
(* The calls and returns of the recursive functions.                       *)

Top == stack[Len(stack)]
Pop == SubSeq(stack, 1, Len(stack) - 1)

Goto(where, p) == ctl' = where /\ at' = p /\ UNCHANGED res
Answer(b)      == ctl' = "return" /\ res' = b /\ UNCHANGED at

\* Call unify on pair q; the frame f waits for what it answers.
Call(f, q) == stack' = Append(stack, f) /\ Goto("unify", q)

\* What unbudgeted saves.
Saved == [depth |-> probe_depth, budget |-> probe_budget, exhausted |-> probe_exhausted]

Asked(p, then) == [op |-> "types", p |-> p, saved |-> Saved, then |-> then]

-----------------------------------------------------------------------------
(* Mutated forms of an operator, each a slip the checked properties must
   catch, stand before the operator they replace. *)

\* The checker asks whether the types of pair p agree: conv_types_at.
Query ==
  /\ ctl = "idle"
  /\ \E p \in Pairs : Call(Asked(p, "idle"), p)
  /\ probe_depth' = 0
  /\ UNCHANGED <<shape, caches, probe_budget, probe_exhausted>>

(* unify_general: the caches first; then unify_no_cache, with the flag of the
   enclosing comparison put aside. *)
General ==
  /\ ctl = "unify"
  /\ LET c == shape[at].cache
     IN  \/ /\ c # "no" /\ at \in pos
            /\ Answer(TRUE)
            /\ UNCHANGED <<stack, probe_exhausted>>
         \/ /\ c = "both" /\ at \notin pos /\ at \in neg
            /\ Answer(FALSE)
            /\ UNCHANGED <<stack, probe_exhausted>>
         \/ /\ c = "both" /\ at \notin pos \cup neg
            /\ probe_depth > 0 /\ at \in probed
            /\ probe_exhausted' = TRUE
            /\ Answer(FALSE)
            /\ UNCHANGED stack
         \/ /\ c # "no" /\ at \notin pos
            /\ c = "both" => at \notin neg /\ ~(probe_depth > 0 /\ at \in probed)
            /\ stack' = Append(stack, [op |-> "cache", p |-> at, outer |-> probe_exhausted])
            /\ probe_exhausted' = FALSE
            /\ Goto("decide", at)
         \/ /\ c = "no"
            /\ Goto("decide", at)
            /\ UNCHANGED <<stack, probe_exhausted>>
  /\ UNCHANGED <<shape, caches, probe_depth, probe_budget>>

\* Where a failure of pair p is kept.
Keep(p, truncated) ==
  /\ neg' = IF shape[p].cache = "both" /\ ~truncated THEN neg \cup {p} ELSE neg
  /\ probed' = IF shape[p].cache = "both" /\ truncated THEN probed \cup {p} ELSE probed

RestoredFlag(outer) == outer

\* The flag of the enclosing comparison once this one has ended.
Merged(outer) == outer \/ probe_exhausted

\* unify_general, after unify_no_cache.
Cached ==
  /\ ctl = "return" /\ Top.op = "cache"
  /\ IF res
     THEN pos' = pos \cup {Top.p} /\ UNCHANGED <<neg, probed>>
     ELSE Keep(Top.p, probe_exhausted) /\ UNCHANGED pos
  /\ probe_exhausted' = Merged(Top.outer)
  /\ stack' = Pop
  /\ UNCHANGED <<shape, probe_depth, probe_budget, ctl, at, res>>

-----------------------------------------------------------------------------
(* Deciding a pair: unify_no_cache.                                        *)

OutOfBudget == probe_depth > 0 /\ probe_budget = 0

Exhaust ==
  /\ ctl = "decide"
  /\ OutOfBudget
  /\ probe_exhausted' = TRUE
  /\ Answer(FALSE)
  /\ UNCHANGED <<shape, caches, probe_depth, probe_budget, stack>>

Probed(s) == s.kind \in {"delta", "iota"}

Spent == IF probe_depth > 0 THEN probe_budget - 1 ELSE probe_budget

\* unify_direct on values without arguments to compare.
Direct(s) ==
  /\ \/ s.kind = "yes" /\ Answer(TRUE)
     \/ s.kind = "no" /\ Goto("cold", at)
     \/ s.kind = "step" /\ Goto("irrel", at)
     \/ (s.kind = "spine" \/ Probed(s)) /\ s.args = <<>> /\ Answer(TRUE)
  /\ probe_budget' = Spent
  /\ UNCHANGED <<probe_depth, probe_exhausted, stack>>

\* unify_spine, which spine_probe calls too when it is already in a probe.
Spine(s) ==
  /\ s.args # <<>>
  /\ s.kind = "spine" \/ (Probed(s) /\ probe_depth > 0)
  /\ Call([op |-> "spine", p |-> at, i |-> 1,
           then |-> IF Probed(s) THEN "irrel" ELSE "cold"], s.args[1])
  /\ probe_budget' = Spent
  /\ UNCHANGED <<probe_depth, probe_exhausted>>

\* spine_probe, and probe_pass up to its first pair.
StartProbe(s) ==
  /\ s.args # <<>>
  /\ Probed(s) /\ probe_depth = 0
  /\ Call([op |-> "probe", p |-> at, i |-> 1, outer |-> probe_exhausted,
           decided |-> TRUE], s.args[1])
  /\ probe_budget' = Cap
  /\ probe_exhausted' = FALSE
  /\ probe_depth' = 1

Decide ==
  /\ ctl = "decide"
  /\ ~OutOfBudget
  /\ LET s == shape[at] IN Direct(s) \/ Spine(s) \/ StartProbe(s)
  /\ UNCHANGED <<shape, caches>>

SpineReturn ==
  /\ ctl = "return" /\ Top.op = "spine"
  /\ LET args == shape[Top.p].args
     IN  \/ ~res /\ Goto(Top.then, Top.p) /\ stack' = Pop
         \/ /\ res /\ Top.i < Len(args)
            /\ stack' = Append(Pop, [Top EXCEPT !.i = @ + 1])
            /\ Goto("unify", args[Top.i + 1])
         \/ res /\ Top.i = Len(args) /\ stack' = Pop /\ Answer(TRUE)
  /\ UNCHANGED <<shape, caches, probe>>

-----------------------------------------------------------------------------
(* probe_pass, after a pair of arguments.                                  *)

\* The pass ends, and spine_probe puts the flag back.
ProbeEnds(decided) ==
  /\ probe_depth' = 0
  /\ probe_exhausted' = Top.outer
  /\ stack' = Pop
  /\ IF decided THEN Answer(TRUE) ELSE Goto("irrel", Top.p)
  /\ UNCHANGED probe_budget

\* The next pair, on a budget of its own.
ProbeNext(decided) ==
  /\ stack' = Append(Pop, [Top EXCEPT !.i = @ + 1, !.decided = decided])
  /\ Goto("unify", shape[Top.p].args[Top.i + 1])
  /\ probe_budget' = Cap
  /\ probe_exhausted' = FALSE
  /\ probe_depth' = 1

StillDecidedAlways(decided) == decided

\* A pair that ran out leaves the pass undecided.
StillDecided(decided) == decided /\ ~probe_exhausted

ForgetNothing == UNCHANGED probed

\* conv_cache_neg_probe.clear().
Forget == probed' = {}

ProbeReturn ==
  /\ ctl = "return" /\ Top.op = "probe"
  /\ LET last    == Top.i = Len(shape[Top.p].args)
         decided == StillDecided(Top.decided)
     IN  /\ IF probe_exhausted THEN Forget ELSE UNCHANGED probed
         /\ IF ~probe_exhausted /\ ~res THEN ProbeEnds(FALSE)
            ELSE IF last THEN ProbeEnds(decided)
            ELSE ProbeNext(decided)
  /\ UNCHANGED <<shape, pos, neg>>

-----------------------------------------------------------------------------
(* Proof irrelevance and unfolding.                                        *)

\* try_proof_irrel_at, in unify_direct and again in unify_cold.
Irrelevant(where, then) ==
  /\ ctl = where
  /\ IF shape[at].ty = 0
     THEN /\ IF then = "fail" THEN Answer(FALSE) ELSE Goto(then, at)
          /\ UNCHANGED <<stack, probe_depth>>
     ELSE Call(Asked(at, then), shape[at].ty) /\ probe_depth' = 0
  /\ UNCHANGED <<shape, caches, probe_budget, probe_exhausted>>

Irrel == Irrelevant("irrel", "unfold")
Cold  == Irrelevant("cold", "fail")

\* unbudgeted gives the suspended probe its budget back.
Restore(s) ==
  /\ probe_depth' = s.depth
  /\ probe_budget' = s.budget
  /\ probe_exhausted' = s.exhausted

TypesReturn ==
  /\ ctl = "return" /\ Top.op = "types"
  /\ Restore(Top.saved)
  /\ stack' = Pop
  /\ IF Top.then = "idle" THEN Goto("idle", Top.p)
     ELSE IF res THEN Answer(TRUE)
     ELSE IF Top.then = "fail" THEN Answer(FALSE)
     ELSE Goto(Top.then, Top.p)
  /\ UNCHANGED <<shape, caches>>

\* unfold_pair and unify_iota: within a probe unfold_value_demand does not
\* force; a recursor that does not compute has its arguments compared again.
Unfold ==
  /\ ctl = "unfold"
  /\ LET s == shape[at]
     IN  \/ /\ s.next # 0 /\ ~(s.forced /\ probe_depth > 0)
            /\ Call([op |-> "unfold", p |-> at], s.next)
         \/ /\ s.kind = "iota" /\ s.next = 0
            /\ Call([op |-> "spine", p |-> at, i |-> 1, then |-> "cold"], s.args[1])
         \/ /\ s.kind # "iota"
            /\ s.next = 0 \/ (s.forced /\ probe_depth > 0)
            /\ Goto("cold", at)
            /\ UNCHANGED stack
  /\ UNCHANGED <<shape, caches, probe>>

UnfoldReturn ==
  /\ ctl = "return" /\ Top.op = "unfold"
  /\ stack' = Pop
  /\ IF res THEN Answer(TRUE) ELSE Goto("cold", Top.p)
  /\ UNCHANGED <<shape, caches, probe>>

\* TcCache::clear_session, between two declarations.
ClearSession ==
  /\ ctl = "idle"
  /\ pos' = {} /\ neg' = {} /\ probed' = {}
  /\ probe_depth' = 0 /\ probe_budget' = 0 /\ probe_exhausted' = FALSE
  /\ UNCHANGED <<shape, ctl, at, res, stack>>

Step == \/ General \/ Cached \/ Exhaust \/ Decide \/ SpineReturn
        \/ ProbeReturn \/ Irrel \/ Cold \/ TypesReturn \/ Unfold \/ UnfoldReturn

Next == Query \/ Step \/ ClearSession

Spec == Init /\ [][Next]_vars

\* A conversion that was begun goes on.
FairSpec == Spec /\ WF_vars(Step)

-----------------------------------------------------------------------------
(* Properties.                                                             *)

TypeOK ==
  /\ pos \cup neg \cup probed \subseteq Pairs
  /\ probe_depth \in {0, 1}
  /\ probe_budget \in 0 .. Cap
  /\ probe_exhausted \in BOOLEAN
  /\ ctl \in {"idle", "unify", "decide", "irrel", "unfold", "cold", "return"}
  /\ at \in Pairs \cup {0}
  /\ res \in BOOLEAN
  /\ ctl # "idle" => stack # <<>>
  /\ \A i \in DOMAIN stack : stack[i].op \in {"types", "cache", "spine", "probe", "unfold"}

(* Soundness: only convertible pairs are kept as such or accepted, whatever
   the probes did. *)
AcceptsSoundly ==
  LET true == Truth(shape, TRUE)
  IN  (\A p \in pos : true[p]) /\ (ctl = "idle" /\ res => true[at])

(* A failure outlasts a probe, or is the checker's answer, only if it does not
   come from a budget that ran out: unlimited comparisons would fail too. *)
RefutesHonestly ==
  LET true == Truth(shape, FALSE)
  IN  /\ \A p \in neg : ~true[p]
      /\ ctl = "idle" /\ at # 0 /\ ~res => ~true[at]

\* Whether op is the kind of frame i.
Is(i, op) == stack[i].op = op

(* Probes nest with what suspends them: a budget is in force within a probe,
   except while a question on types is pending in it, however deep the calls;
   and what a probe found out on its budget is forgotten when it ends. *)
ProbesNest ==
  /\ probe_depth = 1 <=> \E i \in DOMAIN stack :
                           Is(i, "probe") /\ \A j \in i + 1 .. Len(stack) : ~Is(j, "types")
  /\ (\A i \in DOMAIN stack : ~Is(i, "probe")) => probed = {}
=============================================================================
