------------------------------- MODULE Checks -------------------------------
(***************************************************************************)
(* What a thread remembers of the types it has inferred (checker/infer.rs, *)
(* checker/context.rs): the session's type_cache, whose entries say under  *)
(* which universe parameters they were checked; checked_closed, which      *)
(* lives as long as the thread; and the direct-mapped table of checked     *)
(* leaves, whose entries are current only under the stamp of the present   *)
(* declaration.  An expression is a node with the variables it uses; a     *)
(* type is named by the expression and what its variables stand for.       *)
(***************************************************************************)
EXTENDS Naturals, Sequences, Functions

CONSTANTS
  Node,       \* the nodes, by expression: see Ops below
  Height,     \* of an expression, above its parts and what is asked about it
  Decls,      \* the declarations a thread may be given, in any order
  Params,     \* the universe parameters of each LevelsId
  MaxDepth,   \* how many binders lie over each other
  Slots,      \* LEAF_SLOTS
  Slot(_),    \* leaf_slot
  Stamps      \* 2^32: where leaf_stamp wraps

Exprs   == DOMAIN Node
Ops     == {"var", "leaf", "app", "lam", "pi", "let", "proj"}
Atoms   == {"var", "leaf"}
Binders == {"lam", "pi", "let"}

NoInfo    == "none"                       \* declar_info is None
Unchecked == "unchecked"                  \* CheckScope::Unchecked
NoExpr    == ""                           \* in a slot that is free
Infos     == DOMAIN Params \cup {NoInfo}

\* The last child of a binder lies under it.
Binds(e, i) == Node[e].op \in Binders /\ i = Len(Node[e].kids)

ASSUME ChecksAssumption ==
  /\ \A e \in Exprs :
       /\ Node[e].op \in Ops /\ Node[e].bad \in BOOLEAN /\ Slot(e) \in Slots
       /\ Node[e].kids \in Seq(Exprs) /\ Node[e].asks \in Seq(Exprs)
       /\ Node[e].op \notin Atoms => Node[e].kids # <<>>
       /\ Height[e] \in Nat
       /\ \A k \in Range(Node[e].kids) \cup Range(Node[e].asks) : Height[k] < Height[e]
       \* `uses` are the loose variables of e.
       /\ Node[e].uses \subseteq 0 .. MaxDepth - 1 /\ DOMAIN Node[e].needs \subseteq Node[e].uses
       /\ \A i \in DOMAIN Node[e].kids : \A u \in Node[Node[e].kids[i]].uses :
            IF Binds(e, i) THEN u = 0 \/ u - 1 \in Node[e].uses ELSE u \in Node[e].uses
       /\ \A k \in Range(Node[e].asks) : Node[k].uses \subseteq Node[e].uses
  /\ \A d \in Decls :
       /\ d.uparams \in DOMAIN Params
       /\ d.parts \in Seq(Exprs) /\ d.parts # <<>>
  /\ NoInfo \notin DOMAIN Params /\ Unchecked \notin DOMAIN Params
  /\ MaxDepth \in Nat /\ Stamps \in Nat /\ Stamps > 1

VARIABLES
  ordered,        \* TypeChecker.ordered_declaration: TRUE when declarations
                  \* are checked, FALSE on the thread that derives blocks
  envs,           \* the session's environments, an id being a place in it
  type_cache,     \* of the session: a CachedType for each <<env id, expression>>
  checked_closed, \* closed expressions and the LevelsId they passed under
  leaf_checked,   \* each slot's expression and stamp
  leaf_stamp,
  verdict         \* the last question, and whether it was accepted

checkVars == <<ordered, envs, type_cache, checked_closed, leaf_checked, leaf_stamp, verdict>>

NoQuestion == [info |-> NoInfo, asked |-> <<>>, accepted |-> TRUE]

ChecksInit ==
  /\ ordered \in BOOLEAN
  /\ envs = <<>>
  /\ type_cache = {}
  /\ checked_closed = {}
  /\ leaf_checked = [s \in Slots |-> <<NoExpr, 0>>]
  /\ leaf_stamp = 1
  /\ verdict = NoQuestion

-----------------------------------------------------------------------------
(* An environment gives the domain of each variable, the innermost first.  *)

Unused == "unused"
Domain(m, i) == IF i < Len(m) THEN m[i + 1] ELSE Unused

\* prune_env: what e uses of it.
Pruned(m, e) == [i \in Node[e].uses |-> Domain(m, i)]

\* The children visited, by their places.
Visited(flag, e) ==
  LET all  == [i \in DOMAIN Node[e].kids |-> i]
      last == Len(Node[e].kids)
  IN CASE Node[e].op = "app"  -> IF flag = "Check" THEN all ELSE <<1>>
       [] Node[e].op = "lam"  -> IF flag = "Check" THEN all ELSE <<>>
       [] Node[e].op = "let"  -> IF flag = "Check" THEN all ELSE <<last>>
       [] OTHER               -> all

Inner(m, e, i) == IF Binds(e, i) THEN <<Node[e].dom>> \o m ELSE m

\* The node's own test: its arguments have the types asked of them.
Fits(m, e) == ~Node[e].bad /\ \A i \in DOMAIN Node[e].needs : Domain(m, i) = Node[e].needs[i]

-----------------------------------------------------------------------------
(* The state of one inference: the tables, and whether it was rejected.    *)

Domains      == {Node[e].dom : e \in Exprs} \cup {Unused}
Environments == UNION {[Node[e].uses -> Domains] : e \in Exprs}
Questions    == [flag : {"Check", "InferOnly"}, info : Infos, ordered : BOOLEAN]

CachedTypes ==
  [env : Nat, expr : Exprs, result : Exprs \X Environments, under : Infos \cup {Unchecked}]

LeafTables == [Slots -> (Exprs \cup {NoExpr}) \X Nat]

States ==
  [outcome : {"ok", "reject"}, envs : Seq(Environments), types : SUBSET CachedTypes,
   closed : SUBSET (Exprs \X Infos), leaves : LeafTables, stamp : Nat]

LeafChecked(st, e) == st.leaves[Slot(e)] = <<e, st.stamp>>

\* A leaf's parameters are looked for, unless the leaf was seen before.
Leaf(q, e, st) ==
  IF q.flag = "InferOnly" \/ q.info = NoInfo \/ LeafChecked(st, e) THEN st
  ELSE IF Node[e].params \subseteq Range(Params[q.info])
       THEN [st EXCEPT !.leaves[Slot(e)] = <<e, st.stamp>>]
       ELSE [st EXCEPT !.outcome = "reject"]

\* env_extend and prune_env give each environment of the session one id.
WithEnv(st, p) ==
  IF p \in Range(st.envs) THEN st ELSE [st EXCEPT !.envs = Append(st.envs, p)]

EnvId(st, p) == CHOOSE i \in DOMAIN st.envs : st.envs[i] = p

\* uparam_scope is the parameters, or none.
Hits(q, cached) == q.flag = "InferOnly" \/ cached.under = q.info

Reusable(q, e) ==
  /\ q.flag = "Check" /\ q.info # NoInfo /\ q.ordered
  /\ Node[e].uses = {}
  /\ ~Node[e].local

Jobs(m, e, places) == [j \in DOMAIN places |-> <<Inner(m, e, places[j]), Node[e].kids[places[j]]>>]
Alike(m, es)       == [j \in DOMAIN es |-> <<m, es[j]>>]

\* Each job, an expression in its environment, until one is rejected.
Each(infer, q, jobs, st) ==
  LET turn[j \in 0 .. Len(jobs)] ==
        IF j = 0 THEN st
        ELSE LET before == turn[j - 1]
             IN  IF before.outcome = "ok" THEN infer[jobs[j][2]][<<q, jobs[j][1], before>>] ELSE before
  IN turn[Len(jobs)]

\* infer_nonvar, past the leaves: with gives the environment its id.
InferNode(infer, q, m, e, with) ==
  LET id    == EnvId(with, Pruned(m, e))
      once  == Reusable(q, e)
      known == once /\ <<e, q.info>> \in with.closed
      flag  == IF known THEN "InferOnly" ELSE q.flag
      kids  == Each(infer, [q EXCEPT !.flag = flag], Jobs(m, e, Visited(flag, e)), with)
      asks  == Each(infer, [q EXCEPT !.flag = "InferOnly"],
                    Alike(m, IF flag = "Check" THEN Node[e].asks ELSE <<>>), kids)
      entry == [env |-> id, expr |-> e, result |-> <<e, Pruned(m, e)>>,
                under |-> IF q.flag = "Check" THEN q.info ELSE Unchecked]
  IN IF \E c \in with.types : c.env = id /\ c.expr = e /\ Hits(q, c) THEN with
     ELSE IF asks.outcome = "reject" \/ (flag = "Check" /\ ~Fits(m, e)) THEN [asks EXCEPT !.outcome = "reject"]
     ELSE [asks EXCEPT
             !.closed = IF once /\ ~known THEN @ \cup {<<e, q.info>>} ELSE @,
             !.types  = {c \in @ : ~(c.env = id /\ c.expr = e)} \cup {entry}]

Infer[e \in Exprs] ==
  [x \in Questions \X Seq(Domains) \X States |->
     CASE Node[e].op = "var"  -> x[3]
       [] Node[e].op = "leaf" -> Leaf(x[1], e, x[3])
       [] OTHER               -> InferNode(Infer, x[1], x[2], e, WithEnv(x[3], Pruned(x[2], e)))]

-----------------------------------------------------------------------------
(* The thread.                                                             *)

Refill(leaves) == [s \in DOMAIN leaves |-> <<NoExpr, 0>>]

NextStampKeepsTable(stamp, leaves) ==
  LET next == (stamp + 1) % Stamps IN
  IF next = 0 THEN <<1, leaves>> ELSE <<next, leaves>>

\* next_declaration: the stamp, and the table under it.
NextStamp(stamp, leaves) ==
  LET next == (stamp + 1) % Stamps IN
  IF next = 0 THEN <<1, Refill(leaves)>> ELSE <<next, leaves>>

\* One check after another of es, from these tables, for info's parameters.
Asked(info, es, types, stamped) ==
  LET q   == [flag |-> "Check", info |-> info, ordered |-> ordered]
      st  == [outcome |-> "ok", envs |-> envs, types |-> types, closed |-> checked_closed,
              leaves |-> stamped[2], stamp |-> stamped[1]]
      end == Each(Infer, q, Alike(<<>>, es), st)
  IN /\ envs' = end.envs
     /\ type_cache' = end.types
     /\ checked_closed' = end.closed
     /\ leaf_checked' = end.leaves
     /\ leaf_stamp' = end.stamp
     /\ verdict' = [info |-> info, asked |-> es, accepted |-> end.outcome = "ok"]

NoDuplicates(info) == IsInjective(Params[info])

\* The stamp moves, and the parameters are refused before anything is inferred.
Refused(info, es, types) ==
  LET stamped == NextStamp(leaf_stamp, leaf_checked) IN
  /\ leaf_stamp' = stamped[1]
  /\ leaf_checked' = stamped[2]
  /\ type_cache' = types
  /\ verdict' = [info |-> info, asked |-> es, accepted |-> FALSE]
  /\ UNCHANGED <<envs, checked_closed>>

\* check_simple_declar: a TypeChecker of its own on the session's caches.
CheckDeclar(d) ==
  /\ ordered
  /\ verdict.accepted
  /\ IF NoDuplicates(d.uparams)
     THEN Asked(d.uparams, d.parts, type_cache, NextStamp(leaf_stamp, leaf_checked))
     ELSE Refused(d.uparams, d.parts, type_cache)
  /\ UNCHANGED ordered

\* check_inductive_declar, on a type or a constructor: tc_cache.clear(),
\* next_declaration, and the check of its type.
CheckHeader(d) ==
  /\ ~ordered
  /\ verdict.accepted
  /\ IF NoDuplicates(d.uparams)
     THEN Asked(d.uparams, <<Head(d.parts)>>, {}, NextStamp(leaf_stamp, leaf_checked))
     ELSE Refused(d.uparams, <<Head(d.parts)>>, {})
  /\ UNCHANGED ordered

\* check_generated_recursors: a rule's sides, without a declaration's parameters.
CheckRule(d) ==
  /\ ~ordered
  /\ verdict.accepted
  /\ Asked(NoInfo, d.parts, {}, <<leaf_stamp, leaf_checked>>)
  /\ UNCHANGED ordered

ForgetTypesNever(types) == types
\* TcCache::clear_session, of the type cache.
ForgetTypes(types) == {}

\* The session ends: its environments go, and what names them.
ForgetTypeChecks ==
  /\ envs' = <<>>
  /\ type_cache' = ForgetTypes(type_cache)
  /\ UNCHANGED <<ordered, checked_closed, leaf_checked, leaf_stamp, verdict>>

ChecksNext == \E d \in Decls : CheckDeclar(d) \/ CheckHeader(d) \/ CheckRule(d)

-----------------------------------------------------------------------------
(* Properties.                                                             *)

\* What inference without any table would accept.
Sound[e \in Exprs] ==
  [x \in Infos \X Seq(Domains) |->
     CASE Node[e].op = "var"  -> TRUE
       [] Node[e].op = "leaf" -> x[1] = NoInfo \/ Node[e].params \subseteq Range(Params[x[1]])
       [] OTHER -> /\ Fits(x[2], e)
                   /\ \A i \in DOMAIN Node[e].kids :
                        Sound[Node[e].kids[i]][<<x[1], Inner(x[2], e, i)>>]]

WellFormed(info, m, e) == Sound[e][<<info, m>>]

\* A declaration is accepted exactly when every part of it, down to the last
\* leaf, is well formed under its own universe parameters, whatever the
\* thread has checked before and remembers (infer_value).
AcceptsTruly ==
  verdict.accepted <=>
    /\ verdict.info # NoInfo => NoDuplicates(verdict.info)
    /\ \A e \in Range(verdict.asked) : WellFormed(verdict.info, <<>>, e)

\* The variables of a pruned environment, in their places.
Meaning(p) == [i \in 1 .. MaxDepth |-> IF i - 1 \in DOMAIN p THEN p[i - 1] ELSE Unused]

\* Each table holds what its readers take from it: a cached type is that of
\* its expression in the environment its id now names, and was checked under
\* the parameters it names; a closed expression was checked; a leaf whose
\* stamp is current has its parameters declared by the present declaration.
EntriesTrue ==
  /\ \A c \in type_cache :
       /\ c.env \in DOMAIN envs
       /\ c.result = <<c.expr, envs[c.env]>>
       /\ c.under \in DOMAIN Params => WellFormed(c.under, Meaning(envs[c.env]), c.expr)
  /\ \A x \in checked_closed : WellFormed(x[2], <<>>, x[1])
  /\ \A s \in Slots :
       leaf_checked[s][2] = leaf_stamp /\ verdict.info \in DOMAIN Params =>
         Node[leaf_checked[s][1]].params \subseteq Range(Params[verdict.info])
=============================================================================
