-------------------------------- MODULE Envs --------------------------------
(***************************************************************************)
(* Environments of the evaluator (checker/eval/environment.rs and the      *)
(* environment store of checker/value.rs).  An environment gives values to *)
(* de Bruijn indices.  It is extended by a value, or pruned to the         *)
(* variables a mask asks for: the nearest NEAR one by one, all that lie    *)
(* further together.  Pruned environments are frames that keep only the    *)
(* values asked for, and environments are shared by hashing.  Masks are    *)
(* those of VarMasks.  env_len, which nothing but itself reads, is left    *)
(* out.                                                                    *)
(***************************************************************************)
EXTENDS VarMasks, Sequences, FiniteSets

CONSTANTS
  Values,      \* what an environment may hold
  LevelSubs,   \* the level substitutions environments carry, NoSub aside
  Contexts,    \* the environments a declaration starts from, as sequences
  HashSize,    \* number of hashes of a frame
  DmSize,      \* number of slots of prune_dm
  MaxEnvSteps  \* bound on extensions and prunings

None  == 0     \* no value
NoSub == "no level substitution"
MaskSet == SUBSET (0 .. FAR)

ASSUME EnvsAssumption ==
  /\ HashSize \in Nat \ {0} /\ DmSize \in Nat \ {0}
  /\ MaxEnvSteps \in Nat
  /\ Values \subseteq Nat \ {None} /\ NoSub \notin LevelSubs
  /\ Contexts \subseteq Seq(Nat \ {None})

VARIABLES
  envs,        \* the nodes, by id
  slots,       \* the values of all frames
  env_table,   \* (parent, value) to the id of their extension
  frames,      \* the hash of a frame to the id of one with that hash
  nils,        \* the empty environment of each level substitution
  prune_dm,    \* direct-mapped memo of prune_env
  held,        \* ids in the hands of the evaluator
  asked,       \* what the last step was asked and the id it gave
  env_steps

envVars == <<envs, slots, env_table, frames, nils, prune_dm, held, asked, env_steps>>

-----------------------------------------------------------------------------
(* Nodes.                                                                  *)

Ids       == 1 .. Len(envs)
EMPTY_ENV == 1
NO_ENV    == 0

Nil(lsub) ==
  [tag |-> "nil", mask |-> {}, a |-> 0, b |-> NO_ENV, lsub |-> lsub, cut |-> 0]

\* mask << k and mask >> k; what goes past bit FAR is lost.
Shl(mask, k) == {i \in 0 .. FAR : i - k \in mask}
Shr(mask, k) == {i \in 0 .. FAR : i + k \in mask}
LowBits(mask, k) == {i \in mask : i < k}
Near(mask) == mask \ {FAR}

\* The slot of the value that bit i of a frame's mask stands for.
SlotOf(n, i) == n.a + Cardinality(LowBits(n.mask, i))

\* What node e of ns gives index i: look says what the nodes before it give,
\* ss has the values of the frames.
LookAt(ns, ss, look, e, i) ==
  LET n == ns[e]
  IN  CASE n.tag = "nil"    -> None
        [] n.tag = "cons"   -> IF i = 0 THEN n.a ELSE look[n.b][i - 1]
        [] n.tag = "framed" ->
             IF i < n.cut
             THEN IF i \in n.mask THEN ss[SlotOf(n, i)] ELSE None
             ELSE IF n.b = NO_ENV THEN None ELSE look[n.b][i - n.cut]

Lookups(ns, ss) ==
  LET look[e \in 1 .. Len(ns)] == [i \in Nat |-> LookAt(ns, ss, look, e, i)]
  IN  look

Lookup(e, i) == Lookups(envs, slots)[e][i]

-----------------------------------------------------------------------------
(* Extension.                                                              *)

ConsMask(mask) == Shl(mask, 1) \cup (mask \cap {FAR}) \cup {0}

Cons(parent, v, ns) ==
  [tag |-> "cons", mask |-> ConsMask(ns[parent].mask), a |-> v, b |-> parent,
   lsub |-> ns[parent].lsub, cut |-> 0]

\* A context pushed on the empty environment.
Pushed(ns, v) == Append(ns, Cons(Len(ns), v, ns))
Chain(vs) ==
  LET chain[k \in 0 .. Len(vs)] ==
        IF k = 0 THEN <<Nil(NoSub)>> ELSE Pushed(chain[k - 1], vs[k])
  IN  chain[Len(vs)]

-----------------------------------------------------------------------------
(* Frames.                                                                 *)

\* The mask and cut of a frame of near values over rest.
FrameMask(near, rest) == IF rest = NO_ENV THEN near ELSE near \cup {FAR}
FrameCut(cut, rest)   == IF rest = NO_ENV THEN NEAR ELSE cut

Hash(near, rest) == (Cardinality(near) + rest) % HashSize

\* Whether node n is the frame f, whose values start at slot at.
SameFrame(n, f, ss, at) ==
  /\ n.tag = "framed" /\ n.mask = f.mask /\ n.cut = f.cut /\ n.b = f.b
  /\ n.lsub = f.lsub
  /\ LET count == Cardinality(Near(f.mask))
     IN  SubSeq(ss, n.a, n.a + count - 1) = SubSeq(ss, at, at + count - 1)

InternFrameReplaces(st, ss, near, at, cut, rest, lsub) ==
  LET f == [tag |-> "framed", mask |-> FrameMask(near, rest), a |-> at,
            b |-> rest, lsub |-> lsub, cut |-> FrameCut(cut, rest)]
      h == Hash(near, rest)
      new == Len(st.envs) + 1
  IN  IF h \in DOMAIN st.frames /\ st.frames[h] # rest
      THEN [st EXCEPT !.id = st.frames[h], !.envs[st.frames[h]] = f, !.fresh = TRUE]
      ELSE [envs |-> Append(st.envs, f), id |-> new, fresh |-> TRUE,
            frames |-> [k \in DOMAIN st.frames \cup {h} |->
                          IF k = h THEN new ELSE st.frames[k]]]

\* The store st with the frame of near values from slot at on, and its id.
\* A hash that is taken by another frame stays with that one.
InternFrame(st, ss, near, at, cut, rest, lsub) ==
  LET f == [tag |-> "framed", mask |-> FrameMask(near, rest), a |-> at,
            b |-> rest, lsub |-> lsub, cut |-> FrameCut(cut, rest)]
      h == Hash(near, rest)
      new == Len(st.envs) + 1
  IN  IF h \in DOMAIN st.frames /\ SameFrame(st.envs[st.frames[h]], f, ss, at)
      THEN [envs |-> st.envs, id |-> st.frames[h], fresh |-> FALSE, frames |-> st.frames]
      ELSE [envs |-> Append(st.envs, f), id |-> new, fresh |-> TRUE,
            frames |-> IF h \in DOMAIN st.frames THEN st.frames
                       ELSE [k \in DOMAIN st.frames \cup {h} |->
                               IF k = h THEN new ELSE st.frames[k]]]

-----------------------------------------------------------------------------
(* Pruning.                                                                *)

Nothing == [mask |-> {}, vals |-> <<>>, rest |-> <<"none">>]

\* What lies past the nearest variables: nothing if nothing is held there.
Rest(e) ==
  IF envs[e].tag = "nil" \/ (envs[e].tag = "framed" /\ envs[e].mask = {})
  THEN <<"none">> ELSE <<"env", e>>

\* The values of the bits m of node n, in the order of their bits.
Taken(n, m) ==
  [k \in 1 .. Cardinality(m) |->
    slots[SlotOf(n, CHOOSE i \in m : Cardinality(LowBits(m, i)) = k - 1)]]

\* What one node has of what is asked for, and what the nodes after it have.
Then(here, next) ==
  [mask |-> here.mask \cup next.mask, vals |-> here.vals \o next.vals, rest |-> next.rest]

\* One turn of the loop of prune_env_cold, at node cur: rem are the bits still
\* asked for of the variables from there on, consumed the variables passed, and
\* gather goes on from the nodes before it.  (The code passes a run of
\* unrequested extensions in one turn.)
GatherAt(gather, cur, rem, consumed, keepFar) ==
  LET n == envs[cur]
  IN  CASE consumed = NEAR ->
             [Nothing EXCEPT !.rest = IF keepFar THEN Rest(cur) ELSE <<"none">>]
        [] consumed # NEAR /\ rem = {} /\ ~keepFar -> Nothing
        [] OTHER ->
             CASE n.tag = "nil" -> Nothing
               [] n.tag = "cons" ->
                    Then(IF 0 \in rem
                         THEN [mask |-> {consumed}, vals |-> <<n.a>>, rest |-> <<"none">>]
                         ELSE Nothing,
                         gather[n.b][<<Shr(rem, 1), consumed + 1>>])
               [] n.tag = "framed" ->
                    LET taken == Lesser(n.cut, NEAR - consumed)
                        m2    == LowBits(rem \cap n.mask, taken)
                        here  == [mask |-> {i + consumed : i \in m2},
                                  vals |-> Taken(n, m2),
                                  rest |-> IF taken < n.cut /\ keepFar
                                           THEN <<"frame", cur, taken>> ELSE <<"none">>]
                    IN  IF taken < n.cut \/ n.b = NO_ENV THEN here
                        ELSE Then(here, gather[n.b][<<Shr(rem, taken), consumed + taken>>])

Gather(e, asks, keepFar) ==
  LET gather[cur \in Ids] ==
        [q \in MaskSet \X (0 .. NEAR) |-> GatherAt(gather, cur, q[1], q[2], keepFar)]
  IN  gather[e][<<asks, 0>>]

FrameWithoutFromStart(st, n, dropped, lsub) ==
  LET near == Shr(Near(n.mask), dropped)
  IN  IF near = {} /\ n.b = NO_ENV THEN [st EXCEPT !.id = NO_ENV]
      ELSE InternFrame(st, slots, near, n.a, n.cut - dropped, n.b, lsub)

\* frame_without: node n less its first dropped variables, or NO_ENV.
FrameWithout(st, n, dropped, lsub) ==
  LET near == Shr(Near(n.mask), dropped)
  IN  IF near = {} /\ n.b = NO_ENV THEN [st EXCEPT !.id = NO_ENV]
      ELSE InternFrame(st, slots, near, SlotOf(n, dropped), n.cut - dropped, n.b, lsub)

Stored == [envs |-> envs, frames |-> frames, id |-> NO_ENV, fresh |-> FALSE]

\* The store with what rest of Gather stands for; its id is NO_ENV for none.
WithRest(rest, lsub) ==
  CASE rest[1] = "none"  -> Stored
    [] rest[1] = "env"   -> [Stored EXCEPT !.id = rest[2]]
    [] rest[1] = "frame" -> FrameWithout(Stored, envs[rest[2]], rest[3], lsub)

\* The slots after intern_frame: those of a frame known before go again.
KeptSlots(st, ss) == IF st.fresh THEN ss ELSE slots

DmSlot(e, mask) == (e + Cardinality(mask)) % DmSize

Answer(op, e, mask, r) ==
  /\ asked' = [op |-> op, env |-> e, mask |-> mask, gave |-> r]
  /\ held' = held \cup {r}

\* Whether prune_dm knows the answer.
DmHit(e, mask) ==
  LET entry == prune_dm[DmSlot(e, mask)]
  IN  entry.env = e /\ entry.mask = mask

PruneCold(e, mask) ==
  LET lsub == envs[e].lsub
      got  == Gather(e, Near(mask), FAR \in mask)
      ss   == slots \o got.vals
      st1  == WithRest(got.rest, lsub)
      st   == InternFrame(st1, ss, got.mask, Len(slots) + 1, NEAR, st1.id, lsub)
  IN  /\ envs' = st.envs
      /\ frames' = st.frames
      /\ slots' = KeptSlots(st, ss)
      /\ prune_dm' = [prune_dm EXCEPT ![DmSlot(e, mask)] =
                        [mask |-> mask, env |-> e, gave |-> st.id]]
      /\ Answer("prune", e, mask, st.id)
      /\ UNCHANGED <<env_table, nils>>

\* env_nil: the empty environment of lsub, made if there is none yet.
EnvNil(op, e, lsub) ==
  IF lsub = NoSub
  THEN Answer(op, e, {}, EMPTY_ENV) /\ UNCHANGED <<envs, nils>>
  ELSE IF lsub \in DOMAIN nils
  THEN Answer(op, e, {}, nils[lsub]) /\ UNCHANGED <<envs, nils>>
  ELSE /\ envs' = Append(envs, Nil(lsub))
       /\ nils' = [l \in DOMAIN nils \cup {lsub} |->
                     IF l = lsub THEN Len(envs) + 1 ELSE nils[l]]
       /\ Answer(op, e, {}, Len(envs) + 1)

IsPruned(e, mask) == envs[e].mask \subseteq mask

-----------------------------------------------------------------------------
(* The evaluator: extends and prunes environments it holds, instantiates   *)
(* a constant, and ends its session.                                       *)

FreshDm == [s \in 0 .. DmSize - 1 |->
              [mask |-> {}, env |-> EMPTY_ENV, gave |-> EMPTY_ENV]]

\* A declaration starts from its context, pushed on the empty environment.
ChainTable(c) == [k \in {<<i, c[i]>> : i \in DOMAIN c} |-> k[1] + 1]
ChainEnd(c)   == Len(c) + 1
Opening(c)    == [op |-> "open", env |-> EMPTY_ENV, mask |-> {}, gave |-> ChainEnd(c)]

EnvsInit ==
  /\ \E c \in Contexts :
       /\ envs = Chain(c)
       /\ env_table = ChainTable(c)
       /\ held = {ChainEnd(c)}
       /\ asked = Opening(c)
  /\ slots = <<>> /\ frames = <<>> /\ nils = <<>>
  /\ prune_dm = FreshDm
  /\ env_steps = 0

Push(e, v) ==
  /\ IF <<e, v>> \in DOMAIN env_table
     THEN Answer("push", e, {}, env_table[<<e, v>>]) /\ UNCHANGED <<envs, env_table>>
     ELSE LET new == Len(envs) + 1
          IN  /\ envs' = Append(envs, Cons(e, v, envs))
              /\ env_table' = [k \in DOMAIN env_table \cup {<<e, v>>} |->
                                 IF k = <<e, v>> THEN new ELSE env_table[k]]
              /\ Answer("push", e, {}, new)
  /\ UNCHANGED <<slots, frames, nils, prune_dm>>

Prune(e, mask) ==
  CASE mask = {} ->
         EnvNil("prune", e, envs[e].lsub) /\ UNCHANGED <<slots, env_table, frames, prune_dm>>
    [] mask # {} /\ IsPruned(e, mask) ->
         Answer("prune", e, mask, e) /\ UNCHANGED <<envs, slots, env_table, frames, nils, prune_dm>>
    [] mask # {} /\ ~IsPruned(e, mask) /\ DmHit(e, mask) ->
         /\ Answer("prune", e, mask, prune_dm[DmSlot(e, mask)].gave)
         /\ UNCHANGED <<envs, slots, env_table, frames, nils, prune_dm>>
    [] OTHER -> PruneCold(e, mask)

\* eval_inst: the body of a constant starts from an empty environment.
EvalInst(lsub) ==
  EnvNil("inst", EMPTY_ENV, lsub) /\ UNCHANGED <<slots, env_table, frames, prune_dm>>

\* clear_session: the store and every table of ids into it start anew, and
\* the next declaration pushes its context.
ClearSession(c) ==
  /\ env_steps > 0
  /\ envs' = Chain(c)
  /\ env_table' = ChainTable(c)
  /\ held' = {ChainEnd(c)}
  /\ asked' = Opening(c)
  /\ slots' = <<>> /\ frames' = <<>> /\ nils' = <<>>
  /\ prune_dm' = FreshDm

EnvsNext ==
  /\ env_steps < MaxEnvSteps
  /\ env_steps' = env_steps + 1
  /\ \/ \E e \in held, v \in Values : Push(e, v)
     \/ \E e \in held, mask \in MaskSet : Prune(e, mask)
     \/ \E lsub \in LevelSubs : EvalInst(lsub)
     \/ \E c \in Contexts : ClearSession(c)

EnvsSpec == EnvsInit /\ [][EnvsNext]_envVars

-----------------------------------------------------------------------------
(* Properties.                                                             *)

\* No environment gives a value to an index past these: each node it is made
\* of stands for at most NEAR of them.
Indices == 0 .. Len(envs) * NEAR

Wanted(mask, i) == IF i < NEAR THEN i \in mask ELSE FAR \in mask

(* A pruned environment gives what was asked for the values it had, and
   nothing else any value, whether the answer comes from the memo, from a known
   frame or from a new one: a term evaluated in it reads what it read before.
   And the mask of an environment in use says exactly which near variables it
   gives values to, and whether it gives any further on: prune_env takes an
   environment for pruned by its mask alone. *)
PruneExact ==
  /\ asked.op = "prune" =>
       /\ envs[asked.gave].lsub = envs[asked.env].lsub
       /\ \A i \in Indices :
            Lookup(asked.gave, i) = IF Wanted(asked.mask, i) THEN Lookup(asked.env, i)
                                    ELSE None
  /\ \A e \in held :
       /\ \A i \in 0 .. NEAR - 1 : i \in envs[e].mask <=> Lookup(e, i) # None
       /\ FAR \in envs[e].mask <=> \E i \in Indices : i >= NEAR /\ Lookup(e, i) # None

(* An environment in use keeps its meaning until the session ends, whatever is
   pruned or dropped from the shared slots after it: closures and cache keys
   hold its id. *)
EnvsStable ==
  [][asked'.op # "open" =>
       \A e \in held, i \in Indices : Lookup(e, i)' = Lookup(e, i)]_envVars
=============================================================================
