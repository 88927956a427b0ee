------------------------------- MODULE Store --------------------------------
(***************************************************************************)
(* What a thread remembers of the values it has forced: the memo of each   *)
(* value, whose ids die with the session (checker/value.rs), and the whnf  *)
(* store, which outlives it (checker/eval/whnf_cache.rs).  The store is    *)
(* found by a 64-bit digest and holds expressions; a digest, and the full  *)
(* key a hit is compared by, may be shared by values that differ.          *)
(***************************************************************************)
EXTENDS Naturals, Sequences

CONSTANTS
  Value,      \* the values a thread may force: see ValueFields
  Threshold,  \* WHNF_ADMIT_THRESHOLD
  AdmitSlot(_), \* admit_slot, of a digest
  FilterBit(_)  \* tenure_slot, of a digest or a head key

NoHead  == 0      \* shallow_head_key gives None
NoKey   == "fails"     \* global_key gives an error
Sort0   == "Sort 0"

Values      == DOMAIN Value
ValueFields == {"whnf", "digest", "full", "verified", "closed", "head", "source", "local"}

ASSUME StoreAssumption ==
  /\ \A v \in Values : /\ DOMAIN Value[v] = ValueFields
                       /\ Value[v].whnf \in Values
                       /\ Value[Value[v].whnf].whnf = Value[v].whnf
  \* What a value is quoted as tells which value it is.
  /\ \A v, w \in Values : Value[v].source = Value[w].source => v = w
  /\ Sort0 \in Values /\ Value[Sort0].whnf = Sort0
  /\ Threshold \in Nat

VARIABLES
  nodes,       \* the session's values, an id being a place in it, with memos
  placeholder, \* TcCache.placeholder: an id, or 0
  global_keys, \* global_value_cache: ids to full keys
  whnf_store,  \* digests to a full key, the source and the result, quoted
  store_filter, head_filter,
  whnf_admit,  \* how often each slot's digests were seen
  answer       \* the value last forced, and what came back

storeVars == <<nodes, placeholder, global_keys, whnf_store, store_filter, head_filter,
               whnf_admit, answer>>

StoreInit ==
  /\ nodes = <<>>
  /\ placeholder = 0
  /\ global_keys = <<>>
  /\ whnf_store = <<>>
  /\ store_filter = {} /\ head_filter = {}
  /\ whnf_admit = [s \in {AdmitSlot(Value[v].digest) : v \in Values} |-> 0]
  /\ answer = <<Sort0, Sort0>>

-----------------------------------------------------------------------------
(* Ids are given to values as they come up.                                *)

Ids == DOMAIN nodes
Known(ns, v) == \E i \in DOMAIN ns : ns[i].is = v
IdIn(ns, v)  == CHOOSE i \in DOMAIN ns : ns[i].is = v

\* Vals::intern.
Interned(ns, v) == IF Known(ns, v) THEN ns ELSE Append(ns, [is |-> v, whnf |-> 0])

\* global_key of a value, through its cache.
FullKey(v) ==
  LET id == IdIn(nodes, v) IN
  IF Known(nodes, v) /\ id \in DOMAIN global_keys THEN global_keys[id] ELSE Value[v].full

MatchesKeyOnly(v, k) == k \in DOMAIN whnf_store /\ whnf_store[k].full = FullKey(v)

\* A hit is the value asked for.
Matches(v, k) ==
  /\ k \in DOMAIN whnf_store
  /\ FullKey(v) # NoKey /\ Value[v].verified
  /\ whnf_store[k].full = FullKey(v)
  /\ whnf_store[k].source = Value[v].source

\* store_lookup: the result's expression is evaluated in the session's values.
Found(v) ==
  LET k == Value[v].digest IN
  /\ Value[v].head # NoHead
  /\ FilterBit(Value[v].head) \in head_filter
  /\ Value[v].closed
  /\ FilterBit(k) \in store_filter
  /\ Matches(v, k)

Evaluated(source) == CHOOSE v \in Values : Value[v].source = source

\* The places at which note_whnf gives up, before it stores.
Seen(v)  == /\ FilterBit(Value[v].digest) \in store_filter
            /\ Value[v].digest \in DOMAIN whnf_store
Young(v) == whnf_admit[AdmitSlot(Value[v].digest)] < Threshold

Storable(v) ==
  /\ FullKey(v) # NoKey /\ Value[v].verified
  /\ Value[v].head # NoHead
  /\ ~Value[v].local                                  \* loose(source) = 0

\* note_whnf, for a value that took steps to force.
Note(v, w) ==
  LET k == Value[v].digest
      stored == [full |-> FullKey(v), source |-> Value[v].source, result |-> Value[w].source]
  IN IF ~Value[v].closed \/ v = w \/ Seen(v)
     THEN UNCHANGED <<whnf_store, store_filter, head_filter, whnf_admit>>
     ELSE IF Young(v)
     THEN /\ whnf_admit' = [whnf_admit EXCEPT ![AdmitSlot(k)] = @ + 1]
          /\ UNCHANGED <<whnf_store, store_filter, head_filter>>
     ELSE /\ IF Storable(v)
             THEN /\ whnf_store' = [d \in DOMAIN whnf_store \cup {k} |->
                                      IF d = k THEN stored ELSE whnf_store[d]]
                  /\ store_filter' = store_filter \cup {FilterBit(k)}
                  /\ head_filter' = head_filter \cup {FilterBit(Value[v].head)}
             ELSE UNCHANGED <<whnf_store, store_filter, head_filter>>
          /\ UNCHANGED whnf_admit

\* The caches of the session after v was forced to w: the ids, v's memo, and
\* the full key if it was asked for.
Remember(v, w, keyed) ==
  LET ns == Interned(Interned(nodes, v), w)
      id == IdIn(ns, v)
  IN /\ nodes' = [ns EXCEPT ![id].whnf = IdIn(ns, w)]
     /\ global_keys' = IF keyed THEN [i \in DOMAIN global_keys \cup {id} |->
                                        IF i = id THEN FullKey(v) ELSE global_keys[i]]
                       ELSE global_keys

\* force_all: the memo, the store, or the work itself.
ForceMemo(v) ==
  /\ Known(nodes, v) /\ nodes[IdIn(nodes, v)].whnf # 0
  /\ answer' = <<v, nodes[nodes[IdIn(nodes, v)].whnf].is>>
  /\ UNCHANGED <<nodes, placeholder, global_keys, whnf_store, store_filter, head_filter, whnf_admit>>

Unmemoized(v) == Known(nodes, v) => nodes[IdIn(nodes, v)].whnf = 0

ForceStored(v) ==
  /\ Unmemoized(v)
  /\ Found(v)
  /\ LET w == Evaluated(whnf_store[Value[v].digest].result) IN
     /\ answer' = <<v, w>>
     /\ Remember(v, w, TRUE)
  /\ UNCHANGED <<placeholder, whnf_store, store_filter, head_filter, whnf_admit>>

ForceWork(v) ==
  /\ Unmemoized(v)
  /\ ~Found(v)
  /\ LET w == Value[v].whnf IN
     /\ answer' = <<v, w>>
     /\ Note(v, w)
     /\ Remember(v, w, Value[v].closed /\ v # w /\ ~Young(v))
  /\ UNCHANGED placeholder

\* TypeChecker::placeholder: Sort 0, made once in a session.
Placeholder ==
  /\ IF placeholder # 0 THEN UNCHANGED <<nodes, placeholder>>
     ELSE /\ nodes' = Interned(nodes, Sort0)
          /\ placeholder' = IdIn(nodes', Sort0)
  /\ answer' = <<Sort0, nodes'[placeholder'].is>>
  /\ UNCHANGED <<global_keys, whnf_store, store_filter, head_filter, whnf_admit>>

\* TcCache::clear: the memos go and the caches keyed by ids; the ids stay.
Clear ==
  /\ nodes' = [i \in Ids |-> [nodes[i] EXCEPT !.whnf = 0]]
  /\ global_keys' = <<>>
  /\ UNCHANGED <<placeholder, whnf_store, store_filter, head_filter, whnf_admit, answer>>

NoPlaceholderKept(p) == p
\* A field of kind `session`: back to what it is at the start.
NoPlaceholder(p) == 0

\* TcCache::clear_session: what is keyed by ids goes with them.
ForgetValues ==
  /\ nodes' = <<>>
  /\ placeholder' = NoPlaceholder(placeholder)
  /\ global_keys' = <<>>
  /\ UNCHANGED <<whnf_store, store_filter, head_filter, whnf_admit, answer>>

ForceValue(v) == ForceMemo(v) \/ ForceStored(v) \/ ForceWork(v)
ForceAny == (\E v \in Values : ForceValue(v)) \/ Placeholder

-----------------------------------------------------------------------------
(* Properties.                                                             *)

\* Whatever was forced before, in this session or an earlier one, and whoever
\* shares its digest or its full key, a value is forced to its own weak head
\* normal form, and the placeholder is Sort 0 (store_lookup, note_whnf).
ForceRight == answer[2] = Value[answer[1]].whnf

\* What is kept by id names a value of this session: the memos, the keys and
\* the placeholder (clear_session).
IdsLive ==
  /\ \A i \in Ids : nodes[i].whnf # 0 =>
       /\ nodes[i].whnf \in Ids
       /\ nodes[nodes[i].whnf].is = Value[nodes[i].is].whnf
  /\ \A i \in DOMAIN global_keys : i \in Ids /\ global_keys[i] = Value[nodes[i].is].full
  /\ placeholder # 0 => placeholder \in Ids /\ nodes[placeholder].is = Sort0
=============================================================================
