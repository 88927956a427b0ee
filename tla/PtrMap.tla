------------------------------- MODULE PtrMap -------------------------------
(***************************************************************************)
(* The hash table behind every cache of a session (checker/ptrmap.rs) and  *)
(* the memo! macro of checker/cache.rs, whose computations nest: while one *)
(* is under way others look up, store and make the table grow, and the     *)
(* place found for its result goes stale.  Open addressing, linear         *)
(* probing, one tag byte per slot, slots left uninitialised until written. *)
(***************************************************************************)
EXTENDS Naturals, Sequences, FiniteSets

CONSTANTS
  Keys, Vals, None,
  Hash,         \* the hash of a key, of which a table uses the top bits
  Tag,          \* the tag byte of a key: the low bits of the hash, not VACANT
  HashSize,     \* how many hashes there are
  Floor,        \* the size with_cap gives the table
  Unit, Fill,   \* grow_limit(n) is n / Unit * Fill: 8 and 6 in the code
  EpochSize,    \* epochs wrap: 2^32 in the code
  MaxNesting    \* bound on memo! computations under way

\* The limit of a table of n slots: one more entry makes it grow.
GrowLimit(n) == (n \div Unit) * Fill

\* The size a table of the smallest size has grown to after j moves.
Doubled[j \in 0 .. EpochSize] == IF j = 0 THEN Floor ELSE 2 * Doubled[j - 1]

(* A table is smaller than the space of hashes, which has room for every key,
   and outgrows that space before its epochs wrap: 64 bits against 2^32
   doublings.  The code's floor of 128 is far above its unit of 8. *)
ASSUME PtrMapAssumption ==
  /\ HashSize \in Nat \ {0}
  /\ Floor \in 1 .. HashSize
  /\ IsFiniteSet(Keys)
  /\ Hash \in [Keys -> 0 .. HashSize - 1]
  /\ DOMAIN Tag = Keys /\ \A k \in Keys : Tag[k] # 0
  /\ Unit \in Nat \ {0} /\ Fill \in 1 .. Unit - 1 /\ Unit <= 2 * Floor
  /\ \A n \in Floor .. HashSize : GrowLimit(n) < Cardinality(Keys) => 2 * n <= HashSize
  /\ EpochSize \in Nat \ {0, 1} /\ Doubled[EpochSize] > HashSize
  /\ MaxNesting \in Nat
  /\ None \notin Vals

VARIABLES
  tags,     \* a tag or VACANT for each slot
  slots,    \* the keys and values
  epoch,    \* counts the moves of the entries
  len, limit,
  frames,   \* the memo! computations under way, innermost last
  got       \* history: what the last find answered

table == <<tags, slots, epoch, len, limit>>
vars  == <<table, frames, got>>

VACANT == 0

(* Mutated forms of an operator, each a slip the checked properties must
   catch, stand before the operator they replace. *)

\* What Vec::with_capacity and set_len leave in a slot.
Uninit == [key |-> None, val |-> None]

Empty(n)     == [i \in 0 .. n - 1 |-> VACANT]
Fresh(n)     == [i \in 0 .. n - 1 |-> Uninit]

\* epoch.wrapping_add(1).
Bumped(e) == (e + 1) % EpochSize

SizeOf(t) == Cardinality(DOMAIN t)

\* The slot at distance d from where the hash of k falls in a table of n.
At(k, d, n) == (Hash[k] \div (HashSize \div n) + d) % n

Init ==
  /\ tags = Empty(Floor)
  /\ slots = Fresh(Floor)
  /\ epoch = 0
  /\ len = 0
  /\ limit = GrowLimit(Floor)
  /\ frames = <<>>
  /\ got = None

-----------------------------------------------------------------------------
(* Probing.                                                                *)

Holds(i, k) == tags[i] = Tag[k] /\ slots[i].key = k

\* The distances at which the loop of find and of insert stops.
Stops(k) == LET n == SizeOf(tags)
            IN  {d \in 0 .. n - 1 : tags[At(k, d, n)] = VACANT \/ Holds(At(k, d, n), k)}

Least(s) == CHOOSE d \in s : \A e \in s : d <= e

\* The slot at which the loop stops.
Probe(k) == At(k, Least(Stops(k)), SizeOf(tags))

-----------------------------------------------------------------------------
(* Storing.                                                                *)

\* An entry moved into the first vacant slot of a table it is not in.
Settled(t, s) ==
  LET n   == SizeOf(t.tags)
      gap == {d \in 0 .. n - 1 : t.tags[At(s.key, d, n)] = VACANT}
      i   == At(s.key, Least(gap), n)
  IN  [tags |-> [t.tags EXCEPT ![i] = Tag[s.key]], slots |-> [t.slots EXCEPT ![i] = s]]

\* grow: the entries of a table of n slots, in the order of their slots, in
\* one of twice the size.
Rehashed(tg, sl, n) ==
  LET moved[i \in 0 .. n] ==
        IF i = 0 THEN [tags |-> Empty(2 * n), slots |-> Fresh(2 * n)]
        ELSE IF tg[i - 1] = VACANT THEN moved[i - 1]
        ELSE Settled(moved[i - 1], sl[i - 1])
  IN  moved[n]

GrowKeepsEpoch(tg, sl) ==
  LET n == SizeOf(tg)
      g == Rehashed(tg, sl, n)
  IN  /\ tags' = g.tags
      /\ slots' = g.slots
      /\ limit' = GrowLimit(2 * n)
      /\ UNCHANGED epoch

GrowKeepsSlots(tg, sl) ==
  LET n == SizeOf(tg)
      g == Rehashed(tg, sl, n)
  IN  /\ tags' = g.tags
      /\ slots' = [i \in 0 .. 2 * n - 1 |-> IF i < n THEN sl[i] ELSE Uninit]
      /\ limit' = GrowLimit(2 * n)
      /\ epoch' = Bumped(epoch)

\* grow, from the tags and slots the insertion left.
Grow(tg, sl) ==
  LET n == SizeOf(tg)
      g == Rehashed(tg, sl, n)
  IN  /\ tags' = g.tags
      /\ slots' = g.slots
      /\ limit' = GrowLimit(2 * n)
      /\ epoch' = Bumped(epoch)

\* insert_at: fill slot i, and grow once the limit is passed.
InsertAt(i, k, v) ==
  LET tg == [tags EXCEPT ![i] = Tag[k]]
      sl == [slots EXCEPT ![i] = [key |-> k, val |-> v]]
  IN  /\ len' = len + 1
      /\ IF len + 1 > limit
         THEN Grow(tg, sl)
         ELSE tags' = tg /\ slots' = sl /\ UNCHANGED <<epoch, limit>>

\* insert: overwrite the value of k, or fill the vacant slot the probe meets.
Insert(k, v) ==
  LET i == Probe(k)
  IN  IF tags[i] = VACANT
      THEN InsertAt(i, k, v)
      ELSE /\ slots' = [slots EXCEPT ![i].val = v]
           /\ UNCHANGED <<tags, epoch, len, limit>>

InsertFoundAnyEpoch(f, v) ==
  IF tags[f.at] = VACANT THEN InsertAt(f.at, f.key, v) ELSE Insert(f.key, v)

InsertFoundUnchecked(f, v) ==
  IF f.epoch = epoch THEN InsertAt(f.at, f.key, v) ELSE Insert(f.key, v)

\* insert_found: the place a find returned serves if the entries have not
\* moved since and nothing was stored in it.
InsertFound(f, v) ==
  IF f.epoch = epoch /\ tags[f.at] = VACANT
  THEN InsertAt(f.at, f.key, v)
  ELSE Insert(f.key, v)

-----------------------------------------------------------------------------
(* Operations.                                                             *)

\* memo! asks for k; on a miss the computation of its value begins.  It never
\* needs its own result: a term is computed from smaller ones.
Find(k) ==
  /\ \A j \in DOMAIN frames : frames[j].key # k
  /\ LET i == Probe(k)
     IN  IF tags[i] # VACANT
         THEN got' = slots[i].val /\ UNCHANGED frames
         ELSE /\ Len(frames) < MaxNesting
              /\ got' = None
              /\ frames' = Append(frames, [key |-> k, at |-> i, epoch |-> epoch])
  /\ UNCHANGED table

\* The innermost computation ends with v.
Computed(v) ==
  /\ frames # <<>>
  /\ InsertFound(frames[Len(frames)], v)
  /\ frames' = SubSeq(frames, 1, Len(frames) - 1)
  /\ UNCHANGED got

\* A value stored without a find, whatever computations are under way.
Store(k, v) == Insert(k, v) /\ UNCHANGED <<frames, got>>

ResizeEmpty(n) ==
  /\ tags' = Empty(n)
  /\ slots' = Fresh(n)
  /\ epoch' = Bumped(epoch)
  /\ len' = 0
  /\ limit' = GrowLimit(n)

ResetTags ==
  IF len # 0
  THEN /\ tags' = Empty(SizeOf(tags))
       /\ len' = 0
       /\ epoch' = Bumped(epoch)
       /\ UNCHANGED <<slots, limit>>
  ELSE UNCHANGED table

\* TcCache::clear, between two terms of a declaration.
Clear == frames = <<>> /\ ResetTags /\ UNCHANGED <<frames, got>>

\* The size reset_shrink wants: the power of two from 4 * len on.
Want == LET pow[e \in 0 .. 4 * len] == IF e = 0 THEN 1 ELSE 2 * pow[e - 1]
            fit == Least({p \in {pow[e] : e \in DOMAIN pow} : p >= 4 * len})
        IN  IF fit < Floor THEN Floor ELSE fit

\* TcCache::clear_session, between two sessions: reset_shrink.
ClearSession ==
  /\ frames = <<>>
  /\ IF SizeOf(tags) >= 4 * Want THEN ResizeEmpty(Want) ELSE ResetTags
  /\ UNCHANGED <<frames, got>>

Next ==
  \/ \E k \in Keys : Find(k) \/ \E v \in Vals : Store(k, v)
  \/ \E v \in Vals : Computed(v)
  \/ Clear
  \/ ClearSession

Spec == Init /\ [][Next]_vars

-----------------------------------------------------------------------------
(* Properties.                                                             *)

TypeOK ==
  /\ DOMAIN tags = 0 .. SizeOf(tags) - 1 /\ DOMAIN slots = DOMAIN tags
  /\ \A i \in DOMAIN tags : tags[i] = VACANT \/ \E k \in Keys : tags[i] = Tag[k]
  /\ epoch \in 0 .. EpochSize - 1
  /\ len \in Nat /\ limit \in Nat
  /\ \A j \in DOMAIN frames : frames[j].key \in Keys /\ frames[j].at \in Nat
  /\ got \in Vals \cup {None}

Occupied == {i \in DOMAIN tags : tags[i] # VACANT}

(* No slot is read before it is written: an entry's slot holds a key and a
   value under that key's own tag.  The reads are assume_init. *)
Initialised ==
  \A i \in Occupied : LET s == slots[i]
                      IN  s.key \in Keys /\ s.val \in Vals /\ tags[i] = Tag[s.key]

(* The loops of find, insert and grow end: the table is never full, and len
   counts its entries. *)
Roomy == len = Cardinality(Occupied) /\ len <= limit /\ limit < SizeOf(tags)

(* Where a find left a computation is where a find would still stop, unless
   the entries moved or the slot was filled since. *)
PlaceStands ==
  \A j \in DOMAIN frames :
    LET f == frames[j]
    IN  f.epoch = epoch /\ tags[f.at] = VACANT => f.at = Probe(f.key)

\* The entries, without probing for them.
Entries == {slots[i] : i \in Occupied}
Content == [k \in {s.key : s \in Entries} |-> (CHOOSE s \in Entries : s.key = k).val]

(* Every operation does to the entries what it does to a partial function: a
   find that misses an entry that is there, a key stored twice or an entry
   lost as the table grows is a step no partial function takes. *)
Abs == INSTANCE PartialMap WITH content <- Content
Promise == Abs!Spec

(* A key has at most one entry, so no find can answer with an older value. *)
Unique == \A i, j \in Occupied : slots[i].key = slots[j].key => i = j
=============================================================================
