----------------------------- MODULE PartialMap -----------------------------
(***************************************************************************)
(* What the caches of the checker rely on a PtrMap for: a partial function *)
(* from keys to values.  A lookup answers with the value last stored under *)
(* its key, and only a clear forgets one.                                  *)
(***************************************************************************)
CONSTANTS Keys, Vals, None

VARIABLES
  content,   \* the partial function
  got        \* what the last lookup answered, None for a miss

vars == <<content, got>>

Init == content = <<>> /\ got = None

Lookup(k) ==
  /\ got' = IF k \in DOMAIN content THEN content[k] ELSE None
  /\ UNCHANGED content

Store(k, v) ==
  /\ content' = [x \in DOMAIN content \cup {k} |-> IF x = k THEN v ELSE content[x]]
  /\ UNCHANGED got

Clear ==
  /\ content' = <<>>
  /\ UNCHANGED got

Next ==
  \/ \E k \in Keys : Lookup(k) \/ \E v \in Vals : Store(k, v)
  \/ Clear

Spec == Init /\ [][Next]_vars
=============================================================================
