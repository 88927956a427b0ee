------------------------------ MODULE MCPtrMap ------------------------------
(* Keys, hashes and tags for PtrMap: two keys with one tag and neighbouring
   hashes, and a crowd at the last hash, so that probes wrap around. *)
EXTENDS PtrMap, TLC

CONSTANTS k1, k2, k3

Crowd       == {k1, k2, k3}
CrowdHashes == k1 :> 7 @@ k2 :> 7 @@ k3 :> 6
CrowdTags   == k1 :> 128 @@ k2 :> 129 @@ k3 :> 128
=============================================================================
