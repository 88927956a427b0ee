-------------------------- MODULE OrderedDelivery --------------------------
(***************************************************************************)
(* What parse_export_file promises of its input, however reads, blocks and *)
(* the two threads interleave: the parser is given a growing prefix of the *)
(* input, every piece of it ends at a line's end or at the end of the      *)
(* input, and parsing succeeds only once the whole input was given and     *)
(* none of it was bad.                                                     *)
(***************************************************************************)
EXTENDS Naturals, Sequences

VARIABLES input,    \* the bytes of the export, "nl" for a newline
          bad,      \* the position of a byte that cannot be parsed, or 0
          seen,     \* the positions parsed so far, in the order parsed
          outcome   \* "none", then "parsed" or "failed"

vars == <<input, bad, seen, outcome>>

Prefix(n)  == [i \in 1 .. n |-> i]
LineEnd(n) == n = Len(input) \/ input[n] = "nl"

Init == seen = <<>> /\ outcome = "none"

Deliver ==
  /\ outcome = "none"
  /\ \E n \in Len(seen) + 1 .. Len(input) :
       LineEnd(n) /\ bad \notin Len(seen) + 1 .. n /\ seen' = Prefix(n)
  /\ UNCHANGED <<input, bad, outcome>>

Succeed ==
  /\ outcome = "none"
  /\ seen = Prefix(Len(input))
  /\ outcome' = "parsed"
  /\ UNCHANGED <<input, bad, seen>>

\* A bad line, a read error or a thread the system refused.
Fail ==
  /\ outcome = "none"
  /\ outcome' = "failed"
  /\ UNCHANGED <<input, bad, seen>>

Next == Deliver \/ Succeed \/ Fail

Spec == Init /\ [][Next]_vars
=============================================================================
