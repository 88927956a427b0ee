---------------------------- MODULE MCConvProbe ----------------------------
(* Terms for ConvProbe: every combination of a few shapes for each of six
   pairs.  Pair 5 is not convertible and pair 6 is. *)
EXTENDS ConvProbe

Leaf(kind) == [kind |-> kind, args |-> <<>>, ty |-> 0, next |-> 0,
               forced |-> FALSE, cache |-> "no"]

Spines(args, types, cached) ==
  {[Leaf("spine") EXCEPT !.args = a, !.ty = t, !.cache = c]
     : a \in args, t \in types, c \in cached}

Deltas(args, types, nexts, forced, cached) ==
  {[Leaf("delta") EXCEPT !.args = a, !.ty = t, !.next = n, !.forced = f, !.cache = c]
     : a \in args, t \in types, n \in nexts, f \in forced, c \in cached}

Iotas(args, types, nexts) ==
  {[Leaf("iota") EXCEPT !.args = a, !.ty = t, !.next = n, !.cache = "both"]
     : a \in args, t \in types, n \in nexts}

Steps(types, nexts, cached) ==
  {[Leaf("step") EXCEPT !.ty = t, !.next = n, !.cache = c]
     : t \in types, n \in nexts, c \in cached}

Shapes4 == Spines({<<5>>, <<6, 6>>}, {0}, {"both"})
             \cup Deltas({<<5>>}, {0}, {6}, BOOLEAN, {"both"})
Shapes3 == Deltas({<<4>>}, {0}, {4, 6}, {FALSE}, {"both"})
             \cup Iotas({<<4>>}, {0}, {0, 4})
             \cup Steps({4}, {5}, {"pos"})
Shapes2 == Spines({<<4, 3>>, <<3>>}, {0}, {"no", "both"})
             \cup Spines({<<5>>}, {3}, {"both"})
Shapes1 == Deltas({<<2>>, <<2, 4>>}, {0, 3}, {2, 3}, {FALSE}, {"both"})

SixPairs ==
  {g \in {<<a, b, c, d, Leaf("no"), Leaf("yes")>>
           : a \in Shapes1, b \in Shapes2, c \in Shapes3, d \in Shapes4} : Congruent(g)}
=============================================================================
