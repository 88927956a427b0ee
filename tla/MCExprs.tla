------------------------------ MODULE MCExprs ------------------------------
(* The expressions worked on, and what is put for their variables.            *)
EXTENDS Exprs

Vars == {Var(i) : i \in 0 .. 4}
Flat == Vars \cup {Leaf}
One  == Flat \cup {App(x, y) : x, y \in Flat} \cup {Lambda(Leaf, x) : x \in Flat}
          \cup {Pi(x, y) : x, y \in Flat} \cup {Proj(x) : x \in Flat}
          \cup {Let(x, y, z) : x, y, z \in {Leaf, Var(0), Var(1), Var(4)}}
Some == {Var(0), Var(3)}
Two  == {App(x, y) : x \in Some, y \in One} \cup {Pi(x, y) : x \in Some, y \in One}
          \cup {Lambda(Leaf, x) : x \in One} \cup {Let(Leaf, x, y) : x \in Some, y \in One}
          \cup {Let(x, Leaf, Leaf) : x \in One}

\* The values of definitions, under up to five lambdas.
RECURSIVE Lambdas(_, _)
Lambdas(n, e) == IF n = 0 THEN e ELSE Lambda(Leaf, Lambdas(n - 1, e))
Defs == {Lambdas(n, App(x, y)) : n \in 1 .. 5, x, y \in Flat}

AllTerms == One \cup Two \cup Defs

Telescopes == {Pi(Leaf, Pi(x, Pi(y, z))) : x \in {Leaf, Var(0)},
                                          y \in {Leaf, Var(0), Var(1)},
                                          z \in {Leaf, Var(0), Var(1), Var(2)}}

AllShifts == {<<0, 1>>, <<1, 1>>, <<0, 2>>, <<2, 2>>}

Open   == <<Var(0), Lambda(Var(1), App(Var(0), Var(2))), Leaf, Var(3), App(Var(1), Var(0)), Var(0), Var(1)>>
Closed == [i \in 1 .. 7 |-> IF i % 2 = 0 THEN Leaf ELSE Lambda(Leaf, App(Leaf, Var(0)))]
AllSubsts == {Open, Closed}
=============================================================================
