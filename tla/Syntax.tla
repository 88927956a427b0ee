------------------------------- MODULE Syntax -------------------------------
(***************************************************************************)
(* Terms with de Bruijn indices (term/expr.rs), as trees.  A node is a     *)
(* tuple of its operator, its label and its children.  A universe level is *)
(* its number and a literal a small number; constants carry no levels,     *)
(* which Levels covers, and strings are left out.                          *)
(***************************************************************************)
EXTENDS Integers, Sequences

Var(i)         == <<"var", i, <<>>>>
Sort(l)        == <<"sort", l, <<>>>>
Const(c)       == <<"const", c, <<>>>>
Lit(n)         == <<"lit", n, <<>>>>
App(f, a)      == <<"app", 0, <<f, a>>>>
Lam(t, b)      == <<"lam", 0, <<t, b>>>>
Pi(t, b)       == <<"pi", 0, <<t, b>>>>
Let(t, v, b)   == <<"let", 0, <<t, v, b>>>>
Proj(T, i, s)  == <<"proj", <<T, i>>, <<s>>>>
IllTyped       == <<"bad", 0, <<>>>>

Op(e)     == e[1]
Label(e)  == e[2]
Kid(e, k) == e[3][k]

\* How many binders of e stand over its k-th child.
Binders(e, k) == IF Op(e) \in {"lam", "pi", "let"} /\ k = Len(e[3]) THEN 1 ELSE 0

RECURSIVE Free(_)
Free(e) ==
  IF Op(e) = "var" THEN {Label(e)}
  ELSE UNION {{i - Binders(e, k) : i \in Free(Kid(e, k)) \ {Binders(e, k) - 1}}
              : k \in DOMAIN e[3]}

RECURSIVE Shift(_, _, _)
Shift(e, n, from) ==
  IF Op(e) = "var" THEN IF Label(e) >= from THEN Var(Label(e) + n) ELSE e
  ELSE <<e[1], e[2], [k \in DOMAIN e[3] |-> Shift(Kid(e, k), n, from + Binders(e, k))]>>

\* e with s for its variable i, which goes.
RECURSIVE SubstAt(_, _, _)
SubstAt(e, s, i) ==
  IF Op(e) = "var"
  THEN IF Label(e) = i THEN Shift(s, i, 0)
       ELSE IF Label(e) > i THEN Var(Label(e) - 1) ELSE e
  ELSE <<e[1], e[2], [k \in DOMAIN e[3] |-> SubstAt(Kid(e, k), s, i + Binders(e, k))]>>

Subst(e, s) == SubstAt(e, s, 0)

RECURSIVE HeadOf(_)
HeadOf(e) == IF Op(e) = "app" THEN HeadOf(Kid(e, 1)) ELSE e

RECURSIVE ArgsOf(_)
ArgsOf(e) == IF Op(e) = "app" THEN Append(ArgsOf(Kid(e, 1)), Kid(e, 2)) ELSE <<>>

RECURSIVE Apps(_, _)
Apps(f, as) ==
  IF as = <<>> THEN f ELSE Apps(App(f, Head(as)), Tail(as))

From(s, i) == SubSeq(s, i, Len(s))
=============================================================================
