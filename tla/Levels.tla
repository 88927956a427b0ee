------------------------------- MODULE Levels -------------------------------
(***************************************************************************)
(* Universe levels (term/level.rs): simplification, substitution and the   *)
(* order leq that decides whether one universe lies in another, checked    *)
(* against what levels mean: a natural number for every valuation of the   *)
(* parameters.  Levels are interned, so equal ids are equal terms; the     *)
(* caches are functions of their keys and are left out.  Recursion is as   *)
(* deep as the stack allows: levels have at most MaxDepth, and leq_core   *)
(* calls itself at most MaxCalls times within one another.                 *)
(***************************************************************************)
EXTENDS Integers, Sequences

CONSTANTS
  Uparams,      \* the names of a declaration's universe parameters, in order
  Compared,     \* the pairs of levels compared
  Args,         \* what a use of the declaration gives its parameters
  MaxValue,     \* bound on what a valuation gives a parameter
  MaxDepth,     \* bound on the height of levels
  MaxCalls      \* bound on the depth of the calls of leq_core

Params == {Uparams[i] : i \in DOMAIN Uparams}

Zero       == <<"zero">>
Succ(l)    == <<"succ", l>>
Max(l, r)  == <<"max", l, r>>
IMax(l, r) == <<"imax", l, r>>
Param(p)   == <<"param", p>>

Op(l) == l[1]

\* The levels of height at most n.
LevelsUpto[n \in Nat] ==
  IF n = 0 THEN {}
  ELSE LET lower == LevelsUpto[n - 1]
       IN  {Zero} \cup {Param(p) : p \in Params} \cup ({"succ"} \X lower)
             \cup ({"max", "imax"} \X lower \X lower)

Levels == LevelsUpto[MaxDepth]

ASSUME LevelsAssumption ==
  /\ Uparams \in Seq(Params)
  /\ \A i, j \in DOMAIN Uparams : Uparams[i] = Uparams[j] => i = j
  /\ MaxValue \in Nat \ {0} /\ MaxDepth \in Nat \ {0} /\ MaxCalls \in Nat
  /\ Compared \subseteq Levels \X Levels /\ Args \subseteq Levels

-----------------------------------------------------------------------------
(* What a level means.                                                     *)

Valuations == [Params -> 0 .. MaxValue]

Greater(m, n) == IF m > n THEN m ELSE n

Value(l, e) ==
  LET value[x \in Levels] ==
        IF Op(x) = "succ" THEN value[x[2]] + 1
        ELSE IF Op(x) = "max" \/ (Op(x) = "imax" /\ value[x[3]] # 0)
          THEN Greater(value[x[2]], value[x[3]])
        ELSE IF Op(x) = "param" THEN e[x[2]]
        ELSE 0
  IN  value[l]

-----------------------------------------------------------------------------
(* Simplification.                                                         *)

(* Mutated forms of an operator, each a slip the checked properties must
   catch, stand before the operator they replace. *)

IsAlwaysZero[l \in Levels] ==
  \/ Op(l) = "zero"
  \/ Op(l) = "max" /\ IsAlwaysZero[l[2]] /\ IsAlwaysZero[l[3]]
  \/ Op(l) = "imax" /\ IsAlwaysZero[l[3]]

\* imax(1, r) is r, whether r is zero or not.
IsAlwaysOne(l) == Op(l) = "succ" /\ IsAlwaysZero[l[2]]

Combining[l \in Levels] ==
  [r \in Levels |->
     IF Op(l) = "zero" THEN r
     ELSE IF Op(r) = "zero" THEN l
     ELSE IF Op(l) = "succ" /\ Op(r) = "succ" THEN Succ(Combining[l[2]][r[2]])
     ELSE Max(l, r)]

\* simplify of an IMax, from its simplified sides.
Collapse(l, r) ==
  IF IsAlwaysZero[l] \/ IsAlwaysOne(l) THEN r
  ELSE IF Op(r) = "zero" THEN r
  ELSE IF Op(r) = "succ" THEN Combining[l][r]
  ELSE IMax(l, r)

Simplify[l \in Levels] ==
  IF Op(l) = "succ" THEN Succ(Simplify[l[2]])
  ELSE IF Op(l) = "max" THEN Combining[Simplify[l[2]]][Simplify[l[3]]]
  ELSE IF Op(l) = "imax" THEN Collapse(Simplify[l[2]], Simplify[l[3]])
  ELSE l

-----------------------------------------------------------------------------
(* Substitution.                                                           *)

SubstParamReversed(l, ks, vs) ==
  LET at == {i \in DOMAIN ks \cap DOMAIN vs : ks[i] = l}
  IN  IF at = {} THEN l ELSE vs[Len(vs) + 1 - CHOOSE i \in at : \A j \in at : i <= j]

\* What the first of the parameters ks that is l stands for in vs.
SubstParam(l, ks, vs) ==
  LET at == {i \in DOMAIN ks \cap DOMAIN vs : ks[i] = l}
  IN  IF at = {} THEN l ELSE vs[CHOOSE i \in at : \A j \in at : i <= j]

SubstLevel(l, ks, vs) ==
  LET subst[x \in Levels] ==
        IF Op(x) = "param" THEN SubstParam(x, ks, vs)
        ELSE IF Op(x) = "succ" THEN Succ(subst[x[2]])
        ELSE IF Op(x) = "max" THEN Max(subst[x[2]], subst[x[3]])
        ELSE IF Op(x) = "imax" THEN IMax(subst[x[2]], subst[x[3]])
        ELSE Zero
  IN  subst[l]

\* is_zero_under: whether l is zero once vs stand for the parameters ks.
IsZeroUnder(l, ks, vs) ==
  LET zero[x \in Levels] ==
        \/ Op(x) = "zero"
        \/ Op(x) = "param" /\ \E i \in DOMAIN ks : ks[i] = x /\ IsAlwaysZero[vs[i]]
        \/ Op(x) = "max" /\ zero[x[2]] /\ zero[x[3]]
        \/ Op(x) = "imax" /\ zero[x[3]]
  IN  zero[l]

-----------------------------------------------------------------------------
(* The order.  leq_core panics on what none of its cases covers, and may   *)
(* run out of stack, so it has four answers.                               *)

Yes(b) == IF b THEN "yes" ELSE "no"

IsParam(l)  == Op(l) = "param"
IsAnyMax(l) == Op(l) \in {"max", "imax"}

\* An IMax over an IMax or a Max, as a Max of two.
Distribution(l) ==
  LET a == l[2]  b == l[3]
  IN  IF Op(b) = "imax" THEN Max(IMax(a, b[3]), IMax(b[2], b[3]))
      ELSE Max(IMax(a, b[2]), IMax(a, b[3]))

DistributedRaw(l) == Distribution(l)

\* Only the latter is simplified.
Distributed(l) ==
  IF Op(l[3]) = "imax" THEN Distribution(l) ELSE Simplify[Distribution(l)]

\* Conjunction and disjunction from left to right, as && and ||.
And(a, b) == IF a = "yes" THEN b ELSE a

OrBoth(a, b) == And(a, b)

Or(a, b) == IF a = "no" THEN b ELSE a

\* Both sides with v for a parameter, as leq answers.
LeqAt(leq, param, v, l, r, diff) ==
  LET x == SubstLevel(l, <<param>>, <<v>>)
      y == SubstLevel(r, <<param>>, <<v>>)
  IN  IF {x, y} \subseteq Levels THEN leq[Simplify[x]][Simplify[y]][diff] ELSE "overflow"

LeqImaxByZero(leq, param, l, r, diff) == LeqAt(leq, param, Zero, l, r, diff)

\* The order holds when it does for a parameter that is zero or a successor.
LeqImaxByCases(leq, param, l, r, diff) ==
  And(LeqAt(leq, param, Zero, l, r, diff), LeqAt(leq, param, Succ(param), l, r, diff))

\* One call of leq_core, which leq answers for the calls it makes.  diff is how
\* many more successors were taken off r than off l; the first case that fits
\* decides.
LeqCall(leq, l, r, diff) ==
  IF Op(l) = "zero" /\ diff >= 0 THEN "yes"
  ELSE IF Op(r) = "zero" /\ diff < 0 THEN "no"
  ELSE IF IsParam(l) /\ IsParam(r) THEN Yes(l = r /\ diff >= 0)
  ELSE IF IsParam(l) /\ Op(r) = "zero" THEN "no"
  ELSE IF Op(l) = "zero" /\ IsParam(r) THEN Yes(diff >= 0)
  ELSE IF Op(l) = "succ" THEN leq[l[2]][r][diff - 1]
  ELSE IF Op(r) = "succ" THEN leq[l][r[2]][diff + 1]
  ELSE IF Op(l) = "max" THEN And(leq[l[2]][r][diff], leq[l[3]][r][diff])
  ELSE IF (IsParam(l) \/ Op(l) = "zero") /\ Op(r) = "max"
    THEN Or(leq[l][r[2]][diff], leq[l][r[3]][diff])
  ELSE IF Op(l) = "imax" /\ l = r /\ diff >= 0 THEN "yes"
  ELSE IF Op(l) = "imax" /\ IsParam(l[3]) THEN LeqImaxByCases(leq, l[3], l, r, diff)
  ELSE IF Op(r) = "imax" /\ IsParam(r[3]) THEN LeqImaxByCases(leq, r[3], l, r, diff)
  ELSE IF Op(l) = "imax" /\ IsAnyMax(l[3])
    THEN IF Distribution(l) \in Levels THEN leq[Distributed(l)][r][diff] ELSE "overflow"
  ELSE IF Op(r) = "imax" /\ IsAnyMax(r[3])
    THEN IF Distribution(r) \in Levels THEN leq[l][Distributed(r)][diff] ELSE "overflow"
  ELSE "panic"

\* leq_core, with a stack for n calls.
LeqCore[n \in Nat] ==
  [l \in Levels |-> [r \in Levels |-> [diff \in Int |->
     IF n = 0 THEN "overflow" ELSE LeqCall(LeqCore[n - 1], l, r, diff)]]]

Leq(l, r) == IF l = r THEN "yes" ELSE LeqCore[MaxCalls][Simplify[l]][Simplify[r]][0]
EqAntisymm(l, r) == Leq(l, r) = "yes" /\ Leq(r, l) = "yes"

-----------------------------------------------------------------------------
(* Two levels of a declaration, and what becomes of them.                 *)

VARIABLES left, right, args, stage

levelVars == <<left, right, args, stage>>

LevelsInit ==
  /\ \E c \in Compared : left = c[1] /\ right = c[2]
  /\ args = <<>>
  /\ stage = "declared"

Ks == [i \in DOMAIN Uparams |-> Param(Uparams[i])]

\* The declaration is used with vs for its parameters.  What MaxDepth leaves
\* out is not done.
Instantiate(vs) ==
  /\ stage = "declared"
  /\ args' = vs
  /\ left' = SubstLevel(left, Ks, vs)
  /\ right' = SubstLevel(right, Ks, vs)
  /\ {left', right'} \subseteq Levels
  /\ stage' = "used"

Simplified ==
  /\ stage = "declared"
  /\ left' = Simplify[left]
  /\ right' = Simplify[right]
  /\ stage' = "simplified"
  /\ UNCHANGED args

LevelsNext == (\E vs \in [DOMAIN Uparams -> Args] : Instantiate(vs)) \/ Simplified

LevelsSpec == LevelsInit /\ [][LevelsNext]_levelVars

-----------------------------------------------------------------------------
(* Properties.                                                             *)

Below(l, r) == \A e \in Valuations : Value(l, e) <= Value(r, e)

HasIMax[l \in Levels] ==
  \/ Op(l) = "imax"
  \/ Op(l) = "succ" /\ HasIMax[l[2]]
  \/ Op(l) = "max" /\ (HasIMax[l[2]] \/ HasIMax[l[3]])

(* leq accepts only what holds for every valuation, and its cases cover all
   that simplification and case splits lead to: it does not panic. *)
LeqSound ==
  LET answer == Leq(left, right)
  IN  answer # "panic" /\ (answer = "yes" => Below(left, right))

(* leq comes to an answer: case splits and distribution end before the stack
   does.  It takes a level and its simplified form for equal, and refuses only
   what fails for some valuation, unless there is an imax on the right: leq_core
   commits to one side of a max before it splits on the parameter of an imax
   below. *)
LeqComplete ==
  /\ Leq(left, right) # "overflow"
  /\ EqAntisymm(left, Simplify[left])
  /\ ~HasIMax[right] /\ Below(left, right) => Leq(left, right) = "yes"

(* What was accepted of a declaration is accepted of each of its uses, though
   leq is not complete: a use is never checked again. *)
InstantiateStable ==
  [][stage' = "used" /\ Leq(left, right) = "yes" => Leq(left', right') = "yes"]_levelVars

(* Simplifying changes no meaning.  Substitution is simultaneous: a use means
   what the declaration means where the parameters have the values of the
   arguments.  is_zero_under tells, without substituting, exactly when a use is
   a proposition for every valuation. *)
MeaningKept ==
  [][/\ Simplified => \A e \in Valuations : Value(left', e) = Value(left, e)
     /\ stage' = "used" =>
          /\ \A e \in Valuations :
               Value(left', e) =
                 Value(left, [p \in Params |->
                   Value(args'[CHOOSE i \in DOMAIN Uparams : Uparams[i] = p], e)])
          /\ IsZeroUnder(left, Ks, args') <=> \A e \in Valuations : Value(left', e) = 0]_levelVars
=============================================================================
