-------------------------------- MODULE Exprs --------------------------------
(***************************************************************************)
(* Expressions with de Bruijn indices (term/expr.rs): the summary of its   *)
(* free variables that every node carries (loose and mask), shifting,      *)
(* instantiation, and what is read off a mask (ignores_binder; absent_args *)
(* of checker/relevance.rs).  They are checked against terms whose free    *)
(* variables have names.  Indices stay below 2^16: the parser declines     *)
(* the largest, and shifts are by the length of a telescope.               *)
(***************************************************************************)
EXTENDS VarMasks, Sequences, FiniteSets

CONSTANTS
  Terms,      \* the expressions worked on
  Types,      \* types that a definition may have
  Shifts,     \* the pairs of a cutoff and an amount of a shift
  Substs,     \* the substitutions, as sequences of expressions
  MaxHeight,  \* bound on the height of expressions
  MaxSteps    \* bound on operations

\* How many binders of an expression stand over each of its children.
Scopes == [leaf |-> <<>>, var |-> <<>>, app |-> <<0, 0>>, proj |-> <<0>>,
           pi |-> <<0, 1>>, lambda |-> <<0, 1>>, let |-> <<0, 0, 1>>]

Binders(e, k) == Scopes[e.op][k]

\* The expressions of height at most n.
ExprsUpto[n \in Nat] ==
  IF n = 0 THEN {}
  ELSE {e \in [op : DOMAIN Scopes, idx : Nat, kids : Seq(ExprsUpto[n - 1])] :
          Len(e.kids) = Len(Scopes[e.op])}

Expressions == ExprsUpto[MaxHeight]

ASSUME ExprsAssumption ==
  /\ MaxSteps \in Nat /\ MaxHeight \in Nat
  /\ Terms \subseteq Expressions /\ Types \subseteq Expressions
  /\ Shifts \subseteq Nat \X Nat
  /\ Substs \subseteq Seq(Expressions)

\* Constants, sorts and literals: one of them, and as many others as there are
\* variables.
Leaf         == [op |-> "leaf", idx |-> 0, kids |-> <<>>]
Name(i)      == [op |-> "leaf", idx |-> i + 1, kids |-> <<>>]
Var(i)       == [op |-> "var", idx |-> i, kids |-> <<>>]
App(f, a)    == [op |-> "app", idx |-> 0, kids |-> <<f, a>>]
Pi(t, b)     == [op |-> "pi", idx |-> 0, kids |-> <<t, b>>]
Lambda(t, b) == [op |-> "lambda", idx |-> 0, kids |-> <<t, b>>]
Let(t, v, b) == [op |-> "let", idx |-> 0, kids |-> <<t, v, b>>]
Proj(s)      == [op |-> "proj", idx |-> 0, kids |-> <<s>>]

\* map_children, where the children become kids.
MapChildren(e, kids) == [e EXCEPT !.kids = kids]

-----------------------------------------------------------------------------
(* What a node knows of its free variables.                                *)

Greatest(s)  == CHOOSE m \in s : \A n \in s : n <= m

\* One more than the largest free index.
Loose[e \in Expressions] ==
  IF e.op = "var" THEN e.idx + 1
  ELSE Greatest({0} \cup {Loose[e.kids[k]] - Binders(e, k) : k \in DOMAIN e.kids})

VarMask(i) == {Lesser(i, NEAR)}

UnderBinderShifts(mask, loose) == {i \in 0 .. FAR : i + 1 \in mask}

\* The mask of an expression seen from outside a binder over it.
UnderBinder(mask, loose) ==
  {i \in 0 .. FAR : i + 1 \in mask} \cup (IF loose > NEAR + 1 THEN {FAR} ELSE {})

Mask[e \in Expressions] ==
  IF e.op = "var" THEN VarMask(e.idx)
  ELSE UNION {IF Binders(e, k) = 0 THEN Mask[e.kids[k]]
              ELSE UnderBinder(Mask[e.kids[k]], Loose[e.kids[k]]) : k \in DOMAIN e.kids}

IgnoresBinder(body) == 0 \notin Mask[body]

HasLooseBvar[e \in Expressions] ==
  [i \in Nat |->
     /\ Loose[e] > i
     /\ IF e.op = "var" THEN e.idx = i
        ELSE \E k \in DOMAIN e.kids : HasLooseBvar[e.kids[k]][i + Binders(e, k)]]

HasLooseBvarBelow[e \in Expressions] ==
  [cutoff \in Nat |->
     /\ cutoff # 0 /\ Loose[e] # 0
     /\ IF e.op = "var" THEN e.idx < cutoff
        ELSE \E k \in DOMAIN e.kids : HasLooseBvarBelow[e.kids[k]][cutoff + Binders(e, k)]]

-----------------------------------------------------------------------------
(* Shifting.                                                               *)

Lift(e, cutoff, amount) ==
  LET lift[x \in Expressions] ==
        [c \in Nat |->
           IF amount = 0 \/ Loose[x] <= c THEN x
           ELSE IF x.op = "var" THEN Var(x.idx + amount)
           ELSE MapChildren(x, [k \in DOMAIN x.kids |-> lift[x.kids[k]][c + Binders(x, k)]])]
  IN  lift[e][cutoff]

\* Nothing is cut off where lower does not panic.
Lower(e, cutoff, amount) ==
  LET lower[x \in Expressions] ==
        [c \in Nat |->
           IF amount = 0 \/ Loose[x] <= c THEN x
           ELSE IF x.op = "var" THEN Var(x.idx - Lesser(amount, x.idx))
           ELSE MapChildren(x, [k \in DOMAIN x.kids |-> lower[x.kids[k]][c + Binders(x, k)]])]
  IN  lower[e][cutoff]

\* The assertion of lower fails: a variable would refer to a discarded binder.
LowerPanics(e, cutoff, amount) ==
  LET panics[x \in Expressions] ==
        [c \in Nat |->
           /\ amount # 0 /\ Loose[x] > c
           /\ IF x.op = "var" THEN x.idx < c + amount
              ELSE \E k \in DOMAIN x.kids : panics[x.kids[k]][c + Binders(x, k)]]
  IN  panics[e][cutoff]

-----------------------------------------------------------------------------
(* Instantiation: the last of substs stands for index 0.                   *)

InstantiatedRaw(substs, i, offset, open) == substs[Len(substs) - i]

\* What stands for the i-th variable, under offset binders.
Instantiated(substs, i, offset, open) ==
  IF open THEN Lift(substs[Len(substs) - i], 0, offset) ELSE substs[Len(substs) - i]

InstAux(e, substs, offset, open) ==
  LET inst[x \in Expressions] ==
        [o \in Nat |->
           IF Loose[x] <= o THEN x
           ELSE IF x.op = "var"
           THEN IF x.idx - o < Len(substs) THEN Instantiated(substs, x.idx - o, o, open) ELSE x
           ELSE MapChildren(x, [k \in DOMAIN x.kids |-> inst[x.kids[k]][o + Binders(x, k)]])]
  IN  inst[e][offset]

InstOpen(e, substs) ==
  InstAux(e, substs, 0, \E k \in DOMAIN substs : Loose[substs[k]] # 0)

-----------------------------------------------------------------------------
(* Arguments a definition does not use.                                    *)

Arity[e \in Expressions] == IF e.op = "lambda" THEN 1 + Arity[e.kids[2]] ELSE 0

\* What lies under the first n binders of a lambda or a pi.
Body[e \in Expressions] ==
  [n \in Nat |-> IF n = 0 \/ e.op \notin {"lambda", "pi"} THEN e ELSE Body[e.kids[2]][n - 1]]

Domains[ty \in Expressions] == IF ty.op = "pi" THEN 1 + Domains[ty.kids[2]] ELSE 0

UnusedFromFront(body, arity, i) == i \notin Mask[body]

\* Whether body, under arity lambdas, does not use argument i.
UnusedInValue(body, arity, i) == arity - 1 - i \notin Mask[body]

\* absent_args: the arguments that neither the value nor the type uses.
AbsentArgs(ty, val) ==
  LET arity == Lesser(Arity[val], MAX_TRACKED)
      body  == Body[val][arity]
  IN  IF arity = 0 \/ Loose[body] > MAX_TRACKED THEN {}
      ELSE {i \in 0 .. Lesser(arity, Domains[ty]) - 1 :
              UnusedInValue(body, arity, i) /\ IgnoresBinder(Body[ty][i + 1])}

-----------------------------------------------------------------------------
(* An expression and what becomes of it.                                   *)

VARIABLES expr, was, did, steps

exprVars == <<expr, was, did, steps>>

ExprsInit ==
  /\ expr \in Terms
  /\ was = expr
  /\ did = <<"nothing">>
  /\ steps = 0

Becomes(new, by) == expr' = new /\ was' = expr /\ did' = by

LiftBy(c, n) == Becomes(Lift(expr, c, n), <<"lift", c, n>>)

\* Callers see to it that what they lower has no variable between.
LowerBy(c, n) ==
  ~LowerPanics(expr, c, n) /\ Becomes(Lower(expr, c, n), <<"lower", c, n>>)

\* Callers give a value for every free variable.  What MaxHeight leaves out is
\* not done.
Inst(substs) ==
  /\ Loose[expr] <= Len(substs)
  /\ InstOpen(expr, substs) \in Expressions
  /\ Becomes(InstOpen(expr, substs), <<"inst", substs>>)

\* The expression is taken for the value of a definition of type ty.
Sign(ty) ==
  /\ Loose[expr] = 0
  /\ Becomes(expr, <<"sign", ty, AbsentArgs(ty, expr)>>)

ExprsNext ==
  /\ steps < MaxSteps
  /\ steps' = steps + 1
  /\ \/ \E s \in Shifts : LiftBy(s[1], s[2])
     \/ \E s \in Shifts : LowerBy(s[1], s[2])
     \/ \E substs \in Substs : Inst(substs)
     \/ \E ty \in Types : Sign(ty)

ExprsSpec == ExprsInit /\ [][ExprsNext]_exprVars

-----------------------------------------------------------------------------
(* The meaning of an expression: its free variables replaced by what env   *)
(* gives them, under depth binders.  Bound variables keep their indices,   *)
(* which nothing free can be confused with.                                *)

NamedUnder(e, env, depth) ==
  LET named[x \in Expressions] ==
        [d \in Nat |->
           IF x.op = "var" THEN IF x.idx < d THEN x ELSE env[x.idx - d]
           ELSE MapChildren(x, [k \in DOMAIN x.kids |-> named[x.kids[k]][d + Binders(x, k)]])]
  IN  named[e][depth]

Named(e, env) == NamedUnder(e, env, 0)

FreeVars[e \in Expressions] ==
  IF e.op = "var" THEN {e.idx}
  ELSE UNION {{i - Binders(e, k) : i \in FreeVars[e.kids[k]]} \ {-1} : k \in DOMAIN e.kids}

\* Names for all variables, and for all but those from c on to c + n.
Names         == [i \in Nat |-> Name(i)]
Without(c, n) == [i \in Nat |-> Name(IF i < c THEN i ELSE i + n)]

\* Names for all variables but the j-th.
Other(j) == [i \in Nat |-> IF i = j THEN Leaf ELSE Name(i)]

\* What a substitution gives the variables.
Given(substs) ==
  [i \in Nat |-> IF i < Len(substs) THEN Named(substs[Len(substs) - i], Names) ELSE Name(i)]

-----------------------------------------------------------------------------
(* Properties.                                                             *)

Shallow[e \in Expressions] ==
  Loose[e] <= NEAR + 1 /\ \A k \in DOMAIN e.kids : Shallow[e.kids[k]]

(* A node's summary misses no free variable, however deep under binders: code
   that prunes environments and drops unused arguments relies on it. loose is
   exact, since what is not below it is taken to be closed.  Where no
   subexpression reaches beyond the last bit the mask is exact too: the bit
   FAR is then one variable, as absent_args takes it to be.  The searches,
   which leave out subexpressions by their summaries, find what is there:
   has_loose_bvar tells exactly, and what has_loose_bvar_below lets through can
   be lowered, as the parameters of a nested type are with no other check. *)
SummaryRight ==
  LET free == FreeVars[expr]
  IN  /\ \A i \in free : Lesser(i, NEAR) \in Mask[expr]
      /\ Loose[expr] = Greatest({0} \cup {i + 1 : i \in free})
      /\ Shallow[expr] => Mask[expr] = free
      /\ \A c \in 0 .. 3 :
           /\ HasLooseBvar[expr][c] <=> c \in free
           /\ LowerPanics(expr, 0, c) => HasLooseBvarBelow[expr][c]

(* The check on a nested type, "may only be applied to the block's parameters",
   refuses what mentions a variable below the cutoff.  It does not hold:
   the search takes a variable bound within the expression for one of them. *)
GuardRefusesOnlyLocals ==
  \A c \in 0 .. 3 : HasLooseBvarBelow[expr][c] => \E j \in FreeVars[expr] : j < c

(* Shifting leaves every variable the binder it had, with the others further
   away or nearer; instantiation puts each expression for its variable and
   captures none of its free variables. *)
SubstMeans ==
  /\ did[1] = "lift" => Named(expr, Names) = Named(was, Without(did[2], did[3]))
  /\ did[1] = "lower" => Named(expr, Without(did[2], did[3])) = Named(was, Names)
  /\ did[1] = "inst" =>
       Named(expr, Names) = Named(was, Given(did[2]))

(* An argument that is told absent may be anything: neither the value nor the
   rest of the type changes with it. *)
AbsentUnused ==
  did[1] = "sign" =>
    LET arity == Lesser(Arity[expr], MAX_TRACKED)
        body  == Body[expr][arity]
    IN  \A i \in did[3] :
          LET rest == Body[did[2]][i + 1]
          IN  /\ Named(body, Other(arity - 1 - i)) = Named(body, Names)
              /\ Named(rest, Other(0)) = Named(rest, Names)
=============================================================================
