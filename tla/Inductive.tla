----------------------------- MODULE Inductive ------------------------------
(***************************************************************************)
(* How a block of inductive types is checked, and what is derived from it  *)
(* (checker/inductive/): nested occurrences are replaced by types of their *)
(* own, positivity and universes are checked, recursors are made with      *)
(* their rules, checked, and put back in terms of the block as declared.   *)
(* What the evaluator, the inference and the conversion answer is stated   *)
(* by Terms, in the environment of the moment.  A name is the sequence of  *)
(* its parts.  The universe that a recursor may eliminate into, a          *)
(* parameter in the code, is one level given for it.                       *)
(***************************************************************************)
EXTENDS Terms, FiniteSets, SequencesExt, TLC

CONSTANTS
  Bases,     \* the declarations there may be before the block, by name: see Terms;
             \* an inductive type has the types of its block too, as all
  Blocks,    \* the blocks that may be declared: the types, each with its name,
             \* type and constructors, and the number of parameters
  ElimLevel  \* what is given for the universe parameter of recursors

ASSUME InductiveAssumption ==
  /\ \A B \in Bases : Declarations(B)
  /\ ElimLevel \in Nat \ {0}
  /\ \A b \in Blocks : Len(b.types) > 0 /\ b.params \in Nat

VARIABLES
  base,      \* the declarations before the block
  block,
  stage,
  st,        \* InductiveCheckState
  derived    \* the declarations made of the block

vars == <<base, block, stage, st, derived>>

-----------------------------------------------------------------------------
(* Names and environments.                                                 *)

RecName(n)        == Append(n, "rec")
IndexAfter(n, i)  == Front(n) \o <<Last(n) \o "_" \o ToString(i)>>
\* A name that does not begin so stays as it is.
ReplacePfx(n, from, to) == IF IsPrefix(from, n) THEN to \o From(n, Len(from) + 1) ELSE n

NamesOf(types) == {types[i].name : i \in DOMAIN types}

Axiom(ty) == [kind |-> "axiom", ty |-> ty]

\* Until it is forced, in what is evaluated no definition is unfolded, and no
\* recursor takes apart what is not a constructor.
Unforced(d) ==
  CASE d.kind = "def" -> Axiom(d.ty)
    [] d.kind = "ind" -> [d EXCEPT !.recursive = TRUE]
    [] d.kind = "rec" -> [d EXCEPT !.k = FALSE]
    [] OTHER          -> d

Opaque(env) == [n \in DOMAIN env |-> Unforced(env[n])]

-----------------------------------------------------------------------------
(* What is asked of terms, in an environment, and of the block.  Ask, at   *)
(* the end, says what these stand for.                                     *)

RECURSIVE Ask(_)
Weak(env, e)       == Ask(<<"weak", env, e>>)
Normal(env, e)     == Ask(<<"normal", env, e>>)
Quoted(env, e)     == Ask(<<"quoted", env, e>>)
Typed(env, ctx, e) == Ask(<<"typed", env, e, ctx>>)
Level(env, ctx, e) == Ask(<<"level", env, e, ctx>>)
\* Which type of the block s checks e is, as it may occur in it; 0 for none.
WhichValidIndApp(env, s, ctx, e) == Ask(<<"valid", env, e, ctx, s>>)

Equal(env, t, u) == Normal(env, t) = Normal(env, u)

\* The domains of up to n binders, each under those before, and what is left.
Opened(env, e, n) == IF n = 0 THEN [doms |-> <<>>, rest |-> e] ELSE Ask(<<"opened", env, e, n>>)

Prefixed(dom, o) == [doms |-> <<dom>> \o o.doms, rest |-> o.rest]
OpenedAt(env, e, n, w) ==
  IF Op(w) # "pi" THEN [doms |-> <<>>, rest |-> e] ELSE Prefixed(Kid(w, 1), Opened(env, Kid(w, 2), n - 1))

-----------------------------------------------------------------------------
(* Telescopes.                                                             *)

Many == 99

\* With force_pi definitions are unfolded, otherwise binders are as they stand.
Forced(env, e, n) == Opened(env, e, n)
Standing(env, e)  == Opened(Opaque(env), e, Many)

RECURSIVE PiSize(_)
PiSize(e) == IF Op(e) = "pi" THEN 1 + PiSize(Kid(e, 2)) ELSE 0

\* The context under binders, the innermost first; of binder k among them.
CtxOf(doms)    == Reverse(doms)
CtxAt(doms, k) == CtxOf(SubSeq(doms, 1, k - 1))

Lift(e, cutoff, amount) == Shift(e, amount, cutoff)
\* Callers see to it that no variable goes.
Lower(e, amount) == Shift(e, 0 - amount, 0)

QuotedAll(env, es) == [i \in DOMAIN es |-> Quoted(env, es[i])] \o <<>>

\* Binders one under the other; with a gap, what lies below them is further out.
Spread(tys, gap) == [i \in DOMAIN tys |-> Lift(tys[i], i - 1, gap)]
\* Types of one and the same context, none of which uses another.
Flat(tys)        == [i \in DOMAIN tys |-> Lift(tys[i], 0, i - 1)]

PisDep(tys, gap, body)     == FoldRight(Pi, Spread(tys, gap), body)
PisFlat(tys, body)         == FoldRight(Pi, Flat(tys), body)
LambdasDep(tys, gap, body) == FoldRight(Lam, Spread(tys, gap), body)
LambdasFlat(tys, body)     == FoldRight(Lam, Flat(tys), body)

\* n variables bound one under the other, the last of them i away.
VarsAt(i, n) == [k \in 1 .. n |-> Var(i + n - k)]

\* The parameters, under offset more binders.
ParamVars(np, offset) == VarsAt(offset, np)

RECURSIVE Consts(_)
Consts(e) == IF Op(e) = "const" THEN {Label(e)} ELSE UNION {Consts(Kid(e, k)) : k \in DOMAIN e[3]}

Mentions(e, names) == Consts(e) \cap names # {}

-----------------------------------------------------------------------------
(* The checks on the block as it was declared.                             *)

\* Every occurrence of the block's types is applied to the parameters, in
\* their order; offset counts the binders over e, which is h on args.
OnParams(h, args, np, offset) ==
  Len(args) = np /\ offset >= np /\ \A i \in 1 .. np : args[i] = Var(offset - i)

IsOneOf(h, names) == Op(h) = "const" /\ Label(h) \in names

RECURSIVE Uniform(_, _, _, _)
Uniform(e, names, np, offset) ==
  IF IsOneOf(HeadOf(e), names) /\ Len(ArgsOf(e)) <= np THEN OnParams(HeadOf(e), ArgsOf(e), np, offset)
  ELSE \A k \in DOMAIN e[3] : Uniform(Kid(e, k), names, np, offset + Binders(e, k))

\* check_declar_info_v
IsType(env, e) == Consts(e) \subseteq DOMAIN env /\ Level(env, <<>>, e) # -1

Find(types, n) == types[CHOOSE i \in DOMAIN types : types[i].name = n]

\* The block's types before they are in the environment: known by their types.
TypeSpecs(types)   == [n \in NamesOf(types) |-> Axiom(Find(types, n).ty)]
Unspecified(types) == TypeSpecs(types) @@ base

-----------------------------------------------------------------------------
(* Nested types.                                                           *)

RECURSIVE HasLooseBvarBelow(_, _)
HasLooseBvarBelow(e, cutoff) ==
  /\ cutoff # 0 /\ Free(e) # {}
  /\ IF Op(e) = "var" THEN Label(e) < cutoff
     ELSE \E k \in DOMAIN e[3] : HasLooseBvarBelow(Kid(e, k), cutoff + Binders(e, k))

\* An inductive type from before the block, some parameter of which mentions
\* the block: s is the state.
IsNestedOn(s, h, args) ==
  /\ Op(h) = "const" /\ Label(h) \in DOMAIN base /\ base[Label(h)].kind = "ind"
  /\ base[Label(h)].params <= Len(args)
  /\ \E i \in 1 .. base[Label(h)].params : Mentions(args[i], NamesOf(s.types))

IsNestedIndApp(s, e) == Op(e) = "app" /\ IsNestedOn(s, HeadOf(e), ArgsOf(e))

\* inst_forall_params: the parameters of a type as declared are given.
RECURSIVE InstForallParams(_, _)
InstForallParams(e, args) ==
  IF args = <<>> THEN e ELSE InstForallParams(Subst(Kid(e, 2), Head(args)), Tail(args))

\* mk_unique_name: the first index from next on that makes a name unheard of.
FreshIndex(s, n) ==
  CHOOSE i \in s.next .. s.next + Cardinality(s.known) :
    /\ IndexAfter(n, i) \notin s.known
    /\ \A j \in s.next .. i - 1 : IndexAfter(n, j) \in s.known

\* An auxiliary type for container J, given params under offset binders.
Own(s, ty, params, offset) == PisDep(s.params, 0, Lower(InstForallParams(ty, params), offset))

AuxCtor(s, J, aux, c, params, offset) ==
  [name |-> ReplacePfx(c, J, aux), ty |-> Own(s, base[c].ty, params, offset)]

AuxNamed(s, J, params, offset, i, aux) ==
  [s EXCEPT
     !.next   = i + 1,
     !.nested = Append(@, [aux |-> aux, of |-> Lower(Apps(Const(J), params), offset)]),
     !.types  = Append(@, [name |-> aux, ty |-> Own(s, base[J].ty, params, offset),
                           ctors |-> [k \in DOMAIN base[J].ctors |->
                                        AuxCtor(s, J, aux, base[J].ctors[k], params, offset)]])]

AddAux(s, J, params, offset) ==
  LET n == <<"_nested">> \o J
      i == FreshIndex(s, n)
  IN AuxNamed(s, J, params, offset, i, IndexAfter(n, i))

\* The auxiliary types for own, one of the applications of a container.
FindNested(s, own) == {i \in DOMAIN s.nested : s.nested[i].of = own}

Known(s, c, params, offset, own) ==
  IF FindNested(s, own) # {} THEN s
  ELSE FoldLeft(LAMBDA acc, J : AddAux(acc, J, params, offset), s, base[c].all)

Replaced(s, own, offset, indices) ==
  [s |-> s, e |-> Apps(Const(s.nested[CHOOSE i \in FindNested(s, own) : TRUE].aux),
                       ParamVars(Len(s.params), offset) \o indices)]

\* replace_if_nested, of container c on params and indices.
ReplaceOn(s, e, c, params, indices, own, offset) ==
  IF \E i \in DOMAIN params : HasLooseBvarBelow(params[i], offset)
  THEN [s |-> [s EXCEPT !.ok = FALSE], e |-> e]
  ELSE Replaced(Known(s, c, params, offset, own), own, offset, indices)

ReplaceApp(s, e, c, params, indices, offset) ==
  ReplaceOn(s, e, c, params, indices, Lower(Apps(Const(c), params), offset), offset)

ReplaceNested(s, e, c, args, offset) ==
  ReplaceApp(s, e, c, SubSeq(args, 1, base[c].params), From(args, base[c].params + 1), offset)

\* Of a term, child by child.
RECURSIVE ReplaceAllNested(_, _, _)
Rebuilt(e, r)   == [s |-> r.s, e |-> <<e[1], e[2], r.kids>>]
AddKid(kids, r) == [s |-> r.s, kids |-> Append(kids, r.e)]
ReplaceAllNested(s, e, offset) ==
  IF IsNestedIndApp(s, e) THEN ReplaceNested(s, e, Label(HeadOf(e)), ArgsOf(e), offset)
  ELSE Rebuilt(e, FoldLeft(LAMBDA acc, k :
                             AddKid(acc.kids, ReplaceAllNested(acc.s, Kid(e, k), offset + Binders(e, k))),
                           [s |-> s, kids |-> <<>>], [k \in DOMAIN e[3] |-> k]))

\* specialize_nested_aux, for one constructor, and for those of type i with any
\* types that they call for.
AddCtor(ctors, name, doms, r) ==
  [s |-> r.s, ctors |-> Append(ctors, [name |-> name, ty |-> PisDep(doms, 0, r.e)])]

SpecializedFrom(env, acc, name, o) ==
  IF ~acc.s.ok \/ Len(o.doms) < Len(acc.s.params) THEN [acc EXCEPT !.s.ok = FALSE]
  ELSE AddCtor(acc.ctors, name, QuotedAll(env, o.doms), ReplaceAllNested(acc.s, Quoted(env, o.rest), 0))

SpecializeCtor(env, acc, c) == SpecializedFrom(env, acc, c.name, Forced(env, c.ty, Len(acc.s.params)))

WithCtors(r, i) == [r.s EXCEPT !.types[i].ctors = r.ctors]

\* What the types are is read again for each constructor, which may add some.
SpecializeType(s, i) ==
  WithCtors(FoldLeft(LAMBDA acc, c : SpecializeCtor(Unspecified(acc.s.types), acc, c),
                     [s |-> s, ctors |-> <<>>], s.types[i].ctors), i)

-----------------------------------------------------------------------------
(* The types, and the constructors in an environment that has them.        *)

NumParams(s) == Len(s.params)

\* check_inductive_specs, for type i: its indices and universe.
SameParams(env, s, doms) ==
  \A k \in 1 .. NumParams(s) : k \in DOMAIN doms => Equal(env, doms[k], s.params[k])

SpecOf(env, s, i, doms, sort) ==
  IF \/ Op(sort) # "sort"
     \/ i = 1 /\ ~SameParams(env, s, doms)
     \/ i > 1 /\ Label(sort) # s.codom
  THEN [s EXCEPT !.ok = FALSE]
  ELSE [s EXCEPT !.codom = Label(sort), !.indices = Append(@, QuotedAll(env, From(doms, NumParams(s) + 1)))]

SpecFrom(env, s, i, o) == SpecOf(env, s, i, o.doms, Weak(env, o.rest))

Spec1(env, s, i) == SpecFrom(env, s, i, Forced(env, s.types[i].ty, Many))

\* ind_tys_env_ext
IndExt(s, i) ==
  [kind |-> "ind", ty |-> s.types[i].ty, params |-> NumParams(s), indices |-> Len(s.indices[i]),
   ctors |-> [k \in DOMAIN s.types[i].ctors |-> s.types[i].ctors[k].name], recursive |-> FALSE]

TypesExt(s) ==
  [n \in NamesOf(s.types) |-> IndExt(s, CHOOSE i \in DOMAIN s.types : s.types[i].name = n)]

\* ctors_env_ext; a constructor of a later type comes in place of a namesake.
CtorExt(s, T, c) ==
  c.name :> [kind |-> "ctor", ty |-> c.ty, ind |-> T,
             params |-> NumParams(s), fields |-> PiSize(c.ty) - NumParams(s)]

CtorsExt(s) ==
  FoldLeft(LAMBDA ext, t : FoldLeft(LAMBDA acc, c : CtorExt(s, t.name, c) @@ acc, ext, t.ctors),
           TypesExt(s), s.types)

\* value_has_ind_occ: in e, or in the type of a variable of it.  What is bound
\* within e stands for itself: its type is part of e.
RECURSIVE HasIndOcc(_, _, _)
HasIndOcc(names, ctx, e) ==
  CASE Op(e) = "const" -> Label(e) \in names
    [] Op(e) = "var"   -> HasIndOcc(names, From(ctx, Label(e) + 2), ctx[Label(e) + 1])
    [] OTHER -> \E k \in DOMAIN e[3] :
                  HasIndOcc(names, IF Binders(e, k) = 1 THEN <<Sort(0)>> \o ctx ELSE ctx, Kid(e, k))

Occurs(env, s, ctx, e) == HasIndOcc(NamesOf(s.types), ctx, Quoted(env, e))

\* which_valid_ind_app
ValidApp(env, s, ctx, h, args, i) ==
  /\ h = Const(s.types[i].name)
  /\ Len(args) = NumParams(s) + Len(s.indices[i])
  /\ \A k \in DOMAIN args : IF k <= NumParams(s) THEN Quoted(env, args[k]) = Var(Len(ctx) - k)
                            ELSE ~Occurs(env, s, ctx, args[k])

FirstIn(S) == IF S = {} THEN 0 ELSE CHOOSE i \in S : \A j \in S : i <= j

ValidAt(env, s, ctx, w) ==
  FirstIn({i \in DOMAIN s.types : ValidApp(env, s, ctx, HeadOf(w), ArgsOf(w), i)})

\* check_positivity1, of a field's type e, which is w when forced.
RECURSIVE PositiveAt(_, _, _, _)

\* What a field takes is not looked at.
PositiveCodomain(env, s, ctx, w) ==
  \/ ~Occurs(env, s, ctx, w)
  \/ Op(w) = "pi" /\ PositiveAt(env, s, <<Kid(w, 1)>> \o ctx, Weak(env, Kid(w, 2)))
  \/ Op(w) # "pi" /\ WhichValidIndApp(env, s, ctx, w) # 0

PositiveAt(env, s, ctx, w) ==
  \/ ~Occurs(env, s, ctx, w)
  \/ /\ Op(w) = "pi"
     /\ ~Occurs(env, s, ctx, Kid(w, 1))
     /\ PositiveAt(env, s, <<Kid(w, 1)>> \o ctx, Weak(env, Kid(w, 2)))
  \/ Op(w) # "pi" /\ WhichValidIndApp(env, s, ctx, w) # 0

Positive(env, s, ctx, e) == PositiveAt(env, s, ctx, Weak(env, e))

\* Fields of a type in Prop may be of any universe.
FitsIn(level, codom) == level # -1 /\ (codom = 0 \/ level <= codom)

\* check_ctor, of a constructor of type i, whose binders stand as o.
CtorOk(env, s, i, o) ==
  /\ Len(o.doms) >= NumParams(s)
  /\ SameParams(env, s, o.doms)
  /\ \A k \in NumParams(s) + 1 .. Len(o.doms) :
       /\ FitsIn(Level(env, CtxAt(o.doms, k), o.doms[k]), s.codom)
       /\ Positive(env, s, CtxAt(o.doms, k), o.doms[k])
  /\ WhichValidIndApp(env, s, CtxOf(o.doms), o.rest) = i

CheckCtor(env, s, i, ctor) == CtorOk(env, s, i, Standing(env, ctor.ty))

-----------------------------------------------------------------------------
(* Where a recursor may eliminate into.                                    *)

\* The fields that are no proofs are all among the arguments of the result.
GivenIn(env, s, doms, given) ==
  \A k \in NumParams(s) + 1 .. Len(doms) :
    Level(env, CtxAt(doms, k), doms[k]) # 0 => Var(Len(doms) - k) \in given

FieldsGiven(env, s, o) == GivenIn(env, s, o.doms, Range(ArgsOf(Quoted(env, o.rest))))

\* large_elim_test
LargeElimTest(env, s) ==
  \/ s.codom # 0
  \/ /\ Len(s.types) = 1
     /\ \/ s.types[1].ctors = <<>>
        \/ Len(s.types[1].ctors) = 1 /\ FieldsGiven(env, s, Standing(env, s.types[1].ctors[1].ty))

\* init_k_target
IsKTarget(s) ==
  /\ s.codom = 0 /\ Len(s.types) = 1
  /\ Len(s.types[1].ctors) = 1 /\ PiSize(s.types[1].ctors[1].ty) = NumParams(s)

-----------------------------------------------------------------------------
(* Recursors.  Under their parameters come a motive per type, a minor      *)
(* premise per constructor, the indices and the major premise.             *)

NumMotives(s) == Len(s.types)
MinorBase(s)  == NumParams(s) + NumMotives(s)
CtorList(s)   == FlattenSeq([i \in DOMAIN s.types |-> s.types[i].ctors])

\* mk_majors: under parameters and n indices.
Major(s, i, n) == Apps(Const(s.types[i].name), ParamVars(NumParams(s), n) \o VarsAt(0, n))

\* mk_motive_dep
Motive(s, i, elim) == PisDep(s.indices[i], 0, Pi(Major(s, i, Len(s.indices[i])), Sort(elim)))

\* is_rec_argument_v and handle_rec_args_aux: a field's binders, the type of
\* the block it ends in, and the indices of that.
RecArgIn(env, s, ctx, o) ==
  [xs |-> QuotedAll(env, o.doms),
   to |-> WhichValidIndApp(env, s, CtxOf(o.doms) \o ctx, o.rest),
   indices |-> QuotedAll(env, From(ArgsOf(Weak(env, o.rest)), NumParams(s) + 1))]

RecArg(env, s, doms, k) == RecArgIn(env, s, CtxAt(doms, k), Forced(env, doms[k], Many))

\* sep_nonrec_rec_ctor_args: a constructor's fields, which are recursive, what
\* type it makes and its indices; under the parameters alone.
ArgsIn(env, s, o, recs) ==
  [fields |-> QuotedAll(env, From(o.doms, NumParams(s) + 1)), recs |-> recs,
   at      |-> SelectSeq([k \in DOMAIN recs |-> k], LAMBDA k : recs[k].to # 0),
   to      |-> WhichValidIndApp(env, s, CtxOf(o.doms), o.rest),
   indices |-> From(ArgsOf(Quoted(env, o.rest)), NumParams(s) + 1)]

ArgsStanding(env, s, o) ==
  ArgsIn(env, s, o, [k \in 1 .. Len(o.doms) - NumParams(s) |-> RecArg(env, s, o.doms, NumParams(s) + k)] \o <<>>)

CtorArgs(env, s, ctor) == ArgsStanding(env, s, Standing(env, ctor.ty))

\* A term under the parameters, the fields before place k and j binders of the
\* field's own comes to stand where gap more binders follow the parameters and
\* over binders lie between the fields before k and the field's own.
Placed(t, k, j, gap, over) == Lift(Lift(t, k - 1 + j, gap), j, over)

PlacedAll(ts, k, gap, over) == [j \in DOMAIN ts |-> Placed(ts[j], k, j - 1, gap, over)]

\* head, which stands under the len binders of field k, on the indices and the field.
OnField(r, k, head, gap, over, len) ==
  App(Apps(head, [x \in DOMAIN r.indices |-> Placed(r.indices[x], k, len, gap, over)]),
      Apps(Var(over - 1 + len), VarsAt(0, len)))

\* handle_rec_args_minor: the type of the hypothesis after i others, for field
\* k of n.
HypothesisUnder(s, r, k, over, total) ==
  PisDep(PlacedAll(r.xs, k, NumMotives(s), over), 0,
         OnField(r, k, Var(total - NumParams(s) - r.to), NumMotives(s), over, Len(r.xs)))

HypothesisType(s, r, k, n, i) ==
  HypothesisUnder(s, r, k, n - k + 1 + i, MinorBase(s) + n + i + Len(r.xs))

\* mk_minors1group, for one constructor with n fields, v of them recursive.
MinorResult(s, ctor, args, n, v, total) ==
  App(Apps(Var(total - NumParams(s) - args.to),
           [x \in DOMAIN args.indices |-> Placed(args.indices[x], n + 1, 0, NumMotives(s), v)]),
      Apps(Const(ctor.name), ParamVars(NumParams(s), total - NumParams(s)) \o VarsAt(v, n)))

MinorOf(s, ctor, args, n, v) ==
  PisDep(args.fields, NumMotives(s),
    PisDep([i \in 1 .. v |-> HypothesisType(s, args.recs[args.at[i]], args.at[i], n, i - 1)], 0,
      MinorResult(s, ctor, args, n, v, MinorBase(s) + n + v)))

Minor(s, ctor, args) == MinorOf(s, ctor, args, Len(args.fields), Len(args.at))

\* The recursor of type i on all that comes before the indices, which end
\* deep binders away.
RecApp(s, i, premises, deep) ==
  Apps(Const(RecName(s.types[i].name)), VarsAt(deep, MinorBase(s) + premises))

\* handle_rec_ctor_args_rec_rule
HypothesisOver(s, r, k, over, gap, head) ==
  LambdasDep(PlacedAll(r.xs, k, gap, over), 0, OnField(r, k, head, gap, over, Len(r.xs)))

Hypothesis(s, r, k, n, premises) ==
  HypothesisOver(s, r, k, n - k + 1, NumMotives(s) + premises, RecApp(s, r.to, premises, n + Len(r.xs)))

\* Under the parameters, motives and minor premises of made, and n fields.
RuleLambdas(s, made, args, body) ==
  LambdasDep(s.params, 0, LambdasFlat(made.motives, LambdasFlat(made.minors,
    LambdasDep(args.fields, NumMotives(s) + Len(made.minors), body))))

\* mk_rec_rule1, for the constructor with minor premise m.
RuleBody(s, args, n, premises, m) ==
  Apps(Apps(Var(n + premises - m), VarsAt(0, n)),
       [i \in DOMAIN args.at |-> Hypothesis(s, args.recs[args.at[i]], args.at[i], n, premises)])

RuleValue(s, made, args, m) ==
  RuleLambdas(s, made, args, RuleBody(s, args, Len(args.fields), Len(made.minors), m))

\* mk_rec_rule_lhs: what the rule computes.
LhsBody(s, ctor, args, n, premises, gap) ==
  App(Apps(RecApp(s, args.to, premises, n),
           [x \in DOMAIN args.indices |-> Placed(args.indices[x], n + 1, 0, gap, 0)]),
      Apps(Const(ctor.name), ParamVars(NumParams(s), gap + n) \o VarsAt(0, n)))

RuleLhs(s, made, ctor, args) ==
  RuleLambdas(s, made, args,
    LhsBody(s, ctor, args, Len(args.fields), Len(made.minors), NumMotives(s) + Len(made.minors)))

\* mk_recursor_aux: the type, under ni indices, with gap binders between.
RecursorTypeIn(s, i, made, ni, gap) ==
  PisDep(s.params, 0, PisFlat(made.motives, PisFlat(made.minors,
    PisDep(s.indices[i], gap,
      Pi(Lift(Major(s, i, ni), ni, gap), App(Apps(Var(ni + 1 + gap - i), VarsAt(1, ni)), Var(0)))))))

RecursorType(s, i, made) ==
  RecursorTypeIn(s, i, made, Len(s.indices[i]), NumMotives(s) + Len(made.minors))

\* The minor premises before those of type i.
PremisesBefore(s, i) == Len(FlattenSeq([x \in 1 .. i - 1 |-> s.types[x].ctors]))

RuleOf(s, made, i, ctor, args, m) ==
  [ctor |-> ctor.name, size |-> PiSize(ctor.ty) - NumParams(s),
   val |-> RuleValue(s, made, args, m), lhs |-> RuleLhs(s, made, ctor, args), right |-> args.to = i]

RulesOf(s, made, i, before) ==
  [k \in DOMAIN s.types[i].ctors |->
     RuleOf(s, made, i, s.types[i].ctors[k], made.args[before + k], before + k)] \o <<>>

Recursor(s, made, i) ==
  [name |-> RecName(s.types[i].name), ind |-> s.types[i].name, ty |-> RecursorType(s, i, made),
   params |-> NumParams(s), motives |-> NumMotives(s), minors |-> Len(made.minors),
   indices |-> Len(s.indices[i]), k |-> IsKTarget(s), rules |-> RulesOf(s, made, i, PremisesBefore(s, i))]

\* What mk_elim_level, mk_motives, mk_minors and mk_recursors make.
RecursorsMade(s, made) == [i \in DOMAIN s.types |-> Recursor(s, made, i)] \o <<>>

RecursorsOn(s, elim, ctors, args) ==
  RecursorsMade(s, [args |-> args,
                    motives |-> [i \in DOMAIN s.types |-> Motive(s, i, elim)] \o <<>>,
                    minors |-> [m \in DOMAIN ctors |-> Minor(s, ctors[m], args[m])] \o <<>>])

ArgsOfAll(env, s, ctors) == [m \in DOMAIN ctors |-> CtorArgs(env, s, ctors[m])] \o <<>>

Recursors(env, s) ==
  RecursorsOn(s, IF LargeElimTest(env, s) THEN ElimLevel ELSE 0, CtorList(s), ArgsOfAll(env, s, CtorList(s)))

\* A recursor as a declaration.
RuleFor(rules, c) == rules[CHOOSE x \in DOMAIN rules : rules[x].ctor = c]

RecDecl(r) ==
  [kind |-> "rec", ty |-> r.ty, ind |-> r.ind, params |-> r.params, motives |-> r.motives,
   minors |-> r.minors, indices |-> r.indices, k |-> r.k,
   rules |-> [c \in {r.rules[x].ctor : x \in DOMAIN r.rules} |->
                [val |-> RuleFor(r.rules, c).val, size |-> RuleFor(r.rules, c).size]]]

RecsExt(recs) == [n \in NamesOf(recs) |-> RecDecl(Find(recs, n))]

\* check_generated_recursors: the two sides of each rule have one type.
SidesAgree(env, lhs, rhs) ==
  IF IllTyped \in {lhs, rhs} THEN FALSE ELSE Equal(env, lhs, rhs)

RuleOk(env, rule) == rule.right /\ SidesAgree(env, Typed(env, <<>>, rule.lhs), Typed(env, <<>>, rule.val))

CheckGenerated(env, recs) ==
  \A i \in DOMAIN recs :
    IsType(env, recs[i].ty) /\ \A x \in DOMAIN recs[i].rules : RuleOk(env, recs[i].rules[x])

-----------------------------------------------------------------------------
(* A nested block's recursors, in terms of the types it was declared with. *)

NumBase(b) == Len(b.types)

\* mk_specialized_rec_to_unspecialized_map: the name that the recursor of type
\* i is given.
RestoredRecName(s, b, i) ==
  IF i <= NumBase(b) THEN RecName(s.types[i].name)
  ELSE IndexAfter(RecName(s.types[1].name), i - NumBase(b))

\* What the auxiliary type i stands for: an application of the container.
Unspecialized(s, b, i) == s.nested[i - NumBase(b)].of
Container(s, b, i)     == Label(HeadOf(Unspecialized(s, b, i)))

\* The auxiliary types that a name is the recursor, the name or a constructor of.
Aux(s, b)          == NumBase(b) + 1 .. Len(s.types)
AsAuxRec(s, b, n)  == {i \in Aux(s, b) : n = RecName(s.types[i].name)}
AsAuxType(s, b, n) == {i \in Aux(s, b) : n = s.types[i].name}
AsAuxCtor(env, s, b, n) ==
  {i \in Aux(s, b) : n \in DOMAIN env /\ env[n].kind = "ctor" /\ env[n].ind = s.types[i].name}

\* The parameters are not shifted past the binders in between.
StandsUnshifted(s, b, i, depth) == Unspecialized(s, b, i)

\* What stands for auxiliary type i, under depth binders after the parameters
\* (inst_params_at).
StandsAt(s, b, i, depth) == Lift(Unspecialized(s, b, i), 0, depth)

RestoreCtorName(s, b, i, n) == ReplacePfx(n, s.types[i].name, Container(s, b, i))

\* replace_f, of type or constructor c on the parameters and rest: types, ctors
\* are the auxiliary types that it is, or is a constructor of.
ReplaceF(s, b, c, rest, depth, types, ctors) ==
  IF types # {} THEN Apps(StandsAt(s, b, FirstIn(types), depth), rest)
  ELSE Apps(Const(RestoreCtorName(s, b, FirstIn(ctors), c)),
            ArgsOf(StandsAt(s, b, FirstIn(ctors), depth)) \o rest)

\* restore_replace
RECURSIVE RestoreReplace(_, _, _, _, _)
RestoreKids(env, s, b, e, depth) ==
  <<e[1], e[2], [k \in DOMAIN e[3] |-> RestoreReplace(env, s, b, Kid(e, k), depth + Binders(e, k))] \o <<>>>>

RestoreApp(env, s, b, e, c, depth, types, ctors) ==
  IF types \cup ctors = {} THEN RestoreKids(env, s, b, e, depth)
  ELSE ReplaceF(s, b, c, From(ArgsOf(e), NumParams(s) + 1), depth, types, ctors)

RestoreConst(s, b, e, recs) == IF recs = {} THEN e ELSE Const(RestoredRecName(s, b, FirstIn(recs)))

RestoreReplace(env, s, b, e, depth) ==
  IF Op(e) = "const" /\ AsAuxRec(s, b, Label(e)) # {} THEN RestoreConst(s, b, e, AsAuxRec(s, b, Label(e)))
  ELSE IF Op(HeadOf(e)) = "const"
  THEN RestoreApp(env, s, b, e, Label(HeadOf(e)), depth,
                  AsAuxType(s, b, Label(HeadOf(e))), AsAuxCtor(env, s, b, Label(HeadOf(e))))
  ELSE RestoreKids(env, s, b, e, depth)

\* restore_e: the binders of the parameters stay as they are.
RECURSIVE RestoreE(_, _, _, _, _)
RestoreE(env, s, b, e, n) ==
  IF n = 0 THEN RestoreReplace(env, s, b, Quoted(env, e), 0)
  ELSE <<e[1], e[2], <<Quoted(env, Kid(e, 1)), RestoreE(env, s, b, Kid(e, 2), n - 1)>>>>

Restored(env, s, b, e) == Ask(<<"restored", env, e, s, b>>)

\* restore_recursor1
RestoreRule(env, s, b, i, rule) ==
  [rule EXCEPT !.ctor = IF i <= NumBase(b) THEN @ ELSE RestoreCtorName(s, b, i, @),
               !.val = Restored(env, s, b, @)]

RestoreRecursor(env, s, b, rec, i) ==
  [rec EXCEPT
     !.name = RestoredRecName(s, b, i), !.ty = Restored(env, s, b, @),
     !.ind = IF i <= NumBase(b) THEN @ ELSE Container(s, b, i),
     !.rules = [x \in DOMAIN @ |-> RestoreRule(env, s, b, i, @[x])] \o <<>>]

\* restore_recursors, of a nested block.
RestoreRecursors(env, s, b, recs) ==
  IF s.nested = <<>> THEN recs
  ELSE [i \in DOMAIN recs |-> RestoreRecursor(env, s, b, recs[i], i)] \o <<>>

\* What the block is entered as: mk_declars.
Recursive(recs) ==
  \E i \in DOMAIN recs : \E x \in DOMAIN recs[i].rules : Mentions(recs[i].rules[x].val, NamesOf(recs))

IndDecl(s, b, i, recursive) ==
  [kind |-> "ind", ty |-> b.types[i].ty, params |-> NumParams(s), indices |-> Len(s.indices[i]),
   recursive |-> recursive,
   ctors |-> [k \in DOMAIN b.types[i].ctors |-> b.types[i].ctors[k].name],
   all |-> [k \in DOMAIN b.types |-> b.types[k].name]]

CtorDecl(env, s, b, i, c) ==
  [kind |-> "ctor", ty |-> c.ty, ind |-> b.types[i].name, params |-> NumParams(s), fields |-> env[c.name].fields]

Named(n, d) == [name |-> n, decl |-> d]

DeclsOf(env, s, b, i, recursive) ==
  <<Named(b.types[i].name, IndDecl(s, b, i, recursive))>>
    \o [k \in DOMAIN b.types[i].ctors |->
          Named(b.types[i].ctors[k].name, CtorDecl(env, s, b, i, b.types[i].ctors[k]))]

MkDeclars(env, s, b, recs) ==
  FlattenSeq([i \in DOMAIN b.types |-> DeclsOf(env, s, b, i, Recursive(recs))])

Derived(env, s, b, recs, kept) ==
  MkDeclars(env, s, b, recs) \o [i \in DOMAIN kept |-> Named(kept[i].name, RecDecl(kept[i]))]

\* The recursors are made, and checked in an environment that has them: what
\* is derived, or nothing.
FinishedIn(env, s, b, recs) ==
  IF CheckGenerated(env, recs) THEN Derived(env, s, b, recs, RestoreRecursors(env, s, b, recs)) ELSE <<>>

FinishedWith(env, s, b, recs) == FinishedIn(RecsExt(recs) @@ env, s, b, recs)

FinishedFrom(env, s, b) == FinishedWith(env, s, b, Recursors(env, s))

Finished(s, b) == FinishedFrom(CtorsExt(s) @@ base, s, b)

-----------------------------------------------------------------------------
(* check_inductive_declar, one action for each pass over the block.        *)

Started(b, params) ==
  [types |-> b.types, params |-> params, nested |-> <<>>, next |-> 1,
   indices |-> <<>>, codom |-> 0, ok |-> TRUE, at |-> 1,
   known |-> DOMAIN base \cup NamesOf(b.types)]

Ctors(b) == FlattenSeq([i \in DOMAIN b.types |-> b.types[i].ctors])

Init ==
  /\ base \in Bases
  /\ block \in Blocks
  /\ stage = "headers"
  /\ st = Started(block, <<>>)
  /\ derived = <<>>

Goto(ok, to) == stage' = IF ok THEN to ELSE "rejected"

CheckHeaders ==
  /\ stage = "headers"
  /\ Goto(\A i \in DOMAIN block.types : IsType(base, block.types[i].ty), "uniform")
  /\ UNCHANGED <<base, block, st, derived>>

CheckUniform ==
  /\ stage = "uniform"
  /\ Goto(\A m \in DOMAIN Ctors(block) :
            Uniform(Ctors(block)[m].ty, NamesOf(block.types), block.params, 0), "ctor_types")
  /\ UNCHANGED <<base, block, st, derived>>

CheckCtorTypes ==
  /\ stage = "ctor_types"
  /\ Goto(\A m \in DOMAIN Ctors(block) : IsType(Unspecified(block.types), Ctors(block)[m].ty),
          "params")
  /\ UNCHANGED <<base, block, st, derived>>

\* specialize_nested, up to the loop: get_local_params of the first type.
LocalParams ==
  /\ stage = "params"
  /\ LET doms == Forced(base, block.types[1].ty, block.params).doms
     IN /\ st' = Started(block, QuotedAll(base, doms))
        /\ Goto(Len(doms) = block.params, "specialize")
  /\ UNCHANGED <<base, block, derived>>

\* A pass over the types, one at a time; those that a step adds come last.
Pass(at, to, next) ==
  /\ stage = at
  /\ st' = [next EXCEPT !.at = IF st.at = Len(next.types) THEN 1 ELSE @ + 1]
  /\ Goto(next.ok, IF st.at = Len(next.types) THEN to ELSE at)
  /\ UNCHANGED <<base, block, derived>>

SpecializeNested == Pass("specialize", "loose", Ask(<<"specialized", base, st, st.at>>))

Closed(t) == Free(t.ty) = {} /\ \A k \in DOMAIN t.ctors : Free(t.ctors[k].ty) = {}
CheckLoose == Pass("loose", "specs", [st EXCEPT !.ok = Closed(st.types[st.at])])

CheckSpecs == Pass("specs", "ctors", Ask(<<"spec", Unspecified(st.types), st, st.at>>))

CheckCtors ==
  Pass("ctors", "recursors",
       [st EXCEPT !.ok = \A k \in DOMAIN st.types[st.at].ctors :
                           Ask(<<"ctor", TypesExt(st) @@ base, st, st.at, st.types[st.at].ctors[k]>>)])

Finish ==
  /\ stage = "recursors"
  /\ derived' = Ask(<<"finished", base, st, block>>)
  /\ Goto(derived' # <<>>, "accepted")
  /\ UNCHANGED <<base, block, st>>

Done == stage \in {"accepted", "rejected"} /\ UNCHANGED vars

Next ==
  \/ CheckHeaders \/ CheckUniform \/ CheckCtorTypes \/ LocalParams
  \/ SpecializeNested \/ CheckLoose \/ CheckSpecs \/ CheckCtors \/ Finish \/ Done

Spec == Init /\ [][Next]_vars

-----------------------------------------------------------------------------
(* What a block may be, without auxiliary types: containers are looked     *)
(* into where they stand.  env has the block's types.                      *)

Names    == NamesOf(block.types)
Declared == Unspecified(block.types)

Universe(env, ty) == Label(Weak(env, Opened(env, ty, Many).rest))
OwnUniverse(env)  == Universe(env, block.types[1].ty)

\* h on args, under depth binders besides the parameters, is a type of the
\* block on the parameters, and no index of it mentions the block.
IsBlockType(h, args, depth) ==
  /\ IsOneOf(h, Names)
  /\ Len(args) >= block.params
  /\ SubSeq(args, 1, block.params) = ParamVars(block.params, depth)
  /\ \A k \in block.params + 1 .. Len(args) : ~Mentions(args[k], Names)

StrictlyPositive(env, e, depth, seen) == Ask(<<"strictly", env, e, depth, seen>>)

\* All fields of a constructor's type are strictly positive.
FieldsPositive(env, doms, depth, seen) ==
  \A k \in DOMAIN doms : StrictlyPositive(env, doms[k], depth + k - 1, seen)

\* The types of a container's block, on ps, are of the universe of the block
\* checked, and their fields strictly positive.
BodyPositive(env, all, ps, depth, seen) ==
  \A J \in all :
    /\ Universe(env, InstForallParams(base[J].ty, ps)) = OwnUniverse(env)
    /\ \A k \in DOMAIN base[J].ctors :
         FieldsPositive(env, Opened(env, InstForallParams(base[base[J].ctors[k]].ty, ps), Many).doms, depth, seen)

\* A container on parameters that mention the block, none of which depends on
\* the binders passed; seen are those looked into.
Outer(c, ps, depth) == Apps(Const(c), [k \in DOMAIN ps |-> Lower(ps[k], depth)])

ContainerPositive(env, c, ps, indices, depth, seen) ==
  /\ Len(ps) = base[c].params
  /\ \A k \in DOMAIN ps : Free(ps[k]) \cap 0 .. depth - 1 = {}
  /\ \A k \in DOMAIN indices : ~Mentions(indices[k], Names)
  /\ \/ Outer(c, ps, depth) \in seen
     \/ BodyPositive(env, Range(base[c].all), ps, depth, seen \cup {Outer(J, ps, depth) : J \in Range(base[c].all)})

PositiveOn(env, h, args, depth, seen) ==
  \/ IsBlockType(h, args, depth)
  \/ /\ Op(h) = "const" /\ Label(h) \in DOMAIN base /\ base[Label(h)].kind = "ind"
     /\ ContainerPositive(env, Label(h), SubSeq(args, 1, base[Label(h)].params),
                          From(args, base[Label(h)].params + 1), depth, seen)

PositiveNormal(env, n, depth, seen) ==
  \/ ~Mentions(n, Names)
  \/ IF Op(n) = "pi" THEN ~Mentions(Kid(n, 1), Names) /\ StrictlyPositive(env, Kid(n, 2), depth + 1, seen)
     ELSE PositiveOn(env, HeadOf(n), ArgsOf(n), depth, seen)

\* A constructor, its binders opened as o, makes type i of the parameters, from
\* fields that are strictly positive and no larger than the type.
Makes(i, result, fields) ==
  HeadOf(result) = Const(block.types[i].name) /\ IsBlockType(HeadOf(result), ArgsOf(result), fields)

CtorFormed(env, i, o, params, universe) ==
  /\ Len(o.doms) >= block.params
  /\ \A k \in 1 .. block.params : Equal(env, o.doms[k], params[k])
  /\ \A k \in block.params + 1 .. Len(o.doms) :
       /\ FitsIn(Level(env, CtxAt(o.doms, k), o.doms[k]), universe)
       /\ StrictlyPositive(env, o.doms[k], k - 1 - block.params, {})
  /\ Makes(i, Normal(env, o.rest), Len(o.doms) - block.params)

CtorsFormed(env, i, params, universe) ==
  \A k \in DOMAIN block.types[i].ctors :
    /\ IsType(env, block.types[i].ctors[k].ty)
    /\ CtorFormed(env, i, Opened(env, block.types[i].ctors[k].ty, Many), params, universe)

TypeFormed(env, ty, o) ==
  /\ IsType(base, ty)
  /\ Len(o.doms) >= block.params /\ Op(Weak(env, o.rest)) = "sort"
  /\ Universe(env, ty) = OwnUniverse(env)

Formed(env) ==
  /\ \A i \in DOMAIN block.types : TypeFormed(env, block.types[i].ty, Opened(env, block.types[i].ty, Many))
  /\ \A i \in DOMAIN block.types :
       CtorsFormed(env, i, Opened(env, block.types[1].ty, block.params).doms, OwnUniverse(env))

WellFormed == Ask(<<"formed", Declared, block>>)

\* Written so that nothing has to be unfolded to see it.
Plain == \A m \in DOMAIN Ctors(block) : Normal(Declared, Ctors(block)[m].ty) = Ctors(block)[m].ty

-----------------------------------------------------------------------------
(* Properties.                                                             *)

DerivedNames == {derived[k].name : k \in DOMAIN derived}
Entered  == [n \in DerivedNames |-> Find(derived, n).decl] @@ base
RecNames == {n \in DerivedNames : Find(derived, n).decl.kind = "rec"}

\* The binders of recursor r, what it takes apart, and the sort its motives end in.
RecDoms(env, r)    == Opened(env, r.ty, Many).doms
MajorOf(env, r)    == RecDoms(env, r)[r.params + r.motives + r.minors + r.indices + 1]
ElimSort(env, r)   == Universe(env, RecDoms(env, r)[r.params + 1])

\* From arg, v can be told.
RECURSIVE Determines(_, _, _)
Determines(env, arg, v) ==
  \/ arg = v
  \/ /\ Op(HeadOf(arg)) = "const" /\ env[Label(HeadOf(arg))].kind = "ctor"
     /\ \E k \in DOMAIN ArgsOf(arg) : Determines(env, ArgsOf(arg)[k], v)

\* Proofs of one proposition of the block do not differ in data: no field is
\* data, but what can be told from the proposition.
Told(env, doms, args) ==
  \A k \in block.params + 1 .. Len(doms) :
    \/ Level(env, CtxAt(doms, k), doms[k]) = 0
    \/ \E x \in DOMAIN args : Determines(env, args[x], Var(Len(doms) - k))

ToldBy(env, o) == Told(env, o.doms, ArgsOf(Normal(env, o.rest)))

NoDataHidden(env) ==
  /\ Len(block.types) = 1 /\ Len(Ctors(block)) <= 1
  /\ \A m \in DOMAIN Ctors(block) : ToldBy(env, Opened(env, Ctors(block)[m].ty, Many))

\* Recursor r of a proposition: K is for what is made of nothing.
Harmless(env, r) ==
  /\ ElimSort(env, r) # 0 => NoDataHidden(env)
  /\ r.k => NoDataHidden(env) /\ \A c \in DOMAIN r.rules : r.rules[c].size = 0

ProofsHarmless(env) == OwnUniverse(env) = 0 => \A n \in RecNames : Harmless(env, env[n])

\* What keeps the logic consistent.  A block that is accepted has strictly
\* positive fields within its universe, of which all nested ones are so in
\* their containers; a recursor takes proofs apart into data only where no two
\* proofs of a proposition differ in data, and does without one only where it
\* is made of nothing; and what is refused is not of that kind, at least not on
\* the face of it (inductive/positivity.rs, nested.rs, spec.rs).
BlocksConsistent ==
  /\ stage = "accepted" => WellFormed /\ Ask(<<"harmless", Entered, derived>>)
  /\ stage = "rejected" => ~(Plain /\ WellFormed)

\* Where recursor r meets constructor c, with fields and all before it as
\* variables: the context, and the two sides of the rule.
MajorParams(env, r, major) ==
  SubSeq([k \in DOMAIN ArgsOf(major) |-> Lower(ArgsOf(major)[k], r.indices)], 1, env[r.ind].params)

MeetingAt(env, n, r, c, ps, before, o, f, all) ==
  [ctx |-> CtxOf(SubSeq(RecDoms(env, r), 1, before) \o o.doms), doms |-> o.doms, before |-> before,
   lhs |-> App(Apps(Const(n), all \o From(ArgsOf(Normal(env, o.rest)), env[r.ind].params + 1)),
               Apps(Const(c), [k \in DOMAIN ps |-> Lift(ps[k], 0, f)] \o VarsAt(0, f))),
   rhs |-> Apps(r.rules[c].val, all \o VarsAt(0, f))]

MeetingOn(env, n, r, c, ps, before, o) ==
  MeetingAt(env, n, r, c, ps, before, o, Len(o.doms), VarsAt(Len(o.doms), before))

MeetingFor(env, n, r, c, ps) ==
  MeetingOn(env, n, r, c, ps, r.params + r.motives + r.minors,
            Opened(env, InstForallParams(env[c].ty, ps), env[c].fields))

Meeting(env, n, r, c) == MeetingFor(env, n, r, c, MajorParams(env, r, MajorOf(env, r)))

\* A field ends in what one of the block's recursors takes apart.
Takes(env, rq, end, over) ==
  /\ HeadOf(end) = HeadOf(MajorOf(env, rq))
  /\ \A x \in DOMAIN MajorParams(env, rq, MajorOf(env, rq)) :
       ArgsOf(end)[x] = Normal(env, Lift(MajorParams(env, rq, MajorOf(env, rq))[x], 0, over))

EndTaken(env, o, k) ==
  \E q \in RecNames : Takes(env, env[q], Normal(env, o.rest), k - 1 + Len(o.doms))

Hypotheses(env, doms) ==
  Cardinality({k \in DOMAIN doms : EndTaken(env, Opened(env, doms[k], Many), k)})

\* The minor premise, a variable, on the fields and the hypotheses.
MinorOn(env, doms, body) ==
  Op(HeadOf(body)) = "var" /\ Len(ArgsOf(body)) = Len(doms) + Hypotheses(env, doms)

\* Recursor n on constructor c: both sides are of one type, and the minor
\* premise has a hypothesis for each field that ends in the block.
RuleRight(env, m) ==
  /\ SidesAgree(env, Typed(env, m.ctx, m.lhs), Typed(env, m.ctx, m.rhs))
  /\ MinorOn(env, m.doms, Normal(env, m.rhs))

RecursorRight(env, n, r) ==
  /\ IsType(env, r.ty)
  /\ HeadOf(MajorOf(env, r)) = Const(r.ind)
  /\ DOMAIN r.rules = Range(env[r.ind].ctors)
  /\ \A c \in DOMAIN r.rules : /\ Consts(r.rules[c].val) \subseteq DOMAIN env
                               /\ r.rules[c].size = env[c].fields
                               /\ RuleRight(env, Meeting(env, n, r, c))

\* The recursors of an accepted block, which after they are restored nothing
\* checks again, are well typed in the environment they enter, mention no
\* auxiliary type, have a rule for each constructor of what they take apart,
\* each of which keeps its type and gives the minor premise a hypothesis for
\* each recursive field; and no name is taken twice (inductive/restore.rs).
RecursorsRight ==
  stage = "accepted" =>
    /\ Cardinality(DerivedNames) = Len(derived)
    /\ DerivedNames \cap DOMAIN base = {}
    /\ Ask(<<"right", Entered, derived>>)

-----------------------------------------------------------------------------

Ask(q) ==
  CASE q[1] = "weak"        -> Whn(q[2], q[3])
    [] q[1] = "normal"      -> Norm(q[2], q[3])
    [] q[1] = "quoted"      -> Norm(Opaque(q[2]), q[3])
    [] q[1] = "typed"       -> TypeOf(q[2], q[4], q[3])
    [] q[1] = "level"       -> LevelIn(q[2], q[4], q[3])
    [] q[1] = "opened"      -> OpenedAt(q[2], q[3], q[4], Weak(q[2], q[3]))
    [] q[1] = "valid"       -> ValidAt(q[2], q[5], q[4], Weak(q[2], q[3]))
    [] q[1] = "specialized" -> SpecializeType(q[3], q[4])
    [] q[1] = "spec"        -> Spec1(q[2], q[3], q[4])
    [] q[1] = "ctor"        -> CheckCtor(q[2], q[3], q[4], q[5])
    [] q[1] = "restored"    -> RestoreE(q[2], q[4], q[5], q[3], NumParams(q[4]))
    [] q[1] = "finished"    -> Finished(q[3], q[4])
    [] q[1] = "strictly"    -> PositiveNormal(q[2], Normal(q[2], q[3]), q[4], q[5])
    [] q[1] = "formed"      -> Formed(q[2])
    [] q[1] = "harmless"    -> ProofsHarmless(q[2])
    [] q[1] = "right"       -> \A n \in RecNames : RecursorRight(q[2], n, q[2][n])
=============================================================================
