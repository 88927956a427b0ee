-------------------------------- MODULE Eval --------------------------------
(***************************************************************************)
(* The evaluator and the type inference (checker/eval.rs,                  *)
(* checker/eval/reduction.rs, checker/quote.rs, checker/infer.rs).  Terms  *)
(* are evaluated in environments to values: a neutral value is a head with *)
(* a spine of arguments and projections, a binder a closure.  Definitions, *)
(* recursors and quotients stay folded until a value is forced.            *)
(*                                                                         *)
(* Values are trees here, and hash-consed in the code, whose memo tables   *)
(* hold results of these functions (Sessions models those); a rejection is *)
(* the value Bad.  conv_types_at is modelled by what it decides; how it    *)
(* does is ConvProbe's.  Strings, and all native arithmetic but addition and    *)
(* subtraction, are left out: the rest of do_nat_red has the same shape.   *)
(***************************************************************************)
EXTENDS Terms

Seqs == INSTANCE SequencesExt

CONSTANTS
  Environments, \* the declarations worked with, by name: one is chosen
  NatRed,      \* the definitions computed natively: name to "add" or "sub"
  DeferAbove,  \* 255: the largest literal of 8 bits
  Deep,        \* 64: the bound variables a long telescope starts with
  Jobs         \* the terms worked on: a context, the outermost type first, and a term

ASSUME EvalAssumption == \A D \in Environments : Declarations(D)

VARIABLES
  declars,  \* the declarations
  job,      \* the context and the term
  here,     \* the environment and the context that bind the job's variables
  meaning,  \* the normal form of the term; IllTyped when it has no type
  typing,   \* the normal form of its type
  warm,     \* definitions whose head has been unfolded before
  val,      \* the value, once evaluated
  forced,   \* what was last done to it: "no", "force" or "whnf"
  tys       \* the types inferred: under Check, and under InferOnly

vars == <<declars, job, here, meaning, typing, warm, val, forced, tys>>

None == <<"none">>
Bad  == <<"bad">>

SortV(l)      == <<"sort", l>>
LitV(n)       == <<"lit", n>>
Ne(h, s)      == <<"ne", h, s>>
Head1(h)      == Ne(h, <<>>)
BVar(l, ty)   == Head1(<<"bvar", l, ty>>)
LamV(t, r, b) == <<"lam", t, r, b>>
PiV(dom, clo) == <<"pi", dom, clo>>

\* Closures: of evaluation, or of the inference of a lambda's body.
EvalClo(r, b)     == <<"eval", r, b>>
InferClo(r, g, b) == <<"infer", r, g, b>>

AppE(a)     == <<"app", a>>
ProjE(T, i) == <<"proj", T, i>>

Kind(v)      == IF v[1] = "ne" THEN v[2][1] ELSE v[1]
HeadName(v)  == v[2][2]
Spine(v)     == v[3]
IsHead(v)    == v[1] = "ne" /\ Spine(v) = <<>>
IsNeutral(v) == v[1] = "ne"
SpineApps(v) == \A i \in DOMAIN Spine(v) : Spine(v)[i][1] = "app"
ArgsV(v)     == [i \in DOMAIN Spine(v) |-> Spine(v)[i][2]]
Snoc(v, e)   == Ne(v[2], Append(Spine(v), e))

IsConstV(v, c) == Kind(v) \notin {"bvar", "lam", "pi", "sort", "lit", "none", "bad"} /\ HeadName(v) = c
IsCtorV(v, c)  == Kind(v) = "ctor" /\ HeadName(v) = c
SuccOf(v)      == IsCtorV(v, NatSucc) /\ Len(Spine(v)) = 1 /\ SpineApps(v)

ConstKind(c) == IF declars[c].kind = "def" THEN "unfold" ELSE declars[c].kind
EvalConst(c) == Head1(<<ConstKind(c), c>>)

-----------------------------------------------------------------------------
(* Environments: the values of the variables, the innermost first.         *)

Extend(env, v) == <<v>> \o env

\* Only the values of e's variables are kept.
PruneEnv(env, e) ==
  LET free == Free(e) IN [i \in DOMAIN env |-> IF i - 1 \in free THEN env[i] ELSE None]

IgnoresBinder(body) == 0 \notin Free(body)

\* What the flag of a node says: a variable at the head, or in an argument
\* that is itself neutral.
RECURSIVE HasFreeBvar(_)
HasFreeBvar(v) ==
  /\ IsNeutral(v)
  /\ \/ Kind(v) = "bvar"
     \/ \E i \in DOMAIN Spine(v) : Spine(v)[i][1] = "app" /\ HasFreeBvar(Spine(v)[i][2])

\* No variable in it at all, and no closure of an inference.
RECURSIVE IsClosed(_)
IsClosed(v) ==
  CASE v[1] = "ne"  -> /\ Kind(v) # "bvar"
                       /\ \A i \in DOMAIN Spine(v) : Spine(v)[i][1] = "app" => IsClosed(Spine(v)[i][2])
    [] v[1] = "lam" -> \A i \in DOMAIN v[3] : IsClosed(v[3][i])
    [] v[1] = "pi"  -> /\ IsClosed(v[2]) /\ v[3][1] = "eval"
                       /\ \A i \in DOMAIN v[3][2] : IsClosed(v[3][2][i])
    [] OTHER -> TRUE

-----------------------------------------------------------------------------
(* Evaluation.                                                             *)

\* The operators below call each other in many ways.  The calls that close a
\* cycle go through Run, at the end, which says what each of these stands for.
RECURSIVE Run(_)
Eval(d, env, e)             == Run(<<"eval", d, env, e>>)
Apply(d, f, a)              == Run(<<"apply", d, f, a>>)
WhnfHead(d, v)              == Run(<<"whnf", d, v>>)
Force(d, v)                 == IF Kind(v) \in {"unfold", "rec", "quot"} THEN Run(<<"force", d, v>>) ELSE v
UnfoldGo(d, v, force, native) == Run(<<"unfold", d, v, force, native>>)
IotaValue(d, v)             == Run(<<"iota", d, v>>)
FireRecursor(d, c, as, v)   == Run(<<"fire", d, v, c, as>>)
ValueType(d, v)             == Run(<<"type", d, v>>)
Quote(d, v)                 == Run(<<"quote", d, v>>)
Infer(flag, d, env, ctx, e) == Run(<<"infer", d, env, e, flag, ctx>>)
ApplyMany(d, f, as)         == IF as = <<>> THEN f ELSE Run(<<"args", d, f, as>>)
DoProj(d, T, i, v)          == Run(<<"proj", d, v, T, i>>)
StripHead(d, v)             == IF Kind(v) = "unfold" THEN Run(<<"strip", d, v>>) ELSE v
ForceLoop(d, v, waiting)    == Run(<<"loop", d, v, waiting>>)
PassPis(d, ty, as)          == IF as = <<>> THEN ty ELSE Run(<<"pis", d, ty, as>>)
LevelOfType(d, ty)          == Run(<<"level", d, ty>>)
Normal(d, v)                == Run(<<"normal", d, v>>)

RECURSIVE EvalNested(_, _, _), ValueToNat(_, _, _), Replay(_, _, _), Pop(_, _, _), SpineType(_, _, _, _),
  QuoteSpine(_, _, _), ResultLevel(_, _), InferArgs(_, _, _, _, _, _, _), CtorFieldType(_, _, _, _, _)

MajorIdx(c) ==
  IF declars[c].kind = "quot" THEN IF c = QuotLift THEN 5 ELSE 4
  ELSE declars[c].params + declars[c].motives + declars[c].minors + declars[c].indices

FireQuot(d, c, as, mk) ==
  IF ~IsConstV(mk, QuotMk) THEN None
  ELSE IF Len(Spine(mk)) # 3 THEN None
  ELSE ApplyMany(d, as[4], <<ArgsV(mk)[3]>> \o From(as, MajorIdx(c) + 2))

\* A saturated recursor or quotient on a constructor or a literal, fired at once.
FireOn(d, kind, c, as, major) ==
  IF kind = "rec" /\ Kind(major) \in {"ctor", "lit"} THEN FireRecursor(d, c, as, major)
  ELSE IF kind = "quot" /\ Kind(major) = "quot" THEN FireQuot(d, c, as, major)
  ELSE None

FireSaturated(d, kind, c, as, at) ==
  IF kind \notin {"rec", "quot"} THEN None
  ELSE IF (kind = "quot" /\ c \notin {QuotLift, QuotInd}) \/ Len(as) < at THEN None
  ELSE FireOn(d, kind, c, as, as[at])

FiredOr(d, fired, f, as) == IF fired # None THEN fired ELSE ApplyMany(d, f, as)

SpineOn(d, f, as) ==
  IF IsHead(f) /\ Kind(f) \in {"rec", "quot"}
  THEN FiredOr(d, FireSaturated(d, Kind(f), HeadName(f), as, MajorIdx(HeadName(f)) + 1), f, as)
  ELSE ApplyMany(d, f, as)

EvalSpine(d, env, f, es) == SpineOn(d, f, [i \in DOMAIN es |-> Eval(d, env, es[i])])

\* Applications nested to the right, f (g (h x)), from the inside out.
EvalNested(d, env, e) ==
  IF Op(e) = "app" THEN Apply(d, Eval(d, env, Kid(e, 1)), EvalNested(d, env, Kid(e, 2)))
  ELSE Eval(d, env, e)

EvalIn(d, env, e) ==
  CASE Op(e) = "var"   -> env[Label(e) + 1]
    [] Op(e) = "sort"  -> SortV(Label(e))
    [] Op(e) = "lit"   -> LitV(Label(e))
    [] Op(e) = "const" -> EvalConst(Label(e))
    [] Op(e) = "app"   -> IF Op(Kid(e, 2)) = "app" THEN EvalNested(d, env, e)
                          ELSE EvalSpine(d, env, Eval(d, env, HeadOf(e)), ArgsOf(e))
    [] Op(e) = "lam"   -> LamV(Kid(e, 1), env, Kid(e, 2))
    [] Op(e) = "pi"    -> PiV(Eval(d, env, Kid(e, 1)), EvalClo(env, Kid(e, 2)))
    [] Op(e) = "let"   -> Eval(d, Extend(env, Eval(d, env, Kid(e, 2))), Kid(e, 3))
    [] Op(e) = "proj"  -> DoProj(d, Label(e)[1], Label(e)[2], Eval(d, env, Kid(e, 1)))

\* Nested lambdas are entered with as many arguments as there are.
RECURSIVE Enter(_, _, _, _)
Enter(d, env, body, as) ==
  IF as # <<>> /\ Op(body) = "lam" THEN Enter(d, Extend(env, Head(as)), Kid(body, 2), Tail(as))
  ELSE ApplyMany(d, Eval(d, env, body), as)

AppliedTo(d, f, as) ==
  IF Kind(f) = "lam" THEN Enter(d, Extend(f[3], Head(as)), f[4], Tail(as))
  ELSE ApplyMany(d, Apply(d, f, Head(as)), Tail(as))

\* The successor of a numeral is a literal.
NumeralOr(n, v) == IF n = None THEN v ELSE LitV(n[2] + 1)

TryFireRigid(d, v) == IF SuccOf(v) THEN NumeralOr(ValueToNat(d, Spine(v)[1][2], FALSE), v) ELSE v

ApplyNew(d, f, a) ==
  CASE Kind(f) = "lam" -> Eval(d, Extend(f[3], a), f[4])
    [] IsCtorV(f, NatSucc) -> TryFireRigid(d, Snoc(f, AppE(a)))
    [] IsNeutral(f) /\ ~IsCtorV(f, NatSucc) -> Snoc(f, AppE(a))
    [] OTHER -> Bad

ApplyClosure(d, clo, v, ty) ==
  IF clo[1] = "eval" THEN Eval(d, Extend(clo[2], v), clo[3])
  ELSE Infer("InferOnly", d, Extend(clo[2], v), Extend(clo[3], ty), clo[4])

NatLitToCtor(d, n) ==
  IF n = 0 THEN EvalConst(NatZero) ELSE Apply(d, EvalConst(NatSucc), LitV(n - 1))

FieldAt(w, T, i, at) ==
  IF Kind(w) = "ctor" /\ declars[HeadName(w)].ind = T /\ Len(Spine(w)) > at
  THEN Spine(w)[at + 1][2] ELSE Snoc(w, ProjE(T, i))

Projected(d, T, i, w) ==
  CASE Kind(w) = "lit" -> DoProj(d, T, i, NatLitToCtor(d, w[2]))
    [] IsNeutral(w)    -> FieldAt(w, T, i, IF Kind(w) = "ctor" THEN declars[HeadName(w)].params + i ELSE 0)
    [] OTHER -> Bad

-----------------------------------------------------------------------------
(* Native arithmetic.                                                      *)

NatV(n) == <<"nat", n>>

Sum2(m, n) == IF m = None \/ n = None THEN None ELSE NatV(m[2] + n[2])

\* The number a value is, at a glance or after forcing what has no variables.
NumberOf(d, v, f) == IF f = v THEN None ELSE ValueToNat(d, f, TRUE)

ValueToNat(d, v, deep) ==
  CASE Kind(v) = "lit" -> NatV(v[2])
    [] IsCtorV(v, NatZero) /\ IsHead(v) -> NatV(0)
    [] SuccOf(v) -> Sum2(NatV(1), ValueToNat(d, Spine(v)[1][2], deep))
    [] Kind(v) = "unfold" /\ HeadName(v) \in warm /\ Op(declars[HeadName(v)].val) = "lit" ->
         NatV(Label(declars[HeadName(v)].val))
    [] OTHER -> IF Kind(v) \in {"unfold", "rec", "quot"} /\ deep /\ ~HasFreeBvar(v)
                THEN NumberOf(d, v, Force(d, v)) ELSE None

NatSub(m, n) == IF m < n THEN 0 ELSE m - n

Computed(op, x, y) ==
  IF None \in {x, y} THEN None ELSE LitV(IF op = "add" THEN x[2] + y[2] ELSE NatSub(x[2], y[2]))

DoNatRed(d, c, as) ==
  IF Len(as) # 2 THEN None
  ELSE Computed(NatRed[c], ValueToNat(d, as[1], TRUE), ValueToNat(d, as[2], TRUE))

\* Arithmetic by recursion on a large literal is left as it is.
NatRedDefer(as) == Len(as) = 2 /\ Kind(as[2]) = "lit" /\ as[2][2] > DeferAbove

-----------------------------------------------------------------------------
(* Unfolding.                                                              *)

AppsBefore(s) ==
  IF \A i \in DOMAIN s : s[i][1] = "app" THEN Len(s)
  ELSE (CHOOSE i \in DOMAIN s : s[i][1] = "proj" /\ \A j \in 1 .. i - 1 : s[j][1] = "app") - 1

\* The spine of a definition on its value: runs of arguments, and projections.
Replay(d, v, s) ==
  LET n == AppsBefore(s)
  IN IF s = <<>> THEN v
     ELSE IF s[1][1] = "proj" THEN Replay(d, DoProj(d, s[1][2], s[1][3], v), Tail(s))
     ELSE Replay(d, ApplyMany(d, v, [i \in 1 .. n |-> s[i][2]]), From(s, n + 1))

\* force: deferred arithmetic is unfolded too; native: arithmetic is computed.
Unfolded(d, v, c, deferring, result) ==
  IF result # None THEN result
  ELSE IF deferring /\ NatRedDefer(ArgsV(v)) THEN v
  ELSE Replay(d, Eval(0, <<>>, declars[c].val), Spine(v))

Arithmetic(v) == HeadName(v) \in DOMAIN NatRed /\ SpineApps(v)

UnfoldValueGo(d, v, force, native) ==
  Unfolded(d, v, HeadName(v), Arithmetic(v) /\ ~force,
           IF Arithmetic(v) /\ native THEN DoNatRed(d, HeadName(v), ArgsV(v)) ELSE None)

UnfoldValue(d, v) == UnfoldGo(d, v, FALSE, TRUE)

Stripped(d, v, next) == IF next = v THEN v ELSE StripHead(d, next)

-----------------------------------------------------------------------------
(* Recursors and quotients.                                                *)

\* What computes on a major premise, and whether it has one.
Reducible(v) == Kind(v) = "rec" \/ (Kind(v) = "quot" /\ HeadName(v) \in {QuotLift, QuotInd})

HasMajor(v) ==
  /\ Reducible(v)
  /\ SpineApps(v) /\ Len(Spine(v)) > MajorIdx(HeadName(v))

Major(v) == ArgsV(v)[MajorIdx(HeadName(v)) + 1]

\* The recursor on a literal: one step, on its predecessor.
NatRecNatLit(d, c, as, n, minor) ==
  ApplyMany(d,
    IF n = 0 THEN as[minor + 1]
    ELSE ApplyMany(d, as[minor + 2],
           <<LitV(n - 1),
             ApplyMany(d, EvalConst(c), Append(SubSeq(as, 1, MajorIdx(c)), LitV(n - 1)))>>),
    From(as, MajorIdx(c) + 2))

\* A neutral value's type, when that is an application of the recursor's type.
Instance(t, T) == IF Kind(t) = "ind" /\ HeadName(t) = T /\ SpineApps(t) THEN t ELSE None
TypedBy(d, v, T) == Instance(Force(d, ValueType(d, v)), T)

CtorOn(d, ctor, t, rest) ==
  ApplyMany(d, EvalConst(ctor), SubSeq(ArgsV(t), 1, declars[ctor].params) \o rest)

\* A proof whose type says which constructor it must be.
Proving(d, t, k) == IF Normal(d, t) = Normal(d, ValueType(d, k)) THEN k ELSE None

KOn(d, ctor, t) == IF t = None THEN None ELSE Proving(d, t, CtorOn(d, ctor, t, <<>>))

TryK(d, v, r) ==
  IF ~r.k \/ ~IsNeutral(v) THEN None ELSE KOn(d, declars[r.ind].ctors[1], TypedBy(d, v, r.ind))

\* A stuck value of a structure is its constructor on its projections.
EtaOn(d, v, T, ctor, t) ==
  IF t = None THEN None
  ELSE CtorOn(d, ctor, t, [i \in 1 .. declars[ctor].fields |-> DoProj(d, T, i - 1, v)])

TryStructEta(d, v, T) ==
  IF ~IsNeutral(v) \/ ~IsStructure(declars, T) THEN None
  ELSE EtaOn(d, v, T, declars[T].ctors[1], TypedBy(d, v, T))

FirstOf(x, y) == IF x # None THEN x ELSE y

\* A major premise as a constructor, if it is one in any way.
MajorToCtor(d, r, major) ==
  IF Kind(major) = "lit" THEN NatLitToCtor(d, major[2])
  ELSE FirstOf(TryK(d, major, r), FirstOf(TryStructEta(d, major, r.ind), major))

\* Its rule, on the parameters, motives and minor premises, on the fields, on the rest.
OnRule(d, r, rule, as, fields, rest) ==
  IF Len(fields) < rule.size THEN None
  ELSE ApplyMany(d, Eval(0, <<>>, rule.val),
                 SubSeq(as, 1, r.params + r.motives + r.minors)
                   \o From(fields, Len(fields) - rule.size + 1) \o rest)

OnCtor(d, r, as, m, rest) ==
  IF Kind(m) # "ctor" \/ ~SpineApps(m) THEN None
  ELSE IF HeadName(m) \notin DOMAIN r.rules THEN None
  ELSE OnRule(d, r, r.rules[HeadName(m)], as, ArgsV(m), rest)

FireRule(d, c, r, as, major) ==
  IF r.ind = NatType /\ Kind(major) = "lit" THEN NatRecNatLit(d, c, as, major[2], r.params + r.motives)
  ELSE OnCtor(d, r, as, MajorToCtor(d, r, major), From(as, MajorIdx(c) + 2))

FireValue(d, v, major) ==
  IF ~HasMajor(v) THEN None
  ELSE IF Kind(v) = "rec" THEN FireRecursor(d, HeadName(v), ArgsV(v), major)
  ELSE FireQuot(d, HeadName(v), ArgsV(v), major)

KFired(d, v, k) == IF k = None THEN None ELSE FireValue(d, v, k)

KPreReduce(d, v) ==
  IF Kind(v) # "rec" THEN None ELSE KFired(d, v, TryK(d, Major(v), declars[HeadName(v)]))

\* One step of a recursor or a quotient that forces its major premise itself.
Reduct(d, v) ==
  IF ~HasMajor(v) THEN None
  ELSE FirstOf(KPreReduce(d, v),
               FireValue(d, v, IF Kind(v) = "rec" THEN WhnfHead(d, Major(v)) ELSE Force(d, Major(v))))

WhnfOn(d, v, next) == IF next \in {v, None} THEN v ELSE WhnfHead(d, next)

WhnfUncached(d, v) ==
  IF Kind(v) \notin {"unfold", "rec", "quot"} THEN v
  ELSE WhnfOn(d, v, IF Kind(v) = "unfold" THEN UnfoldValue(d, v) ELSE IotaValue(d, v))

-----------------------------------------------------------------------------
(* Forcing, without recursion into major premises: the recursors that wait *)
(* for theirs are stacked.                                                 *)

ReducedOr(fired, otherwise) == IF fired = None THEN otherwise ELSE <<"reduced", fired>>

\* A major premise that is itself stuck on another is not gone into.
OnMajorShallow(d, v, major) == ReducedOr(FireValue(d, v, major), <<"done">>)

OnMajor(d, v, major) ==
  IF Reducible(major) THEN <<"descend", major>>
  ELSE ReducedOr(FireValue(d, v, major), <<"done">>)

IotaStep(d, v) ==
  IF ~HasMajor(v) THEN <<"done">>
  ELSE ReducedOr(KPreReduce(d, v), OnMajor(d, v, StripHead(d, Major(v))))

Settled(d, cur, step, waiting) ==
  CASE step[1] = "reduced" -> ForceLoop(d, step[2], waiting)
    [] step[1] = "descend" -> ForceLoop(d, step[2], <<cur>> \o waiting)
    [] step[1] = "done"    -> Pop(d, cur, waiting)

ForceStep(d, cur, waiting) == Settled(d, cur, IotaStep(d, cur), waiting)

\* What waited is forgotten when it does not fire.
ResumeForgets(d, v, waiter, fired, waiting) ==
  IF fired # None THEN ForceLoop(d, fired, waiting) ELSE Pop(d, v, waiting)

\* What waits is fired; what does not fire is what the next one waits for.
Resume(d, v, waiter, fired, waiting) ==
  IF fired # None THEN ForceLoop(d, fired, waiting) ELSE Pop(d, waiter, waiting)

Pop(d, v, waiting) ==
  IF waiting = <<>> THEN v
  ELSE Resume(d, v, Head(waiting), FireValue(d, Head(waiting), v), Tail(waiting))

ForceReducible(d, v) == ForceLoop(d, v, <<>>)

-----------------------------------------------------------------------------
(* Types of values, and readback.                                          *)

ConstType(c) == Eval(0, <<>>, declars[c].ty)

Domain(t) == IF Kind(t) = "pi" THEN t[2] ELSE Bad

FieldsOn(d, T, t) == PassPis(d, ConstType(declars[T].ctors[1]), SubSeq(ArgsV(t), 1, declars[T].params))

\* The type of field i of v, whose type t is, for the spine of a value.
ProjFieldType(d, v, t, T, i) ==
  IF Kind(t) # "ind" \/ HeadName(t) # T THEN Bad
  ELSE IF Len(declars[T].ctors) # 1 \/ declars[T].indices # 0 THEN Bad
  ELSE Domain(Force(d, PassPis(d, FieldsOn(d, T, t), [j \in 1 .. i |-> DoProj(d, T, j - 1, v)])))

\* The type of a Pi's closure on an argument, and what is made of it.
OnPi(d, t, a) == IF Kind(t) = "pi" THEN ApplyClosure(d, t[3], a, t[2]) ELSE Bad

SpineType(d, ty, v, s) ==
  IF s = <<>> \/ ty = Bad THEN ty
  ELSE IF s[1][1] = "app"
  THEN SpineType(d, OnPi(d, Force(d, ty), s[1][2]), Apply(d, v, s[1][2]), Tail(s))
  ELSE SpineType(d, ProjFieldType(d, v, Force(d, ty), s[1][2], s[1][3]),
                 DoProj(d, s[1][2], s[1][3], v), Tail(s))

\* Only heads and what is applied to them have a type to read off.
ValueTypeUncached(d, v) ==
  CASE Kind(v) = "sort" -> SortV(v[2] + 1)
    [] Kind(v) = "lit"  -> EvalConst(NatType)
    [] Kind(v) = "bvar" -> SpineType(d, v[2][3], Head1(v[2]), Spine(v))
    [] IsNeutral(v) /\ Kind(v) # "bvar" -> SpineType(d, ConstType(HeadName(v)), Head1(v[2]), Spine(v))
    [] OTHER -> Bad

\* A telescope of Pi types, applied: to what comes first, then to the rest.
PassPi(d, t, as) == IF Kind(t) # "pi" THEN Bad ELSE PassPis(d, ApplyClosure(d, t[3], Head(as), t[2]), Tail(as))

LamDomain(d, v) == Eval(d, v[3], v[2])

QuoteLam(d, v, dom) == Lam(Quote(d, dom), Quote(d + 1, Eval(d + 1, Extend(v[3], BVar(d, dom)), v[4])))

\* Under the binder of a Pi: its codomain on a fresh variable.
Codomain(d, t) == ApplyClosure(d + 1, t[3], BVar(d, t[2]), t[2])

QuoteValue(d, v) ==
  CASE Kind(v) = "sort" -> Sort(v[2])
    [] Kind(v) = "lit"  -> Lit(v[2])
    [] Kind(v) = "lam"  -> QuoteLam(d, v, LamDomain(d, v))
    [] Kind(v) = "pi"   -> Pi(Quote(d, v[2]), Quote(d + 1, Codomain(d, v)))
    [] OTHER            -> QuoteSpine(d, IF Kind(v) = "bvar" THEN Var(d - 1 - v[2][2]) ELSE Const(HeadName(v)),
                                      Spine(v))

QuoteSpine(d, e, s) ==
  IF s = <<>> THEN e
  ELSE QuoteSpine(d, IF s[1][1] = "app" THEN App(e, Quote(d, s[1][2]))
                     ELSE Proj(s[1][2], s[1][3], e), Tail(s))

-----------------------------------------------------------------------------
(* The level of a type, and whether it is a proposition.                   *)

\* The sort a constant's telescope ends in.
ResultLevel(d, t) ==
  CASE Kind(t) = "sort" -> t[2]
    [] Kind(t) = "pi"   -> ResultLevel(d + 1, Force(d + 1, Codomain(d, t)))
    [] OTHER -> -1

ConstResultLevel(c) == ResultLevel(0, Force(0, ConstType(c)))

SortLevelOf(t) == IF Kind(t) = "sort" THEN t[2] ELSE -1

ByType(d, ty) == SortLevelOf(Force(d, ValueType(d, ty)))

FirstLevel(l, m) == IF l # -1 THEN l ELSE m

LevelOf(d, ty) ==
  CASE Kind(ty) = "sort"   -> ty[2] + 1
    [] Kind(ty) = "pi"     -> IMax(LevelOfType(d, ty[2]), LevelOfType(d + 1, Force(d + 1, Codomain(d, ty))))
    [] Kind(ty) = "bvar"   -> ByType(d, ty)
    [] Kind(ty) = "unfold" -> FirstLevel(ByType(d, ty), ConstResultLevel(HeadName(ty)))
    [] OTHER               -> FirstLevel(ConstResultLevel(HeadName(ty)), ByType(d, ty))

IsPropType(d, t) == LevelOfType(d, t) = 0

-----------------------------------------------------------------------------
(* Inference.  Under Check arguments, lets and binders are checked; under  *)
(* InferOnly the term is taken to be well typed.                           *)

ConvTypes(d, v, w) == v = w \/ Normal(d, v) = Normal(d, w)

NotOfType(d, t, dom) == IF t = Bad THEN TRUE ELSE ~ConvTypes(d, dom, t)

Unfitting(flag, d, env, ctx, e, dom) == flag = "Check" /\ NotOfType(d, Infer(flag, d, env, ctx, e), dom)

\* The level of the sort that e has as its type.
SortOf(flag, d, env, ctx, e) == SortLevelOf(Force(d, Infer(flag, d, env, ctx, e)))

\* A value for a binder: any will do for one that is not used.
Placeholder == SortV(0)

BinderValue(d, env, body, e) == IF IgnoresBinder(body) THEN Placeholder ELSE Eval(d, env, e)

\* The types of e and more arguments, given the type so far: a value, or,
\* while its Pi is read off a term, that term and its environment.
ArgsRest(x, ty, tele) == InferArgs(x.flag, x.d, x.env, x.ctx, ty, tele, Tail(x.as))

OnTerm(x, env, pi) ==
  IF Unfitting(x.flag, x.d, x.env, x.ctx, Head(x.as), Eval(x.d, env, Kid(pi, 1))) THEN Bad
  ELSE ArgsRest(x, None, <<Extend(env, BinderValue(x.d, x.env, Kid(pi, 2), Head(x.as))), Kid(pi, 2)>>)

OnClosure(x, dom, clo) ==
  IF clo[1] = "infer"
  THEN ArgsRest(x, ApplyClosure(x.d, clo, IF IgnoresBinder(clo[4]) THEN dom ELSE Eval(x.d, x.env, Head(x.as)), dom),
                None)
  ELSE ArgsRest(x, None, <<IF Free(clo[3]) = {} THEN clo[2]
                           ELSE Extend(clo[2], BinderValue(x.d, x.env, clo[3], Head(x.as))), clo[3]>>)

OnValue(x, t) ==
  IF Kind(t) # "pi" THEN Bad
  ELSE IF Unfitting(x.flag, x.d, x.env, x.ctx, Head(x.as), t[2]) THEN Bad
  ELSE OnClosure(x, t[2], t[3])

TypeSoFar(d, ty, tele) == IF tele = None THEN ty ELSE Eval(d, tele[1], tele[2])

ArgsOn(x, ty, tele) ==
  IF tele # None /\ Op(tele[2]) = "pi" THEN OnTerm(x, tele[1], tele[2])
  ELSE OnValue(x, Force(x.d, TypeSoFar(x.d, ty, tele)))

InferArgs(flag, d, env, ctx, ty, tele, as) ==
  IF as = <<>> THEN TypeSoFar(d, ty, tele)
  ELSE ArgsOn([flag |-> flag, d |-> d, env |-> env, ctx |-> ctx, as |-> as], ty, tele)

InferApp(flag, d, env, ctx, f, as) == IF f = Bad THEN Bad ELSE InferArgs(flag, d, env, ctx, f, None, as)

\* The type of field i of s, the fields from j on having type t; data is
\* whether field j is data and s a proof.
FieldFrom(d, s, t, j, i, data) ==
  IF j = i THEN IF data THEN Bad ELSE t[2]
  ELSE IF data /\ 0 \in Free(t[3][3]) THEN Bad
  ELSE CtorFieldType(d, s, Force(d, ApplyClosure(d, t[3], DoProj(d, s.name, j, s.val), t[2])), j + 1, i)

CtorFieldType(d, s, t, j, i) ==
  IF Kind(t) # "pi" THEN Bad ELSE FieldFrom(d, s, t, j, i, s.prop /\ ~IsPropType(d, t[2]))

ProjFrom(d, T, i, v, t) ==
  IF Kind(t) # "ind" \/ HeadName(t) # T THEN Bad
  ELSE IF Len(declars[T].ctors) # 1 \/ Len(Spine(t)) # declars[T].params + declars[T].indices THEN Bad
  ELSE CtorFieldType(d, [name |-> T, val |-> v, prop |-> IsPropType(d, t)],
                     Force(d, FieldsOn(d, T, t)), 0, i)

InferProj(flag, d, env, ctx, T, i, e) ==
  ProjFrom(d, T, i, Eval(d, env, e), Force(d, Infer(flag, d, env, ctx, e)))

Atomic(v) == Kind(v) \in {"sort", "lit"} \/ (IsHead(v) /\ Kind(v) # "unfold")

DeepBVarPrefix(env) ==
  Len(env) >= Deep /\ \A i \in 1 .. Deep : IsNeutral(env[i]) /\ Kind(env[i]) = "bvar"

\* Whether the binder's type is closed, not looked at.
ReusesOpen(env, ty, dom, bodyTy) == bodyTy = dom /\ Atomic(bodyTy) /\ DeepBVarPrefix(env)

\* The type of a lambda whose body's type is its binder's is read off that.
Reuses(env, ty, dom, bodyTy) ==
  /\ bodyTy = dom /\ Free(ty) = {}
  /\ Atomic(bodyTy) /\ IsClosed(bodyTy)
  /\ DeepBVarPrefix(env)

LamTypeOf(env, ctx, e, dom, reuse) ==
  PiV(dom, IF reuse THEN EvalClo(<<>>, Kid(e, 1)) ELSE InferClo(PruneEnv(env, e), ctx, Kid(e, 2)))

LamChecked(env, ctx, e, dom, bodyTy) ==
  IF bodyTy = Bad THEN Bad ELSE LamTypeOf(env, ctx, e, dom, Reuses(env, Kid(e, 1), dom, bodyTy))

InferLam(flag, d, env, ctx, e, dom) ==
  IF flag = "InferOnly" THEN LamTypeOf(env, ctx, e, dom, FALSE)
  ELSE IF SortOf(flag, d, env, ctx, Kid(e, 1)) = -1 THEN Bad
  ELSE LamChecked(env, ctx, e, dom, Infer(flag, d + 1, Extend(env, BVar(d, dom)), Extend(ctx, dom), Kid(e, 2)))

IMaxSort(l, m) == IF m = -1 THEN Bad ELSE SortV(IMax(l, m))

InferPi(flag, d, env, ctx, e, l, dom) ==
  IF l = -1 THEN Bad
  ELSE IMaxSort(l, SortOf(flag, d + 1, Extend(env, BVar(d, dom)), Extend(ctx, dom), Kid(e, 2)))

InferLet(flag, d, env, ctx, e, dom) ==
  IF flag = "Check" /\ SortOf(flag, d, env, ctx, Kid(e, 1)) = -1 THEN Bad
  ELSE IF Unfitting(flag, d, env, ctx, Kid(e, 2), dom) THEN Bad
  ELSE Infer(flag, d, Extend(env, Eval(d, env, Kid(e, 2))), Extend(ctx, dom), Kid(e, 3))

InferValue(flag, d, env, ctx, e) ==
  CASE Op(e) = "var"   -> ctx[Label(e) + 1]
    [] Op(e) = "sort"  -> SortV(Label(e) + 1)
    [] Op(e) = "const" -> ConstType(Label(e))
    [] Op(e) = "lit"   -> EvalConst(NatType)
    [] Op(e) = "app"   -> InferApp(flag, d, env, ctx, Infer(flag, d, env, ctx, HeadOf(e)), ArgsOf(e))
    [] Op(e) = "lam"   -> InferLam(flag, d, env, ctx, e, Eval(d, env, Kid(e, 1)))
    [] Op(e) = "pi"    -> InferPi(flag, d, env, ctx, e, SortOf(flag, d, env, ctx, Kid(e, 1)), Eval(d, env, Kid(e, 1)))
    [] Op(e) = "let"   -> InferLet(flag, d, env, ctx, e, Eval(d, env, Kid(e, 1)))
    [] Op(e) = "proj"  -> InferProj(flag, d, env, ctx, Label(e)[1], Label(e)[2], Kid(e, 1))

Answer(call, d, x) ==
  CASE call[1] = "eval"   -> EvalIn(d, PruneEnv(x, call[4]), call[4])
    [] call[1] = "apply"  -> ApplyNew(d, x, call[4])
    [] call[1] = "args"   -> AppliedTo(d, x, call[4])
    [] call[1] = "proj"   -> Projected(d, call[4], call[5], WhnfHead(d, x))
    [] call[1] = "unfold" -> UnfoldValueGo(d, x, call[4], call[5])
    [] call[1] = "strip"  -> Stripped(d, x, UnfoldValue(d, x))
    [] call[1] = "iota"   -> Reduct(d, x)
    [] call[1] = "fire"   -> FireRule(d, call[4], declars[call[4]], call[5], x)
    [] call[1] = "whnf"   -> WhnfUncached(d, x)
    [] call[1] = "force"  -> ForceReducible(d, x)
    [] call[1] = "loop"   -> ForceStep(d, StripHead(d, x), call[4])
    [] call[1] = "type"   -> ValueTypeUncached(d, x)
    [] call[1] = "pis"    -> PassPi(d, Force(d, x), call[4])
    [] call[1] = "level"  -> LevelOf(d, x)
    [] call[1] = "quote"  -> QuoteValue(d, x)
    [] call[1] = "normal" -> Norm(declars, Quote(d, x))
    [] call[1] = "infer"  -> InferValue(call[5], d, x, call[6], call[4])

Run(call) == Answer(call, call[2], call[3])

-----------------------------------------------------------------------------
(* The steps: a term is evaluated, its value is taken further in any of    *)
(* the ways the checker asks for, and its type is inferred.                *)

\* The environment and the context that bind the variables of a job.
Binding1(g, d, ty) == [env |-> Extend(g.env, BVar(d, ty)), ctx |-> Extend(g.ctx, ty)]

Binding(types) ==
  Seqs!FoldLeft(LAMBDA g, ty : Binding1(g, Len(g.env), Eval(Len(g.env), g.env, ty)),
                [env |-> <<>>, ctx |-> <<>>], types)

Depth    == Len(job[1])
Inner(g) == [i \in DOMAIN g |-> g[Len(g) + 1 - i]]

WellTyped == typing # IllTyped

Normalised(t) == IF t = IllTyped THEN t ELSE Norm(declars, t)

Init ==
  /\ declars \in Environments
  /\ job \in Jobs
  /\ here = Binding(job[1])
  /\ typing = Normalised(TypeOf(declars, Inner(job[1]), job[2]))
  /\ meaning = IF typing = IllTyped THEN IllTyped ELSE Norm(declars, job[2])
  /\ warm \in {{}, {c \in DOMAIN declars : declars[c].kind = "def"}}
  /\ val = None /\ forced = "no"
  /\ tys = [check |-> None, only |-> None]

Evaluate ==
  /\ WellTyped /\ val = None
  /\ val' = Eval(Depth, here.env, job[2])
  /\ UNCHANGED <<declars, job, here, meaning, typing, warm, forced, tys>>

Further(v, how) ==
  /\ val # None /\ forced = "no"
  /\ val' = v /\ forced' = how
  /\ UNCHANGED <<declars, job, here, meaning, typing, warm, tys>>

ForceIt == Further(Force(Depth, val), "force")

WhnfIt == Further(WhnfHead(Depth, val), "whnf")

\* One unfolding, by itself or asked for by a conversion.
UnfoldIt(force, native) ==
  Kind(val) = "unfold" /\ Further(UnfoldGo(Depth, val, force, native), "no")

\* One step of a recursor or a quotient.
IotaIt == IsNeutral(val) /\ HasMajor(val) /\ Further(FirstOf(IotaValue(Depth, val), val), "no")

Check ==
  /\ tys.check = None
  /\ tys' = [tys EXCEPT !.check = Infer("Check", Depth, here.env, here.ctx, job[2])]
  /\ UNCHANGED <<declars, job, here, meaning, typing, warm, val, forced>>

InferOnly ==
  /\ WellTyped /\ tys.only = None
  /\ tys' = [tys EXCEPT !.only = Infer("InferOnly", Depth, here.env, here.ctx, job[2])]
  /\ UNCHANGED <<declars, job, here, meaning, typing, warm, val, forced>>

Next ==
  \/ Evaluate
  \/ ForceIt
  \/ WhnfIt
  \/ \E force, native \in BOOLEAN : UnfoldIt(force, native)
  \/ IotaIt
  \/ Check
  \/ InferOnly

Spec == Init /\ [][Next]_vars

-----------------------------------------------------------------------------
(* Properties.                                                             *)

\* Evaluating, unfolding, firing and forcing never change what a term means:
\* the value, read back, has the normal form the term has by substitution.
EvalMeans == val # None => Normal(Depth, val) = meaning

\* Does arithmetic on a large literal, left alone, show at the head of v?
Deferred(v) ==
  Kind(v) = "unfold" /\ HeadName(v) \in DOMAIN NatRed /\ SpineApps(v) /\ NatRedDefer(ArgsV(v))

RECURSIVE Blocked(_), TermHead(_)
Blocked(v) == Deferred(v) \/ (HasMajor(v) /\ Blocked(StripHead(Depth, Major(v))))

\* What a normal form is, under its arguments and projections.
TermHead(e) == IF Op(e) \in {"app", "proj"} THEN TermHead(Kid(e, 1)) ELSE e

\* A forced value shows the head of its normal form, unless arithmetic on a
\* large literal is in the way: a conversion compares heads and does not force
\* again.
ForceExposes ==
  forced # "no" =>
    LET h == TermHead(meaning)
    IN \/ Blocked(val)
       \/ IF Op(h) = "lit" \/ h = Const(NatSucc)
          THEN Kind(val) = "lit" \/ (Kind(val) = "ctor" /\ HeadName(val) \in {NatZero, NatSucc})
          ELSE IF Op(h) \in {"lam", "pi"} THEN Kind(val) = Op(h)
          ELSE h = TermHead(Quote(Depth, val))

\* The check accepts a term exactly when it has a type, and then answers that
\* type, as does the inference that checks nothing.
InferMeans ==
  /\ tys.check # None =>
       IF WellTyped THEN tys.check # Bad /\ Normal(Depth, tys.check) = typing
       ELSE tys.check = Bad
  /\ tys.only # None => tys.only # Bad /\ Normal(Depth, tys.only) = typing
  /\ val # None /\ Kind(val) \notin {"lam", "pi"} => Normal(Depth, ValueType(Depth, val)) = typing
=============================================================================
