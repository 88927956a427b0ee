------------------------------- MODULE Terms -------------------------------
(***************************************************************************)
(* The terms the checker works on (term/expr.rs), and what they mean: the  *)
(* normal form of a term and its type, defined by substitution, with no    *)
(* environments, closures or caches.  The evaluator and the inference are  *)
(* checked against these.  D holds the declarations by name, each a record *)
(*                                                                         *)
(*   kind  axiom, def (with a val), ind, ctor, rec or quot;    ty  its type *)
(*   ind:  ctors, params, indices, recursive                               *)
(*   ctor: ind, params, fields                                             *)
(*   rec:  ind, params, motives, minors, indices, k, and the rules: per    *)
(*         constructor the value and the number of fields it takes         *)
(***************************************************************************)
EXTENDS Syntax

CONSTANTS
  NatType,    \* the inductive type of the literals, with constructors ...
  NatZero, NatSucc,
  QuotMk, QuotLift, QuotInd

Declarations(D) ==
  /\ \A c \in DOMAIN D : D[c].kind \in {"axiom", "def", "ind", "ctor", "rec", "quot"}
  /\ {NatType, NatZero, NatSucc, QuotMk, QuotLift, QuotInd} \subseteq DOMAIN D

\* Structures: one constructor, no indices, not recursive.
IsStructure(D, c) ==
  /\ D[c].kind = "ind"
  /\ Len(D[c].ctors) = 1 /\ D[c].indices = 0 /\ ~D[c].recursive

-----------------------------------------------------------------------------
(* The operators below call each other in many ways.  The calls that close *)
(* a cycle go through Calc, at the end, which says what these stand for.    *)

RECURSIVE Calc(_, _)
Whn(D, e)         == Calc(D, <<"whn", e>>)
Norm(D, e)        == Calc(D, <<"norm", e>>)
TypeOf(D, ctx, e) == Calc(D, <<"type", e, ctx>>)

-----------------------------------------------------------------------------
(* Normal forms.                                                           *)

Stuck == <<"stuck">>

\* A weak head normal form as an application of a constructor.
AsCtor(e) ==
  IF Op(e) # "lit" THEN e
  ELSE IF Label(e) = 0 THEN Const(NatZero) ELSE App(Const(NatSucc), Lit(Label(e) - 1))

IsCtorOf(D, h, T) == Op(h) = "const" /\ D[Label(h)].kind = "ctor" /\ D[Label(h)].ind = T

\* Recursor r, with before its major premise and after it, on a constructor's
\* fields.
Fire(r, ctor, before, fields, after) ==
  Apps(r.rules[ctor].val, SubSeq(before, 1, Len(before) - r.indices) \o fields \o after)

\* By K, when the indices are those of the only constructor, of a type in Prop
\* without parameters.
Matches(D, r, T, before) ==
  r.k /\ [i \in 1 .. r.indices |-> Norm(D, before[Len(before) - r.indices + i])]
         = [i \in 1 .. r.indices |-> Norm(D, ArgsOf(Whn(D, D[T.ctors[1]].ty))[T.params + i])]

\* One step of recursor r on its arguments, the major premise as whole, or Stuck.
RecOn(D, r, T, before, major, whole, after) ==
  IF IsCtorOf(D, HeadOf(whole), r.ind)
  THEN Fire(r, Label(HeadOf(whole)), before,
            From(ArgsOf(whole), D[Label(HeadOf(whole))].params + 1), after)
  ELSE IF Matches(D, r, T, before) THEN Fire(r, T.ctors[1], before, <<>>, after)
  ELSE IF IsStructure(D, r.ind)
  THEN Fire(r, T.ctors[1], before,
            [i \in 1 .. D[T.ctors[1]].fields |-> Proj(r.ind, i - 1, major)], after)
  ELSE Stuck

MajorAt(r) == r.params + r.motives + r.minors + r.indices + 1

RecStep(D, r, as) ==
  LET major == Whn(D, as[MajorAt(r)])
  IN IF Len(as) < MajorAt(r) THEN Stuck
     ELSE RecOn(D, r, D[r.ind], SubSeq(as, 1, MajorAt(r) - 1), major, AsCtor(major),
                From(as, MajorAt(r) + 1))

QuotOn(as, at, major) ==
  IF HeadOf(major) = Const(QuotMk) THEN Apps(App(as[4], ArgsOf(major)[3]), From(as, at + 1)) ELSE Stuck

QuotStep(D, c, as) ==
  LET at == IF c = QuotLift THEN 6 ELSE 5
  IN IF c = QuotMk \/ Len(as) < at THEN Stuck ELSE QuotOn(as, at, Whn(D, as[at]))

Stepped(D, e, next) == IF next = Stuck THEN e ELSE Whn(D, next)

ProjOn(D, c, s, w, as) ==
  IF IsCtorOf(D, HeadOf(w), c[1])
  THEN Whn(D, Apps(ArgsOf(w)[D[Label(HeadOf(w))].params + c[2] + 1], as))
  ELSE Apps(Proj(c[1], c[2], s), as)

ProjStep(D, c, s, as) == ProjOn(D, c, s, AsCtor(s), as)

Successor(h, n) == IF Op(n) = "lit" THEN Lit(Label(n) + 1) ELSE App(h, n)

\* Weak head normal form of e, which is h on as; a numeral is a literal.
WhnApp(D, e, h, c, as, kind) ==
  CASE kind = "lam" /\ as # <<>> -> Whn(D, Apps(Subst(Kid(h, 2), as[1]), Tail(as)))
    [] kind = "let"  -> Whn(D, Apps(Subst(Kid(h, 3), Kid(h, 2)), as))
    [] kind = "def"  -> Whn(D, Apps(D[c].val, as))
    [] kind = "proj" -> ProjStep(D, c, Whn(D, Kid(h, 1)), as)
    [] kind = "rec"  -> Stepped(D, e, RecStep(D, D[c], as))
    [] kind = "quot" -> Stepped(D, e, QuotStep(D, c, as))
    [] h = Const(NatZero) -> Lit(0)
    [] h = Const(NatSucc) /\ Len(as) = 1 -> Successor(h, Whn(D, as[1]))
    [] OTHER -> e

KindIn(D, h) == IF Op(h) = "const" THEN D[Label(h)].kind ELSE Op(h)

WhnOf(D, e, h) == WhnApp(D, e, h, Label(h), ArgsOf(e), KindIn(D, h))

NormApp(D, h, as) ==
  Apps(<<h[1], h[2], [k \in DOMAIN h[3] |-> Norm(D, Kid(h, k))]>>,
       [k \in DOMAIN as |-> Norm(D, as[k])])

NormOf(D, w) == NormApp(D, HeadOf(w), ArgsOf(w))

-----------------------------------------------------------------------------
(* Types.  The context lists the types of the variables, the innermost     *)
(* first.                                                                  *)

Under(ctx, t) == <<t>> \o ctx

SortLevel(s) == IF Op(s) = "sort" THEN Label(s) ELSE -1

\* The type t, so that its binder or its sort shows.
Shown(D, t) == IF t = IllTyped THEN t ELSE Whn(D, t)

\* The level of the sort that e, a type, lies in; -1 for what is no type.
LevelIn(D, ctx, e) == SortLevel(Shown(D, TypeOf(D, ctx, e)))

RECURSIVE FieldType(_, _, _, _, _, _)

\* The type of field i of s, the fields from j on having type w.  What depends
\* on data in a proof, or is data, cannot be projected from it.
FieldOf(D, ctx, s, w, j, i, data) ==
  IF Op(w) # "pi" THEN IllTyped
  ELSE IF j = i THEN IF data THEN IllTyped ELSE Kid(w, 1)
  ELSE IF data /\ 0 \in Free(Kid(w, 2)) THEN IllTyped
  ELSE FieldType(D, ctx, s, Whn(D, Subst(Kid(w, 2), Proj(s.name, j, s.e))), j + 1, i)

FieldType(D, ctx, s, w, j, i) ==
  FieldOf(D, ctx, s, w, j, i, s.prop /\ Op(w) = "pi" /\ LevelIn(D, ctx, Kid(w, 1)) # 0)

RECURSIVE Instantiate(_, _, _)
Instantiate(D, ty, ps) ==
  IF ps = <<>> THEN ty
  ELSE Instantiate(D, Subst(Kid(Whn(D, ty), 2), Head(ps)), Tail(ps))

IMax(l, m) == IF m = 0 THEN 0 ELSE IF l < m THEN m ELSE l

Alike(D, t, u) == Norm(D, t) = Norm(D, u)

AppType(D, p, ta, a) ==
  IF Op(p) # "pi" \/ ta = IllTyped THEN IllTyped
  ELSE IF Alike(D, Kid(p, 1), ta) THEN Subst(Kid(p, 2), a) ELSE IllTyped

LamType(t, l, tb) == IF l = -1 \/ tb = IllTyped THEN IllTyped ELSE Pi(t, tb)

PiType(l, m) == IF l = -1 \/ m = -1 THEN IllTyped ELSE Sort(IMax(l, m))

LetType(D, ctx, l, t, v, tv, b) ==
  IF l = -1 \/ tv = IllTyped THEN IllTyped
  ELSE IF Alike(D, tv, t) THEN TypeOf(D, ctx, Subst(b, v)) ELSE IllTyped

ProjType(D, ctx, T, i, e, w) ==
  IF HeadOf(w) # Const(T) \/ Len(D[T].ctors) # 1 THEN IllTyped
  ELSE FieldType(D, ctx, [e |-> e, name |-> T, prop |-> LevelIn(D, ctx, w) = 0],
                 Whn(D, Instantiate(D, D[D[T].ctors[1]].ty, SubSeq(ArgsOf(w), 1, D[T].params))), 0, i)

TypeIn(D, ctx, e) ==
  CASE Op(e) = "var"   -> Shift(ctx[Label(e) + 1], Label(e) + 1, 0)
    [] Op(e) = "sort"  -> Sort(Label(e) + 1)
    [] Op(e) = "const" -> D[Label(e)].ty
    [] Op(e) = "lit"   -> Const(NatType)
    [] Op(e) = "app"   -> AppType(D, Shown(D, TypeOf(D, ctx, Kid(e, 1))), TypeOf(D, ctx, Kid(e, 2)), Kid(e, 2))
    [] Op(e) = "lam"   -> LamType(Kid(e, 1), LevelIn(D, ctx, Kid(e, 1)),
                                  TypeOf(D, Under(ctx, Kid(e, 1)), Kid(e, 2)))
    [] Op(e) = "pi"    -> PiType(LevelIn(D, ctx, Kid(e, 1)), LevelIn(D, Under(ctx, Kid(e, 1)), Kid(e, 2)))
    [] Op(e) = "let"   -> LetType(D, ctx, LevelIn(D, ctx, Kid(e, 1)), Kid(e, 1), Kid(e, 2),
                                  TypeOf(D, ctx, Kid(e, 2)), Kid(e, 3))
    [] Op(e) = "proj"  -> ProjType(D, ctx, Label(e)[1], Label(e)[2], Kid(e, 1),
                                   Shown(D, TypeOf(D, ctx, Kid(e, 1))))

Calc(D, call) ==
  CASE call[1] = "whn"  -> WhnOf(D, call[2], HeadOf(call[2]))
    [] call[1] = "norm" -> NormOf(D, Whn(D, call[2]))
    [] call[1] = "type" -> TypeIn(D, call[3], call[2])
=============================================================================
