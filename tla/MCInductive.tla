---------------------------- MODULE MCInductive -----------------------------
(* Containers of every kind, and blocks over them: each shape of a field in  *)
(* types, in propositions, under parameters and indices, alone and in pairs, *)
(* and mutual blocks.  Left out are nested types, under binders, on          *)
(* parameters that bind variables themselves: they are refused, as           *)
(* ExprsGuard.cfg shows, although they are well formed.                      *)
EXTENDS Inductive

Prop == Sort(0)
Type == Sort(1)
v0 == Var(0)
v1 == Var(1)
v2 == Var(2)
v3 == Var(3)

RECURSIVE Pis(_, _)
Pis(ts, b)  == IF ts = <<>> THEN b ELSE Pi(Head(ts), Pis(Tail(ts), b))
Arrow(a, b) == Pi(a, Shift(b, 1, 0))
C(n, as)    == Apps(Const(<<n>>), as)
Of(n, c)    == <<n, c>>

Ind(ty, cs, ps, is, rec, all) ==
  [kind |-> "ind", ty |-> ty, ctors |-> cs, params |-> ps, indices |-> is, recursive |-> rec, all |-> all]
Con(ty, T, ps, fs) == [kind |-> "ctor", ty |-> ty, ind |-> <<T>>, params |-> ps, fields |-> fs]
Def(ty, v) == [kind |-> "def", ty |-> ty, val |-> v]

NName    == <<"N">>
ZeroName == Of("N", "zero")
SuccName == Of("N", "succ")
MkName   == Of("Quot", "mk")
LiftName == Of("Quot", "lift")
IndName  == Of("Quot", "ind")

N == Const(NName)
Zero == Const(ZeroName)
Succ(e) == App(Const(SuccName), e)

\* List; Neg, negative in its parameter; Tree and Forest, mutual; Box, with a
\* constructor that is not named after it; Vec, with an index; Or, of two
\* propositions; Up, of a larger universe; definitions that use their argument
\* in all ways.
Containers ==
  (NName :> Ind(Type, <<ZeroName, SuccName>>, 0, 0, TRUE, <<NName>>))
  @@ (ZeroName :> Con(N, "N", 0, 0)) @@ (SuccName :> Con(Arrow(N, N), "N", 0, 1))
  @@ (MkName :> Axiom(Prop)) @@ (LiftName :> Axiom(Prop)) @@ (IndName :> Axiom(Prop))
  @@ (<<"List">> :> Ind(Arrow(Type, Type), <<Of("List", "nil"), Of("List", "cons")>>, 1, 0, TRUE, <<<<"List">>>>))
  @@ (Of("List", "nil") :> Con(Pi(Type, C("List", <<v0>>)), "List", 1, 0))
  @@ (Of("List", "cons") :> Con(Pis(<<Type, v0, C("List", <<v1>>)>>, C("List", <<v2>>)), "List", 1, 2))
  @@ (<<"Neg">> :> Ind(Arrow(Type, Type), <<Of("Neg", "mk")>>, 1, 0, FALSE, <<<<"Neg">>>>))
  @@ (Of("Neg", "mk") :> Con(Pis(<<Type, Arrow(v0, N)>>, C("Neg", <<v1>>)), "Neg", 1, 1))
  @@ (<<"Tree">> :> Ind(Arrow(Type, Type), <<Of("Tree", "node")>>, 1, 0, TRUE, <<<<"Tree">>, <<"Forest">>>>))
  @@ (<<"Forest">> :> Ind(Arrow(Type, Type), <<Of("Forest", "none"), Of("Forest", "some")>>, 1, 0, TRUE, <<<<"Tree">>, <<"Forest">>>>))
  @@ (Of("Tree", "node") :> Con(Pis(<<Type, v0, C("Forest", <<v1>>)>>, C("Tree", <<v2>>)), "Tree", 1, 2))
  @@ (Of("Forest", "none") :> Con(Pi(Type, C("Forest", <<v0>>)), "Forest", 1, 0))
  @@ (Of("Forest", "some") :> Con(Pis(<<Type, C("Tree", <<v0>>), C("Forest", <<v1>>)>>, C("Forest", <<v2>>)), "Forest", 1, 2))
  @@ (<<"Box">> :> Ind(Arrow(Type, Type), <<<<"box">>>>, 1, 0, FALSE, <<<<"Box">>>>))
  @@ (<<"box">> :> Con(Pis(<<Type, v0>>, C("Box", <<v1>>)), "Box", 1, 1))
  @@ (<<"Vec">> :> Ind(Pis(<<Type, N>>, Type), <<Of("Vec", "nil"), Of("Vec", "cons")>>, 1, 1, TRUE, <<<<"Vec">>>>))
  @@ (Of("Vec", "nil") :> Con(Pi(Type, C("Vec", <<v0, Zero>>)), "Vec", 1, 0))
  @@ (Of("Vec", "cons") :> Con(Pis(<<Type, N, v1, C("Vec", <<v2, v1>>)>>, C("Vec", <<v3, Succ(v2)>>)), "Vec", 1, 3))
  @@ (<<"Or">> :> Ind(Pis(<<Prop, Prop>>, Prop), <<Of("Or", "inl"), Of("Or", "inr")>>, 2, 0, FALSE, <<<<"Or">>>>))
  @@ (Of("Or", "inl") :> Con(Pis(<<Prop, Prop, v1>>, C("Or", <<v2, v1>>)), "Or", 2, 1))
  @@ (Of("Or", "inr") :> Con(Pis(<<Prop, Prop, v0>>, C("Or", <<v2, v1>>)), "Or", 2, 1))
  @@ (<<"Up">> :> Ind(Arrow(Type, Sort(2)), <<Of("Up", "mk")>>, 1, 0, FALSE, <<<<"Up">>>>))
  @@ (Of("Up", "mk") :> Con(Pis(<<Type, v0>>, C("Up", <<v1>>)), "Up", 1, 1))
  @@ (<<"Id">> :> Def(Arrow(Type, Type), Lam(Type, v0)))
  @@ (<<"K">> :> Def(Arrow(Type, Type), Lam(Type, N)))
  @@ (<<"Fun">> :> Def(Arrow(Type, Type), Lam(Type, Arrow(N, v0))))
  @@ (<<"Not">> :> Def(Arrow(Type, Type), Lam(Type, Arrow(v0, N))))

Worlds == {Containers}

-----------------------------------------------------------------------------
Ty(n, ty, cs)   == [name |-> <<n>>, ty |-> ty, ctors |-> cs]
Ctor(n, c, ty)  == [name |-> Of(n, c), ty |-> ty]
Block(ps, ts)   == [params |-> ps, types |-> ts]

RECURSIVE Arrows(_, _)
\* Fields of types that do not use one another.
Arrows(ts, b) == IF ts = <<>> THEN b ELSE Arrow(Head(ts), Arrows(Tail(ts), b))

\* What a field may be, from the type I being declared.
Shapes(I) ==
  {N, I, Arrow(N, I), Arrow(I, N), Arrow(Arrow(N, I), N), Arrow(Arrow(I, N), N), Arrow(N, Arrow(N, I)),
   C("List", <<I>>), C("List", <<C("List", <<I>>)>>), C("List", <<Arrow(N, I)>>), C("List", <<Arrow(I, N)>>),
   Arrow(N, C("List", <<I>>)), Arrow(C("List", <<I>>), N), C("Neg", <<I>>), C("Neg", <<C("List", <<I>>)>>),
   C("Vec", <<I, Zero>>), Pi(N, C("Vec", <<I, v0>>)), C("Vec", <<N, Zero>>), C("Vec", <<C("Vec", <<I, Zero>>), Succ(Zero)>>),
   C("Tree", <<I>>), C("Forest", <<I>>), C("Tree", <<C("List", <<I>>)>>), C("List", <<C("Tree", <<I>>)>>),
   C("Box", <<I>>), C("Box", <<C("List", <<I>>)>>), C("Up", <<I>>), C("Id", <<I>>), C("K", <<I>>), C("Fun", <<I>>), C("Not", <<I>>), C("List", <<C("Id", <<I>>)>>),
   App(Lam(Type, v0), I), Pi(N, C("List", <<C("Vec", <<I, v0>>)>>)), Prop, Type, Zero}

\* A type with a constructor of one field, or two, or two constructors.
One == {Block(0, <<Ty("I", Type, <<Ctor("I", "mk", Arrow(f, C("I", <<>>)))>>)>>) : f \in Shapes(C("I", <<>>))}
Few == {C("I", <<>>), C("List", <<C("I", <<>>)>>), C("Tree", <<C("I", <<>>)>>), Arrow(N, C("I", <<>>)), C("Vec", <<C("I", <<>>), Zero>>), N}
Two == {Block(0, <<Ty("I", Type, <<Ctor("I", "z", C("I", <<>>)), Ctor("I", "mk", Arrows(<<f, g>>, C("I", <<>>)))>>)>>) : f, g \in Few}
         \cup {Block(0, <<Ty("I", Type, <<Ctor("I", "mk", Arrows(<<C("Tree", <<C("I", <<>>)>>), C("Tree", <<C("List", <<C("I", <<>>)>>)>>)>>, C("I", <<>>)))>>)>>)}

\* Under a parameter A, and an index.
Self == C("L", <<v0>>)
Fields1 == {v0, Self, C("List", <<Self>>), Arrow(v0, Self), Arrow(Self, v0), C("List", <<C("List", <<Self>>)>>),
            C("L", <<N>>), C("L", <<C("L", <<v0>>)>>), C("L", <<>>), C("Tree", <<Self>>), C("Vec", <<Self, Zero>>),
            C("List", <<v0>>), Pi(N, C("Vec", <<C("L", <<v1>>), v0>>)), Type}
Params == {Block(1, <<Ty("L", Arrow(Type, Type), <<Ctor("L", "mk", Pi(Type, Arrow(f, Self)))>>)>>) : f \in Fields1}
            \cup {Block(1, <<Ty("L", Arrow(Type, Type), <<Ctor("L", "mk", Pi(t, Self))>>)>>) : t \in {Prop, C("Id", <<Type>>)}}
            \cup {Block(1, <<Ty("L", Type, <<>>)>>), Block(2, <<Ty("L", Arrow(Type, Type), <<>>)>>)}
J(e) == C("J", <<e>>)
Indexed ==
  {Block(0, <<Ty("J", Arrow(N, u), <<Ctor("J", "z", J(Zero)), Ctor("J", "mk", Pi(N, Pi(f, J(Succ(v1)))))>>)>>) :
     u \in {Type, Prop},
     f \in {J(v0), Pi(N, J(v0)), Pi(N, J(v1)), C("Vec", <<J(v0), v0>>), C("List", <<J(v0)>>), N}}
  \cup {Block(1, <<Ty("W", Pis(<<Type, N>>, Type),
                     <<Ctor("W", "mk", Pis(<<Type, N, f>>, C("W", <<v2, v1>>)))>>)>>) :
          f \in {C("W", <<v1, Succ(v0)>>), C("List", <<C("W", <<v1, v0>>)>>), C("List", <<C("W", <<v1, Zero>>)>>),
                 C("Vec", <<C("W", <<v1, Zero>>), v0>>), C("W", <<N, v0>>), C("W", <<v1>>)}}

\* Propositions: what their proofs hold, and whether that can be told.
P == C("P", <<>>)
Propositions ==
  {Block(0, <<Ty("P", Prop, cs)>>) :
     cs \in {<<>>, <<Ctor("P", "mk", P)>>, <<Ctor("P", "mk", Arrow(N, P))>>, <<Ctor("P", "mk", Arrow(P, P))>>,
             <<Ctor("P", "mk", Arrow(Type, P))>>, <<Ctor("P", "mk", Pi(Prop, Arrow(v0, P)))>>,
             <<Ctor("P", "a", P), Ctor("P", "b", P)>>, <<Ctor("P", "mk", Arrow(Arrow(N, P), P))>>,
             <<Ctor("P", "mk", Arrow(Arrow(P, P), P))>>, <<Ctor("P", "mk", Arrow(C("Or", <<P, P>>), P))>>,
             <<Ctor("P", "mk", Arrow(C("List", <<N>>), P))>>}}
  \cup {Block(0, <<Ty("Q", Arrow(N, Prop), <<Ctor("Q", "mk", Pi(N, C("Q", <<i>>)))>>)>>) :
          i \in {v0, Zero, Succ(v0), C("List", <<N>>)}}
  \cup {Block(2, <<Ty("Eq", Pis(<<Type, v0, v1>>, Prop), <<Ctor("Eq", "refl", Pis(<<Type, v0>>, C("Eq", <<v1, v0, v0>>)))>>)>>),
        Block(2, <<Ty("And", Pis(<<Prop, Prop>>, Prop), <<Ctor("And", "mk", Pis(<<Prop, Prop, v1, v1>>, C("And", <<v3, v2>>)))>>)>>),
        Block(2, <<Ty("Ex", Pis(<<Type, Pi(v0, Prop)>>, Prop),
                      <<Ctor("Ex", "mk", Pis(<<Type, Pi(v0, Prop), v1, App(v1, v0)>>, C("Ex", <<v3, v2>>)))>>)>>),
        Block(2, <<Ty("Acc", Pis(<<Type, Pis(<<v0, v1>>, Prop), v1>>, Prop),
                      <<Ctor("Acc", "mk", Pis(<<Type, Pis(<<v0, v1>>, Prop), v1,
                                                Pis(<<v2, Apps(v2, <<v0, v1>>)>>, C("Acc", <<Var(4), v3, v1>>))>>,
                                              C("Acc", <<v3, v2, v1>>)))>>)>>)}

\* Two types at once.
E(e) == C("E", <<e>>)
O(e) == C("O", <<e>>)
A0 == C("A", <<>>)
B0 == C("B", <<>>)
Mutual ==
  {Block(0, <<Ty("A", Type, <<Ctor("A", "mk", Arrow(f, A0))>>), Ty("B", u, <<Ctor("B", "z", B0), Ctor("B", "mk", Arrow(g, B0))>>)>>) :
     f \in {B0, C("List", <<B0>>), Arrow(B0, N)}, g \in {A0, C("List", <<A0>>), C("Tree", <<B0>>), C("List", <<B0>>)}, u \in {Type}}
  \cup {Block(0, <<Ty("A", Type, <<>>), Ty("B", Prop, <<>>)>>), Block(0, <<Ty("A", Type, <<Ctor("B", "mk", B0)>>), Ty("B", Type, <<>>)>>),
        Block(0, <<Ty("A", Prop, <<Ctor("A", "mk", Arrow(B0, A0))>>), Ty("B", Prop, <<Ctor("B", "mk", Arrow(A0, B0))>>)>>),
        Block(0, <<Ty("E", Arrow(N, Prop), <<Ctor("E", "z", E(Zero)), Ctor("E", "s", Pi(N, Pi(O(v0), E(Succ(v1)))))>>),
                   Ty("O", Arrow(N, Prop), <<Ctor("O", "s", Pi(N, Pi(E(v0), O(Succ(v1)))))>>)>>),
        Block(1, <<Ty("A", Arrow(Type, Type), <<Ctor("A", "mk", Pis(<<Type, C("List", <<C("B", <<v0>>)>>)>>, C("A", <<v1>>)))>>),
                   Ty("B", Arrow(Type, Type), <<Ctor("B", "mk", Pis(<<Type, v0, C("A", <<v1>>)>>, C("B", <<v2>>)))>>)>>)}

AllBlocks == One \cup Two \cup Params \cup Indexed \cup Propositions \cup Mutual
=============================================================================
