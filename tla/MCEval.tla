------------------------------- MODULE MCEval -------------------------------
(* Declarations of every kind, and the terms worked on: naturals, a subtype  *)
(* as a structure, a family of propositions eliminated by K, quotients.      *)
EXTENDS Eval, FiniteSets

Type == Sort(1)
N    == Const("N")
Zero == Const("zero")
Succ(e)   == App(Const("succ"), e)
Arrow(a, b) == Pi(a, Shift(b, 1, 0))
v0 == Var(0)
v1 == Var(1)
v2 == Var(2)
v3 == Var(3)
v4 == Var(4)
v5 == Var(5)

RECURSIVE Pis(_, _), Lams(_, _)
Pis(ts, b)  == IF ts = <<>> THEN b ELSE Pi(Head(ts), Pis(Tail(ts), b))
Lams(ts, b) == IF ts = <<>> THEN b ELSE Lam(Head(ts), Lams(Tail(ts), b))
C(c, as)    == Apps(Const(c), as)

Ax(ty)      == [kind |-> "axiom", ty |-> ty]
Def(ty, v)  == [kind |-> "def", ty |-> ty, val |-> v]
Ind(ty, cs, ps, is, rec) ==
  [kind |-> "ind", ty |-> ty, ctors |-> cs, params |-> ps, indices |-> is, recursive |-> rec]
Ctor(ty, T, ps, fs) == [kind |-> "ctor", ty |-> ty, ind |-> T, params |-> ps, fields |-> fs]
Quot(ty)    == [kind |-> "quot", ty |-> ty]

\* N.rec : (C : N -> Type) -> C zero -> ((n : N) -> C n -> C (succ n)) -> (n : N) -> C n
NRecTys == <<Pi(N, Type), App(v0, Zero), Pis(<<N, App(v2, v0)>>, App(v3, Succ(v1)))>>
NRec == [kind |-> "rec", ty |-> Pis(NRecTys \o <<N>>, App(v3, v0)),
         ind |-> "N", params |-> 0, motives |-> 1, minors |-> 2, indices |-> 0, k |-> FALSE,
         rules |-> [zero |-> [val |-> Lams(NRecTys, v1), size |-> 0],
                    succ |-> [val |-> Lams(NRecTys \o <<N>>,
                                Apps(v1, <<v0, C("N_rec", <<v3, v2, v1, v0>>)>>)), size |-> 1]]]

Rec(z, s, n) == C("N_rec", <<Lam(N, N), z, s, n>>)

\* Sub (A : Type) (R : A -> Prop), with mk A R x h for h : R x
SubPs == <<Type, Pi(v0, Sort(0))>>
SubRecTys == SubPs \o <<Pi(C("Sub", <<v1, v0>>), Type),
                        Pis(<<v2, App(v2, v0)>>, App(v2, C("mk", <<v4, v3, v1, v0>>)))>>
SubRec == [kind |-> "rec", ty |-> Pis(SubRecTys \o <<C("Sub", <<v3, v2>>)>>, App(v2, v0)),
           ind |-> "Sub", params |-> 2, motives |-> 1, minors |-> 1, indices |-> 0, k |-> FALSE,
           rules |-> [mk |-> [val |-> Lams(SubRecTys \o <<v3, App(v3, v0)>>, Apps(v2, <<v1, v0>>)),
                              size |-> 2]]]

\* T : N -> Prop, with t : T zero only
TRecTys == <<Pis(<<N, C("T", <<v0>>)>>, Type), Apps(v0, <<Zero, Const("t")>>)>>
TRec == [kind |-> "rec", ty |-> Pis(TRecTys \o <<N, C("T", <<v0>>)>>, Apps(v3, <<v1, v0>>)),
         ind |-> "T", params |-> 0, motives |-> 1, minors |-> 1, indices |-> 1, k |-> TRUE,
         rules |-> [t |-> [val |-> Lams(TRecTys, v0), size |-> 0]]]

\* Quotients, of A : Type by r : A -> A -> Prop
QuotPs == <<Type, Pis(<<v0, v1>>, Sort(0))>>
EqC(B, x, y) == C("Eq", <<B, x, y>>)
LiftTy == Pis(QuotPs \o <<Type, Pi(v2, v1),
                Pis(<<v3, v4, Apps(v4, <<v1, v0>>)>>,
                    EqC(v4, App(v3, v2), App(v3, v1))),
                C("Quot", <<v4, v3>>)>>, v3)
IndTy == Pis(QuotPs \o <<Pi(C("Quot", <<v1, v0>>), Sort(0)),
               Pi(v2, App(v1, C("Quot_mk", <<v3, v2, v0>>))),
               C("Quot", <<v3, v2>>)>>, App(v2, v0))

NN  == Arrow(N, N)
NNN == Pis(<<N, N>>, N)

Decls ==
  [N |-> Ind(Type, <<"zero", "succ">>, 0, 0, TRUE),
   zero |-> Ctor(N, "N", 0, 0),
   succ |-> Ctor(NN, "N", 0, 1),
   N_rec |-> NRec,
   Sub |-> Ind(Pis(SubPs, Type), <<"mk">>, 2, 0, FALSE),
   mk |-> Ctor(Pis(SubPs \o <<v1, App(v1, v0)>>, C("Sub", <<v3, v2>>)), "Sub", 2, 2),
   Sub_rec |-> SubRec,
   T |-> Ind(Pi(N, Sort(0)), <<"t">>, 0, 1, FALSE),
   t |-> Ctor(C("T", <<Zero>>), "T", 0, 0),
   T_rec |-> TRec,
   W |-> Ind(Sort(0), <<"w">>, 0, 0, FALSE),
   w |-> Ctor(Pis(<<C("T", <<Zero>>), N, C("T", <<v0>>)>>, Const("W")), "W", 0, 3),
   V |-> Ind(Sort(0), <<"vv">>, 0, 0, FALSE),
   vv |-> Ctor(Pis(<<N, C("T", <<Zero>>)>>, Const("V")), "V", 0, 2),
   q |-> Ax(Const("V")),
   Quot |-> Quot(Pis(QuotPs, Type)),
   Quot_mk |-> Quot(Pis(QuotPs \o <<v1>>, C("Quot", <<v2, v1>>))),
   Quot_lift |-> Quot(LiftTy),
   Quot_ind |-> Quot(IndTy),
   Eq |-> Ax(Pis(<<Type, v0, v1>>, Sort(0))),
   r |-> Ax(Pis(<<N, N>>, Sort(0))),
   resp |-> Ax(Pis(<<N, N, C("r", <<v1, v0>>)>>, EqC(N, Succ(v2), Succ(v1)))),
   a |-> Ax(N),
   x |-> Ax(C("T", <<Zero>>)),
   y |-> Ax(C("T", <<Const("a")>>)),
   s |-> Ax(C("Sub", <<N, Const("T")>>)),
   p |-> Ax(Const("W")),
   one |-> Def(N, Succ(Zero)),
   two |-> Def(N, Lit(2)),
   id |-> Def(Pis(<<Type, v0>>, v1), Lams(<<Type, v0>>, v0)),
   pred |-> Def(NN, Lam(N, Rec(Zero, Lams(<<N, N>>, v1), v0))),
   add |-> Def(NNN, Lams(<<N, N>>, Rec(v1, Lams(<<N, N>>, Succ(v0)), v0))),
   sub |-> Def(NNN, Lams(<<N, N>>, Rec(v1, Lams(<<N, N>>, C("pred", <<v0>>)), v0))),
   fst |-> Def(Arrow(C("Sub", <<N, Const("T")>>), N),
                          Lam(C("Sub", <<N, Const("T")>>), Proj("Sub", 0, v0))),
   thm |-> Def(C("T", <<Zero>>), Const("t"))]

Worlds == {Decls}

Native == [add |-> "add", sub |-> "sub"]

-----------------------------------------------------------------------------
(* Terms of each type, closed or over a number v0 and a proof v1 or so.     *)

aC == Const("a")
id(e) == C("id", <<N, e>>)

\* Numbers in the context  n : N.
Small == {Zero, aC, v0, Lit(0), Lit(2), Lit(3), Const("one"), Const("two"), C("fst", <<Const("s")>>)}
Nums1 == Small
  \cup {Succ(n) : n \in Small}
  \cup {Succ(Succ(n)) : n \in {v0, Lit(2), Const("two"), aC}}
  \cup {C(c, <<m, n>>) : c \in {"add", "sub"}, m \in {v0, Lit(2), Const("two")},
                          n \in {aC, Lit(1), Lit(3), Const("one"), Succ(v0)}}
  \cup {id(n) : n \in {v0, Lit(2)}}
  \cup {C("pred", <<n>>) : n \in Small}
Fns == {Const("succ"), Const("pred"), Lam(N, v0), Lam(N, Succ(v0)), App(Const("add"), v0),
        App(Const("id"), N), Lam(N, v1), Lam(N, C("add", <<v1, v0>>))}
Nums2 ==
  {App(f, n) : f \in Fns, n \in {Lit(3), v0, Succ(v0), C("pred", <<Lit(2)>>), C("add", <<v0, Lit(3)>>)}}
  \cup {Rec(z, st, n) : z \in {Zero, v0}, st \in {Lams(<<N, N>>, v1), Lams(<<N, N>>, Succ(v0))},
                        n \in {Lit(2), v0, Succ(v0), C("pred", <<Lit(3)>>),
                               C("pred", <<C("pred", <<v0>>)>>), C("add", <<v0, Lit(3)>>), C("fst", <<Const("s")>>)}}
  \cup {Let(N, m, b) : m \in {Lit(2), v0, Succ(v0)}, b \in {v0, v1, Succ(v0), C("add", <<v0, v1>>),
                                                              Let(N, Succ(v0), C("add", <<v0, v1>>))}}
  \cup {Apps(Lams(<<N, N>>, b), <<m, n>>) : b \in {v0, v1, C("add", <<v1, v0>>), Lams(<<N>>, v1)},
                                            m \in {Lit(1), v0}, n \in {aC}}

\* Pairs of a number and a proof, and what is done with them.
Mk(n, h) == C("mk", <<N, Const("T"), n, h>>)
Pairs == {Const("s"), Mk(Zero, Const("x")), Mk(aC, Const("y")), Mk(Lit(0), Const("thm")),
          C("id", <<C("Sub", <<N, Const("T")>>), Mk(aC, Const("y"))>>)}
SubRecOn(C0, m, q) == C("Sub_rec", <<N, Const("T"), Lam(C("Sub", <<N, Const("T")>>), C0), m, q>>)
OfPairs ==
  {Proj("Sub", i, q) : i \in {0, 1}, q \in Pairs}
  \cup {SubRecOn(N, Lams(<<N, C("T", <<v0>>)>>, v1), q) : q \in Pairs}
  \cup {SubRecOn(NN, Lams(<<N, C("T", <<v0>>), N>>, C("add", <<v2, v0>>)), q) : q \in Pairs}
  \cup {App(SubRecOn(NN, Lams(<<N, C("T", <<v0>>), N>>, C("add", <<v2, v0>>)), q), Lit(2)) : q \in Pairs}
  \cup {Apps(Lams(<<C("Sub", <<N, Const("T")>>)>>, Proj("Sub", 1, v0)), <<q>>) : q \in Pairs}

\* Proofs by K, and the recursor on them, in the context h : T v0 too.
TRecOn(m, n, h) == C("T_rec", <<Lams(<<N, C("T", <<v0>>)>>, N), m, n, h>>)
OfProofs ==
  {TRecOn(m, n[1], n[2]) : m \in {Lit(1), aC},
     n \in {<<Zero, Const("t")>>, <<Zero, Const("x")>>, <<Zero, Const("thm")>>, <<aC, Const("y")>>,
            <<Lit(0), Const("x")>>, <<C("pred", <<Lit(1)>>), Const("x")>>,
            <<Proj("Sub", 0, Const("s")), Proj("Sub", 1, Const("s"))>>,
            <<Proj("Sub", 0, Mk(Zero, Const("x"))), Proj("Sub", 1, Mk(Zero, Const("x")))>>}}
  \cup {Proj("W", i, Const("p")) : i \in 0 .. 2} \cup {Proj("V", i, Const("q")) : i \in 0 .. 1}

\* Quotients.
QMk(n) == C("Quot_mk", <<N, Const("r"), n>>)
QLift(f, q) == C("Quot_lift", <<N, Const("r"), N, f, Const("resp"), q>>)
OfQuots ==
  {QLift(f, q) : f \in {Const("succ"), Lam(N, Succ(v0))},
     q \in {QMk(aC), QMk(C("pred", <<Lit(2)>>)), C("id", <<C("Quot", <<N, Const("r")>>), QMk(Lit(2))>>)}}
  \cup {C("Quot_lift", <<N, Const("r"), N, Const("succ"), Const("resp")>>),
        QLift(Const("pred"), QMk(aC)),
        Lam(C("Quot", <<N, Const("r")>>), QLift(Const("succ"), v0)),
        C("Quot_ind", <<N, Const("r"), Lam(C("Quot", <<N, Const("r")>>), Const("W")), Lam(N, Const("p")), QMk(aC)>>)}

\* Types and functions, and terms the check refuses.
Families ==
  {Pi(N, N), Pi(N, C("T", <<v0>>)), Pi(Type, v0), Pi(Type, Type), Lam(Type, Lam(v0, v0)), Lam(N, Type),
   Lam(N, Lam(N, v2)), Lam(N, Lam(N, Lam(N, v1))), Lams(<<N, C("T", <<v0>>)>>, v0), Lams(<<N, C("T", <<v1>>)>>, v1),
   Lams(<<N, Pi(N, C("T", <<v1>>))>>, App(v0, v1)), Const("Sub"), App(Const("Sub"), N),
   App(Lam(Type, Lam(v0, v0)), N), Apps(Lams(<<Type, v0>>, v0), <<N, Lit(2)>>),
   Apps(Lams(<<Type, v0, N>>, v1), <<N, Lit(2), v0>>), C("id", <<Type, N>>), App(C("id", <<NN, Const("succ")>>), v0),
   Let(Type, N, Lam(v0, v0)), Let(Type, N, Lam(N, v0)), Apps(Const("Sub_rec"), <<N, Const("T")>>)}
Refused ==
  {App(Zero, Zero), App(Const("succ"), Const("t")), Lam(Zero, v0), Pi(Zero, N), Let(N, Const("t"), v0),
   Let(Zero, Zero, v0), App(Lam(N, v0), N), Proj("Sub", 0, aC), Proj("N", 0, aC), Mk(aC, Const("x")),
   C("id", <<N, Const("t")>>), Apps(Const("add"), <<N, N>>), C("id", <<NN, Const("succ"), Const("x")>>),
   Lam(N, App(v0, v0)), Pi(N, v0), Let(N, Zero, App(v0, v0)), Lams(<<N, C("T", <<v0>>)>>, App(v0, v1)),
   Apps(Lams(<<N, N>>, v0), <<Zero, Const("x")>>), Proj("T", 0, Const("x"))}

InN   == Nums1 \cup Nums2 \cup OfPairs \cup OfProofs \cup OfQuots \cup Families \cup Refused
InNT  == {Proj("Sub", 0, Mk(v1, v0)), TRecOn(Lit(1), v1, v0), Mk(v1, v0), Lam(C("T", <<v1>>), v1),
          SubRecOn(N, Lams(<<N, C("T", <<v0>>)>>, v1), Mk(v1, v0)), Lam(N, C("add", <<v2, v0>>)),
          Let(N, v1, v1), Mk(v0, v0), App(Const("pred"), v1), Lam(N, v0), Lams(<<N, N>>, v1)}
InType == {Lam(v0, v0), Lam(v0, v1), Lam(v0, Lam(v1, v0)), Lam(N, v0), App(Const("id"), v0), Pi(v0, v1)}
AllJobs == {<<<<N>>, e>> : e \in InN} \cup {<<<<N, C("T", <<v0>>)>>, e>> : e \in InNT}
             \cup {<<<<Type>>, e>> : e \in InType}
=============================================================================
