----------------------------- MODULE MCSessions -----------------------------
(* Expressions, declarations and values on which the caches could mislead.   *)
EXTENDS Sessions, TLC

Blank == [op |-> "leaf", params |-> {}, kids |-> <<>>, asks |-> <<>>, uses |-> {}, dom |-> "none",
          needs |-> <<>>, bad |-> FALSE, local |-> FALSE]

LeafOf(ps)    == [Blank EXCEPT !.params = ps]
AppOf(es)     == [Blank EXCEPT !.op = "app", !.kids = es]
LamOf(d, es)  == [Blank EXCEPT !.op = "lam", !.dom = d, !.kids = es]

\* x0 is the innermost variable; g asks for one of domain A, whether it is
\* under A or under B; conversion looks into fv while it checks ask.
Nodes == [
  su  |-> LeafOf({"u"}), sv |-> LeafOf({"v"}), s0 |-> LeafOf({}),
  x0  |-> [Blank EXCEPT !.op = "var", !.uses = {0}],
  fu  |-> AppOf(<<"su", "s0">>),
  fv  |-> AppOf(<<"sv">>),
  no  |-> [AppOf(<<"s0">>) EXCEPT !.bad = TRUE],
  g   |-> [AppOf(<<"x0", "s0">>) EXCEPT !.uses = {0}, !.needs = [i \in {0} |-> "A"]],
  ask |-> [AppOf(<<"s0", "s0">>) EXCEPT !.asks = <<"fv", "lamB">>],
  lamA |-> LamOf("A", <<"s0", "g">>),
  lamB |-> LamOf("B", <<"s0", "g">>),
  piA  |-> [LamOf("A", <<"su", "lamC">>) EXCEPT !.op = "pi"],
  lamC |-> [LamOf("C", <<"x0", "fv">>) EXCEPT !.uses = {0}],
  letA |-> [LamOf("A", <<"s0", "fu", "g">>) EXCEPT !.op = "let"],
  prj  |-> [AppOf(<<"fu">>) EXCEPT !.op = "proj", !.local = TRUE],
  top  |-> AppOf(<<"s0", "fv">>) ]

\* Parts come before what they are parts of, and before what asks about them.
Heights ==
  LET up == <<"su", "sv", "s0", "x0", "fu", "fv", "no", "g", "lamA", "lamB", "ask", "lamC", "piA",
              "letA", "prj", "top">>
  IN [e \in DOMAIN Nodes |-> CHOOSE i \in DOMAIN up : up[i] = e]

Lists == [U |-> <<"u">>, V |-> <<"v">>, UV |-> <<"u", "v">>, VU |-> <<"v", "u">>, UU |-> <<"u", "u">>]

DeclarOf(us, es) == [uparams |-> us, parts |-> es]
AllDecls == {
  DeclarOf("U", <<"fu", "lamA">>), DeclarOf("V", <<"top", "fu">>), DeclarOf("UV", <<"top", "letA">>),
  DeclarOf("V", <<"fv", "prj">>),  DeclarOf("U", <<"ask", "lamB">>), DeclarOf("U", <<"ask", "top">>),
  DeclarOf("VU", <<"piA", "prj">>), DeclarOf("U", <<"letA", "piA">>), DeclarOf("UU", <<"s0">>),
  DeclarOf("V", <<"ask", "top">>), DeclarOf("U", <<"prj", "no">>) }

\* su and sv share a slot.
SlotOf(e) == IF e \in {"su", "sv", "x0"} THEN 1 ELSE 2

\* a and b share digest and full key, c shares its digest with them, and d
\* holds a variable; e is a lambda within an inference, which has no key.
ValueOf(w, dig, full, src) == [whnf |-> w, digest |-> dig, full |-> full, verified |-> TRUE,
  closed |-> TRUE, head |-> 2, source |-> src, local |-> FALSE]
AllValues ==
  [a |-> ValueOf("p", 1, "K", "ea"), b |-> ValueOf("q", 1, "K", "eb"), c |-> ValueOf("q", 1, "L", "ec"),
   d |-> [ValueOf("p", 2, "M", "ed") EXCEPT !.closed = FALSE, !.verified = FALSE],
   e |-> [ValueOf("q", 3, NoKey, "ee") EXCEPT !.verified = FALSE],
   p |-> [ValueOf("p", 4, "P", "ep") EXCEPT !.head = NoHead],
   q |-> [ValueOf("q", 5, "Q", "eq") EXCEPT !.head = NoHead]]
   @@ (Sort0 :> [ValueOf(Sort0, 6, "S", "sort") EXCEPT !.head = NoHead])

AdmitOf(k) == k % 3
BitOf(k)   == IF k \in {2, 4} THEN 0 ELSE 1
=============================================================================
