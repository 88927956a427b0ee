------------------------------ MODULE MCDeclars ------------------------------
(* Exports of two and three items; and the lines of exports, read on their   *)
(* own: some that each export starts with, then any three of many.           *)
EXTENDS Declars, Lines

Recs == [n \in {"A", "B", "A.rec"} |-> n \o ".rec"]
AllNames == {"A", "B", "A.rec", "B.rec", "A.rec.rec", "a", "b", "b2", "c", "d", "e", "q", "qm"}

Ones == {{}, {"A"}, {"a"}, {"A.rec"}, {"B"}, {"c"}, {"d"}}

Defs   == {Plain(n, r) : n \in {"c", "d"}, r \in Ones}
Clash  == {Plain("A.rec", {}), Block(<<Type("A.rec", {}, <<>>)>>)}
Single == {Block(<<Type("A", r, <<Ctor("a", {"A"} \cup s)>>)>>)
            : r \in {{}, {"a"}, {"c"}, {"B"}}, s \in {{}, {"a"}, {"A.rec"}, {"c"}}}
Empty  == {Block(<<Type("B", r, <<>>)>>) : r \in Ones}
Mutual == {Block(<<Type("A", {}, <<Ctor("a", r)>>), Type("B", {}, <<Ctor("b", {"A", "B"}), Ctor("b2", {})>>)>>)
            : r \in {{"B"}, {"b"}, {"c"}}}
Quots  == {Quot("q", {}), Quot("qm", {"q"})}

Items == Defs \cup Clash \cup Single \cup Empty \cup Mutual \cup Quots
Few   == {Plain("c", r) : r \in {{}, {"A"}, {"A.rec"}, {"a"}}}
           \cup {Plain("d", r) : r \in {{"c"}, {"a"}, {"b"}, {"A.rec", "c"}}}
           \cup {Plain("e", r) : r \in {{"c"}, {"B.rec"}}}
           \cup Clash \cup Quots
           \cup {Block(<<Type("A", r, <<Ctor("a", {"A"})>>)>>) : r \in {{}, {"d"}}}
           \cup {b \in Mutual : b.types[1].ctors[1].refs # {"b"}}
           \cup {Block(<<Type("B", r, <<>>)>>) : r \in {{"A"}, {"c"}}}

Pairs   == {<<x, y>> : x, y \in Items}
Triples == {<<x, y, z>> : x, y, z \in Few}

\* As many declarations as have an index, and more: 8 of them at most.
Long == {<<Block(<<Type("A", {}, <<Ctor("a", {})>>), Type("B", {}, <<Ctor("b", {"A"}), Ctor("b2", {})>>)>>)>> \o s :
           s \in {<<Quot("q", {}), Plain("c", {"A.rec"})>>, <<Plain("c", {"b"}), Plain("d", {}), Quot("q", {})>>,
                 <<Plain("c", {}), Plain("d", {"B.rec"}), Quot("q", {}), Quot("qm", {"q"})>>,
                 <<Plain("c", {}), Plain("d", {}), Plain("d", {}), Plain("e", {})>>}}

Exports == Pairs \cup Triples \cup Long

-----------------------------------------------------------------------------
(* Lines, as the exporter writes them unless said otherwise.                 *)

Entry(table, i, op, label, ns, ls, es) ==
  [is |-> "entry", table |-> table, idx |-> i, op |-> op, label |-> label,
   names |-> ns, levels |-> ls, exprs |-> es, plain |-> TRUE]
NameLine(i, op, label, pre)       == Entry("name", i, op, label, <<pre>>, <<>>, <<>>)
LevelLine(i, op, ns, ls)          == Entry("level", i, op, 0, ns, ls, <<>>)
ExprLine(i, op, label, ns, ls, es) == Entry("expr", i, op, label, ns, ls, es)
DeclLine(kind, n, ups, ty, vals) ==
  [is |-> "declar", kind |-> kind, name |-> n, uparams |-> ups, ty |-> ty, vals |-> vals,
   unsafe |-> FALSE, plain |-> TRUE]
QuotLine(n)       == [is |-> "quot", name |-> n]
BlockLine(ts, cs) == [is |-> "block", types |-> ts, ctors |-> cs]
TypeOf(n, ups, ty, cs) ==
  [name |-> n, uparams |-> ups, ty |-> ty, ctors |-> cs, unsafe |-> FALSE, params |-> Len(ups)]
CtorOf(n, ty)     == [name |-> n, ty |-> ty]
Otherwise(l)      == [l EXCEPT !.plain = FALSE]   \* fields in another order, say

Started == <<
  NameLine(1, "str", "a", 0), NameLine(2, "str", "b", 0), LevelLine(1, "param", <<1>>, <<>>),
  ExprLine(0, "sort", 0, <<>>, <<1>>, <<>>), ExprLine(1, "const", 0, <<2>>, <<0>>, <<>>) >>

Later == {
  NameLine(1, "str", "c", 0), NameLine(2, "str", "a", 1), NameLine(4, "num", 1, 2), NameLine(3, "str", "a", 0),
  NameLine(0, "str", "e", 0), NameLine(3, "str", "c", 4), Otherwise(NameLine(3, "str", "f", 2)),
  LevelLine(1, "succ", <<>>, <<1>>), LevelLine(3, "max", <<>>, <<0, 1>>), LevelLine(2, "imax", <<>>, <<3, 1>>),
  LevelLine(2, "param", <<1>>, <<>>), Otherwise(LevelLine(0, "param", <<2>>, <<>>)),
  ExprLine(1, "app", 0, <<>>, <<>>, <<1, 1>>), ExprLine(0, "sort", 0, <<>>, <<0>>, <<>>),
  ExprLine(4, "lam", 0, <<>>, <<>>, <<0, 1>>), ExprLine(3, "let", 1, <<>>, <<>>, <<0, 4, 1>>),
  ExprLine(2, "proj", 4, <<2>>, <<>>, <<3>>), ExprLine(2, "var", 3, <<>>, <<>>, <<>>),
  ExprLine(2, "str_lit", 0, <<>>, <<>>, <<>>), ExprLine(0, "const", 0, <<4>>, <<2>>, <<>>),
  Otherwise(ExprLine(1, "mdata", 0, <<>>, <<>>, <<1>>)), Otherwise(ExprLine(2, "pi", 0, <<>>, <<>>, <<0, 1>>)),
  DeclLine("def", 1, <<1>>, 0, <<1>>), DeclLine("thm", 2, <<>>, 1, <<0>>), Otherwise(DeclLine("def", 4, <<2>>, 0, <<2>>)),
  DeclLine("opaque", 3, <<2, 1>>, 1, <<1>>), DeclLine("axiom", 1, <<>>, 0, <<>>), DeclLine("axiom", 2, <<>>, 0, <<>>),
  [DeclLine("def", 1, <<>>, 0, <<1>>) EXCEPT !.unsafe = TRUE], QuotLine(2), QuotLine(1),
  BlockLine(<<TypeOf(1, <<1>>, 0, <<2, 4>>)>>, <<CtorOf(4, 1), CtorOf(2, 0), CtorOf(7, 7)>>),
  BlockLine(<<TypeOf(2, <<>>, 1, <<>>), TypeOf(1, <<1>>, 0, <<3>>)>>, <<CtorOf(3, 1)>>),
  BlockLine(<<TypeOf(1, <<>>, 0, <<2>>)>>, <<CtorOf(1, 1)>>), BlockLine(<<TypeOf(3, <<>>, 0, <<3>>)>>, <<CtorOf(3, 1)>>),
  BlockLine(<<TypeOf(1, <<>>, 9, <<>>), [TypeOf(2, <<>>, 0, <<>>) EXCEPT !.unsafe = TRUE]>>, <<>>),
  BlockLine(<<>>, <<>>), [is |-> "meta", supported |-> FALSE], [is |-> "junk"] }

AllLines == [n \in 1 .. 8 |-> IF n <= Len(Started) THEN {Started[n]} ELSE Later]

Policy == {Node("str", "b", <<Anon>>, <<>>, <<>>)}

\* The part that a behaviour is not about has nothing left to do.
LinesIdle   == lines = <<>> /\ parser = [FreshParser EXCEPT !.status = "parsed", !.decl_of = <<NoIndex>>]
DeclarsIdle ==
  /\ file = <<>> /\ phase = "done" /\ at = 0 /\ declars = <<>> /\ decl_of = <<>> /\ block_sizes = <<>>
  /\ env_ext = <<>> /\ blocks = <<>> /\ new_declars = <<>> /\ checked = {}
  /\ reached = [t \in Threads |-> -1] /\ known = [t \in Threads |-> {}] /\ verdict = "none"

Init == (DeclarsInit /\ LinesIdle) \/ (LinesInit /\ DeclarsIdle)
Next == (DeclarsNext /\ UNCHANGED lineVars) \/ (LinesNext /\ UNCHANGED declarVars)
Spec == Init /\ [][Next]_<<declarVars, lineVars>>
=============================================================================
