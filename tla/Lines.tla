------------------------------- MODULE Lines --------------------------------
(***************************************************************************)
(* The parser of an export (frontend/parser.rs), line by line.  A line     *)
(* gives an index to a name, a level or an expression, built of what       *)
(* earlier lines gave indices to, or declares something of these.  What    *)
(* the lines spell is kept in tables of nodes, by id; an index may be      *)
(* given again, and may leave a gap.  A line as the exporter writes it is  *)
(* read by the fast path; what is written otherwise, or is rare, by the    *)
(* JSON parser.  A line here is what either of them would find in it.      *)
(***************************************************************************)
EXTENDS Integers, Sequences, SequencesExt

CONSTANTS
  LinesAt,     \* for each place in the export, the lines that may stand there
  U16Max,
  Extensions,  \* the literals that are supported: "nat_lit", "str_lit"
  Disallowed   \* the names of axioms that the policy rejects

Tables  == {"name", "level", "expr"}
None    == 0     \* ids count from 1
NoIndex == 1000000   \* NO_DECL

VARIABLES
  lines,    \* those read so far
  parser    \* Parser, with a status: "reading", "parsed", "declined" or
            \* "refused", which stands for a rejection, an error and a panic

lineVars == <<lines, parser>>

-----------------------------------------------------------------------------
(* Tables.                                                                 *)

Node(op, label, names, levels, exprs) ==
  [op |-> op, label |-> label, names |-> names, levels |-> levels, exprs |-> exprs]

Anon     == Node("anon", 0, <<>>, <<>>, <<>>)
Zero     == Node("zero", 0, <<>>, <<>>, <<>>)
Param(n) == Node("param", 0, <<n>>, <<>>, <<>>)
Prop(z)  == Node("sort", 0, <<>>, <<z>>, <<>>)

\* with_input_len
FreshParser ==
  [terms   |-> [name |-> <<Anon>>, level |-> <<Zero>>, expr |-> <<>>],
   by_idx  |-> [name |-> <<1>>, level |-> <<1>>, expr |-> <<>>],
   interned |-> None,   \* the id of Prop, once a quotient was declared
   declars |-> <<>>, decl_of |-> <<>>, block_sizes |-> <<>>, status |-> "reading"]

\* put_at, of index i, in the vector v, which is filled up with what fill is.
Filled(v, n, fill) == v \o [k \in 1 .. n - Len(v) |-> fill]
PutAt(v, i, x) == [Filled(v, i + 1, None) EXCEPT ![i + 1] = x]

\* push_name, push_level, push_expr
Push(p, table, i, node) ==
  IF table # "expr" /\ Contains(p.terms[table], node) THEN [p EXCEPT !.status = "refused"]
  ELSE [p EXCEPT !.terms[table] = Append(@, node),
                 !.by_idx[table] = PutAt(@, i, Len(p.terms[table]) + 1)]

\* get_name, get_level, get_expr
Get(p, table, i) == IF i < Len(p.by_idx[table]) THEN p.by_idx[table][i + 1] ELSE None
GetAll(p, table, is) == [k \in DOMAIN is |-> Get(p, table, is[k])]

\* What comes of one check after another.
First(checks) ==
  LET bad == SelectInSeq(checks, LAMBDA c : c # "reading")
  IN  IF bad = 0 THEN "reading" ELSE checks[bad]

Unless(wrong, status) == IF wrong THEN status ELSE "reading"
Found(ids)            == Unless(Contains(ids, None), "refused")

Check1(p, checks) ==
  IF p.status = "reading" THEN [p EXCEPT !.status = First(checks)] ELSE p

-----------------------------------------------------------------------------
(* Names, levels and expressions: do_name_str to do_proj.                  *)

DoEntry(p, l) ==
  LET node == Node(l.op, l.label, GetAll(p, "name", l.names),
                   GetAll(p, "level", l.levels), GetAll(p, "expr", l.exprs))
      q == Check1(p, <<
             Unless(l.op = "mdata" \/ (l.op \in {"nat_lit", "str_lit"} \ Extensions), "declined"),
             Unless(l.op = "var" /\ l.label = U16Max, "declined"),
             Unless(l.op = "proj" /\ l.label > U16Max, "refused"),
             Found(node.names), Found(node.levels), Found(node.exprs)>>)
  IN  IF q.status = "reading" THEN Push(q, l.table, l.idx, node) ELSE q

-----------------------------------------------------------------------------
(* Declarations.                                                           *)

\* get_uparams, which unwraps what it finds.
LevelOf(p, name)   == SelectInSeq(p.terms.level, LAMBDA x : x = Param(name))
GetUparams(p, is)  == [k \in DOMAIN is |-> LevelOf(p, Get(p, "name", is[k]))]
FoundUparams(p, is) ==
  First([k \in DOMAIN is |->
    Unless(Get(p, "name", is[k]) = None \/ GetUparams(p, is)[k] = None, "refused")])

AddDeclar(p, d) ==
  IF p.status # "reading" THEN p
  ELSE IF \E i \in DOMAIN p.declars : p.declars[i].name = d.name
  THEN [p EXCEPT !.status = "refused"]
  ELSE [p EXCEPT !.declars = Append(@, d),
                 !.decl_of = [Filled(@, d.name, NoIndex) EXCEPT ![d.name] = Len(p.declars)]]

DeclarOf(kind, name, uparams, ty, vals) ==
  [kind |-> kind, name |-> name, uparams |-> uparams, ty |-> ty, vals |-> vals,
   all |-> <<>>, ctors |-> <<>>, of |-> <<>>, at |-> 0, params |-> 0]

\* Names are displayed to ask the policy.
RECURSIVE Denoted(_, _, _)
Denoted(p, table, id) ==
  LET n == p.terms[table][id]
  IN  [n EXCEPT !.names  = [k \in DOMAIN @ |-> Denoted(p, "name", @[k])],
                !.levels = [k \in DOMAIN @ |-> Denoted(p, "level", @[k])],
                !.exprs  = [k \in DOMAIN @ |-> Denoted(p, "expr", @[k])]]

\* An axiom, a definition, a theorem or an opaque definition.
DoDeclar(p, l) ==
  LET name == Get(p, "name", l.name)
      tys  == GetAll(p, "expr", <<l.ty>> \o l.vals)
      q == Check1(p, <<Unless(l.unsafe, "declined"), Found(<<name>>), Found(tys),
                       FoundUparams(p, l.uparams)>>)
  IN  IF /\ q.status = "reading" /\ l.kind = "axiom"
         /\ Denoted(p, "name", name) \in Disallowed
      THEN [q EXCEPT !.status = "refused"]
      ELSE AddDeclar(q, DeclarOf(l.kind, name, GetUparams(p, l.uparams), tys[1], Tail(tys)))

DoQuot(p, l) ==
  LET name == Get(p, "name", l.name)
      id   == IF p.interned # None THEN p.interned ELSE Len(p.terms.expr) + 1
      q    == Check1(p, <<Found(<<name>>)>>)
  IN  AddDeclar(IF q.status # "reading" \/ p.interned # None THEN q
                ELSE [q EXCEPT !.terms.expr = Append(@, Prop(1)), !.interned = id],
                DeclarOf("quot", name, <<>>, id, <<>>))

-----------------------------------------------------------------------------
(* A block: types, each with the names of its constructors, and these.     *)

BlockSize(l) == Len(l.types) + FoldLeft(LAMBDA n, t : n + Len(t.ctors), 0, l.types)

\* The place of the first constructor that is given for the name.
SpecFor(l, c) == SelectInSeq(l.ctors, LAMBDA s : s.name = c)

DoType(p, l, t, start, uparams, all) ==
  LET name  == Get(p, "name", t.name)
      ctors == GetAll(p, "name", t.ctors)
      q == Check1(p, <<Unless(t.unsafe, "declined"), Found(<<Get(p, "expr", t.ty)>>), Found(ctors)>>)
      sized == [n \in DOMAIN q.block_sizes \cup {name} |->
                  IF n = name THEN <<start, BlockSize(l)>> ELSE q.block_sizes[n]]
      added == AddDeclar([q EXCEPT !.block_sizes = sized],
                 [DeclarOf("type", name, uparams, Get(p, "expr", t.ty), <<>>)
                    EXCEPT !.all = all, !.ctors = ctors, !.params = l.types[1].params])
  IN  Check1(added, [k \in DOMAIN t.ctors |->
        Unless(\/ SpecFor(l, t.ctors[k]) = 0
               \/ Get(p, "expr", l.ctors[SpecFor(l, t.ctors[k])].ty) = None, "refused")])

CtorsOf(p, l, t, uparams) ==
  [k \in DOMAIN t.ctors |->
     [DeclarOf("ctor", Get(p, "name", t.ctors[k]), uparams,
               Get(p, "expr", l.ctors[SpecFor(l, t.ctors[k])].ty), <<>>)
        EXCEPT !.of = <<Get(p, "name", t.name)>>, !.at = k - 1, !.params = l.types[1].params]]

DoBlock(p, l) ==
  LET own     == IF l.types = <<>> THEN <<>> ELSE l.types[1].uparams
      uparams == GetUparams(p, own)
      all     == GetAll(p, "name", [i \in DOMAIN l.types |-> l.types[i].name])
      start   == Len(p.declars)
      q       == Check1(p, <<FoundUparams(p, own), Found(all)>>)
      typed   == FoldLeft(LAMBDA s, t : IF s.status # "reading" THEN s
                                        ELSE DoType(s, l, t, start, uparams, all), q, l.types)
  IN  IF typed.status # "reading" THEN typed
      ELSE FoldLeft(AddDeclar, typed,
                    FlattenSeq([i \in DOMAIN l.types |-> CtorsOf(p, l, l.types[i], uparams)]))

-----------------------------------------------------------------------------
(* Lines.                                                                  *)

\* go1_general
SlowLine(p, l) ==
  CASE l.is = "entry"  -> DoEntry(p, l)
    [] l.is = "declar" -> DoDeclar(p, l)
    [] l.is = "quot"   -> DoQuot(p, l)
    [] l.is = "block"  -> DoBlock(p, l)
    [] l.is = "meta"   -> Check1(p, <<Unless(~l.supported, "declined")>>)
    [] l.is = "junk"   -> Check1(p, <<"refused">>)

\* The shapes that the fast path knows.
FastShape(l) ==
  \/ l.is = "entry" /\ l.op # "mdata"
  \/ l.is = "declar" /\ l.kind \in {"def", "thm"} /\ ~l.unsafe

(* A mutated form of FastLine: a slip that the checked property must catch. *)

FastLineEarly(p, l) ==
  [fallback |-> ~(FastShape(l) /\ l.plain), parser |-> IF FastShape(l) THEN SlowLine(p, l) ELSE p]

\* fast_line enters nothing before it has seen the end of the line: then it does
\* what go1_general does.
FastLine(p, l) ==
  IF FastShape(l) /\ l.plain THEN [fallback |-> FALSE, parser |-> SlowLine(p, l)]
  ELSE [fallback |-> TRUE, parser |-> p]

LinesInit == lines = <<>> /\ parser = FreshParser

ReadLine ==
  /\ parser.status = "reading" /\ Len(lines) < Len(LinesAt)
  /\ \E l \in LinesAt[Len(lines) + 1] :
       LET fast == FastLine(parser, l)
       IN  /\ lines' = Append(lines, l)
           /\ parser' = IF fast.fallback THEN SlowLine(fast.parser, l) ELSE fast.parser

\* finish, up to check_inductives.
FinishLines ==
  /\ parser.status = "reading"
  /\ parser' = [parser EXCEPT !.status = "parsed",
                              !.decl_of = Filled(@, Len(parser.terms.name), NoIndex)]
  /\ UNCHANGED lines

LinesDone == parser.status # "reading" /\ UNCHANGED lineVars

LinesNext == ReadLine \/ FinishLines \/ LinesDone

-----------------------------------------------------------------------------
(* What an export says, without ids and tables: an index is what the last  *)
(* line before that gave it, as a tree.                                    *)

Undefined == Node("undefined", 0, <<>>, <<>>, <<>>)

Entries(table, n) ==
  SelectSeq([m \in 1 .. n |-> m], LAMBDA m : lines[m].is = "entry" /\ lines[m].table = table)

RECURSIVE Spelled(_, _, _)
\* What line m gives an index to.
EntryAt(m) ==
  LET l == lines[m]
  IN  Node(l.op, l.label, [k \in DOMAIN l.names |-> Spelled("name", l.names[k], m - 1)],
           [k \in DOMAIN l.levels |-> Spelled("level", l.levels[k], m - 1)],
           [k \in DOMAIN l.exprs |-> Spelled("expr", l.exprs[k], m - 1)])

\* Index i of the table, after n lines.
Spelled(table, i, n) ==
  LET given == SelectSeq(Entries(table, n), LAMBDA m : lines[m].idx = i)
  IN  IF given # <<>> THEN EntryAt(given[Len(given)])
      ELSE IF i = 0 /\ table = "name" THEN Anon
      ELSE IF i = 0 /\ table = "level" THEN Zero
      ELSE Undefined

AllSpelled(table, is, n) == [k \in DOMAIN is |-> Spelled(table, is[k], n)]
ParamsAt(is, n) == [k \in DOMAIN is |-> Param(Spelled("name", is[k], n))]

\* The declarations that line m makes.
DeclaresAt(m) ==
  LET l == lines[m]
      name(i) == Spelled("name", i, m - 1)
      expr(i) == Spelled("expr", i, m - 1)
  IN  CASE l.is = "declar" ->
             <<DeclarOf(l.kind, name(l.name), ParamsAt(l.uparams, m - 1), expr(l.ty),
                        AllSpelled("expr", l.vals, m - 1))>>
        [] l.is = "quot" -> <<DeclarOf("quot", name(l.name), <<>>, Prop(Zero), <<>>)>>
        [] l.is = "block" ->
             [i \in DOMAIN l.types |->
                [DeclarOf("type", name(l.types[i].name), ParamsAt(l.types[1].uparams, m - 1),
                          expr(l.types[i].ty), <<>>)
                   EXCEPT !.all = [k \in DOMAIN l.types |-> name(l.types[k].name)],
                          !.ctors = AllSpelled("name", l.types[i].ctors, m - 1),
                          !.params = l.types[1].params]]
             \o FlattenSeq([i \in DOMAIN l.types |->
                  [k \in DOMAIN l.types[i].ctors |->
                     [DeclarOf("ctor", name(l.types[i].ctors[k]),
                               ParamsAt(l.types[1].uparams, m - 1),
                               IF SpecFor(l, l.types[i].ctors[k]) = 0 THEN Undefined
                               ELSE expr(l.ctors[SpecFor(l, l.types[i].ctors[k])].ty), <<>>)
                        EXCEPT !.of = <<name(l.types[i].name)>>, !.at = k - 1,
                               !.params = l.types[1].params]]])
        [] OTHER -> <<>>

DeclaredBy(n) == FlattenSeq([m \in 1 .. n |-> DeclaresAt(m)])

\* What line m asks for that the checker does not support.
Unsupported(m) ==
  LET l == lines[m]
  IN  \/ l.is = "entry" /\ (\/ l.op \in ({"mdata", "nat_lit", "str_lit"} \ Extensions)
                            \/ l.op = "var" /\ l.label = U16Max)
      \/ l.is = "declar" /\ l.unsafe
      \/ l.is = "block" /\ \E i \in DOMAIN l.types : l.types[i].unsafe
      \/ l.is = "meta" /\ ~l.supported

\* Line m refers to what is not there, or gives for new what is there already.
Wrong(m) ==
  LET l == lines[m]
      e == EntryAt(m)
      made == DeclaresAt(m)
      known == {d.name : d \in ToSet(DeclaredBy(m - 1))}
      spelled == {EntryAt(k) : k \in ToSet(Entries("level", m - 1))}
  IN  \/ l.is = "junk"
      \/ l.is = "entry" /\
           \/ Undefined \in ToSet(e.names) \cup ToSet(e.levels) \cup ToSet(e.exprs)
           \/ l.table # "expr" /\ \E k \in ToSet(Entries(l.table, m - 1)) : EntryAt(k) = e
           \/ l.op = "proj" /\ l.label > U16Max
      \/ \E i \in DOMAIN made :
           \/ Undefined \in {made[i].name, made[i].ty} \cup ToSet(made[i].vals)
           \/ made[i].name \in known
           \/ \E j \in DOMAIN made : i # j /\ made[i].name = made[j].name
           \/ ~(ToSet(made[i].uparams) \subseteq spelled)
           \/ made[i].kind = "axiom" /\ made[i].name \in Disallowed

-----------------------------------------------------------------------------
(* Properties.                                                             *)

\* The declarations of the parser, ids followed to what they denote.
Made ==
  LET names(ids) == [k \in DOMAIN ids |-> Denoted(parser, "name", ids[k])]
  IN  [i \in DOMAIN parser.declars |->
         LET d == parser.declars[i]
         IN  [d EXCEPT !.name = Denoted(parser, "name", @),
                       !.uparams = [k \in DOMAIN @ |-> Denoted(parser, "level", @[k])],
                       !.ty = Denoted(parser, "expr", @),
                       !.vals = [k \in DOMAIN @ |-> Denoted(parser, "expr", @[k])],
                       !.all = names(@), !.ctors = names(@), !.of = names(@)]]

IndexOf(name) ==
  LET i == SelectInSeq(parser.declars, LAMBDA d : d.name = name)
  IN  IF i = 0 THEN NoIndex ELSE i - 1

\* The blocks among the lines, as places among the declarations.
BlockPlaces ==
  {<<Spelled("name", lines[m].types[i].name, m - 1), Len(DeclaredBy(m - 1)), Len(DeclaresAt(m))>> :
     <<m, i>> \in {<<m, i>> \in (DOMAIN lines) \X (1 .. 3) :
                     lines[m].is = "block" /\ i \in DOMAIN lines[m].types}}

\* What was read is what the lines say: each index meant, where it was used,
\* what was last spelled for it, however it was written and however often
\* indices were given again; two ids never denote one name or one level, which
\* are compared by id; each name finds its declaration and each block its
\* place.  What ends the reading is a line that is wrong or not supported.
LinesMean ==
  IF parser.status \in {"reading", "parsed"}
  THEN /\ Made = DeclaredBy(Len(lines))
       /\ \A t \in {"name", "level"} : \A j, k \in DOMAIN parser.terms[t] :
            Denoted(parser, t, j) = Denoted(parser, t, k) => j = k
       /\ \A n \in DOMAIN parser.decl_of : parser.decl_of[n] = IndexOf(n)
       /\ parser.status = "parsed" => DOMAIN parser.decl_of = DOMAIN parser.terms.name
       /\ {<<Denoted(parser, "name", n), parser.block_sizes[n][1], parser.block_sizes[n][2]>> :
             n \in DOMAIN parser.block_sizes} = BlockPlaces
       /\ \A m \in DOMAIN lines : ~Unsupported(m) /\ ~Wrong(m)
  ELSE /\ parser.status = "declined" => Unsupported(Len(lines))
       /\ parser.status = "refused" => Wrong(Len(lines))
=============================================================================
