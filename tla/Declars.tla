------------------------------- MODULE Declars -------------------------------
(***************************************************************************)
(* What a declaration may refer to (checker/env.rs, checker/context.rs).   *)
(* The parser fills one table with all declarations of an export; the      *)
(* inductive blocks of it are derived again, each against what comes       *)
(* before it; the derived declarations, recursors added, replace the       *)
(* declared ones; and threads check the rest, each against what the cutoff *)
(* of its place lets it see or what the thread's caches know from before.  *)
(* A declaration is its name and the names it refers to; that it is well   *)
(* typed otherwise is taken for granted.                                   *)
(***************************************************************************)
EXTENDS Integers, Sequences, SequencesExt

CONSTANTS
  Names,
  Files,      \* the exports, as sequences of items
  RecOf,      \* the name of the recursor of each inductive type
  Threads,    \* the threads that check
  NO_DECL     \* u32::MAX, which stands for no index

NoDeclar  == [kind |-> "none"]

\* What an export may hold: see Plain, Quot and Block.
CtorSpecs  == [name : Names, refs : SUBSET Names]
TypeSpecs  == [name : DOMAIN RecOf, refs : SUBSET Names, ctors : Seq(CtorSpecs)]
Exportable == [name : Names, kind : {"plain", "quot"}, refs : SUBSET Names,
               inds : {<<>>}, ctors : {<<>>}, derived : {FALSE}]
                \cup [kind : {"block"}, types : Seq(TypeSpecs)]

ASSUME DeclarsAssumption ==
  /\ Threads # {}
  /\ NO_DECL \in Nat
  /\ DOMAIN RecOf \subseteq Names /\ RecOf \in [DOMAIN RecOf -> Names]
  /\ \A f \in Files : f \in Seq(Exportable)

VARIABLES
  file,
  phase,        \* "parse", "derive", "replace", "check" or "done"
  at,           \* the next item, or the index of the next declaration
  declars,      \* the declarations in order; indices count from 0
  decl_of,      \* the index of a name
  block_sizes,  \* where the block of an inductive type starts, and its size
  env_ext,      \* the declarations derived so far, by name
  blocks,       \* the derived blocks, in order, as far as they wait
  new_declars,  \* the table that replaces declars
  checked,      \* the indices checked
  reached,      \* the last index that each thread took
  known,        \* the names that the caches of each thread know
  verdict

tables == <<declars, decl_of, block_sizes>>
declarVars   == <<file, phase, at, tables, env_ext, blocks, new_declars, checked,
            reached, known, verdict>>

-----------------------------------------------------------------------------
(* Exports.  An item is a declaration of its own, one of the primitives of *)
(* quotients, or a block of inductive types with their constructors.       *)

Declar(name, kind, refs, inds, ctors) ==
  [name |-> name, kind |-> kind, refs |-> refs, inds |-> inds, ctors |-> ctors,
   derived |-> FALSE]

Plain(name, refs)       == Declar(name, "plain", refs, <<>>, <<>>)
Quot(name, refs)        == Declar(name, "quot", refs, <<>>, <<>>)
Type(name, refs, ctors) == [name |-> name, refs |-> refs, ctors |-> ctors]
Ctor(name, refs)        == [name |-> name, refs |-> refs]

NamesOf(s) == [i \in DOMAIN s |-> s[i].name]

\* The declarations of a block: its types, then all their constructors.
Declared(types) ==
  [i \in DOMAIN types |->
     Declar(types[i].name, "type", types[i].refs, NamesOf(types), NamesOf(types[i].ctors))]
  \o FlattenSeq([i \in DOMAIN types |->
       [j \in DOMAIN types[i].ctors |->
          Declar(types[i].ctors[j].name, "ctor", types[i].ctors[j].refs, <<>>, <<>>)]])

DeclarsOf(item) == IF item.kind = "block" THEN Declared(item.types) ELSE <<item>>

Block(types) == [kind |-> "block", types |-> types]

Unique(ds) == \A i, j \in DOMAIN ds : ds[i].name = ds[j].name => i = j

\* decl_of for the table ds.
Numbered(ds) ==
  [n \in {ds[i].name : i \in DOMAIN ds} |-> (CHOOSE i \in DOMAIN ds : ds[i].name = n) - 1]

DeclarsInit ==
  /\ file \in Files
  /\ phase = "parse" /\ at = 0
  /\ declars = <<>> /\ decl_of = <<>> /\ block_sizes = <<>>
  /\ env_ext = <<>> /\ blocks = <<>> /\ new_declars = <<>>
  /\ checked = {}
  /\ reached = [t \in Threads |-> -1]
  /\ known = [t \in Threads |-> {}]
  /\ verdict = "none"

Stop(with) ==
  /\ verdict' = with /\ phase' = "done"
  /\ UNCHANGED <<file, at, tables, env_ext, blocks, new_declars, checked, reached, known>>

Reject == Stop("reject")

-----------------------------------------------------------------------------
(* What is visible.                                                        *)

LookupIdx(n) == IF n \in DOMAIN decl_of THEN decl_of[n] ELSE NO_DECL

(* Mutated forms of an operator, each a slip the checked properties must
   catch, stand before the operator they replace. *)

GetOldByIndexFirst(n, cutoff) ==
  IF LookupIdx(n) < cutoff THEN declars[LookupIdx(n) + 1]
  ELSE IF n \in DOMAIN env_ext THEN env_ext[n] ELSE NoDeclar

\* get_old_declar: a derived declaration hides the declared one.
GetOld(n, cutoff) ==
  IF n \in DOMAIN env_ext THEN env_ext[n]
  ELSE IF LookupIdx(n) < cutoff THEN declars[LookupIdx(n) + 1] ELSE NoDeclar

\* get_declar, with the names of the extension temp_declars.
Sees(n, temp, cutoff) == n \in temp \/ GetOld(n, cutoff) # NoDeclar

\* EnvLimit::ByName.
ByName(n) == IF LookupIdx(n) = NO_DECL THEN 0 ELSE LookupIdx(n)

-----------------------------------------------------------------------------
(* Parsing: add_declar for each declaration of an item.                    *)

\* The declarations that have an index.
Numberable(ds) == SubSeq(ds, 1, IF Len(ds) < NO_DECL THEN Len(ds) ELSE NO_DECL)

ParseItem ==
  /\ phase = "parse" /\ at < Len(file)
  /\ LET item == file[at + 1]
         all  == declars \o DeclarsOf(item)
         size == Len(DeclarsOf(item))
     IN  IF ~Unique(Numberable(all)) THEN Reject
         ELSE IF Len(all) > NO_DECL THEN Stop("decline")
         ELSE /\ declars' = all
              /\ decl_of' = Numbered(all)
              /\ block_sizes' =
                   IF item.kind # "block" THEN block_sizes
                   ELSE [n \in DOMAIN block_sizes \cup {item.types[i].name : i \in DOMAIN item.types} |->
                           IF n \in DOMAIN block_sizes THEN block_sizes[n]
                           ELSE <<Len(declars), size>>]
              /\ at' = at + 1
              /\ UNCHANGED <<file, phase, env_ext, blocks, new_declars, checked, reached, known, verdict>>

ParseEnd ==
  /\ phase = "parse" /\ at = Len(file)
  /\ phase' = "derive" /\ at' = 0
  /\ UNCHANGED <<file, tables, env_ext, blocks, new_declars, checked, reached, known, verdict>>

-----------------------------------------------------------------------------
(* Deriving.                                                               *)

\* self.declars[name].
Original(n) == declars[decl_of[n] + 1]

\* check_inductive_declar: the types see what comes before the block, the
\* constructors the types too.
BlockSees(d, start) ==
  \A i \in DOMAIN d.inds :
    LET ty == Original(d.inds[i])
    IN  /\ \A n \in ty.refs : Sees(n, {}, start)
        /\ \A j \in DOMAIN ty.ctors :
             \A n \in Original(ty.ctors[j]).refs : Sees(n, ToSet(d.inds), start)

\* mk_declars: each type and its constructors, then the recursors.
DerivedBlock(d) ==
  LET Made(n) == [Original(n) EXCEPT !.derived = TRUE]
      group   == [i \in DOMAIN d.inds |->
                    LET ty == Made(d.inds[i])
                    IN  <<ty>> \o [j \in DOMAIN ty.ctors |-> Made(ty.ctors[j])]]
      mine    == FlattenSeq(group)
      recs    == [i \in DOMAIN d.inds |->
                    [Declar(RecOf[d.inds[i]], "rec", ToSet(NamesOf(mine)), <<>>, <<>>)
                       EXCEPT !.derived = TRUE]]
  IN  mine \o recs

\* A block of size declarations from start on was derived.
Derived(start, size, ds) ==
  /\ env_ext' = [n \in DOMAIN env_ext \cup {ds[i].name : i \in DOMAIN ds} |->
                   IF \E i \in DOMAIN ds : ds[i].name = n
                   THEN ds[CHOOSE i \in DOMAIN ds : ds[i].name = n] ELSE env_ext[n]]
  /\ blocks' = Append(blocks, [start |-> start, size |-> size, declars |-> ds])
  /\ at' = start + size
  /\ UNCHANGED <<file, phase, tables, new_declars, checked, reached, known, verdict>>

Deriving == phase = "derive" /\ at < Len(declars)

Pass ==
  /\ Deriving /\ declars[at + 1].kind \notin {"quot", "type"}
  /\ at' = at + 1
  /\ UNCHANGED <<file, phase, tables, env_ext, blocks, new_declars, checked, reached, known, verdict>>

\* derive_quot: a primitive asks for those before it by name.
DeriveQuot ==
  /\ Deriving /\ declars[at + 1].kind = "quot"
  /\ LET d == declars[at + 1]
     IN  IF \A n \in d.refs : Sees(n, {}, ByName(d.name))
         THEN Derived(at, 1, <<[d EXCEPT !.derived = TRUE]>>)
         ELSE Reject

DeriveBlock ==
  /\ Deriving /\ declars[at + 1].kind = "type"
  /\ LET d     == declars[at + 1]
         start == block_sizes[d.name][1]
     IN  IF BlockSees(d, start)
         THEN Derived(start, block_sizes[d.name][2], DerivedBlock(d))
         ELSE Reject

DeriveEnd ==
  /\ phase = "derive" /\ at = Len(declars)
  /\ phase' = "replace" /\ at' = 0
  /\ block_sizes' = <<>>
  /\ UNCHANGED <<file, declars, decl_of, env_ext, blocks, new_declars, checked, reached, known, verdict>>

-----------------------------------------------------------------------------
(* Replacing the declared blocks by the derived ones.                      *)

\* The first block that waits, if it is the one declared here.
Here == blocks # <<>> /\ blocks[1].start = at

\* How many declared declarations a derived block stands for.
Skipped(b) == b.size

Replace ==
  /\ phase = "replace" /\ at < Len(declars)
  /\ LET here == IF Here THEN blocks[1].declars ELSE <<declars[at + 1]>>
         all  == new_declars \o here
     IN  IF ~Unique(all) THEN Reject
         ELSE /\ new_declars' = all
              /\ at' = at + (IF Here THEN Skipped(blocks[1]) ELSE 1)
              /\ blocks' = IF Here THEN Tail(blocks) ELSE blocks
              /\ block_sizes' =
                   [n \in DOMAIN block_sizes \cup
                          {here[i].name : i \in {j \in DOMAIN here : here[j].kind = "type"}} |->
                      IF n \in DOMAIN block_sizes THEN block_sizes[n]
                      ELSE <<Len(new_declars), Len(here)>>]
              /\ UNCHANGED <<file, phase, declars, decl_of, env_ext, checked, reached, known, verdict>>

\* The checking threads have no extension, and do nothing for what was derived.
ReplaceEnd ==
  /\ phase = "replace" /\ at >= Len(declars)
  /\ IF Len(new_declars) > NO_DECL + 1 THEN Stop("internal")
     ELSE /\ declars' = new_declars
          /\ decl_of' = Numbered(new_declars)
          /\ env_ext' = <<>>
          /\ checked' = {i - 1 : i \in {j \in DOMAIN new_declars : new_declars[j].kind # "plain"}}
          /\ phase' = "check"
          /\ UNCHANGED <<file, at, block_sizes, blocks, new_declars, reached, known, verdict>>

-----------------------------------------------------------------------------
(* Checking.                                                               *)

Unchecked == 0 .. Len(declars) - 1 \ checked

ClaimableInAnyOrder(t) == Unchecked

\* What thread t may take next.  Claims ascend and a range is taken in order, so
\* what t passes by has to be another thread's.
Claimable(t) ==
  {i \in Unchecked :
     /\ i > reached[t]
     /\ \A j \in Unchecked : j < i => \E u \in Threads \ {t} : j > reached[u]}

\* Thread t checks declaration i.  What the thread looked up before, it may find
\* in its caches, which outlive declarations and in part sessions too.
Check(t, i) ==
  LET d == declars[i + 1]
  IN  \E cached \in {{}, known[t]} :
        IF \A n \in d.refs \ cached : Sees(n, {}, ByName(d.name))
        THEN /\ checked' = checked \cup {i}
             /\ reached' = [reached EXCEPT ![t] = i]
             /\ known' = [known EXCEPT ![t] = @ \cup d.refs]
             /\ UNCHANGED <<file, phase, at, tables, env_ext, blocks, new_declars, verdict>>
        ELSE Reject

CheckNext == phase = "check" /\ \E t \in Threads : \E i \in Claimable(t) : Check(t, i)

Accept ==
  /\ phase = "check" /\ Unchecked = {}
  /\ verdict' = "accept" /\ phase' = "done"
  /\ UNCHANGED <<file, at, tables, env_ext, blocks, new_declars, checked, reached, known>>

Done == phase = "done" /\ UNCHANGED declarVars

DeclarsNext ==
  \/ ParseItem \/ ParseEnd
  \/ Pass \/ DeriveQuot \/ DeriveBlock \/ DeriveEnd
  \/ Replace \/ ReplaceEnd
  \/ CheckNext \/ Accept
  \/ Done

DeclarsSpec == DeclarsInit /\ [][DeclarsNext]_declarVars

-----------------------------------------------------------------------------
(* Properties.                                                             *)

\* The names an item brings into being, its recursors included.
Gives(item) ==
  NamesOf(DeclarsOf(item))
  \o (IF item.kind = "block"
      THEN [i \in DOMAIN item.types |-> RecOf[item.types[i].name]] ELSE <<>>)

GivenBefore(i) == UNION {ToSet(Gives(file[j])) : j \in 1 .. i - 1}

\* What an item may refer to, besides what comes before it.
RefersOnlyTo(item, before) ==
  IF item.kind # "block" THEN item.refs \subseteq before
  ELSE \A i \in DOMAIN item.types :
         /\ item.types[i].refs \subseteq before
         /\ \A j \in DOMAIN item.types[i].ctors :
              item.types[i].ctors[j].refs \subseteq before \cup ToSet(NamesOf(item.types))

WellFounded ==
  /\ IsInjective(FlattenSeq([i \in DOMAIN file |-> Gives(file[i])]))
  /\ \A i \in DOMAIN file : RefersOnlyTo(file[i], GivenBefore(i))

(* An export is accepted exactly if no name is given twice, recursors included,
   and everything refers only to what comes before it in the file, whatever
   places the derived declarations moved to, whatever thread checks what and
   whatever its caches know.  A table with one declaration more than there are
   indices is not turned away, and its last declaration sees nothing. *)
AcceptsExactly ==
  /\ verdict = "accept" => WellFounded
  /\ verdict = "reject" => ~WellFounded \/ Len(new_declars) = NO_DECL + 1

(* While blocks are derived, what they see of earlier blocks and of the
   primitives is what was derived of them: the declared forms lack the numbers
   of fields and indices, and have no recursors. *)
DeriveSees ==
  phase = "derive" =>
    \A n \in DOMAIN decl_of :
      LET d == GetOld(n, at)
      IN  d.kind \in {"type", "ctor", "quot"} => d.derived
=============================================================================
