# A verification model of sokonanoda

sokonanoda is a type checker, written in Rust, for exports of Lean 4
environments: it parses an export file, checks every declaration of it on a
pool of threads and answers with one verdict. This directory models the parts
of it whose correctness depends on state, order and interleaving, checks them
with TLC on small instances, and proves the most important of them for every
instance with TLAPS. File names below are under `src/src/` unless they start
with `src/`.

## 1. Inventory

### 1.1 The run: `main.rs`, `config.rs`, `outcome.rs`

Options are parsed, the export is read (from a file or standard input), and the
outcome becomes an exit code. A failure anywhere is a panic whose payload says
what it is: `Reject` (the export is wrong), `Decline` (it uses what the checker
does not support), anything else is `internal` (`CheckError::from_panic`).
State: none beyond the configuration. What makes it right: a failure is never
turned into an acceptance.

### 1.2 Parser and reader pipeline: `frontend/parser.rs`

`parse_export_file` spawns a detached reader thread (`read_blocks`) which reads
the input in pieces of at most `READ_CHUNK` bytes, cuts what it has after the
last newline, and sends blocks of whole lines over a channel of `READ_AHEAD`
places. The parser runs over each block and returns it over a second channel,
from which the reader takes buffers to use again (`try_recv`), so buffers carry
stale bytes. State: the block being filled, the two channels, the parser's
tables of terms and declarations. Hard: the boundaries of the buffer
arithmetic, and the four ways the two threads can end. Right when: the parser
sees exactly the input, in order, cut at line ends; nothing is taken for the
whole input that is not; and neither thread is left waiting.

The parser of a line has a fast path for the shapes `lean4export` writes and
falls back to a JSON parser. It checks that
indices refer to earlier lines; an index may be given again. Right when: what the tables
hold is what the lines spell.

### 1.3 Terms: `term/{expr,name,level,intern,id,hash}.rs`

Names, levels and expressions are interned: ids index persistent tables, with a
temporary extension (`env_ext`, the local interner) per checking context, whose
ids a `Promoter` carries over into the persistent ones. `level.rs` holds the algorithms on universe levels: `simplify`,
`leq_core`, substitution. Right when: an id always denotes the term it was
given for, and `leq` is sound for the semantics of levels.

### 1.4 Environment and declarations: `checker/env.rs`, `checker/context.rs`

The declarations of the export, an extension with those derived from inductive
blocks, and a cutoff (`EnvLimit`) that hides every declaration from the one
being checked on. `check_inductives` derives the blocks in order, on a thread of
their own, then replaces the declared blocks by the derived ones. Hard: lookups
that are by name in one table and by index in the other; positions and block
sizes that shift. Right when: a declaration refers only to earlier ones.

### 1.5 Scheduler and sessions: `checker/tc.rs`

`check_all_declars` checks the declarations: serially (`num_threads <= 1`), in
parallel, or not at all (`parse_only`). Parallel threads claim chunks of
`CHUNK_SIZE` declarations with a `fetch_add` on one counter. A thread works in
*sessions*: when its value arena outgrows `SESSION_BUDGET` after a declaration,
the session ends, the caches are cleared, and the rest of the chunk is taken up
by the next session. A failing declaration sets the reporter's stop flag and
unwinds its thread; others stop at their next claim. The main thread joins in
the order of the handles and rethrows the first payload. Hard: the races on the
counter and the flag, the range a session leaves over, and threads the system
refuses. Right when: every declaration is checked at most once, an acceptance
means every one was checked and passed, and a failing verdict is one that some
declaration gave.

### 1.6 Reporter: `report.rs`

Threads record each declaration: kept lines for failures and warnings (for all
when verbose), and a *live* line on a terminal, rewritten at intervals, which
the next text must erase. Records that show nothing only count, without the
lock. State: the shared count `done`, the stop flag, and under a lock the screen
(whether the output is still open, whether a live line shows, when it was
written). Right when: counts on the kept lines ascend, no text is garbled and
no live line is left behind.

### 1.7 Caches: `checker/cache.rs`, `checker/ptrmap.rs`, `checker/eval/whnf_cache.rs`

Some twenty tables memoise evaluation, inference and conversion, most of them a
`PtrMap`: open addressing with a tag byte per slot and slots left uninitialised.
The macro `memo!` looks a key up, computes its value on a miss, and stores it at
the place the lookup found: unless the computation, which uses the same tables,
has moved the entries or filled the place. Caches that hold value ids die with
the session; the whnf store, which holds terms only, survives. Right when: a
table is a partial function, and a cached answer is one the computation would
still give.

### 1.8 The kernel: `checker/{value,eval,conv,infer,relevance,quote,nat,quot}.rs`, `checker/eval/`

Normalisation by evaluation over hash-consed values with pruned environments;
type inference; conversion. Conversion of two applications of one definition
first *probes* their arguments on a budget of `PROBE_CAP` comparisons before it
unfolds; a failure that comes from a budget running out says nothing and must not
be kept in the session's negative cache. Hard: the flag that says so has to
travel through nested comparisons, nested probes, and questions on types that
suspend the budget. Right when: what is accepted is convertible, and a failure
that is kept is one that unlimited comparison would find too.

### 1.9 Inductive types: `checker/inductive/`

Specification checks, positivity, nested occurrences, recursors, and their
restoration to the declared form.

### 1.10 How the parts interact

    main -> config -> parser <== channels ==> reader thread
                        |  finish(): check_inductives (own thread)
                        v
                    ExportFile (shared, read only)
                        |
             check_all_declars: main thread
               |  spawn / join / rethrow
               v
        checker threads -- task_num, stop flag, Reporter (shared)
               |
        session: value arena, caches (owned by the thread)
               |
        eval <-> conv <-> infer, by way of memo! and the caches

Only the counter, the stop flag, the progress count and the screen are shared by
checker threads; the channels are shared by parser and reader. Everything else
is owned by one thread and hard for its *sequences*, not for interleavings.

The hazards this leaves are in `PROJECT.json`, each at its line with the
properties that guard it.

## 2. Plan

In the order of importance, with what stands now:

| # | modules | abstract specification | state |
|---|---------|------------------------|-------|
| 1 | Scheduler, SchedulerProofs | CheckAll | checked, proved |
| 2 | ReaderPipeline, ReaderPipelineProofs | OrderedDelivery | checked, proved |
| 3 | PtrMap, MCPtrMap, PtrMapProofs | PartialMap | checked, proved |
| 4 | ConvProbe, MCConvProbe, ConvProbeProofs | `Truth`, an operator | checked, proved |
| 5 | Reporter, CheckingProofs | | checked, proved |
| 6 | Levels (in MCData), DataProofs | the value of a level under a valuation | checked, proved |
| 7 | Envs, Exprs, VarMasks (in MCData), DataProofs | the unpruned environment; terms whose variables have names | checked, proved |
| 8 | Declars, MCDeclars, CheckingProofs | `WellFounded`: every name once, references backwards | checked, proved; promotion of ids left |
| 9 | Checks, Store, Sessions, MCSessions, SessionsProofs | what a check without any cache answers | checked, proved; the relevance templates left |
| 10 | Syntax, Terms, Eval, MCEval | `Terms`: normal forms and types by substitution | checked; strings and universe parameters left |
| 11 | Inductive, MCInductive | `WellFormed`: the rules on telescopes, with containers looked into where they stand | checked; `persist.rs` left |
| 12 | Lines (in MCDeclars) | `Spelled`: an index is what the last line before gave it, as a tree | checked; the text of a line left |

Composition: Scheduler stays the outer machine, with a declaration's check as its
`fate`; Declars says why a fate may be a function of the declaration. What a
session does is 3, 4 and 9, and Sessions composes the checks (Checks) and the
forced values (Store) of one thread with the lifetimes of their caches. Eval and
Inductive share Syntax and Terms: Eval is checked against Terms, and Inductive,
whose passes call the evaluator, uses Terms for what the evaluator answers.
Envs and Exprs share VarMasks. Lines ends with the tables from which Declars starts,
and is run by itself: a declaration is terms for the one and references for the other. Reporter's stop flag is part of Scheduler.

LoopLemmas holds what the proofs need to know of loops and recursive functions.
CheckingProofs has the proofs of Declars and of Reporter, one after the other: what
happens to the declarations of an export, and how it is recorded. DataProofs has
those of Levels, Exprs and Envs: the data that checks work on, and what it means.
What is left to prove: the properties of Eval, Inductive and Lines, on terms and lines.
These modules state their operators by RECURSIVE; as functions on terms that come with a
height, the form Checks, Levels and Exprs have, they are within reach of LoopLemmas, one
long proof each. Of Levels, `LeqComplete` and `InstantiateStable` are left: that `leq` comes
to an answer needs a measure that case splits and distribution lower, and the other an
induction on two comparisons at once.

## 3. The modules

### 3.1 Scheduler implements CheckAll

One TLA+ action for each step between two accesses to shared state:

| action | code |
|--------|------|
| `FetchAdd`, `Test` | the two halves of `claim`: the counter, then the flag |
| `CheckPasses`, `CheckFails`, `Stop` | `Reporter::check` within `run_session_inner`: record, then `stopped.store`, then unwinding |
| `ClearSession`, `Finish` | the end of a session with and without a pending range |
| `Spawn`, `SpawnFails`, `Join`, `LeaveScope`, `Conclude` | `check_all_declars_par`/`_serial`, `thread::scope`, `catch_unwind` |
| `ParseStep` | the `parse_only` loop |

`fate[d]` is what checking `d` gives. It is a function of the declaration
because `EnvLimit::ByName` hides all that follow it, so no schedule can change
it. `used` is the arena; a declaration adds any of `Sizes` to it. The load of the
stop flag is `Relaxed`: a thread of `Laggards` may miss a store made by another
thread. `CheckAll` says what all of this is for, without threads, chunks or
sessions; `Promise` is the refinement.

### 3.2 ReaderPipeline implements OrderedDelivery

A byte is its position in the input. A block has a buffer, possibly longer
than its contents (`len`) and with stale bytes behind them. `ReadSome` is a read
of any number of bytes and the cut after the last newline; `ReadEnd` and
`ReadError` the other outcomes of a read; `Send` blocks while the channel is full
and fails once the receiver is dropped. `Parse` runs over a block, or fails
on the byte `bad`; `Finish` is `parser.finish()`, which may still reject.
The message of a read error is `<<>>`, that of a block `<<block>>`.
`OrderedDelivery` knows only the input, the prefix parsed and the outcome.
`Owned` counts the buffers with memory of their own, wherever they are; blocks in a
channel whose other end is dropped are gone.
Rust's channels are modelled from their use: a bounded and an unbounded queue,
each of which notices when its other end is dropped.

### 3.3 PtrMap implements PartialMap

`tags` and `slots` are the table; a slot that was never written holds `Uninit`,
and no operation of the model that the code would not perform can turn it into
anything else. `Probe` is the loop of `find` and `insert`: the slot at the least
distance at which it stops. `grow` rehashes in slot order. `memo!` is
`Find` and `Computed`: a miss pushes a frame with the place and epoch it saw; any
other `Find`, `Store` or `Computed` may come before the frame is popped, which is
what nested evaluation does. `Clear` and `ClearSession` come between terms
and sessions, when no frame is open, as in the code. `PartialMap` has
`Lookup`, `Store` and `Clear`.

Parameters of the code made smaller: `grow_limit` is `n / 8 * 6`
(`Unit`, `Fill`), the least size is `Floor`, the epoch wraps at 2^32
(`EpochSize`). A stale frame whose epoch has come round would need 2^32 moves
under one computation; the instances stay below their `EpochSize` in the same sense
(each move doubles the table or needs that no frame is open). `PtrMapAssumption` says this for
every instance: as many doublings as there are epochs (`Doubled`) would outgrow
the space of hashes, and that space has room for all keys.

### 3.4 ConvProbe

The functions of `conv.rs` call one another recursively; the model is their
machine: `ctl` is what is done next, `stack` the calls that wait. Two values
are abstracted to the *pair* compared, and what the code finds by inspecting them
to the pair's `shape`: decided at once, a spine, two applications of one
definition, a recursor, a single unfolding; the argument pairs, the pair of types
if both are proofs, the pair after unfolding. All the control around this is kept:
`unify_general` and the three caches, `unify_no_cache` with depth, budget and
flag, `spine_probe` and `probe_pass`, `unbudgeted`, `try_proof_irrel_at` in both its
places, `unfold_pair`. `Truth` is what pairs are convertible without budgets
or caches; terms are taken to be congruent (a definition applied to
convertible arguments unfolds to convertible values), which the theory gives.
The code is generic in `RIGID`; the paths taken only when it is false are
not modelled, since nothing reaches them from `RIGID = true`.

### 3.5 Reporter

One action for each step of `record` between the lock and the shared
counter; `lines`, `bottom` and `garbled` are the terminal the writes are made to.
A write succeeds as a whole or fails and closes the screen; partial writes
and the wording of lines are left out. The interval of the live line is a choice.
`Checked` counts the declarations checked from what each thread has left, which
the code does not do; `Legible` compares `done` with it.

### 3.6 Levels

Levels are interned, so the model works on terms. `Simplify`, `LeqCore`,
`Instantiate` and their helpers are the functions of `term/level.rs`, case by case
and in their order; the caches of `leq` and `simplify` are functions of their keys and
left out. `Value(l, e)` is what a level means under a valuation of the parameters.
A behaviour takes a pair of levels, compares it, simplifies and substitutes.
An answer may also be the `panic!` that `leq_core` ends in; `LeqSound` says that it
never is. Levels have a height of at most `MaxDepth`, and `leq_core` calls itself at most
`MaxCalls` deep, as the stack allows; what goes beyond either is the answer
"overflow", and `LeqComplete` says that the levels compared never get there.
Levels, Envs and Exprs have no step in common: MCData runs each by itself.

### 3.7 Envs

The nodes of the environment store, their slots, the tables that share them and
the direct-mapped memo `prune_dm`. `Push`, `Prune` (with `frame_without`, the frame
cut off within a frame, and the slots popped when a frame is already known),
`EvalInst` and `ClearSession` are `env_cons`, `prune_env`, the empty environment
the body of a constant starts from, and the reset of a session. A mask, one
word in the code, is the set of its bits (VarMasks): those below `NEAR` are variables,
bit `FAR` stands for all the others. `Hash` is made to collide. The properties compare
`Lookup` in the environment asked for with `Lookup` in the one given. Lookup and
Gather are recursive functions of a node's id, since a node refers to nodes before
it; past `Indices` no environment of the store holds anything.

### 3.8 Exprs

An expression is a node over its children, of height at most `MaxHeight`
(`ExprsUpto`); `Scopes` has the binders over each child. `Loose` and `Mask` are the
summaries that `mk_*` compute; `Lift`, `Lower`, `InstOpen` and the searches for loose
variables are the functions of `term/expr.rs`; `AbsentArgs` is the one of
`relevance.rs`. All are recursive functions of the expression. They are checked
against terms whose free variables are names, which are constants: an instantiation
means a substitution of names, a shift a renaming. Instantiation makes expressions
higher; one that would pass `MaxHeight` is not done. `Lower` is total, so that its
subtraction stops at 0; `LowerPanics` is the assertion that keeps the code from there.
Interning and the caches keyed by expression are left out.

### 3.9 Declars

A declaration is its name and the names it refers to. `ParseItem` is `add_declar`
for all declarations of an item; `DeriveQuot`, `DeriveBlock` and `Pass` are the loop
of `check_inductives`; `Replace` the loop that puts derived blocks in place of
declared ones; `Check` what a thread does with one declaration, where its caches
(`known`) may answer for names it looked up before. `Claimable` is what Scheduler
guarantees of the order: claims ascend and a range is taken in order. Declarations
that were derived are not checked again by the code, so they count as checked from
`ReplaceEnd` on. A derived recursor refers to its block. `WellFounded` is the
promise, over the export alone: no places, no cutoffs, no extension. What an item
may be is `Exportable`; `RecOf` names the recursor of each type. `NO_DECL` is the `u32::MAX` that no declaration
has as its index: the parser declines what would be given it (`Stop("decline")`),
and `check_inductives`, whose derived table can be longer than the parsed one,
panics on an index beyond it (`Stop("internal")`).

### 3.10 Syntax, Terms and Eval

Syntax has the terms as trees, Terms what they mean: the normal form of a term
and its type, by substitution, from the rules of the calculus alone. Eval is the
code: `eval`, `apply_value`, `force`, `whnf`, unfolding, recursors with K and
structure eta, quotients, projections, the Nat shortcuts, `quote`, and `infer` in its
two modes. Values are trees: a head with a spine, or a closure over an environment.
The functions call one another through `memo!` and the force loop; the operators do
so through one recursive hub, which says for each name what it stands for.

A behaviour has a term in a context. `Evaluate` gives its value; `ForceIt`, `WhnfIt`,
`UnfoldIt` and `IotaIt` are what conversion does to a value, in any order and any
number of times; `warm` are the definitions unfolded before, whose bodies the
code keeps evaluated. `Check` and `InferOnly` infer the type. The depth in `quote`,
hash-consing and the memo tables are left out (Sessions has the latter); strings,
operations on Nat other than addition and subtraction (one that grows and one that
does not), and universe parameters too.

### 3.11 Checks, Store and Sessions

One checker thread with what it remembers. Checks has the tables of `infer.rs`: the
session's `type_cache`, `checked_closed`, which outlives it, and the direct-mapped
table of checked leaves, whose entries count only under the present
`leaf_stamp`. An expression is a node with its operator, its parts, the variables and
universe parameters it uses, and what it needs of their types; a check is the
recursion of `infer` with every look-up and insertion, a function on
expressions by their `Height`. Store has the tables of forced
values: the memo of each value, the full keys of `global_value_cache`, the
placeholder, and the whnf store with its two filters, its admission counts and its
digests, which values may share. Sessions interleaves them: `CheckOne` checks a
declaration, `ForceOne` forces a value, `ClearCaches` is what `check_inductive_declar`
does between its steps, `ClearSession` the end of a session. Ids are places in the
session's tables, so that the next session gives them to other things.

### 3.12 Inductive

One action per pass of `check_inductive_declar`, each of which may refuse the block:

| action | code |
|--------|------|
| `CheckHeaders`, `CheckUniform`, `CheckCtorTypes` | `spec.rs`: the types' telescopes and universes, uniform parameters, the constructors' types |
| `LocalParams`, `SpecializeNested`, `CheckLoose` | `nested.rs`: the types in turn; a nested occurrence becomes an auxiliary type at the end of the list |
| `CheckSpecs`, `CheckCtors` | `mod.rs`, `positivity.rs`: telescopes again, field universes, positivity |
| `Finish` | elimination (`large_elim_test`, `init_k_target`), `recursor.rs` with its rules, the check of recursors, `restore.rs` |

`st` is `InductiveCheckState`. Names are sequences, because `replace_pfx` and the
numbering of auxiliary types work on their parts. What the evaluator, the inference
and the conversion answer is stated by Terms, in the environment of the moment, so
this module is about the passes and Eval about their answers; where a pass looks at
a term without forcing it, so does the model. The universe parameter of recursors is one
level. `WellFormed`, the reference, has no auxiliary types: it looks for occurrences
of the block in the containers, where they stand, under their parameters. What
is well formed is not always accepted (the code looks at a field's head after
weak head reduction only, and refuses what is more involved): that half of
`BlocksConsistent` is stated for `Plain` blocks.

### 3.13 Lines

One action, `ReadLine`, is an iteration of `run_over`: the fast path, and if it gives
up the JSON parser on the same line. A line is a record of what either finds in
it; `plain` says that it is written as `lean4export` writes it. `DoEntry` stands for
`do_name_str` to `do_proj`, which differ in how many names, levels and expressions they
look up; `DoDeclar`, `DoQuot` and `DoBlock` for the declarations. Vectors by index have
gaps (`put_at`), names and levels are entered once, expressions as often as they are
written. A panic, an error and a rejection are one status, a decline another.
`FinishLines` is `finish` up to `check_inductives`, which is Declars. The reference reads
the lines backwards: `Spelled` is the last entry for an index before a line, as a tree.

## 4. What is checked

Run from this directory: `tlc -workers 2 -config <cfg> <module>`.

| run | question | bounds, and why they are enough |
|-----|----------|---------------------------------|
| `scheduler` | Are declarations checked once, none lost, is the verdict right, do arenas stay bounded and does the run end, whatever fails? | 3 threads, 5 declarations in chunks of 2, so that the last chunk is short and a thread is left without one; a session of budget 2 ends within a chunk and across chunks; one thread may miss the stop flag, the others may not; all three may fail, any spawn may be refused. |
| `scheduler_serial` | The same promise from one thread, and when only parsing. | 5 declarations: sessions end at the first, in the middle and at the last. |
| `reader` | Is the parser given the input, in order, cut at line ends; do buffers go round; do both threads end? | Every input of up to 6 bytes, reads of 1 or 2, `READ_AHEAD` 2: lines longer than a buffer, empty lines, no last newline, reads that end at a newline, a full channel, failure of the spawn, of any read and of any line. |
| `ptrmap` | Is the table a partial function while computations nest, and does every probe end? | 3 keys that collide in hash and tag, 2 values, 2 computations open, a load of three quarters: clusters that wrap round the end, growth under an open frame, overwritten values. |
| `conv_probe` | Are acceptances and refusals right whatever was asked before? | 6 pairs, 2 comparisons a probe, 800 terms: probes within suspended probes, shared arguments, exhausted and refuted probes, and any sequence of questions between two clearings. |
| `reporter` | Do lines ascend, is the terminal clean? | 3 threads of 2 declarations in all modes with write errors: a counting thread between the two steps of another. |
| `data` | Is `leq` sound, does it always answer, and is it complete where it should be; do simplification and substitution keep meanings? Are the summaries of free variables right, and do shifting and instantiation mean what they do with names? Does a pruned environment keep what was asked for, in its place, and nothing else? | Levels: 2 parameters that a use may exchange; every pair of a level of one constructor and one of two over one another, up to an exchange of the parameters' names, and max and imax across each other up to three deep; values up to 4 exceed every difference these terms can make. `MaxDepth` 16 and `MaxCalls` 32 are never reached: `LeqComplete`. Expressions: `NEAR` 2 and indices up to 4, two binders deep, telescopes of three and definitions of up to five lambdas, open and closed substitutions of 7. No expression reaches a height of `MaxHeight` 16: with more the states are as many. Environments: contexts of 5 and 3 values, three extensions and prunings in any order on any environment held: frames cut within frames, bits shifted past `FAR`, both ways a frame is found again, and a memo whose entries outlive their environments unless it is reset. |
| `eval` | Does evaluation keep what a term means, does forcing show its head, does inference accept exactly the typed terms? | One environment with a declaration of each kind and 264 terms over it, closed and in contexts of up to two: numbers as literals, constructors, definitions and variables, on which arithmetic is native, deferred or by the recursor; a structure, with eta and projections; a family eliminated by K; propositions whose fields a projection may or may not take; quotients; dependent telescopes; ill-typed terms of each kind. Every sequence of forcings of a value. |
| `sessions` | Does what a thread has checked and forced before change what it answers? | Any three declarations or values of 11 and 8, in up to two sessions: leaves that share a slot, one expression under two binders and two lists of parameters, values that share digest, or digest and full key, ids used again, and a stamp that wraps at 3. |
| `inductive` | Is what a block may do to the logic checked, and are its recursors right? | 145 blocks: some 35 shapes of a field, over containers that are recursive, negative, mutual, indexed, propositional, in a larger universe, or whose constructor has another name, and over definitions that hide an occurrence; two fields; parameters and indices that are uniform or not; propositions with all kinds of proofs (`Eq`, `And`, `Ex`, `Acc` among them); mutual blocks. Left out are parameters of nested types that bind variables under a binder: they are refused, as `exprs_guard` shows. |
| `declars` | Is what is accepted exactly what refers backwards? Does the parser hold what the lines spell? | Every pair of 44 items and every triple of a chosen 20: clashing names, names of recursors declared, blocks before and after what they use, mutual blocks; two threads whose caches know names that their cutoff hides; and four exports about as long as there are indices (`NO_DECL` = 8): derived tables that are longer by one and by two, one that is declined and one that repeats a name at the end. Lines: exports that start alike, with three lines to follow of 39: indices given again (that of the anonymous name and of level 0 too), gaps, an expression built of its own old index, names that become free or clash, lines the fast path does not take, blocks with constructors missing, unused or shared, and everything that is declined. |
| `exprs_guard` | Does the check on the parameters of a nested type refuse only what depends on local variables? | The instance of `exprs`. It does not: see section 6. |

Every property has a mutant in `PROJECT.json`: a slip in one operator (its mutated
form stands before it in the module) that makes TLC refute it under the same
configuration.

**Fairness.** `Terminates` and `BothEnd` assume weak
fairness of each thread: the operating system schedules a runnable thread,
a check of a declaration returns, and a read of the input returns. Neither assumes
that a contended step is won. The channel and scope operations block until
enabled, and weak fairness is enough for them because nothing disables them again.
The other properties need none.

## 5. What is proved

Everything below is proved with TLAPS for every value of the constants that satisfies
the assumption of the module (named in the last column), not for the instances of
section 4. `tlapm <module>` checks the proofs of a module.

| theorem | statement | assumes |
|---------|-----------|---------|
| SchedulerProofs `Invariance` | `Spec => []IInv` | `SchedulerAssumption` |
| `Typing`, `ClaimsAreDisjoint`, `NoneIsLost`, `ArenaBounded` | `Spec =>` `[]TypeOK`, `[]HeldOnce`, `[]NothingLost`, `[]SessionBounded` | |
| `StopIsHeeded` | `Spec => NoWorkAfterStop`, an action property | |
| `Implements` | `Spec => Promise`, the refinement of `CheckAll` | |
| ReaderPipelineProofs `Invariance`, `Bounded` | `Spec =>` `[]IInv`, `[]BuffersBounded` | `ReaderAssumption` |
| `Delivery` | `Spec => Promise`, the refinement of `OrderedDelivery` | |
| PtrMapProofs `Invariance`, `NeverFull`, `WrittenFirst`, `PlacesStand`, `OnlyOnce` | `Spec =>` `[]IInv`, `[]Roomy`, `[]Initialised`, `[]PlaceStands`, `[]Unique` | `PtrMapAssumption` |
| `Refinement` | `Spec => Promise`, the refinement of `PartialMap` | |
| ConvProbeProofs `Invariance`, `Soundness`, `Honesty`, `Nesting`, `Typing` | `Spec =>` `[]IInv`, `[]AcceptsSoundly`, `[]RefutesHonestly`, `[]ProbesNest`, `[]TypeOK` | `ConvAssumption` |
| CheckingProofs `ReporterInvariant`, `Ascending`, `Readable`, `Typing` | `ReporterSpec =>` `[]ReporterInv`, `[]LinesAscend`, `[]Legible`, `[]TypeOK` | `ReporterAssumption` |
| SessionsProofs `Invariance`, `VerdictsTrue`, `TablesTrue`, `ForcedRight`, `LiveIds` | `Spec =>` `[](ChecksInv /\ StoreInv)`, `[]AcceptsTruly`, `[]EntriesTrue`, `[]ForceRight`, `[]IdsLive` | `ChecksAssumption`, `StoreAssumption` |
| CheckingProofs `Invariance`, `Accepting`, `Derivation` | `DeclarsSpec =>` `[]DInv`, `[]AcceptsExactly`, `[]DeriveSees` | `DeclarsAssumption` |
| DataProofs `LevelsInvariant`, `LeqSoundHolds`, `MeaningKeptHolds` | `LevelsSpec =>` `[]LevelsInv`, `[]LeqSound`, and `MeaningKept`, an action property | `LevelsAssumption` |
| DataProofs `ExprsInvariant`, `SummaryRightHolds`, `SubstMeansHolds`, `AbsentUnusedHolds` | `ExprsSpec =>` `[]ExprsInv`, `[]SummaryRight`, `[]SubstMeans`, `[]AbsentUnused` | `ExprsAssumption`, `VarMasksAssumption` |
| DataProofs `EnvsInvariant`, `PruneExactHolds`, `EnvsStableHolds` | `EnvsSpec =>` `[]EnvsInv`, `[]PruneExact`, and `EnvsStable`, an action property | `EnvsAssumption`, `VarMasksAssumption` |

None of the properties is inductive by itself. What the invariants add, and why:

**Scheduler.** `Ranges`: what a thread holds lies below the counter, and where it
is in it; without it the next claim could overlap a range still held. `Partition`:
declarations held or checked belong to a chunk that was taken, so a new chunk is
untouched. `Accounted`: a taken declaration that was not checked is held by
some thread or was abandoned by one that failed, and a thread returns only when
everything is taken or some thread has failed; this turns "all threads returned"
into "all was checked", stale flags included. `Causes`: the flag, payloads and the
main thread's panic each come from a declaration that was run and failed, or
from a refused thread. `MainKnows`: what each step of the main thread may rely on.
`SessionBounded` needs `Metered` besides: only a thread about to clear its session
is over the budget. There is a lemma for each conjunct and each side (a checker thread's
step, the main thread's), with a case per action. The refinement maps
`CheckPasses`, `CheckFails` and `ParseStep` to `Run`, `Conclude` to `Accept`,
`Fail` or `Break`, everything else to a stutter.

**ReaderPipeline.** Bytes are positions, so that "no gap" can be said of buffers:
each block `Carries` what comes after the place where the one before it ends.
`ReaderHas` says so of the pending block and the one being sent, `Channel` of the
blocks in the channel (`EndOf` places them), `ParserHas` of what was parsed.
`Buffers` bounds them and says that the stale tail of a buffer used again is beyond its
length. `AtEnd`: a reader that is gone has read everything or left its error as
the last message; without it success could be a prefix.

**PtrMap.** `TableInv`: tags and slots agree, every entry is reached by its own
probe with no gap before it (`Placed`), the load is below the limit, so that a
gap exists and the probe's distances suffice. `PlaceInv` is the heart of
`memo!`: since a find left its place the entries have moved some *j* times, too few
for the epoch to come round, and a place that no move has made stale is, while
vacant, still the first gap of its key. Rehashing (`Rehashed`, a
recursive function over the slots) keeps exactly the entries there are; the refinement
then needs only what each step does to the set of entries.

**ConvProbe.** `Calling`: the calls on the stack ask each other's questions;
budgets nest (`Depths`: a budget is in force exactly when the innermost probe is not
suspended by a question on types); and a raised flag, wherever it is saved, lies
within some probe and is saved by every suspension on the way (`Flags`).
`Answering` says what is known of the pair at hand at each point: an acceptance is true even by
`Truth(shape, TRUE)`; a refusal is right by `Truth(shape, FALSE)` unless the flag
is up. `ToUnfold` and `LastResort` are what the attempts made so far have excluded. `Kept` is
the caches, in which no flag remains. `Truth` is recursive: `TruthMeans` shows that such a
function exists and satisfies its equation.

**Reporter.** `Behind`: what a line shows was counted before what is still
to be shown, so that the lock, held from the count to the line, orders them.
`Counted` balances the books: checked declarations are the counted ones and those of
threads on their way.

**Sessions.** What `EntriesTrue` says of the tables is not enough: an entry
for no declaration's parameters was checked too, an entry of `checked_closed` is
closed, and no leaf has a stamp still to come (`ChecksInv`). `InfersRightly` is
the induction on `Height`: from tables that are `Good`, inference answers what inference
without tables answers, and leaves the tables good. For the values, `Entries` says that
the store's entries tell for *some* value what it is forced to; that the hit is
this value's is what the comparison of sources gives, whoever shares its digest.

**Declars.** Tables are pieces: what the first *k* items declare
(`Declaring`), what replaces them (`Renewing`), what they give; the first half of the
module is about concatenations of pieces (where the *k*-th begins, what lies in it,
when all entries differ) and about the names of a block before and after it is
derived. There is an invariant per phase. `Parsing`: the table is the
first items' declarations. `DerivingInv`: the walk stands where an item
starts, the extension has what is derived of the items passed and nothing else,
which refer only to what comes before them. `Replacing`: the new table is the pieces
replaced so far, and the waiting blocks are exactly those ahead. `Checking`:
what is checked refers backwards, and what a thread's caches know has an index
below the last one it took, which is what makes answering from them harmless.
`AcceptsExactly` then follows because `UniqueTables` relates the duplicates the
code looks for (in the parsed table, and in the derived one) to names given twice.

**Levels.** `LevelsInv` says only that what is compared are levels; the work is in
what the operators do to *every* level. `LevelRecursion` and `LevelInduction` are
recursion and induction on a level's height, from `LevelsUpto`. `SimplifyLow` says that
simplification raises no height, and `SimplifyMeans` that it keeps values;
`SubstValue` is the substitution lemma: the value of a use is the value of the level
where the parameters have the values of their arguments. `LeqCoreSound` is an
induction on the depth of calls, for all levels and differences at once: if what a call
asks is answered soundly, so is the call, by one lemma on values for each kind of case
(`LeqAtSound`, `ByCasesSound`, `DistributionMeans`). That `leq_core` does not panic
needs to know what it is called with: in a `Solid` level no imax is over zero or a
successor. Simplification makes levels solid (`SimplifySolid`) and distribution keeps
them so, though the code simplifies only one of its two forms (`DistributedSolid`);
`LeqCallCovered` goes through the cases.

**Exprs.** `ExprsInv` says that what is worked on is an expression, and has `SubstMeans`
and `AbsentUnused`, which are about the step just made; the work is in what the operators
do to *every* expression. `ExprRecursion` and `ExprInduction` are recursion and
induction on an expression's height, from `ExprsUpto`; each operator first has a lemma
that its function exists and satisfies its definition. `LooseExact`, `MaskHas` and
`MaskExact` relate the summaries to `FreeVars`. `MeaningSame` says that the meaning of an
expression depends on the names of its free variables only (`Agree`). `LiftMeans`,
`LowerMeans` and `InstMeans` are inductions for all cutoffs and depths at once: how names
before and after have to be related at a variable (`AlikeLifted` for lift) carries over to
each child, under its binders. Instantiation needs `LiftMeans` for what is put under
binders, and `Loose` for what is left alone: closed substitutes are put as they
are. `AbsentUnused` is `MaskHas` and `MeaningSame`: a variable with no bit in the mask is
not free, so its name does not matter. No bit past `FAR` is asked for because the arity
is cut at `MAX_TRACKED`; the test of `Loose` against it is not needed for this.

**Envs.** `StoreOK`: a node refers to nodes before it, the mask of an extension is its
parent's shifted, and a frame has a value for each near bit and `FAR` exactly if it has a
rest that holds something. Without the last, `prune_env` could take for pruned an
environment whose mask has `FAR` with nothing behind it. Lookup and the loop of
`prune_env_cold` are recursive functions of a node's id; `LookupsIs` and `GatherIs` show
that they exist and satisfy their definitions. `LookupsGrow` says that a node gives the
same in every store that has grown from its own (`Grown`), of which `EnvsStable` and the
truth of every table entry from step to step are consequences. `GatherRight` is the
loop: what is gathered from a node for the bits still asked for is what the node gives
them, in the order of their bits, and the rest gives what lies past the near variables;
each case of the loop has a lemma, and `ThenRight` puts the nodes together by counting
bits (`BothCount`). `InternFrameNode` is sharing: a hit of the hash is compared, so the
frame found holds the same values, and the slots pushed for it can go; a hash taken by
another frame stays with that one. `FrameWithoutIs` is the frame cut off at `NEAR`.
`ColdRight` composes them, and `RightIn` carries each answer of the memo along.

**LoopLemmas** has the induction the others use. TLAPS here cannot instantiate
a theorem that takes an operator, so the lemmas are about *sets*: the least and
greatest of a set of numbers, a set closed under successor (`SetInduction`), the
existence of functions defined by recursion on a number or along a height
(`RecursionExists`, `HeightRecursion`), and induction along a height
(`HeightInduction`).

**The assumptions.** Most say that constants have their types. More is asked by:

- `PtrMapAssumption`: a load limit below the size, tags that are not `VACANT`, room
  in the space of hashes for all keys, and doublings that end before epochs wrap.
  The code has 64-bit hashes, an epoch of 32 bits and tags with the top bit set.
- `ConvAssumption`: the graph of pairs is finite and acyclic (terms are
  normalising), and congruent: a definition or recursor gives convertible
  values on convertible arguments, which the theory says of it.
- `ChecksAssumption`: expressions have a height, and a node uses the variables its
  parts use, which is what `mk_*` computes (`SummaryRight`).
- `StoreAssumption`: a weak head normal form is its own; values that are quoted
  alike are the same value, which is what lets the code compare sources.
- `ExprsAssumption`: terms, types and substitutes are expressions of some bounded height.
- `LevelsAssumption`: a declaration names each of its universe parameters once, and
  what is compared are levels of some bounded height.
- `EnvsAssumption`: a declaration's context is a sequence of values; no value is `None`.
- `DeclarsAssumption`: there is a thread, and exports are sequences of what may
  be exported. `RecOf` need not be injective and blocks may be empty.

**Model-checked only.** Liveness (`Terminates`, `BothEnd`), which TLAPS does not
prove under fairness here. `LeqComplete` and `InstantiateStable` of Levels: the
first says how deep calls go, which depends on the levels compared, and is false where
`MaxValue` is smaller than the differences between the levels, and the second relates
two comparisons that take different cases. The properties of Eval, Inductive and Lines: they define functions on terms
and lines by RECURSIVE operators, for which TLAPS has no SMT backend; section 2 says what
a proof would need.

## 6. What was found

**The guard on nested parameters asks for more than it says.** The parameters
of a nested occurrence must not depend on local variables: `nested.rs:103-108`
refuses them if `has_loose_bvar_below` finds a variable below the cutoff. That search
(`term/expr.rs:613-625`) raises the cutoff under a binder and then reports every index
below it, so a variable that is bound *within* the expression counts as loose. Run
`exprs_guard` shows the smallest case. The slip is on the safe side: `SummaryRight`
holds, so nothing passes that `lower` may not see; such types are refused.

Observations that contradict no text of the repository:

- Within a probe, Nat arithmetic that `nat_red_defer` leaves alone (Add, Sub, Mul
  or Pow with a literal second argument of more than 8 bits, with the Nat extension on)
  is not forced open. The comparison then fails without setting the flag, so the
  failure enters `conv_cache_neg`, and a later unlimited comparison of the same
  two values in the session answers from there. Whether such a pair is found
  convertible depends on what was asked before. This loses completeness, never
  soundness. `RefutesHonestly` is therefore stated against comparison that does
  not force (`Truth(shape, FALSE)`); against `Truth(shape, TRUE)` TLC refutes it.
- `check_all_declars` says (`checker/tc.rs:169-170`) "checking will be serial on the
  main thread is `num_threads <= 1`". `check_all_declars_serial` spawns one
  thread, for its large stack, and the main thread joins it.
- `get_old_declar` says (`checker/env.rs:262-263`) that it bypasses the temporary
  extension; it bypasses `temp_declars` and asks `env_ext` first, which deriving
  needs (`DeriveSees`).
- `leq` is incomplete where an imax stands on the right: `u+1 <= max(imax(u+1, u), 1)`
  holds for every `u` and is refused. `LeqComplete` is therefore stated for right
  sides without imax; `InstantiateStable` shows that this never makes an
  accepted comparison fail at a use.
- While recursors are derived the block's types are marked not recursive
  (`inductive/mod.rs:264`), so that a recursive type of one constructor has eta
  for that time. `RecursorsRight` checks the recursors in the final environment,
  in which it has not.
- A constructor whose name does not begin with its type's keeps it in every
  auxiliary type (`term/name.rs:106-123`); two auxiliary types of one such container
  clash. Such blocks are refused, never accepted wrongly.
- `check_inductives` gives the last of `NO_DECL + 1` declarations the index `NO_DECL`
  (`checker/context.rs:124-128`), which `lookup_idx` and `EnvLimit::ByName` take for
  none: that declaration is not found, and sees nothing when it is checked
  itself. The parser turns such a table away, `check_inductives` only a longer one.
  The export may be refused for it, never accepted wrongly (`AcceptsExactly`); it
  takes 2^32 declarations.
- The reader treats every read error as final, an interrupted read included.
- A parser that fails leaves the detached reader to find out at its next send;
  `BothEnd` shows that it does, provided its reads return.

## 7. What is not modelled

- The text of a line (the digits, quotes and brackets of the fast path, and serde),
  printing, options and files: transformations of data without control of their own.
- Strings, the operations on Nat besides addition and subtraction, the check
  that the native operations are defined as expected, level substitution in
  expressions, and universe parameters in Eval and Inductive.
- The relevance signatures: `sig_of` says which arguments a comparison may skip,
  and is asked again under its own recursion guard; `absent_args`, on which
  soundness rests, is in Exprs. Eta and Nat in conversion are part of a pair's `shape`
  in ConvProbe.
- Promotion of ids from a context's interner to the persistent one (`persist.rs`),
  the interners, `env_len`, and caches keyed by one expression.
- Memory exhaustion, stack overflow, and the scheduler's fairness itself.
