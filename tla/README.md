# gnu-units in TLA+

A verification development for the Rust crate `gnu-units` (repository root `src/`,
crate sources `src/src/`): TLA+ models of the library's own logic, TLC
configurations that check them on small instances, and theorems that TLAPS checks
for all instances. Unless said otherwise the *native* engine (the default feature)
is meant.

## 1. Inventory

| Component | Source | State | Operations |
|---|---|---|---|
| Public API | `lib.rs`, `engine/native/ops.rs` | none of its own; locals of the call | `parse`, `convert`, `conformable`, `list_definitions`, `reload_currency`, methods of `Unit` |
| Definitions store | `definitions.rs`, `engine/native/database.rs` | `DEFINITIONS` (a `LazyLock<RwLock<Vec<Definition>>>`), `DATABASE` (a `OnceLock<RwLock<Database>>`) | `ensure_definitions`, `init`, `get`, `read`, `insert_*`, `load_definitions` |
| Loader | `definitions.rs` | `wrong_locale`, `wrong_var`, `in_utf8`, `env`, the database being filled | `load_core`, `include_native`, `join_continuations` |
| Unit algebra | `engine/native/types.rs`, `ops.rs` | a factor and a map from base units to `i32` exponents | `multiply`, `divide`, `add`, `invert`, `pow`, `root`, conformability |
| Evaluator | `engine/native/parser.rs` | `vars`, `resolving`, `depth`, the borrowed database | `eval_*`, `resolve_name`, `call_function*`, `call_user_function`, `call_inverse_function` |
| Grammar | `engine/native/parser.pest` | none | ordered choice over the text |
| Functions and tables | `database.rs` | `FunctionDef`, `Interval`, `TableDef` | `parse_function_def`, `interpolate`, `reverse_interpolate` |
| Currency update | `currency_update.rs` | none kept | fetch, template, build of a currency file |
| Vendored engine | `engine/ffi.rs` | a process-wide mutex around the C program's tables | the same API over FFI |

How they interact. Every public function first forces `DEFINITIONS`, whose closure
runs the loader over the embedded files, hands the database it filled to
`database::init` and keeps the list of definitions. Every evaluation
(`parseunit`, `parseunit_with_vars`) takes a read guard of `DATABASE`, keeps it until
it ends, and drops it; `convert` and `conformable` make *several* evaluations, each
under a guard of its own. `reload_currency` runs the loader on a text under the write
guard of `DATABASE`, drops it, and then edits the vector in `DEFINITIONS` under its
write guard. So there are two copies of the same facts, two locks, one lazy
initialisation in two cells, and calls made of several critical sections: that is
where the hard behaviour is, and what was modelled first.

What makes each component correct:

- *store*: nobody ever sees a half-loaded or an empty database; the two copies agree
  between reloads; no interleaving of calls blocks for ever; a call made of several
  critical sections still answers as one would expect;
- *loader*: which lines count, under nested directives and includes; what reaches the
  listing and what the database;
- *unit algebra*: exponents never overflow unnoticed, conformability is an
  equivalence, roots are exact or refused;
- *evaluator*: it ends, its state is restored after an error that is swallowed, and
  variables mean what the definition file meant;
- *functions and tables*: the inverse inverts, inside the domain and only there;
- *grammar*: precedence, and alternatives that hide later ones;
- *currency update*: a file built from partial answers is sound.

`PROJECT.json` lists the hazards one by one, with the line where each bites.

## 2. Plan

In this order, the most important behaviour first; all of it is built:

1. **Store**: `RwLock`, `Definitions`, `UnitsStore`, its abstract specification
   `AtomicStore`, the refinement `UnitsStoreRefinement`, proofs in `UnitsStoreProofs`.
2. **Unit algebra**: `UnitAlgebra` (pure operators), the machines `UnitCalls`
   and `RationalPower` over it, proofs in `UnitCallsProofs`.
3. **Evaluator**: `Evaluator`, a stack machine with `vars`, `resolving` and `depth`; what
   an expression means without any state, `EvaluatorMeaning`; proofs in
   `EvaluatorProofs`. The domains of the built-in functions, `Builtins`.
4. **Loader**: `Loader`, directives as a state machine over lines, against a stack of
   blocks; over `Definitions`; proofs in `LoaderProofs`.
5. **Currency update**: `CurrencyUpdate`, fetch, build and reload, several times; proofs in
   `CurrencyUpdateProofs`.
6. **Functions and tables**: `Tables`, `FunctionDefinitions`; proofs of these and of
   `Builtins` in `FunctionProofs`.
7. **Grammar** and **vendored engine**: `Grammar`, `FfiLocks`, `FfiUnits`; proofs of the
   last two in `FfiProofs`.

## 3. Modules and their correspondence to the code

**`RwLock`** is `std::sync::RwLock`: the readers and the writers of a lock.
`WriterFirst` chooses between the two policies the standard library may have; under
`TRUE` a reader waits as soon as a writer waits, which is the one that turns nested
read guards into a deadlock.

**`Definitions`** gives data its meaning. A file is a sequence of lines
`[name, kind, def]`. `InsertLine` is `Database::insert_unit/prefix/function/table`;
`Malformed` definitions are those for which `insert_function` and `insert_table`
return without inserting. `InitialListing` is the `reverse; sort; dedup; sort` at the
end of the `DEFINITIONS` closure: equality and order of `Definition` compare canonical
name and kind, so the *last* line of each survives. `Retained` and `Extended` are the
two edits of `reload_currency`. The listing is, per full name and kind, the set of
definitions held (`reload_currency` does not deduplicate, so there may be several).

**`UnitsStore`** is the state machine. Variables: `lazy` and `listing` for
`DEFINITIONS`, `origin` and `db` for `DATABASE`, `dbLock` and `listLock`; per thread
the call site (`stage`), the `call`, the local variables (`local`), the evaluation in
progress (`eval`: whether the guard is held, the entry to look up next, what was
looked up so far) and the `answer`. `committed` and `seen` are history: the database
when the last write guard was dropped, and the values `committed` had during a call.

| Actions | Code |
|---|---|
| `Start`, `BootBegin`, `BootInit`, `BootPublish`, `Enter` | `ensure_definitions` and the closure of `DEFINITIONS` with `database::init` |
| `Acquire`, `Resolve`, `Evaluated` | `parseunit[_with_vars]`: guard, one look-up per step (`resolve_name`, `resolve_entry`), end of the guard |
| `ParseReturns` | `parse` |
| `ConvertLookup` ... `ConvertPoints` | `ops::convert_func`: first look, operand, inverse formula or unit of the table, second look |
| `ConvertFrom`, `ConvertSplit`, `ConvertTo` | `lib.rs` `convert`: division, with the retry of `"arg func"` as `func(arg)` |
| `ConformableTarget` ... `ConformableReturns` | `conformable`, which clones the listing and parses each name under its own guard |
| `ListReturns` | `list_definitions` |
| `ReloadAcquire`, `ReloadInsert`, `ReloadCommit`, `ReloadRetain`, `ReloadExtend` | `reload_currency`: write guard, one line per step, guard dropped, then the listing |

Abstractions, and why they are harmless to what is checked:

- An expression is named by the first entry its evaluation looks up; a definition
  refers to at most one further entry (`Refers`). The value of an expression is the
  primitive its chain ends in, its error code and the set of its look-ups: enough
  to tell versions of the database, bases of currencies and outcomes apart.
- Texts the grammar rejects fail before any guard is taken and touch no shared state;
  they are not among the expressions. Plurals and prefixes are further look-ups of the same kind.
- Definitions that are circular through user functions or prefixes alone are not
  detected by the code; no file of the instances has one (see the hazards).
- `conformable` walks the cloned listing in any order.
- Poisoned locks are entered like sound ones (`unwrap_or_else(into_inner)`); panics
  while a guard is held are not modelled.

**`AtomicStore`** is what the store promises, without locks: the database is loaded
and replaced in single steps, then the listing; an evaluation is one step, computed
by following the chain of entries in *one* database (`Evaluation`, a definition of its
own that counts steps instead of remembering names). **`UnitsStoreRefinement`** maps
`UnitsStore` to it (`committed` is the database, a listing under its write guard is
already the one that will be left behind, an evaluation happens at its last look-up)
and states what a call returns in a single-threaded program (`ConvertCodes`,
`ConformableNames`).

**`UnitAlgebra`** is `UnitValue`: a factor and a map from primitive units to
exponents. Exponents are machine integers `-Half .. Half - 1` (`i32`: `Half` = 2^31).
`Wrapped` and `WrappedProduct` are what `+=`, `-=`, `*=` and `wrapping_neg` store when
overflow checks are off. A map may lack a primitive or hold a zero for it; `Normalized`
is `normalize`, and each operation applies it where the code does (`invert` does not).
The arithmetic of `f64` factors is a parameter of the module: nothing here depends on it
but the refusal of roots of negative numbers.

**`UnitCalls`** is a caller with a few variables of type `Unit`, one action per method:
`MultiplyBy`, `DivideBy`, `AddTo`, `InvertIt`, `PowIt`, `RootIt`, `CloneInto` are
`unit_multiply` ... `unit_clone` of `ops.rs` with their early returns. `checked` says
how the crate was compiled: with overflow checks an operation whose exponents leave the
range panics, and the caller is done. `exact` and `fits` are history: the exponents in
unbounded integers, and whether they and all they came from are machine integers.
Queries (`is_conformable`, `to_number`) change nothing and appear in the properties, as
they answer without overflow checks (with them, the ratio may panic).

**`RationalPower`** is `apply_power` with the loops of `float2rat`: `Begin` makes the two
early returns, `Expand` is one round of the first loop, `Convergent` the second
loop, `Finish` the test of the fraction, root, power and reciprocal. An `f64` exponent
is represented by the fraction it stands for; rounding enters where it matters, as a
last quotient computed just below its integer (`ExpandRounded`). That an exponent
computed by several operations may miss its fraction by a few units in the last place
(and is then refused, the comparison being with `f64::EPSILON`) is not modelled.

**`Evaluator`** is `Evaluator` of `parser.rs`, with the stack of recursive calls made
explicit. `control` says what comes next (a tree to evaluate, a call whose arguments are
being checked, a value or an error to hand on), `stack` holds a frame per call in
progress; `vars`, `resolving` and `depth` are the fields of the program. A frame also
records the state when it was made (`before`, history). An expression is the tree the
grammar makes of a text; a text that does not parse is a tree of its own. `Tree` is the set of
the trees of all texts: of requests, of databases and of what the code itself puts together
(the `readings` of a table are the texts it answers with). `Height` is any number of levels that is
larger for a tree than for its parts (`Lower`), and what is needed to say how much stack a text takes. The assumptions on the constants say what the
types of the program say (`EvaluatorAssumption`, `TextsAssumption`) and that the arithmetic of
`f64` yields an `f64` (`FactorsAssumption`). Names are looked up as the first form, or the first
split into prefix and rest, that the database knows (`FirstForm`, `FirstSplit`). A name is that of
one kind of built-in function at most (`BuiltinsAssumption`), as the arms of a `match` are.

| Actions | Code |
|---|---|
| `EvalGarbage` ... `EvalCall` (`Decompose`) | `eval_additive`, `eval_product`, `eval_power`, `eval_unary`, `eval_atom`, `eval_nested` |
| `EvalVariable` ... `EvalUnknown` (`Resolve`) | `resolve_name`: a variable, a unit, a singular, a prefix, a prefix and a unit; `resolve_entry` with the set of names being resolved |
| `CheckArgument`, `BindAndEnter` (`Apply`) | `validate_func_arg` for each argument, then the binding of parameters in `call_user_function` and `call_inverse_function` |
| `AfterUnary` ... `AfterRadian`, `HandOn` (`Return`) | what follows each recursive call, on success and on error; `SwallowUnknownUnit` is nothing times an unknown unit; `AfterRadian` is `anglein` and `angleout` |
| `Abort` | the native stack is exhausted: by the calls of the evaluator, a frame for each (an operand on the left takes one too). The parser's own recursion over the text is not counted |

**`EvaluatorMeaning`** defines `Meaning(d)[n][e][h]`, what the tree `e` means in the database `d` at
the place `h` (variables, names being resolved, depth) with `n` frames of the native stack: a
function of the meanings of other trees with one frame fewer (two for the unit behind a
prefix), and `"aborted"` without a frame. The place is passed down, so nothing has to be undone
and there is no stack to search. Counting frames makes the definition a recursion over a
number, although texts of definitions may contain themselves.
The variables of a body are those of everything the body evaluates, the definitions
of units included; that is how the code works, and both definitions say so.

**`Builtins`** is `call_function`, function by function: what it demands of the
dimensions, where it refuses a number (`Refuses...`), and what the machine's arithmetic
would make of the number (`Outcome`: finite, zero, infinite, no number, or noise: a finite number
that is a rounding error, as Gamma's at its poles). Numbers are
counted in halves, and from `Infinite` on stand for infinity.

**`Tables`** is `insert_table` (words dropped, numbers paired off, pairs sorted) with
`interpolate` and `reverse_interpolate` over exact fractions. Of floating point two things
remain: the tolerance `f64::EPSILON` is lost in bounds of magnitude 2 or more, and 0
divided by 0 is no number.

**`FunctionDefinitions`** is `insert_function`, `parse_func_metadata`,
`parse_intervals_multi`, `find_formula_sep`. A text is a sequence of tokens (brackets, commas,
semicolons, stars, keywords, numbers, words), read in place from `at` on, as the code reads its
slice. `Groups` is the loop of `parse_intervals_multi`: it takes groups of brackets as long as the text
goes on with one and there are parameters left, whatever they were meant as; a group ends at the
first closing bracket of any kind. `keywords` is history: where the keywords were found.

**`Loader`** is `load_core`: one action per directive, with the flags `wrong_locale` and
`wrong_var` of each file being read. The text is arbitrary: each step reads any line, or
comes to the end of an included file (a file that is not embedded is one that ends at
once). `blocks`, `values`, `effective` and `plain` are history: the conditional blocks that are
open, the environment as the text means it, the lines that count, and whether no block was
opened inside one of its own sort.

**`CurrencyUpdate`** is `fetch_currency_updates` for the three providers, and what its
caller does with the result. A provider answers with rates for any set of codes or
fails in each of the ways the code tells apart; `Build` is `build_currency_template`,
`Reload` the effect of `reload_currency` on the database. A rate is known by the number
of the update that fetched it.

**`Grammar`** is `parser.pest` over tokens: one operator per rule, ordered choice,
greedy repetition, the look-ahead of `juxt_factor`. `Type` appends a token to the text.
A tree is written in postfix order, which makes the loops of the evaluator visible as the
order of operators. `Trees` is the context-free grammar that the head of `parser.rs` gives.

**`FfiLocks`** is the locking of the vendored engine: `GNU_UNITS_MUTEX`, the closure of
`DEFINITIONS` (`Globals`, `GlobalsEnd`, then a line at a time), `reload_currency`
(`LoadFile`, `InsertBegin`, `Insert`, `Loaded`), and calls made of several sections
(`EvaluateBegin`, `LookUp`, `EvaluateEnd`). `view` and `inForce` are history: the tables when
an evaluation began, and the file of the last reload unless two overlapped.

**`FfiUnits`** is what the wrappers of `ffi.rs` and the methods of `Unit` do with the
strings that C units own: each method is a script of steps (`Copy`, `FreeStep`, `Move`,
...), and a step that may fail has the steps that follow then. The C functions are
external; what they move or free is what the comments at their calls say.

**`MCValues`** and **`MCTexts`** each join four of these machines that have nothing to do
with one another into one instance: `machine` says which one runs, and the variables of
the others are `Unused`. Their properties are those of the machines.

**`UnitsStoreProofs`**, **`UnitCallsProofs`**, **`EvaluatorProofs`**, **`LoaderProofs`**,
**`CurrencyUpdateProofs`**, **`FunctionProofs`** and **`FfiProofs`** hold the proofs, and
**`NaturalOrder`** the lemmas about natural numbers they share: a set of naturals has a least
element, induction over a set, a recursive function has the values its definition gives.

Operators introduced by a comment that begins with "Variant" are deliberately wrong
versions of the definition that follows; nothing uses them. Each makes a property of
a run fail, which shows that the property depends on that detail of the code.

## 4. Runs

| Run | Configuration | Question | Result |
|---|---|---|---|
| `answers` | `MCUnitsStore_answers.cfg` | every path of `convert` and the other calls, twice, against every reload, twice | `AnswersAsIfAlone`, `ListingMatchesDatabase` hold |
| `refines` | `MCUnitsStore_refines.cfg` | three threads use the library for the first time at once, two reload (base switch, rates, functions, circular), one converts, lists or asks for conformable units, under weak fairness: what do they see, is the locked store the atomic one, and does every call return? | `TypeOK`, `DatabaseIsEmbedded`, `EvaluationsAreSnapshots`, `ListsAreWhole`, `ImplementsAtomicStore`, `CallsReturn` hold |
| `two_reloads` | `MCUnitsStore_two_reloads.cfg` | do listing and database agree after two concurrent reloads? | violated |
| `calls` | `MCUnitCalls_calls.cfg` | any five calls of the methods of `Unit` on two quantities, in both kinds of build | `TypeOK`, `ExactWhileInRange`, `ConformabilityAgrees`, `RootsUndoPowers` hold |
| `overflow` | `MCUnitCalls_overflow.cfg` | does `is_conformable` mean the same base dimensions? | violated |
| `evaluations` | `MCEvaluator_evaluations.cfg` | nearly 3,000 expressions, calls and conversions in six databases: what comes out, what is left behind, does it end? | `TypeOK`, `StateFollowsCalls`, `AnswersAsScoped`, `Ends` hold |
| `cycles` | `MCEvaluator_cycles.cfg` | is a text ever evaluated inside itself? | violated |
| `values` | `MCValues_values.cfg` | fractional powers, built-in functions, tables, units of the vendored engine | `TypeOK`, `SmallFractionsAreFound`, `RaisedExactly`; `AcceptedIsDefined`, `InversesAcceptValues`; `AnswersAreOnTheLine`, `NothingIsMissed`, `NotANumberOnlyAtTheStart`; `OwnershipHolds`, `NothingLeaks` hold |
| `poles` | `MCValues_poles.cfg` | is Gamma refused at its poles? | violated |
| `texts` | `MCTexts_texts.cfg` | expressions, definitions of functions, files, updates of currencies | `ParsesAsDocumented`, `Meant`; `UnitsAreLastGiven`, `BoundsAreKept`, `FormulaIsWhole`; `LoadsWhatCounts`, `DatabaseMatches`; `DefinitionsEnd`, `CompleteUpdateConverts`, `FetchedRatesCount` hold |
| `swallowed` | `MCTexts_swallowed.cfg` | are only intervals read as intervals? | violated |
| `ffi` | `MCFfiLocks_ffi.cfg` | three threads use the vendored engine: first load, reloads, evaluations | `GlobalsAreGuarded`, `EvaluationsAreOneState`, `ReloadsTakeEffect`, `CallsReturn` hold |

The violations are real disagreements between code and documentation, of small
consequence for the crate's normal use (one reload, of a file of plain units; small
exponents):

- `two_reloads`: thread 1 commits its database, thread 2 commits its own and edits the
  listing, then thread 1 edits the listing. The database now holds the rates of
  thread 2, the listing those of thread 1.
- `overflow`: in a build without overflow checks (the default of `--release`) a power
  wraps an exponent around. With 32 bits, `m` to the power 65536, twice, has the exponent
  2^32, stored as 0: a number, says `is_conformable`.
- `cycles`: a prefix that is defined by itself, or a function whose body calls it, is
  evaluated by `parse_sub` without a level of depth and without a name in `resolving`. The
  set that is documented as cycle detection does not see it, and the native stack ends.
- `poles`: `gamma_lanczos` is documented to be infinite at non-positive integers, and `Gamma` to
  refuse them. It tests whether the sine of a rounded product is exactly zero, which is so at 0 only;
  at every negative integer a finite number comes out, and is accepted.
- `swallowed`: `f(x,y) domain=[0,1] (x+y) m` has one interval for two parameters, so
  `parse_intervals_multi` takes `(x+y)` for the second, drops it because there is no comma in it, and
  leaves the formula `m`. So does `range=` without an interval.

Cycles are not all that exhausts the native stack. Each sign of a row like `- - - m`, or `per per m`,
is one more call (`parser.rs:365`, `373`), and no depth is checked on the way; and the parser, which
recurses on nested brackets (`parser.rs:110`), is done before `eval_nested` first looks at `MAX_DEPTH`.
Texts may be of any length, so nothing in the code bounds either. `Ends` therefore says of the evaluator
that it comes to an end or exhausts the stack, and the latter only if a prefix, a function or a table
contains itself or some text is too high for the stack (`TooTall`); `evaluations` has rows of signs
on both sides of that limit, in a request and in the definition of a unit. The stack of the parser
is not modelled: how many brackets it survives is not covered by any property.

Met while modelling, where the models follow the code and no run is spent on it:

- After a reload of a file with a function, prefix, table or alias the listing holds the old definition
  beside the new one (`lib.rs:277`): `retain` drops plain units only, and `extend` does not deduplicate.
- The parameters of a function are visible in the definitions of the units its body uses
  (`parser.rs:449`), which resolves names dynamically.
- Two parameters of one name are restored in the order in which they were bound
  (`parser.rs:938`): the first argument stays bound behind the call. Hence the hypothesis
  `DistinctParameters` of the proof.
- `convert` to a function evaluates its inverse without the range check (`ops.rs:133`) that
  `~f(x)` makes.
- From about 142.5 on Gamma overflows and is refused as a pole (`parser.rs:821`); lnGamma, which
  shares its series, checks nothing and answers at every pole.
- A table of one point answers every input (`database.rs:88`).
- Rates that were not fetched stay relative to the base of the template
  (`currency_update.rs:283`); the European Central Bank is refused with any base but EUR.
- JSON that cannot be read is reported as `Http` (`currency_update.rs:473`), and a failed
  request with a key as `Provider` (`currency_update.rs:467`).
- `unit_multiply`, `unit_divide` and `unit_invert` of the vendored engine are not
  serialised by the mutex; they use no globals.

Bounds. The files of `MCUnitsStore.tla` have one to six lines over two currencies, one
function, one table and one unit list: the least that contains a base switch (both
currencies redefined in one file), a change of rate, a function whose new text is
malformed or loses its inverse, a definition that fails (`sum`), one that becomes
circular, and an alias whose name is also a unit. Two threads suffice for a torn read
or an order disagreement, a third lets a reader meet a queued writer. `MaxCalls` is
the number of calls per thread: 1 (`refines`) lets every thread race the initialisation, 2 (`answers`) lets a
thread meet the state its own earlier call left. `ListingMatchesDatabase` is checked in `answers`,
where one thread at a time reloads. `WriterFirst` is `TRUE` except in
`answers`, where readers may overtake.

`calls` has two primitive units, two variables and exponents of 4 bits (`Half` = 8), so
that two or three calls reach both ends of the range and wrap around it; of a factor
it keeps the sign, all that the control depends on. Powers -1, 0, 2, 3 and roots 0 to 3
contain the refused ones, the one that deletes a unit and the least even and odd ones.
Five calls are enough to overflow, come back by an inverse or a root, and compare.
In `values`, powers have the limits of the code (20 terms, denominators below 100, fractional parts
below 1/1000) and exponents of 16 bits. Their fractions have every denominator up to 120, so on both
sides of 100, reduced or not, and include ratios of Fibonacci numbers (the
longest expansions), remainders below 1/1000, and values at and beyond the limits of
the integers, where sums and products saturate. `PowerAssumption` says why 20 terms are
enough: two of them halve what is left to expand, and 2^9 is more than 100.
Built-in functions get every half from -4.5 to 4.5, so both sides and the middle of
every end of a domain and pole, numbers where `f64` overflows, infinities and no number,
each as a number, an angle and a square. Tables are all of two or three points over four
inputs and four outputs in any order, all ascending inputs with four points, and
texts with a word or an odd number; they are asked at every half from beyond one end to beyond
the other. A unit of the vendored engine has at most two strings, enough for a method to
move one of them and fail, and there are addresses for every copy made on the way.

`evaluations` has `MaxDepth` = 4, so that groups, arguments and chains of definitions reach
the limit and exceed it, `StackLimit` = 105, what by `OnlyCyclesExhaust` texts up to height 5 can
need at most unless one contains itself (14 of them can be open, and (5 + 2) * 15 = 105). No
text but the rows of signs is higher, so `TooTall` excuses nothing else; a row of 105 signs is
the highest the stack has room for, and one of 106, or of 5 in front of a unit whose definition has 100, is the
first that exhausts it. Further there are factors modulo 7 (a field, in which every operation is exact) and exponents of 4 bits. The databases have the unit `radian` as a primitive, broken and
unknown; circular units, broken definitions, functions with and without domain, range,
units and inverse; a prefix, functions and a table that contain themselves; a unit defined by a
name that is also a parameter. Expressions are all pairs of sixteen operands under seven
operators, calls and inverse calls of every function with ten arguments, and groups up
to beyond the limit. `Tree` is all of these, all definitions of the databases, and all their parts.

In `texts`, expressions have up to five tokens, and seven behind a first argument, which
is where lists of arguments begin; `+`, `/` and `|` behave as `-` and `*` do and are left out.
Functions have up to three keywords in any order and number, twelve formulas and none to two
parameters: the keywords have fewer groups of brackets behind them than there are parameters, as
many and more, and formulas begin with a bracket or not. Files have six lines with included ones, of one name, three definitions and
one variable: enough to open two kinds of blocks, include a file in one and close either.
Currencies are three, with templates that know some of their rates or are malformed,
and three updates with any source, base and subset of rates: what the first leaves and
the second and third change.

`ffi` has two keys, three files in different orders, three threads and two calls each: two
lines are the least that can be half loaded, and the third thread meets what the others do.

Fairness. `FairSpec` assumes weak fairness of each thread's `Step`: a thread whose next
step stays enabled is eventually scheduled. Starting a call carries no fairness. A
reader blocked by writers needs no more than that because each thread makes finitely
many calls. Deadlock is checked in every run: the only state without a step other than
`Finished` would be threads waiting for each other.

`FfiLocks` assumes the same of its threads, with a mutex instead of a lock of readers and
writers. `Evaluator` assumes weak fairness of `Step`: an evaluation is one sequential
computation, which goes on as long as it has something to do. The other machines
are single-threaded and have safety properties only; `Done` marks their ends.

## 5. Proofs

Every theorem is about all values of the constants that satisfy the named assumptions of
the modules. Those assumptions are the types of the constants, unless said otherwise below;
TLC evaluates each of them on the instances.

**Store** (`UnitsStoreProofs.tla`), for arbitrary sets of threads, names, definitions, files
and calls and either lock policy:

- `TypeCorrect`: `Spec => []TypeOK`. The type invariant needs `CallInv` (a thread at a
  call site of `convert` executes a `convert`, at one of a reload a reload) to be
  inductive. That loading yields a database needs that a non-empty set of line numbers has
  a greatest element (`NaturalOrder`).
- `NeverEmpty`: `Spec => []DatabaseIsEmbedded`.
- `SnapshotReads`: `Spec => []EvaluationsAreSnapshots`.
- `ListsStayWhole`: `Spec => []ListsAreWhole`.
- `ListingAgrees`: `Spec => []ListingMatchesDatabase`, if files are as `units_cur` writes them
  (`CleanFiles`) and one thread at a time reloads (`OneReloader`). Without the second the
  property is false, and run `two_reloads` is the counterexample.
- `Implements`: `Spec => ImplementsAtomicStore`, the refinement of the abstract store.
- `AnswersAgree`: `Spec => []AnswersAsIfAlone`, if no reload turns a unit into something that is
  none (`UnitsStayUnits`): files of rates do not.

`NeverEmpty` and `SnapshotReads` rest on the invariant `StoreInv`, inductive together with the
type invariant: `BootInv` (one thread at most is in the `LazyLock` closure; `origin` goes from
unset to embedded there; nobody is past `ensure` before it is done), `LockInv` (who
holds the guards of the database, and that readers exclude writers), `VersionInv`
(without a writer the database is the last committed one, which every running call has
on record), `ReadsInv` (what an unfinished evaluation has looked up is still in the
database) and `KeptInv` (the results a call keeps are snapshots). `SnapshotReads`
alone is not inductive: that a further look-up agrees with the earlier ones follows
only from the guard (`LockInv`), and that the agreed database is a version on record
only from `VersionInv`. Most steps of the calls only go on to another call site; the
lemma `MovesOnStoreInv` treats them once, under the name `MovesOn`, and the lemmas
`ConvertMovesOn`, `ConformableMovesOn` and `OthersMoveOn` show which steps are of that kind.

`ListInv` does for the listing what `StoreInv` does for the database: who holds its
guards (`ListLockInv`), that what the listing lacks under its write guard will be added before it
is dropped (`WholeInv`), and what a call has already read of it (`ListedInv`).
`ListingAgrees` adds what of the reload has reached which copy (`ProgressInv`), and, with
nobody reloading, that the copies agree (`MatchInv`).

In the proof of `Implements`, `PathInv` says of an evaluation under its guard that what it has
looked up is the beginning of the chain that `Evaluation` follows in that database. `Evaluation`
counts steps and the code remembers names; that both stop at the same place, for chains of
any length, is shown by induction over the set of step numbers for which they agree.
Every step of the store is then an evaluation, a load, a reload of the database or of the
listing, or a stutter. `AnswersAgree` adds to it what a call under way has been answered so
far, in terms of the databases of its time (`AloneInv`).

**Unit algebra** (`UnitCallsProofs.tla`), for every set of primitive units, every
width of the exponents, every set of powers and roots and any arithmetic of factors that
stays among the factors (`AlgebraAssumption`, `CallerAssumption`):

- `QuantitiesStayNormal`: `Spec => []TypeOK`, the normal form included. It is inductive
  as it stands. The one operation that does not normalize, `invert`, is covered by
  `OppositeDimensions`: the opposite of a machine integer other than 0 never wraps to 0.
- `TestsOfConformabilityAgree`: `Spec => []ConformabilityAgrees`. It follows from the
  normal form by `RatioTellsDimensions`: two machine integers differ by less than
  2^32, so a wrapped difference is 0 only for equal exponents.
- `ExactUntilOverflow`: `Spec => []ExactWhileInRange`, with the invariant `ExactInv`.
- `RootsUndoPowersAlways`: `Spec => []RootsUndoPowers`, from the normal form and the
  arithmetic of `MultipleDivides`.
- `PowersAreExact`, about `RationalPower`: `TypeOK`, `SmallFractionsAreFound` and `RaisedExactly`,
  for every width of the exponents and all limits that satisfy `PowerAssumption`. `PowerInv`
  says that the quotients the expansion goes through (`Chain`) start with the exponent and
  end with what is left of it, and that every second coefficient halves the rest (`Halved`). Two
  facts about the second loop follow by induction over the coefficients (`NestedTracks`): its
  fraction is in lowest terms, unless an operation saturated, and its distance from the
  exponent is the rest over the product of the denominators (`Cross`). So a
  fraction is accepted only if nothing is left (`AcceptedFraction`), and something can be left only of
  a fraction whose least denominator is too large (`FractionsFound`), since the rest is below
  1/`Precision` or was halved `(MaxTerms - 1) \div 2` times. That the fraction is in lowest terms
  is what makes a power with integral exponents have a root of the base (`LowestTerms`); the rest is the
  arithmetic of machine integers (`RaisedExponent`), in which -2^31 is its own opposite.

**Evaluator** (`EvaluatorProofs.tla`), for every database, set of requests, limit of depth and
arithmetic, under the hypothesis `DistinctParameters` (no function has two parameters of one
name; with two the code does not restore the first, see section 4):

- `CallsRestore`: `Spec => []StateFollowsCalls`. The inductive invariant `IInv` says of every
  frame what undoing it needs: the name of an `entry` was not among those being resolved, or
  removing it would remove another's; a `body` keeps what its binding replaced; the `before`
  of each frame is the state the frame below leaves (`Valid`). `Pushed` and `Popped` treat
  the stack once for all actions; `RestoredVars` is the lemma that binding what was replaced
  undoes a binding.
- `EvaluationsStayTyped`: `Spec => []TypeOK`. `TInv` adds to `IInv` what each frame waits with
  and what `control` hands to it (`ControlTyped`, `FrameTyped`, `CallTyped`): trees that are
  trees of texts, operands and arguments that are unit values, and indices that are inside
  their lists. It needs `DistinctParameters` because what is bound is what was replaced.
- `EvaluationsMeanTheirTexts`: `Spec => []AnswersAsScoped`. The answer is what the text means, and the
  process is aborted exactly if the meaning takes more frames than there are. The invariant
  `Goal` says that what is under way still amounts to the meaning of the request: `Denote` is what
  `control` comes to at the place where it stands, `Handed` what the call of a frame makes of a
  result, and `Hands` hands a result down through all frames to the caller. An action
  keeps it if what it leaves to do amounts to what there was (`Serves`); for an action that makes
  calls this is the equation of `Meaning` for its tree (`MeaningIs`, from `MeaningRecurs`, by
  induction over the frames left), for one that returns it is one step of `Hands`. That calls in
  progress take exactly the frames the meaning counts is `Room`; `StateFollowsCalls` supplies that the state
  a result meets is the one its frame was made in. Arguments and checks come one at a
  time in the code and all at once in the meaning: `ArgumentsGoOn` and `NextMeans` say that the first failure
  is the same.
- `RecursionIsBounded`: there are never more than `Enough` frames unless a text contains itself, namely
  (H + 2) times one more than the texts that can be open at once (`Openings`: definitions of units as
  deep as `MaxDepth`, every prefix, function and table once), where H is a height that the request and the texts of the database do not exceed.
  H is not bounded by anything in the code.
  `OnlyCyclesExhaust`: whatever the size of the stack, `Spec => []OnlyCyclesAbort`, the safety half of `Ends`: it is
  exhausted only by a text that contains itself or where some text is too high for it (`TooTall`). Otherwise
  there is a height that no text exceeds and whose `Enough` the stack has room for (`HeightAllowed`).
  `HeightAssumption` says that trees have heights and that databases are finite, as all are that
  a program can load. `Fitting` gives each frame its place: a part of a tree fits
  where the tree fitted, one frame further up (`PartFits`), and a text, however high, has H + 2 frames more for being
  one (`TextFits`). That open texts are no more than can be open is an
  injection (`OpeningsSuffice`): definitions of units have different depths (`DepthsRise`), and the others
  different names, or one would contain itself.

**Loader** (`LoaderProofs.tla`): `LoadsExactly` proves `LoadsWhatCounts` and `DatabaseMatches` for
any text, environment and depth of includes. The invariant `LoaderInv` reads the two flags
of each file as the blocks that are open in it, as long as the history variable `plain` is true: after a
block inside one of its own sort the flags no longer can be read so, and the properties no longer
promise anything.

**Currency update** (`CurrencyUpdateProofs.tla`), for any currencies, templates, providers,
failures and number of updates: `FetchedRatesAlwaysCount` (`FetchedRatesCount`),
`DefinitionsAlwaysEnd` (`DefinitionsEnd`) and `CompleteUpdatesConvert`
(`CompleteUpdateConverts`). `UpdateInv` ties the database to the last file loaded and the file
to the rates that were fetched. That definitions end is shown by a rank that every
definition decreases (`Ranked`), kept through updates with changing bases. The hypotheses
`NamesUnitsOnce`, `NamesCodesOnce` and `RatesAreRelative` are facts of the template the crate embeds, in
which each currency has one code and one unit, and each rate is in terms of the base of
the template; the template is data, so they are not assumed of the model but stated in the theorems.

**Functions** (`FunctionProofs.tla`):

- `FunctionsAreAsWritten`: `UnitsAreLastGiven`, `BoundsAreKept` and `FormulaIsWhole`, for every
  text. What counts as a bound is the last group of brackets in the place of the parameter, were it
  the beginning of the formula, and the formula is what keywords and such groups leave: that they
  take more than their own is run `swallowed`. `FunctionInv` says which part of the text has been read
  (`PlaceInv`) and that the metadata are the last ones given there (`MetaInv`), and of the formula where the formula is cut: the depth the
  code counts is the number of square brackets opened less those closed.
- `TablesAnswer`: `AnswersAreOnTheLine`, `NothingIsMissed` and `NotANumberOnlyAtTheStart`, for
  every table and number. Sorting is a bijection of places; of a polygon whose ends lie on both
  sides of a number, some window crosses it; and the interpolated point is on its piece by the
  arithmetic of fractions.
- `BuiltinsAreDefined`: `AcceptedIsDefined`, which leaves the poles of Gamma and lnGamma out, and
  `InversesAcceptValues`, for every argument;
  `NumbersAssumption` says that `Infinite` is beyond all limits the code compares with.

**Vendored engine** (`FfiProofs.tla`):

- `GlobalsGuarded`, `OneStateEvaluations` and `WholeReloads` about `FfiLocks`, for any threads, keys,
  files and calls. The invariant `IInv` has a part for each fact the others need: `Guarded` (who
  is in a function with globals holds the mutex), `FilledOnce` (one thread fills the tables, and
  nobody reloads or evaluates before), `Progress` (the lines inserted so far are in the
  tables), `Defined` (what was defined stays defined), `Effect` (of the only reload under way,
  the lines inserted are its own) and `Still` (tables do not change under an evaluation, which
  follows from the mutex and is what makes the look-ups agree).
- `StringsHaveOneOwner`: `OwnershipHolds` and `NothingLeaks` of `FfiUnits`, for any number of
  strings. `Owns` relates heap, holders and owners; `Safe` is the set of scripts a method may
  have left to do, closed under the steps, in which no step frees what another unit holds.

Recursion and folds. The provers do not do induction over data. Where a model computes
along a sequence, the definition is a recursive function over an initial part of the naturals, and
the proof uses `NaturalInduction` and `RecursiveFunction`, which are proved from the existence of a least
natural number.

Only model-checked: `ParsesAsDocumented` and `Meant` (the trees of `Grammar` are RECURSIVE operators,
and what they compute for every text is an induction over data); `CallsReturn`, and of
`Ends` that an evaluation ends, since liveness under fairness is out of the prover's reach.

## 6. Not modelled

- The characters of a line: joining continuations, cutting comments, splitting fields,
  replacing operators that are not ASCII; the characters of numbers and names in expressions.
- Formatting: `base_units`, messages of errors, `Display`.
- The arithmetic of `f64` factors, and the rounding of rates to twelve decimals
  (`format_float`), which prints a rate below 5e-13 as 0.
- The native stack that the parser takes for nested brackets, before the evaluator begins.
- HTTP, XML and JSON: an answer of a provider is a set of rates or a failure.
- The C program behind the vendored engine: a git submodule that is not in the tree. Its
  functions are external definitions of `FfiUnits` and atomic steps of `FfiLocks`.
- Embedded data files and build scripts, which have no state, and generated bindings.
- Panics while a guard is held. An exponent that overflows in a build with overflow checks
  panics under a read guard, which is dropped and does not poison the lock.
