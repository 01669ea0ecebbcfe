# A formal model of anti-slop-go

anti-slop-go is a suite of fifteen Go analyzers ("rules", G01 to G15) with two
front ends, a standalone multichecker and a golangci-lint plugin, and a
two-tier gate of shell scripts that decides what must be checked before a
commit, before a push and in CI. This directory holds TLA+ modules for the parts
of it that keep state, TLC configurations that check them on small instances,
and proofs for TLAPS. Paths in this file are relative to the repository.

    tlasany M.tla                          parse a module
    tlc -workers 2 -config X.cfg MCM       check a run
    tlapm MProofs.tla                      check the proofs of a module

## 1. The system

### Components, the state they keep, what makes them correct

| Component | State | Operations | What must hold |
| --- | --- | --- | --- |
| G05 `nolaundering` | `collector.bindings`: per local variable its widenings, its assertions, whether it was dropped | one visit per declaration, assignment, range, address, mention, assertion; one pass over the chains; the reports | a report names the type that the variable holds in every execution; the order of the statements and a closure never make it a guess |
| G12 `fullstructcomp` | per function: the runs of each base, the element runs, the order in which they appear | one visit per statement; at the end of the function the anchor, the cut, the gates and the reports | the reports are the documented groups; they do not depend on the order of a map; doing what a report says ends it |
| G01 `safetyassert`, G11 `justifypanic` | none but the comment index they ask | one test per assertion or call | a site without a comment directly above it, and without an exemption, is reported |
| G03 `noanyparam`, G04 `noanyreturn`, G06 `noadhoctypeswitch`, G09 `nointerfacereturn` | none but the evidence they ask for | one test per signature, switch or function | the advice can be followed, ends, and the rules do not contradict each other |
| G07 `noreflect` | the earliest use per file | one step per used identifier, in map order | one report, at the first use |
| G08 `nomonkeypatch`, G13 `errsemantics` | none | one test per assignment, call or comparison | what rewires production, or decides a test by a message, is reported |
| G14 `separategotwant` | the set of positions reported | one walk per assertion | one report per nested call |
| G02 `nountypedmap`, G10 `noerrorassert` | none | one test per node | a node is reported exactly where the specification says |
| contracts and justifications (`internal/signature`) | lazy caches of one pass: implemented interfaces, comment lines, generated files | questions of G01, G03, G04, G06, G09, G11 | an answer does not depend on when the cache was filled |
| registry (`antislop.go`) | one analyzer value per rule, shared by every importer | `Analyzers()` | order and identity are stable |
| configuration (`internal/pathmatch`) | one slice of patterns per configurable instance | `List.Set` of a flag | the lists of two instances are never one |
| golangci-lint plugin | the decoded settings block, the instances built from it | `New`, `BuildAnalyzers` | each instance reads its own configuration; `enable` and `disable` choose the documented rules |
| two-tier gate (`scripts/precommit-check.sh`, `.githooks`, `Makefile`, CI) | the worktree, the index, the head, the remote | staging, commit (hook: scoped, docs or full tier), push (hook: `make check`), the CI job | what the cheap tier lets through, the full gate accepts |
| coverage bar (`scripts/coverage-gate*.sh`) | the merged profile of one run | read the profile and the exclusions, merge, compare | the bar is read off the merged blocks, and an empty profile does not pass |
| standalone command | none | hands the registry to `multichecker` | - |

### How they interact

The rules are independent: each gets a type-checked package from its driver and
returns diagnostics. They share three things. `internal/signature` is called by
six rules for comments and interfaces and caches per pass. `antislop.Analyzers()` hands out module-level
values that the standalone command and the plugin both reach. Slices of the
plugin's settings go by value into several constructors, which keep them and let
flags append to them. The gate calls the rules as one linter among others, and
takes its scope from git and `go list`.

### Where it is hard

Nothing here runs concurrently, and nothing is persisted except by git. What is
hard is order, sequences and aliasing: the order of the statements that a rule
visits compared with the order in which they execute; the random iteration of Go
maps; a developer who applies what a report asks for and runs the rule again;
edits, partial commits and pushes in some order; slices shared by value. The
`hazards` of `PROJECT.json` list each at its line.

## 2. The modules

| Module | Models | Uses |
| --- | --- | --- |
| `Laundering` | G05: the collector, the operand reader, the reports, and an execution of the file it reads | |
| `Evidence` | the abstract promise of G05's binding shape | refined by `Laundering` |
| `LaunderingProofs` | theorems about `Laundering` | `Laundering`, TLAPS |
| `Gate` | the repository, the three enforcement points, the choice of the tier and of the scope | |
| `Settings` | the plugin, the registry, the constructors, the flags, over an explicit memory of arrays | |
| `FullStruct` | G12: the sites, the runs, the gates, the reports | |
| `FullStructProofs` | theorems about `FullStruct` | `FullStruct`, TLAPS |
| `PathMatch` | the package patterns and the test-packages setting, as operators | |
| `PathMatchProofs` | theorems about `PathMatch` | `PathMatch`, TLAPS |
| `Multiline` | G15: the files read, the tables, the reports, the fix, the runs after it | `PathMatch` |
| `MultilineProofs` | theorems about `Multiline` | `Multiline`, `PathMatchProofs`, TLAPS |
| `Justify` | the comment index and the placement of comments, G01, G11, while the files change on disk | |
| `JustifyProofs` | theorems about `Justify` | `Justify`, TLAPS |
| `Contracts` | the evidence for a signature, G03, G04, G06, G09, and a developer who follows their reports and runs them again | |
| `ContractsProofs` | theorems about `Contracts` | `Contracts`, TLAPS |
| `TestRules` | G07, G08, G13, G14, and the run of the statements that G08 reads | `PathMatch` |
| `TestRulesProofs` | theorems about `TestRules` | `TestRules`, TLAPS |
| `Coverage` | the coverage gate and its scoped wrapper | |
| `ToolingProofs` | theorems about `Settings`, `Gate` and `Coverage` | the three, TLAPS |
| `MCLaundering`, `MCGate`, `MCFullStruct`, `MCMultiline`, `MCJustify`, `MCContracts`, `MCTestRules` | values of the constants for TLC | the module they are named after |
| `MCTooling` | one run of the three programs around the rules | `MCGate`, `Settings`, `Coverage` |

The plugin, the gate and the coverage bar share no state and never run at once. `MCTooling` puts the three
specifications side by side: `tool` chooses one in the first state, and the other two stay where they start.

### Laundering and Evidence

`bindings` is `collector.bindings`; `prog` is the file as far as the inspector has
visited it, and `scope` says which function declares each variable. The actions of
the "walk" phase are the arms of `trackBindings` (`Declare`, `Assign`, `RangeOver`,
`AddressOf`, `Mention`, `TypeAssert`), each with the whole of the `declare`,
`assign`, `drop`, `use` or `assertion` it calls; `Finish` is the rest of `run`. The
`heap` and `aliased` variables are not in the analyzer: they are the program that is
analysed. Once the file is read, `Store`, `TakeAddress` and `ForeignWrite` execute
its statements in any order and any number of times, which over-approximates loops,
branches, calls of a closure and writes through a pointer.

- `Sound`: a variable that a binding report names never holds, in any execution,
  a value of another type than the report says.
- `Exact`: the binding reports are exactly those of the rule as documented,
  computed from the whole file instead of one pass.
- `ImplementsEvidence`: under `known` (nothing, one type, open) the collector
  implements `Evidence`: what is known only grows, and the verdict names
  only what is known.
- `ChainLosesEvidence`: a chained report stands exactly where an operand holds less
  evidence than the value it starts from.

`interfaceOf` answers the constraint of a type parameter, so `source` looks through `P(v)` and `x.(P)` as it
does through `any(v)` and `x.(any)`. A step of an operand may therefore go to a type parameter. At run time a
conversion to an interface keeps the value, and one to a type parameter makes a value of a type that the parameter
stands for (`Becomes`).

The code departs from its documentation in two places, and the properties except the variables and operands they
concern, by name:

- Type parameters. `docs/spec/002-rules.md:296` leaves a widening alone when a type parameter appears in the
  hidden type, in both shapes; the code asks that of the chained shape only, and of the source only. What it
  looks through may hide a type parameter too, and then the type it records is not the type of the value
  (`ThroughParam`). `ParametersStop` states the documentation and is violated (section 5). `Exact` excepts the
  variables that hide a type parameter (`FilledFromParam`), `Sound` only those that take a value which was looked at through one
  (`FilledThroughParam`), `ChainLosesEvidence` only such operands.
- Parentheses. `assign` and `drop` (`nolaundering.go:267`, `:336`) do not remove them, so they do not see
  `(v) = x` and `&(v)`, although `docs/spec/002-rules.md:256` counts every assignment and `:337` drops a variable whose address escapes.
  Each statement of the model may be written that way (`paren`). `Sound` and `Exact` except such a variable
  (`Parenthesised`); without the exception both fail after three statements.

Abstractions: an expression is a base under a list of conversions and assertions to interfaces and type
parameters; parameters, results, fields and package variables are variables that no function declares, as the
collector treats them; the set of types for which `MentionsTypeParam` answers true is a constant; message texts
are left out.

### Gate

A file has one of three versions (as before, changed, gone); `worktree`, `index`,
`head` and `remote` are snapshots. `Edit`, `Stage`, `Commit`, `Push` and
`CheckRemote` are the developer and the CI job; `Commit` runs the whole hook: the
staged list, the escalations, the changed packages (`StagedGo`, `Nearest`, `Seen`),
the graph, the scope and the checks. Every linter and test of the gate is one
arbitrary test `trap`: it belongs to a package and fails on one combination of
versions of the files that the package can read, so a hole in the scope shows up as
a test that fails at head and did not run. The coverage bar is not a test of one
package and is left to `Coverage`.

- `HeadGreen`: no accepted head fails `make check`.
- `DocsReadByNone`: the docs tier accepts only changes that no package listed at head reads. (A
  directory without a Go file is no package, and nothing is promised for a test there.)

Partial commits are in the model (`Whole` = FALSE allows them) and in no property: the
script checks the worktree, the comment at `scripts/precommit-check.sh:48` leaves a
staged half that differs to pre-push and CI, and the pre-push hook runs `make check` on
the worktree too, so that only CI judges what such a commit holds.

The blind spot that `precommit-check.sh` declares (a test that opens another
package's files at run time) is left out by construction: `Viewer` is one package.

### Settings

A slice is an array of `memory` and a length, its capacity is the length of the
array, and `AppendTo` writes in place while there is room. `New` decodes a block,
`BuildAnalyzers` constructs and selects, `SetFlag` is `List.Set` on an instance that
some holder can reach. `given` is a history: which patterns each holder gave.

- `Isolated`: every analyzer reads the patterns of its own settings, and then as many more as
  its own flags gave, whatever the other holders did. They are the patterns of its own flags,
  with one exception, which the property names (`Contended`): seven constructors get one slice
  (`plugin.go:178`), and where its array has room and two instances of one build took a flag for
  it, the flags of one may stand where those of the other were. The array need not have room any
  more for the last of them: the patterns of an instance are overwritten in the shared array, and then copied to
  another one by a flag that no longer fits. golangci-lint sets no flag, so only a caller
  that does both can meet it.
- `Selects`: `BuildAnalyzers` returns the rules that `enable` and `disable` choose by
  the documentation, in the order of the registry, or the error.

### Coverage

One behaviour is one run of a gate on one profile: `Wrapper` is the scoped script up to
the call of the other, `Start` the tests of the bar and of the file, `ReadExclude` one
line of the exclude list, `ReadLine` one line of the profile through the three filters
into `hits`, `Decide` the END of the awk program.

- `BarOnBlocks`: the verdict is that of the set of measured blocks, whatever the order
  of the lines and however often a block stands in them, and the full gate
  passes nothing for want of data, of a bar or of a reason.
- `PartsDecide`: what the full gate finds below the bar, the scoped gate finds in the
  scope or would find in the packages outside it.

`PartsDecide` also says how far the two tiers agree about coverage. They need not: a
scope at 90% that was at 100% can bring a whole that was at 90% below the bar, because
the packages outside the scope were below it all along. Pre-push and CI find that;
`coverage-gate-scoped.sh` calls its departures safe for that reason. So
`HeadGreen` of `Gate` is about everything but the coverage bar.

A glob stands for the set of blocks that it matches; the translation of globs into
regular expressions is not modelled. A profile without its header line is not
either: `go test` writes it first.

### FullStruct

One behaviour is one test function: `Visit` is the inspector at one statement
(`reportRuns`, `addSite`, `addElement`, the literal reports), `Finish` picks an order of
each map of fields and produces the reports of `run`, those of `reportOneField` with them. `fn` holds the statements visited; `runs`, `order`, `elements`
and `elementOrder` are the maps and slices of the code.

- `AnchorDeepest`: whatever the order of the map, the anchor is the deepest path all
  the fields share.
- `CutLeast`: the cost is the size of the least ignore list there is. What cmp reads is followed one name
  deeper than the asserted fields (`ReadFor`): a name below stands under one that ends an asserted field or a sibling of one.
- `RunsDocumented`, `ElementsDocumented`: the groups and counts are those of the
  specification, stated over the whole function instead of site by site.
- `FixStays`: the diff that a report asks for does not trip the rule's own report
  of a diff that compares one field.
- `OptionNamed`: a report names `cmp.AllowUnexported` where cmp would panic without it
  (violated: see Findings).

Abstractions: which calls are assertions (`isEqualCall`, `failsTest`, `typePackage`)
is not modelled, so a site is one that the code accepts; a field is promoted through
one level of embedding. `FixStays` leaves out fields that nest in one another
(`Meta` and `Meta.Kind`), fields below an `Equal` method and unexported ones: there
the two reports of the rule do ask for different things, and the specification
does not say that they agree.

`docs/spec/002-rules.md:1725` lets a base pass the gate as a roundtrip when enough sites pair it "with one
other base". The code has one counter for the pairs with all other variables (`fullstructcomp.go:481`), so it also lets
a base pass that pairs once with each of two. `RunsDocumented` counts as the document does, and excepts by name
(`scattered`) the bases that reach the number only over several others.

### PathMatch and Multiline

`PathMatch` holds pure operators: how a package pattern is read (`Match`), and the
test-packages setting (`IsTestPackage`). A path is a sequence of characters, its suffix
`_test` being one of them. The regular expression is matched as an automaton: `MatchString` follows
the set of places where a match of the first i elements can end, `Takes` being what one element
matches. `Match` tries the pattern again above each subtree suffix. Both are recursive functions.

One behaviour of `Multiline` is a package under G15: `ReadTable` visits one `range` statement and
reports the cases of its table (`readTable`, `readCase`), `Finish` ends the run, `Fix` is
the driver that applies every fix offered, `Edit` a developer who joins or comments a case;
after both the rule runs again. Lines are abstracted to whether the braces of a case
stand on two (`split`), an expression to a table, a name or something else.

- `PatternsDocumented`: the patterns name the packages that `docs/spec/003-implementation.md`
  says, stated as a division of the path into runs instead of as an expression.
- `ReportsDocumented`: after a run the reports are the one-line cases of the tables that
  loops of the files read name, each once, whichever loops read them, in whichever order.
- `FixSettles`: a run after a fix, with no edit between, offers no further fix.
- `CommentsKept`: no fix removes a comment (violated, section 5).
- `LostAcross`: what the code keeps of that. A fix removes a comment only where the first loop to read the table, in the
  order of the files, stands in another file than the table.

The sequences of files and of cases that the code filters are `Kept`, the elements of a sequence
that a set holds, in their order.

A table stands in one place, and a comment between the braces is one between the fields; a
comment inside the value of a field also blocks the fix in the code and would survive it.

`docs/spec/002-rules.md:2738` says that a case with a comment between its braces gets no fix. The code
(`multilinecase.go:263`) looks for that comment in the file of the loop, so where the table is declared in
another file the fix is offered and removes it. Within one file, and where a loop of the table's own file
comes first, `LostAcross` says that it does not happen.

### Justify

One behaviour is one pass of G01 or G11 over a package. `Visit` is the inspector at the next
node: the tests of the rule (`Judged`), and for a node that passes them the question to
the comment index (`Ask`), which builds the index from the files on disk if it is the first.
`Change` is anybody who edits, cuts or removes a file between two visits; `first` remembers
the disk at the first question. A file is a sequence of bytes of three kinds (code, blank, newline):
lines and the own-line test are computed from them. The stack of nodes is read off the
`parent` of each.

- `ReportsDocumented`: with unchanged files the reports are those of
  `docs/spec/003-implementation.md`, which is stated by containment of statements, blocks
  and clauses and not as a walk; for G11 with the exemptions of `docs/spec/002-rules.md`.
- `OneReading`: all answers of a pass follow from the files as they were at the first question.
- `LossSilences`: files that are gone or cut short can hide a report and never make one. A file of other
  content with the same length can make one, which the property leaves out.

A comment in front of code on its line (`/* c */ x := 1`) owns its line for the code, and for
`OwnsLine`, which says "no code before it". Which calls stop the process, and what an assertion's
context is, are flags of the nodes.

### Contracts

One behaviour is a package, a run of the four rules over its signatures (`Visit`, in source order; at
a signature the four handlers together, which do not depend on each other), and a developer who
follows some of the reports, in any order, and runs the rules again (`Narrow`, `Retype`, `Comment`,
`Rerun`). Types are names; a method set is computed from declarations and embedding; a comment is
three flags (above, shaped as a doc comment, with the marker).

- `ReportsExact`: G09 reports a result, and with which type, exactly where it should (`Warranted`): every return
  gives that one concrete type or nil, a naked return counting as one that gives the declared type, nothing
  justifies the signature, and no interface that the rule reads would be lost. Every report of the rule is such
  an advice, and every such advice is reported.
- `BodyBuilds`: after any of the edits every return statement still compiles. Its exception is in the
  code: `nil` beside a type that has none (`nointerfacereturn.go:216` keeps the conclusion for a
  struct type, whose author must then use a pointer).
- `NarrowKeeps`: an edit that a report asks for takes no interface from a receiver.
- `SwitchAgrees`: G06 reports a switch on a parameter exactly where G03 reports the parameter, or
  would but for the name `cause`.
- `Settles`: the developer who goes on comes to an end with no reports left.

Two limits of the code are in the model and outside the properties. An interface that is declared inside a
function, or one that an imported package does not export, is not read by the rule, and narrowing may
lose it (`FixesResults` names what is read). And the rule asks for the interfaces of the receiver only: where a
type embeds the receiver and implements an interface through it, narrowing the method takes that interface
from the outer type (`NarrowKeeps` is about the receiver).

### TestRules

A developer writes a package (`Write`), one analyzer passes over it (`StartPass`, then `ReadUse`,
`ReadAssign`, `ReadCheck` or `ReadCall` per node, then `Conclude`), and the assignments of its tests
run in any order and any number of times (`Execute`). `ReadUse` takes the identifiers in any order,
as Go's map does; the others go in source order. The memory maps cells (a variable or an object, then
fields) to behaviour, data or a reference, so that a map or a struct behind a pointer is shared as in Go.

- `ReflectDocumented`: G07 reports at each import of production code and once at the first use beyond `DeepEqual` of a test file, in every order.
- `SeamsKept`: while no container passes between production and tests, what production reads
  changes only by a statement that G08 reports, and each of those does change it.
- `TextDecides`: G13 reports a check exactly where its outcome depends on the message of an error. The exception is
  `Equal` of an error and of a message (`NeverEqual`): it never passes, and the rule reports it for the `Error` call.
- `NestedOnce`: G14 makes as many reports as an expression without a chain has nested calls that take a testing value, one at
  each, and none elsewhere; where calls chain, one at each position where one starts.
- `EachCallReported`: as many reports as nested calls, chains included (violated, section 5).

What `SeamsKept` excepts (`HandsOver`) the rule does not see: a test that replaces a whole map, struct
or pointer of production, or writes through a local variable that refers to one. Calls of one chain, `a(t).b(t)`,
start at one position and share one report (`separategotwant.go:208` keys by position), where
`docs/spec/002-rules.md:2624` gives each call its own. The patch libraries and
linkname directives of G08 are not modelled, nor a testify method called through a method
expression, which shifts the arguments that G13 reads.

## 3. Runs

| Run | Configuration | Shows |
| --- | --- | --- |
| `laundering` | `Laundering.cfg` | `TypeOK`, `Sound`, `Exact`, `ChainLosesEvidence`, `ImplementsEvidence`: every file of three statements, every operand of at most two steps over nine types |
| `laundering_parameter` | `LaunderingParameter.cfg` | finding 3 (`ParametersStop`) |
| `tooling` | `Tooling.cfg` | `HeadGreen`, `DocsReadByNone` of the gate, whole commits; `Isolated`, `Selects` of the plugin; `BarTypeOK`, `BarOnBlocks`, `PartsDecide` of the bar, every profile of three lines |
| `gate_fixture` | `GateFixture.cfg` | finding 1 (`HeadGreen` with a Go file below testdata) |
| `fullstruct` | `FullStruct.cfg` | `TypeOK`, `AnchorDeepest`, `CutLeast`, `RunsDocumented`, `ElementsDocumented`, `FixStays` |
| `fullstruct_option` | `FullStructOption.cfg` | finding 2 (`OptionNamed`) |
| `multiline` | `Multiline.cfg` | `TypeOK`, `PatternsDocumented`, `ReportsDocumented`, `FixSettles`, `LostAcross` |
| `multiline_comment` | `MultilineComment.cfg` | finding 4 (`CommentsKept`) |
| `justify` | `Justify.cfg` | `TypeOK`, `ReportsDocumented`, `OneReading`, `LossSilences` |
| `contracts` | `Contracts.cfg` | `TypeOK`, `ReportsExact`, `BodyBuilds`, `SwitchAgrees`, `NarrowKeeps`, `Settles` |
| `testrules` | `TestRules.cfg` | `TypeOK`, `ReflectDocumented`, `SeamsKept`, `TextDecides`, `NestedOnce` |
| `testrules_chained` | `TestRulesChained.cfg` | finding 5 (`EachCallReported`) |

Bounds, and why they are enough:

- `laundering`: the types are `any`, two interfaces of which one embeds the other, three concrete types,
  a type parameter that two of them convert to, a slice of one, and nil. `MaxStmts` = 3: a binding report needs a widening and an
  assertion, and one statement more is what can take it back. One variable is enough because the collector never relates two; one
  declaration with one literal inside gives every relation between a use and the declaring function. The operands with
  two steps, which the chained shape needs, stand in files of one statement, and the files of two and three statements are
  built from the short ones (`FileSpec`): what a variable takes, itself, and either under a conversion.
- The gate of `tooling`: `MaxEdits` = 2, three packages, eight files: the two edits are the change that
  breaks a package and the one that hides it, by making the scope non-empty or by
  changing an import. The packages form a chain through code and through tests. A test fails
  on one combination of at most two changed files (`TwoChanges`); in `gate_fixture`, on one (`OneChange`).
- The plugin of `tooling`: two runs (`Plugin`), `MaxBuilds` = 1, `MaxSets` = 3: two flags are the least that land in one place,
  and the third makes one of them move to an array of its own. One list of the settings
  fills the array it is decoded into, another holds three patterns and leaves room for
  one more (`DecodedCap`). Five blocks: one rule in both of `enable` and `disable`, and each of the errors. The two
  runs are interchangeable, and so are the two patterns that flags give, which is the symmetry of this run: no other definition
  names them, and no property is about liveness.
- `MaxSites` = 3 with `MinFields` = 2 and `MaxIgnore` = 3 over eighteen statements and
  five variables: two sites make a report and the third disturbs it. `MaxDepth` = 12 is
  a constant of the code. The shape of `Item` has an embedded struct, an `Equal` method,
  a named slice, a recursive type and an unexported field.
- The bar of `tooling`: profiles of up to three lines over four blocks of 3, 1, 0 and 4 statements in
  two packages, hit or not (the script only asks whether a count is above 0), bars 50, 75, 100 and one that is no number. Two lines of one
  block are what merging needs, the third stands in another block or package; 3 of 4
  and 4 of 8 statements lie exactly at a bar; a block of no statements gives a total of zero.

- `Multiline`: two files and two tables, with one variable: a table met twice in one file, in two
  files, behind a name or in the loop itself. `multiline_comment` has the same packages. Every pattern of up to three elements (two letters,
  a slash and the two wildcards) against twelve paths, and three longer lists with nested
  subtrees. `MaxEdits` = 2: one edit before a fix and one after it.

- `Justify`: one file with one of four shapes (a switch, an if with an else, code outside functions, a
  recover), in every layout that puts a newline or a blank before each token and one of six comments before at most
  one of them; one comment is enough because the answer for a site is a disjunction over comments. A
  second file holds one call. Files change on disk in packages of one fixed layout.
- `Contracts`: up to four signatures. Constructors that return values, nil, each other and one call for two
  results; a method behind an interface of this package or an imported one, exported or not, with one or two
  methods, and a type that embeds the receiver; `any` parameters grouped and apart with switches on them.
  Every set of reports can be followed in every order before a rerun.
- `TestRules`: the nodes of a package are of one kind, that one rule reads: four imports and uses of
  reflect, two assignments, one check, one tree of at most three calls. Two assignments are what it takes to
  hand a container over and write through it; three calls are an assertion in an assertion and a call below.
  Five configurations of path and patterns, and every set of generated files.

`CHECK_DEADLOCK FALSE` stands in every configuration: a file, a function, the edits,
the builds and the flags are finite, and then the model is done.

One liveness property is stated, `Settles` of `Contracts`, under weak fairness of three actions: the
run of the rules (`Visit` and `Finish`: a call that has no loop without end and waits for nothing), the
next run, and a developer who acts on some report while there is one. The last two are the
use that the tool is made for; a developer who stops refutes nothing, and which report he acts on, and how,
is left open. In the other modules every handler runs to its end when it is called and
nothing waits, and the push of a commit is up to the developer: there no fairness would be justified.

## 4. Proofs

Seven of the eight proof modules prove invariants of a specification, `PathMatchProofs` is about
pure operators. A specification that is proved about has one inductive invariant (`IInv`; in `ToolingProofs`, which
holds three, `SettingsIInv`, `GateIInv` and `BarIInv`), a lemma or a case per action, and the theorems that follow from
it; `TestRulesProofs` has a second one for the run of the tests, `SInv`. The definitions of `Settings`, `Gate` and `Coverage` have the names of their module where they share a scope (`GateInit`,
`BarNext`, `settingsVars`).

Where the code recurses, the model has a recursive function, and the proofs use it in three
steps: a lemma by induction says that such a function exists (`EndsExist`, `StacksExist`,
`FlatExists`, ...), so that `CHOOSE` gives one that satisfies its equation; a lemma, again by induction,
says what each of its values is; and the callers cite that lemma only. Induction is done with sets:
the numbers for which the statement holds are a set that contains 0 and is closed under + 1, or
the least number outside it gives a contradiction (`SetInduction`, `LeastNumber`). No
operator is passed to a theorem.

### Assumptions

An assumption on a constant says what go/parser, go/ast or go/types guarantee of any package that
a driver hands to a rule, and TLC evaluates each on the instances of the runs.

- `Laundering`: its types, what implements and what converts to what, and that a type that implements an
  interface has only values that the interface can hold. The theorems on bindings take nothing else: the variables for which
  the code departs from the document are excepted in the properties, and may be in the file. `ChainExact` also takes `OpenWorld`: the program has
  a value for each difference of two types, which TLC evaluates in `MCLaundering`; where it has none, nothing is lost
  and the rule has no way of knowing.
- `Gate`: `Whole` (a commit holds the whole worktree) and `NearestSees` (no fixture lies under
  testdata, and an embedded file or test datum is read by the package of its nearest directory).
  Without the first `HeadGreen` is false, as the script says, and without the second too (finding 1).
- `Justify`: parsed text is bytes, offsets lie within the text, a node stands below an earlier
  one of the package; the clauses of a switch stand in its block (go/ast); between two comment groups of
  a line stands code, or the parser had made them one (`GroupAssumption`); the rule is G01 or G11.
- `Settings`: the registry names no rule twice, a list of the settings holds at most `MaxList` patterns and is
  decoded into an array that it fits in, and a flag adds a pattern (`strings.Split` returns one element at least).
- `FullStruct`: the graph of types has the shape of go/types, and each selector of a site, those on the
  way to the last included, names a field of the type it is applied to (`SiteAssumption`), which the compiler has tested.
  `FixSettled` has two hypotheses besides, `MinFields >= 2` and `MaxDepth >= 3`: 2 is the default, the specification says
  that a number of 1 "gives no useful rule", and `maxDepth` is the constant 12 in the code.
- `PathMatch`: the slash and the suffix `_test` are characters, the wildcards are not.
- `Multiline`: the files come in one order without repetition, a case stands at one place of one
  table, and the comments above the package clause come before the others of the file.
- `TestRules`: a call stands below an earlier one of its walk; and the types of a check fit
  (`CheckAssumption`: what a testify function takes as its first argument, that both sides of `==` are
  errors or neither is), which the compiler has tested before the rule runs. `Equal` of testify takes values of any
  type, and nothing is assumed of the two it compares. The memory is typed (`MemoryAssumption`, `TargetAssumption`; `Holds` gives
  the types of its places): a step leads to what the type says, so no reference is nil, structs of one type have the same
  cells, behaviour refers to no container, and a statement assigns a value of its target's type; the compiler sees to that, but for nil.
  When the tests start, production shares no container with them (`OwnedAssumption`: what production owns under the
  settings is a part of the memory that no reference enters or leaves); a container that the initialisation of a test had
  taken from production would be one handed over before the first statement. A value that a test writes to behaviour of
  production is not the one that stands there (`Fake`, not `Own`): the statement that puts the old one back is reported as well,
  and then production reads again what it read at first.
- `Contracts`: a signature, a comment and a switch have the shape of their syntax; two methods of
  one type have different names (`MethodAssumption`); a switch on a parameter names a parameter of the
  same file (`OperandAssumption`); and a return statement gives nothing, a value for each result, or one
  call for all of them (`ReturnAssumption`).

### LaunderingProofs

`TypeCorrect` and `BindingSound` prove `TypeOK` and `Sound` for any files, types,
functions and number of statements. `Sound` speaks about the heap and not about
the collector, so it is not inductive. The invariant `IInv` adds, in this order:

- `Static` and `Quiet`: the static facts about what was visited, and the state of the
  run-time variables before anything runs;
- `Evident`: as long as a variable is not dropped, no statement visited takes its
  address or ranges over it, but for one in parentheses, and each that writes it stores a value of the recorded type;
- `Pointed`: a variable that a live pointer names has its address taken in the file;
- `Reported`: a report names a variable that is not dropped and whose widenings agree;
- `Holds`: a variable that is not dropped, and is not one of those that `Sound` excepts, holds a value of the type of its
  widenings, or none.

`Evident` is preserved by the walk, `Holds` by the execution: where no step is a conversion to a type parameter, an operand
has the value of its base (`EvalTyped`), so that what is stored is of the type recorded. The theorem
`Invariant` puts the parts together; `Sound` follows from `Reported` and `Holds`.

`RefinesEvidence` proves the refinement: the first state maps to the first state of `Evidence`,
and under `IInv` each action maps to a step of it or to a stutter. A variable goes from nothing to one
type, or to open, and never back, because a dropped binding stays dropped.

`ExactlyDocumented` proves `Exact`, in both directions. `Evident` says that a binding never claims too
much; the other direction needs that it never claims too little. `Books` says so: for each variable that is not written in
parentheses, what is recorded is the account of the statements visited so far (`Account`). A binding that was dropped has a
statement that excludes every type; one that was not has the first of its writes as its widening,
and its assertions are those of the file. At the end of the walk the account is that of the
whole file, which is what the documentation computes where no type parameter is hidden.

`ChainExact` proves `ChainLosesEvidence` for operands of any length: a chain of conversions and
assertions, none of them to a type parameter, is reported exactly if the last type holds values that the first cannot.

### ToolingProofs: Settings

`OwnConfiguration` proves `Isolated` for any registry, settings, plugins, builds and flags, and for any
capacities that the decoder may give. `RulesSelected` proves `Selects`. The invariant `SettingsIInv`:

- `Decided`: the results of a plugin follow from its settings, whose lists lie in allocated arrays;
- `OwnArrays`: no two lists of settings share an array;
- `Made`: which config value an analyzer has. A rule that reads no list keeps the value of the module in every build,
  a rule that reads one has a value of its own;
- `Lists`: for each list of each instance, `ReadsOwn`. It still lies in the array of the settings it was built from (`Home`),
  or in one that is `Alone`, which nobody else reaches; the patterns of the settings stand at the front in
  both; behind them stand those of the instance's flags, or the list is `Contended`.

`ReadsOwn` and `Alone` are what `SetFlag` needs: it writes either in an array that only this list reaches, or behind the
patterns of a list of the settings, and there it makes contention wherever another instance has put patterns.
Contention is never taken back, because a history only grows and a capacity never does. For `Selects`, `ChosenRules` says
that the loop over the registry keeps a set of rules in its order.

### ToolingProofs: Gate

`ScopedGateSound` proves `HeadGreen` for any packages, files, imports and tests. The argument: a package
outside the scope neither changed nor reaches a
package that did, so each package it links reads the same files as at head; by
the invariant the head was green, hence so is the new one. A docs commit is the case
of an empty scope. `DocsTierSound` proves `DocsReadByNone`: a docs commit stages no Go file, so the
packages of head still stand in the worktree, and each is the nearest to what it embeds
and tests with; a change of such a file would have made a package changed.

### ToolingProofs: Coverage

`BarCorrect` and `TypeCorrect` prove `BarOnBlocks` and `BarTypeOK` for any profile, exclude
list, bar and scope. The verdict appears in the last step only, so the invariant says
what has been read: `Excluding` (the entries read have reasons, `regex` is what they
stand for, and no line is read before the last entry), `Merged` (the keys are the blocks
of the lines read that nothing keeps out, and a key is hit where one of its lines is),
`Stays` (the wrapper lets only a scope with a line through), `Fresh` (before that nothing
is read). At the end the keys are the measured blocks, and equal sets have equal sums.

`FailureInAPart` proves `PartsDecide`. Here sums do matter: the statements of the blocks in the scope and
of those outside it add up to those of the whole (`StatementsSplit`, by induction over finite
sets: a smallest set for which it fails is left with a smaller one), and two parts that
reach the bar make up a whole that does.

### FullStructProofs

`TypeCorrect`, `AnchorFound`, `RunsCounted` and `ElementsCounted` prove `TypeOK`, `AnchorDeepest`, `RunsDocumented` and
`ElementsDocumented` for any graph of types, any variables and settings, and functions of any length. The code counts
site by site, the documentation over the function. The invariant says that at every moment the first is a function of
the second:

- `Collected`: the run of a variable is `RunOf` the sites visited: the fields that single-field sites name, the first of
  them, and how many pair it with another variable of its shape; its elements are `ElementsOf` them;
- `Ordered`: a variable is listed exactly if some site counted for it, and once;
- `Reporting`: before the end there are literal reports only, and at the end the groups are those of the sites.

`HitsAppend` says what one more site does to a set of positions, from which `RunNext` and `ElementsNext` follow, and
`JoinedIs` what the loop over the operands appends. `AnchorShared` is an induction along the walk of the map: after
each field the names are the longest path shared by the parents of the fields so far (`LongestNext`), so the order does not matter.
At the end `RunReportIs` and `ElementReportIs` compare the gates of the code with those of the documentation, and `FlattenAll`
collects what the reports of the variables make together.

`CutIsLeast` proves `CutLeast`. The code opens the structures level by level, down from the anchor; the property
speaks of sets of paths. What cmp reads is a tree: each path read is read through its parent, a structure (`ReadTree`).
So the names of the cut are the paths read whose parent was opened and which were neither asserted nor opened themselves
(`VisitsAre`, `NamesAre`). With them the comparison states the asserted fields (`NamesState`). That no list is shorter
(`NamesFewest`) is an injection: below each name stands a leaf, another list must ignore something above that leaf, which
cannot stand above an asserted field, hence stands at the name or below it; and no two names stand above one another.

`FixSettled` proves `FixStays`. Two asserted fields that are not nested part somewhere, and since the anchor is the longest
path they share they part right there (`HeadsPart`): two fields of the structure at the anchor are asserted or stand above an
asserted field. The cut never ignores those (`HeadKept`), so the diff still compares two fields (`TwoKept`, `FixKeeps`), and the
report on a diff wants exactly one. Both take from the invariant that the type of a run is the one at its anchor (`Placed`).

### JustifyProofs

`TypeCorrect` and `AnswersOfOneReading` prove `TypeOK` and `OneReading` for any package, any bytes
and any changes of the files. The invariant `Kept` says that either nothing was asked, and
then no node passed is one that the rule judges, or `first` is a content of all the files, `index` is the one built
from it, and the reports are those that this index leaves silent. The second half is what a step needs: `Ask` builds
an index only if there is none, and an index built is never `NoIndex` (`IndexTyped`).

`PassDocumented` proves `ReportsDocumented`: the code walks up a stack of nodes and asks for each
line, the documentation speaks of containment. `StackDescends` says what the stack of a node is, the
chain of its parents; `AboveChain`, `StopsCut` and `EnclosingCovering` turn the walk into the statement,
block and clause around a site; `LinesAbove` and `OwnLine` turn the lines that the index holds into the
bytes before a comment; `InnermostFunction` does the same for the exemptions of G11.

`LossDocumented` proves `LossSilences`: whatever is reported from files that are gone or cut short would be
reported from the files as they were parsed (`LossNeverReports`, from the invariant and `LossOpens`: a comment that owned its
line owns it where its bytes are missing), and those reports are the documented ones.

### PathMatchProofs

`MatchNames` proves, for every pattern and every path, that `Match` finds exactly what the documentation
says a pattern names (`Names`). Two inductions carry it. `EndsCut`: j is a place where a match
of the first i elements can end exactly if the first j characters divide into i runs, one per
element. `TryNames`: the search above the subtree suffixes reaches each prefix of the pattern that
leaves pairs of a slash and three dots. `TestPackages` is the same for the test-packages setting.

### MultilineProofs

`SettingDocumented` cites `MatchNames`. `TypeCorrect`, `RunDocumented`, `FixEnds` and `LossAcross`
prove the other properties for any package, any loops and any history of fixes and edits. The invariant:

- `Typed`, `Complete` (a run that is over has visited every range statement), `Once` (no case is reported twice);
- `FoundSoFar`: the cases reported are the one-line cases of the tables at the range statements visited;
- `Offers`: whether a fix is offered was decided at the *first* range statement that holds the case,
  in the file of that statement. A later loop finds the case reported and leaves it alone;
- `Settles`: after a fix, no wanted case is fixable at its first range statement. It is stated for all statements and
  not for those visited, or the next run would not preserve it;
- `LostElsewhere`: a comment was lost only where the first range statement that holds the case is in another file. That this
  is the first file in the order of the files is a matter of lists: the range statements are those of the first file read, then
  those of the next (`VisitsOrdered`, from `FlattenOrdered` and `KeptOrdered`).

### TestRulesProofs

`TypeCorrect`, `ReflectDecided`, `SeamsProtected`, `TextDecided` and `NestedReported` prove all properties of
`TestRules`. The invariant has a part for each stage of the pass (`Started`, `Finished`), for each rule, and one
that keeps the rules apart (`Placed`: a report stands at a node that its rule reads):

- G07: `FirstRead` and `FirstLeast` (what is remembered of a file is a use that was read,
  and no use that was read comes before it), `Reflects` (until the end, only imports are reported);
- G13: `Checked` (a check read is reported exactly if the rule's tests say so);
- G14: `Recorded` (the positions kept are those of the reports, one each) and `Walked` (they are the positions that the
  walks of the assertions read have found).

For `TextDecides` the rule's table of arguments is compared, function by function, with the
evaluation of the check on an error of another message. For `NestedOnce` the lemma `ReachedCalls` says which calls
the walk below an assertion reaches: those whose chain of parents leads to a value of the
assertion without a literal between. Where no two of them start at one position, the positions reported are as many as the
calls, because each call has its own.

`SeamsProtected` is about any memory and statements, in any order. What the rule reads of a statement is syntax, the root of the
target and its type; what happens is a walk through references. A second invariant, `SInv`, ties the two: `Patched` (the reports
are the assignments read that patch) and `Held`, which says that while every statement that has run was `Harmless` (neither
reported nor handing a container over), production has all that it had at first and nothing else refers to what it owns
(`Kept`). The second half is what makes it inductive: without it a harmless write through a variable of a test could end in a
cell of production. `WalkTyped` shows that a walk follows the static types and does not leave the part of the memory that it
starts in, `OutsideRoot` and `ValueOutside` that a harmless statement starts outside and assigns nothing that leads inside,
`StoreKept` concludes for leaves and for structs that are copied. `PlaceAgrees` then gives production the same cells (`ObservedKept`), and
a reported statement a cell that production reads (`PatchSeen`).

### ContractsProofs

`TypeCorrect`, `StillBuilds`, `NarrowSafe`, `ReportsAreExact` and `SwitchesAgree` prove all safety properties of `Contracts`,
for packages of any size, over any number of runs and edits. The code speaks of results by their
position and Go declares them by field, so the first half of the module is about lists that are
flattened: which field a position lies in, what the list is after a field was split in two (`NarrowEffect`), that no
edit moves a position (`TypeCorrect`). The invariant:

- `Typed` and `Listed`: shapes, and what a report names;
- `Reported`: until somebody edits, the reports are those of the signatures visited, and `held` is who implements what;
- `Unfixed`: no report asks to narrow a method that an interface in `held` needs. This is what `NarrowSafe` rests on. It
  speaks of `held`, not of the present, because a report of the same run may be followed after others;
- `AnyKept`: a result reported as `any` is `any` still, or the named type that the developer made of it;
- `Separate`: the two rules on results report different results, so that following one leaves the other's report true.

`StillBuilds` is `Spec /\ BodyBuilds => []BodyBuilds`: the package compiles at first. A rule runs on a package that the
type checker has accepted, and nobody promises anything for another one; all instances of the run satisfy it.
The argument: what a return gives at a position is either written there, and does not change, or is the
result of a call, and then changes with the callee (`GivenIs`). A narrowed result gets
the type that every return gives there *now* and not when it was reported, a `Retype` turns `any` into
a type that takes the same values, and narrowing the callee gives the caller a value that is assignable wherever the
wider one was.

`ReportsAreExact` goes both ways. `FoundForm` says what a report of the rule looks like. The loop over the returns
concludes a type exactly if the body gives it (`SingleIfBuilds`, `BuildsIfSingle`): a naked return ends the
code's loop without a conclusion, and in the property gives the declared interface type, which is no concrete one.
Then the question of the code, whether the receiver implements an
interface that holds the signature in place, is compared with what would happen (`Breaks`): who would no longer implement
what if the result had the narrower type. `SwitchesAgree` compares the count of parameters by G03 with that of G06, field by field and name by name.

### Only model-checked

- `Settles` of `Contracts`: liveness is out of reach of the prover.
- `OptionNamed` of `FullStruct`, `ParametersStop` of `Laundering`, `CommentsKept` of `Multiline`, `EachCallReported` of `TestRules`
  and `HeadGreen` with a fixture are false (section 5).

No module that is proved about declares a RECURSIVE operator.

## 5. Findings

1. `scripts/precommit-check.sh:96`: a Go file below testdata becomes a package of its own, and
   the tests that read it do not run (run `gate_fixture`).
2. `fullstructcomp.go:968`: the walk to the first unexported field stops at a named
   container, so the report leaves out an option that the proposed call needs (run `fullstruct_option`).
3. `nolaundering.go:136`: the binding shape does not ask whether a type parameter appears in the type that a variable
   hides, so `var v any = ts` with a `[]T` is reported; and neither shape asks it of a type parameter that was looked
   through, so that after `var x any = P(v)` the type of `v` is recorded for `x` (run `laundering_parameter`).
4. `multilinecase.go:263`: comments are looked for in the file of the loop, so the fix removes the comment of a case whose
   table stands in another file (run `multiline_comment`).
5. `separategotwant.go:208`: the calls of a chain start at one position and get one report between them (run
   `testrules_chained`).

Where the code is known to depart from the documentation, or from what it promises, and no run of its own shows it, the property
concerned excepts the case by name: names in parentheses in `Laundering` (`Parenthesised`), pairs with several other bases in `FullStruct`
(`scattered`), `nil` for a type without one in `Contracts`, containers handed over in `TestRules` (`HandsOver`).

## 6. What is not modelled, and the plan

Not modelled because it has no state or is not this repository's: the wording of
messages, the driver, go/types, `cmd/antislop`; G02 and G10, each a test of the type at one node,
which a model could only repeat; the patch libraries and linkname directives of G08, a look at one
string each; which calls are assertions in G12.

Every safety property of a passing run is proved, and nothing of the plan is left but a run for each of the two departures in
`Laundering` and `FullStruct` that are excepted by name.
