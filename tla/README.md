# A specification of minivm-cc

minivm-cc compiles a language close to C to the assembly of MiniVM, a machine
whose memory is an array of cells that each hold any scalar. It is a fork of
8cc: one process, no threads, no files kept between runs. What is hard in it is
not concurrency but long sequences of legal steps: a macro expander that
suspends itself in nested token buffers, a conditional-inclusion engine over a
stack of files, parsers that descend recursively and leave their context in
global variables, a code generator that knows variables only by name, a lexer
that sees one character at a time and gives back up to three, and a hash table
under all of them.

This directory holds TLA+ modules of those parts, TLC runs that check them on
small instances, and TLAPS proofs for every instance about the hash table, the
directives, macros, statements and variables. Line numbers are of `src/src/` unless
another directory is named.

## 1. The system

| part | state | operations | used by / uses |
|---|---|---|---|
| hash map, `map.c` | `key`, `val`, `size`, `nelem`, `nused`, `parent` of each Map | put, get, remove, rehash | macros, guards, once (cpp.c); scopes, tags, labels (parse.c); `locals`, `globals` (gen.c) |
| character stream, `file.c` | stack of Files, 3 characters pushed back in each, line and column | read with line splicing, unread, push, stash | lex.c |
| lexer, `lex.c` | stack of token buffers, place of the token under way | lex, unget, stash, paste, skip an excluded group, header names | cpp.c, parse.c |
| preprocessor directives, `cpp.c` | `macros`, `once`, `include_guard`, `cond_incl_stack`, search path | the directives, pragmas | file.c stack, map.c, lex.c |
| macro expander, `cpp.c` | hide sets of tokens, buffers of lex.c | read_expand, arguments, subst, #, ## | every token parse.c reads |
| statements, `parse.c` | `lbreak`, `lcontinue`, `cases`, `defaultcase`, `labels`, `gotos`, label counter | one reader per statement | tokens in, AST out |
| scopes and types, `parse.c` | `globalenv`, `localenv`, `tags` | declarations, layout of structs, initializers | AST nodes to gen.c |
| expressions, `parse.c` | none but the tokens | one reader per level of precedence, conversions, constraints, constant folding | typed AST to gen.c |
| generator, `gen.c` | `locals`, `globals`, `stackn`, `initmem`, `nregs`, lists of initial values | one emitter per AST node, prologue of `_start` | assembly out |
| containers, `vector.c` `buffer.c` `dict.c` `set.c` | lengths and capacities | append, grow | everything |
| encodings, `encoding.c` | none | UTF-8 read and written, UTF-16 and UTF-32 written | lex.c, strings of parse.c |
| paths, driver, diagnostics, run-time library, tests | | | |

A compilation is a pipeline driven from its end: `main.c` calls the parser,
which pulls tokens through the expander and the directive engine out of the
stack of files, and hands each top-level declaration to the generator. Tokens
flow back as well: the parser gives tokens back to the lexer's buffer, from
where they pass the expander a second time. The parts share maps, and the
parsers share their context variables with the calls they are nested in.

What must be right, by part:

* **map**: the latest value of a key is found, whatever tombstones, wrap-around
  and growth lie between; every probe ends; the counters that say when to grow
  count what they say.
* **characters and tokens**: a token is the longest one the spliced text has,
  whatever lookahead was given back over splices and the ends of files; it
  carries its place and whether it begins a line; strings next to each other are
  one string in one encoding.
* **directives**: the text that gets through is the text the standard selects;
  include guards and once change no output; the depth of open conditionals
  follows the nesting of the source; preprocessing ends.
* **macros**: the result is that of Dave Prosser's algorithm, which cpp.c names
  as its source (cpp.c:4), even though tokens go back and forth; it ends.
* **statements**: the labels and jumps run as the source says in any nesting;
  every jump has one target; the cases of a switch are disjoint.
* **expressions**: the registers hold the value C gives the expression and the
  variables what it assigns, in C's order; a folded constant is what the code
  would compute; no code is made of what violates a constraint.
* **variables**: a name means its innermost declaration; live variables are
  apart; calls leave the caller's variables alone.
* **declarations**: members and elements are laid out aligned and apart; after
  the initializers each cell has the value C gives it.

## 2. The modules

| module | models | code |
|---|---|---|
| `AssocMap` | abstract: an association from keys to values with a parent | what map.c promises |
| `HashMap` | the open-addressing table, one loop iteration per step | map.c |
| `HashMapProofs` | theorems about `HashMap`, which implements `AssocMap` step by step | |
| `Preproc` | directives, skipping, include stack, guards, line by line; depth and skip properties | cpp.c 438-800, lex.c 160-220, file.c |
| `PreprocRef` | the text C11 6.10 selects, by a machine that reads every line; properties | reference |
| `PreprocProofs` | theorems about `Preproc` | |
| `MacroExpand` | read_expand, arguments, subst, hide sets, buffers, tokens given back | cpp.c 75-380, lex.c 620-660 |
| `MacroRef` | Prosser's `expand` and `subst`, by recursion; properties | reference |
| `MacroProofs` | a theorem about `MacroExpand` | |
| `Stmt` | the readers of statements, the code gen.c emits for them, and its run; jumps, labels, cases | parse.c 2440-2870, gen.c |
| `StmtRef` | a step-by-step meaning of the source tree; FollowsSource | reference |
| `StmtProofs` | theorems about `Stmt` | |
| `Encoding` | UTF-8, UTF-16, UTF-32 | encoding.c |
| `EncodingProofs` | theorems about `Encoding` | |
| `Lexer` | the stream of file.c and the tokens of lex.c, character by character; pasting; adjacent strings | file.c 24-134, lex.c 60-160, 224-569, 586-612, 640-665, parse.c 229-256, 2920-2938 |
| `LexerRef` | tokens from the whole of the text with its splices removed, strings from a table of code points; properties | reference |
| `ExprParse` | the readers of expressions: typing, conversions, constraints, folding | parse.c 356-1420 |
| `ExprGen` | the code of an expression: registers, addresses, operators, calls | gen.c 49-850 |
| `Expr` | parse, generate, and a machine that runs the code | the three of them in sequence |
| `ExprRef` | the meaning of C's syntax trees, objects as paths instead of addresses; properties | reference |
| `Frames` | scopes, slots, frames, calls | parse.c scopes, gen.c 84-170, 440-600, 740-950 |
| `FramesProofs` | theorems about `Frames` | |
| `Lemmas` | sequences used as stacks, induction over the naturals | |
| `Layout` | types; structs, unions, bit-fields | parse.c 390-402, 1446-1618 |
| `Initializer` | initializer lists, and the stores gen.c makes of them | parse.c 1706-1902, 2361-2387; gen.c 588-595, 740-751, 855-872, 919-950 |
| `InitializerRef` | C11 6.7.9 by paths to subobjects; properties | reference |
| `InitializerProofs` | theorems about `Layout` and `Initializer` | |
| `MC*` | the instances TLC checks | |

**HashMap.** `key`, `val`, `size`, `nelem`, `nused` are the fields of the C
struct; `size = 0` stands for a static Map whose arrays are not yet allocated.
`pc` and `call` say which function is where; `i`, `from` and `j` are its loop
cursors. `hash()` is a constant function of the key. `outer` is what the parent
answers; it may change between operations. `OuterKey` and `Removable` name the
keys bound in parents and the keys `map_remove` is called with: only
`#undef` and friends remove anything in this compiler.

**Preproc.** Input is a function from paths to lines; a line is a directive or
text. Expressions of `#if` are whether they hold; bodies of macros are left out.
`files` is file.c's stack with the position in each, and `File.name` apart from
the path, because `#line` changes it. `skipping` is the call of
`skip_cond_incl`, one line per step. `guardFlag` is the macro
`__8cc_include_guard`, which `guarded()` defines as a side effect.

**PreprocRef.** The reference is a machine of its own, `Step`: it reads every line of
every file it includes, excluded groups too, and keeps one `Section` for each
if-section open. It has no skip, no include guards and no `__8cc_include_guard`.
It refuses a program, about which `Agrees` then says nothing, for what C11
forbids or leaves open: `#error`, a directive out of place, a section that does
not end in its file, a header that is not there, `#line`, an apostrophe alone in
included text, conditionals between two apostrophes, and `#undef` after an
`#import` of a file already read (section 4). `Conforms` is that it ends, within
`MaxRead` lines, and refuses nothing.

**MacroExpand.** A token is kind, spelling and hide set. `buffers` is lex.c's
stack of token buffers and `calls` the recursion of the expander: reading an
argument list, looking for the parenthesis, substituting a body, expanding one
argument in a stashed buffer. The parser may give its last tokens back
`MaxBack` times. Spaces and directives inside argument lists are left out, so
`macros` is constant during an expansion.

**Stmt.** `open` is the parser's stack of calls. The functions are generated as
they are parsed: each step chooses the next statement. When the parser ends, the
code it made is run; each condition is chosen freely, and `events` records what
was evaluated. The source tree is kept next to the code for the reference; a
node, `NoNode` while there is none, is both. The record of a call has the
locals of its function: the labels it made and the context it saved. Labels
are numbers, as make_label's ".L%d" (parse.c:149), or names of the source,
which are identifiers: `LabelAssumption`.

**Lexer.** `stream` is file.c's stack of files, each with the characters pushed
back in it, its line and its column; it also keeps the deepest pushback. One `Lex`
is one call of `lex()`; `Include` pushes a header after a newline, as
`stream_push` does after a directive, and `Paste` is `lex_string` on what `##` has
glued; `ReadHeaderFileName` follows the two tokens of an `#include`. `phase` tells
the end from an error and from a token that never ends. `spaced` says which of the
two static tokens, newline and end of file, have their `space` set: lex.c:661 sets
it and nothing clears it. Readers are operators that
return what they read and the stream after it, with each `readc` and `unreadc` of
the code in its order. Characters are opaque but for their byte.

**ExprParse, ExprGen, Expr.** A reader takes the index of a token and returns a
node [kind, type, operands, value] and the next index; a failed `error()` leaves
an error node, and so does an assertion; a subscript of two integers gets a node
whose type is NONE, as `t->ty->ptr` is NULL (parse.c:1085). `SameBytes` stands for the
memory that `is_same_struct` compares when it takes the names of members for types
(parse.c:650). A generator takes a node and the output so far (instructions,
number of registers, labels, `initmem`). The actions of `Expr` are the stages:
`Parse`, `Generate` or, at a node without a type, `Crash`, then one per kind of
instruction. The machine is not in the
repository: it is taken from how gen.c uses it. It computes with floating-point
numbers; the model counts in halves. A called function runs in one step and obeys
the convention of gen.c: base in cell 1, arguments above it, result after them.

**Frames.** The code of a statement runs as it is emitted, in straight-line
functions. A register holds a pair: what the code computed and what the source
means. An activation has a base (register r2), `stackn`, `locals` (by name, as
in gen.c) and the scopes of the source.

**Layout, Initializer.** A type is a record with size, alignment and members.
The parser's calls are the stack `open`; the phases after it are `emit_toplevel`
(addresses), the prologue of `_start` (all cells of initialized globals to zero,
then their values in order) and the declarations of main.

`PROJECT.json` names, for each definition, the lines it models.

## 3. The runs

With two TLC workers the longest runs (Preproc, Macro) take one to two minutes.

| run | asks | properties | instance |
|---|---|---|---|
| HashMap | is the table an association while no key is removed? | Unique, ImplementsMap | 4 keys, 2 values, 1 parent key, sizes 4 and 8 |
| HashMapRemove | do counters, probes and searches survive removals? | TypeOK, Counters, ProbeStops, Findable, Returns | 4 keys, all removable, sizes 4 and 8 |
| HashMapUndef | *violation*: does `map_remove` unbind? | RemoveUnbinds | the same, 2 values |
| Preproc | is the selected text that of C11 6.10? | TypeOK, Agrees, NoSkipAcrossFiles, DepthCounts, GuardIsTransparent, Ending | all main files of up to 5 lines, 10 headers, search in two directories, apostrophes in excluded prose, malformed files |
| Macro | is expansion Prosser's? | TypeOK, Agrees, Ends | two macros with all bodies of 2 to 4 tokens, 8 texts and argument lists |
| Stmt | does the code run as the source? | FollowsSource, JumpTargets, LabelsUnique, CasesDisjoint | all functions of 4 or 5 statements from three alphabets |
| Frames | are the values those of the source? | TypeOK, Computes, FramesApart, CallersKeep | two names, one and two cells, up to 3 activations |
| FramesSwitch | *violation*: the same with the switch operand | Computes | calls only |
| Initializer | does every cell get its value? | TypeOK, Initialized, WellLaidOut, Ends | 13 types, all lists of up to 4 items; structs of four members |
| Expr | is the value that of C? | TypeOK, Computes, FoldsAsItRuns, FrameRestored, Refuses | ten families of expressions over 13 variables and 4 functions |
| ExprIncDec | *violation*: the same with `++x` | Computes | `y += ++x` |
| Lexer | are the tokens those of the spliced text? | TypeOK, Agrees, PastesOne, PushbackFits, Positions, Directives, Decodes | all texts of 3 to 5 characters over ten alphabets, encodings, headers, pasted pairs, header names |

Why the bounds are enough:

* *HashMap*: `a` and `b` always collide, `c` only in the small table, `d` starts
  at slot 0, and the first probe starts at the last slot, so probes wrap, meet
  tombstones, and continue past keys that move when the table doubles. Both ways
  of rehashing (same size and double) happen. A third size adds no new relation
  between old and new slots; the proofs of section 5 are for every size.
* *Preproc*: five lines are a conditional with `#elif` and `#else` around a text,
  or two nested conditionals; ten headers are the ways an include guard can be
  right or nearly right. `Searched` finds two headers of one name by all pairs
  of directives, `AnyLines` has unbalanced conditionals, `#error`, `#line`.
  `MaxFiles` is 6; deeper stacks only repeat a header that includes itself.
  `MaxRead` (80) is enough for every program: TLC evaluates `ConformingAssumption`,
  that the reference accepts all of `Accepted` within it, so that no property of
  these programs holds for want of a conforming one.
* *Macro*: the cases Prosser's algorithm distinguishes are a name hidden by its
  own expansion, a call that ends beyond its expansion, an argument expanded or
  taken raw beside # and ##, empty and variadic arguments; each family of
  `MCMacro` is all bodies for one of them.
* *Stmt*: four or five statements nest each kind once in each other kind. The
  three families keep the alphabets small: loops; switches; gotos. `MaxEvents`
  (4) lets a loop go round at least twice.
* *Expr*: every pair of the 18 binary operators in both groupings; every unary
  operator over and under every binary one; every kind of place (local, global,
  element, member, through pointers, of structs of two and three cells) under
  every kind of store; structs by value through calls nested in calls; every form
  of branch with effects on either side; constants; 23 programs that C forbids, two of
  which the parser lets through to the generator (`Refuses`, section 4).
  A wrong level of precedence shows with three operands, a register that does not
  live long enough with two operators or a call in an argument.
* *Lexer*: the longest punctuator, `%:%:`, has four characters, so that texts of
  five hold it whole, broken off anywhere, and with a character after it.
  The code points are the ends of every range of UTF-8 and of the surrogates. All
  pairs of prefixes of adjacent strings, all headers of up to 3 characters
  that do not end in a backslash before a splice, all
  pairs of 19 spellings glued, all directives of up to 4 characters of nine.
* *Frames*: an overlap needs two variables, and a callee over a caller two
  activations; three activations show that a return restores the middle one.
* *Initializer*: two items relate one designator to the next element, four fill
  and exceed every type. The second variable stands next to the first, so that
  a store out of bounds is seen.

Each property of a passing run is refuted by a small change of a modelled
definition (`mutants` in `PROJECT.json`): a dropped test, a wrong mask, a flag
not reset. Those variants are the definitions marked `mutant`.

**Fairness.** The program is one thread that never waits: if it can take a step
it does. `WF_vars` of the code's own step is all that is assumed: in HashMap of the
step of the operation under way (not of being called), elsewhere of `Next`. An
infinite behaviour then is a loop of the compiler. Expr and Lexer state no
liveness and assume nothing: a token that never ends is a phase of `Lexer`, and
`Agrees` says where it is reached.

## 4. What the runs found

Three statements of the repository do not hold; `findings` has the details.

* `map_put` takes the first tombstone of the probe without looking for the key
  further on (map.c:98). The key is then twice in the table, and `map_remove`
  uncovers the older value: `#undef` can bring an old definition back.
  (HashMapUndef)
* The operand of a switch is stored in a variable without a declaration node
  (parse.c:2727): it goes to slot 0, over the first variable. (FramesSwitch)
* The store of `++x` and `--x` is emitted with a conversion that does not exist
  and prints nothing (gen.c:827): x keeps its value, which test/inc.c relies on
  to change. (ExprIncDec)

Other behaviour of the code departs from C without contradicting anything the
repository says. The models have it; the runs keep away from it by their
parameters or the references do not judge it:

* In excluded text an apostrophe starts a character constant (lex.c:192), and
  the skip may run past `#endif`: the apostrophes of Preproc come in pairs.
* `#line` changes the name under which an include guard is recorded (cpp.c:601);
  a header of that name is then not read: guarded headers have no `#line`.
* An `#import` answered by a recorded guard does not enter the path in `once`
  (cpp.c:681): after `#include <h>`, `#import <h>` and an `#undef` of its guard,
  `#include <h>` reads `h` again. The proof of `TextIsSelected` met it; nothing
  in the repository says what an `#import` of a file already read does.
* `##` drops the hide set of the expansion (cpp.c:296), so a macro that pastes
  and names itself is expanded for ever: pasted names are no macros in MCMacro.
* Characters and tokens, where `Usual` in MCLexer or the marks `placed` and `sure`
  of LexerRef stand aside: a backslash that a splice leaves at the
  end of a line splices again when it is given back; the column starts again in a
  spliced line, so a `#` right after a splice is taken for a directive, and `/`,
  `%` or a stray backslash there is reported in the wrong place; two dots are one
  name.
* Characters and tokens, where `LexerRef` says the same as the code: a name whose
  last line ends in a splice at the end of the text is read for ever (lex.c:403). A
  header whose last line ends in a splice goes on in the line after its `#include`
  (file.c:98), so that with `+` there and at the end of the header the token is `++`;
  C11 5.1.1.2p2 leaves such a file open, and no place or first token of a line is
  judged from there on. The `space` of newline and end-of-file tokens is not compared:
  both are static, and the mark of one stays for the next (lex.c:28, 661). No code
  reads it.
* A universal character from 1114112 to 2097151 is accepted; no text has one, and
  those from 2097152 on stop the compiler (encoding.c:105).
* Spellings of lex.c that differ from C, which LexerRef takes over or `Usual`
  leaves out: a universal character may not begin a name; a newline may stand in
  a string, and `'''` is a constant; two slashes glued by `##` are a space; `\x`
  escapes above 0x7f in wide strings are refused as UTF-8; a character constant
  with a prefix takes one byte.
* A subscript of two integers is not refused (parse.c:1084): its node has no type, and
  the compiler crashes where one is needed next, in emit_deref (gen.c:684) if the
  subscript is the whole expression. Expr has two such programs. Two structs of as many
  members may be assigned to each other, or not, by the bytes of their members' names
  (parse.c:650): the programs compare a struct with itself or with one of another
  number of members.
* Expressions: equalities group to the right (parse.c:1308); `q++->m` is a syntax
  error (parse.c:1116); `a ?: b` leaves the register of its result unset when a
  holds, and a ternary of structs copies one cell; the lvalue of a compound
  assignment is evaluated twice (parse.c:1390); an array member does not decay to
  its address; a floating literal is printed as an integer (gen.c:448); conversions
  between number types emit nothing; an integer plus a pointer evaluates the
  pointer first; a call with more than 16 arguments overruns a buffer (gen.c:454).
  No program of MCExpr has one of these where it would show.
* `continue` in a `do` statement skips the condition (parse.c:2653): no family of
  `MCStmt` has both.
* An inner declaration of a name moves the outer variable (gen.c:742):
  `Shadowing = FALSE`. Members of local structs are assigned without their
  offset (gen.c:139): `Offsets = {0}`. Compound literals, and declarations with
  `extern` in a block, have no slot either, like the switch operand:
  `Clobbering = FALSE`.
* A token given back may be expanded when it is read again, with a parenthesis
  that a newline or another macro kept from it before; `f(EMPTY)` is accepted for
  a macro without parameters. The `back` of each program and `MacroRef` say which
  texts are judged.
* Initializers, where `sure` is false in `InitializerRef`: an index designator
  after the last element of a braced array, or after an excessive item, is
  refused; a later brace for the same subobject does not reset the rest; a second
  designator in a braced union, or another member of it, is not C's; braced
  scalars and strings take no trailing comma; braces around an anonymous struct;
  the members of an anonymous union each take an initializer; bit-fields in one
  cell overwrite each other, as gen.c ignores `bitoff`; an array of open length
  is as long as the index after its *last* element; an initialized flexible
  member lies beyond the object. Cells of a local that no initializer names keep
  what they had. A field designator directly in a list for an array of open
  length makes the reader loop (parse.c:1827-1852): it is not C, and no program
  of the instance has one.
* The alignment of members of an anonymous struct does not reach the struct
  around it (parse.c:1541): the instance's anonymous struct has cells only.

## 5. Proofs

TLAPS checks every theorem for all values of the constants that satisfy the
assumptions of the module; `theorems` in `PROJECT.json` lists them.

### The hash table

`HashMapProofs` assumes that NULL and TOMBSTONE are no keys, that the hash is a
natural number and that the first size is at least 4, and proves for every set of
keys and values, every hash and every size:

| theorem | statement |
|---|---|
| `TypeCorrect` | `Spec => []TypeOK` |
| `CountersCorrect` | `Spec => []Counters`: `nelem` and `nused` count the live and the used slots |
| `ProbesStop` | `Spec => []ProbeStops`: a table being probed has a NULL slot |
| `KeysFindable` | `Spec => []Findable`: no NULL slot between the start of a key's probe and the key |
| `KeysUnique` | `Spec => []Unique`: where nothing is removed, no key is in two slots |
| `RefinesAssocMap` | where nothing is removed, `Spec => Assoc!SafeSpec`: the table implements the association map.c promises |

None of these is inductive alone. The argument has four layers, each an
invariant of its own that uses the ones before it:

* `Types` is `TypeOK` and `Sizes`: a table that exists has at least 4 slots. The
  bound matters: with fewer, `10 * nused < 7 * size` leaves no slot free after
  one more key.
* `Count` adds to `Counters` the same for the new arrays during a rehash, and
  that they are larger than what is moved into them. The lemmas about
  `Cardinality` (`UsedCount`, `NullSlot`, `FreshCount`, ...) say what one store
  does to a count.
* `Paths` adds to `Findable` that the cursor of put, get or remove, and that of
  the rehash, has passed no NULL slot. `Between(a, b, n)` is the cyclic interval
  it has passed; `BetweenAfter` extends it by a step.
* `Distinct` says that keys sit in at most one slot of the table and of the new
  arrays, that a rehash has not placed what it has yet to take, and that during
  a put the key is in no slot already passed. `NullProvesAbsent` is the point
  of it: by `Paths`, a NULL slot reached by the probe shows that the key is
  nowhere. Without `Removable = {}` there are tombstones and the theorem is
  false, which is what HashMapUndef shows.

Each layer has one step per action. The last step of each theorem joins the
initial case and the step by PTL. `RefinesAssocMap` reads the bindings off the
slots (`Reads`, from `Types` and `Distinct`), shows that the steps of a probe and of
a rehash change none, and maps the step that stores or answers to the one of
`AssocMap`. Run HashMap checks that answers come (the WF part of
`ImplementsMap`); this the proof leaves out.

### Directives

`PreprocProofs` holds for every set of files with any lines in them, balanced or
not, every search path and every `MaxFiles`.

* `TypeCorrect`: `[]TypeOK`, from `Places` (each file of the stack is read within
  its lines) and `Kinds` (what the conditionals, guards and flags hold).
* `CountsDepth`: `[]DepthCounts`. The invariant `Single` is about the one file that
  is open: the stack and the skip's count together are the conditionals that its
  lines above the position opened less those they closed, and the parity of the
  apostrophes above the position is the skip's own state. An `#include` ends it:
  what the stack holds then belongs to several files.
* `SkipsStay`: `[]NoSkipAcrossFiles`. `skip_cond_incl` goes on reading in the file
  below when its own ends (file.c pops it silently), so that this needs every
  file to be `Balanced`. `Inside` says that the count of each file on the stack
  is not negative, that a file below the top is suspended outside character
  constants, and that the file being skipped has one more conditional open than
  the skip has nested. At the end of a balanced file nothing is open.
  `AcceptedAssumption` of MCPreproc has TLC confirm that all the programs whose
  text the run judges are balanced.
* `TextIsSelected`: `[]Agrees`. Whatever the files are, the parser gets the text that
  the reference selects, the macros at the end are the same, no conditional is left
  open, and the engine stops at an error only where the reference refuses too.
* `GuardsAreTransparent`: `GuardIsTransparent`, an action property. Where `try_include`
  does not read a file because the macro recorded for it is defined, reading it
  would have changed nothing.

The last two share the invariant `Places /\ Kinds /\ Followed`. `Followed` says that
after some number of steps the reference has refused the program, or stands where
the engine does (`Rel`), or both have ended. `Rel` has six parts:

1. the configuration of the reference is well formed (`Config`), and still reads;
2. `Levels`: the same files are open at the same lines, the sections of each are the
   conditionals open at its line, and no file below the top is suspended between two
   apostrophes;
3. `SectionsAre`: the sections are the conditionals of `cond_incl_stack` followed by
   those the skip has counted. `taken` is `wastrue`, `last` is that `#else` was read,
   and a group is included if the engine is not skipping it; the exception is
   the innermost when the skip has stopped before the `#else`, `#elif` or `#endif`
   that ends it, because the directive is read again;
4. `GuardsOpen`: where a conditional still has a guard, its file has only blank lines
   outside the groups of `#ifndef` of that macro so far, and none of these has an
   `#else` or `#elif` of its own (`SkimmedTo`);
5. `Recorded`: the same of the whole of a file with a recorded guard (`WholeGuard`);
6. `Shared`: macros and text are the same; `once` is, but for files imported again.

Each action of the engine has a lemma (`TextGoes`, `StopGoes`, `ReadGoes`, ...) that gives
its step of the reference and shows `Rel` after it, and each error one that the
reference refuses (`FailRefused`). Two do not go one to one. `SkipStop` only puts
a line back: the reference does not move. An `#include` settled by a recorded
guard is one step of the engine and as many of the reference as the file has
lines, and two: `GuardedFile` follows the reference through all of them by
induction, using `WholeGuard`: where the macro is defined, the `#ifndef` is false, each
line after it is excluded, and the `#endif` leaves the sections as they were. That is
why `Rel` needs the guards at all, and `GuardsAreTransparent` is the same fact
read for the file alone (`GuardedAlone`). `ReferenceIs` closes the gap to
`MaxRead`: a reference that has ended or refused stays as it is.
Assumed are what a file and a line are (`ProgramsAssumption`), that the search path is
a sequence (`PathAssumption`), and that bounds are numbers and NONE is no skip.

### Macros

`MacroProofs` holds for every set of macros and texts of tokens. `MacroAssumption`
says that no text or body has an end-of-file token in it and that only
function-like macros have parameters.

* `TypeCorrect`: `[]TypeOK`. The calls of the expander are nested as it enters
  them: arguments are read for a function-like macro or looked for above such a
  call, an argument is expanded from a parameter of the body below it, and a body
  has one argument for each parameter. There is one stashed buffer for each
  argument being expanded, so that `token_buffer_unstash` never takes the
  lexer's own. An eof token is made where a buffer ends and is put into none, and
  the parser sees no newline.

### Statements

`StmtProofs` is for every set of statements, every length of
function and all ranges of cases. `LabelAssumption` says that the labels of the
source are no numbers (make_label's begin with a dot, parse.c:149);
`NoneAssumption` that NULL is no list of instructions or cases.

* `TypeCorrect`: `Shape`, with a locals record for each kind of call.
* `JumpsGoOut`: `[]JumpTargets`. break and continue are globals that every loop and
  switch overwrites and restores, so that `JumpTargets` is preserved when a call
  ends only because what it saved was right when it began. `Contexts` says that of
  each call on the stack.
* `CasesAreDisjoint`: `[]CasesDisjoint`. A switch inside another puts the cases read
  so far aside. `Ranged` says of every list put aside what `CasesDisjoint` says of
  the one in use.
* `LabelsAreUnique`: `[]LabelsUnique`. While a function is read, a label that has been
  made is in the code of a complete statement, or in the locals of the call that
  will place it (`Owes`), or in the node just returned. `Placement` says that each
  is in exactly one of these and that code jumps only to labels that were made or
  that a goto names; when the body has ended `backfill_labels` has found those.
* `RunsStay`: until the function returns there is a next instruction. A jump lands on
  a label of the code by `LabelsAreUnique`, and the code ends in a return.

### Variables

`FramesProofs` is for any names, sizes, number of cells, literals, blocks and
activations (`Bounds` is a constant). Its hypotheses are the parameters of
`Frames` that stand for what gen.c gets wrong (section 4): the theorems are
false without them, and FramesSwitch shows one case.

| theorem | where | statement |
|---|---|---|
| `LaidOut` | no block declares a name again | `[]Layout` |
| `TypeCorrect` | the same | `[]TypeOK` |
| `Apart` | the same | `[]FramesApart`: variables alive at once share no cell, a callee starts above its callers |
| `CallersKept` | the same | `CallersKeep`: a step changes no variable of a suspended activation but through the pointer |
| `ComputesAll` | and no temporary lies over a variable, no member is assigned at an offset | `[]Computes`: each value is the one the source means |

`Layout` says of every activation that its slots are apart and below `stackn`
(`Tidy`), that it ends below the base of the next, and that the pointer holds the
address of a variable that is alive: a store through it can then hit nothing
else. `Meant` adds that the cells of each variable hold what the source assigned
and registers what it means. The order matters: `Meant` is preserved because a
store to one variable leaves the cells of all others, which is `Layout`.
`CallersKept` is an action property and follows from `Layout` at both ends of the
step.

### Structs and unions

`InitializerProofs` is about any number of members of any sizes and widths.

* `RecordsLaidOut`: what `ReadRectypeFields` makes of `Proper` declarations is
  `LaidOut`, each member at a multiple of its alignment, in no bits of another,
  inside a size that is a multiple of the alignment of the whole, bit-fields on
  the two sides of a zero-width one in different cells. It is a statement about
  the operators of `Layout`, without state.
* `WellLaidOutAlways`: `[]WellLaidOut`, for programs whose record types
  were made so (`ProgramsAssumption`, which TLC evaluates for all the types of
  the run). `n` never leaves the declarations of the program.

* `TypeCorrect`: `[]TypeOK`, for a set of types that holds the elements and the
  members of its aggregates (`ClosedTypes`, `Typed`; TLC confirms both of the types
  of the run, `TypesAssumption`). The calls of the reader are nested: each list is
  of an aggregate of the set, or of a scalar opened as an array of one
  (parse.c:1886), the place in it is within its members, and a step that returns
  finds the call that made it. Between declarations no list is open.
* `StoresAreInside`, `VariablesAreApart`, `OthersKept`: whatever braces and
  designators an initializer has, each of its stores is inside its variable;
  globals and the locals of main share no cell; and what gen.c stores for one
  declaration changes no cell of another variable. Each is about the programs
  whose types, and the parts of these, have sizes above 0 (`Uses`, `Sized`). Without
  that they are false: an array of open length is as long as the index after the
  last element read, which may be before the largest (section 4), and a flexible
  member has no cells of its own. `Calls` says of each open call that what it fills
  lies inside the variable (`Fits`): a member ends inside its struct by
  `RecordsLaidOut`, an element inside its array because an index is compared with
  the length, and a scalar in braces has the size of an array of one. `Made` says the
  same of the finished declarations and `Located` that globals lie one after
  another from `initmem` on and locals above the gap. No run lists these three; TLC
  agreed on the programs of run Initializer whose types are `Sized`, some 150,000
  states.

`Proper` is what the parser accepts: complete types; widths as `read_bitsize`
checks them, a zero-width member without a name; names that differ, those of
anonymous structs included; alignments of which one divides the other, as
powers of two do (parse.c:2292). Two conjuncts say more. A bit-field is of a
type of one cell and alignment, as every integer type is here (parse.c:66-80);
`_Alignas` on one is against C11 6.7.5p2. An anonymous struct in a struct has
alignment 1, because parse.c:1541 raises the alignment of the whole for named
members only: with another alignment inside, `IsAligned` is false.

`End(l)`, the next free bit, carries the argument: a member begins at or after the
End before it and ends at or before the End after it, and no End goes back
(`MemberPlaced`, `AllInOrder`). `NextAligns` says that the alignment so far is a
multiple of that of each named member, because it is the larger of two of which
one divides the other. In a union all members begin at 0 (`AllAtStart`). That the
result satisfies `IsRecord` again is what lets it be an anonymous member of
another.

### Encodings

`EncodingProofs` is about the operators of `Encoding`, without state, for all code
points and, in `TextReadsBack`, texts of any length. `Agrees` and `Decodes` of run
Lexer try nine code points.

* `Utf8ReadsBack`: what `read_rune` reads of what `write_utf8` wrote is the code point
  and the number of bytes, whatever follows. The lead byte has as many leading ones
  as there are bytes (`LeadIs`), each other byte carries six bits (`SixIs`), and the
  digits to base 64 make the code point again (`Shifted`).
* `TextReadsBack`: `Spells(s, cs, at)` says that s is the code points cs in UTF-8, one
  after the other, cs[k] from at[k] on; then `Runes(s) = cs`. `RunesUnfold` shows that the
  recursive function in `Runes` exists, because a rune is at least one byte
  (`RuneLength`) and its value depends on what is read further on only.
* `Utf16ReadsBack` is for the code points below 1114112, those that surrogates can
  stand for: the code does not refuse a larger one, and its high unit is then no
  surrogate. `Utf32ReadsBack` is for all that `write_utf8` writes.

### Lemmas

`Lemmas` says what a sequence used as a stack is after its top is replaced,
dropped or added to, and which elements it has. `LeastOf` picks the least number of
a set, and `NatSetInduction` states
induction as "a set that holds 0 and n + 1 with n holds every natural number",
which a first-order prover can use: with it the recursive functions of `Frames`
(the cell of a variable), `Stmt`, `Layout` (the members placed so far), `PreprocRef`
(the steps of the reference) and `Encoding` (the runes of a string) are reached. `RECURSIVE` operators are not.

### Only model-checked

* Liveness: `Returns`, `Ending`, `Ends`, and the fairness of `ImplementsMap`.
* Everything against a reference that is defined by a `RECURSIVE` operator:
  `Agrees` of `MacroRef` and `LexerRef`, `FollowsSource`, `Initialized`, and the properties of `ExprRef` and `LexerRef`.

## 6. Not modelled

In the parser number literals with their suffixes and types, `_Generic`, statement
expressions, compound literals, builtins, declarators and enums; in gen.c
bit-field access, `va_arg`; static locals, and string literals outside
expressions; printing and diagnostics; paths; option parsing. `components` in
`PROJECT.json` lists each part with the reason, `hazards` what could go wrong in
each and which property would notice. Of the run-time library nothing is modelled
yet.

## 7. Plan

Done: directives, macros, statements, frames, initializers; then expressions with
their registers, constants and branches, and the lexer with its stream and the
encodings; the proofs of section 5. What is left, in this order; modules marked *
are to be proved about.

1. `Globals`: globals, static locals and string literals in one `globals` map and
   `initmem` (gen.c:143, 401-420), with the labels of several functions
   (gen.c:46), within the run Initializer.
2. Library pieces: `Growable`* (vector.c, buffer.c: length within capacity, growth
   ends), `PathClean`, `Alloc`* (rt/src/ta.c), `Strings` (rt/src/string.c).
3. Number literals and their types; switches over widths.

A new module shares a run with the component next to it: the twelve runs are
about what a developer will wait for.
