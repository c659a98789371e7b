# re3 in TLA+

A model of re3, a regular-expression engine in Go that matches with Brzozowski
derivatives and a lazy DFA: its lexer, parser and lowering to bytes, its syntax
trees, the analyses of its compiler, the lazy automaton, the three-pass search,
the loops and submatches built on a search, and the thread-safe wrapper. TLC
checks the modules on small instances; TLAPS proves the two lazy automata, the
searches, the wrapper and the iteration for every value of their constants. Paths and
line numbers are those of the repository.

## The system

An expression is lexed and parsed into a tree (`lexer.go`, `parser.go`,
`utf8_lowering.go`), analysed (`compiler.go`), and kept as a `regexpImpl` with
three lazy automata over one tree: `forward` for the expression, `unanchored`
for any bytes followed by the expression, `reverse` for its mirror image. The
calling goroutine does all the work; the only concurrency is that of callers
who share an engine through `Concurrent`.

| component | state | operations | talks to | what makes it correct |
|---|---|---|---|---|
| match context (`match_context.go`) | none | `makeMatchContextString`, mask packing | called for each byte of an expression with anchors | the facts are those of the position, also inside a rune and at the ends |
| syntax tree (`ast.go`) | immutable nodes, a lazily filled fingerprint | constructors, `Nullable`, `Derivative`, `Reverse` | the compiler and the automata | the derivative is the language's derivative; the trees stay canonical; the reversed tree is the mirror image |
| compiler (`compiler.go`) | none; builds the engine | minterms, prefix, start class, early-byte gate, context masks, roots | trees in, automata out | no analysis loses a match; minterms tell apart all that derivatives tell apart |
| lazy automaton (`lazyDFA`) | five slices and maps that only grow | `getNextState`, `getNextStateCached`, acceptance | trees; driven by searches | every cached answer is the tree's; states are distinct; the limit is kept |
| search (`regexp.go`) | three automata that outlive the call; locals of the call | `Match`, `FindStringIndex`, `findStringIndexFrom` | three automata | answers are matches, do not depend on the cache, and come |
| iteration (`regexp.go`) | locals of the loop | `FindAll*`, `Split`, `ReplaceAll*` | search | progress after empty matches; matches do not overlap, none is left out; the pieces and the matches are the text |
| wrapper (`concurrent.go`) | an RWMutex around one engine | the same interface | cached pass under the read lock, full pass under the write lock | no reader while a writer grows the automata; no interleaving shows in an answer |
| tagged automaton (`tdfa.go`) | one more lazy automaton, built on demand | `stepTDFA`, `runTDFA` | submatch methods | a cached transition is right in any context; group bounds lie within the match |
| lexer, parser (`lexer.go`, `parser.go`) | position, flags, group count | text to tokens to tree | lowering, compiler | the tree is the one precedence, grouping and flags give; what is malformed is refused |
| lowering (`utf8_lowering.go`) | caches of pure functions | runes, ranges, tables, classes to byte trees | parser, trees | a class matches the encodings of its runes, whole and one at a time |
| tracing, counters, command line | spans, counters | none that answers | everywhere | changes no answer |

What is hard here: a transition computed in one context, or in one call, is used
in all later ones; fingerprints may collide; the limit changes answers for good;
the three passes must agree about one match although they ask anchors in
different contexts; filters skip text no automaton sees; the wrapper gives up its
read lock before it takes the write lock, and takes the lock once for each match;
the tagged automaton caches transitions without their context. `PROJECT.json` lists the hazards with
their lines and the properties that watch them.

## The modules

| module | models | notes |
|---|---|---|
| `MatchContext` | `match_context.go` | a context is the set of its true fields, so that masking is intersection; runes of one and two bytes |
| `Ast` | `ast.go`, the walks over trees in `compiler.go` | a node is a tuple of its type and fields; `FpMod` is the range of the fingerprint |
| `Language` | nothing: the reference | what an expression matches, from scratch |
| `Compiler` | the analyses of `compile` | a minterm is named by the byte that stands for it, strings are byte sequences |
| `Derivatives` | the byte loops | one word read by derivatives, beside `Language` |
| `LazyDFA` | `lazyDFA` and its methods | operators on a record, over an abstract algebra of trees |
| `LazyDFAInvariants` | | what holds of an automaton between calls |
| `Brzozowski` | | abstract: the bounded automaton of derivatives, without tables or numbers |
| `Matching` | the loop of `MatchString` over one automaton | refines `Brzozowski` |
| `Search` | `regexp.go` 74-323 | one operator per loop iteration, over an engine and a call |
| `Answers` | | what answers are measured by, and what is assumed of an expression's trees |
| `SearchInvariants` | | what holds of an engine and of a call after each iteration of a loop |
| `RegExp` | nothing: abstract | an expression that answers in one step, from the expression and the question alone; which answers, each module that refines it says |
| `Searching` | one caller, call after call | refines `RegExp` |
| `CachedSearch` | `concurrent.go` 40-220, the passes under the read lock | one operator per loop iteration |
| `Concurrent` | `concurrent.go`, the locks | goroutines, RWMutex; composes `Search` and `CachedSearch` over one engine; refines `RegExp` |
| `TaggedTrees` | `tdfa.go` 1-256, `stepTDFA` and the tags | functions of trees; a configuration is a tree and its tags |
| `TaggedDFA` | `tdfa.go` 258-439, `lazyTDFA` and its methods | operators on a record, over an abstract algebra of tagged trees |
| `Iteration` | `regexp.go` 358-882, `runTDFA`, `concurrent.go` 222-720 | calls of goroutines that share an engine; a search is one step; refines `RegExp` |
| `IterationAnswers` | | abstract: what the calls mean to return, without loops, locks or caches |
| `IterationMeaning` | | abstract: when an answer that is given is the one a call means to return; what the proofs know of answers |
| `Lexer` | `lexer.go` | a function of the text; a character is its name, `Rune` its code point |
| `Lowering` | `utf8_lowering.go`, the literals of `parser.go` | over the trees of `Ast`, on the real encodings of one to four bytes |
| `Parser` | `parser.go` | one operator per parsing function; a state is the token, the flags, the groups, the tree, the error |
| `Reading` | nothing: the reference | how a sequence of pieces is meant to be read |
| `Syntax` | `compile` up to the tree | an expression written piece by piece and compiled after each |
| `LazyDFAProofs`, `MatchingProofs` | | proofs: the lazy automaton, and `Matching` |
| `SearchProofs`, `SearchingProofs`, `ConcurrentProofs` | | proofs: the passes of a search, and `Searching` and `Concurrent` on them |
| `TaggedProofs`, `IterationProofs`, `LoopProofs` | | proofs: the tagged automaton, `Iteration`, what its loops return, and that its calls answer as meant |
| `MCTrees`, `MC*` | | instances |

How the state corresponds. A lazyDFA's `stateASTs`, `isMatch`, `transitions`,
`assertionTransitions` and `stateIndex` are `asts`, `isMatch`, `rows`, `masked`
and `index`; `requiredCtxMask[s]` is `Mask[asts[s]]`, computed once from the tree
as in the code. States count from 1: state 1 is the code's 0, `DeadState` (2) its
`deadStateID`, `Uncached` (0) its -1. A bucket is a set, looked up in order of
insertion, which is that of the numbers. A call record holds the locals of
`findStringIndexFrom`; its phase says which loop it is in. An engine names its
expression and holds the three automata. A goroutine's `pc` says where it stands
towards the lock.

`LazyDFA` takes the trees as constants with three assumptions: False derives to
False and accepts nothing; a tree depends on its context through its mask only;
types. The first is plain in `ast.go`; the second is `MaskIsEnough`, checked in
the run `derivatives`. TLC evaluates all of them for the tables of each instance.

`Answers` has the matches of each expression as the constant `Spans`, and assumes
of them and of the trees: types, and that a match lies in its text; without
assertions in an expression, no tree of its automata asks for its context
(`PlainAssumption`); and what the three trees have to do with the matches
(`DerivativeAssumption`): a match is what leaves a nullable tree, the unanchored
tree lets any bytes go before it, the reversed tree reads it backwards. That the
trees of `ast.go` do so is what `derivatives` checks (`DerivativeIsSound`,
`AcceptsExactly`, `ReverseIsSound`). Of anchors in a reversed tree nothing is
assumed: there the code differs. That the filters keep all matches
(`FiltersKeepMatches`) is not assumed either, since it is false of `é|è`
(`search_accent`): the theorems that need it name it as a hypothesis, and
`FiltersAssumption` of `MCSearch` and `MCConcurrent` shows it true of all the other
expressions there.

`TaggedDFA` takes tagged trees the same way: `Configs[t][b][c]` is the sequence
`stepTDFA` returns, `TagNull[t][c]` nullability; its assumptions are types, what the
dead tree does (it accepts nothing and leads nowhere else), and that trees without
assertions ask nothing of a context and lead to such trees; `Iteration` besides that
`None` is no automaton, goroutine or request. `Iteration` takes the search as the
constant `Find`: the location from an offset, inside the text or nil
(`FindAssumption`). The instances compute `Find` by running the machine of `Search`
in a new engine, and `Searching` and `Concurrent` are about what makes it
independent of the engine's past. Of `Spans` it assumes that without assertions the
rest of a text is matched as a text of its own. That a search finds the match that
ends first (`FindsFirst`) is again a hypothesis, of two theorems, and shown true of
the instances by `FindsFirstAssumption` of `MCIteration`. So is, for one of them,
that the constant `Answer` holds the answers meant (`AnswersAsMeant` of
`IterationMeaning`, `MeaningAssumption`): `IterationAnswers` computes them for the
instances, by recursion, and nothing could be proved over that.

In `Searching` a step is one iteration of a loop. `Concurrent` has the same step
under the write lock, the cached one under the read lock, and a step for each
lock operation. `Lock` is two steps, as in `sync.RWMutex`: a writer announces
itself, which keeps new readers out, and waits for the readers that are in. In
`Iteration` a step is one search with its turn of the loop, or one byte of
`runTDFA`; a loop of the wrapper holds the lock for the search only; a submatch
method first reads under the read lock and then makes the engine's call under the
write lock from the start; a method with a context makes it there at once. What
`call[g]` holds are the locals: the offset, the matches, the result as pieces of
the text or rows of slots, and the state and slots of `runTDFA`.

## What the runs check

| run | question | expected |
|---|---|---|
| `derivatives` | are trees, contexts, masks, reversal, minterms and filters right for the language? | pass |
| `matching` | is one automaton's memory right, complete and append-only, whatever calls have built it? | pass |
| `search` | does a search return what it means to, whatever was cached before, and what of that is left with anchors? | pass |
| `concurrent` | can goroutines tell that they share an engine? does every call return? | pass |
| `iteration` | do the loops and the submatch methods get on, leave nothing out, and answer as if alone? | pass |
| `syntax` | is what is written what is compiled, and is a class its runes? | pass |
| `search_leftmost` | is the location returned the leftmost match's (`regexp.go:135`)? | violated |
| `search_anchor_nil`, `search_accent` | does nil mean that there is no match (`api.go:18`)? | violated |
| `concurrent_full` | is the wrapper as good as the engine (`re3_test.go:90`)? | violated |
| `submatch_nil` | does a nil submatch mean that there is no match (`api.go:46`, `README.md:89`)? | violated |
| `repeat_binding` | does a count repeat the item before it (`api_test.go:717`)? | violated |

`derivatives`: `DerivativeIsSound` (what is left of a tree after a prefix matches
exactly the ways to go on), `AcceptsExactly`, `MaskIsEnough`, `ReverseIsSound`,
`MintermsAreSound`, `FiltersSkipNoMatch`, `StaysCanonical`.

`matching`: the parts of `Sound` in `LazyDFAInvariants` (`IndexIsExact`,
`StatesDistinct`, `DenseSound`, `MaskedSound`, `MatchBitSound`, `CapRespected`),
`ReadsDerivative` (from the cache or not, a byte leads to the derivative in the
context at hand), `CacheOnlyGrows`, and `Implements`, the refinement of
`Brzozowski`.

`search`: `NothingBehind` (no match ends in what the first pass has read or
skipped), `AnswerIsMatch` (full automata or not), `EndIsKnown` (only a full
forward automaton loses the end), `Returns`, and `Implements`: until an automaton
is full an answer is, of the matches from the offset on, the longest one from the
leftmost start among those that end first. That is what the code computes; it is
not the leftmost match, which `search_leftmost` shows. With anchors `EndIsKnown`
and the exact answer are not claimed (see below); the rest is.

`concurrent`: `NoRace`, `EngineSound` (all three shared automata are sound at
every moment), `Returns`, and `Implements`: goroutines see one expression that
answers in one step. Its answers are those the code means to compute: of `Match`,
without anchors, whether the whole text is a match (as the test at `api_test.go:53`
has it), of a search the match that ends first. The documentation says other things
of both: that `Match` reports whether the text contains a match (see "What else the
code does"), and that a search finds the leftmost one (`search_leftmost`). The run
says nothing for them.

`iteration`: `Successive` (matches in order, apart, no two from one offset, so that
the engine's count for n < 0, the length of the text and one, leaves none out),
`NothingBetween` (no match is skipped between two that are returned, nor after the
last), `TextAccounted` (pieces and matches hold each byte once, but for the rune
behind an empty match), `GroupsInside`, `TransitionsAreFresh` (a transition of the
tagged automaton is right in every context), `TaggedGrows` (it is built once, only
grows, and only under the write lock), `Returns`, and `Implements`: two goroutines
see an expression that answers at once, `ReplaceAll` what `ReplaceAllString`
answers, the wrapper what the engine answers, whatever was asked before. Once the
tagged automaton is full (`Crowded`), an answer may lack the groups of matches and
nothing else: a single match is then no match, one of many stands without groups
(`PoorerThan`).

`syntax`: `ReadsAsWritten` and `RejectsMalformed` hold the lexer and the parser
against `Reading`, which knows where each piece begins and what it stands for.
`Malformed` there is what is no expression, whatever the code does: what is torn, a
repetition of nothing, a count that is none, a parenthesis without its other half, a
quantifier behind a quantifier. Nothing else is refused, and of these all are but a
`)` without its `(` and nested repetitions, which the code accepts against
`error.go:24` and `:31` (see "What else the code does"). Of an expression with an
unexpected `)` nothing is claimed but that it is refused when it is torn.
`ClassesDenoteTheirRunes` holds classes against the set of runes they spell: each
probe in its encoding, and strings that are no rune (half of one, two, an overlong
encoding, a surrogate).

### What the violated runs show

* `search_leftmost`: `abc|b` in `abc` gives [1,2]; a match starts at 0.
* `search_anchor_nil`: `a$` is not found in a text that ends in `a` when the
  text is longer than the match. The reversed tree begins with `^`, which is
  asked in the context of a position of the unreversed text. The test at
  `api_test.go:717` expects a match of an expression of that kind.
* `search_accent`: `é|è` is not found. Its start class is the lead byte 0xC3, and
  `strings.IndexAny` takes that byte for an encoding error. The tests at
  `unicode_regression_test.go:30` and `:36` expect matches of expressions of that
  kind.
* `concurrent_full`: once the reverse automaton has cached its dead state at the
  limit, the wrapper's cached pass lacks the return of `regexp.go:285` and indexes
  the text at -1, with the read lock held. The engine answers nil.
* `submatch_nil`: `stepTDFA` reads a class from its text, which lowered classes do
  not have, so that the tagged automaton of `([a-z]+)@([a-z]+)\.([a-z]+)` dies at
  the first letter. The search finds the match, `FindStringSubmatch` returns nil.
* `repeat_binding`: `isPeekStartOfExpression` lists the opening brace, so that a
  count has the precedence of a sequence: in `^(aa){2}` it repeats `^` as well.
  `ReadsAsWritten` therefore writes counts behind the first item of an alternative
  only (`CountsFollowFirstItem`), where both readings agree.

### What else the code does

Met while modelling, modelled as it is, and without a run of its own. Tests expect
some of it, and of most the repository says nothing; where it says otherwise, the
item quotes it:

* `Match` without anchors asks whether the whole text is a match: the loop reads all of
  it and asks its last state (`regexp.go:91`). With anchors it is a search
  (`regexp.go:84`). `api.go:9` and `:11`, `regexp.go:74` and `:94` say that it reports
  whether the text contains any match, so that `abc|b` in `ab` should be true; it is
  false. The test at `api_test.go:53` agrees with the code: `a+` does not match `baaa`.
* Search: `^|a$` in `aa` from offset 1 gives the end -1: the third pass starts from
  `longestEnd = -1` and its result is not looked at (`regexp.go:322`).
* Submatches: `FindAllSubmatch` slices `b[start:-1]` where only the start of a group
  is set, as for `(a+)(a+)` on `aaa`, and panics (`regexp.go:570`,
  `concurrent.go:366`); the index methods give such a group the end of one less
  than the match's start. The first configuration may be a dead one, so that
  `(a|b)` finds no groups in `b`. `(a)+` counts two captures, and an end may be set
  late: group 1 of `(a)(b)` in `ab` is `ab`, as tests expect.
* Loops: `Split` and `ReplaceAll` lose the rune behind an empty match, as tests
  expect and `TextAccounted` allows; `Split` with n = 0 returns nil where
  `regexp.go:756` says there is no limit (`api.go:72` says nil); `ReplaceAll` of bytes cuts the text, so
  that an anchor sees another context than in `ReplaceAllString`; `$1` in a
  replacement is copied as it is, where `api.go:77` and `:80` say that it is
  interpreted as in `Expand`.
* Errors: `a)` compiles to `a`, and so does `a)b`, because `parse` does not ask whether
  all has been read (`parser.go:92`); only a `)` at the start is refused. `error.go:31`
  declares "unexpected )". `a**` and `a++` compile to repetitions of repetitions,
  because the loop at `parser.go:121` applies each quantifier to what it has.
  `error.go:24` declares "invalid nested repetition operator". Both are among the codes
  that describe "a failure to parse a regular expression" (`error.go:15`), and nothing
  raises them, nor `ErrInvalidCharClass`, `ErrInvalidCharRange`, `ErrInvalidEscape`,
  `ErrInvalidNamedCapture`, `ErrInvalidPerlOp`, `ErrInvalidUTF8`, `ErrNestingDepth` and
  `ErrLarge`: `[c-a]` is read as `[a-c]` and `\q` as `q`. `(?i)*` is accepted, a
  repetition of the empty expression.
* Syntax: `&` and `~` are literals (`lexer.go:67`), where `README.md:5`, `:14`, `:98`
  and `:99` say that they are intersection and complement (the tests of `~` are
  disabled, `re3_test.go:159`); flags set in a capturing group stay
  set behind it; `{2}` at the start of an alternative is a literal `{` and hides the
  rest; `(?<name` and `\p{` without their end swallow the rest, and in brackets
  `\p{` without its end is the letter p.
* Classes: `[\p{Lu}a]` is `\p{Lu}` alone (`utf8_lowering.go:514`); `[\d-z]` is the
  range from `d`; `[\D]`, `[\S]` and `[\W]` are single bytes; with `i` and without
  `u` a range loses its runes beyond ASCII, and a single one is not folded even with
  `u`; `[]` and `[^]` match nothing; `\p{LlOrLu}` has titlecase letters.
* The wrapper's `Clone` returns an engine without a lock (`concurrent.go:601`).

## Bounds

* `derivatives`: all expressions of depth two over 14 leaves and anchors, those of
  depth three over 6 by 6 operands, and the former behind the prefix of a search; repeats up to `{2,3}`; 14 words of up to four
  bytes, with newlines at either end and inside and a two-byte rune whole, before
  and after a letter. Every rule of `Derivative` meets a nullable and a
  non-nullable operand, and every anchor each kind of position. `FpMod = 7` lets
  fingerprints collide.
* `matching`: five expressions, two bytes, four contexts; `maxLazyDFAStates = 4` is
  below the size of two automata, one with anchors, and enough for the others; five
  buckets.
  Calls are unbounded: the state space is finite, because the cache is.
* `search`: seven expressions without anchors, one for each filter and for a
  nullable one, on seven texts of up to five bytes; three with anchors, on five;
  from every offset, any number of calls. The literal
  prefix occurs early, late and not at all, and the gate rejects a candidate before
  it accepts one. A limit of five states leaves some automata room, fills others,
  and is too small for others: the unanchored automaton of `(a|b)*a(a|b)`, and the
  forward one of `a(bcc)*|bb`, which a search of `abcc` fills so that a search of
  `bb` loses its end.
* `concurrent`: two goroutines, three questions, three expressions, one of them
  with an assertion, so that it never takes the fast path; no limit is met. Two
  goroutines are enough for a reader and a writer, two readers and two writers; a
  third adds no lock state that `NoRaceEver` does not cover. Calls are unbounded.
* `concurrent_full`: a limit that the reverse automaton alone reaches.
* `iteration`: seven expressions: nullable, with one to two groups, a group that may
  be skipped, one in a repetition, one with an anchor; ten calls over three texts,
  one with a two-byte rune, by wrapper and engine, with the counts -1, 0, 1 and 2; two
  goroutines, any number of calls. A limit of three states, the root, the dead state
  and one more, is enough for some expressions and fills the automaton of others, so
  that answers with and without their groups occur.
* `syntax`: eight keyboards of up to 18 pieces, each exhausted up to a
  length of one to five: structure, flags, counts, tokens of every kind, class bodies plain, with
  `i`, with `iu`, and named classes. 26 probes from one to four bytes, at the ends of
  encoding ranges; tables of a few runes for those of package `unicode`. Five pieces
  hold a group in a group with a quantifier, an alternation in it and what follows.
  The keyboards share no state.

Classes of bytes are named by one of their bytes, so `byteToClass` maps a byte to
a byte. The trees of `MCTrees` are numbered, for speed.

## Fairness

`Searching` has weak fairness of a call's own steps: a function that has been
called runs. Whether another call follows is the caller's choice, and no
fairness is assumed of it. `Concurrent` has weak fairness of what a goroutine can
do without waiting, and strong fairness of getting in at the lock: Go's RWMutex
starves neither readers (a waiting writer lets in the readers that came before
it) nor writers (`sync.Mutex` hands over to a waiter after one millisecond). With
weak fairness alone the lock could change hands among others for ever. `Iteration`
has strong fairness of what a goroutine does inside a method (`Proceed`), for the
same reason: waiting at the lock is the only thing that disables it.

## Proofs

`LazyDFAProofs` proves, over `LazyDFA`'s assumptions, that a new automaton is
`Sound` (`NewSound`) and that `getNextState` keeps it so, lets it only grow, and
reaches, learns or loses the derivative (`GetNextStateSound`). The argument
follows the code: `LookupFinds` (a bucket holds a tree exactly if it is a state),
`NewStateSound` (appending keeps everything, because the tree was not there),
`SetRowSound` and `SetMaskedSound` (caching a right or a finally lost successor).
None of the conjuncts of `Sound` is inductive alone: rows are right only if the
lookup is, the lookup only if the index is exact and states are distinct, a lost
transition stays right only because the limit stays reached and the tree stays
unknown. So `Sound` is the inductive invariant, with its parts as corollaries.

`MatchingProofs` carries that over to the specification: `Inv` is `Sound(dfa)` and
the call is in a state; the theorems `TypeCorrect`, `IndexCorrect`,
`DistinctCorrect`, `DenseCorrect`, `MaskedCorrect`, `MatchBitCorrect`,
`CapCorrect`, `ReadsCorrect`, `GrowthCorrect` are the properties of the run `matching`, and
`Refinement` is `Spec => B!Spec`. Nothing bounds the trees, the alphabet, the
contexts or the limit.

`SearchProofs` proves what each loop iteration of `findStringIndexFrom` and of
`MatchString` does, over `Answers`' assumptions, for any expressions, texts and
limit. Its invariant is `IsEngine` and `SearchCall` of `SearchInvariants`: the three
automata are `Sound` and have the expression's trees at their roots, and of the
call, by its phase,

* the state it is in stands for what is left of the tree after the bytes read
  (`Residual`, `ResidualBack`), or is the dead state of a full automaton (`Stands`);
* in the first pass, no match ends where it has been, nor begins before the position
  the filters let it start from (`NoneBehind`, `ScanBegan`);
* then the end found is a match's, and none ends before it (`EndKnown`);
* in the second pass, every match with that end from a position already read has
  been seen, and the start is the leftmost of them (`Backing`, `StartKnown`);
* in the third, likewise, the end is the longest so far (`Extending`).

Each conjunct about completeness holds while the automaton has room, and a state
that lost its tree stays lost because a full automaton stays full; each about
soundness holds always, since a lost match is never one made up. None of it is
inductive without the rest: that the leftmost start is found needs that the end is a
match's, and the longest end needs that start. The recursive functions `Residual`
and `ResidualBack` are shown to exist and to unfold by induction over positions in
the form of sets: a set of numbers that is not empty has a least element
(`LeastExists`).

`SearchingProofs` has the properties of the run `search`: `TypeCorrect`,
`AnswersAreMatches`, `EndsAreKnown`, `NothingLeftBehind` and `Refinement`, the last
two for expressions whose filters keep their matches. For those, an answer is the
exact one until an automaton is full; then, and with anchors, it is nil, a match, or
the start of one.

`ConcurrentProofs` proves the wrapper for any goroutines and questions. Its
invariant is `LockInv` (the lock names exactly who is in it, a writer has waited for
all readers) and, for the engine and each goroutine, those of `SearchProofs`
(`GoroutineInv`). A step of the writer may change the engine, which is what the calls
of readers are measured by; `LockInv` says that there are none then. An iteration of
a cached pass is the same iteration of the full pass that changes no automaton, but
for one (`LostStart`: a start that the full reversed automaton has lost), where the
cached pass panics. So follow `NoRaceEver`, `TypeCorrect`, `EnginesAreSound`,
`PanicsOnlyFull` (what `concurrent_full` shows happens in no other case),
`RepliesAreRight` (what a goroutine is told of any expression is the answer meant,
or a poorer one in three cases: an automaton is full, there are anchors, or the
filters lose matches, as those of `search_accent` do), and
`Refinement`: for an expression without anchors whose filters keep its matches, the
goroutines see one expression that answers at once.

`TaggedProofs` proves `NextTaggedSound` for any tagged trees, alphabet and limit:
`getNextState` keeps the automaton in shape, lets it only grow, and answers a cached
transition, a lost one at the limit, or the first configuration; if no tree asks
for its context, every transition stays right in all contexts (`Fresh`).

`IterationProofs` proves, for any goroutines, requests, texts, expressions and any
search that stays in its text, `IterationTypes`, `MatchesSuccessive`,
`GroupsAlwaysInside`, `TransitionsAlwaysFresh` and `TaggedAlwaysGrows`. The
inductive invariant `Inv` has four parts: types; `LockInv` (the lock names exactly
who is in it, and a writer is alone); `CallerInv` (of each call: its request, its
offset behind its last match, each match at or behind the offset the one before
left, rows and slots inside the match); `TaggedInv` (the automaton is in shape, is
fresh if the expression has no assertions, and every running call is in one of its
states). `Successive` needs the offset, the offset needs `AdvancePosAfterEmptyMatch`
to go on by one rune and never past the text by more than one (`RuneSize`); groups
stay inside because tags are set at the offsets of the run (`TagsInSpan`) and moved
with the match (`MovedInMatch`); a run stays in a state because only the writer,
who is the one that runs, changes the automaton.

`LoopProofs` proves what the loops return. `NothingLeftOut` is `NothingBetween` for
every expression of which a search finds the match that ends first (`FindsFirst`):
nothing that ends before that match begins has been passed over
(`EarliestSkipsNone`), also in a text that is cut off (`EarliestMoves`), and each
search starts where the last match left off (`Placed`). `TextAlwaysAccounted` is
`TextAccounted`, for any search: before each match there is a piece from where the
one before left off (`Before`), after the last one a piece to the end of the text or
no text (`Rest`), and then each byte lies in the last match that begins at or before
it, in the piece behind it, or in the rune behind that match if it is empty
(`ByteAccounted`).

`LoopsRefine` is `Implements` of `iteration`, for any goroutines, requests, texts,
limit, and any expression that is `Faithful`: its answers are those meant, and
without assertions a search finds the match that ends first. (With assertions the
abstract expression is told what it should answer, in the run and in the theorem:
nothing is said of the answers then.) A call is measured by the matches of its answer,
not by its own (`Toward`): what it has found begins them, while it searches there are
fewer than are wanted, its rows are those of its matches, and when it is done its
matches and its result are the answer (`Answered`). The argument:

* At most one location is the earliest of some matches (`EarliestUnique`), so a search
  that begins where the last match left off finds the next match of the answer, or
  none when there is none (`NextIsMeant`), whether the text is cut off or not.
* A loop stops exactly when it has all matches of the answer, although the engine and
  the wrapper count in two ways (`CountIs`, `OnwardMeant`); its pieces are then those
  of the answer (`PiecesAre`), which `Before` and `Rest` determine.
* The run of the tagged automaton in the span of a match follows the first way of
  reading it (`Reading`, a recursive function, shown to exist by `ReadingExists`),
  state by state and slot by slot, or is in the dead state of an automaton that is
  full (`Followed`, `RunByteMeant`). So it accepts where the reading does and the row
  is the one meant, or it does not and the automaton is full (`RunEndMeant`).
* `MeantInv` says so of every goroutine at once. Steps of others leave a call on its
  way: only the one that holds the write lock changes the automaton, it only
  grows, and one that is full stays full (`OthersMeant`, `CrowdedStays`). A call that
  starts over under the write lock begins its way again (`LockMeant`).
* A step that calls maps to `Ask`, one that returns to `Tell`, one that adds the
  last state there is room for to `Fill`, and all others to a stutter
  (`CallRefines`, `ReturnRefines`, `InsideRefines`).

Only model-checked: all of `derivatives` and of `syntax` (recursion over trees and
texts, of which there is no induction here), and liveness everywhere.
`FiltersKeepMatches`, `FindsFirst` and `AnswersAsMeant` are evaluated, for the
instances.

## Not modelled

* `llOrLuRepeat` (`regexp.go:176`), a hand-written scan for one benchmark's shape,
  and the textual rewrites at `compiler.go:303`.
* In contexts and searches, runes of three and four bytes: a context depends on a
  rune only through its class and its size. Latin-1 letters stand for letters.
  Lowering has all sizes.
* The tables of package `unicode` are a few runes each; `SimpleFold` is a partition
  of the runes that occur.
* The caches of compiled properties and ranges in `utf8_lowering.go`: they memoize
  pure functions. The nodes they share have a lazily written fingerprint, as a
  clone's have (`ast.go:623`); the write is idempotent, and Go's memory model is not
  part of the project.
* `parseIntersect` and `parseComplement`, which no token leads to.
* Look-around nodes have no reference: their methods treat them as groups that
  consume text.
* A negative `from`, which no caller passes.
* Tracing, counters, error values, the command-line driver: no answer depends on
  them.
* `Clone` and `InstanceID`, which change no state of an engine.

## Plan

1. Done: `MatchContext`, `Ast`, `Language`, `Compiler`, `Derivatives`; `LazyDFA`,
   `Matching`, `Brzozowski` with proofs; `Search`, `Searching`; `CachedSearch`,
   `Concurrent`.
2. Done: `TaggedTrees`, `TaggedDFA`, `Iteration`, `IterationAnswers` with proofs;
   `Lexer`, `Parser`, `Lowering`, `Reading`, `Syntax`.
3. Done: `SearchInvariants`; `SearchProofs`, `SearchingProofs`, the wrapper in
   `ConcurrentProofs`, `IterationMeaning`, the loops and what they answer in
   `LoopProofs`: each refinement the project states is proved.
4. Left to prove: that the start class and the early-byte gate keep all matches, for
   bytes below 128, as a lemma about sets of bytes.
5. Left to model: the rewrites at `compiler.go:303` as functions of token sequences,
   and `llOrLuRepeat` against the search it stands for.
