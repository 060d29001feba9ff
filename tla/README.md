# JSONFuzz in TLA+

JSONFuzz tests JSON parsers: a generator and a mutator make documents, an oracle runs each
document through a *system under test* (SUT) and judges it by seven laws (O1 to O7), and the
fuzz target and the CLI put the two together. The oracle is the part everything else stands
on. A law that blames a correct parser, that misses a wrong one, or that does not return,
costs more than a crash would, and unit tests with two or three hand-made SUTs hardly reach
the orders in which a parser can answer, refuse and throw. These modules model the oracle
against *every* SUT, the toy SUT it is tried on down to its text parser, the generator, the
mutator, and the programs that put them together.

## The system

| part | source | state | operations | modelled by |
|---|---|---|---|---|
| SUT contract | `include/jsonfuzz/sut.hpp` | the last accepted document, the writes since | parse, serialize, pointers, get, set, remove, serialize_mode(_count), preserves_number_text | `Sut` |
| Oracle | `src/jsonfuzz_oracle.cpp`, `oracle.hpp` | a LawResult and the locals of the running routine; the OracleReport | check_v01 (O1, O2), check_pointer_values (O3), check_set_remove (O4), check_mode_agreement (O5), check_number_text (O6), check_strict_subset (O7), check_all | `Oracle`, `OracleO1O2`, `OracleO3` .. `OracleO7`, `CheckAll`, `Laws` |
| Reference reading | `jsonfuzz_oracle.cpp`, `jsonfuzz_reference.cpp` | none (a duplicate finder's stack) | reference_parse, reference_at, duplicated keys, tag and untag numbers | `ReferenceText` (texts), `Documents`, `JsonTree` (trees), `IntentReading` (the count) |
| Toy SUT | `src/jsonfuzz_sut.cpp` | `Impl::root`, `has_root` | the whole contract | `JsonText` (text), `Documents`, `ToyTree`, `ToySut` (trees), `Spellings` (keys) |
| Broken SUTs | `src/jsonfuzz_sut.cpp` | the toy's; broken-sibling a second tree | a comma too many; the next sibling's value | `ToyOracle` |
| Generator | `src/jsonfuzz_generator.cpp` | the byte stream, the intent record, the recursion | one document from a byte stream | `Generator` |
| Readings | `src/jsonfuzz_readings.cpp` | the reach record | three readings of one fuzz input | `FuzzTarget`; `IntentReading` (reading 3) |
| Mutator | `src/jsonfuzz_mutate.cpp` | the bytes | one of sixteen operators; the result cut to max_size | `Mutator`, `Texts` |
| Fuzz target | `fuzz/fuzz_jsonfuzz.cpp` | accumulated reach counts | one input; the guard at exit | `FuzzTarget` |
| CLI | `src/jsonfuzz_cli.cpp` | the options, the probed SUT | gen, mutate, check and the list verbs | `Cli`, `FrontEnds` |
| scripts, version | `scripts/`, `jsonfuzz_core.cpp` | none | | not modelled: I/O and a constant |

How they interact: the oracle *calls* the SUT through a virtual interface, one call at a time,
and a SUT keeps **one** model which every accepted parse replaces; nothing else is shared. The
generator is a function of its bytes, and its intent record travels beside the text to reading
3. `mutate()` rewrites a buffer in place. The fuzz target and `check` call `check_all()` and
fold its reports into a guard or an exit status. The library has no threads, no network and no
persistent state, so there are no interleavings of processes, crashes or messages. What is hard
in it is

* an adversary inside the sequence: any call may answer anything its type allows, or throw,
  in any order, and the routine must neither believe it nor lose a finding;
* one model under several laws: a reparse in the middle of a law replaces what the next
  `get()` reads, and a half-failed write leaves it unknown;
* two readings of one text that differ legally: duplicated keys, numbers no double holds,
  texts only a lenient parser accepts, each of which must be a skip and not a blame;
* laws that are skipped without anyone noticing, and capabilities that come and go;
* code that reads text which may be anything: the toy's parser, the number tagger and the
  scans of the mutator must agree on where a string or a number ends;
* records made of other records: the reach of four reports per input, summed over a run, and
  an exit status after a probe that has already changed the SUT;
* arithmetic at the edges: `pick(n)` cuts n to a byte, `parse_index()` wraps.

`PROJECT.json` lists these as hazards, each at its line, with the properties that watch it.

What makes each part correct:

* *Oracle*: no false alarm against a SUT that keeps the contract; the verdict of a law that
  ran is the law's statement about the calls that were made; a skipped law is not an
  evaluated one; no finding is lost; it returns.
* *Toy*: it is a SUT that keeps the contract, and `set()`/`remove()` change what is at and
  below one pointer and nothing else, in a tree with renumbered arrays and duplicated keys.
* *Keys and pointers*: the four conversions between a spelled key, its Unicode text, its
  pointer token and the pointer are inverse where they have to be.
* *Text*: the parser takes the grammar, the serializers write what it reads, and the reference
  models the same documents but for the differences the code names.
* *Mutator*: a tree operator yields a document, a truncation never does, a breaking operator
  breaks, and nothing is written past `max_size`.
* *Generator and reading 3*: two independent counts of one document agree.
* *Fuzz target and CLI*: no trap on correct code, a guard that counts what ran, an exit status
  that is the verdict; they end.

## The modules

**`Sut`** is the contract. Each `...Call` operator is one call with *any* answer; `right` in
`Answered` says whether a SUT that keeps the contract could give it. The history variables
`model`, `honest` and `log` (what such a SUT would hold, whether every answer so far was
right, and the calls of the running law) are read by no action of the oracle. Texts, values
and pointers are opaque; constants give the honest reading (`Reads`, `Canon`, `At`, ...) and
the oracle's own reference reading (`Ref`, `RefAt`, `Dups`, `Tokens`, ...). The assumptions
`RoundTrips`, `StrictnessInherited`, `ReferenceAgrees`, `FreshIsAddable`, `AddableIsAbsent`,
`SetValuesReadable` say in what respects two correct readings of JSON agree. With
`MayLie = FALSE` only right answers are given; with `TRUE`, all of them.

**`Oracle`** holds the running routine: `law`, `pc` (the step it is at), `r` (its
LawResult), its locals, and `rep` (the OracleReport). An action is one SUT call and the code
up to the next one, with every early return. Violations are a set of [law, message, pointer]
records, since their order is not observed. `Add` is the `add` lambda of `check_all()`.

**`OracleO1O2`, `OracleO3` .. `OracleO7`** are the law routines, one module each, one action
per call (`O4Set`, `O4Get`, `O4Remove`, `O4After`, `O4Restore`, `O4Reserialize`, ...).
Pointers are visited one per step. **`CheckAll`** joins them and states the properties.
**`Laws`** restates the seven laws as `oracle.hpp` words them, about the call log alone: the
statement `VerdictMatchesLaw` compares the routines with. **`Verdicts`** is the abstract
specification of the report (`oracle.hpp:75-104`): the routines report once each and in order,
a routine blames and counts its own laws and no other, nothing is taken back, and the call
returns. `CheckAll` implements it under `todo <- the running routine and the plan`,
`blamed <- the laws in rep.violations`, `ran <- the laws rep.evaluated` (`ReportsVerdicts`).

**`Documents`** is the data: ordered trees with keys as spelled, and the reading a pointer makes
of them (the first of a duplicated key). It recurses over a pointer or a level only, never over a
tree, so that the proofs can speak of it. **`JsonTree`** adds what is computed by recursion on a
tree: nlohmann's reading (the last of a duplicate, in a map), the list of pointers, the duplicate
scan, the fresh child.
**`MCCheckAll`** computes every constant of `Sut` from thirteen small trees, so TLC *checks*
the assumptions of `Sut` on them rather than taking them on trust.

**`ToyTree`** is what the toy does to a tree (`Written` is `set_value()`, `Erased` is
`remove_value()`, `ParseIndex` wraps at `2^SizeBits`). `Walk` is the node `resolve()` stands at
after each token, and `Replaced` goes the same way back, from the changed parent to the root.
**`ToySut`** runs any sequence of parse, set and remove. **`PointerStore`** is the abstract
specification: a document is the set of its nodes, one for each pointer that resolves, and the
three operations are what `sut.hpp` promises of that set. **`ToyStore`** says that `ToySut`
implements it under `nodes <- NodesOf(root)`; **`ToyListing`** has what `pointers()` lists of the
documents the calls build. `MCToySut` and `MCOddIndex` are the instances TLC checks.
**`ToyOracle`** composes the oracle with the three registered SUTs: each step of `CheckAll`
whose call the SUT's code answers that way, plus the SUT's own state.

**`Spellings`** has the byte-level conversions: `decode_key()`, `append_utf8()`,
`encode_key()`, `escape_pointer_token()`, `unescape_pointer_token()`, `split_pointer()`. A
loop that takes one or more bytes a turn is a function of the position it stands at (`Scan`),
so that the proofs can speak of it. A key is spelled by units, of which `UnitsAssumption` says
what the text parser lets through: a character as it is, an escape with a letter, or `\uXXXX`.

**`JsonText`** is text as a sequence of symbols (one character each, but a literal, the digits
of an escape, a huge exponent and the reference's tag are one symbol), the toy's parser as the
recursive descent it is, and both serializers. **`JsonGrammar`** is RFC 8259 as what a text is
made of, without positions: what the parser is compared with. **`ReferenceText`** is the tagger
(with `strtod()`'s overflow test on the token it cut out), `untag_numbers()`, the tag count and
`reference_parse()`, over nlohmann's parser and `dump()` as the code uses them (external).
**`Mutator`** has the sixteen operators; each yields the set of texts its random picks can give,
`Apply` adds the parse guard and `InPlace` the cut. **`Texts`** is the buffer: the fuzzer
inserts, overwrites and erases symbols, and `Mutate` rewrites it.

**`FuzzTarget`** is `run_readings()` and `LLVMFuzzerTestOneInput()` around `CheckAll`: the
four texts of an input one after another, each `check_all()` call by call on a fresh SUT, then
the counts, the trap, and `~ReachGuard` at the end. Like `CheckAll` it says nothing of the SUT
and nothing of the texts but `FuzzAssumption` (inputs and mutations are texts the oracle can be
run on), so that what it promises can be proved of every one. **`Cli`** is `main()`: the
options, pair by pair (`TakePair`), the verbs, the exit status, and `check`'s probe and
`check_all()` on one SUT. It too is stated on any SUT, any registry and any files
(`CliAssumption`). **`FrontEnds`** joins the two with a plain library call and gives each its
SUT: `ToysFuzzed` puts a fresh toy under every `check_text()` and `toy_accepts()`, `ToyCommand`
a registered SUT under `check`, which keeps what the probe left in it. What needs to know the
SUT (`StatusIsTheVerdict`) is stated there.

**`Generator`** turns `gen_value()`'s recursion into a stack, one step per JSON token and one
disjunct per byte-driven choice; bytes are cut to 8 bits exactly where the code does so.
**`IntentReading`** adds the SAX counter and `intent_matches_text()`; the count is a function of
how many tokens have been read, `CountsAfter`, so that the proofs can speak of it.

## The runs

| run | what it shows | bounds |
|---|---|---|
| `HonestSut` | `check_all()` against every SUT that keeps the contract: no false alarm, writes only where nothing is, every local in its type | 10 raw inputs (each kind of duplicate, lenient, re-spelt, commented, unmodellable and rejected text), 4 configurations, every set of capabilities |
| `Liar` | every law routine against a SUT that may lie or throw at every call: the verdict is the law's, nothing found is lost, a write starts from the canonical document, skipped is not evaluated, no throw passes but the blank one, every step uses something up, it returns, and it implements `Verdicts` | one document with two containers and one number twice, 5 answer texts, 6 pointer lists (empty, doubled, bogus); O1/O2, O3, O4, O5 alone and O6 before O7 |
| `FrontEnds` | the toy keeps the contract and runs every law; broken-comma is caught by O1 and broken-sibling by O3, and only by those; no input traps the fuzzer, the guard passes exactly when each law ran, `check` exits with the verdict of the file and SUT last asked for, unknown arguments are usage errors, what the probe accepted is checked, every program ends | 8 library inputs in every configuration, 2 of 3 fuzz inputs with up to 3 mutations a text, 2393 command lines, 4 files, ints of 4 bits |
| `ToyCalls` | the toy implements `PointerStore`; what it lists resolves; set then remove leaves no trace | 3 calls, 5 texts, 14 pointers of at most 2 tokens, indices of 4 bits (all 16 of them tokens), depth 3 |
| `Texts` | the toy's parser against the grammar, serializers against parser, tagger and untag against the document, each mutation operator against what it is for | 7 seeds, 15 symbols, 2 edits (a mutation last), nesting limit 2, `max_size` the size or 6 more |
| `Spellings` | keys decode to their Unicode text, written keys decode to themselves, pointers split back | 5 units and keys; code units at every boundary of UTF-8 and UTF-16 |
| `Intent` | the intent record agrees with the finished text in counts, depth and flags | depth at most 2, two members, one character |
| `SetWithoutRemove`, `BlankThrow`, `OddIndex`, `PickTraps`, `ShownNumber` | a disagreement each, see below | |

Why the bounds are enough: a law routine has no memory across pointers but `r` and `resolved`, so
two pointers in a list show every interaction between one and the next; O4 needs more containers
than `kSetRemoveParents` once (`Wide`, five) and a second parent after a failed first one
(`Plain`, two); each legal disagreement of the two readings is a document of its own. O6 compares
numbers as often as they occur, so `Plain` holds `1` twice and the SUT may answer a document with
one of them; and its duplicated-key scan may stop early, so `TwiceKeyed` (the texts that hold a
key twice) is kept apart from `Dups` (what the scan found): of `{"a":01,"a":1}` the scan sees no
duplicate, and a SUT may drop the second member. Three calls on the toy give set after set, remove
after set, and a rejected parse after both, in trees with a duplicated key and nested arrays. The
generator's counters are kept per container, so two levels with siblings show each of them. The
seeds of `Texts` hold every construct of the grammar once, and two edits reach a text with two
independent faults, or a mutation of an edited document; a limit of 2 is crossed by one more
bracket. Two fuzz inputs show what one leaves in the guard for the next, and with three kinds of
input the guard both passes and starves.

`CHECK_DEADLOCK FALSE` is set because all these systems stop: a check returns, a document is
finished, a bounded number of calls has been made.

**Fairness.** `Spec` of `CheckAll` assumes `WF_vars(Next)`: a SUT call returns or throws, and
the oracle runs on. That is a single thread of control; a SUT that hangs is outside the
oracle (the code sets no timer). `Terminates` and the liveness half of `ReportsVerdicts` need
no assumption on what the SUT answers. `FrontSpec` assumes the same of a whole program, whose
thread of control it is (`WF_frontvars(FrontNext)`), for `ProgramsEnd`, which carries
`Terminates` over to the three callers. `Verdicts` states
`WF_account(Report)` of its own step, which is what the refinement has to show.

## Disagreements found

Each is a run that must fail, on the quoted claim.

* `SetWithoutRemove`: `sut.hpp:76-77` promises that a SUT is skipped, never failed, for a
  capability it lacks. One that has `set()` and not `remove()` is failed by O4.
* `BlankThrow`: `jsonfuzz_oracle.cpp:22-24` promises that a throw never becomes a pass. In O1
  the throw of the second `serialize()` becomes the empty text; if the first was empty too,
  it passes.
* `OddIndex`: `get()` is nullopt for a pointer that does not resolve (`sut.hpp:72-73`). The
  toy resolves `/01`, and an index that wraps modulo the width of `size_t`.
* `PickTraps`: generation "never fails" (`generator.hpp:10, 74`). With `max_members = 255` it
  divides by zero.
* `ShownNumber`: `reference.hpp:36` and `oracle.cpp:284` promise the dump with each tagged
  number as its text. `untag_numbers()` searches the dump as text: a key that begins with the
  tag loses its quotes, and so does what follows an escaped quote inside a string. Only what a
  report prints is wrong; what O3 compares is not.

Smaller ones, which no run checks:

* `check_all()` records no reason when O1 and O2 are skipped (`oracle.hpp:161` says every law
  has one), and O2 counts as evaluated when `serialize()` threw and `pointers()` never ran
  (`oracle.hpp:156-157`).
* A throw of O6's reparse is a skip (`jsonfuzz_oracle.cpp:779`), where lines 193-197 promise a
  named violation for every throw after the input parse.
* `has_pointer_key` is not raised by a slash that `gen_string_body()` draws into a key
  (`generator.hpp:43`), nor `has_out_of_range_number` by the boundary number `1e309` (line 47).
* The guard passes although the text of a reading was never accepted: the reach flags are set
  whether or not it was (`jsonfuzz_readings.cpp:193, 203`); only the laws are counted.
* "invalid text stays invalid" (`jsonfuzz_reference.hpp:33`) fails for `1e309-`: `strtod()`
  reads the prefix, and the whole token goes into a string. `TaggingKeepsSyntax` excepts it.
* `BreakNumber`, `Unbalance` and `MismatchCloser` also hit digits and brackets inside strings,
  and then leave a document; `BreakersBreak` excepts it.
* `DuplicateSubtree` never yields a duplicated key (`TreeOpsYieldDocuments`), though
  `fuzz-oracle-reach.md:320-321` counts on one.
* `gen --bytes -1` aborts with an uncaught exception; `write_intent()` to a file that cannot be
  opened exits with 0; a flag hides what follows it (`--list-suts --bogus` exits with 0, where
  `jsonfuzz_cli.cpp:24` wants the CLI to fail on anything it does not document).

## What is proved

The theorems about the oracle, the fuzz target and the command line (`CheckAll_proofs`,
`NoFalseAlarm_proofs`, `Laws_proofs`, `FrontEnds_proofs`) hold for every value of the constants:
every set of texts, values and pointers, every input and configuration, every plan of oracle
calls, any number of pointers in a list and of modes, every command line. Those about the
generator (`Generator_proofs`) hold for every byte stream and every option, those about keys and
pointers (`Spellings_proofs`) for keys of any length spelled in any way, those about the toy
(`ToySut_proofs`, `ToyStore_proofs`) for documents of any size and depth, any pointers, any
values and any number of calls.

* **`TypeCorrect`**, `Spec => []TypeOK`, against a SUT that answers anything. `TypeOK` alone is
  not inductive: a type says that `canonical` is a text or nothing, and `O4Restore` parses it.
  `TypeInv` adds `LocalsReady`: where a local is used, it has been assigned (a text to compare
  with, a parent to write under). There is one lemma per routine, one step per action.
  Assumptions used: `ConstantTypes`, `Sentinels`, `PlansAssumption`.

* **`NeverBlamesHonest`**, `Spec => []NoFalseAlarm`. No law blames a SUT that keeps the contract
  and offers `remove()` whenever it offers `set()`. Nothing in `NoFalseAlarm` says why a
  comparison comes out right, so the inductive invariant `AlarmInv` does, in four parts: `Clean`
  (nothing blamed so far), `Collected` (what a routine has gathered from earlier calls is what the
  contract says of the input's document: every pointer resolves, every text of phase A is
  accepted, every parent is one both readings agree on, every captured mode is that mode's text),
  `Here` (what the step at hand relies on: the input was accepted, `canonical` is the document's
  text, the SUT still holds the document or, between `set()` and `remove()`, the document and the
  one fresh child; `restore()` is never entered) and `Promise` (the number tokens survive if the
  SUT says so). The steps that carry the proof are O2's phase B, which replaces the model but only
  with parts of an accepted text (`StrictnessInherited`); O3's comparison away from duplicated
  keys (`ReferenceAgrees`); O4's write, absent before (`FreshIsAddable`, `AddableIsAbsent`), read
  back (`SetValuesReadable`) and gone after; O6's skips, after which the input holds no duplicated
  key (`ScanFinds`: a complete scan finds the ones there are); and the reparses of O1, O5, O6
  (`RoundTrips`). These assumptions on the constants are what two correct readings of JSON agree
  on; TLC checks them on the trees of `MCCheckAll`. The hypothesis on `remove()` cannot be
  dropped: `SetWithoutRemove` is the counterexample.

* **`HonestWritesAreFresh`**, `Spec => [](WritePathWhole => WritesAreFresh)`, follows from the
  same invariant: at a write, `Here` has the SUT on the input's document, `Collected` has the
  parent one both readings agree on, and `FreshIsAddable` does the rest (`AlarmFresh`).

* **`SkippedNeverEvaluated`**, `Spec => []SkippedIsNotEvaluated`, and **`FindingsKept`**,
  `Spec => FindingsStay`, against a SUT that answers anything. The invariant `SkipInv` adds when
  a routine may still be skipped (`CanSkip`): never in `check_v01()`, otherwise only at steps
  where its law is not evaluated yet, and a reason is given on the way out only. The one
  exception is O4, whose `set()` may answer Unsupported after an earlier parent was written; it
  takes the evaluation back (`O4Set`), and a mutant that does not breaks the property.

* **`OracleKeepsItsPromise`**, `Spec => Verdict!VerdictSteps`: the initial state maps to an
  initial state of `Verdicts`, and every step to `Report` or a stutter. Only `Add` changes the
  mapped variables; that it is a `Report` needs the invariant `OwnLaws`: what a routine has
  found blames only the laws it speaks for. With TLC's `ReportsVerdicts` this is the whole
  refinement: the safety half for every instance, the liveness half on the run's.

* **`WritesStartKnown`**, `Spec => []WritesStartFromCanonical`, against a SUT that answers
  anything. The property looks back over the call log, so the invariant `SpeltInv` says, at each
  step of O4 before a write, what the log already ends with: a `serialize()` that answered
  `canonical`, and no write after it. Only three steps establish it (the first `serialize()`, the
  one after a `remove()` that compares equal, the one after a restore); `pointers()` keeps it.

* **`VerdictCorrect`**, `Spec => []VerdictMatchesLaw`, against a SUT that answers anything: a law
  that ran is blamed exactly when the calls made break it as `Laws` words it. `Laws` reads the
  log and nothing else, the routines read their locals and never the log, so the invariant
  `LawInv` relates the two at every step, one part per routine (`V01Law`, `O3Law`, .. `O7Law`).
  Each says the same three things. *Blamed:* when a law is in `r.violations`, a call in the log
  fails it already (`O1Failed`, `O2Failed`, ...), and no later call can mend that. *Unblamed:*
  the calls stand where the statement looks for them (the list of pointers is answer 4 or 5,
  the three calls of mode m are at `ModeAt(m)` and after, between a write and its reparse O4
  makes the calls `Wrote` counts). *So far:* what is already settled has come out right: each
  pointer before the one at hand (`O2PhaseA`, `O2PhaseB`, `O3Walked`), each parent (`O4Between`,
  `O4Amid`), each mode (`Checked`). At a routine's end all of it is settled, and the two
  directions of the property are the first and the last of these. The value O4 writes is chosen
  by counting the writes, so its part needs `Cardinality` of the sets seen in the log.

* **`OnlyOneThrowPasses`**, `Spec => []OnlyBlankThrowPasses`, against a SUT that answers
  anything: when a routine ends, a call after the input parse that threw has left a violation,
  or its law is not reported as evaluated, or it is the throw of `BlankThrow`. So that run's
  disagreement is the only one of its kind: lines 193-197 of `jsonfuzz_oracle.cpp` hold
  everywhere else but in O6, which takes its law back. The invariant `ThrowInv` says at every
  step in a loop that a throw has been heard (`ThrowSeen`), and before the input is parsed that
  no call could have thrown after it. It leans on `LawInv` (the one throw that passes is the one
  at O1's second `serialize()`; `O4Restore` is only entered with a violation in hand) and on
  `SkipInv` (a violation is never lost on the way).

* **`CallsRunOut`**, `Spec => EveryStepSpends`, against a SUT that answers anything. Every step
  of `check_all()` makes `Left` smaller, four natural numbers compared in order: the routines
  to come, the stages of the routine, the rounds of its loop (pointers, parents, modes), and the
  calls of a round. No answer is used to bound it but the length of the list a SUT once gave, so
  a call of `check_all()` takes finitely many steps whatever a SUT does. What remains of
  `Terminates` is fairness alone: that a step is taken while there is one. The invariant
  `RoundsCounted` keeps O5's index within the modes captured.

* The fuzz target, on any SUT, for any inputs, mutations and number of them.
  **`ExitMeansEveryLawRan`**, `FuzzSpec => []GuardCountsLaws`: the guard at exit passes exactly
  when every law ran on some text. `GuardInv` keeps the two accounts side by side: the laws some
  call evaluated are those counted, those in the result of the input at hand, and those of the
  call that has just ended. **`EveryCallKeepsItsWord`**, `FuzzSpec => [](NoFalseAlarm /\
  SkippedIsNotEvaluated)`: the state a `check_text()` starts in is an initial state of
  `CheckAll`, so the invariants of the oracle (`CallInv`) hold all through a campaign.
  **`HonestNeverTraps`**: on SUTs that keep the contract (`[]HonestSuts`) and with a generator
  whose texts the reference parses (`GeneratedParse`), no input traps; `CleanInput` is carried
  from text to text. **`AcceptedMeansEvaluated`**: on such SUTs, whose separate fresh SUT says
  of a text what the checked one would (`FreshSutHonest`), a primary text that is accepted was
  evaluated by O1 and O2. `PairInv` holds which of the four texts are done, in order
  (`TextsInOrder`), and that a call which parsed its input will evaluate both (`PairRuns`).
  The hypotheses are what a campaign on the toy satisfies: `FrontEnds` runs it, and its
  invariants `NeverTraps` and `AcceptedIsEvaluated` are checked there without them.

* The command line, on any SUT, for any registry, files and lines of any length.
  **`StatusSaysWhatHappened`**, `CliSpec => []StatusIsTheReport`, and **`UnknownFails`**,
  `CliSpec => []UnknownIsUsageError`. The code reads the options in a loop that stops at the
  first bad one; the properties read them off the line at once. That the two agree is an
  induction over the pairs (`OptionsLoop`): after n turns the loop is still going exactly when
  the first n names are known, and then holds for each the value behind its last place. The
  rest is the order of the early returns, and that a status is only given once the routine
  under way has reported (`CliInv`, beside the oracle's own `CallInv`, which holds through the
  check as `Probe` starts it in an initial state of `CheckAll`). **`HonestNeverFails`**: no line
  exits with 1 on a SUT that kept the contract and has `remove()` if it has `set()`.
  **`ProbedMeansChecked`**: on a SUT that keeps the contract, and whose probe did (a call made
  before the check, so that its answer is a hypothesis of its own, `HonestProbe`), an accepted
  file is evaluated by O1 and O2, and by O7 where it is strict JSON; `StrictRuns` says how far
  O7 has come at each step. The run has the same without hypotheses, on the registered SUTs,
  whose probe is their own `parse()` on the state it leaves behind.

* Keys and pointers. **`EveryKeyIsUnicode`**, `Spec => []KeysAreUnicode`, for every key spelled
  in units the parser lets through: `decode_key()` of the spelling is the UTF-8 of its code
  points, `\u` pairs joined and lone halves kept. **`EveryWrittenKeyDecodes`**, `Spec =>
  []WrittenKeysDecode`, and **`EveryPointerSplitsBack`**, `Spec => []PointersSplitBack`: what
  `set()` writes is the key `get()` looks up, and a listed pointer splits into its keys. The
  loops are recursive functions over positions whose equation has first to be established
  (there is one such function on every initial segment, hence one). The argument is then the
  same for each: the loop over `head \o rest` from the start emits what it does for `head`,
  and goes on as it would over `rest`. One unit, one byte or one token at a time this gives
  the equation over the whole, by induction on its length. The conversion of a single unit is
  arithmetic: four hex digits, and the six-bit groups of UTF-8 by the range of the code point.
  `KeysAreSpelled` is the invariant that the keys are made of units. Assumption used:
  `UnitsAssumption`.

* **`SetThenRemoveLeavesNoTrace`**, `Spec => []SetThenRemove` of `ToySut`: what O4 asks of the
  toy at the parents it tries holds at every pointer of every document any sequence of calls
  builds. The invariant is `HoldsDocument`: the tree held is a document, that is, at every level
  below the root there are nodes only (a scalar, an array keyed by its indices, an object). The
  proof follows a write: the walk to the parent (`WalkIsPath`), the change in it (`Put`, `Drop`),
  and the way back (`Rebuilt`): at each level the node on the path gets its new child and keeps
  everything else (`WithChildReads`), so that the same walk in the new document reaches the new
  parent (`RebuiltDocument`), and replacing that by the old one gives the old document
  (`RebuiltBack`). In the parent itself, a member that was appended is the one found
  (`AddedIsFound`) and taken away again (`AppendedThenRemoved`). Assumptions used:
  `PathsAssumption` (a key written by `set()` reads back as it was meant, which is
  `EveryWrittenKeyDecodes`), `TextsAssumption` (what the parser takes is a document),
  `DigitsAssumption`, `Widths`. The attempt found a fault in the model: `PutElement` was a CASE
  whose arms overlapped for the token `-`, and which arm such a CASE takes is anybody's choice in
  TLA+, where TLC takes the first. It says `IF` now, and so does the like of it in `Texts`.

* **`ToyKeepsPointers`**, `Spec => KeepsPointers` of `ToyStore`: the toy implements
  `PointerStore`, a refinement proved step by step. The mapping is `NodesOf`, which lists the
  document level by level; its first lemma (`NodesAre`) says that it lists exactly the pointers
  that lead somewhere, each with what is there. Every step is then about single pointers, `At(v, T)`
  being the node to which T leads from v:
  - `set()` (`SetIsTheStores`) succeeds exactly where the store's `Settable` holds; off its target
    every pointer leads where it led before (`OffRebuilt`), and at and below the target it leads
    where the value's own pointers lead (`OnTarget`, `GraftIs`). The target of `-` is the element
    after the last.
  - `remove()` (`RemoveIsTheStores`) succeeds exactly where something resolves. From an array it
    closes the gap: the pointers through later elements are those of the store's `Moved`, one
    token smaller at the array's level (`ClosingFollows`, `ClosingFollowed`, `ElementGoneIs`).
    From an object it leaves everything off the pointer as it was (`OffLost`); below the pointer a
    second member of the same key may appear, which the store allows.

  The invariant is `InRoom`: a document held is no deeper than `Depth` and its arrays leave room
  for the calls that are left (`Fits`, `Room`), so that no element's index wraps and `NodesOf`
  looks deep enough. Each write spends one call and lengthens at most one array by one. Assumptions
  used: `IndexAssumption` (an index is written in one way, and `-` is no index), `SizesAssumption`
  (the arrays a run builds fit `std::size_t`), `PathsAssumption` (what does not parse as a
  pointer is no sequence of tokens either), `TextsAssumption`, `DigitsAssumption`, `Widths`.

* **`RecursionBounded`**, `Spec => []DepthBounded` of `Generator`, for every byte stream and
  every option, negative ones included: no container is opened below `max_depth`, and no depth
  beyond it is recorded. The one step to look at is `Open` (`OpenBounded`): at the limit
  `pick_kind()` chooses among scalars only. `DepthBounded` is the first part of `DepthKept`.

* **`IntentIsTheText`**, `Spec => []IntentAgrees`, and **`DepthIsTheText`**, `Spec =>
  []DepthKept`: reading 3 never blames a document the reference can read, and the depth on
  record is the depth of the text. `IntentAgrees` speaks of a finished document only, so the
  invariant `IntentInv` says how far apart the two accounts may be on the way (`CountsAgree`).
  The generator counts a container when it closes and a SAX reader when it opens: they differ by
  the containers of that kind that are open. It counts an object's or array's members when it
  closes and the reader as they come: they differ by the members written in the open ones, and
  by those begun in them and not finished (`Started`), one in each but the topmost, and there
  too once an object's key is out. Both differences are
  totals over the stack, given by their partial sums (`HasTotal`), and vanish with it. `Placed`
  says what a container may look like at each `pc` and, in passing, why `pick()` in
  `DuplicateKey` cannot trap: an object keeps fewer keys than it has members, and those fit a
  byte. How the count continues with one more token would be an induction; instead the invariant
  carries that `CountsAfter` is the only function with its equation on the text so far
  (`OnlyReading`), and each token extends it (`OneMoreRead`). Assumptions used:
  `OptionsAssumption`, `BytesAssumption`.

* **`FlagsAreTheText`**, `Spec => []FlagsAreEarned`: a flag of the record is earned by the text.
  A repeated key is one of those `used` in the object that is open; that it was written *there*,
  not in a nested object or an earlier sibling, needs the history the stack has forgotten. The
  invariant `FlagsInv` says it (`KeysKept`): each key kept at depth d is a token of the text
  after which the depth is d and has not been less since (`WrittenKey`). Opening, closing and
  writing members keep that for the containers that stay (`KeysStay`), whence the repetition is
  a duplicate in the sense of the text (`DuplicateIsWritten`). A repeated lone surrogate raises
  no flag of its own, and needs none: its first copy did.

## What is only model-checked

Liveness (`Terminates`, `ProgramsEnd`, the fairness half of `ReportsVerdicts`): the prover does
no ENABLED. (That `check_all()` has no infinite run is proved, `CallsRunOut`.) Everything about
trees and texts as such: `EnumeratedResolve` and the invariants of `Texts`. They recurse over
trees and over the text under the parser with RECURSIVE operators, in whose modules the prover
has no arithmetic; and the induction theorems of the library take an operator as their parameter,
which the provers cannot give. (Where a loop could be written as a recursive function of a
number, in `Spellings`, `Cli`, `IntentReading`, `ToyTree` and `ToyStore`, induction over a *set*
of numbers does the work.) That the *toy* keeps the contract and exercises every law, and the
broken SUTs do not (`ToyIsHonest`, `EveryLawExercised`, `BrokenAreCaught`, `StatusIsTheVerdict`),
and with it that a campaign on the toy meets the hypotheses of `HonestNeverTraps`, is therefore
checked on the documents of `FrontEnds`.

## Not modelled

* nlohmann's parser beyond what the code uses of it: a map that keeps the last duplicate, a
  refusal of lone surrogates, of bytes that are no UTF-8 and of numbers a double cannot hold, no
  depth limit, a dump that spells strings and numbers anew. The order of keys in its map is not
  observed, so the members keep the order of the text.
* Wording of messages, printing, the intent file and the seeded bytes of `gen`: formatting and
  file output. `GenStatus` does model how its options end the program.
* The registry's map from names to factories: filled once at load, then only read.
* Texts of `Mutate` with the reference's tag in them (one symbol of many characters, some of
  which the scans would see), and a tag written with partly escaped letters other than the one
  alternative spelling.
* The version string; the build, gate and release scripts: shell around compilers and git.

## The plan

All of it is done: the contract, the oracle and the laws; the toy, its store of pointers, the
broken SUTs and their composition with the oracle; key and pointer conversions; the generator
with reading 3; the readings, the fuzz target and the CLI as one composition; the text parser,
the serializers, the number tagger and the mutator; the abstract specification of a report; the
theorems above. What is left would take another prover or another model: the parser and the
serializers for texts of any length, and with them the toy's own honesty towards the oracle.
