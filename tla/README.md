# VCL-total in TLA+

A verification project for VCL-total (repository vql-ut): TLA+ models of its core, TLC
configurations that check them on small instances, and TLAPS proofs of what matters most.

File names below are relative to `src/`. Line numbers are in `PROJECT.json`, which maps every
definition to the code it models.

## The system

VCL-total is a query language for VeriSimDB with eleven safety levels, 0 to 10. A query is
parsed, checked level by level, and reported at the highest level it reaches. A C library keeps
the queries that a host program has under way. Around this core stand the Rust programs and
libraries of `src/interface`: two servers that editors start, a formatter, a linter, and the client
of a proof server.

| Part | Code | State | Operations | Interacts with |
|---|---|---|---|---|
| Query context pool | `src/interface/ffi/src/main.zig` | 256 slots (active, stage, mode, achieved level), a mutex, a thread-local error message | `vqlut_parse`, four stage functions, `vqlut_get_safety_level`, `vqlut_destroy`, `vqlut_last_error` | host threads, through handles |
| Grammar, schema, checker | `src/core/{Grammar,Schema,Checker}.idr` | the pipeline's accumulator | `checkLevel0` .. `checkLevel10`, `runPipeline`, `checkQuery` | parser (statements), schema |
| Proof predicates | `src/core/Levels.idr` | none | certificate types | checker, composition |
| Composition | `src/core/Composition.idr` | none | `composeJoin`, the proof that it preserves certificates | proof predicates |
| Epistemic semantics | `src/core/Epistemic.idr` | Kripke frames | `satisfies`, knowledge transfer | level 10 |
| Parser and bridge | `src/bridges/*.res` | token position, clause variables | `tokenize`, `parse`, `checkQuery`, `quickLevel` | checker (statements), TypeLL (JSON) |
| Idris ABI | `src/interface/abi/*.idr` | none | decoders, wrappers of the C functions | the pool |
| Verification shim | `ffi/zig/src/lib.zig` | an error buffer | `vclut_init`, `vclut_verify_query`, `vclut_last_error` | host |
| ECHIDNA client | `src/interface/echidna-client` | none of its own; the sessions are the server's | submit, poll, tactics, cancel, export, import, provers, health | an HTTP server, for tasks that share the client |
| Debug adapter | `src/interface/dap` | a listener; per connection a thread, a stream, a sequence counter | `dispatch_request`, `execute_vql_query`, `handle_client` | editors, over TCP |
| Language server | `src/interface/lsp` | main thread, reader and writer threads, two channels; a schema and a URL in the library | handshake, `main_loop`, handlers, `connect_verisimdb`, `fetch_schema` | one editor, over stdio |
| Formatter | `src/interface/fmt` | the input or output file | `format_vqlut`, size check, read, write | the file system, editors, other runs |
| Linter | `src/interface/lint` | none | `lint_vqlut`, size check, read | the file system, the formatter |

Where it is hard:

- **Concurrency.** The pool's mutex guards the search for a slot, its lookup and its reset. The
  stage functions test and store through the pointer that the lookup returned, after the mutex
  is released. Handles are reused.
- **Divergent traversals.** The checker, the null-guard search and the proof predicates each walk
  an expression in their own way, and a statement must not pass one and fall outside another.
- **Chains of joins.** Each clause is combined by a rule of its own; a level must survive all of them
  in any order.
- **Connections.** Editors write ahead of the answers, stop in the middle, or vanish; one malformed
  line, one bad parameter or one connection too many ends more than itself.
- **Three threads of a language server.** The loop hands over to the writer without a buffer and
  ends by joining it; an exit may overtake an answer.
- **Remote sessions.** Calls have no timeout and no retry; requests and responses are late, lost, or
  do not decode, and callers drop calls whose requests are still on their way.
- **Files in place.** The formatter empties the file it formats and writes it in pieces, between
  other programs that read and save it, and may die at any step.

What makes each part correct: a query's stage and level are those its own calls earned, and every
call takes effect at once (pool); the level reported is exactly the one the statement stands at
(checker); what is checked is provable (certificates); joins loosen nothing (composition). Every
request a server can answer is answered once and in order, and an ending has a reason (servers); a
result says what became of the call (client); no text is lost by formatting, and an issue is about
the text its author wrote (formatter, linter).

## The modules

| Module | Models | Notes |
|---|---|---|
| `ContextPool` | the pool | variables `pool`, `call`, `ret` and the history `done` |
| `QueryLifecycle` | nothing in the code: the abstract table of queries the pool promises | one atomic step per call |
| `PoolRefinement` | the mapping from the one to the other | `LifecycleImplemented` |
| `ContextPoolProofs` | - | nine theorems, the refinement among them |
| `SafetyLevels` | statements, schema, the level checks | operators only |
| `SafetyCertificates` | inhabitation of the certificate types | operators only |
| `SafetyPipeline` | `runPipeline` and `checkQuery` | one step per unfolding |
| `QueryComposition` | `composeJoin` applied repeatedly | variables `query` and the history `joined` |
| `QueryCompositionProofs` | - | six theorems |
| `SafetyPipelineProofs` | - | three theorems on top of the invariant `Accounted` |
| `RequestServer` | nothing in the code: what a server of requests promises | asked, told, open; replies in order, none skipped but the optional |
| `RequestServerProofs` | - | what the readers of any such server can rely on |
| `DebugAdapter` | `dap/src/lib.rs`, `dap/src/main.rs` | implements `RequestServer` (`AdapterImplements`) |
| `DebugAdapterProofs` | - | five theorems, the refinement among them |
| `VqlutLsp` | `lsp/src/lib.rs` | handlers as operators; a program that embeds the library |
| `LanguageServer` | `lsp/src/main.rs` on the crate `lsp-server` | implements `RequestServer` (`LspImplements`) |
| `LanguageServerProofs` | - | six theorems, the refinement among them |
| `ProofClient` | `echidna-client/src/lib.rs` | the server and the network are external |
| `ProofClientProofs` | - | five theorems on top of the invariants `ClientInv` and `OnceInv` |
| `SourceLines` | `format_vqlut` and `lint_vqlut` | operators only |
| `SourceTools` | the main functions of `fmt` and `lint` | beside an editor that saves |
| `SourceToolsProofs` | - | three theorems about the two functions, five on top of the invariant `ToolsInv` |
| `MCContextPool`, `MCStatements`, `MCSafetyPipeline`, `MCQueryComposition`, `MCEditorServers`, `MCProofClient`, `MCSourceTools` | - | finite universes for TLC |

### The pool

`allocSlot`, `getContext` and `freeSlot` are single steps because they hold the mutex throughout.
Everything else a call does is split: `Lookup` is `getContext`; `ReadField` and `StageAccepted` or
`StageRefused` are the reads of `stage` (and of `mode` in `vqlut_compile`); `WriteField` and
`WriteLast` are the stores. The stores of one call take effect in any order, since nothing in the
code orders them for another thread. A data race is thereby a choice among the orders of whole
fields; each field is one small enumeration, so a torn field is not considered. `vqlut_parse`
takes its slot (`ParseAlloc`), looks it up a second time (`ParseConfigure`, or `ParseLost` when
it was destroyed in between) and stores three fields.

`ret` keeps the last result and the thread-local message together, which is what a caller sees
between two calls. `done` and the mark `orphan` of a call are history: which stage functions
returned ok for the slot's present query, and whether the slot was destroyed under the call.
Neither is read by any guard. The plan buffer is never assigned, and is left out.

The host is modelled in three ways: it calls anything at any time (`Next`), it serialises the
calls on each handle (`SerialNext`), or its threads share a handle and destroy it only when no
call uses it (`SharedNext`). The code asks for none of these in words; `main.zig` says
"Thread-safe", so `SharedNext` is what a reader would take for allowed.

### The checker

An expression is represented by what the checker's five traversals return for it, so each
constructor of `Expr` becomes an operator that combines those five results. That is exact, because
each traversal is a structural recursion, and it keeps recursion out of the modules that have
proofs. Lists that are only searched are sets; `Maybe` is a set of at most one element. Dropped:
OFFSET, PROOF and `requestedLevel`, which no check reads, and the wording of diagnostics (their
number is kept). Types other than the numeric, string and Boolean ones collapse into "bytes" (equal
to itself only) and "record" (equal to nothing, as `vqlTypeEq` has no case for it).

`Provable(k, s)` says that the level's predicate in `Levels.idr` has an inhabitant for `s`.
Levels 3, 4 and 5 are inhabited for every statement, and `CompareSafe` leaves its types free, so
level 2 fails only for a WHERE whose top node has no constructor.

### Composition

`Join(part)` is `composeJoin` with the `Composable` precondition as its guard. The model joins
further parts to the result without end, and keeps the set of parts. `PreservedAt` speaks of one
check at a time: stated of a level with all levels below it, the null guards of level 3 would never
be put to the test, since a comparison with NULL fails level 2 (see `checker_untyped`).

### The debug adapter

One step of `Respond` is one turn of the loop in `handle_client`: read a line, count it, dispatch
it, write the response. The loop is sequential and nobody shares the connection, so nothing can
come between. `conn` says where a connection stands and how its handler ended; `sent` is all the
editor wrote, `taken` how much of it the handler has read, so what the kernel and the `BufReader`
hold is the difference. An editor may close its sending half (`finished`) or vanish (`gone`); only
then may a read or a write fail. One that vanished while it waited may never be accepted
(`AcceptFails`): the listener logs the error and goes on. `thread::spawn` panics in the main thread when the system grants no
thread (`SpawnPanics`), and every session ends with the process; a `try_clone` that gets no
descriptor ends its handler only (`NoStream`). A query is the set of the six words
`execute_vql_query` looks for, and a JSON body is its outermost key.

### The language server

`main_loop` runs on the transport of the crate `lsp-server` 0.7, which is not in the repository: the
handshake, the wait for an exit after a shutdown, the reader and writer threads and their
rendezvous channels are modelled as `main.rs` uses them, and marked external. `giving` is what main
holds out to the writer, `hand` what the writer has taken and not yet written. `Panic` stands for the
`expect` on a cast that does not decode, and `Join` for `io_threads.join()` behind the loop: main
still owns the connection there, so the writer never ends and the process stays, unless the writer
has failed already. Ranges are computed on u32; `add_u32` wraps, or stops the thread in a build that
checks (`OverflowChecks`). Texts of hovers and details of completion items are left out.

`VqlutLsp` adds the library's own state, which `main.rs` leaves at its initial value but a program
that embeds the library does not: the URL, and the schema with its public field.

### The proof client

A call is one request, its way, and one result: `Call`, then a step of the server, then `Response`
or `NoResponse`. The latter is a failed `send().await` and also a caller that drops the future: the
task then knows as little, and the request may still arrive. Nothing orders messages: the wire and
the answers are sets. What is lost stays on its way for good, which any later step may ignore. A body
that does not decode is an Http error; `cancel_proof` reads none. `ok_or_err` is the code's mapping
of status codes. `Calls` has all ten methods. The server (external) keeps sessions that move from
pending over in progress to a verdict, drops deleted ones, and may answer any request with 500,
before or after it has acted, and any with a 4xx that is not 404 (`Malformed`), without acting. A
tactic may also be answered with 200 and `success` false, which `apply_tactic` returns as `Ok`: it did
not apply. So `ResultsTellTheTruth` does not say that a success took effect. It says that a success
whose answer says so did (`SaysDone`), and that every other success, a rejection and a session not
found did nothing and will not. That a 4xx and `success` false mean no effect is assumed of the
server, by what the client's own types and comments say of it; that results keep what the server
answered, call by call, through lost, late and undecodable messages, is what the run and the proof
show. `NotFoundIsGone` ties a session not found to the server's table, and to the later calls of the
same task, whichever method makes them.

### The formatter and the linter

A line is its core between two margins, and a core a sequence of tokens; that is all the two
functions look at: trimming, prefixes, words between spaces, the last character. Keywords inside
longer words are not represented. `SourceTools` runs the two main functions on one file: look at the
size, read, print or write. `fs::read_to_string` is `OpenInput`, then `ReadSome`, which takes whole
lines from where the program stands in whatever the file has become, then `EndRead`, at the end of
the file as it is at that moment; a reading may thus be torn by any write. `fs::write` is `Open`, which truncates, and then `WriteSome`, which puts
whole lines at the offset of the program's own descriptor, over whatever the file has become; a line
is the unit, so a break inside a line is not considered. `Dies` may come at any step. Two histories
say what the properties excuse. `harmed`: a write to the input was cut off, overlapped, or made from an
input that had changed since its reading began. `meddled`: the steps - between check and opening, while
reading, after it - at which a program stood when others wrote to the input. A text torn by a write,
and a file that grew behind the check, are explored and excused; the code does nothing against either.

## The runs

| Run | Checks | Shows |
|---|---|---|
| `pool_serial` | `StageEarned`, `PointersStayValid`, `LifecycleImplemented` | serialised calls on each handle behave atomically, also across slots |
| `pool_free` | `TypeOK`, `ParsesGetDistinctSlots`, `LastErrorIsOwn`, `ActiveOnlyUnderLock`, `CallsAdvance`, `CallsReturn` | what survives any host whatever |
| `pool_race` (violated) | `StageEarned` | sharing a live handle breaks the link between stage and level |
| `pool_level` (violated) | `LevelRises` | compiling lowers "the highest level achieved so far" |
| `checker` | `TypeOK`, `HighestLevelReported`, `CheckedHasCertificate` | the report is exact, and provable |
| `checker_untyped` (violated) | `TypeErrorsAreClashes` | annotations left at `TAny` fail level 2 |
| `composition` | `TypeOK`, `ChecksPreserved`, `CertificatesPreserved`, `BoundsTighten`, `ClausesCombine`, `CirclesSpanParts` | joins preserve levels and bounds, combine the clauses that do combine, and lose level 10 in one way only |
| `composition_epistemic` (violated) | `AllLevelsPreserved` | level 10 is not preserved |
| `composition_effects` (violated) | `EffectsUnited` | effects are not united |
| `editor_servers` | `AdapterTypeOK`, `RepliesNumbered`, `EndingsExplained`, `LinesAnswered`, `AdapterImplements`; `LspTypeOK`, `CleanExit`, `RangesForward`, `RequestsAnswered`, `LoopEnds`, `LspImplements`; `SchemaAccounted` | the two servers answer what editors send, in order and once, and end for a reason; the library's schema follows its calls |
| `proof_client` | `ClientTypeOK`, `ResultsTellTheTruth`, `NotFoundIsGone`, `OncePerCall`, `StatusesMoveOn` | what results tell tasks of the server's sessions is true, however messages fare |
| `source_tools` | `ToolsTypeOK`, `TextSurvives`, `ReportsTheAuthors`, `CopyWhole`, `ReadsGuarded` | when formatting in place keeps the author's text, and whose text the linter speaks of |

Bounds, and why they are enough:

- `pool_serial`: two threads, two slots, two modes. Two slots are needed for a call on one query to
  disturb the other, and for a handle to be reused while the other stays in use; two modes whose
  compiled levels differ tell a lost mode from a kept one. Threads are symmetric; no fairness and
  no liveness is involved.
- `pool_free`: two threads, one slot, one mode. With one slot every call meets every other on the
  same context, and the pool is exhausted after one parse. `Handles` adds 0 and one handle past
  the end. The proofs cover all other sizes.
- `checker`: five fields of the ECHIDNA schema (two strings, one of them nullable, an integer, a
  float and one that does not resolve), 60 comparisons and eight composite conditions, five result
  lists, three HAVING clauses and twelve tails of clauses, so each of the ten levels that can fail
  is the first to fail somewhere and some statements pass all.
- `composition`: nine parts. Every pair of kinds that a joining rule tells apart occurs, and a part
  over another source shows the precondition.
- `editor_servers`: the three parts share nothing, so each is explored while the others rest. Two
  connections, one handler thread (the second connection finds none), two lines each, out of three: a
  known command, an unknown one, garbage. Scripts of the language server: every handshake of two
  messages, and behind a good handshake every sequence of three out of eight messages, which is
  long enough for an answer to be held in each of the two channels while a third message comes.
  `U32` is 16 and one position is 15, so a range of ten wraps; `OverflowChecks` is FALSE, since the
  other value only turns a wrap into a panic, which `Panic` has already. Four calls of the library: a
  URL, a fetch, an insertion and one more in every order.
- `proof_client`: two tasks (symmetric), three calls, one session both know from before. Three calls
  are a poll, a change by the other task, and a poll. `MCAsked` has the submission, the poll, the
  cancellation and the tactic. The other methods change nothing at the server and are answered as a
  poll is, or without naming a session, so they would add states and no behaviour; the
  proofs, which are for any calls, include them. One verdict is enough, since the model has "success" and "deleted" as
  other ends.
- `source_tools`: two formatters (symmetric), as of an editor that formats on save, one linter, one
  save, two contents of two lines in which the linter's checks depend on the margins. Two lines are
  enough for a reading and a write to be in the middle at once. `MAX_FILE_BYTES` is 17 with tokens of
  one byte each: both contents are within the limit, and formatting takes one of them a single byte
  beyond it. The proofs cover every other instance.

The violated runs each check one property that restates a sentence of the code's own
documentation; `PROJECT.json` quotes it under `findings`. Of these only `pool_race` is a bug of the
code under any reading of the document; the others are disagreements of a text with the code.

Fairness: `FairSpec` assumes weak fairness of a thread's steps inside a call. A call holds
`pool_mutex` for one bounded scan, waits for nothing else, and a running thread keeps running. A
host is not assumed to make calls. `CallsReturn` is checked under this.

`editor_servers` assumes weak fairness of the adapter's listener (`accept` returns while a connection
waits) and of each handler, and of main and the writer of the language server: they are threads that
run whenever they have input. That is an assumption about the system and the editors too: `accept`
succeeds in the end for a connection that waits and was not reset, and a write does not block for
good, so an editor that is there reads what it is sent. Editors are not assumed to write, to finish
or to stay; `LinesAnswered`, `RequestsAnswered` and `LoopEnds` excuse what an editor that is gone
prevents. `proof_client` has no liveness: a call without
a timeout need not end.

Deadlock is checked in the runs of the pool and of composition. A finished pipeline has no step, and
neither has a server that ended, a client whose calls are used up, or a program that is done.

## What is proved

`ContextPoolProofs`, for any set of threads, any pool size and any set of modes:

- `TypeCorrect`: `TypeOK` holds of `Spec`.
- `LastErrorTheorem`, `ActiveTheorem`, `DistinctSlotsTheorem`: the three other safety properties of
  the run `pool_free`, under an arbitrary host. The last two rest on `CallShape`: which slot and
  which fields a call may still touch in each phase.
- `StageEarnedTheorem` and `PointersTheorem`, of `SerialSpec`. `StageEarned` speaks of slots at
  rest, so it is not inductive: nothing in it says what a call under way leaves behind. It is
  strengthened by `PointersStayValid` (one call per slot) and `CallsCoherent` (what a call has read
  still holds, and what it has yet to store is as it was). The proof takes the actions one by one.
- `LifecycleTheorem`: `SerialSpec` implements `QueryLifecycle`. Every step of the pool is shown to be
  one operation of the table or a stutter. The refinement mapping chooses a thread that works on a slot;
  since there is one such thread at most (`PointersStayValid`), a slot can be seen through its one call
  (`SeenBy`), and a step changes only what that call's slot stands for. A stage function takes effect
  at its last store: until then the slot stands for the query at the stage the call has read.
- `CallsAdvanceTheorem`: each step of a call lowers `StepsLeft`, of four at most, and the steps of
  others never raise it, whatever the host does. This is the part of `CallsReturn` that is safety: a
  call waits for nobody and tries nothing twice, so it returns as soon as its own thread keeps running.
- `LevelTheorem`: with serialised calls the level of a live query falls in one case only, the store of
  `vqlut_compile` for a slipstream query, from 7 to 4. That is what is true of the sentence which the
  run `pool_level` violates. No run checks `LevelFallsAtCompile`.

`QueryCompositionProofs`, for any schema, agents and set of parts:

- `CompositionTypes`, `CompositionPreservation` (each check of the levels 0 to 9) and
  `CertificatePreservation` (all levels of the certificates). These redo, on the model, what
  `Composition.idr` proves, and add the checks, of which it proves nothing. The argument is one
  lemma per clause - a joined clause is present when either side is, the references of a joined
  WHERE are those of both sides, a guard of one side guards in the whole - and an induction over the
  joins.

- `BoundsTheorem`: `BoundsTighten`, by a lemma that joining two annotations is at least as tight as
  either.
- `ClausesTheorem` and `CirclesTheorem`: what is true of the sentences that `composition_effects` and
  `composition_epistemic` violate. A joined query declares no effect of its own and, unless one of its
  parts consumes, all of theirs; lower bounds of versions, and ranges of them, are intersected, to an
  empty range as the case may be. The invariant (`Combined`) adds that a joined query without a version
  comes from parts without any. And parts that pass level 10 fail it together only if an ENTAILS of one is
  the reverse of one of another: `Known` keeps every agent named and every requirement traced to a part.

`SafetyPipelineProofs`, for any schema, agents and set of statements:

- `HighestLevelTheorem`. `HighestLevelReported` speaks of the end of a run, so it is strengthened by
  `Accounted`: the pipeline has passed exactly the first n levels, has exactly the others before it,
  and stopped because check n failed or none was left.
- `PipelineTypes` and `CertificateTheorem`. The second needs that no constructor shows the proof
  predicates a reference it hides from the checker, which is part of the type `Exprs`; TLC evaluates
  `InputsAssumption` over every expression of the runs.

`DebugAdapterProofs`, for any connections, lines and number of threads: `AdapterTypes`,
`AdapterNumbers`, `AdapterEndings`, `AdapterRefines`, that `AdapterSpec` implements `RequestServer`,
and `AdapterKeeps`. The three invariants follow from `InStep`, which ties the counter, the lines
read and the responses of a serving connection together; neither of the others is inductive without
it, as a response is made of the counter and of the line at `taken`. For the refinement every action
is shown to ask, to tell, to close channels or to stutter.

`RequestServerProofs`, for any channels, messages and replies: `KeptTheorem`, that every reply fits the
message it names, that replies come in the order of the messages, none twice, and that before each of
them every message that needs a reply has had its own. `AdapterKeeps` and `LspKeeps` instantiate it
through the two refinements, so the proof is made once for both servers.

`SourceToolsProofs`, of the functions themselves and for any content: `FormatKeepsText` (formatting
changes margins only), `FormatOnce` (a second formatting changes nothing) and `LintAfterFormat` (the
linter finds the same in a text and in its formatted form, but for the case of a keyword at either
end of a line, where the linter looks at blanks that the formatter adds or takes away).

Of the programs, for any runs of them, contents and size limit: all five properties of
`source_tools`. `TextSurvives` speaks of the moments between writes. `Intact` says what holds
during one: there is one writer, it writes a version of what was saved, and the file is as much of
that version as has been written. That the next formatter reads a version again, and formats it to
the same text, is `FormatOnce`. A file is read in pieces: `Reading` says that a program whose reading
nobody wrote into has, at any moment, as much of the input as it has taken, so that at the end it has
all of it (`ReadWhole`). `ReportsTheAuthors` rests on `Reading`, `Authored` and `LintAfterFormat`,
`CopyWhole` on `Copying`, `ReadsGuarded` on `Reading` and `Guarded`.

`ProofClientProofs`, for any tasks, calls, sessions known before and set of verdicts: `ClientTypes`,
`TruthTheorem`, `NotFoundTheorem`, `StatusTheorem` and `OnceTheorem`. The invariant `ClientInv` says
that a number stands for one call, whose request is on its way, or was served and has at most one
answer, or is lost. From that, an answer that arrives fits the call that takes it, and what it says
was true when the request was served and stays so while sessions advance (`Truthful`): it was done
just when its answer says so, a session it was told is gone stays gone, and what it was told of a
session's status is not ahead of the session. `Ordered` relates what one task is told: polls follow
the order of service, and nothing succeeds on a session after the task was told it is gone. Any
request may be rejected or fail in these proofs, whatever its route. `OncePerCall` is
strengthened to `OnceInv`: no two answers or results claim to have opened, or to have cancelled, the
same session (`Sole`), and the submissions still on their way or refused are counted against those that may have opened a session
(`Counted`), which makes the last conjunct inductive.

`LanguageServerProofs`, for any scripts, any width of a character's number and both kinds of build:
`LspTypes`, `LspCleanExit`, `LspRanges`, `LspRefines`, that `LspSpec` implements `RequestServer`, and
`LspKeeps`.
A response is in main's hand, in the writer's, or written. `LspInv` says that each is right for its
request, that the three places keep the order of the requests (`InOrder`), and that every answerable
request received is in one of them unless the client is gone or the process failed (`NoneLost`). An
exit that follows a shutdown then leaves at most the shutdown's own answer unwritten; and a response
that is written passes over nothing, as what came before it must have been written before.
Of the library (`LibrarySpec`), for any number of calls: `SchemaTheorem`. `LibraryInv` names the last
fetch that brought a schema and the last URL, and explains every fetch by the URL before it.

The assumptions are those the modules name: `MaxContextsAssumption`, `RequestedAssumption`,
`SchemaAssumption`, `InputsAssumption`, `PartsAssumption`, `LinesAssumption`,
`AdapterBoundsAssumption`, `ToolsAssumption`, `ClientAssumption`,
`LibraryAssumption`, `ScriptsAssumption`.

Model-checked only: the liveness properties `CallsReturn`, `LinesAnswered`, `RequestsAnswered` and
`LoopEnds`, since liveness under fairness is out of the prover's reach. TLC checks `Accounted` as
well when it is added to `Checker.cfg`. Nothing is proved about what the recursive traversals
compute: induction over data is out of reach, which is why expressions carry the results.

## What is not modelled

- The lexer, JSON and C layouts (text and arithmetic without state), command lines, and the contents
  of messages, hovers and diagnostics.
- Epistemic semantics, the parser's clause loop and the report bridge, the Idris wrappers and the
  verification shim: the plan below. The hazards they are exposed to are listed in `PROJECT.json`
  with a note.
- The internals of `lsp-server`, of the ECHIDNA server, of editors and of the file system: each is
  modelled as the code uses it and no further.
- Tests, documents and CI are read as claims only.

Where a text and the code disagree and no run shows it: `fmt`'s documentation names seven keywords
and the code has eleven (`usage`, which the linter knows, is in neither); the comment in the loop of
`lsp/src/main.rs` says that parameters which do not decode are treated as unhandled, and the code
panics; the `Ok(())` behind the join is not reached when the input ends without a shutdown;
`connect_verisimdb` to another database keeps the schema of the one before.

## Plan

1. Idris ABI over the pool: decoding of tags, the wrapper that drops the handle of a successful
   parse and so exhausts the pool. Composes with `ContextPool`.
2. Epistemic semantics: satisfaction with fuel over small frames against the reference definition
   of Kripke truth; axioms T, 4 and 5 on S5 frames; direction of knowledge transfer; circles of more
   than two ENTAILS.
3. Parser's clause loop, `requestedLevel`, and the bridge's report, composed with the pipeline: what
   was requested against what is reached.
4. The verification shim's error buffer.
5. Proofs about what is added above; for the servers, the part of `LinesAnswered` and
   `RequestsAnswered` that is safety, as `CallsAdvance` is of `CallsReturn`.
