# A verification project for rag-crucible

TLA+ models of [rag-crucible](../src/README.md), the TLC configurations that check
them, and TLAPS proofs about them. Paths below are relative to `src/`.

## The system

rag-crucible evaluates retrieval-augmented generation pipelines. A *spec* names a
corpus, a pipeline and the suites to run. Specs are submitted to a queue in a SQLite
file; workers build the spec's index, run its suites and store results; an HTTP API and
a dashboard show them.

| Component | State it keeps | Operations | Interacts with |
|---|---|---|---|
| Result store and queue `rag_crucible/runner/store.py` | tables `runs`, `suite_results`, `metrics`, `records`, `stage_timings`; `user_version` | submit, claim, cancel, save, finish, read, migrate | every process, through one file |
| Worker `runner/worker.py` | the run it executes | `worker_loop`, `execute_run`, `execute_or_wait_for_run` | store, index directory, suites, reports |
| API `api/main.py` | the store's path, one lazily built pipeline | submit, read, cancel, `/query` | store, index directory |
| Command line `cli.py` | none | submit, worker, ingest, query, eval, serve | all of them |
| Index directory `ingest/build.py`, `index/` | `index.faiss`, `chunks.jsonl`, `meta.json`, `ingest-report.json` in a directory named after the spec | load or build, build, open | workers, API, commands, without a lock |
| Evaluation `eval/run.py`, `eval/concurrent.py` | timings collected by all suites | run suites concurrently, guard each | pipeline, judge, providers |
| Judge `eval/judge.py` | an append-only file of verdicts | `supports` in cached, auto or live mode | generator, other runs through the file |
| Suites, attacks, pipeline, defenses | none that outlives a call | pure computation around provider calls | |
| Providers `providers/` | none | embed, rerank, generate, with retries | outside services |
| Ingestion `ingest/loaders.py`, `filters.py`, `chunkers.py` | none | load, filter, chunk | index directory |
| Results `eval/types.py`, `eval/migrate.py`, `eval/report.py` | result files | upgrade, render | dashboard, scripts |
| Dashboard `dashboard/src` | the selected run, the responses received | fetch and show | API |

What is hard in it, and where:

* *Several processes, no broker.* Store methods open a connection each, and Python's
  `sqlite3` begins a transaction at the first INSERT or UPDATE, not at a SELECT. What a
  process has read may be out of date when it writes.
* *Crashes.* `execute_run` catches `Exception`; a kill, Ctrl-C or a write that fails in
  the `except` clause ends the process with its run in status `running`.
* *Files without a lock or a rename.* An index is four files rewritten in place; readers
  open them in another order.
* *One event loop, many suites.* A failed suite does not cancel its items.
* *Order.* Time stamps have whole seconds; responses reach the dashboard in any order.

`PROJECT.json` lists the hazards with their lines and the properties aimed at them.

What makes each component correct: the queue gives each run to one executor, keeps its
evidence consistent with its status, claims in order, and lets no run starve; the
directory serves an index that is whole and of the right spec; evaluation results do not
depend on interleaving; the cache returns what the model said; migration happens once or
not at all; the pure algorithms equal a definition that can be read at a glance.

## The modules

| Module | Contents |
|---|---|
| `RunLifecycle` | the abstract specification: what the queue promises about one run |
| `RunQueue` | the store as a queue, the workers, inline and queue-only submissions, cancellation, `get_results`, faults; its properties and the refinement to `RunLifecycle` |
| `RunQueueProofs` | theorems about `RunQueue`, for every value of its constants |
| `IndexDir` | the index directory, its builders and its readers |
| `StoreUpgrade` | the abstract specification: what opening a store promises |
| `StoreMigration` | `_migrate` run by several processes over any file; the refinement to `StoreUpgrade` |
| `StoreMigrationProofs` | theorems about `StoreMigration` |
| `EvalRun` | `run_eval` with its suites, rounds, items and retries on one event loop |
| `JudgeCache` | the faithfulness suite, its judge and the shared file of verdicts |
| `Ingestion` | loading, the filter chain, both chunkers, provenance |
| `Placement` | target selection, corpus-shaped paths, the three attack generators; extends `Ingestion` |
| `Answering` | contexts, defenses, numeric conflicts, possible replies; extends `Placement` |
| `ResultFile` | what a result file of each schema version holds, the chain of migrations |
| `AttackSuites` | the security and the privacy suite, composed of the four above |
| `EvalRunProofs`, `IndexDirProofs`, `JudgeCacheProofs` | theorems about `EvalRun`, `IndexDir`, `JudgeCache` |
| `IngestionProofs` | sequences, the filter chain, the chunkers, the defenses: what they do to any corpus |
| `AttackSuitesProofs` | theorems about `AttackSuites`, with the lemmas about placement and the migrations; extends `IngestionProofs` |
| `Induction` | induction over the natural numbers, without an operator as a parameter |
| `MC...` | symmetry and constant values for TLC |

Definitions named `Mut...` stand before the definition they vary. No specification uses
them: each is a plausible bug, and the property that `PROJECT.json` pairs it with fails
when it takes the place of the definition it varies.

### RunQueue

A row of `runs` is a number, in the order of the INSERTs (the rowid). `status`, `row`,
`owner`, `saved`, `records` and `report` are the tables and the report directory; `pc`
says where in the code each process is, and `job` which row it holds.

| Code | Action |
|---|---|
| `submit_run`: the SELECT for a duplicate | `SubmitCheck`, `SubmitDuplicate` |
| `submit_run`: `_now()` evaluated for the INSERT, then the INSERT | `SubmitStamp`, then `SubmitInsert` |
| `cli.submit` after `DuplicateRunError` | `Attach` |
| `cancel_run` | `Cancel` |
| `claim_next`, `worker_loop` | `ClaimNext`, `DrainDone` |
| `execute_or_wait_for_run`: `get_run`, then `claim_run` | `WaitLook`, then `ClaimRun` |
| `execute_run` | `Evaluate`, `SaveResult`, `WriteReport`, `Finish`; `Raise`, `MarkFailed` |
| `get_results` | `ReadRun`, `ReadSuites`, `ReadMetrics`, `ReadTimings` |
| busy timeout; a process that ends; `rag-crucible worker` again | `StoreBusy`, `Crash`, `Restart` |

Abstractions. The result of a run is `ok` or `bad` (some suite failed). Loading the index
and running the suites are one phase. `claimed_by` holds only the host name in the code;
`owner` is the process. The SELECT in `cancel_run` is folded into its UPDATE: rows are
never deleted, and the UPDATE repeats the test. API and queue-only submissions that meet
a duplicate change nothing, so only the inline command's `SubmitDuplicate` is an action.
The clock advances where a submission reads it and is assumed not to go back. A client
that ends leaves its place to another. `since`, `forced` and `lost` are history: they
are written, and read by properties only (a forced request skips the check when it
arrives).

### IndexDir

One directory, the specs that share its name, and processes that run
`load_or_build_index` (`ensure`), `ingest`, `ingest --force`, or `query` and `eval`
(`open`). A spec stands for its fingerprint. `index.faiss` and `chunks.jsonl` are
sequences of blocks; opening truncates, each write lands at the writer's own offset, and
a gap reads as `Hole`. `meta.json` and `ingest-report.json` are absent, unparseable or
complete, and a writer that follows another's text may leave its tail. `hands`,
`touched` and `alone` are history: whose bytes the directory may hold since the last
build that finished alone, and which of them a call has lived with.

The corpus is assumed not to change between the submission that pins its digest and the
build that reads it; the Qdrant branch of `build_index` is not modelled.

### StoreMigration

The file is a record `db`: `PRAGMA user_version`, the tables, which of `metrics` and
`records` have the columns of version 1, and what the rows of `metrics` (and of the
`metrics_v1` built beside it) say. `work` is the transaction of the process that has the
write lock. Migration 0 is five statements and creation five tables, each a step.

| Code | Action |
|---|---|
| `ResultStore(path)`; the first read of the version | `Open`, `Look` |
| `BEGIN IMMEDIATE`, or what `_unwritable` makes of its error | `Begin`, `CannotBegin` |
| second read of the version, tables, `_refuse_non_finite_values` | `Check` |
| one statement of `steps`; `PRAGMA user_version` and `COMMIT` | `Execute`; `Commit` |
| a full disk, a kill; any operation of an open store that adds rows | `Fault`; `Write` |

`Accepted` says what SQLite would refuse, so that a statement run on the wrong file fails
here too; that it never does is a lemma. At first the path may lead to nothing, to a
store of before versioning with any rows, to a current one, to one of a newer or unknown
version, or to a file with some of the tables. Indexes are left out. A read-only store of
a newer version ends in `readonly`: `BEGIN IMMEDIATE` fails before the version is
compared, as in the code. Two things are assumed: no process of another build of the
program uses the file, and a foreign file does not have `user_version` 1 (the code would
take it for a current store without looking into it). `metrics` is the only table whose
rows are followed, since it is the only one that is rebuilt. The change of the journal
mode is not modelled.

### EvalRun

| Code | Action |
|---|---|
| `worker_loop` or a command awaits `run_eval`; warmup or `build_judge` fails | `Begin`; `StartFails` |
| the guarded coroutines; `EvalRunResult`; the outer gather with `fail_fast` | `Launch`; `Return`; `FailFast` |
| the loop ends and cancels what is left | `Exit` |
| a suite embeds the index it needs, or fails to | `Prepared`, `PrepareFails` |
| `bounded_gather` returns, or passes an exception on | `RoundEnds`, `ItemFails` |
| `async with semaphore`; a provider call; the backoff of `with_retries` | `Acquire`; `Answer`, `Retryable`, `Unretried`; `Wake` |

A suite is a sequence of rounds, each a number of items and whether an index is embedded
first; an item is a number of provider calls, the first few of which the stage timings
cover. asyncio switches coroutines only where one awaits, so what a coroutine does
between two awaits is one action. `_guard` keeps a suite's failure from the others, and
nothing cancels the items behind it: they go on into the worker's next run, which is why
the instance has two. What lies outside `_guard` (the warmup; opening the judge's cache)
fails the whole run. `made` and `fatal` are history.

### JudgeCache

`file` is the lines of the cache, `open` whether the last one lacks its newline; `entries`
is `JudgeCache._entries` of each run, `item` how far each `_judge_answer` is. `Lookup`,
`Miss` and `Ask` are what precedes the await of the model, `Reply` what follows it;
anything may happen in between. `put` writes the dictionary and then the file, and
`PutFails` lets the write stop before, inside or just behind the line. The digest that is
the key is taken to be injective. `said`, `last` and `loaded` are history. There is no
repair in the code: once a line is `Bad`, no further run can open the cache.

### Ingestion, Placement, Answering, AttackSuites, ResultFile

One run of an adversarial suite, from the files of a corpus to its metrics:

| Code | Action |
|---|---|
| `load_corpus`, `apply_filters`, the first `select_targets` | `Load` |
| one document of a generator; the change to the next generator | `Plant`; `BeginInjection`, `AttacksPlanned`, `CanariesPlanned` |
| `_build_poisoned_index`, `_build_canary_index` | `Embed` |
| `answer` up to the generator; the reply and `run_job`, `probe` | `Ask`; `Answered` |
| `run_clean` | `BeginControls`, `Control`, `Controlled` |
| the screen control and `_aggregate` | `Aggregate`, `AggregatePrivacy` |
| `load_result_file` on a file some version has written | `ReadBack` |

A text is a sequence of words, each of a kind (`prose`, `quantity`, `secret`, `order`,
`token`, `heading`, `boiler` ...) that says which pattern of the code finds it. What a
seed or a hash decides (targets, names, samples) is any choice; a ranking is any order of
the top chunks; a reply is any selection of what the prompt contains. So no property
rests on a good retriever or a docile model, and a marker in an answer has to come from
the context. The trials of a suite share nothing and are taken one after the other;
their interleaving is the business of `EvalRun`. Trust is counted in tenths, widths of
words in characters. The pipeline's own defenses are taken to be none; the trials of the
security suite set theirs. Records and rates have the names of the code;
a rate is a pair of counts, since rounding it would hide what the properties compare.

A marker is found in an answer as the code finds it, as a part of a string: `Says` asks for
a word that contains it, not for a word that equals it. The numbers of the poison and the
tokens of the injections are any distinct strings, as their owners' ids are, so one may be
a part of another; only a secret, of fixed form and width, is part of no other secret, and
the words of the corpus contain none of them.

`ReadBack` writes the result as a version 1 to 6 would have kept it (version 1 with any part
of what scans the answers, none and all of it included: `eval/migrate.py:61` and
`test_migrate.py` speak of many writers), or as a version to come, and reads it through the
chain of migrations.

Two limits of these modules. Every chunk the suites index is `trusted_corpus`, so
`ScreenPredicts` exercises the patterns of `injection_filter` and never the trust that
`answer_integrity` asks for. And `Placement` leaves out file extensions and stops numbering
a name that clashes at `MaxNumber`, where the code counts on; the paths it gives then are
those that the code would give for as many clashes.

## What the runs check

| Run | Instance | Shows |
|---|---|---|
| `queue_service` | 2 clients, 1 worker, 1 reader, 1 spec, 2 rows | only races duplicate, responses are coherent |
| `queue_live` | 1 client, 2 workers (one `--once`), 2 rows, 2 seconds, 1 fault | one executor per run, evidence agrees with status, claims in submission order, `RunLifecycle` is implemented; pending runs leave the queue, claimed runs end, submits return |
| `queue_dedup` | 2 clients, 2 rows | violated: two identical unforced runs can both be pending |
| `queue_crash` | 1 client, 1 worker, 1 row, 1 crash | violated: an inline submit can wait forever |
| `index_shared` | 2 processes, 2 specs of 3 and 2 chunks, 1 death | a whole index of the own spec or an error; settled indexes serve |
| `index_race` | the same, no death | violated: a rebuild can return another spec's index |
| `store_migration` | 3 processes, 2 rows, 2 faults, 32 first files | upgraded once and atomically, used only when current, refused only for cause |
| `eval_run` | 2 runs, 3 suites of 1, 1 and 2 + 1 items, 1 place, 2 attempts, 2 faults | verdicts and records are a suite's own; concurrency, retries and timings hold; runs and items end |
| `judge_cache` | 2 runs in any mode, 3 answers, 2 claims, 1 cited chunk, 1 failed append | verdicts were said, mode `cached` reproduces, the file keeps the last put |
| `suites` | 12 configurations, 2 questions, corpora of 1 to 4 files | the twelve properties of the adversarial suites, below |
| `suite_abstention` | the same | violated: an abstention counts as a success of the poison |
| `suite_markers` | the same | violated: a marker inside another one counts as found |

The properties of `suites`, each over every ranking and every reply: a batch filtered
behind the corpus does not disturb it (`CorpusComesFirst`); planted paths are new and
inconspicuous (`PlantedPathsFresh`); chunks cover every word (`ChunksCover`); a marker that
is found is part of the marker of an attack in the context, and a success without its own
attack owes it to another one's (`MarkersHaveOrigin`); the screen control predicts the pipeline
(`ScreenPredicts`); a numeric conflict removes only what lost (`ConflictsDecided`);
redacted secrets do not leak (`RedactionHolds`); the rates account for each other
(`RatesAddUp`); disjoint targets never compete (`DisjointNeverCompetes`); controls meet no
attack (`ControlsAreClean`); no version of a result file turns "not recorded" into a value,
or loses a rate whose evidence it has (`RereadNeverInvents`).

Bounds. Two rows are needed and enough for what relates two runs (duplicates, order);
the claims about one run need one. Racing submissions take two clients; a race for a row
takes an inline command and a worker, and a second worker to go on when one dies. The
reader multiplies the states by ten, so racing submissions and the reader are checked
apart from faults, `--once` and the two seconds; the theorems below cover them together.
One fault suffices for every property, since each speaks of one run at a time; a second
only repeats the first with fewer processes left. Two readers would not meet: they write
nothing. Two specs of different sizes make both a longer and a shorter file meet a
shorter and a longer one. Of three openers one can migrate, one wait and one find the
work done; two rows have different histories; two faults let a second migrator fail
after the first.
In `EvalRun` one place in the semaphore makes items wait, two rounds let one meet what
the other left, the second run meets what the first left, and two faults exhaust two
attempts or fail two suites. In `JudgeCache` two answers share a claim within a run and
across runs, and a claim is tried on a chunk before another. The configurations of
`suites` are chosen so that every filter drops something, both chunkers split a document,
a conflict is won, lost in one chunk of a document and tied, a canary duplicates a
document or is filtered away, every name of a topic is taken, and a control meets a
conflict of the corpus itself; these cases were each confirmed to occur. The questions are
`q1` and `q13`, as `scripts/fetch_scifact.py` makes `scifact-1` and `scifact-13`: the token
of one is the beginning of that of the other. `MaxRuns`, `MaxClock`,
`MaxFaults` and `MaxDeaths` are the only bounds of the state machines; each appears in a
guard. `MaxNumber`, in `Placement`, bounds the numbers a clashing name is tried with. In the
`RunQueue` runs deadlock is not checked: when every row is inserted and done, the
processes that poll change nothing, which is the system at rest. Nor is it in the runs of
the evaluation, each of which comes to its end. `IndexDir` and `StoreMigration` never
rest.

Fairness. `FairSpec` asks weak fairness of each worker's step and of each step of a
submission that has begun: a process that is alive keeps running, and SQLite lets a
writer in within its timeout, which is a fault otherwise. Nothing requires a fault, a
restart, a submission, a cancellation or a read. The exceptions in the properties are
the code's own: a run whose process died is never claimed again (`lost`), and pending
runs wait if every long-running worker died. `EvalRun.FairSpec` asks weak fairness of the
loop, of each suite and of each item: asyncio resumes every coroutine that is ready, a
backoff ends, and a provider call ends by an answer or by its client's timeout. A failing
call is never required, nor is the end of a worker's loop. The semaphore is first come,
first served, as `asyncio.Semaphore` is, so weak fairness is enough for `Acquire`.

## Findings

* `queue_dedup`: the duplicate check and the INSERT of `submit_run` are not one
  transaction, so concurrent identical submissions are both accepted; `README.md:377`
  says identical specs dedupe. `OnlyRacesDuplicate` says how far the promise does hold.
* `queue_crash`: nothing takes a run back from a process that died, so the wait in
  `execute_or_wait_for_run` has no end; `runner/worker.py:80` promises one.
* `index_race`: `load_or_build_index` compares fingerprints before it rebuilds and not
  after. Two specs of one name, or two overlapping builds, can hand a run the wrong
  index. `ServesOwnIndex` and `SettledIndexServes` say when it is safe.
* `suite_abstention`: an abstention of `answer_integrity` names the values in conflict, the
  false one among them, and `run_job` scores a trial on the text of the answer whoever
  wrote it. A poison that made the pipeline refuse is recorded as one that made the
  generator repeat it (`pipeline/rag.py:197`, `eval/security.py:191`), against
  `attacks/poison.py:7`. The table of `docs/experiments/answer-integrity.md` reports the
  rates so computed.
* `suite_markers`: `eval/security.py:85` calls markers collision-free and their containment
  proof that the text came from that attack, but `m.marker in text` finds `OWNED-q1` in an
  answer that carries only `OWNED-q13`. The trial of `q1` is then recorded as a success
  whose attack was not retrieved. `MarkersHaveOrigin` says what a match does prove, and the
  theorem `MarkersProve` that such names are the only way the claim fails.

Smaller differences between the code and its comments, met on the way; the models do as the
code does:

* `JudgeCache`: a verdict the heuristic decided comes back from the cache with
  `parse_ok=True`, so the flag that `eval/judge.py:16` describes lasts one run
  (`VerdictsWereSaid` says exactly what is left of it).
* A torn cache line fails a whole run that has the faithfulness suite, not that suite:
  `build_judge` is called outside `_guard` (`eval/run.py:85`).
* `poison_retrieval_rate` and `injection_retrieval_rate` leave out `injection_filter` as the
  condition that strips the context, but count `answer_integrity`, which strips it too
  (`eval/security.py:275`).
* A planted path avoids the files the filters dropped, not the ones that could not be
  loaded, although the ingest audit names these as well (`eval/security.py:120`).
* A losing value stays in the context in another chunk of its document
  (`pipeline/consistency.py:76`; second half of `ConflictsDecided`).
* `_percentile` (`obs/aggregate.py`) says nearest-rank and rounds half to even.

## What is proved

`RunQueueProofs` proves, for any sets of clients, workers, readers and hashes and any
bounds:

* `TypeCorrect`: `[]TypeOK`.
* `ExecutionIsOwned` and `EvidenceIsConsistent`, from one inductive invariant
  (`CoreCorrect`). Neither property is inductive alone: that a process in `finish`
  overwrites a row still in `running` needs that no two processes execute one row, and
  that needs the owner written by the claim; that a success has its evidence needs what
  each phase of `execute_run` implies about `saved`, `records` and `report`.
* `QueueImplementsLifecycle`: each step of the queue is a step of `RunLifecycle` or
  leaves its variables alone. The invariant supplies the guards that `mark_succeeded`,
  `mark_failed` and `save_result` do not test.
* `DuplicatesNeedARace` and `ClaimsFollowSubmissions`, from a second invariant
  (`SubmitCorrect`): rows are inserted in order, stamps never exceed the clock, and a
  request in flight looked at no row that does not exist yet.
* `ResponsesAreCoherent`: a reader's partial answer agrees with the tables at its phase
  because evidence is never taken back.

`StoreMigrationProofs` proves, for any processes, rows and number of faults:

* `TypeCorrect`, `OpenStoresAreCurrent`, `RefusalsHaveACause`, from one inductive
  invariant `Inv`. What makes it inductive is `Partial`: the file that n statements of the
  plan lead to, so that the transaction is known at each step (`WorkOK`), with the lemma
  `Statement` that SQLite accepts statement n + 1 there and `Committed` for what the last
  one leaves. `LockOK` keeps the file still meanwhile, and `OpenOK` says that a store
  that cannot be written has not been migrated behind a waiting opener.
* `ImplementsUpgrade`: only `Commit` changes the abstract form, and it maps to `Upgrade`,
  or to `Use` when another process was first.

`EvalRunProofs` proves, for any suites, rounds, calls, concurrency and number of runs:

* `TypeCorrect`, `VerdictsCorrect`, `RetriesBounded`, `TimingsCorrect`, from one inductive
  invariant `Inv`. `ItemOK` ties an item's calls and samples to how far it is, `SuiteOK`
  says of a suite that the rounds behind it are done, those before it not begun, and that
  its records are the former's (`Extend`: records of a round appended to records of
  earlier rounds are complete and in order), `RunOK` that a run that has been kept has no
  coroutine left that could move.
* `ConcurrencyBounded`: every item alive is one of the suite's current round
  (`OneRound`), so the round's semaphore bounds the suite. No property of the semaphores
  alone gives this: it needs that a round begins only when the last one is done and that
  a failed suite begins none.

`IndexDirProofs` proves, for any processes, specs, numbers of chunks and deaths:

* `TypeCorrect`, `ReadersGetTheirOwn` (`ServesOwnIndex`), `SettledIndexesServe`, from one
  inductive invariant `Inv`. The files cannot be described while anybody writes, so the
  invariant speaks of hands: every call has noted the hands on the directory since it
  began (`Noted`), and a builder that has met no other is alone with the files
  (`Handed`). A lone builder's files are as far as its phase (`AloneBuilds`); hands of
  one spec, one at a time, leave files that are a beginning of that spec's (`Unmixed`) or
  all of them (`SettledBuilt`); and what such a reader has read of each file is of its
  own spec and, by the order in which the four are read, of a whole index (`ReadsOwn`).

`JudgeCacheProofs` proves, for any runs, modes, answers, replies and failed appends:

* `TypeCorrect`, `VerdictsRest` (`VerdictsWereSaid`), `CachedRunsReproduce`,
  `FileKeepsPuts`. Each adds a conjunct to the typing invariant: what the lines, the
  dictionaries, the pending calls and the verdicts say rests on a reply; what a run in
  mode `cached` has judged repeats the lines it read; without a fault the file loads to
  `last`. `Load` is a recursive function of the lines. That it reads one line more as one
  update more is proved by induction over the length, and carries all three.

`AttackSuitesProofs` proves, for any configurations, corpora, questions, filter chains and
chunk sizes, and whatever a seed, a ranking or a generator decides, the twelve properties
of `suites`. One invariant `IInv` gives them:

* `Staged` (order of the phases) and `Placing` give `PlantedApart`: the placer's `taken`
  holds every path of the corpus and of the planted documents, so a path it calls free is.
* `Spread` (a target is chosen once, and the pool of the injections leaves out what
  `disjoint_targets` says) and `Traced` (a match is the marker of an indexed attack) give
  `OneAttackEach`.
* `Summed` (the records have all their keys, the metrics are those of the records) gives
  `ReadAsMeasured`. `Holds` says what a file at version v still has of the result; each
  migration takes `Holds(v)` to `Holds(v + 1)`, and at version 6 it is the result itself.
  `LostType` and `LostCondition` say which rates a partial scan leaves as they were.
* `Filed` and `Surviving` (what is kept, dropped and indexed, as the chain leaves it) give
  `CorpusFirst` through the theorem `AppliedAfter`: every filter splits over a corpus and
  a batch behind it, by induction over the corpus, then over the chain.
* `Coined` (what was planted carries its own marker, no two the same) and `Built` (the
  index is that of the condition under trial) give `MarkersTraced` (`MarkersHaveOrigin`),
  `CleanControls` and `RedactionProtects`, through the theorem `AnswersQuote`: an answer
  quotes chunks that were
  retrieved. `Posed` adds which defenses an answer has been through, `Found` what a trial's
  record says was there. `MarkersProve` gives `MarkersProveOrigin`, which `suite_markers`
  violates, from one more hypothesis: that no marker of a configuration is part of another.
* `Predicted` (`ScreenPredicts`) follows from the defenses, `IndexCovering`
  (`ChunksCover`) from the theorem `SpansCut`: windows advance by at least a word, leave
  no gap and go back by no more than the overlap, and sections are cut one by one.
* `ConflictsSettled` (`ConflictsDecided`): the index trusts all its chunks alike, so a
  score, a fold over the documents that state a value, is ten times their number
  (`ScoreCounts`), and what wins is stated by more documents than any other value. A chunk
  is ranked once (`Posing`), so the first claim of a losing value rejects it.
* `RatesBalance` (`RatesAddUp`): the kind and the suffix of a metric's name tell it apart
  from every other of its report (`NamesTell`), so a total of at most one metric is the
  size of its sample or of its hits (`TotalsAre`). `Scored` (success and compromise of a
  trial are those of the markers it matched) gives that what compromises without success
  competes or crosses. `Summed` carries the metrics through the file that is read back.
* `Tallied` gives `TypeCorrect`: a rate counts records among those in its sample.

What the theorems assume. Each module about a component rests on the assumptions of the
modules it is about alone, which TLC evaluates in the runs. Most are typing: natural
bounds, disjoint names, every suite has a round. Those that say more: no two questions have
the same number or token, no secret is part of another, and no word of the corpus contains
a marker (`MarkersAssumption`; the code makes markers from ids, indexes and digests and
takes this for granted; that no token is part of another is not assumed); the paths of a
corpus differ, as those of files do (`ConfigsAssumption`); there is a template to make an
injection from (`PlacementAssumption`; two constant tables in the code).

Induction over data is not within reach of the library's theorems, which take a predicate
as a parameter. `Induction` states it for sets, from the well-foundedness of the natural
numbers, and so recursive functions (`Load`, `Those`, `Filtered`, `FixedSpans`, the chain
of migrations) are reasoned about all the same.

Model-checked only: the liveness properties `QueueDrains`, `ClaimedRunsEnd`,
`SubmitReturns`, `RunsEnd` and `ItemsEnd`. Fairness and leads-to are outside what the
prover does.

## Plan

Done: the queue, the store's migration, the evaluation of a run on its loop, the index
directory, the judge's cache and the adversarial suites with ingestion, placement,
defenses and result files, each with its proofs. Every safety property a passing run checks is a
theorem.

## Not modelled

* `ServingPipeline`: one lock around one assignment; the index it then holds in memory is
  the one `IndexDir` says it opened.
* The Qdrant branch of the index: what a search meets while a collection is rebuilt is
  decided by a server outside this code.
* The dashboard: a client that reads. A response that arrives out of order is shown under
  the wrong name; nothing it shows is stored.
* A corpus that changes between the submission that pins its digest and the build that
  reads it.
* The ranking metrics of the retrieval suite and the averages of the faithfulness suite:
  arithmetic over records whose number and order `EvalRun` covers.
* Citations, prompts and reports: strings no decision is taken on, except that
  `JudgeCache` starts from the citations that were parsed.
* Adapters to model APIs, validation and hashing of configuration files, loaders of file
  formats, scripts and data. They keep no state; `RunQueue` takes the hash of a spec, and
  `IndexDir` its fingerprint, as the identity they are.
