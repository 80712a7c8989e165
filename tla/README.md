# Karani in TLA+

Karani reads student submissions overnight, asks a model for evidence per rubric
criterion, validates every citation, and leaves the instructor a docket.  One
append-only event log drives every artifact.  This directory holds TLA+ models
of the parts whose correctness depends on ordering, interleaving and failure,
the TLC configurations that check them on small instances, and proofs of their
main invariants for all instances.  `PROJECT.json` maps every definition to the
lines it models (paths are relative to the repository's root under `src/`).

## 1. Inventory of the system

| Component | State | Operations | Talks to |
|---|---|---|---|
| Event vocabulary (`schema/events.py`) | none | `make_event_id`, `content_hash`, `sort_key` | everything that writes or folds events |
| Local store (`store/local.py`) | JSONL file per run, index per process | `create`, `read_run`, `get`, `list_runs` | dispatcher, docket, delivery |
| Firestore store (`store/firestore.py`) | documents `runs/*/events/*` | the same | the same; `open_store` picks one of the two |
| Worker (`analysis/worker.py`) | a local `WorkerOutcome`, `pending`, the attempt | `analyze_submission` | triage, scanner, model client, validators; returns its batch to the dispatcher |
| Dispatcher (`analysis/dispatcher.py`) | `RunSummary`, `terminal`, futures, clock | `run_pipeline` | thread pool, workers, store |
| Render (`render/__init__.py`) | none (pure fold) | `render` | reads a log; CLI, docket, verify |
| Docket server (`docket/server.py`) | `state["run"]`, events given at start | `edit`, `ratify`, `grade`, `appeal`, `replay`, reads | store, render, delivery, grades |
| Delivery (`delivery/deliver.py`) | files, events to write | `deliver`, `build_csv` | docket, Drive |
| Grades (`grades.py`) | grade documents and their history | `write`, `read_all` | docket |
| Response cache, clients (`analysis/cache.py`, `analysis/client.py`) | a file per key | `get`, `put`, `generate` | worker, entailment, second reader |
| Validation (`validate/*.py`, `schema/spans.py`) | none | `validate_citation`, `check_entailment`, `check_second_reader`, `lint` | worker |
| Ingest (`ingest/*.py`) | the frozen rendition and its span registry | `list_submissions`, `extract`, `normalize`, `freeze` | dispatcher, worker, docket |
| Triage, scanner (`triage/gemma.py`, `armor/scan.py`) | none | `triage`, `scan` | worker |
| Arena (`arena.py`) | rate-limit counters | `run` | the whole pipeline, in a temporary directory |
| CLI, runtime (`cli.py`, `runtime.py`) | none | `run`, `docket`, `verify`, `hard_exit` | all of the above |
| ADK agents, pages, scripts, deployment | none | rendering, packaging | |

What is hard about it, and what makes each part correct:

* **Store.**  The file store's `create()` is a lookup, an append and a note,
  without a lock; the process can be killed, or the disk be full, anywhere in
  it, a failed `fsync` can leave a whole line whose identity the index does not
  know, and a payload can take its own line apart.  The deployed store's `create()`
  is a request whose answer can be lost and repeated.  Correct means: an
  identity keeps its first content, a retry adds nothing, what `create()`
  returned for is there, and a log that can be read has lost nothing.
* **Response cache.**  The writers of an entry share a temporary file, and can
  be killed between any two of their steps.  Correct means: a retry gets the
  text of the first try, an entry is whole or absent, and no check passes that
  no model passed.
* **Ingest, scanner, citation validator.**  Four passes over one text (extract,
  normalise, cut into spans, fold and scan) each have an idea of their own of
  lines, blanks and paragraphs, and the validator's windows are cut off at the
  spans' ends.  Correct means: no word that is read of the file is lost on the
  way, a payload is caught and reported with the span it begins in, and a
  citation is accepted exactly where it holds.
* **Worker.**  Every call can raise and loses the batch; the model can answer
  with anything.  Correct means: one outcome per criterion, nothing settled is
  asked about again, escalation only after every attempt failed, and a batch
  that cannot collide with itself.
* **Dispatcher.**  Threads that never return, a deadline racing late answers, a
  budget that trips in the middle, kills, and the same run id executed again.
  Correct means: the run ends, every unit is accounted for once, and the log
  says of a unit what the summary says.
* **Render and docket.**  Order of events, supersession of edited observations,
  concurrent requests over one cached fold and one index without a lock, and
  requests that fail after their event was stored.  Correct means: what is served is
  the fold of the log, and no version of an observation is lost.

The `hazards` of `PROJECT.json` list these line by line, those no property
covers yet with the reason.

## 2. Modules

| Module | Models | State and actions |
|---|---|---|
| `Events` | steps, identities, what a taken identity means, the batch contract | operators only |
| `EventLog` | abstract: the promise of `EventStore` | `log`, and the identities in doubt, for which an error was raised although the fact was recorded (`doubtful`); `Record` |
| `Facts` | what the stores write: an identity and a content | constants and their assumptions |
| `LocalStore` | `store/local.py`, one run | file (`lines`, how it ends: `tail`, whether a line does not parse: `garbled`), per-process dicts (`shared`, `dict`, `held`), threads in `create()` (`pc`, `arg`); one action per step of `create()`, `AppendFails` for an error after any part of the line or all of it, `Start`, `Crash`; history variables `confirmed` and `unnoted` (identities written whole by a `create()` that raised) |
| `FirestoreStore` | `store/firestore.py`, one run | `docs`, and per writer `at`, `sending`; one action per request, answer and outcome: `Commit`, `Acknowledged`, `AnswerLost`, `Refuse`, `FoundOwn`, `FoundOther`, `GiveUp` |
| `Stores` | `open_store()`: the store a process gets | `backend`, and the state of both |
| `Stores_proofs` | theorems about `LocalStore`, about `FirestoreStore` and about the store that was opened | |
| `ResponseCache` | `analysis/cache.py`, one entry, and its three kinds of callers | `name` and `content` of the files, per caller `at`, `open`, `answer`; one action per step from `get()` to the rename, `Stop` for kills and errors |
| `ResponseCache_proofs` | theorems about `ResponseCache` | |
| `Text` | `ingest/extract.py`, `normalize.py`, `freeze.py`, `schema/spans.py` | operators only: one per substitution, `Extract`, `Normalize`, `ParagraphOffsets`, `Freeze` |
| `Citation` | `armor/scan.py` (local scanner), `validate/citation.py` over `Text` | one file's way: `FreezeSource`, `Scan`, `Cite` or `BuildCitation`, `Judge` |
| `Citation_proofs` | theorems about `Text` and `Citation` | |
| `Worker` | `analyze_submission` | `pc`, `attempt`, `pending`, `drafted`, `rejected`, `events`; one action per stage of the gate, `Raise` for any exception |
| `Worker_proofs` | theorems about `Worker` | |
| `RunContract` | abstract: what a run promises | `fate`, `status`; `Decide`, `Complete`, `Stop`, `Again` |
| `Dispatcher` | `run_pipeline`, the pool and `as_completed` | `pc`, `clock`, futures, the ledger (`terminal`, `completed`, `failed`, `abandoned`, `attempts`), `queue`, `todo`, `log`; one action per branch of the loop, `WorkerTakes`, `WorkerReturns`, `Tick`, `Kill`, `Rerun` |
| `Dispatcher_proofs` | theorems about `Dispatcher` | |
| `Render` | `render()`, a fold over the ordered log and its projection | operators only: one per kind of event, `Sorting`, `Folding`, `Fold`, `Render` |
| `Render_proofs` | theorems about the fold of any log | |
| `Review` | `Worker` and `Render` together: the page of every log a worker's batch can be | the worker's actions |
| `Review_proofs` | theorems about `Review` | |
| `Docket` | the writing requests of the server, the appeal packet and the replay, over `Render`, store and grades database | `store` (which backend), `log`, the file store's `index` and the requests that hold a dropped one (`apart`), `folded`, `started` and `given` (what the process was started with), `grade`, `history`, per request `pc` and `my`; one action per step of `/edit`, `/ratify` and `/grade`, where `create()` is one step on the deployed store (`Commit`) and a lookup and an append on the file store (`LookUp`, `AppendLine`); `Raises` wherever a handler calls something, before or after the event is stored; `Restart` |
| `Docket_proofs` | theorems about `Docket` | |
| `MC*` | instances for TLC | |

How they fit.  `Worker` checks that every batch handed over satisfies
`HandsOverABatch`; `Dispatcher` assumes exactly that of its `Outcome`
(`OutcomeAssumption`).  `Dispatcher` uses the store through `Write`, which is
the `EventLog` promise with retries; `LocalStore` is shown to implement
`EventLog` when there is one writer, and the dispatcher is that one writer
within a run; `FirestoreStore` implements it for any number of writers.
`Stores` is the composition `open_store()` makes of the two: the backend is
chosen once and the other store does nothing.  `Worker` sees the cache as a
call that answers or raises and the validators as choices of verdict:
`ResponseCache` says what such a call answers, `Citation` which verdict it is.
`Review` folds what `Worker` writes, after every event, because the docket may
be opened over a run that is under way or was killed.  `Docket` starts from the
log a run left and serves `Render(folded)`; the handlers are plain functions
that the server runs in a thread pool, so the steps of two requests interleave.
On the deployed store one `create()` is one step of it, because the server
decides.  On the file store it is two, the look into the index and the append,
and two requests can be between them; what an interrupted append does to the
file is the subject of `LocalStore` and is not repeated.

Abstractions.  An event is `[step, unit, key, body]`; `<<step, unit, key>>` is its
identity and equality of `body` is equality of `content_hash`.  Prompts and
HTML are left out.  Outside `Text` and `Citation`, text is left out as well and
the validators' verdicts are choices.
The clock has three values: before `t_max`, after it, after
`MAX_WALL_CLOCK_SECONDS`.  Of the file store's lines the model keeps the events
that stand on a line of their own, how the last line ends (`tail`: with its line
end, in part of a line, or whole without its end) and whether a line before it
does not parse (`garbled`).  A kill is the kill of a process: that a machine goes
down and takes lines with it that were written and not yet synchronised is not
modelled.  The time stamps inside an observation's
payload are represented by the execution (`epoch`) that made it.  An
observation is its id, student, criterion, attempt, kind, whether its citation
was validated, whether it is escalated and who worded it; its id is
`<<student, criterion, attempt, edits>>`, the last a sequence with one number
per `+editN`.  A rendered run is its sheets, claims, table, tiles and anomalies;
the range hash is represented by the events it is the hash of.

In `Text` a character is a letter or stands for one of the classes the code
tells apart (blank, line breaks, U+2028, zero width, combining accent, end of a
sentence), and positions start at 1.  A hash is what it is the hash of.  A file
is its kind, its parts, and what a document has beside its paragraphs: tables
and headers, which `extract()` leaves out on purpose (extract.py:86-89), so that
what stands only there is in no span; what python-docx and pypdf make of bytes
is not modelled.  A pattern of the scanner is a sequence of places with a set of
words for each, and between two places either a gap, which ends at a full stop or
a paragraph and has a length of its own (40 or 60 characters in the code), or
blanks (`\s+`), which may cross the end of a paragraph.  A word is one letter,
and words that may be left out are left out.  The top-level alternatives of a
pattern count as patterns of their own.  The model cites what it likes: any span,
any words of the text, and as prefix and suffix any words of it, each on its own,
shorter or longer than it was asked for.

In `ResponseCache` a file is an inode that keeps being written to whatever it is
called meanwhile, and an answer is what the code takes it for: support, denial,
or neither.  In `FirestoreStore` the server decides in one step whether a
document exists; its client library repeats a request whose answer was lost, at
any time and any number of times.  `Docket` has a store: `--golden`, which serves
without one and refuses to write, is left out.

## 3. Runs

| Run | Bounds | Shows |
|---|---|---|
| `Stores.cfg` | 2 ids, 3 contents, one of which takes its line apart; 2 processes, 3 threads, `SoleWriter` for the file store, files of up to 3 lines (`MaxLines`), 3 writers for the deployed one | both are create-only and refine `EventLog`: the file store up to identities for which an error was raised with their line whole, with no silent loss through kills and failed writes, the deployed one without exception and answering only for what it holds |
| `LocalStoreTwoProcesses.cfg` (violation) | the same, two processes at once with a thread each | a process does not see what another wrote after it loaded |
| `LocalStoreUnreadable.cfg` (violation) | as the first | an event is confirmed and nobody can read it |
| `Review.cfg` | 3 criteria, 2 attempts (the code's `MAX_ATTEMPTS`), replies of up to 3 entries, second reader on | one outcome each, a well-formed batch, retry granularity, a cap that is earned; only validated citations are shown, one claim per criterion, tiles and table agree but for what the cap escalates without a draft, order does not matter, a shown claim stays |
| `WorkerAnyReply.cfg` (violation) | 2 criteria, replies not held to the question, one criterion outside the rubric | an omitted criterion ends without outcome |
| `Dispatcher.cfg` | 2 students, 2 threads, budget 1, 2 executions of the id | accounting, abandonment, breaker, budget, termination, refines `RunContract` |
| `DispatcherRerun.cfg` (violation) | the same | a rerun's time stamps collide with the first execution's |
| `Docket.cfg` | either store, events given at start-up or not, 2 students, 2 observations (escalated by the cap, absent), 3 requests, `AtOnce` = 2, 1 grade value | no version is lost (on the deployed store; on the file store if requests come one at a time), one live version (one at a time, no stored edit reported as failed), edits never collide (one at a time), pages agree with themselves, what is served is the fold of the log, an appeal packet holds every version |
| `DocketTwoEditsAtOnce.cfg` (violation) | the same | two edits at once on the file store take one identity and a version is lost |
| `DocketEditReportedFailed.cfg` (violation) | the same | an edit that is stored and reported as failed leads to two live versions |
| `ResponseCache.cfg` | 3 callers, one answer of each sort, each of the three purposes | nothing is invented, whatever overlaps; without two questions at once the entry is whole and every caller gets the same text |
| `Citation.cfg` | every text of up to 4 of the 9 characters, of up to 6 of three, documents of 2 paragraphs with and without a table, pages of 3 typeset lines, two pages; 3 patterns of 2 and 3 places, with gaps of up to 1 and 2 and with blanks; of texts of up to 5 characters and pages of 2 lines (`Judged`) every citation: window 1, quotes, prefixes and suffixes of up to 2, of any place, under any span | freezing loses nothing and is settled, the scanner reports the payloads and only those, a citation is accepted exactly where it holds |

Why the bounds are enough.  The store's cases depend on whether an identity is
taken by the same or another content and on who is between which two steps:
two identities, two contents that can be read back and one that cannot, and two
processes reach them all.  A third line is needed for an identity that is doubled
beside one that is not.  With `SoleWriter` no two threads are inside `create()`,
and `LocalStoreTwoProcesses.cfg` has two threads there of two processes; two
threads of one process, which share their index, are two requests of the docket
(`Docket.cfg`, `DocketTwoEditsAtOnce.cfg`).
The deployed store needs a third writer for nothing but a writer that meets
neither its own document nor the first winner's.  The worker treats criteria
alike and its attempts are bounded by the code; three criteria let one be
settled, one go round and one be left over by a malformed reply.  In the
dispatcher two units are enough for one to be late, abandoned, failed or over
budget while the other is finished; the accounting for any number is proved.
In the docket three requests are the shortest history in which an edit follows
an edit that follows an edit, which is what a chain that forgets needs, and two
in progress at once give every race of two; the requests are interchangeable, so
the run uses symmetry.  `overlapped` is a history variable: several promises of
the docket only hold when requests come one at a time, and those properties say
so instead of the model ruling the overlap out.  With overlap two edits of one
observation leave a 500 or two live versions of it, and on the file store
possibly a log with one identity for both; `NoVersionIsLost` over the deployed
store, `EveryPageAddsUp` and `TypeOK` are checked with overlap as well.
`MaxEpoch` = 2 is one rerun over whatever any first execution left.
Of three callers of the cache two race and the third asks afterwards.  The text
operators look at a position and its neighbours, one paragraph break, and the
window around a quote; four arbitrary characters are longer than any of the
patterns the substitutions replace (three line breaks), and the six-character
texts hold two paragraphs of two characters, a payload across a soft or a hard
break, and words one character further apart than a gap may be.  A citation needs
less: a phrase that overlaps itself with a window of one on both sides fits in
four characters, a surrounding one longer than the window in five.
`PdfTextFloor`, `Width` and the gaps are scaled down with the texts.
In `Citation` the steps have one order; the choice is in the file and in what
the model cites, so that no more files are cited of (`Judged`) than a citation
needs.

`SoleWriter` is the situation of a run (one dispatcher thread writes) and of a
docket used by one person; the run without it shows what the index then misses.
`Obedient` assumes of the model what the prompt asks for; the code does not
check it, which is what `WorkerAnyReply.cfg` shows.  That answers can be parsed is
not assumed, except where a property says so: `OneClaimEach` and `CapIsEarned`
exempt what an unusable answer left, and `TilesExceedByUndrafted` says what one
does: the page counts what the cap escalates without a draft in a tile, in no
column and on no sheet, and nothing else is amiss.  `~overlapped` in
`ResponseCache` is the premise two of its promises need: when two callers ask
the model for one entry at once, the second empties the file the first has
written, either can publish the other's text or half of it, the later rename
raises `FileNotFoundError`, and the two go on with different texts.  The
docstring of the class (cache.py:83-87) rests on "two workers racing on the same
key write the same bytes", which a live model does not promise.  It takes two
submissions with the same text, or two processes, to get there.

Deadlock is not checked where the system really stops: a worker that is done, a
citation that has its verdict, and a run that has ended with no execution left.

Fairness.  `Dispatcher` assumes weak fairness of the dispatcher's own steps (a
thread that can run is scheduled) and of the clock.  Nothing is assumed of the
workers: they may hang for ever, and `RunEnds` still holds.  The other
specifications state safety only: a worker may raise and a request may fail or
be killed at any point, so there is nothing they must reach.

Where code and text disagree (the `findings`): see the six violation runs.
Disagreements met on the way that no run is spent on:

* second_reader.py:112-115 says an unparseable answer must not poison the cache;
  it was written at line 103.  In `ResponseCache` a garbled answer becomes the
  entry and every later caller gets it.
* scan.py:170-172 says the caller falls back to the local scanner when the
  managed one is unavailable; only the probe at start-up does (line 243).  A
  later failure reads as "not detected", and a detection has position 0, which
  attributes it to the first paragraph.
* extract.py:112-114 lets a scan without text enter the run as `pdf_image`;
  when no character was extracted, freeze.py:53-56 refuses it as unparseable.
* After an answer that cannot be parsed the cap escalates `obs-...-a2` although
  nothing was drafted at attempt 2; worker.py:474-478 wants the id of an observation
  that exists, and render/__init__.py:394-395 says that each column sums to its tile.
  `TilesExceedByUndrafted` has the difference exactly.
* local.py:70-75: an `fsync` that raises after the line was written leaves its
  identity out of the index, and a retry appends it again, although
  tests/test_events.py:84 says "writing the same fact twice is a no-op".  The
  identities in doubt (`unnoted`) are the exception that `OneFactPerId` and the
  refinement of `EventLog` make.
* dispatcher.py:263 catches `concurrent.futures.TimeoutError`, which is the builtin
  `TimeoutError` on the Pythons supported (3.12 and later), around every write of
  the loop: a store that raises one has everything outstanding, the unit half
  written included, abandoned before `T_max`.  `Dispatcher` leaves that exception out; its `Kill` is a write that
  fails with any other.
* server.py:577-616: ratifying again after a grade arrived delivers the csv event
  with another content under one identity; the request ends in a 500 with some
  events written, and the page stays behind the log, which server.py:409-411 wants
  kept in step.  `ServedIsTheFold` is about requests that were refused no identity.
* server.py:541-547: when the history entry fails after the grade was set
  (grades.py:98), the page says "Nothing was recorded", and the grade will be exported.
  `Docket` has both writes and a failure or a kill between them, not the text.
* cli.py:166-170 and :310 serve a recorded run with the live store attached.  The
  first edit re-folds it from a store that holds that edit alone, and every sheet
  is gone.  The store of `Docket` holds the run it serves.
* prompts.py:65-73 asks for exactly `CONTEXT_CHARS` characters around a quote,
  worker.py:560-561 takes whatever the model reports, and an honest citation that
  reports one character more is refused like a false one.  `AcceptedWhereItHolds`
  states this width.

## 4. Proofs

`tlapm` checks every step; no assumption is used beyond the named `ASSUME`s of
the modules, which TLC evaluates on each run.

* `Stores_proofs`, of the file store, under `SoleWriter` (a hypothesis of each theorem):
  `TypeCorrect`, `CreateOnly`, `NoSilentLoss`, `Refinement`.  An identity stands twice
  in the file only if it is `unnoted`: an error was raised for it with its line whole.
  That is not inductive alone: a thread about to append relies on its dict being what
  the file says.  The strengthening ties every dict that can still be used to the
  file (it knows every line's identity but the unnoted ones, `Covers`, and what it
  knows stands there if the file can be read, `Backed`), and says that at most one
  thread is inside `create()`.  `EventLog` has the same exception in `doubtful`: a
  second fact may be recorded under an identity whose `create()` raised, and under no
  other.
* `Stores_proofs`, of the deployed store: `Answers` and `CloudRefinement`, without a premise.
  A document is only ever put where there was none (`DocumentsGrow`), so what
  was stored stays; a writer waiting for its answer has its fact among the
  documents, which carries `AnsweredIsStored` over the lost answers.
* `Stores_proofs`, of the opened store: `OpenedAnswers`, `OpenedIsEventLog`, `OpenedFileStore` lift
  the theorems of both stores to the one `open_store()` returns: each of its
  steps is a step of one store and a stutter of the other.
* `ResponseCache_proofs`: `ByteIdentical`, `Whole`, `NoInvention`.  The first two
  rest on a strengthening for runs without overlap: at most one caller is past
  its miss, the file it writes is the one with the temporary name, and whatever
  was handed on is the entry's content or there is nothing yet.  The third needs
  none of it: every file holds a text some model wrote, or a torn one.
* `Worker_proofs`: `TypeCorrect` for any answers; under `Obedient` (a hypothesis
  of each) `EachDecidedOnce`, `BatchIsWhole`, `RetriesAreRejections` and
  `CapIsForTheRejected`, for any rubric and any `MaxAttempts`.  That each criterion
  gets one outcome is not inductive: the invariant says where every criterion is.
  It is settled, or rejected in this attempt, or waits at the gate, and only one of
  the three; what waits has nothing in the batch from this attempt but the draft in
  hand; what is pending was rejected in every attempt before, or an unusable answer
  left it undecided.  `BatchIsWhole` is what the dispatcher assumes of a worker
  (`OutcomeAssumption` of `Dispatcher`), and `EachDecidedOnce` what the docket
  assumes of a log (`OutcomeAssumption` of `Docket`).
* `Dispatcher_proofs`: `TypeCorrect`, `Accounting`, `ContractKept`,
  `NoSelfCollision`, `AbandonmentIsAll`, `CacheMissBlamesNobody`, `CauseGiven`,
  and the action properties `BreakerStops` and `BudgetKept`.  The inductive
  invariant has four parts besides the types: `Partition` (every unit is waiting,
  fetched, current or in the ledger), `Settled` (the lists are disjoint and
  `terminal` is their union, up to the two loops that do not mark it), `Writing`
  (what `queue` holds is the rest of the current batch) and `Agrees` (the log says
  what the ledger says).  What holds of the first execution also needs that every
  event of the log is explained by the ledger, or by what `queue` and `todo` still
  hold.
* `Render_proofs`, for every log: `OrderedIs` (the order of the fold is the stable
  sort by rank and attempt), `VersionsKept`, `OneLive`.  The last two are about
  logs whose edits are well formed (`WellEdited`: each edit is of a version that
  stood in the log before it, under a generation above its).  The argument is one
  invariant of the fold for the events before the edits (`RunFold`: every
  observation comes from the event that decided it) and one for the edits
  (`EditFold`: every version known is live or in the chain of one that is, of the
  same student, and none is live that an edit replaced).
  `TablesAgree` is about every log whose caps escalate what was drafted
  (`CapsHaveDrafts`).  The fold then keeps one observation and one outcome under an
  id, and no outcome of a column without its observation (`Listed`); that the sums
  agree is a bijection between the two (`PartsAddUp`, `SameIds`).
* `Review_proofs`, under `Obedient`: `EvidenceIsValidated`, `SheetIsWhole`,
  `AnyOrderWillDo` (and `PageIsOrderFree`, its instance that the run checks),
  `TilesAndTableAgree` and the action property `SeenIsKept`.  The worker's invariant
  is strengthened by what the fold relies on (`Verdicts`): what is rejected was
  drafted and is decided by nobody but the cap, and nothing is drafted once an answer
  could not be used.  As the batch gives each criterion one outcome, no event
  overwrites in the fold what another put there.  So the fold is the sum of what each
  event contributes (`FoldSums`), whatever the order; and no contribution shrinks as
  the batch grows.
* `Docket_proofs`: `TypeCorrect`, `VersionsAreKept`, `OneVersionIsLive`,
  `EditsAreFree`, `ServedIsCurrent`, `PacketsAreComplete`, `TablesAlwaysAgree`, for
  any class, any requests, any number of them in progress, either store, any log a
  run may have left, and requests that fail wherever they call something.  That the
  fold loses no version needs `WellEdited(log)`, and that is not inductive: a
  request edits what the page showed when it came in, and writes the edit later.
  It also needs a store that takes an identity once (`TakesOnce`: the deployed one, or
  requests that come one at a time), which is a premise of the properties that rest
  on it.  The invariant has seven parts besides what a request needs to be where it
  is (`Ready`).  `Typed`, and `Kept` for store and index.  `Logged`: the log is
  sortable, no request has two edits in it and none that is not past its `create()`
  has one, and, under `TakesOnce`, it is well edited and the edits of an
  observation have the first numbers as generations.  `Behind`: what is served, what
  the process was started with and what a request has read are beginnings of the
  log that lack nothing of the run, so that they all fold the run to the same
  observations (`CutSame`).  `Chosen`: the version a request is about to edit is
  known to the log, and its generation is above that of the edit that made it.
  `OneByOne`, about requests that do not overlap, failed or not: the generation is
  the number of edits, and the page is the fold of the log once those that did not
  fail are over.  `InLine`, about those of them where no stored edit was reported as
  failed (`Answered`): the version chosen is the last one.  That is what
  `OneVersionIsLive` needs and `DocketEditReportedFailed.cfg` lacks.
  `TablesAlwaysAgree` has the premise that the
  caps in the run's log escalate what was drafted: `CapsAreDrafted` of `Review_proofs`
  shows it of a run whose answers could all be used, and `TilesExceedByUndrafted`
  says what happens otherwise.
* `Citation_proofs`: `CitedWhereItStands`, for any files, any window, any quotes,
  short ones and ones that occur several times included, and any prefix and suffix,
  each of its own and of any length.  The code compares three
  strings, a window on each side cut off at the ends of the span and the quote; the
  property speaks of one row of characters that stands in the span, with surroundings
  as wide as asked for or cut short by its ends.  The two agree
  (`MatchedIs`) if the quote
  is not empty, and if what is compared are texts and spans are intervals of them.
  The last is the invariant (`IInv`), and needs that every pass of ingest keeps it:
  what is kept, stripped, split into lines, rejoined or joined is a text
  (`PassesAreTexts`, `LinesAreTexts`, `RejoiningIs`, `ExtractIs`), and paragraphs lie
  within the text they are cut from (`OffsetsAre`).
* `Citation_proofs`: `NormalizedOnce`, for any file.  A rendition is a fixed point of
  `normalize()`, because each of its passes leaves a mark that the later ones do not
  wipe out: no accent that could be composed (`NfcPass`), no carriage return
  (`LineEndsPass`), nothing invisible (`VisiblePass`), no blanks before a line end
  (`TrailingPass`), no three line breaks in a row (`BlankRunsPass`), nothing blank at
  the ends (`StripPass`); and a text with all six stays as it is (`FixedPoint`).  The
  order of the passes matters in these lemmas: that nothing stands before a line end
  is needed where line breaks are dropped, and `TidiedBackwards`, the two
  substitutions the other way round, is the mutant TLC refutes.  The other
  half, that the line ends a plain text was saved with leave no trace, needs to know
  where each character went: `PlacesAre` gives its place in what was saved, `NextTo`
  says that accents still find their letter there, and `KeepAlong` and `OneNumbering`
  that keeping corresponding positions gives the same text (`SavedAlike`).
* `Citation_proofs`: `PayloadsAreCaught`, for any file and any patterns: any number of
  places, any words for each, gaps of any length or blanks between.  Two descriptions
  of a paragraph meet here: the scanner folds single line
  breaks and lets a gap end at those that are left, the span map looks for two line
  breaks in a row.  `MatchesAre` says of `finditer()` that each match is a reading of
  the pattern and that where a reading begins there is a match, although the search
  goes on behind the last match; `FoldedIs` what folding leaves; `SpansCover` and
  `SpansAreApart` that every character in sight stands in exactly one span, which
  holds of normalized texts only (a third line break would begin a paragraph that
  does not exist, hence `NoRuns`); `SpansGoOn` that a gap crosses no end of a span, and
  `StaysInItsSpan` that a pattern without blanks does not either.
* `Citation_proofs`: `NoWordIsLost`, for any file of any kind.  The characters of the
  file that `extract()` reads and that are no blanks are those of the rendition's
  spans, in the same order, and only a file without any is refused; where the blanks
  between them went is not claimed.  A document's tables and headers are not read.
  A pass may turn blanks into blanks (`BlankForBlank`) and drop blanks as long as it brings no accent next to a letter it
  was not next to (`FewerBlanks`), and each pass does no more (`PassesKeepWords`).
  Joining at blanks and cutting at line ends keep the order (`SeenAcross`,
  `JoinedWords`, `LinesWords`), so a page that is split into lines and rejoined by a
  heuristic keeps its words wherever the heuristic ends a paragraph (`RejoiningWords`
  by induction over the lines, `PageWords`), and so does each kind of extraction
  (`ExtractWords`).  The spans stand in the text in order (`SpansInOrder`) and what
  none of them holds is blank (`OutsideIsBlank`), which gives `SpanWords`.

Assumptions.  `RunLogAssumption` says that a run leaves a sequence of events of the
worker and the dispatcher about the students it was given, which is the type of
what those modules write.  `OutcomeAssumption` of `Docket` says that each criterion
of a student was decided by one event.  It is the theorem `EachDecidedOnce` for a
log that one execution of the run left, of a model that answers what it was asked.
A log to which two executions of one run id contributed (`DispatcherRerun.cfg`) is
not covered; of the docket's properties only `OneLiveVersion` and
`EditsNeverCollide` need it.  `RunAssumption` says that classes and requests are
finite.  `SourcesAssumption` says that a file has one of four kinds and a sequence of
parts, one of them if it is plain text and none if it cannot be read, and that only a
document has tables; `PatternAssumption` that a pattern has two places or more, that
its words are neither blanks, line breaks nor full stops, and that something stands
between each two; `WidthAssumption` that `CONTEXT_CHARS` is a natural number, and
`MaxLinesAssumption` the same of the bound of `LocalStore`.

Induction.  What a recursive function computes for every log is proved by putting
the numbers for which a claim holds into a set and taking the least number outside
it (`Least`, `Climb`, `CountUp` in `Render_proofs`).  For that, `Sorting` and
`Folding` are written as functions of a position in the log and not with `SortSeq`
and a fold over sequences; that each recursive function exists is a lemma of its own
(`SortingIs`, `FoldingIs`).  `Citation_proofs` argues in the same way about the lines of
a page (`RejoiningGoes`, `RejoiningIs`, `RejoiningWords`), the n-th of some positions
(`NthIs`) and the places of a text in what it was saved as (`PlacesAre`).

Only model-checked: termination (`RunEnds`), as liveness in general and `ENABLED` are
out of the prover's reach; and what `TilesExceedByUndrafted` says of a run with an
unusable answer, where `TilesAndTableAgree` has the others.  The sum of a column is written as the size of a set of
pairs and not with `MapThenSumSet`, whose definition in the community modules the
provers cannot unfold, and the words of a text with `Keep` and not with `SelectSeq`,
which is recursive.

## 5. Plan

Done: `LocalStore`, `Worker`, `Dispatcher`, `Render`, `Review`, `Docket`,
`FirestoreStore`, `Stores`, `ResponseCache`, `Text` and `Citation`, in this order,
with the proofs of section 4.  Left, the most important first: `Docket` over a
recorded run with the live store attached (cli.py:296-310); a store that raises
`TimeoutError` under the dispatcher; identity sanitising (`make_event_id`) and
`_latest_run_id` as operators; the arena's limiter.

Not modelled and not planned: what the libraries make of PDF and DOCX bytes, HTML
pages, prompts, the lint's and the scanner's word lists, the ADK front end,
scripts, cloud configuration (no state, or external).
