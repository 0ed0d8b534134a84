# A TLA+ model of the matching engine

This directory holds TLA+ modules for the matching engine of this repository,
TLC configurations that check them on small instances, and proofs that TLAPS
checks for every value of their constants. `PROJECT.json` lists the
components, the runs, the source lines behind every definition, the hazards
the properties are aimed at, the disagreements found, and the theorems.

## 1. The system

A scenario of order commands is written to a command WAL, applied one by one
to the engine of one instrument, and the execution events that result are
written to an event WAL. Replay applies the stored commands to a new engine
and compares its events with the stored ones. The market-data projection
builds a public book and a trade tape from the event WAL alone. Everything
runs in one thread; concurrency enters where the WAL's file is read while it is
written, and where a process dies and another one reopens the file.

| Component | State | Operations | Hard behaviour | Correct when |
|---|---|---|---|---|
| order book (`core/order_book`) | two maps of price levels, each a queue of resting orders; an index from id to order; the bound instrument; event and trade counters | new, cancel, replace, refusal of unknown commands | the same order in two places, nested matching loops, a replace made of two operations | levels and index agree, the book is not crossed, price-time priority, a rejection changes nothing, events account for every lot, every call returns |
| instrument engine (`core/instrument_engine`) | an order book | `apply` | dispatch on a raw number | every command reaches one operation or is rejected |
| projection (`projections/`) | its own index, the public view, the tape, the last applied sequence | `apply` | duplicated and early events, one refused event stops it | it accepts every event in its turn, equals the engine's book when it is level, is never crossed, keeps an exact tape |
| WAL segment (`wal/`) | the file; the writer's stream buffer, sequences, pending and committed positions; a reader's position and fetched bytes | open, append, commit, pop, destroy, recover, read | torn writes, crashes, failed flushes, tailing readers | committed records can be read back, recovery cuts only a torn tail, sequences have no gap, readers see a prefix of the log |
| record layout (`wal/wal_alignment`, `wal_record_header`) | none | alignment, padding, header lengths | sums that wrap in 32 bits | the lengths lead from each record to the next |
| typed WAL adapters, commit policies (`wal/`) | none beyond the segment | typed append and read; commit | a mismatching record is consumed; a policy that does not flush; results of failed commits | a reported commit is durable, typed reads skip nothing that matches |
| replay (`core/replay`) | counters, the previous command sequence | `replay` | either log shorter, longer, damaged or not matching | Ok only when the stored events are exactly those of the commands, otherwise the first divergence |
| scenario loader (`app/scenario_loader`) | none | `load_scenario` | a bad line in the middle, names with the same hash | all lines or none |
| application (`app/main.cpp`) | two WAL files per session | run, replay, dumps | a kill or a failed write between and inside the two WALs, files of earlier sessions | the verdict follows from the scenario, every process ends |
| event dump, dummy engine, benchmarks | none | formatting, measurement, a stub | none | not modelled |

Calls go from the application to the WAL facade, the engine and the
projection; engine and projection share nothing but the events.

## 2. The modules

`Domain` has the records and enumerations of `src/src/domain` as sets:
commands, events, sides, rejection reasons. Order ids and instruments are
model values; `ZeroId` is the id 0. Prices and quantities are integers. Fields
that are copied and never decided on (client, times, command sequence, WAL
framing) are left out.

`OrderBook` is `core::OrderBook` behind `InstrumentEngine::apply`.
`levels["Buy"]` is `bids_`, `levels["Sell"]` is `asks_`, `active_orders` the
index; `pc`, `command` and `incoming` are the locals of a call in progress, and
`events` the vector it returns. `Apply(c)` is the start of a call: the
dispatch, all validation in the code's order, a whole cancel, the cancelling
half of a replace, and the acceptance of a new order. `MatchFront` is one
iteration of the inner matching loop of either side, with the write-back to the
index, the pop of a filled order and the erasure of an emptied level.
`FillIncoming` and `RestIncoming` are the two ways `apply_new_order` ends. The
loops are split into steps because the properties speak of each trade; no call
starts before the current one has returned, as in the single-threaded code.
`validate_invariants` is the code's own check, conjunct by conjunct. `rested_at`
is the one ghost variable: the event sequence at which an order came to rest.

`MarketDataProjection` is the projection. A rejected event changes nothing, so
it is a stuttering step, and `Accepts` says when that happens. `book` keeps the
view as a function from price to quantity. `MarketData` joins engine
and projection through the event log: the events of a call are in the log when
it returns, and the consumer may be handed any event of the log at any time,
which includes the sequential loop of `apply_projection_from_event_wal`.

`WalSegment` is one segment file with its writer, the recovery scan and a
reader. The file is a sequence of units (two halves of each header, a payload,
a padding), the grain at which the code can tell a cut. The unit operators
stand for the byte layout; a magic number or a CRC is taken to reject anything
the writer did not lay out there, and a payload read that runs into other units counts as a CRC
mismatch. `stream_buffer` is what the `ofstream` holds back; `Spill`
hands first units of it to the file at any time, which is when a buffer fills.
A failing write or flush leaves any first part of the held units in the file,
and a failed stream may write its buffer once more when it is closed. `Crash`
loses the buffer and nothing else: the code flushes and never syncs, so the
death of the machine is outside what it promises. The reader keeps `cache`, the
units its `ifstream` has fetched and will not fetch again. Callers stop reading
at the first failure, so a reader that has failed takes no further step until a
new one is opened. `acknowledged` and `delivered` are ghosts, and the elements
of the position queues carry the record they stand for. A record written with
`Padded` payload needs alignment bytes; those of the application are multiples
of 8 bytes and need none.

Operators named `X_<fault>`, marked "the fault", are plausible errors in `X`.
The specifications do not use them; `PROJECT.json` pairs each with the
property that notices it.

`PriceTimePriority` is the abstract specification of the book: a set of
resting orders with times of arrival, at most one order that is being matched,
and a trade that must go to the best order at its price for as much as both
have. It has no levels, queues, index or loops. `OrderBookRefinement` maps the
book to it: the index with `rested_at` is the set of resting orders, the command
in the loop is the taker, the event sequence is the clock. A replace is one
step there, so that no state without either order is allowed.

`MatchingFunction` gives the engine as a function. `View` is the engine's state
without levels and queues; `Called` is the view after the first step of a call with
a given command, `Continued` the view after the next step of a call in the loop,
which trades with `BestMaker`, the order of the index that has priority.
`EngineIsFunction` says that the steps of `OrderBook` are those of the function.
Replay depends on it: two engines that are given the same commands emit the same
events.

`DurableLog` is the abstract specification of a segment: a log that only grows
and counts without a gap, acknowledged records that are in it, and a reader that
is handed its records in order. `WalSegment` implements it with
`scan(file).log`, what a scan accepts, as the log.

`TypedWal` adds the two commit policies and the typed reader to `WalSegment`.
`commit_result` is the result of the step just taken; `promised` is a ghost that
collects what a caller of the flush policy may rely on. A refused record has
been consumed from the raw reader, so the next typed read goes on behind it.

`WalLayout` is the arithmetic of the record lengths, with length fields of
`Word` values (2^32 in the code) and sizes and offsets that do not wrap. A record
knows at which offset its bytes are; the scan walks by the lengths in the headers
and finds a record only where one starts. Since each record leads to one offset,
the walk has a closed form: it accepts the records up to the first that is
refused or is not where the one before it leads. Nothing is torn here;
`WalSegment` has the torn files.

`Replay` is `ReplayRunner::replay` over an engine and two logs, one command read,
engine step, comparison or check a step. A log is what a reader makes of a file:
its header is usable or not, it has complete records, and its tail is clean or
torn. `compare` compares in the order of the code and reports the first field
that differs. `generated` is a ghost with all events generated so far.
`ScenarioLoader` is `load_scenario`: a line has the values of its tokens and the
set of fields that are absent or do not parse; the hash of a name is any
function, two names may share an id. `Line` is the set of all lines; `Place` is the
number of rows up to a line, which puts its command at its place in the result.
`Pipeline` joins loader, engine, the two
files and replay into processes that start one after the other, are killed at any
step or fail in a write, and leave files behind, of which any beginning may be
there, torn or not. It abstracts a segment to a log: `WalSegment` is where the
cuts are justified. It assumes that scenarios are sequences of lines and that
events are numbered from 1 or above, as `run_engine` does: a segment whose first
sequence is 0 has a header that no reader accepts. `Written` is what a write that
returns true may leave, `WriteFails` a write that ends the process. They differ for
an empty list: `write_commands` and `write_events` then return true without a
commit, so no failure but a death is noticed there, and the run goes on without the
file or its header. An exception that nothing catches counts as a death.

The `MC` modules give the instances.

## 3. The runs

| Run | Instance | Shows |
|---|---|---|
| `matching` | new orders and cancels, 4 ids, 2 prices, 2 quantities, event sequence up to 9 before a call starts | types, agreement of levels and index, FIFO, priority, accounting of lots; each step is the function's |
| `replace_and_reject` | all command kinds, two instruments, malformed commands; up to event 6 | a rejecting call changes nothing; instruments do not mix; the book implements the abstract market |
| `zero_order_id` | commands with id 0 | *violated*: see below |
| `market_data` | engine and consumer, arbitrary delivery, levels that fit the word and levels that overflow it | the consumer is never stuck, equals the engine in its orders and in every level that fits, is never crossed; tape exact |
| `market_data_catches_up` | fair version, up to event 5; sells of one lot and a buy of two that can sweep two of them | every call returns; the consumer reaches the end of the log |
| `wal_segment` | two records, two payloads, two epochs, no padding | durability, continuation, commit queue, reader, implements the durable log |
| `wal_torn_padding` | one padded payload | *violated*: see below |
| `wal_pending_visible` | one payload | *violated*: see below |
| `wal_layout` | 8-bit lengths, 20 sizes around each wrap, three records, reopenings | records in front of an oversize one are found; reopening loses none |
| `typed_wal` | two records, segment from sequence 5; a payload that matches, one of another type, an empty one of the type | reported commits are durable; recovery only ever cuts the torn tail; typed reads skip nothing |
| `replay` | every pair of 49 logs of a session: intact, cut at each record, torn, one field changed, a gap, a repetition, other types, extra events | Ok means equal; a failure is the first divergence |
| `pipeline` | nine scenarios, two paths, two processes, files left by a session; fair version | verdicts follow from scenario and paths, or without commands from what was written; exit 0 means all logged and stored; every process ends |

Bounds. `MaxEventSequence` stops new calls, not a call in progress. Two prices
and two quantities give trades at better and equal prices, partial fills on
either side, exact fills, and sweeps over two orders and two levels; four ids allow
two resting orders on either side or three in one queue with an aggressor to come. Ids
are interchangeable apart from `ZeroId`, hence the symmetry. `MaxSequence`
bounds the WAL's records: two suffice for a torn record behind a complete one, a
lost record that is appended anew with another payload, and a duplicated tail; the number of
crashes, reopenings, spills and readers is not bounded. Payloads are
interchangeable where all have the same layout. Padded records occur only in
`wal_torn_padding`, whose fault breaks the guarantees of the other runs; how long
they are is the subject of `wal_layout`.

`QuantityLimit` is where the sum of a level wraps (2^63 in the code). In
`market_data` it is 4, which a level of three orders exceeds, so that the run has
levels on both sides of it; `market_data_catches_up` has none beyond, and
fewer commands, so that it can go on until a buy sweeps two orders. The sizes of
`wal_layout` keep the code's header of 56 bytes and alignment of 8 and
shrink the word to 256, so that a payload of 192 is the largest that fits, 200
wraps the record length to zero, 249 to 255 make it equal to the header's, and
256 and above are truncated. `MaxProcesses` of `Pipeline` is two: the second
process meets whatever the first left, at the same paths, at swapped ones, or
with both files at one path. The commands of a replay are bounded by its logs.

The runs of the book allow a state without successor: callers may stop
submitting commands, and do at the bound; those of the pipeline allow it because
no process starts beyond the bound. The runs of the WAL and of `replay` check for
deadlock.

Fairness. A call runs to its end on its caller's thread, so its steps are
weakly fair; that new calls start is not assumed. The consumer's loop reads
until the end of the log, so consuming is weakly fair. A process that is not
killed goes on with its next step (`ProcessStep` is weakly fair); it may be
killed, and nothing makes a process start. No fairness is assumed of the WAL.

Three runs show where code and documents disagree.

* `zero_order_id`: the matching rules have a command without an order id
  rejected; `validate_new_order` never looks at the id. The projection refuses
  such an order, and a consumer then stays behind it for ever.
* `wal_torn_padding`: the scan checks `!file` after `ignore`, but reaching the end
  of a file in `ignore` sets only `eofbit`. A record without its padding is taken
  as complete, a reopened writer appends behind it, and what it commits cannot
  be read: the next scan finds a corrupted record. Records whose length is a
  multiple of 8, as the application's, are not affected.
* `wal_pending_visible`: WAL-010 has pending records invisible; the stream may
  hand them to the operating system before the commit.

Four more limits are in the models and have no run of their own. The first three
need sizes or a policy that the application does not use.

* The int64 sum of a level may overflow although every order of it is valid, and
  the level then disappears from the public book. `LevelsMatchBook` excludes the
  levels whose quantity does not fit, and only those: a level that overflows
  disturbs no other one.
* `append` accepts a payload of more than 2^32 - 64 bytes and reports success;
  neither it nor what follows can be read back, and a reopening writer refuses
  the segment. `FittingRecordsRead` of `wal_layout` promises the records in front
  of it only.
* The no-sync policy reports the last position as committed without calling
  `commit`, whatever state the writer is in. `PromiseKept` therefore speaks of the
  flush policy; commits of the other one come in between.
* A scenario without commands is written without a commit. If one of its files
  cannot be created or its header is lost, the program prints "Run OK" all the
  same, and only the replay at the end fails: with `CommandReadFailed` or, when the
  command file is good, with `StoredEventReadFailed`. `CompletedRunReplays` says so.

## 4. The proofs

Every theorem holds for all values of the constants that the assumptions of the
modules and the hypotheses named below allow. `PROJECT.json` lists them.

| Module | Proves | Rests on |
|---|---|---|
| `OrderBookProofs` | types, `BookValid`, `FifoQueues`, `OneInstrument`, `EventsAccountForOrder`; the action properties `RejectionMutatesNothing`, `TradesFollowPriority`, `EngineIsFunction`; the book implements `PriceTimePriority` | |
| `MarketDataProofs` | the five invariants of the run `market_data` | `OrderBookProofs` |
| `ReplayProofs` | `OkMeansEqual`, `FailureIsFirst` | `OrderBookProofs` |
| `PipelineProofs` | `OkMeansEqual` of the program, `CompletedRunReplays`, `RunExitZero` | `ReplayProofs` |
| `WalScanProofs` | lemmas on the scan of a file | |
| `WalSegmentProofs` | types, durability, continuation, commit queue, tailing reader, growing log; the segment implements `DurableLog` | `WalScanProofs` |
| `TypedWalProofs` | `PromiseKept`, `TypedReadsLog`, `LogOnlyGrows` | `WalSegmentProofs` |
| `WalLayoutProofs` | `FittingRecordsRead`, `ReopenLosesNothing` | |

### The order book

The proofs assume what `Domain` and `OrderBook` assume of their constants: the
missing id is an id, the missing instrument is no instrument, commands are
commands, and the first sequence and the bound are natural numbers.

None of the invariants is inductive alone. `BookValid` speaks of the states
between calls only; FIFO order says nothing about an order that is about to
rest; one instrument is kept only if the order in the loop has been checked. The
inductive invariant `IInv` holds in every state, also inside a call. It has the
types; `BookOK`, which joins the agreement of levels and index (each queued
order is the indexed one and each indexed order is queued, once, at its side and
price, with something left) with the FIFO order of every queue and the fact that
every `rested_at` lies below the next event sequence; an uncrossed book; one
instrument; and `CallOK`: the order in the loop has an id that is not active and
belongs to the bound instrument. The unused id is what makes resting it safe,
the bound on `rested_at` is what puts it last in its queue, and the condition
under which the loop ends keeps the book uncrossed when it rests. The step is
proved action by action. Every change of the book replaces one queue and one
entry of the index; the predicate `LevelStep` says what such a replacement has
to satisfy, the lemma `BookStep` that it keeps `BookOK`, and removing an order,
lowering the front one and appending one are shown to be instances of it.

Priority of a trade follows from `IsBest`, the FIFO order and the agreement of
levels and index. That a rejection changes nothing rests on a lemma on the two
validators: what `validate_replace_order` accepts, `validate_new_order` accepts
on the book without the replaced order. `EventsAccountForOrder` speaks of calls
that have returned; its inductive form `CallInv` says of a call in the loop that
its events are an acceptance and trades, numbered up to the next sequence, whose
last remainder is what is still to trade.

The initial states of the book map to those of the abstract market; under `IInv`
each action maps to one abstract step: a cancel to `Cancel`, the start of a new
order to `Submit`, of a replace to `Replace`, a rejection to `Refuse`, an
iteration of the loop to `Trade`, the two ends of a call to `Fill` and `Rest`.
That a trade goes to the order with priority needs the agreement of levels and
index and the FIFO order; that an order which rests meets no order it could
trade with is the condition under which the loops end.

`EngineIsFunction` follows from `IInv` too. The code reaches a maker as the front
of the queue of the best level; the function picks it from the index. They are
the same order because levels and index agree, and because FIFO order makes the
front of a queue the order that has rested longest at its price. So there is a
best maker exactly when the loop has not ended, and what a step emits and leaves
in the index is what the function gives; the rest is that the validators decide
on the index and the bound instrument alone.

### Market data

`MarketData` assumes that the event sequence starts at 1 and that new orders
have an id. The first is how `run_engine` creates its engine; without the second
the consumer really gets stuck, which is the disagreement shown by
`zero_order_id`.

The consumer may be handed any event at any time and lag behind by whole calls,
so its state cannot be related to the engine's present one. The invariant
`FeedInv` has a history: functions `h` and `c` that give the index and the
number of trades after each event emitted so far, where every event fits the
entries before and after it (`EventFits`). The engine stands at the end of the
history, the consumer at the event it applied last (`ConsumerOK`), and the index
at every place in between is uncrossed. That the engine's events fit is proved
action by action (`EngineEmits`), a replace with its two events included; that a
fitting event is accepted, and leads the consumer to the next entry, is
`FittingAccepted` and `ConsumeStep`. The four first theorems read their property
off the invariant.

`LevelsMatchBook` compares two sums, one over the ids of the consumer's index
and one over the places of the engine's queue. `MapThenSumSet` is a fold by
recursion over a set, about which the library proves nothing; the lemmas
`TotalOf` to `TotalSame` prove that the recursion defines a function, that the
order in which it takes the elements does not matter, and that a one-to-one
correspondence keeps the sum. The agreement of levels and index is that
correspondence.

### The WAL

The segment's theorems have one hypothesis, `Application`: no payload needs
padding and writers are opened with identifiers that the reader of a header
accepts. Both are what the application does: its records are structs of 64-bit
fields, whole multiples of 8 bytes, and `main.cpp` opens its two segments with
constant ids, epoch and sequences that are not zero. The hypothesis is needed:
with a padded payload `CommittedReadBack` fails (`wal_torn_padding`).

`CommittedReadBack` speaks of what a scan returns, so `WalScanProofs` first
shows what a scan is: a walk over the places at which a record ends
(`Boundary`), which goes on as far as the file has whole records in sequence, is
the same in two files that agree up to a place, is extended by an appended
record, and is kept by a cut at its end.

The inductive invariant `IInv` has the types, the positions of the commit queue,
the facts that acknowledged and published records are in the log (`Kept`), and
`SegmentAt(base)` for some place `base`: the last one at which the file was cut.
The place is needed because two parts of the system do not know of a cut. A
writer that failed keeps its stream and may write it again when it is closed,
behind what it has written already; a reader keeps units that it fetched before
the cut.

* `WriterAt`: the file and a healthy writer's stream together are a clean log
  (`Clean`) that ends at the writer's next sequence; the stream of a failed one
  still has units of such a log, from no further in front than `base`.
* `Settled` and `TailSafe`: what lies behind `base` is such that neither a scan
  nor a reader with a unit or two from before the cut takes it for a record that
  is not in the log.
* `Reads`: what has been returned is a prefix of the log; a reader that has not
  failed stands at the end of a record, with a cache that agrees with the file
  (`CacheFresh`) or ends in units that were cut off at `base` (`CacheStale`).

From `IInv` follow the five invariants. `LogOnlyGrows`, and that each step of
the segment is one of `DurableLog`, follow from `IInv` before and after the step
and the growth of the log. A step of the typed layer is a step of the segment or
leaves it alone, so `IInv` carries over to `TypedWal`; `TypedInv` adds
`PromiseKept` and that the k-th record copied out is the k-th that matches among
those the raw reader returned (`Copies`). The k-th is found by counting.

`WalLayoutProofs` assumes of the lengths what `WalLayout` assumes: the alignment
divides the header and the word, and the header is shorter than the word. Its
invariant `Laid` says that each record ends where the next begins, or where a
scan goes on behind it if it was the last when a writer cut its padding; that
records do not overlap; that the front of the file that consists of fitting
records ends at an aligned offset; and that a healthy writer has the next
number. With the arithmetic of `align_up` (`AlignUp`, `RecordLengths`) this
leads the scan from each fitting record to the next.

### Replay

`RunnerInv` joins the book's `IInv` (the engine of a replay is an order book)
with the types of the runner, the agreement of the compared events with the
stored ones, and a relation between phase and counters: how many events of the
command at hand are compared, how many generated events lie before it, and that
the commands replayed so far count up by one. `FailureIsFirst` needs two more
facts: generated events carry the sequences of the commands they came from, in
order (`GeneratedNumbered`), from which the index within the command follows,
and what is about to be reported is what the two logs show at the counters
(`Diagnosis`).

### The program

The theorems about `Pipeline` hold for every set of scenarios and paths, whatever
the files held before, wherever processes are killed, for any number of processes.
They assume what `Pipeline` and the modules below it assume. Their inductive
invariant `PipelineInv` has two parts.

`ProgramInv` is what a process knows of itself and of its files: the types; while
it replays, `RunnerInv` and `DiagnosisInv` of the replay, so that those lemmas
carry over to a runner that is started again and again on whatever files there
are; that the commands are those of the scenario and what has been written is in
the files (`FilesWritten`); and `EngineProgress`: the produced events number up
without a gap, and each applied command has events among them. From it follow
`OkMeansEqual` and `RunExitZero`: a run that exits with 0 has stored its commands
and events, all of them, since a replay that went through can neither stop early
nor find its command file unreadable (`Verdict`). `RunExitZero` says this of
scenarios with commands; without any there is nothing to store.

`CompletedRunReplays`, that scenario and paths decide the verdict of the replay at
the end of a run with commands, compares two engines that exist one after the
other: the state of the first is gone when the second starts. `History` therefore
keeps the sequence of configurations that the run's engine passed through, each a
view of the engine, the commands applied and the events produced. Each follows
from the one before by `NextConfiguration`, a function, which is what
`EngineIsFunction` makes it. While the run replays its own commands the replaying
engine is at one of these configurations (`ReplayIsAt`); both start from a new
engine and take the same next step. So what the replay has generated is always a
beginning of what was stored, no comparison fails, and when the commands end so do
the events. All that can stop such a replay is a gap in the sequences of the
scenario's commands.

What the code does with unusual input is part of this. A run with one path for
both files overwrites the commands with the events, and a scenario whose first
command has sequence 0 gives a segment with an unusable header; both replays fail
at the first read (`Unreadable`), and the theorem says so. A run without commands
goes on after a write that failed (`Written`); its files then hold no records, with
or without a header (`EmptyRun`), and its replay fails at the first header that is
missing.

### What is only model-checked

* The liveness properties `CallReturns`, `ConsumerCatchesUp` and `ProcessEnds`:
  they rest on fairness, which this prover does not handle. Every invariant and
  every other action property of the passing runs is proved.
* Nothing is proved about recursive operators of the standard modules such as
  `SelectSeq`, which the prover does not expand. The definitions that proofs are
  about count with sets instead. The library's induction theorems cannot be used
  either, as they take operators as parameters; where an induction is needed
  (sums, walks, the first record that is refused) it is over a set, and that form
  is proved from the cardinality of finite sets (`SetInduction`).

## 5. Not modelled

* Event formatting, the command line and its usage messages, benchmarks: no
  state.
* `DummyInstrumentEngine`: a stub that nothing uses.
* The algebra of the CRC, and the bytes of headers and records. The header's
  tail padding is listed as a hazard.
* Whether two names hash to the same id: the hash is any function.
* The 64-bit counters (sequences, trade ids) do not wrap in the models; they
  count single events from 1.
* The death of the machine: the code flushes and never syncs, and promises
  nothing.

## 6. The plan

1. `OrderBook`, `PriceTimePriority`, `OrderBookRefinement`, `MatchingFunction`: done,
   proved.
2. `MarketDataProjection`, `MarketData`: done, proved but for liveness.
3. `WalSegment`, `DurableLog`, `TypedWal`, `WalLayout`: done, proved for records
   of the application's kind.
4. `Replay`, `ScenarioLoader`, `Pipeline`: done, proved but for liveness.
