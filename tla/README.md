# Verification of the HASS QuestDB writer

TLA+ models of `custom_components/hass_questdb_writer`, the Home Assistant
integration that records state changes in QuestDB through a durable SQLite
spool. The modules are written from the source; `PROJECT.json` maps every
definition to the lines it models.

## 1. Inventory of the system

| Component (source) | State | Operations | Partners |
|---|---|---|---|
| Durable spool (`spool.py`) | tables `pending`, `dead_letter`, the row `spool_stats`, two AUTOINCREMENT counters, limits | open with schema check, overlap check and recount; `enqueue_many`, `peek_batch`, `mark_delivered`, `record_attempt`, `move_to_dead_letter`, `delete_dead_letters`, `reclaim`, `compact`, `close` | called by the worker thread only |
| Writer service (`worker.py`) | worker state, `_accepting`, block reason, storage pause, start and stop events, ingress queue, `held`, the delivery task's locals | `start`, `submit`, `stop`, `snapshot`; thread `_run`; tasks `_async_main`, `_persist_loop`, `_delivery_loop`; `_deliver_once` | caller's threads, spool, transport, schema, guard |
| Transport (`transport.py`) | one HTTP connection, reused | `send_batch`, `exec_query`, `close` | QuestDB; called in an executor thread |
| Schema gate (`schema.py`) | retention, whether a TTL was rejected, a transport of its own | `ensure`: create, validate, align the TTL | QuestDB; called in executor threads by the delivery task and by the flush |
| Filesystem guard (`storage_guard.py`) | reserve settings | `check` | persist task |
| Runtime and entry (`runtime.py`, `__init__.py`) | service, listener, auth monitor, repair issue, whether reauthentication was asked for | setup, retry, unload, reload, state-change listener, monitor tick | Home Assistant, writer service |
| Flows (`config_flow.py`) | the stored connection, unique id and options; what a flow holds across its probe | add, reconfigure, reauthenticate, edit options | entry, QuestDB |
| Events (`event.py`, `ilp.py`, `attribute_filter.py`) | none | conversion of one event | listener, worker |
| Views (`sensor.py`, `entity.py`, `diagnostics.py`) | none | read snapshots | service |

The path of an event: the listener calls `submit`, which puts it into a bounded
queue or refuses it; the persist task moves it in batches into `pending`; the
delivery task sends the oldest rows and, by the answer, deletes them, counts an
attempt, narrows a rejected batch down to single rows, buries a row in
`dead_letter`, or stops delivering. Every step may meet a stop, a storage
condition, a lost answer or the end of the process.

What is hard here: three threads and three tasks share the service; state is
read before an await and used after it; a request may have been committed
although its answer is lost; the process may die between a commit in QuestDB
and the delete in SQLite; storage pauses of two tasks share one state field
with delivery errors; capacity checks trust counters kept by triggers; a reload
may lower limits under stored rows. Around the service, a setup can fail at five
places and be retried over what it left behind; two flows can hold old copies of
the entry across a probe; the gate and the flush share a connection; QuestDB
applies a change of the TTL later than it accepts it; and the disk belongs to
others as well. The list under `hazards` in `PROJECT.json`
gives each of these with its line and the properties that cover it.

What makes each component correct:

* spool: an event has one home; counters are exact; limits hold; numbers are
  never reissued; eviction takes only what it must; marks are never lost;
* writer service: no accepted event is dropped by the service, no durable event
  is lost or overtaken, only guilty rows are buried, shutdown is complete, and
  start, stop, delivery and pauses come to an end;
* runtime and entry: an event is recorded once, a spool file has one owner, the
  report of rejected credentials lives and dies with its runtime, and stored
  options reach it;
* flows: no two entries have one destination, a repair of the credentials moves
  nothing, and the connection that was stored is what runs in the end;
* schema gate: rows reach a table with the declared keys only, the retention
  settles, and a gate that waits opens without a reload;
* guard, reclaim and compact: the reserve is kept, a pause is declared on a
  measurement and has its own rewrite, and a pause that reclaiming can end does
  end.

The code keeps most of this. Section 3 says which of it it does not keep.

## 2. Modules

| Module | Role |
|---|---|
| `Spool` | the SQLite spool: one action per method |
| `MCSpool` | its small instance |
| `SpoolProofs` | theorems about `Spool`: rows, numbers, uncertain marks |
| `SpoolLimitsProofs` | theorems about `Spool`: byte counters, limits, the dead-letter ring |
| `RowSums` | lemmas about sums over a finite set of rows |
| `Worker` | the writer service over `Spool`, with caller, QuestDB, disk, clock and crashes |
| `MCWorker` | its small instances, one per `MCWorker*.cfg` |
| `WorkerProofs` | theorems about `Worker`, and that it implements `DeliveryContract` |
| `DeliveryContract` | abstract specification: durable at-least-once delivery in order |
| `ContractProofs` | theorems about `DeliveryContract` |
| `Entry` | the config entry: stored data, flows, setup and unload, runtimes, credentials report |
| `MCEntry` | its small instances |
| `EntryProofs` | theorems about `Entry` |
| `Schema` | the schema check, its connection, its two callers, and the table |
| `MCSchema` | its small instances |
| `MCSchemaBlocked` | an instance that remembers whether the gate was blocked over the table |
| `SchemaProofs` | theorems about `Schema` |
| `StoragePressure` | guard, pause and reclamation on a disk counted in pages |
| `MCStorage` | its small instance |
| `StorageProofs` | theorems about `StoragePressure` |

The modules overlap on purpose, each at its own grain: `Worker` takes the verdict
of the guard and of the schema check as a nondeterministic choice, and
`StoragePressure` and `Schema` say which choices there are; `Entry` keeps of a
service only where its thread is and what its snapshot shows.

### Spool

`pending` and `deadLetter` are sets of rows; a row's order is its number, as in
the `ORDER BY` clauses. Every method is a `BEGIN IMMEDIATE ... COMMIT`
transaction with `synchronous=FULL`, so it is one atomic action that either
happens or raises and leaves everything as it was; an exception is therefore
the negation of the guard (`TooLarge`, `Conflicting`, `Full`, `~Known`,
`DeadLetterFull`). That SQLite rolls back what a crash interrupts is assumed.
The triggers are the operators `PendingInserted`, `PendingDeleted`,
`DeadInserted` and `DeadDeleted` on `stats`; capacity checks read `stats` and
never the tables, as in the code. The eviction loop of `move_to_dead_letter`
is described by what survives it: a dead letter survives if the row fits once
everything older is gone. Error texts, timestamps and `event_id` syntax are
left out. Two events may share an id and differ in content, which is what the
conflict checks are about.

### Worker

| Variables | Code |
|---|---|
| `caller`, `listening`, `offered`, `stops` | where the caller is inside `start`/`stop`, and what the listener offered |
| `state`, `accepting`, `blockReason`, `episode` | `_state`, `_accepting`, `_block_reason`, `_storage_episode` |
| `ready`, `stopRequested`, `loopSet`, `stopAsync`, `deadline` | `_ready`, `_stop_requested`, `_loop`, `_stop_async`, `_shutdown_deadline` |
| `ingress`, `held` | `_ingress` and the persist task's list |
| `main`, `persist`, `deliver`, `failure` | program positions of `_run`/`_async_main`, `_persist_loop`, `_delivery_loop`; `_failure` |
| `blocked`, `isolate`, `schemaReady`, `job` | locals of the delivery task; what each `_deliver_once` has in flight |
| `disk`, `received`, `faults`, `crashes` | the environment |
| `accepted`, `durable`, `lost` | history, used by properties only |

A task runs without interruption by other tasks from one await to the next; an
action is one such stretch, cut once more where another thread can step in with
an effect (for example between the two halves of `stop`). The persist task has
no await between its drain and its look at the stop signal; `Yielded` keeps the
other tasks out of that gap. `asyncio.to_thread` makes a send two steps: `job`
goes to "sent", QuestDB answers at some later time, and the task that waits
applies the answer then, to whatever the spool holds by then. A cancelled send
still ends before the loop does (`EndLoop`), and its answer is dropped.

The answers are the classes `send_batch` distinguishes: 2xx, 400, 401/403,
other permanent, retryable without (425, 429) and with (408, 5xx, connection
errors) an uncertain outcome. An uncertain request may have been committed. A
disk is ok, low (the guard refuses, `_reclaim_spool` may or may not free enough),
full (a COMMIT fails) or read-only (BEGIN IMMEDIATE fails). `Breakage` names
failures that nothing recovers from: a factory that raises, a start timeout, a
plain `SpoolError`, a plain `SchemaError`, an exception while closing.

Abstracted: waiting times (a wait may end at any moment, since every wait has a
timeout; backoff and flush intervals choose when, never whether), diagnostic
counters, texts, encoding (an event is encodable or not, and has a length).

### DeliveryContract

Memory, promised, stored and remote events, and six steps: accept, store the
oldest, receive in order, release what was received, give up what can never be
delivered, and lose the memory in a crash. `Worker!ImplementsContract` is the
refinement: `volatile` is what `ingress` and `held` hold, `promised` what was
ever durable, `stored` the events of `pending`, `remote` what QuestDB received.

### Entry

| Variables | Code |
|---|---|
| `data`, `uid`, `options`, `others` | the stored entry (`Data` is destination and credentials), and the unique ids of other entries |
| `phase`, `reload`, `platforms`, `watched` | where Home Assistant's entry manager is, a reload that was asked for, the sensors, the update listener |
| `cur`, `built`, `worker` | the runtime attached to the entry, what it was made of, and every service with a thread or listener left |
| `monitor`, `asked`, `issue` | `_monitor_task`, `_reauth_requested`, the repair issue |
| `flow` | the reauthentication and the reconfiguration: closed, showing a form, or at the probe with the data it will store |
| `secret`, `faults`, `rotations`, `acts` | the credentials the servers take; bounds |
| `inherited`, `abandoned`, `missed`, `overtaken` | history: an issue from before a kill; threads a failed setup gave up on; options saved in a setup; a stale reauthentication that was stored |

Everything runs on Home Assistant's loop, so an action is a stretch from one
await to the next: setup is cut at the start of the service, at the forwarding
to the sensors and at the stops, unload at the join, a flow at its probe. A
failed step is an action of its own (`StartRaises`, `StartTimesOut`,
`RegisterFails`, `ForwardFails`), followed by the clean-up the code does for it
and no other. Home Assistant's part is external: one setup, unload or reload at
a time, a retry after `ConfigEntryNotReady`, no way out of a failed unload but a
restart, no second forwarding over sensors that are still there.
`add_update_listener` also fires for new data; together with the reload that the
flow schedules this is one pending reload here.

### Schema

`pc` says which statement of `ensure` a caller is at, `sent` whether its request
is out. A statement is two steps: `Request` puts it on the connection, an answer
takes it off. The connection is closed by whoever fails on it, and `http.client`
refuses a request while another waits for its answer, so the flush and a check of
the delivery task that is still in its executor thread can break each other's
(`Broken`). A `PermanentIlpError` is `Refused`, which depends on the statement it
meets. The table is missing, as declared, or of another shape; `queue` holds the
TTL changes that QuestDB has accepted and not applied (ADR 0009 measures the
delay). `tampered` and `lagged` record, per caller, that the table was changed
behind a validation and that the TTL was read while a change was queued.

### StoragePressure

Pages of the disk: those of others, live and spare pages of the database file,
and the log. SQLite is external and reduced to four facts. A commit of n pages
adds to the log until `WalMax`, where it is started over. New rows use spare
pages first, and what the file grows by is counted at the commit.
`incremental_vacuum` moves up to `Pass` pages through the log. `VACUUM` needs the
live pages once more. The persist task measures, reclaims when the guard blocks
and the interval has passed, and measures again; others may act between any two
steps, between the measurement and the write too. Reclaiming is reached only
through a verdict of the guard: a write that fails with `SQLITE_FULL` above the
reserve reclaims nothing, which the instance covers as well. `PauseEnded` is
`_resume_after_storage_block`: a durable write of either task closes the pause and
gives the next one its rewrite back (`rewrote` is `_rewrite_attempted`).

## 3. Runs

| Run | Result | Shows |
|---|---|---|
| `spool` | pass, 186 thousand states | all orders of up to four insertions with deliveries, attempts, burials, deletions and reopenings |
| `worker_faults` | pass, 1.0 million | lost answers, a read-only disk, a rejected row, a kill and a restart under lower limits |
| `worker_shutdown` | pass, 0.87 million | flush on shutdown, schema gate, unencodable and oversized rows, failures at every stage, two calls of stop |
| `worker_progress` | pass, 53 thousand | liveness under the fairness below |
| `entry` | pass, 371 thousand | failed setups, retries, slow stops, reloads, racing flows, rotated credentials, a kill |
| `schema` | pass, 424 thousand | a shared connection, every class of answer, an operator at the table, reloads and a kill |
| `storage` | pass, 53 thousand | every way to share a small disk, old and new database files |
| `entry_credentials` | violation | credentials rejected at the schema check are never reported (`RejectionSurfaces`) |
| `schema_retention` | violation | a TTL of an earlier reload stays in force (`RetentionAligned`) |
| `worker_persist_batch` | violation | a persist batch above the row limit blocks for ever (`PauseEnds`) |
| `entry_repair` | violation | a password dialog moves the writer back to the old destination (`RepairMovesNothing`) |
| `schema_drop` | violation | rows go to a table that QuestDB made without the dedup keys (`RowsOnlyIntoDeclaredTable`) |

### What the code does not keep

The five violations are statements of the repository's own documents that the
code does not keep; `findings` quotes the lines. In none of the worker's is a
durable event lost: `NoDurableLoss` holds in the runs that include the same
behaviour.

* `entry_credentials`: credentials change while the entry starts, the check of the
  schema meets the rejection first, and the worker is blocked without the reason
  that the monitor looks for.
* `entry_repair`: a reauthentication reads the destination, waits at its probe, and
  stores it over a reconfiguration that has finished meanwhile. The unique id stays
  at the new destination.
* `schema_retention`: a retention of 1 day is set back to 0 by a reload that comes
  before QuestDB has applied the 1; no operator and no failure is involved.
* `schema_drop`: the gate looks at the table until it has passed once. A table
  dropped afterwards is made again by the next row.
* `worker_persist_batch`: the options allow a persist batch above the row limit of
  the spool, and such a batch is offered whole for ever.

More statements of the documents are not kept, with less at stake. Each has its
definition next to the others and a configuration under which TLC finds it
violated; they are counterexamples to look at and no runs of `PROJECT.json`.

| Configuration | Definition | The document says | The code |
|---|---|---|---|
| `MCEntryOptions` | `OptionsReload` | "options changes always reload the entry" (ADR 0007:70); "Saving options reloads the entry" (architecture.md:403) | the listener is registered at the end of the setup (`__init__.py:253`); options saved before are read by nobody until the next reload |
| `MCEntryService` | `OneService` | "A single worker owns the spool" (architecture.md:52), no "abandoned worker threads" (14), a new runtime "only after the previous runtime has stopped" (67) | a setup that gave up on a slow worker is retried, and there are two (`runtime.py:307`) |
| `MCSchemaAlter` | `RetentionGivenUpByEdition` | "QuestDB Enterprise rejects a non-zero TTL and the integration then logs once and keeps writing without it" (README.md:24-26) | rejected credentials and a dropped table at the ALTER count as that too (`schema.py:246`), and the retention is given up until a reload |
| `MCSchemaBlocked` | `BlockedUntilReload` | a table that differs "blocks delivery [...] until it is corrected and the config entry is reloaded" (architecture.md:365-367) | the gate looks again by itself, as the docstring of `_ensure_schema` says (`worker.py:1115`); the older document is wrong here, not the code |
| `MCStorageMeasure` | `PausesOnlyIfNeeded` | "re-measures, and pauses only if the space did not come back" (ADR 0015, decision 2) | after a rewrite that failed, the verdict is the one from before its checkpoint (`worker.py:682`) |
| `MCWorkerHuge` | `AcceptedSettles` | "Deterministically invalid rows must not block the entire spool forever" (architecture.md:279) | an encoded row above `delivery_batch_bytes` (which the options allow below `max_serialized_event_bytes`) fails the worker, and stays the oldest row (`worker.py:1206`) |
| `MCWorkerFlush` | `TransportNeverShared` | the single worker "avoids concurrent access to the transport" (architecture.md:54-55) | the flush sends while a send of the delivery task is in its executor thread (`worker.py:908`); the cost is a duplicate, which dedup takes |
| `MCWorkerBlocked` | `BlockVisible` | "Authentication and non-row permanent errors enter `blocked`" (architecture.md:143-144) | the end of a storage pause shows running over a delivery that is blocked for good (`worker.py:773`) |

Two smaller disagreements are visible in `Worker` and have no configuration:
`stop()` writes `STOPPING` over `FAILED` while a failed thread is still closing
its resources (`worker.py:543`), and a row moved to the dead-letter ring does not
end a storage pause (`worker.py:1319`), which `PauseEnds` states as its exception.

### Properties

Spool: `RowCountsExact` and `ByteCountsExact` (counters agree with the tables),
`OneHome` (no number or id twice, in one table or across both), `BurialPossible`
(a row that fits the ring at all can be buried), `SequencesNeverReissued`,
`CapacityRespected` (a call that adds rows leaves its table within the limits by
the real counts, even after limits were lowered), `UncertaintyKept`, and
`RingEvictsOnlyWhatItMust`.

Worker: `AcceptedAccounted` (what submit() accepted is in exactly one place),
`NoDurableLoss`, `DeliveredInOrder`, `OnlyGuiltyBuried`, `CleanStopPersistsAll`,
`ImplementsContract`; under fairness `StopEndsThread`, `StartReturnsEventually`,
`AcceptedSettles` and `PauseEnds`. In the shutdown run `ImplementsContract`
stands for `NoDurableLoss` and `OnlyGuiltyBuried`: the contract gives up nothing
but what can never be delivered, and `ContractKeepsPromises` is proved of it.

Entry: `RecordedOnce`, `OneOwner`, `IssueHasRuntime`, `UniqueIds`; under fairness
`RejectedSendReported` and `StoredIsUsed`. Schema: `TtlSettled`,
`GateDiesOnlyOfShape`, and `GateOpens` under fairness. StoragePressure:
`ReserveKept`, `PauseIsMeasured`, `RewriteLeftForPause` (a tried rewrite is
remembered for its own pause only), and `StoragePauseEnds` under fairness.

Some of these have an exception written into them. It is what the code really
does, found by checking the property without it, and TLC violates every one of
them when the exception is taken out. The last column says what the documents
have to say of the exception:

| Property | Exception | Code | Documents |
|---|---|---|---|
| `OneOwner` | a thread that a failed setup could not stop in time | `runtime.py:307` | deny it: `MCEntryService` |
| `IssueHasRuntime` | an issue left by a kill, until the next start | `runtime.py:338` | silent |
| `TtlSettled` | a TTL read while a change was queued; a refusal on record; a table altered after its check | `schema.py:233`, `schema.py:246` | deny the first two: `schema_retention`, `MCSchemaAlter` |
| `GateDiesOnlyOfShape` | an answer of another shape; a table dropped between two statements | `schema.py:213` | silent |
| `GateOpens` | a gate that has ended: its worker is failed until a reload | `worker.py:893` | silent |
| `PauseIsMeasured` | a rewrite that failed just then | `worker.py:682` | deny it: `MCStorageMeasure` |
| `StoragePauseEnds` | a rewrite that this pause has used up | `worker.py:821` | ADR 0015, decision 5, chooses it |
| `PauseEnds` | a row buried last | `worker.py:1319` | ADR 0015, decision 8, speaks of any durable write |

Each property of a passing run has a mutant in `PROJECT.json`: a wrong variant of a modelled
definition, kept next to it and named after what is wrong, under which TLC finds
the property violated.

### Bounds

* Three events: a batch of two, one row behind it, and a guilty row in front of,
  between or behind good ones. `MCSpool` has four events over three ids, so that
  an id can come back with the same and with another content.
* Row limits of 1 to 3 and payloads of one and two bytes, so that the row and the
  byte limit each bind first somewhere; two configurations, the second tighter,
  so that limits are lowered under stored rows.
* `MaxSequence` bounds insertions in `spool`; in the worker's runs no event comes
  twice and it does not bind. `MaxAttempts` bounds attempts per row; in
  `worker_progress` it is above what its one fault and the narrowing of rejected
  batches can cause, so it cuts no behaviour.
* `MaxFaults` 2 (1 in `worker_progress`), `MaxCrashes` at most 1, `MaxStops` at most 2: every pair of
  an outage, a disk condition and a failure, and a stop or a crash at any moment
  of them.
* `entry`: two destinations, two credentials, three slots for runtimes (one
  current, two left over by failed setups, which is what two faults can leave),
  three acts of users, so that a flow, a second flow and an edit of the options
  can meet in one setup, and one change of the credentials. The destinations are
  alike, so the entry starts at one of them (`MCInit`).
* `schema`: one fault and two acts, so that a check meets a lost answer and an
  operator, or two operators' acts; `MaxQueue` 2 holds a change of the operator
  and one of the check.
* `storage`: nine pages with a reserve of four (the percentage binds, rounded
  up), batches of two, passes of one page and a log of two, so that the reserve, a
  full disk, a log at its limit and a rewrite without room all occur. The disk is
  shared with others in every proportion.
* The violations have the smallest bounds that show them: no faults in
  `entry_repair`, `schema_drop` and `worker_persist_batch`, so that nothing but the
  order of the steps is to blame.

### Fairness

`FairSpec` assumes that threads and the clock run: weak fairness for the
caller's continuation, for `_run`, for the persist task, for answers (a request
has a timeout) and for the deadline. The main and the delivery task get strong
fairness, because the persist task closes and opens the loop to them over and
over; asyncio's ready queue is first in, first out, so a task that is ready
whenever the loop turns does run. A bad disk recovers in the end, by an operator
or by reclaiming. Starts, submits, stops, faults and crashes are never forced.

`Entry` assumes weak fairness of Home Assistant's loop and retry timer, of the
monitor's sleep and of each service thread; no user acts. `Schema` assumes that
requests end (they have a timeout), that the waits of the gate end (they have
one too) and that QuestDB applies what it accepted. `StoragePressure` assumes
that the persist task polls and that time goes on; nobody frees space for it.

## 4. Proofs

Every invariant, every action property and the refinement that a passing run
checks is also a theorem, for every value of the constants: any number of events,
slots, destinations and pages, any limits, and no bound on faults, kills, stops or
acts of users. Each module's argument is an inductive invariant, one lemma per
group of actions that the invariant survives, and a temporal step. TLC finds each
inductive invariant true on the instances of the runs as well.

| Module | Theorems | Inductive invariant |
|---|---|---|
| `SpoolProofs` | `SpoolTypeOK`, `OneHome`, `RowCountsExact`, `SequencesNeverReissued`, `UncertaintyKept` | `SpoolInv` |
| `SpoolLimitsProofs` | `ByteCountsExact`, `BurialPossible`, `CapacityRespected`, `RingEvictsOnlyWhatItMust` | `LimitsInv` |
| `ContractProofs` | the contract loses nothing and delivers in order | `ContractInv` |
| `WorkerProofs` | `TypeOK`, `AcceptedAccounted`, `NoDurableLoss`, `OnlyGuiltyBuried`, `DeliveredInOrder`, `CleanStopPersistsAll`, `ImplementsContract`; the spool's properties inside the worker | `WorkerInv` |
| `EntryProofs` | `EntryTypeOK`, `OneOwner`, `RecordedOnce`, `IssueHasRuntime`, `UniqueIds`; how options are missed and the identity is lost | `EntryInv` |
| `SchemaProofs` | `SchemaTypeOK`, `TtlSettled`, `GateDiesOnlyOfShape`; how rows go astray | `SchemaInv` |
| `StorageProofs` | `StorageTypeOK`, `ReserveKept`, `RewriteLeftForPause`, `PauseIsMeasured` | `StorageInv` |

**Spool.** `OneHome` is not inductive, since nothing in it keeps a fresh number
away from a stored one. `SpoolInv` adds `CountersAhead` (no number in either table
is above its counter) and `TablesFinite` (needed for cardinalities).
`NewRowsFresh` is the main lemma: the rows of a batch take the numbers
`lastSequence + 1 .. lastSequence + n`, one each in the order of the batch, and
their ids are in neither table; it rests on `RankMonotone`, which counts fresh
positions. Then one lemma per method shows that it preserves `SpoolInv`. The
theorems are proved of `SpoolUse`, where the methods are called in any order with
any arguments; `SpecIsUse` brings them to `SpoolSpec`, `WorkerUsesSpool` to the
worker.

**Limits.** The limits are enforced against counters, so `LimitsInv` adds
`ByteCountsExact` to `SpoolInv`. A byte count is a fold over a set of rows in an
order that the library leaves open; `RowSums` proves that the sum does not depend
on it: what it is for an empty set, one row, a union, a difference and an image.
Those are inductions over finite sets. The library's induction theorem cannot be
used (it takes an operator), so each is a look at a smallest set that violates the
claim (`SmallestSubset`, from the well-foundedness of strict inclusion). The
eviction loop rests on `SurvivorsUpward`: the surviving dead letters are the rows
from some id on, because a longer prefix evicted never fits less (`FitsMonotone`).

**Worker.** `WorkerInv` is the conjunction of parts that are proved separately.

* `ControlInv` follows the threads. `Starting`: nobody records events before the
  worker thread is ready. `Stopping`: a stop is signalled only behind a closed
  door. `Ending`: the main task comes past the persist task only when that has
  found both queues empty, or a failure is on record. `CleanStopPersistsAll`
  follows from `Ending`.
* `DataInv` follows an event. `FlowInv`: what waits in memory is in order and
  younger than everything that ever was durable. `RowsInv`: the order of the rows
  is the order of their events. `JobsInv`: for each of the two senders,
  `RequestInv` says what a request in flight still means: it carries a prefix of
  the spool, and its sequence numbers name its own events or none, whatever the
  other sender and the persist task have deleted, rewritten or added since. The
  last is why an overlapping flush and a late answer delete nothing they must
  not. `Innocent`: QuestDB has only events that were durable first.
* The same lemmas show `ContractStep`: the step is one of `DeliveryContract`, or
  invisible to it. This is the refinement, and `DeliveredInOrder` is obtained
  from it (`OrderKept`) rather than from the actions.
* `StepCallsSpool`: a step makes at most one call of the spool. So everything
  proved of a spool in use holds of the worker's (`WorkerUsesSpool`), among it
  `SequencesNeverReissued`, which a sender relies on between its peek and the
  write of its answer, and the exact counters, which the delivery loop and the
  flush decide on.

**Entry.** `EntryInv` ties the entry manager to the service threads:
`CurrentAttached` (there is a current runtime exactly from the start of a setup to
the end of an unload), `StopAnnounced` (whoever waits for a thread to end has told
it to stop), `MonitorAttached`, `SetupUpToDate` (a setup was built from the stored
options unless a change was missed), `ReauthAgrees` and `ProbeHasData` (what a flow
in flight still agrees with). `OneOwner` needs the first two, `RecordedOnce` follows
from them and `OneOwner`; the others split into `Reporting`, `UpToDate` and
`Identity`, each preserved on its own. Two theorems bound what the code does not
keep: `OptionsMissedOnlyInSetup` and `IdentityLostOnlyByOvertaking` say that there
is no other way to a counterexample of `OptionsReload`, or to an identity that
`RepairMovesNothing` lost, than the one TLC shows.

**Schema.** `ValidatedIsDeclared` carries what a check has seen of the table
through the statements of both callers, whoever loses the connection, until
somebody else changes the table; `StrayRowsOnlyBehindCheck` follows, which says the
same of `schema_drop`. `FinalOfAppend` and `FinalOfApply` say what
remains of the queue of accepted changes.

**Storage.** `ReserveKept` needs `Measured`: between the check and the write, the
space that the check found free is still free but for what others took.
`RewriteLeftForPause` is inductive by itself.

Assumptions: those of the modules (`EventAssumption`, `LimitAssumption`, what
`SQLiteSpool.__init__` enforces; `WorkerAssumption`, what `WorkerSettings`
enforces; `EntryAssumption`, `SchemaAssumption`, `StorageAssumption`;
`BoundAssumption` for the bounds), all evaluated by TLC on the runs. Events of the
worker are numbers in the order of submission.

Only model-checked:

* all liveness (`StopEndsThread`, `StartReturnsEventually`, `AcceptedSettles`,
  `PauseEnds`, `RejectedSendReported`, `StoredIsUsed`, `GateOpens`,
  `StoragePauseEnds`): it needs fairness, hence ENABLED, which tlapm does not
  expand;
* absence of deadlock in the runs that check it, for the same reason;
* the statements that the code does not keep: a counterexample is a behaviour.

None of the modules declares a RECURSIVE operator.

## 5. Not modelled

* Event conversion (`event.py`, `ilp.py`) and the attribute filter: pure text
  functions of one event, without state. `Worker` has their outcomes: a payload
  that does not encode, and an encoded row over the batch limit.
* Sensors and diagnostics: views of a snapshot. The table-size sensor queries
  over a transport of its own, whose failure shows in the sensor alone.
* The forms: selectors, ranges and messages. A form that fails a check is shown
  again. That a number selector yields floats, which `WorkerSettings` refuses for
  counts, is a matter of Home Assistant's selector; `Entry` has options that pass
  the flow and fail the setup (`Unrunnable`) without saying which they are.
* The unit of a TTL, which the schema check does not read (`schema.py:215`).
* `record_attempt` that fails on a full disk after an uncertain send
  (`worker.py:1262`): the rows stay, their uncertain mark is missing; no line
  promises otherwise.
* Two services at work on one spool file. `MCEntryService` shows it and
  `OneOwner` says when it can happen; what
  SQLite's locking makes of two writers is not examined.

## 6. Plan

Modelled, checked and proved: the spool, the worker, the delivery contract, the
entry, the schema gate and the disk. Left:

1. The safety halves of the liveness arguments as theorems: for `PauseEnds`, that
   an open pause is always one that the persist or the delivery task will look at
   again; for `StopEndsThread`, that a requested stop is always in a place where
   the main task will find it; for `AcceptedSettles`, that a rejected batch of
   more than one row is followed by one of a single row.
2. The table-size sensor, should it ever be more than a view of its own query.
