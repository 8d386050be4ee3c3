------------------------------- MODULE Worker -------------------------------
(***************************************************************************)
(* WriterService of worker.py on top of the spool.                         *)
(*                                                                         *)
(* Three threads of control share the service: a caller (start, submit,    *)
(* stop; Home Assistant's loop and executor), the worker thread, and the   *)
(* executor thread in which asyncio.to_thread runs a send.  The worker     *)
(* thread runs _run, and inside it an asyncio loop with three tasks:       *)
(* _async_main, _persist_loop and _delivery_loop.  A task runs without     *)
(* interruption by the other tasks from one await to the next, so an       *)
(* action below is one such stretch, cut once more where the caller's      *)
(* thread can get in between with an effect.                               *)
(*                                                                         *)
(* Waits have timeouts in the code, so a waiting task may continue at any  *)
(* time: the wake events, the flush interval and the backoff delays choose *)
(* when and never whether.  Diagnostic counters and texts are left out.    *)
(***************************************************************************)
EXTENDS Spool, Sequences

CONSTANTS
    IngressCapacity, PersistBatchRows,     \* WorkerSettings
    DeliveryBatchRows, DeliveryBatchBytes,
    FlushOnShutdown,
    Gated,            \* a schema factory was given
    IlpSizeOf,        \* length of an event's encoded ILP row
    Corrupt,          \* events whose stored payload does not encode
    Poison,           \* events whose row QuestDB answers with status 400
    Answers,          \* failures the server may answer with
    DiskFaults,       \* conditions the disk may fall into
    Breakage,         \* failures nothing recovers from that may occur
    MaxFaults,        \* bound: faults of the environment in a behaviour
    MaxCrashes,       \* bound: times the process is killed
    MaxStops          \* bound: calls of stop() in one process

\* retry: 425 or 429; uncertain: 408, 5xx or a broken connection;
\* auth: 401 or 403; permanent: any other status but 400
AnswerFaults == {"retry", "uncertain", "auth", "permanent"}

StorageReasons == {"disk_space", "spool_full", "disk_full", "readonly"}

\* Events are numbered in the order in which they are submitted; event ids
\* are uuid4 values, so no two are alike.
ASSUME WorkerAssumption ==
    /\ Events \subseteq Nat
    /\ \A d, e \in Events : IdOf[d] = IdOf[e] => d = e
    /\ {IngressCapacity, PersistBatchRows, DeliveryBatchRows, DeliveryBatchBytes}
           \subseteq Nat \ {0}
    /\ {FlushOnShutdown, Gated} \subseteq BOOLEAN
    /\ IlpSizeOf \in [Events -> Nat \ {0}]
    /\ Corrupt \subseteq Events /\ Poison \subseteq Events
    /\ Answers \subseteq AnswerFaults
    /\ DiskFaults \subseteq {"low", "full", "readonly"}
    /\ Breakage \subseteq {"open", "start_timeout", "persist", "schema", "close"}

VARIABLES
    caller, listening, offered, stops,                    \* the caller's thread
    state, accepting, blockReason, episode,               \* under _lock
    ready, stopRequested, loopSet, stopAsync, deadline,   \* start/stop signals
    ingress, held,                                        \* accepted, not durable
    main, persist, deliver, failure,                      \* where each task is
    blocked, isolate, schemaReady, job,                   \* delivery
    disk, received, faults, crashes,                      \* the environment
    accepted, durable, lost                               \* history

callerVars == <<caller, listening, offered, stops>>
health     == <<state, accepting, blockReason, episode>>
signals    == <<ready, stopRequested, loopSet, stopAsync, deadline>>
queues     == <<ingress, held>>
tasks      == <<main, persist, deliver, failure>>
delivery   == <<blocked, isolate, schemaReady, job>>
world      == <<disk, received, faults, crashes>>
history    == <<accepted, durable, lost>>

vars == <<spoolVars, callerVars, health, signals, queues, tasks, delivery, world, history>>

None == "none"

\* The two places that run _deliver_once: the delivery loop and the flush.
Senders == {"loop", "flush"}

Idle == [answer |-> "idle", seqs |-> {}, events |-> {}]

Thread == main \notin {"off", "dead"}

LoopRunning == loopSet /\ main \in {"check", "wait", "await_persist", "flush_schema",
                                    "flush", "flushing", "cancel", "teardown"}

\* The persist task has no await between its drain and its look at the stop
\* signal: no other task of the loop runs there.
Yielded == persist # "check"

Fault == faults < MaxFaults /\ faults' = faults + 1

-----------------------------------------------------------------------------
(* Health: the fields a snapshot shows, all written under _lock.           *)

\* _set_delivery_state
SetState(s, reason) ==
    /\ state' = IF state \in {"stopping", "failed"} THEN state ELSE s
    /\ blockReason' = IF s = "blocked" THEN reason ELSE None

\* _block_on_storage
BlockOnStorage(reason) ==
    /\ episode' = IF episode = None THEN reason ELSE episode
    /\ SetState("blocked", reason)
    /\ UNCHANGED accepting

\* Wrong variant: a pause that something else hides in the state stays open.
EpisodeClosed_IfShown == IF state = "blocked" THEN None ELSE episode

\* A durable write that succeeds ends the pause, whatever the state shows.
EpisodeClosed == None

\* _resume_after_storage_block
ResumeAfterStorageBlock ==
    /\ episode' = EpisodeClosed
    /\ IF state = "blocked" /\ blockReason \in StorageReasons
         THEN SetState("running", None)
         ELSE UNCHANGED <<state, blockReason>>
    /\ UNCHANGED accepting

Show(s, reason) == SetState(s, reason) /\ UNCHANGED <<accepting, episode>>

-----------------------------------------------------------------------------
(* The caller: start(), submit() and stop().                               *)

Start ==
    /\ caller = "new"
    /\ caller' = "starting" /\ state' = "starting" /\ main' = "open"
    /\ UNCHANGED <<spoolVars, listening, offered, stops, accepting, blockReason, episode,
                   signals, queues, persist, deliver, failure, delivery, world, history>>

\* The runtime registers its listener once start() has returned.
StartReturns ==
    /\ caller = "starting" /\ ready
    /\ caller' = IF state = "failed" THEN "start_raised" ELSE "started"
    /\ listening' = (state # "failed")
    /\ UNCHANGED <<spoolVars, offered, stops, health, signals, queues, tasks, delivery,
                   world, history>>

StartTimesOut ==
    /\ caller = "starting" /\ ~ready /\ "start_timeout" \in Breakage /\ Fault
    /\ accepting' = FALSE
    /\ caller' = "start_request"
    /\ UNCHANGED <<spoolVars, listening, offered, stops, state, blockReason, episode, signals,
                   queues, tasks, delivery, disk, received, crashes, history>>

\* _stop_requested.set(), in stop() and after a start timeout
RequestStop ==
    /\ caller \in {"start_request", "stop_request"}
    /\ stopRequested' = TRUE
    /\ caller' = IF caller = "start_request" THEN "start_signal" ELSE "stop_signal"
    /\ UNCHANGED <<spoolVars, listening, offered, stops, health, ready, loopSet, stopAsync,
                   deadline, queues, tasks, delivery, world, history>>

\* _signal_loop(_stop_async.set): dropped when no loop is running
SignalStop ==
    /\ caller \in {"start_signal", "stop_signal"}
    /\ stopAsync' = (stopAsync \/ LoopRunning)
    /\ caller' = IF caller = "start_signal" THEN "start_raised" ELSE "join"
    /\ UNCHANGED <<spoolVars, listening, offered, stops, health, ready, stopRequested,
                   loopSet, deadline, queues, tasks, delivery, world, history>>

\* submit(): oversized events, a closed service and a full queue drop it.
Submit ==
    LET e == offered + 1
        taken == /\ SizeOf[e] <= limits.eventBytes
                 /\ accepting
                 /\ Len(ingress) < IngressCapacity
    IN  /\ listening /\ e \in Events
        /\ offered' = e
        /\ ingress' = IF taken THEN Append(ingress, e) ELSE ingress
        /\ accepted' = IF taken THEN accepted \cup {e} ELSE accepted
        /\ UNCHANGED <<spoolVars, caller, listening, stops, health, signals, held, tasks,
                       delivery, world, durable, lost>>

\* The locked section of stop().
Stop ==
    /\ caller \in {"new", "started", "start_raised", "gave_up"} /\ stops < MaxStops
    /\ stops' = stops + 1
    /\ accepting' = FALSE
    /\ \/ /\ state = "new"
          /\ state' = "stopped" /\ caller' = "stopped" /\ UNCHANGED deadline
       \/ /\ state # "new" /\ ~Thread
          /\ caller' = "stopped" /\ UNCHANGED <<state, deadline>>
       \/ /\ state # "new" /\ Thread
          /\ state' = "stopping" /\ deadline' = "ahead" /\ caller' = "stop_request"
    /\ UNCHANGED <<spoolVars, listening, offered, blockReason, episode, ready, stopRequested,
                   loopSet, stopAsync, queues, tasks, delivery, world, history>>

\* thread.join(timeout): the deadline is the same for the join and for the
\* persist task.
Join ==
    /\ caller = "join"
    /\ \/ ~Thread /\ caller' = "stopped"
       \/ Thread /\ deadline = "passed" /\ caller' = "gave_up"
    /\ UNCHANGED <<spoolVars, listening, offered, stops, health, signals, queues, tasks,
                   delivery, world, history>>

-----------------------------------------------------------------------------
(* The worker thread outside the loop: _run.                               *)

OpenResources ==
    /\ main = "open"
    /\ \E l \in Limits : OpenSpool(l)
    /\ main' = "accept"
    /\ UNCHANGED <<callerVars, health, signals, queues, persist, deliver, failure, delivery,
                   world, history>>

\* A factory raises before or after the spool is open.
OpenFails ==
    /\ main = "open" /\ "open" \in Breakage /\ Fault
    /\ UNCHANGED spoolVars \/ \E l \in Limits : OpenSpool(l)
    /\ failure' = TRUE /\ main' = "record"
    /\ UNCHANGED <<callerVars, health, signals, queues, persist, deliver, delivery,
                   disk, received, crashes, history>>

Accept ==
    /\ main = "accept"
    /\ state' = IF stopRequested THEN "stopping" ELSE "running"
    /\ accepting' = ~stopRequested
    /\ main' = "ready"
    /\ UNCHANGED <<spoolVars, callerVars, blockReason, episode, signals, queues, persist,
                   deliver, failure, delivery, world, history>>

Ready ==
    /\ main = "ready"
    /\ ready' = TRUE /\ main' = "loop"
    /\ UNCHANGED <<spoolVars, callerVars, health, stopRequested, loopSet, stopAsync, deadline,
                   queues, persist, deliver, failure, delivery, world, history>>

\* The except block of _run.
RecordFailure ==
    /\ main = "record"
    /\ state' = "failed" /\ accepting' = FALSE
    /\ main' = "closing"
    /\ UNCHANGED <<spoolVars, callerVars, blockReason, episode, signals, queues, persist,
                   deliver, failure, delivery, world, history>>

\* Wrong variant: the finally block does not release a caller in start().
CloseResources_NotReady ==
    /\ main = "closing"
    /\ IF open THEN CloseSpool ELSE UNCHANGED spoolVars
    /\ main' = "final"
    /\ UNCHANGED <<callerVars, health, signals, queues, persist, deliver, failure, delivery,
                   world, history>>

CloseResources ==
    /\ main = "closing"
    /\ ready' = TRUE
    /\ IF open THEN CloseSpool ELSE UNCHANGED spoolVars
    /\ main' = "final"
    /\ UNCHANGED <<callerVars, health, stopRequested, loopSet, stopAsync, deadline, queues,
                   persist, deliver, failure, delivery, world, history>>

\* The locked end of the finally block; closing may have raised.
Finish ==
    /\ main = "final"
    /\ accepting' = FALSE
    /\ \/ /\ failure' = failure
          /\ state' = IF failure THEN state ELSE "stopped"
          /\ UNCHANGED faults
       \/ /\ "close" \in Breakage /\ ~failure /\ Fault
          /\ failure' = TRUE
          /\ state' = "failed"
    /\ main' = "exiting"
    /\ UNCHANGED <<spoolVars, callerVars, blockReason, episode, signals, queues, persist,
                   deliver, delivery, disk, received, crashes, history>>

\* is_alive() turns false some time after the finally block.
Exit ==
    /\ main = "exiting"
    /\ main' = "dead"
    /\ UNCHANGED <<spoolVars, callerVars, health, signals, queues, persist, deliver, failure,
                   delivery, world, history>>

-----------------------------------------------------------------------------
(* The main task: _async_main.                                             *)

SetLoop ==
    /\ main = "loop"
    /\ loopSet' = TRUE /\ main' = "check"
    /\ UNCHANGED <<spoolVars, callerVars, health, ready, stopRequested, stopAsync, deadline,
                   queues, persist, deliver, failure, delivery, world, history>>

\* Wrong variant: no second look at _stop_requested once _loop is set.
CreateTasks_NoSecondLook ==
    /\ main = "check"
    /\ persist' = "run" /\ deliver' = "top" /\ main' = "wait"
    /\ UNCHANGED <<spoolVars, callerVars, health, signals, queues, failure, delivery, world,
                   history>>

CreateTasks ==
    /\ main = "check"
    /\ stopAsync' = (stopAsync \/ stopRequested)
    /\ persist' = "run" /\ deliver' = "top" /\ main' = "wait"
    /\ UNCHANGED <<spoolVars, callerVars, health, ready, stopRequested, loopSet, deadline,
                   queues, failure, delivery, world, history>>

\* The exception of the main task: asyncio.run cancels the other tasks.
Raise ==
    /\ failure' = TRUE /\ main' = "teardown"
    /\ persist' = "done" /\ deliver' = "done"

SeeStop ==
    /\ main = "wait" /\ stopAsync /\ Yielded
    /\ state' = "stopping" /\ accepting' = FALSE
    /\ main' = "await_persist"
    /\ UNCHANGED <<spoolVars, callerVars, blockReason, episode, signals, queues, persist,
                   deliver, failure, delivery, world, history>>

\* A task failed while the loop runs, or the persist task failed while its
\* end is awaited.
SeeFailure ==
    /\ \/ main = "wait" /\ (persist = "failed" \/ deliver = "failed")
       \/ main = "await_persist" /\ persist = "failed"
    /\ Yielded
    /\ Raise
    /\ UNCHANGED <<spoolVars, callerVars, health, signals, queues, delivery, world, history>>

AwaitPersist ==
    /\ main = "await_persist" /\ persist = "done"
    /\ main' = CASE ~FlushOnShutdown \/ stats.pendingRows = 0 -> "cancel"
                 [] FlushOnShutdown /\ stats.pendingRows # 0 /\ Gated -> "flush_schema"
                 [] OTHER -> "flush"
    /\ UNCHANGED <<spoolVars, callerVars, health, signals, queues, persist, deliver, failure,
                   delivery, world, history>>

\* _schema_is_ready, awaited by the flush
FlushSchema ==
    /\ main = "flush_schema"
    /\ \/ main' = "flush" /\ UNCHANGED faults
       \/ main' = "cancel" /\ "schema" \in Breakage /\ Fault
    /\ UNCHANGED <<spoolVars, callerVars, health, signals, queues, persist, deliver, failure,
                   delivery, disk, received, crashes, history>>

\* deliver_task.cancel() and the await that re-raises what it had failed with.
CancelDelivery ==
    /\ main = "cancel"
    /\ IF deliver = "failed"
         THEN Raise
         ELSE /\ deliver' = "done" /\ main' = "teardown"
              /\ UNCHANGED <<persist, failure>>
    /\ UNCHANGED <<spoolVars, callerVars, health, signals, queues, delivery, world, history>>

\* The end of asyncio.run waits for the executor: a send whose task was
\* cancelled still runs to its end, and nobody looks at its answer.
EndLoop ==
    /\ main = "teardown"
    /\ \A w \in Senders : job[w].answer # "sent"
    /\ job' = [w \in Senders |-> Idle]
    /\ main' = IF failure THEN "record" ELSE "closing"
    /\ UNCHANGED <<spoolVars, callerVars, health, signals, queues, persist, deliver, failure,
                   blocked, isolate, schemaReady, world, history>>

-----------------------------------------------------------------------------
(* The persist task: _persist_loop.                                        *)

\* A read-only file refuses BEGIN IMMEDIATE; a full disk refuses the COMMIT,
\* after the checks of the method itself.
CanBegin == disk # "readonly"

CanWrite == disk \notin {"full", "readonly"}

WriteReason == IF disk = "full" THEN "disk_full" ELSE "readonly"

\* _check_storage, and _reclaim_spool where it gives enough pages back.
GuardPasses ==
    \/ disk # "low" /\ UNCHANGED disk
    \/ disk = "low" /\ disk' = "ok"

\* _drain_ingress tops held up to persist_batch_rows.
Taken == LET room == PersistBatchRows - Len(held)
         IN  IF Len(ingress) < room THEN Len(ingress) ELSE room

\* Wrong variant: a refused batch is forgotten.
Drained_Afresh == SubSeq(ingress, 1, Taken)

Drained == held \o SubSeq(ingress, 1, Taken)

LeftInIngress == SubSeq(ingress, Taken + 1, Len(ingress))

PersistNothing ==
    /\ persist = "run" /\ Drained = <<>>
    /\ persist' = "check"
    /\ UNCHANGED <<spoolVars, callerVars, health, signals, queues, main, deliver, failure,
                   delivery, world, history>>

\* _persist_held, refused: the guard finds too little free space and reclaiming
\* does not help, the batch exceeds a spool limit, or SQLite cannot write.
PersistRefused ==
    /\ persist = "run" /\ Drained # <<>>
    /\ held' = Drained /\ ingress' = LeftInIngress
    /\ \/ disk = "low" /\ UNCHANGED disk /\ BlockOnStorage("disk_space")
       \/ GuardPasses /\ CanBegin /\ Full(Drained) /\ BlockOnStorage("spool_full")
       \/ GuardPasses /\ ~CanWrite /\ (CanBegin => ~Full(Drained))
            /\ BlockOnStorage(WriteReason)
    /\ persist' = "check"
    /\ UNCHANGED <<spoolVars, callerVars, signals, main, deliver, failure, delivery, received,
                   faults, crashes, history>>

\* _persist_held, stored.
PersistStored ==
    /\ persist = "run" /\ Drained # <<>>
    /\ GuardPasses /\ CanWrite
    /\ EnqueueMany(Drained)
    /\ held' = <<>> /\ ingress' = LeftInIngress
    /\ durable' = durable \cup Range(Drained)
    /\ ResumeAfterStorageBlock
    /\ persist' = "check"
    /\ UNCHANGED <<callerVars, signals, main, deliver, failure, delivery, received, faults,
                   crashes, accepted, lost>>

\* A plain SpoolError ends the task; the drained events stay in its local list.
PersistBreaks ==
    /\ persist = "run" /\ "persist" \in Breakage /\ Fault
    /\ held' = Drained /\ ingress' = LeftInIngress
    /\ persist' = "failed"
    /\ UNCHANGED <<spoolVars, callerVars, health, signals, main, deliver, failure, delivery,
                   disk, received, crashes, history>>

\* Wrong variant: what arrived since the drain is not looked at.
NothingLeft_Held == held = <<>>

NothingLeft == held = <<>> /\ ingress = <<>>

\* The look at the stop signal; WorkerShutdownError past the deadline.
PersistChecksStop ==
    /\ persist = "check"
    /\ persist' = CASE ~stopAsync -> "run"
                    [] stopAsync /\ NothingLeft -> "done"
                    [] stopAsync /\ ~NothingLeft /\ deadline = "passed" -> "failed"
                    [] OTHER -> "run"
    /\ UNCHANGED <<spoolVars, callerVars, health, signals, queues, main, deliver, failure,
                   delivery, world, history>>

-----------------------------------------------------------------------------
(* One delivery: _build_batch and _deliver_once.                           *)

Oldest == CHOOSE r \in pending : \A q \in pending : r.seq <= q.seq

\* The rows that _build_batch encodes: the oldest ones, up to the first that
\* does not encode or would exceed the byte limit.
Batch(alone) ==
    LET rows == PeekBatch(IF alone THEN 1 ELSE DeliveryBatchRows)
        upTo(r) == {q \in rows : q.seq <= r.seq}
    IN  {r \in rows :
            /\ EventsOf(upTo(r)) \cap Corrupt = {}
            /\ MapThenSumSet(LAMBDA q : IlpSizeOf[q.event], upTo(r)) <= DeliveryBatchBytes}

\* The batch goes to the executor thread: asyncio.to_thread(send_batch).  The
\* code has no bound on attempts; MaxAttempts keeps the instance finite.
Send(w, alone) ==
    /\ Batch(alone) # {}
    /\ \A r \in Batch(alone) : r.attempts < MaxAttempts
    /\ job' = [job EXCEPT ![w] = [answer |-> "sent", seqs |-> Sequences(Batch(alone)),
                                  events |-> EventsOf(Batch(alone))]]

\* Wrong variant: a row that does not encode condemns the head of its batch.
OldestCorrupt_InBatch == EventsOf(PeekBatch(DeliveryBatchRows)) \cap Corrupt # {}

OldestCorrupt == pending # {} /\ Oldest.event \in Corrupt

\* The oldest row does not encode: it is buried without a send, or, when the
\* ring cannot take it, left for a retry.
BuryOldest ==
    /\ OldestCorrupt
    /\ \/ CanWrite /\ MoveToDeadLetter(Oldest, FALSE) /\ Show("running", None)
       \/ CanBegin /\ DeadLetterFull(Oldest) /\ Show("retry_wait", None) /\ UNCHANGED spoolVars

\* WorkerConfigurationError: the oldest row alone exceeds the byte limit.
OldestTooLarge == pending # {} /\ ~OldestCorrupt /\ IlpSizeOf[Oldest.event] > DeliveryBatchBytes

\* Wrong variant: an answer that leaves the outcome open counts as success.
Confirms_Lenient(answer) == answer \in {"ok", "retry", "uncertain"}

\* Only a 2xx answer confirms a delivery.
Confirms(answer) == answer = "ok"

\* Wrong variant: a rejected batch is not narrowed down.
SentAlone_Always(seqs) == TRUE

\* A status 400 condemns a row only when it was sent alone.
SentAlone(seqs) == Cardinality(seqs) = 1

\* An answer that has to be written down.
Recorded == {"ok", "retry", "uncertain", "reject"}

\* SpoolStateError: a row of the batch is gone.
Missing(w) == job[w].answer \in Recorded /\ CanBegin /\ ~Known(job[w].seqs)

\* DeadLetterFullError: the row to bury does not fit.
Unburiable(w) ==
    \/ job[w].answer = "idle" /\ OldestCorrupt /\ DeadLetterFull(Oldest)
    \/ /\ job[w].answer = "reject" /\ SentAlone(job[w].seqs)
       /\ \E r \in RowsAt(job[w].seqs) : DeadLetterFull(r)

\* SpoolStorageError: something has to be written down and cannot be.
Unwritable(w) ==
    /\ job[w].answer \in Recorded \/ (job[w].answer = "idle" /\ OldestCorrupt)
    /\ ~CanBegin \/ (~CanWrite /\ ~Missing(w) /\ ~Unburiable(w))

\* What _deliver_once does with each answer; the outcome names its result.
ApplyAnswer(w, outcome) ==
    LET j == job[w]
        row == CHOOSE r \in pending : r.seq \in j.seqs
    IN  \/ /\ Confirms(j.answer) /\ outcome = "success" /\ CanWrite
           /\ MarkDelivered(j.seqs)
           /\ episode' = EpisodeClosed /\ SetState("running", None) /\ UNCHANGED accepting
        \/ /\ j.answer \in {"retry", "uncertain"} /\ outcome = "retry" /\ CanWrite
           /\ RecordAttempt(j.seqs, j.answer = "uncertain")
           /\ Show("retry_wait", None)
        \/ /\ j.answer = "reject" /\ ~SentAlone(j.seqs) /\ outcome = "split" /\ CanWrite
           /\ RecordAttempt(j.seqs, FALSE)
           /\ Show("running", None)
        \/ /\ j.answer = "reject" /\ SentAlone(j.seqs) /\ outcome = "dead_letter"
           /\ CanWrite /\ Known(j.seqs)
           /\ MoveToDeadLetter(row, FALSE)
           /\ Show("running", None)
        \/ /\ j.answer = "reject" /\ SentAlone(j.seqs) /\ outcome = "retry"
           /\ CanBegin /\ Unburiable(w)
           /\ Show("retry_wait", None) /\ UNCHANGED spoolVars
        \/ /\ j.answer \in {"auth", "permanent"} /\ outcome = "blocked"
           /\ Show("blocked", IF j.answer = "auth" THEN "auth" ELSE None)
           /\ UNCHANGED spoolVars

-----------------------------------------------------------------------------
(* The delivery task: _delivery_loop.                                      *)

AtTop == deliver = "top" /\ Yielded

\* Past the look at the stop signal: at the top of the loop, or in the same
\* round as a schema check, whose answer is not followed by another look.
Unstopped == deliver = "passed" \/ (AtTop /\ ~stopAsync)

Due == Unstopped /\ Yielded /\ schemaReady /\ stats.pendingRows > 0 /\ ~blocked

DeliverStops ==
    /\ AtTop /\ stopAsync
    /\ deliver' = "done"
    /\ UNCHANGED <<spoolVars, callerVars, health, signals, queues, main, persist, failure,
                   delivery, world, history>>

DeliverAsksSchema ==
    /\ AtTop /\ ~stopAsync /\ ~schemaReady
    /\ deliver' = "schema"
    /\ UNCHANGED <<spoolVars, callerVars, health, signals, queues, main, persist, failure,
                   delivery, world, history>>

\* _ensure_schema: ready, rejected (mismatch, permanent or authentication
\* error), retried, or a SchemaError that ends the task.
EnsureSchema ==
    /\ deliver = "schema" /\ Yielded
    /\ \/ /\ schemaReady' = TRUE /\ deliver' = "passed"
          /\ Show("running", None) /\ UNCHANGED faults
       \/ /\ Answers \cap {"auth", "permanent"} # {} /\ Fault
          /\ Show("blocked", None) /\ deliver' = "top" /\ UNCHANGED schemaReady
       \/ /\ Answers \cap {"retry", "uncertain"} # {} /\ Fault
          /\ Show("retry_wait", None) /\ deliver' = "top" /\ UNCHANGED schemaReady
       \/ /\ "schema" \in Breakage /\ Fault
          /\ deliver' = "failed" /\ UNCHANGED <<health, schemaReady>>
    /\ UNCHANGED <<spoolVars, callerVars, signals, queues, main, persist, failure, blocked,
                   isolate, job, disk, received, crashes, history>>

\* Nothing to deliver in the round of the schema check.
DeliverWaits ==
    /\ deliver = "passed" /\ Yielded /\ ~Due
    /\ deliver' = "top"
    /\ UNCHANGED <<spoolVars, callerVars, health, signals, queues, main, persist, failure,
                   delivery, world, history>>

DeliverSends ==
    /\ Due
    /\ Send("loop", isolate)
    /\ deliver' = "sending"
    /\ UNCHANGED <<spoolVars, callerVars, health, signals, queues, main, persist, failure,
                   blocked, isolate, schemaReady, world, history>>

DeliverBuriesOldest ==
    /\ Due
    /\ BuryOldest
    /\ isolate' = FALSE
    /\ deliver' = "top"
    /\ UNCHANGED <<callerVars, signals, queues, main, persist, failure, blocked, schemaReady,
                   job, world, history>>

\* Wrong variant: the next batch is as large as the rejected one.
Isolates_Never(outcome) == FALSE

\* isolate_next: the next batch is a single row.
Isolates(outcome) == outcome = "split"

DeliverApplies ==
    /\ deliver = "sending" /\ Yielded
    /\ \E outcome \in {"success", "retry", "split", "dead_letter", "blocked"} :
          /\ ApplyAnswer("loop", outcome)
          /\ isolate' = Isolates(outcome)
          /\ blocked' = (blocked \/ outcome = "blocked")
    /\ job' = [job EXCEPT !["loop"] = Idle]
    /\ deliver' = "top"
    /\ UNCHANGED <<callerVars, signals, queues, main, persist, failure, schemaReady, world,
                   history>>

\* except SpoolStorageError: the rows stay, the loop waits and retries.
DeliverParks ==
    /\ (deliver = "sending" /\ Yielded) \/ Due
    /\ Unwritable("loop")
    /\ BlockOnStorage(WriteReason)
    /\ job' = [job EXCEPT !["loop"] = Idle]
    /\ deliver' = "top"
    /\ UNCHANGED <<spoolVars, callerVars, signals, queues, main, persist, failure, blocked,
                   isolate, schemaReady, world, history>>

\* Any other exception ends the task.
DeliverBreaks ==
    /\ \/ deliver = "sending" /\ Yielded /\ Missing("loop")
       \/ Due /\ OldestTooLarge
    /\ deliver' = "failed"
    /\ job' = [job EXCEPT !["loop"] = Idle]
    /\ UNCHANGED <<spoolVars, callerVars, health, signals, queues, main, persist, failure,
                   blocked, isolate, schemaReady, world, history>>

-----------------------------------------------------------------------------
(* The flush on shutdown: one _deliver_once inside the main task, while    *)
(* the delivery task may still be waiting for the answer to its own send.  *)

FlushBegins ==
    /\ main = "flush" /\ Yielded
    /\ \/ Send("flush", FALSE) /\ main' = "flushing" /\ UNCHANGED <<spoolVars, health>>
       \/ BuryOldest /\ main' = "cancel" /\ UNCHANGED job
       \/ pending = {} /\ Show("retry_wait", None) /\ main' = "cancel"
            /\ UNCHANGED <<spoolVars, job>>
    /\ UNCHANGED <<callerVars, signals, queues, persist, deliver, failure, blocked, isolate,
                   schemaReady, world, history>>

FlushApplies ==
    /\ main = "flushing"
    /\ \E outcome \in {"success", "retry", "split", "dead_letter", "blocked"} :
          ApplyAnswer("flush", outcome)
    /\ job' = [job EXCEPT !["flush"] = Idle]
    /\ main' = "cancel"
    /\ UNCHANGED <<callerVars, signals, queues, persist, deliver, failure, blocked, isolate,
                   schemaReady, world, history>>

\* No handler: what the flush raises ends the loop.
FlushBreaks ==
    /\ \/ main = "flushing" /\ (Missing("flush") \/ Unwritable("flush"))
       \/ main = "flush" /\ (OldestTooLarge \/ Unwritable("flush"))
    /\ Raise
    /\ job' = [job EXCEPT !["flush"] = Idle]
    /\ UNCHANGED <<spoolVars, callerVars, health, signals, queues, blocked, isolate,
                   schemaReady, world, history>>

-----------------------------------------------------------------------------
(* The environment: QuestDB, the disk, the clock, and the operating system. *)

\* QuestDB takes a request whole or not at all; a row it cannot take makes it
\* answer 400.  A failed request may still have been committed when the
\* answer is uncertain.
ServerAnswers(w) ==
    LET j == job[w]
        clean == j.events \cap Poison = {}
    IN  /\ j.answer = "sent"
        /\ \/ /\ job' = [job EXCEPT ![w].answer = IF clean THEN "ok" ELSE "reject"]
              /\ received' = IF clean THEN received \cup j.events ELSE received
              /\ UNCHANGED faults
           \/ \E answer \in Answers :
                 /\ Fault
                 /\ job' = [job EXCEPT ![w].answer = answer]
                 /\ received' \in {received} \cup
                       (IF clean /\ answer = "uncertain" THEN {received \cup j.events} ELSE {})
        /\ UNCHANGED <<spoolVars, callerVars, health, signals, queues, tasks, blocked, isolate,
                       schemaReady, disk, crashes, history>>

DiskChanges ==
    /\ \/ disk = "ok" /\ Fault /\ disk' \in DiskFaults
       \/ disk # "ok" /\ disk' = "ok" /\ UNCHANGED faults
    /\ UNCHANGED <<spoolVars, callerVars, health, signals, queues, tasks, delivery, received,
                   crashes, history>>

DeadlinePasses ==
    /\ deadline = "ahead" /\ deadline' = "passed"
    /\ UNCHANGED <<spoolVars, callerVars, health, ready, stopRequested, loopSet, stopAsync,
                   queues, tasks, delivery, world, history>>

\* The process is killed and started again: memory is gone, the file stays,
\* and a request on its way may still be committed.
Crash ==
    /\ caller # "new" /\ crashes < MaxCrashes
    /\ crashes' = crashes + 1
    /\ \E late \in SUBSET {w \in Senders :
                 job[w].answer = "sent" /\ job[w].events \cap Poison = {}} :
          received' = received \cup UNION {job[w].events : w \in late}
    /\ lost' = lost \cup Range(ingress) \cup Range(held)
    /\ caller' = "new" /\ listening' = FALSE /\ stops' = 0
    /\ state' = "new" /\ accepting' = FALSE /\ blockReason' = None /\ episode' = None
    /\ ready' = FALSE /\ stopRequested' = FALSE /\ loopSet' = FALSE /\ stopAsync' = FALSE
    /\ deadline' = "unset"
    /\ ingress' = <<>> /\ held' = <<>>
    /\ main' = "off" /\ persist' = "off" /\ deliver' = "off" /\ failure' = FALSE
    /\ blocked' = FALSE /\ isolate' = FALSE /\ schemaReady' = ~Gated
    /\ job' = [w \in Senders |-> Idle]
    /\ IF open THEN CloseSpool ELSE UNCHANGED spoolVars
    /\ UNCHANGED <<offered, disk, faults, accepted, durable>>

-----------------------------------------------------------------------------
Init ==
    /\ SpoolInit
    \* a process without a WriterService
    /\ caller = "new" /\ listening = FALSE /\ stops = 0
    /\ state = "new" /\ accepting = FALSE /\ blockReason = None /\ episode = None
    /\ ready = FALSE /\ stopRequested = FALSE /\ loopSet = FALSE /\ stopAsync = FALSE
    /\ deadline = "unset"
    /\ ingress = <<>> /\ held = <<>>
    /\ main = "off" /\ persist = "off" /\ deliver = "off" /\ failure = FALSE
    /\ blocked = FALSE /\ isolate = FALSE /\ schemaReady = ~Gated
    /\ job = [w \in Senders |-> Idle]
    /\ offered = 0
    /\ disk = "ok" /\ received = {} /\ faults = 0 /\ crashes = 0
    /\ accepted = {} /\ durable = {} /\ lost = {}

CallerStep == StartReturns \/ RequestStop \/ SignalStop \/ Join

RunStep == OpenResources \/ Accept \/ Ready \/ RecordFailure \/ CloseResources \/ Finish \/ Exit

MainStep == SetLoop \/ CreateTasks \/ SeeStop \/ SeeFailure \/ AwaitPersist \/ FlushSchema
              \/ FlushBegins \/ FlushApplies \/ FlushBreaks \/ CancelDelivery \/ EndLoop

PersistStep == PersistNothing \/ PersistRefused \/ PersistStored \/ PersistChecksStop

DeliverStep == DeliverStops \/ DeliverAsksSchema \/ EnsureSchema \/ DeliverWaits
                 \/ DeliverSends \/ DeliverBuriesOldest \/ DeliverApplies \/ DeliverParks \/ DeliverBreaks

ServerStep == \E w \in Senders : ServerAnswers(w)

Next == \/ Start \/ Submit \/ Stop \/ CallerStep
        \/ RunStep \/ MainStep \/ PersistStep \/ DeliverStep \/ ServerStep
        \/ StartTimesOut \/ OpenFails \/ PersistBreaks
        \/ DiskChanges \/ DeadlinePasses \/ Crash

Spec == Init /\ [][Next]_vars

\* The caller's thread, the worker thread, the executor and the clock keep
\* running.  The event loop serves its tasks in turn: a task that is ready
\* whenever the persist task yields gets to run, hence strong fairness.  A
\* send is answered or times out; a disk recovers in the end (an operator
\* frees space, or _reclaim_spool does).  Nothing forces a start, a submit, a
\* stop, a fault or a crash.
Fairness ==
    /\ WF_vars(CallerStep) /\ WF_vars(RunStep) /\ WF_vars(PersistStep)
    /\ SF_vars(MainStep) /\ SF_vars(DeliverStep)
    /\ WF_vars(ServerStep) /\ WF_vars(DeadlinePasses)
    /\ WF_vars(DiskChanges /\ disk' = "ok")

FairSpec == Spec /\ Fairness

-----------------------------------------------------------------------------
(* Properties.                                                             *)

CallerPlaces == {"new", "starting", "start_request", "start_signal", "start_raised", "started",
                 "stop_request", "stop_signal", "join", "gave_up", "stopped"}

MainPlaces == {"off", "open", "accept", "ready", "loop", "check", "wait", "await_persist",
               "flush_schema", "flush", "flushing", "cancel", "teardown", "record", "closing",
               "final", "exiting", "dead"}

States == {"new", "starting", "running", "retry_wait", "blocked", "stopping", "stopped", "failed"}

JobType == [answer : {"idle", "sent", "ok", "reject"} \cup AnswerFaults,
            seqs : SUBSET Nat, events : SUBSET Events]

\* Type correctness of the service, its tasks and its environment.
TypeOK ==
    /\ SpoolTypeOK
    /\ caller \in CallerPlaces /\ listening \in BOOLEAN /\ offered \in Nat /\ stops \in Nat
    /\ state \in States /\ accepting \in BOOLEAN
    /\ blockReason \in StorageReasons \cup {"auth", None}
    /\ episode \in StorageReasons \cup {None}
    /\ {ready, stopRequested, loopSet, stopAsync, failure, blocked, isolate, schemaReady}
           \subseteq BOOLEAN
    /\ deadline \in {"unset", "ahead", "passed"}
    /\ ingress \in Seq(Events) /\ held \in Seq(Events)
    /\ main \in MainPlaces
    /\ persist \in {"off", "run", "check", "done", "failed"}
    /\ deliver \in {"off", "top", "schema", "passed", "sending", "done", "failed"}
    /\ job \in [Senders -> JobType]
    /\ disk \in {"ok", "low", "full", "readonly"}
    /\ received \subseteq Events /\ faults \in Nat /\ crashes \in Nat
    /\ accepted \subseteq Events /\ durable \subseteq Events /\ lost \subseteq Events

\* submit() answered True for an event: it is in the ingress queue, in the
\* batch being persisted, or durable, or it was in memory when the process
\* was killed.  In particular no storage block, failed transaction or
\* shutdown drops it, and it is never in two of those places.
AcceptedAccounted ==
    /\ accepted = durable \cup lost \cup Range(held) \cup Range(ingress)
    /\ Len(held) + Len(ingress) = Cardinality(Range(held) \cup Range(ingress))
    /\ (Range(held) \cup Range(ingress)) \cap (durable \cup lost) = {}

\* An event the spool has made durable, and that QuestDB can take, is still
\* pending or QuestDB has it: no crash, lost answer, retry, split batch,
\* cancelled send or overlapping flush removes a row too early.
NoDurableLoss ==
    \A e \in durable \ (Poison \cup Corrupt) :
        e \in EventsOf(pending) \/ e \in received

\* A rejected batch costs no innocent event: only rows that cannot be encoded
\* or that QuestDB rejects on their own reach the dead-letter ring.
OnlyGuiltyBuried == EventsOf(deadLetter) \subseteq Poison \cup Corrupt

\* QuestDB gets the events in the order in which they were accepted: when it
\* has an event, it has every earlier durable one that it can take.
DeliveredInOrder ==
    \A d, e \in durable :
        d < e /\ e \in received => d \in received \cup Poison \cup Corrupt

\* A worker that ends without a failure has persisted everything submit()
\* accepted, including events accepted while stop() was running.
CleanStopPersistsAll ==
    main \in {"closing", "final", "exiting", "dead"} /\ ~failure => held \o ingress = <<>>

\* A stop that was requested at any moment, even before the loop existed,
\* ends the worker thread (or the process was killed).
StopEndsThread == [](stopRequested => <>(main = "dead" \/ ~stopRequested))

\* start() comes back, with the worker running or with an exception.
StartReturnsEventually == [](caller = "starting" => <>(caller # "starting"))

\* While nobody stops the worker, every accepted event ends in QuestDB or, if
\* it is at fault itself, in the dead-letter ring: an outage, a full spool, a
\* storage block or a rejected batch delays delivery and never wedges it.
AcceptedSettles ==
    \A e \in Events :
        [](e \in accepted => <>(e \in received \cup EventsOf(deadLetter) \/ stops > 0))

\* Nothing is left to write, and the newest row went to the dead-letter ring.
BuriedLast ==
    held \o ingress = <<>> /\ pending = {} /\ lastSequence \in Sequences(deadLetter)

\* A storage pause, whatever caused it, ends by itself.  The exception is a
\* worker whose last write moved a row to the dead-letter ring, which does not
\* close a pause.
PauseEnds == [](episode # None => <>(episode = None \/ BuriedLast \/ stops > 0))

\* The worker with all its threads, retries and crashes implements the
\* delivery contract.
Contract ==
    INSTANCE DeliveryContract
        WITH Guilty <- Poison \cup Corrupt, volatile <- Range(held) \cup Range(ingress),
             promised <- durable, stored <- EventsOf(pending), remote <- received

ImplementsContract == Contract!ContractSpec

-----------------------------------------------------------------------------
(* Statements of the documentation that the code does not keep.            *)

\* docs/architecture.md: one worker owns the connection, which avoids
\* concurrent access to the transport.
TransportNeverShared == ~(job["loop"].answer = "sent" /\ job["flush"].answer = "sent")

\* docs/architecture.md: authentication and other permanent errors enter
\* blocked, which is how the operator learns that delivery stands still.
BlockVisible == blocked => state \notin {"running", "retry_wait"}

=============================================================================
