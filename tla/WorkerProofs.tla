---------------------------- MODULE WorkerProofs ----------------------------
(***************************************************************************)
(* Theorems about the worker, for every set of events, every queue, batch  *)
(* and spool limit, any number of faults, kills and stops: the safety      *)
(* properties of Worker, and that it implements DeliveryContract.          *)
(*                                                                         *)
(* The inductive invariant, WorkerInv, has two halves that need nothing of *)
(* each other.  ControlInv follows the threads: a runtime takes events     *)
(* only once the worker is ready, a stop is signalled only behind a closed *)
(* door, and the main task comes past the persist task only when that has  *)
(* found both queues empty.  DataInv follows an event: the queues continue *)
(* the order of everything durable, the rows of the spool stand in the     *)
(* order of their events, and a request in flight carries a prefix of the  *)
(* spool (RequestInv).  The last is what makes overlapping senders safe:   *)
(* between the send and the handling of the answer another task may have   *)
(* deleted, rewritten or added rows, and the numbers of the request still  *)
(* name its own events or nothing.                                         *)
(***************************************************************************)
EXTENDS Worker, SpoolLimitsProofs, SequenceTheorems

\* Events that QuestDB can never take.
Guilty == Poison \cup Corrupt

-----------------------------------------------------------------------------
(* Starting and stopping.                                                  *)

\* No event can be accepted any more, or no runtime is there to submit one.
Quiet == ~accepting \/ ~listening

ControlTypes ==
    /\ caller \in CallerPlaces /\ main \in MainPlaces
    /\ persist \in {"off", "run", "check", "done", "failed"}
    /\ {listening, accepting, ready, stopRequested, stopAsync, failure} \subseteq BOOLEAN

\* Until start() has returned there is no runtime, and no service that takes
\* events before the worker thread has opened the spool.
Starting ==
    /\ caller = "new" => main = "off"
    /\ ready => main \notin {"off", "open", "accept", "ready"}
    /\ listening => ready /\ caller \notin {"new", "starting", "start_request", "start_signal"}

\* A stop is signalled only after the service was closed to new events.
Stopping ==
    /\ caller \notin {"new", "starting", "started"} => Quiet
    /\ caller \in {"start_signal", "stop_signal"} => stopRequested
    /\ stopRequested => caller \notin {"new", "starting", "started", "start_request"}
    /\ stopAsync => stopRequested

\* The persist task returned, so it had seen the stop signal and an empty queue;
\* the main task goes on to the flush and the end only behind it.
Ending ==
    /\ persist = "done" /\ ~failure => stopAsync /\ held = <<>> /\ ingress = <<>>
    /\ main \in {"flush_schema", "flush", "flushing", "cancel"} => persist = "done"
    /\ main \in {"teardown", "closing", "final", "exiting", "dead"} /\ ~failure
          => persist = "done"
    /\ main = "record" => failure

ControlInv == ControlTypes /\ Starting /\ Stopping /\ Ending

controlVars == <<caller, listening, accepting, ready, stopRequested, stopAsync,
                 main, persist, failure, held, ingress>>

\* Delivery, the server, the disk and the clock touch none of it.
LEMMA OthersLeaveControl ==
  ASSUME DeliverStep \/ ServerStep \/ DiskChanges \/ DeadlinePasses \/ PersistNothing
  PROVE  /\ UNCHANGED <<caller, listening, accepting, ready, stopRequested, stopAsync,
                        main, failure, held, ingress>>
         /\ persist' = persist \/ (persist = "run" /\ persist' = "check")
  <1> USE DEF callerVars, health, signals, queues, tasks, delivery, world, history
  <1>1. CASE DeliverStops
    BY <1>1 DEF DeliverStops
  <1>2. CASE DeliverAsksSchema
    BY <1>2 DEF DeliverAsksSchema
  <1>3. CASE EnsureSchema
    BY <1>3 DEF EnsureSchema, Show
  <1>4. CASE DeliverWaits
    BY <1>4 DEF DeliverWaits
  <1>5. CASE DeliverSends
    BY <1>5 DEF DeliverSends
  <1>6. CASE DeliverBuriesOldest
    BY <1>6 DEF DeliverBuriesOldest, BuryOldest, Show
  <1>7. CASE DeliverApplies
    BY <1>7 DEF DeliverApplies, ApplyAnswer, Show
  <1>8. CASE DeliverParks
    BY <1>8 DEF DeliverParks, BlockOnStorage
  <1>9. CASE DeliverBreaks
    BY <1>9 DEF DeliverBreaks
  <1>10. CASE ServerStep
    BY <1>10 DEF ServerStep, ServerAnswers
  <1>11. CASE DiskChanges \/ DeadlinePasses \/ PersistNothing
    BY <1>11 DEF DiskChanges, DeadlinePasses, PersistNothing
  <1> QED
    BY <1>1, <1>2, <1>3, <1>4, <1>5, <1>6, <1>7, <1>8, <1>9, <1>10, <1>11 DEF DeliverStep

\* The steps of the caller: start(), submit(), stop() and their waits.
LEMMA CallerKeepsControl ==
  ASSUME ControlInv, Start \/ Submit \/ Stop \/ CallerStep \/ StartTimesOut
  PROVE  ControlInv'
  <1> USE DEF ControlInv, ControlTypes, Starting, Stopping, Ending, Quiet, CallerPlaces,
              MainPlaces, callerVars, health, signals, queues, tasks, delivery, world, history
  <1>1. CASE Start
    BY <1>1 DEF Start
  <1>2. CASE Submit
    BY <1>2 DEF Submit
  <1>3. CASE Stop
    <2>1. /\ caller' \in {"stopped", "stop_request"} /\ accepting' = FALSE
          /\ caller \in {"new", "started", "start_raised", "gave_up"}
      BY <1>3 DEF Stop
    <2>2. UNCHANGED <<listening, ready, stopRequested, stopAsync, main, persist, failure,
                      held, ingress>>
      BY <1>3 DEF Stop
    <2>3. ControlTypes' /\ Stopping'
      BY <2>1, <2>2
    <2>4. Starting'
      BY <2>1, <2>2
    <2>5. Ending'
      BY <2>2
    <2> QED
      BY <2>3, <2>4, <2>5 DEF ControlInv
  <1>4. CASE StartReturns
    BY <1>4 DEF StartReturns
  <1>5. CASE RequestStop
    BY <1>5 DEF RequestStop
  <1>6. CASE SignalStop
    BY <1>6 DEF SignalStop, LoopRunning
  <1>7. CASE Join
    BY <1>7 DEF Join
  <1>8. CASE StartTimesOut
    BY <1>8 DEF StartTimesOut
  <1> QED
    BY <1>1, <1>2, <1>3, <1>4, <1>5, <1>6, <1>7, <1>8 DEF CallerStep

\* The steps of the worker thread outside the loop, and a kill.
LEMMA RunKeepsControl ==
  ASSUME ControlInv, RunStep \/ OpenFails \/ Crash
  PROVE  ControlInv'
  <1> USE DEF ControlInv, ControlTypes, Starting, Stopping, Ending, Quiet, CallerPlaces,
              MainPlaces, callerVars, health, signals, queues, tasks, delivery, world, history
  <1>1. CASE OpenResources
    BY <1>1 DEF OpenResources
  <1>2. CASE Accept
    BY <1>2 DEF Accept
  <1>3. CASE Ready
    BY <1>3 DEF Ready
  <1>4. CASE RecordFailure
    BY <1>4 DEF RecordFailure
  <1>5. CASE CloseResources
    BY <1>5 DEF CloseResources
  <1>6. CASE Finish
    BY <1>6 DEF Finish
  <1>7. CASE Exit
    BY <1>7 DEF Exit
  <1>8. CASE OpenFails
    BY <1>8 DEF OpenFails
  <1>9. CASE Crash
    BY <1>9 DEF Crash
  <1> QED
    BY <1>1, <1>2, <1>3, <1>4, <1>5, <1>6, <1>7, <1>8, <1>9 DEF RunStep

\* The steps of the main task and of the persist task.
LEMMA LoopKeepsControl ==
  ASSUME ControlInv, MainStep \/ PersistStep \/ PersistBreaks
  PROVE  ControlInv'
  <1> USE DEF ControlInv, ControlTypes, Starting, Stopping, Ending, Quiet, CallerPlaces,
              MainPlaces, callerVars, health, signals, queues, tasks, delivery, world, history
  <1>1. CASE SetLoop
    BY <1>1 DEF SetLoop
  <1>2. CASE CreateTasks
    BY <1>2 DEF CreateTasks
  <1>3. CASE SeeStop
    BY <1>3 DEF SeeStop
  <1>4. CASE SeeFailure
    BY <1>4 DEF SeeFailure, Raise
  <1>5. CASE AwaitPersist
    <2>1. main' \in {"cancel", "flush_schema", "flush"}
      BY <1>5 DEF AwaitPersist
    <2> QED
      BY <1>5, <2>1 DEF AwaitPersist
  <1>6. CASE FlushSchema
    BY <1>6 DEF FlushSchema
  <1>7. CASE FlushBegins
    <2>1. /\ main = "flush" /\ main' \in {"flushing", "cancel"}
          /\ UNCHANGED <<caller, listening, accepting, ready, stopRequested, stopAsync,
                         persist, failure, held, ingress>>
      BY <1>7 DEF FlushBegins, BuryOldest, Show
    <2> QED
      BY <2>1
  <1>8. CASE FlushApplies
    <2>1. /\ main = "flushing" /\ main' = "cancel"
          /\ UNCHANGED <<caller, listening, accepting, ready, stopRequested, stopAsync,
                         persist, failure, held, ingress>>
      BY <1>8 DEF FlushApplies, ApplyAnswer, Show
    <2> QED
      BY <2>1
  <1>9. CASE FlushBreaks
    BY <1>9 DEF FlushBreaks, Raise
  <1>10. CASE CancelDelivery
    BY <1>10 DEF CancelDelivery, Raise
  <1>11. CASE EndLoop
    BY <1>11 DEF EndLoop
  <1>12. CASE PersistNothing
    BY <1>12, OthersLeaveControl
  <1>13. CASE PersistRefused
    BY <1>13 DEF PersistRefused, BlockOnStorage
  <1>14. CASE PersistStored
    BY <1>14 DEF PersistStored, ResumeAfterStorageBlock
  <1>15. CASE PersistChecksStop
    <2>1. /\ persist' \in {"run", "done", "failed"}
          /\ persist' = "done" => stopAsync /\ NothingLeft
      BY <1>15 DEF PersistChecksStop
    <2> QED
      BY <1>15, <2>1 DEF PersistChecksStop, NothingLeft
  <1>16. CASE PersistBreaks
    BY <1>16 DEF PersistBreaks
  <1> QED
    BY <1>1, <1>2, <1>3, <1>4, <1>5, <1>6, <1>7, <1>8, <1>9, <1>10, <1>11, <1>12, <1>13, <1>14,
       <1>15, <1>16 DEF MainStep, PersistStep

-----------------------------------------------------------------------------
(* Rising sequences of events.                                             *)

Rising(s) == \A i, j \in 1 .. Len(s) : i < j => s[i] < s[j]

\* Cutting a rising sequence leaves two, one below the other.
LEMMA RisingSplit ==
  ASSUME NEW s \in Seq(Events), NEW t \in Seq(Events), Rising(s \o t)
  PROVE  /\ Rising(s) /\ Rising(t)
         /\ \A a \in Range(s), b \in Range(t) : a < b
  <1>1. /\ Len(s) \in Nat /\ Len(t) \in Nat /\ Len(s \o t) = Len(s) + Len(t)
        /\ \A i \in 1 .. Len(s) : (s \o t)[i] = s[i]
        /\ \A i \in 1 .. Len(t) : (s \o t)[Len(s) + i] = t[i]
    BY ConcatProperties, LenProperties
  <1>2. Rising(s)
    BY <1>1 DEF Rising
  <1>3. Rising(t)
    <2> SUFFICES ASSUME NEW i \in 1 .. Len(t), NEW j \in 1 .. Len(t), i < j
                 PROVE  t[i] < t[j]
      BY DEF Rising
    <2>1. Len(s) + i \in 1 .. Len(s \o t) /\ Len(s) + j \in 1 .. Len(s \o t)
           /\ Len(s) + i < Len(s) + j
      BY <1>1
    <2> QED
      BY <1>1, <2>1 DEF Rising
  <1>4. ASSUME NEW i \in 1 .. Len(s), NEW j \in 1 .. Len(t)
        PROVE  s[i] < t[j]
    <2>1. i \in 1 .. Len(s \o t) /\ Len(s) + j \in 1 .. Len(s \o t) /\ i < Len(s) + j
      BY <1>1
    <2> QED
      BY <1>1, <2>1 DEF Rising
  <1>5. Range(s) = {s[i] : i \in 1 .. Len(s)} /\ Range(t) = {t[i] : i \in 1 .. Len(t)}
    BY RangeEquality
  <1> QED
    BY <1>2, <1>3, <1>4, <1>5

\* An event more at the end, as a set.
LEMMA RangeAppend ==
  ASSUME NEW s \in Seq(Events), NEW e \in Events
  PROVE  Range(Append(s, e)) = Range(s) \cup {e}
  <1>1. /\ Len(s) \in Nat /\ Len(Append(s, e)) = Len(s) + 1
        /\ Append(s, e) \in Seq(Events)
        /\ \A i \in 1 .. Len(s) : Append(s, e)[i] = s[i]
        /\ Append(s, e)[Len(s) + 1] = e
    BY AppendProperties, LenProperties
  <1>2. Range(s) = {s[i] : i \in 1 .. Len(s)}
    BY RangeEquality
  <1>3. Range(Append(s, e)) = {Append(s, e)[i] : i \in 1 .. Len(s) + 1}
    BY <1>1, RangeEquality
  <1> QED
    BY <1>1, <1>2, <1>3

\* A larger event at the end.
LEMMA RisingAppend ==
  ASSUME NEW s \in Seq(Events), NEW e \in Events, Rising(s), \A a \in Range(s) : a < e
  PROVE  Rising(Append(s, e))
  <1>1. /\ Len(s) \in Nat /\ Len(Append(s, e)) = Len(s) + 1
        /\ \A i \in 1 .. Len(s) : Append(s, e)[i] = s[i]
        /\ Append(s, e)[Len(s) + 1] = e
    BY AppendProperties, LenProperties
  <1>2. Range(s) = {s[i] : i \in 1 .. Len(s)}
    BY RangeEquality
  <1> QED
    BY <1>1, <1>2 DEF Rising

\* No event twice.
LEMMA RisingDistinct ==
  ASSUME NEW s \in Seq(Events), Rising(s)
  PROVE  /\ \A i, j \in 1 .. Len(s) : s[i] = s[j] => i = j
         /\ IsFiniteSet(Range(s)) /\ Cardinality(Range(s)) = Len(s)
  <1>1. Len(s) \in Nat /\ s \in [1 .. Len(s) -> Events] /\ DOMAIN s = 1 .. Len(s)
    BY LenProperties
  <1>2. \A i \in 1 .. Len(s) : s[i] \in Nat
    BY <1>1, WorkerAssumption
  <1>3. ASSUME NEW i \in 1 .. Len(s), NEW j \in 1 .. Len(s), s[i] = s[j]
        PROVE  i = j
    <2>1. ~(i < j) /\ ~(j < i)
      BY <1>2, <1>3 DEF Rising
    <2> QED
      BY <2>1
  <1>4. s \in Bijection(1 .. Len(s), Range(s))
    BY <1>1, <1>3 DEF Bijection, Injection, Surjection, IsInjective, Range
  <1>5. IsFiniteSet(1 .. Len(s)) /\ Cardinality(1 .. Len(s)) = Len(s)
    BY <1>1, FS_Interval
  <1> QED
    BY <1>3, <1>4, <1>5, FS_Bijection DEF ExistsBijection

\* The elements of a concatenation.
LEMMA RangeConcat == \A s, t \in Seq(Events) : Range(s \o t) = Range(s) \cup Range(t)
  BY RangeConcatenation

\* Concatenation is associative.
LEMMA ConcatRegroups == \A s, t, u \in Seq(Events) : (s \o t) \o u = s \o (t \o u)
  BY ConcatAssociative

\* _drain_ingress only moves the boundary between the two queues.
LEMMA DrainSplits ==
  ASSUME held \in Seq(Events), ingress \in Seq(Events), Len(held) <= PersistBatchRows
  PROVE  /\ Drained \in Seq(Events) /\ LeftInIngress \in Seq(Events)
         /\ Len(Drained) <= PersistBatchRows
         /\ Drained \o LeftInIngress = held \o ingress
  <1>1. Len(held) \in Nat /\ Len(ingress) \in Nat /\ PersistBatchRows \in Nat
    BY LenProperties, WorkerAssumption
  <1>2. Taken \in 0 .. Len(ingress) /\ Len(held) + Taken <= PersistBatchRows
    BY <1>1 DEF Taken
  <1>3. \A i \in 1 .. Len(ingress) : ingress[i] \in Events
    BY ElementOfSeq
  <1> DEFINE first == SubSeq(ingress, 1, Taken)
             rest  == SubSeq(ingress, Taken + 1, Len(ingress))
  <1>4. first \in Seq(Events) /\ Len(first) = Taken
    BY <1>1, <1>2, <1>3, SubSeqProperties
  <1>5. rest \in Seq(Events)
    BY <1>1, <1>2, <1>3, SubSeqProperties
  <1>6. first \o rest = ingress
    <2>1. 1 \in 1 .. Len(ingress) + 1 /\ Taken \in 1 - 1 .. Len(ingress)
           /\ Len(ingress) \in Taken .. Len(ingress)
      BY <1>1, <1>2
    <2>2. first \o rest = SubSeq(ingress, 1, Len(ingress))
      BY <2>1, ConcatAdjacentSubSeq
    <2> QED
      BY <2>2, SubSeqFull
  <1>7. Drained = held \o first /\ LeftInIngress = rest
    BY DEF Drained, LeftInIngress
  <1> HIDE DEF first, rest
  <1>8. Drained \in Seq(Events) /\ Len(Drained) = Len(held) + Taken
    BY <1>4, <1>7, ConcatProperties
  <1>9. (held \o first) \o rest = held \o (first \o rest)
    <2>1. held \in Seq(Events) /\ first \in Seq(Events) /\ rest \in Seq(Events)
      BY <1>4, <1>5
    <2> QED
      BY <2>1, ConcatRegroups
  <1> QED
    BY <1>2, <1>5, <1>6, <1>7, <1>8, <1>9

-----------------------------------------------------------------------------
(* The way of an event: queue, spool, request, QuestDB.                    *)

\* What submit() accepted and the spool does not have yet.
Queue == held \o ingress

DataTypes ==
    /\ held \in Seq(Events) /\ ingress \in Seq(Events) /\ Len(held) <= PersistBatchRows
    /\ offered \in Nat
    /\ job \in [Senders -> JobType]
    /\ received \subseteq Events /\ accepted \subseteq Events
    /\ durable \subseteq Events /\ lost \subseteq Events

\* Events wait in the order of submission, behind everything that was ever
\* made durable or lost.
FlowInv ==
    /\ accepted = durable \cup lost \cup Range(Queue)
    /\ Rising(Queue)
    /\ \A d \in durable \cup lost, e \in Range(Queue) : d < e
    /\ \A e \in accepted : e <= offered

\* The tables hold durable events, and the order of the rows is the order of
\* the events.
RowsInv ==
    /\ EventsOf(pending) \subseteq durable /\ EventsOf(deadLetter) \subseteq durable
    /\ \A p, q \in pending : p.seq < q.seq => p.event < q.event

\* A request, from the send to the end of its handling: it carries the oldest
\* events of the spool, and its sequence numbers still name those events and
\* no others, whatever another task has done to the rows meanwhile.
RequestInv(j) ==
    /\ j.events \subseteq durable \ Corrupt
    /\ \A s \in j.seqs : s <= lastSequence
    /\ \A r \in pending : r.seq \in j.seqs => r.event \in j.events
    /\ \A e \in j.events, r \in pending : r.event < e => r.event \in j.events
    /\ Cardinality(j.seqs) = 1 => \E e \in Events : j.events = {e}
    /\ j.answer = "ok" => j.events \subseteq received
    /\ j.answer = "reject" => j.events \cap Poison # {}

JobsInv == \A w \in Senders : RequestInv(job[w])

\* QuestDB has nothing that was not durable first, and nothing it cannot take.
Innocent == received \subseteq durable \ Guilty

DataInv == /\ SpoolInv /\ DataTypes /\ FlowInv /\ RowsInv /\ JobsInv
           /\ Innocent /\ NoDurableLoss /\ OnlyGuiltyBuried

\* What the queue holds, as a set.
LEMMA QueueRange ==
  ASSUME held \in Seq(Events), ingress \in Seq(Events)
  PROVE  Queue \in Seq(Events) /\ Range(Queue) = Range(held) \cup Range(ingress)
  BY ConcatProperties, RangeConcat DEF Queue

\* Nothing is asked of a job that is not there.
LEMMA IdleRequest == RequestInv(Idle)
  <1>1. Idle.answer = "idle" /\ Idle.seqs = {} /\ Idle.events = {}
    BY DEF Idle
  <1>2. Cardinality({}) = 0
    BY FS_EmptySet
  <1> QED
    BY <1>1, <1>2 DEF RequestInv

\* ... nor after the step.
LEMMA IdleRequestNext == RequestInv(Idle)'
  <1>1. Idle.answer = "idle" /\ Idle.seqs = {} /\ Idle.events = {}
    BY DEF Idle
  <1>2. Cardinality({}) = 0
    BY FS_EmptySet
  <1> QED
    BY <1>1, <1>2 DEF RequestInv, Idle

\* A request outlives everything that removes or rewrites rows, or adds rows
\* with new numbers and newer events.
LEMMA RequestStable ==
  ASSUME NEW j \in JobType, RequestInv(j),
         \A r \in pending' : \/ \E q \in pending : q.seq = r.seq /\ q.event = r.event
                             \/ /\ r.seq > lastSequence /\ r.seq \in Nat
                                /\ \A d \in durable : d < r.event
                                /\ r.event \in Events,
         durable \subseteq durable', durable \subseteq Events,
         received \subseteq received',
         lastSequence \in Nat, lastSequence' \in Nat, lastSequence <= lastSequence'
  PROVE  RequestInv(j)'
  <1>1. j.seqs \subseteq Nat /\ j.events \subseteq Nat /\ Events \subseteq Nat
    BY WorkerAssumption DEF JobType
  <1>2. \A s \in j.seqs : s <= lastSequence'
    BY <1>1 DEF RequestInv
  <1>3. \A r \in pending' : r.seq \in j.seqs => r.event \in j.events
    BY <1>1 DEF RequestInv
  <1>4. ASSUME NEW e \in j.events, NEW r \in pending', r.event < e
        PROVE  r.event \in j.events
    <2>1. e \in durable /\ e \in Nat
      BY <1>1 DEF RequestInv
    <2>2. CASE \E q \in pending : q.seq = r.seq /\ q.event = r.event
      BY <1>4, <2>2 DEF RequestInv
    <2>3. CASE r.event \in Events /\ \A d \in durable : d < r.event
      <3>1. e < r.event
        BY <2>1, <2>3
      <3>2. r.event \in Nat
        BY <1>1, <2>3
      <3> QED
        BY <1>4, <2>1, <3>1, <3>2
    <2> QED
      BY <2>2, <2>3
  <1> QED
    BY <1>2, <1>3, <1>4 DEF RequestInv

\* So all requests do, when jobs do not change but for ending.
LEMMA JobsStable ==
  ASSUME DataTypes, JobsInv,
         \A w \in Senders : job'[w] = job[w] \/ job'[w] = Idle,
         \A r \in pending' : \/ \E q \in pending : q.seq = r.seq /\ q.event = r.event
                             \/ /\ r.seq > lastSequence /\ r.seq \in Nat
                                /\ \A d \in durable : d < r.event
                                /\ r.event \in Events,
         durable \subseteq durable',
         received \subseteq received',
         lastSequence \in Nat, lastSequence' \in Nat, lastSequence <= lastSequence'
  PROVE  JobsInv'
  <1>1. ASSUME NEW w \in Senders, NEW g, g = job'[w]
        PROVE  RequestInv(g)'
    <2>1. CASE g = Idle
      BY <2>1, IdleRequestNext DEF RequestInv, Idle
    <2>2. CASE g = job[w]
      <3>1. RequestInv(g) /\ g \in JobType
        BY <2>2 DEF JobsInv, DataTypes
      <3> QED
        BY <3>1, RequestStable DEF DataTypes
    <2> QED
      BY <1>1, <2>1, <2>2
  <1> QED
    BY <1>1 DEF JobsInv, RequestInv

-----------------------------------------------------------------------------
(* What a step may do to the data, one lemma per kind of step: it keeps    *)
(* the invariant, and it is a step of the delivery contract or a stutter.  *)

ContractStep == [Contract!ContractNext]_(Contract!contractVars)

\* Jobs may end; the tables, the queue and the history stay.
LEMMA RestKeepsData ==
  ASSUME DataInv, SpoolInv',
         UNCHANGED <<pending, deadLetter, lastSequence, offered, held, ingress, received,
                     accepted, durable, lost>>,
         job' \in [Senders -> JobType],
         \A w \in Senders : job'[w] = job[w] \/ job'[w] = Idle
  PROVE  DataInv' /\ ContractStep
  <1>1. /\ SpoolInv /\ DataTypes /\ FlowInv /\ RowsInv /\ JobsInv
        /\ Innocent /\ NoDurableLoss /\ OnlyGuiltyBuried
    BY DEF DataInv
  <1>2. lastSequence \in Nat
    BY <1>1 DEF SpoolInv, SpoolTypeOK
  <1>3. JobsInv'
    BY <1>1, <1>2, JobsStable
  <1>4. DataTypes' /\ FlowInv' /\ RowsInv'
    BY <1>1 DEF DataTypes, FlowInv, RowsInv, Queue, Rising
  <1>5. Innocent' /\ NoDurableLoss' /\ OnlyGuiltyBuried'
    BY <1>1 DEF Innocent, NoDurableLoss, OnlyGuiltyBuried
  <1>6. UNCHANGED Contract!contractVars
    BY DEF Contract!contractVars
  <1> QED
    BY <1>3, <1>4, <1>5, <1>6 DEF DataInv, ContractStep

\* ... in particular when nothing of it moves.
LEMMA StillKeepsData ==
  ASSUME DataInv, UNCHANGED <<spoolVars, offered, held, ingress, job, received, accepted,
                              durable, lost>>
  PROVE  DataInv' /\ ContractStep
  <1>1. SpoolInv'
    BY DEF DataInv, SpoolInv, spoolVars, SpoolTypeOK, TablesFinite, CountersAhead, OneHome,
           Overlap, RowCountsExact
  <1> QED
    BY <1>1, RestKeepsData DEF spoolVars, DataInv, DataTypes

\* submit() takes an event or drops it.
LEMMA SubmitKeepsData ==
  ASSUME DataInv, Submit
  PROVE  DataInv' /\ ContractStep
  <1> DEFINE e == offered + 1
  <1>1. /\ SpoolInv /\ DataTypes /\ FlowInv /\ RowsInv /\ JobsInv
        /\ Innocent /\ NoDurableLoss /\ OnlyGuiltyBuried
    BY DEF DataInv
  <1>2. /\ UNCHANGED <<spoolVars, held, job, received, durable, lost>>
        /\ offered' = e /\ e \in Events
        /\ \/ ingress' = ingress /\ accepted' = accepted
           \/ ingress' = Append(ingress, e) /\ accepted' = accepted \cup {e}
    BY DEF Submit, delivery, world, history, queues
  <1>3. SpoolInv'
    BY <1>1, <1>2 DEF SpoolInv, spoolVars, SpoolTypeOK, TablesFinite, CountersAhead, OneHome,
                      Overlap, RowCountsExact
  <1>4. lastSequence \in Nat
    BY <1>1 DEF SpoolInv, SpoolTypeOK
  <1>5. JobsInv'
    BY <1>1, <1>2, <1>4, JobsStable DEF spoolVars
  <1>6. RowsInv' /\ Innocent' /\ NoDurableLoss' /\ OnlyGuiltyBuried'
    BY <1>1, <1>2 DEF RowsInv, Innocent, NoDurableLoss, OnlyGuiltyBuried, spoolVars
  <1>7. e \in Nat /\ \A a \in accepted : a < e /\ a \in Nat
    BY <1>1, <1>2, WorkerAssumption DEF DataTypes, FlowInv
  <1>8. Queue \in Seq(Events) /\ Range(Queue) = Range(held) \cup Range(ingress)
    BY <1>1, QueueRange DEF DataTypes
  <1>9. CASE ingress' = ingress /\ accepted' = accepted
    <2>1. DataTypes' /\ FlowInv'
      BY <1>1, <1>2, <1>7, <1>9 DEF DataTypes, FlowInv, Queue, Rising
    <2>2. UNCHANGED Contract!contractVars
      BY <1>2, <1>9 DEF Contract!contractVars, spoolVars
    <2> QED
      BY <1>3, <1>5, <1>6, <2>1, <2>2 DEF DataInv, ContractStep
  <1>10. CASE ingress' = Append(ingress, e) /\ accepted' = accepted \cup {e}
    <2>1. Queue' = Append(Queue, e)
      <3>1. /\ Append(ingress, e) = ingress \o <<e>> /\ <<e>> \in Seq(Events)
            /\ Append(Queue, e) = Queue \o <<e>>
        BY <1>1, <1>2, <1>8, AppendIsConcat DEF DataTypes
      <3>2. held \in Seq(Events) /\ ingress \in Seq(Events)
        BY <1>1 DEF DataTypes
      <3>3. (held \o ingress) \o <<e>> = held \o (ingress \o <<e>>)
        BY <3>1, <3>2, ConcatRegroups
      <3> QED
        BY <1>2, <1>10, <3>1, <3>3 DEF Queue
    <2>2. \A a \in Range(Queue) : a < e
      BY <1>1, <1>7 DEF FlowInv
    <2>3. Rising(Append(Queue, e)) /\ Range(Append(Queue, e)) = Range(Queue) \cup {e}
      BY <1>1, <1>2, <1>8, <2>2, RisingAppend, RangeAppend DEF FlowInv
    <2>4. Range(Queue)' = Range(Queue) \cup {e} /\ Rising(Queue)'
      BY <2>1, <2>3 DEF Rising
    <2>5. FlowInv'
      BY <1>1, <1>2, <1>7, <1>10, <2>4 DEF FlowInv
    <2>6. DataTypes'
      BY <1>1, <1>2, <1>7, <1>10, AppendProperties DEF DataTypes
    <2>7. Range(ingress)' = Range(ingress) \cup {e}
      BY <1>1, <1>2, <1>10, RangeAppend DEF DataTypes
    <2>8. Contract!Accept(e)
      <3>1. \A f \in (Range(held) \cup Range(ingress)) \cup durable : f < e
        BY <1>1, <1>7, <1>8 DEF FlowInv
      <3>2. Range(held)' \cup Range(ingress)' = (Range(held) \cup Range(ingress)) \cup {e}
        BY <1>2, <2>7
      <3> QED
        BY <1>2, <3>1, <3>2 DEF Contract!Accept, spoolVars
    <2> QED
      BY <1>2, <1>3, <1>5, <1>6, <2>5, <2>6, <2>8 DEF DataInv, ContractStep, Contract!ContractNext
  <1> QED
    BY <1>2, <1>9, <1>10

\* A drain that stores nothing: the queue is the same, cut elsewhere.
LEMMA RegroupKeepsData ==
  ASSUME DataInv, held' = Drained, ingress' = LeftInIngress,
         UNCHANGED <<spoolVars, offered, job, received, accepted, durable, lost>>
  PROVE  DataInv' /\ ContractStep
  <1>1. /\ SpoolInv /\ DataTypes /\ FlowInv /\ RowsInv /\ JobsInv
        /\ Innocent /\ NoDurableLoss /\ OnlyGuiltyBuried
    BY DEF DataInv
  <1>2. SpoolInv'
    BY <1>1 DEF SpoolInv, spoolVars, SpoolTypeOK, TablesFinite, CountersAhead, OneHome,
                Overlap, RowCountsExact
  <1>3. lastSequence \in Nat
    BY <1>1 DEF SpoolInv, SpoolTypeOK
  <1>4. JobsInv'
    BY <1>1, <1>3, JobsStable DEF spoolVars
  <1>5. /\ Drained \in Seq(Events) /\ LeftInIngress \in Seq(Events)
        /\ Len(Drained) <= PersistBatchRows
        /\ Drained \o LeftInIngress = Queue
    BY <1>1, DrainSplits DEF DataTypes, Queue
  <1>6. Queue' = Queue
    BY <1>5 DEF Queue
  <1>7. DataTypes' /\ FlowInv'
    BY <1>1, <1>5, <1>6 DEF DataTypes, FlowInv, Rising
  <1>8. RowsInv' /\ Innocent' /\ NoDurableLoss' /\ OnlyGuiltyBuried'
    BY <1>1 DEF RowsInv, Innocent, NoDurableLoss, OnlyGuiltyBuried, spoolVars
  <1>9. Range(held)' \cup Range(ingress)' = Range(held) \cup Range(ingress)
    <2>1. Range(Drained) \cup Range(LeftInIngress) = Range(Queue)
      BY <1>5, RangeConcat
    <2> QED
      BY <1>1, <2>1, QueueRange DEF DataTypes
  <1>10. UNCHANGED Contract!contractVars
    BY <1>9 DEF Contract!contractVars, spoolVars
  <1> QED
    BY <1>2, <1>4, <1>7, <1>8, <1>10 DEF DataInv, ContractStep

\* Every event of a drained batch is new to the spool, so every position of
\* the batch becomes a row, and the rows stand in the order of the batch.
LEMMA NewRowsOfQueue ==
  ASSUME SpoolInv, RowsInv, durable \subseteq Events,
         NEW s \in Seq(Events), Rising(s), \A d \in durable, e \in Range(s) : d < e
  PROVE  /\ EventsOf(NewRows(s)) = Range(s)
         /\ \A p, q \in NewRows(s) : p.seq < q.seq => p.event < q.event
  <1> DEFINE n == Len(s)
             F == FreshPositions(s)
  <1>1. n \in Nat /\ s \in [1 .. n -> Events] /\ DOMAIN s = 1 .. n
         /\ Range(s) = {s[i] : i \in 1 .. n}
    BY LenProperties, RangeEquality
  <1>2. Events \subseteq Nat /\ \A d, e \in Events : IdOf[d] = IdOf[e] => d = e
    BY WorkerAssumption
  <1>3. \A i \in 1 .. n : s[i] \in Events /\ s[i] \in Range(s) /\ s[i] \in Nat
    BY <1>1, <1>2
  <1> HIDE DEF n
  <1>4. ASSUME NEW i \in 1 .. n
        PROVE  ~Stored(IdOf[s[i]])
    <2>1. \A d \in durable : d # s[i] /\ d \in Events
      BY <1>2, <1>3
    <2> QED
      BY <1>2, <1>3, <2>1 DEF Stored, RowsInv
  <1>5. ASSUME NEW i \in 1 .. n, NEW j \in 1 .. n, j < i
        PROVE  IdOf[s[j]] # IdOf[s[i]]
    <2>1. s[j] < s[i]
      BY <1>5 DEF Rising, n
    <2> QED
      BY <1>2, <1>3, <2>1
  <1>6. F = 1 .. n
    BY <1>1, <1>4, <1>5 DEF FreshPositions
  <1>7. \A i \in F : /\ Rank(s, i) \in 1 .. Cardinality(F)
                     /\ \A k \in F : i < k => Rank(s, i) < Rank(s, k)
    BY <1>1, RankMonotone
  <1>8. \A i \in F : NewRow(s, i) = [seq |-> lastSequence + Rank(s, i), event |-> s[i],
                                     attempts |-> 0, uncertain |-> FALSE]
    BY DEF NewRow, Rank
  <1>9. NewRows(s) = {NewRow(s, i) : i \in F}
    BY DEF NewRows
  <1> HIDE DEF F
  <1>10. EventsOf(NewRows(s)) = Range(s)
    <2>1. \A i \in F : NewRow(s, i).event = s[i]
      BY <1>8
    <2> QED
      BY <1>1, <1>6, <1>9, <2>1 DEF EventsOf
  <1>11. ASSUME NEW p \in NewRows(s), NEW q \in NewRows(s), p.seq < q.seq
         PROVE  p.event < q.event
    <2>1. PICK i \in F : p = NewRow(s, i)
      BY <1>9
    <2>2. PICK k \in F : q = NewRow(s, k)
      BY <1>9
    <2>3. /\ p.seq = lastSequence + Rank(s, i) /\ p.event = s[i]
          /\ q.seq = lastSequence + Rank(s, k) /\ q.event = s[k]
      BY <1>8, <2>1, <2>2
    <2>4. lastSequence \in Nat /\ i \in Nat /\ k \in Nat
      BY <1>6 DEF SpoolInv, SpoolTypeOK
    <2>5. Rank(s, i) \in Int /\ Rank(s, k) \in Int
      BY <1>7
    <2>6. i < k
      <3> SUFFICES ASSUME k <= i PROVE FALSE
        BY <2>4
      <3>1. Rank(s, k) <= Rank(s, i)
        BY <1>7, <2>4, <2>5
      <3> QED
        BY <1>11, <2>3, <2>4, <2>5, <3>1
    <2>7. s[i] < s[k]
      BY <1>6, <2>6 DEF Rising, n
    <2> QED
      BY <2>3, <2>7
  <1> QED
    BY <1>10, <1>11

\* The drained batch becomes durable.
LEMMA StoreKeepsData ==
  ASSUME DataInv, Drained # <<>>, EnqueueMany(Drained),
         held' = <<>>, ingress' = LeftInIngress, durable' = durable \cup Range(Drained),
         UNCHANGED <<offered, job, received, accepted, lost>>
  PROVE  DataInv' /\ ContractStep
  <1> DEFINE B == Drained
             L == LeftInIngress
             R == NewRows(B)
  <1>1. /\ SpoolInv /\ DataTypes /\ FlowInv /\ RowsInv /\ JobsInv
        /\ Innocent /\ NoDurableLoss /\ OnlyGuiltyBuried
    BY DEF DataInv
  <1>2. /\ B \in Seq(Events) /\ L \in Seq(Events) /\ B \o L = Queue
    BY <1>1, DrainSplits DEF DataTypes, Queue
  <1>3. pending' = pending \cup R /\ deadLetter' = deadLetter
         /\ lastSequence' = lastSequence + Cardinality(FreshPositions(B))
    BY DEF EnqueueMany
  <1>4. Len(B) \in Nat /\ B \in [1 .. Len(B) -> Events]
    BY <1>2, LenProperties
  <1>5. SpoolInv'
    BY <1>1, <1>4, EnqueueKeepsInv
  <1>6. /\ R \subseteq PendingRow /\ \A r \in R : r.seq > lastSequence
        /\ Cardinality(FreshPositions(B)) \in Nat
    BY <1>1, <1>4, NewRowsFresh, FreshFinite DEF SpoolInv
  <1>7. EnqueueMany(B)
    OBVIOUS
  <1> HIDE DEF B, L
  <1>8. /\ Rising(B) /\ Rising(L)
        /\ \A a \in Range(B), b \in Range(L) : a < b
        /\ Range(Queue) = Range(B) \cup Range(L)
    <2>1. Rising(B \o L)
      BY <1>1, <1>2 DEF FlowInv
    <2>2. Range(B \o L) = Range(B) \cup Range(L)
      BY <1>2, RangeConcat
    <2> QED
      BY <1>2, <2>1, <2>2, RisingSplit
  <1>9. Range(B) \subseteq Events /\ Range(L) \subseteq Events /\ Events \subseteq Nat
    BY <1>2, RangeOfSeq, WorkerAssumption
  <1>10. \A d \in durable, e \in Range(B) : d < e
    BY <1>1, <1>8 DEF FlowInv
  <1>11. /\ EventsOf(R) = Range(B)
         /\ \A p, q \in R : p.seq < q.seq => p.event < q.event
    BY <1>1, <1>2, <1>8, <1>10, NewRowsOfQueue DEF DataTypes
  <1> HIDE DEF R
  <1>12. \A r \in R : r.event \in Range(B) /\ r.seq \in Nat
    BY <1>6, <1>11 DEF EventsOf, PendingRow
  <1>13. lastSequence \in Nat /\ \A p \in pending : p.seq \in Nat /\ p.seq <= lastSequence
    BY <1>1 DEF SpoolInv, SpoolTypeOK, CountersAhead, PendingRow
  <1>14. Queue' = L /\ held' = <<>> /\ ingress' = L /\ durable' = durable \cup Range(B)
    BY <1>2, ConcatEmptySeq DEF Queue, L, B
  <1>15. DataTypes'
    <2>1. <<>> \in Seq(Events) /\ Len(<<>>) <= PersistBatchRows
      BY EmptySeq, WorkerAssumption
    <2> QED
      BY <1>1, <1>2, <1>9, <1>14, <2>1 DEF DataTypes
  <1>16. FlowInv'
    BY <1>1, <1>8, <1>14 DEF FlowInv, Rising
  <1>17. EventsOf(pending)' = EventsOf(pending) \cup Range(B)
    BY <1>3, <1>11 DEF EventsOf
  <1>18. RowsInv'
    <2>1. EventsOf(pending)' \subseteq durable' /\ EventsOf(deadLetter)' \subseteq durable'
      BY <1>1, <1>3, <1>14, <1>17 DEF RowsInv
    <2>2. ASSUME NEW p \in pending', NEW q \in pending', p.seq < q.seq
          PROVE  p.event < q.event
      <3>1. CASE p \in pending /\ q \in pending
        BY <1>1, <2>2, <3>1 DEF RowsInv
      <3>2. CASE p \in pending /\ q \in R
        <4>1. p.event \in durable
          BY <1>1, <3>2 DEF RowsInv, EventsOf
        <4> QED
          BY <1>10, <1>12, <3>2, <4>1
      <3>3. CASE p \in R /\ q \in pending
        BY <1>6, <1>12, <1>13, <2>2, <3>3
      <3>4. CASE p \in R /\ q \in R
        BY <1>11, <2>2, <3>4
      <3> QED
        BY <1>3, <3>1, <3>2, <3>3, <3>4
    <2> QED
      BY <2>1, <2>2 DEF RowsInv
  <1>19. JobsInv'
    <2>1. \A r \in R : r.seq > lastSequence /\ r.seq \in Nat
                        /\ (\A d \in durable : d < r.event) /\ r.event \in Events
      BY <1>6, <1>9, <1>10, <1>12
    <2>2. \A r \in pending' : \/ \E q \in pending : q.seq = r.seq /\ q.event = r.event
                              \/ /\ r.seq > lastSequence /\ r.seq \in Nat
                                 /\ \A d \in durable : d < r.event
                                 /\ r.event \in Events
      BY <1>3, <2>1
    <2>3. lastSequence' \in Nat /\ lastSequence <= lastSequence'
      BY <1>3, <1>6, <1>13
    <2> QED
      BY <1>1, <1>13, <1>14, <2>2, <2>3, JobsStable
  <1>20. Innocent' /\ NoDurableLoss' /\ OnlyGuiltyBuried'
    BY <1>1, <1>3, <1>14, <1>17 DEF Innocent, NoDurableLoss, OnlyGuiltyBuried
  <1>21. Contract!Store(Range(B))
    <2>1. Range(held) \cup Range(ingress) = Range(B) \cup Range(L)
      BY <1>1, <1>8, QueueRange DEF DataTypes
    <2>2. Range(held)' \cup Range(ingress)' = Range(L)
      <3>1. Range(<<>>) = {}
        BY DEF Range
      <3> QED
        BY <1>14, <3>1
    <2>3. Range(B) \cap Range(L) = {}
      <3> SUFFICES ASSUME NEW a \in Range(B), a \in Range(L)
                   PROVE  FALSE
        OBVIOUS
      <3>1. a < a
        BY <1>8
      <3>2. a \in Nat
        BY <1>9
      <3> QED
        BY <3>1, <3>2
    <2>4. Range(B) # {}
      <3>1. Len(B) # 0
        BY <1>2, EmptySeq DEF B
      <3>2. 1 \in 1 .. Len(B)
        BY <1>4, <3>1
      <3>3. B[1] \in {B[i] : i \in 1 .. Len(B)}
        BY <3>2
      <3> QED
        BY <1>2, <3>3, RangeEquality
    <2>5. \A e \in Range(B), f \in (Range(B) \cup Range(L)) \ Range(B) : e < f
      BY <1>8
    <2> QED
      BY <1>14, <1>17, <2>1, <2>2, <2>3, <2>4, <2>5 DEF Contract!Store
  <1>22. Contract!ContractNext
    BY <1>9, <1>21 DEF Contract!ContractNext
  <1> QED
    BY <1>5, <1>15, <1>16, <1>18, <1>19, <1>20, <1>22 DEF DataInv, ContractStep

-----------------------------------------------------------------------------
(* Sending and answering.                                                  *)

\* A row of the batch brings every older row with it: the batch is a prefix
\* of the table.
LEMMA BatchIsPrefix ==
  ASSUME SpoolInv, NEW alone,
         NEW b \in Batch(alone), NEW r \in pending, r.seq < b.seq
  PROVE  r \in Batch(alone)
  <1> DEFINE n == IF alone THEN 1 ELSE DeliveryBatchRows
             rows == PeekBatch(n)
             upTo(x) == {q \in rows : q.seq <= x.seq}
             Ilp(x) == MapThenSumSet(LAMBDA q : IlpSizeOf[q.event], upTo(x))
  <1>1. /\ b \in rows /\ EventsOf(upTo(b)) \cap Corrupt = {}
        /\ Ilp(b) <= DeliveryBatchBytes
    BY DEF Batch
  <1>2. /\ pending \subseteq PendingRow /\ IsFiniteSet(pending)
        /\ b \in pending /\ r.seq \in Nat /\ b.seq \in Nat
    BY <1>1 DEF SpoolInv, SpoolTypeOK, TablesFinite, PeekBatch, PendingRow
  <1>3. \A q \in pending : q.seq \in Nat /\ q.event \in Events
    BY <1>2 DEF PendingRow
  <1>4. n \in Nat
    BY WorkerAssumption
  <1> HIDE DEF n
  <1>5. r \in rows
    <2> DEFINE R == {q \in pending : q.seq < r.seq}
               B == {q \in pending : q.seq < b.seq}
    <2>1. R \subseteq B /\ B \subseteq pending
      BY <1>2, <1>3
    <2>2. IsFiniteSet(B)
      BY <1>2, <2>1, FS_Subset
    <2>3. Cardinality(R) <= Cardinality(B)
      BY <2>1, <2>2, FS_Subset
    <2>4. Cardinality(R) \in Nat /\ Cardinality(B) \in Nat
      BY <2>1, <2>2, FS_Subset, FS_CardinalityType
    <2>5. Cardinality(B) < n
      BY <1>1 DEF PeekBatch
    <2>6. Cardinality(R) < n
      BY <1>4, <2>3, <2>4, <2>5
    <2> QED
      BY <2>6 DEF PeekBatch
  <1>6. rows \subseteq pending
    BY DEF PeekBatch
  <1>7. Batch(alone) = {x \in rows : /\ EventsOf(upTo(x)) \cap Corrupt = {}
                                     /\ Ilp(x) <= DeliveryBatchBytes}
    BY DEF Batch, n
  <1> HIDE DEF rows
  <1>8. upTo(r) \subseteq upTo(b) /\ upTo(b) \subseteq pending
    BY <1>2, <1>3, <1>6
  <1>9. EventsOf(upTo(r)) \cap Corrupt = {}
    BY <1>1, <1>8 DEF EventsOf
  <1>10. Ilp(r) <= DeliveryBatchBytes
    <2>1. \A x : Ilp(x) = RowSum(IlpSizeOf, upTo(x))
      BY DEF RowSum
    <2>2. Sized(IlpSizeOf, upTo(b)) /\ Sized(IlpSizeOf, upTo(r))
      BY <1>2, <1>3, <1>8, FS_Subset, WorkerAssumption DEF Sized
    <2> HIDE DEF upTo
    <2>3. RowSum(IlpSizeOf, upTo(r)) <= RowSum(IlpSizeOf, upTo(b))
      BY <1>8, <2>2, RowSumMonotone
    <2>4. RowSum(IlpSizeOf, upTo(r)) \in Nat /\ RowSum(IlpSizeOf, upTo(b)) \in Nat
      BY <2>2, RowSumType
    <2>5. DeliveryBatchBytes \in Nat
      BY WorkerAssumption
    <2> HIDE DEF Ilp
    <2> QED
      BY <1>1, <2>1, <2>3, <2>4, <2>5
  <1> QED
    BY <1>5, <1>7, <1>9, <1>10

\* An event has one row, and a later row has a later event.
LEMMA RowsOrdered ==
  ASSUME SpoolInv, RowsInv, NEW p \in pending, NEW q \in pending
  PROVE  /\ p.event \in Nat /\ q.event \in Nat /\ p.seq \in Nat /\ q.seq \in Nat
         /\ p.event = q.event => p = q
         /\ p.seq = q.seq => p = q
         /\ p.event < q.event => p.seq < q.seq
  <1>1. /\ p.event \in Events /\ q.event \in Events /\ p.seq \in Nat /\ q.seq \in Nat
    BY DEF SpoolInv, SpoolTypeOK, PendingRow
  <1>2. p.event \in Nat /\ q.event \in Nat
    BY <1>1, WorkerAssumption
  <1>3. (p.event = q.event => p = q) /\ (p.seq = q.seq => p = q)
    BY DEF SpoolInv, OneHome
  <1>4. ASSUME p.event < q.event, ~(p.seq < q.seq)
        PROVE  FALSE
    <2>1. p.seq = q.seq \/ q.seq < p.seq
      BY <1>1, <1>4
    <2>2. CASE p.seq = q.seq
      BY <1>2, <1>3, <1>4, <2>2
    <2>3. CASE q.seq < p.seq
      <3>1. q.event < p.event
        BY <2>3 DEF RowsInv
      <3> QED
        BY <1>2, <1>4, <3>1
    <2> QED
      BY <2>1, <2>2, <2>3
  <1> QED
    BY <1>1, <1>2, <1>3, <1>4

\* _deliver_once hands a batch to the executor thread.
LEMMA SendKeepsData ==
  ASSUME DataInv, NEW w \in Senders, NEW alone, Send(w, alone),
         UNCHANGED <<spoolVars, offered, held, ingress, received, accepted, durable, lost>>
  PROVE  DataInv' /\ ContractStep
  <1> DEFINE B == Batch(alone)
             j == [answer |-> "sent", seqs |-> Sequences(B), events |-> EventsOf(B)]
  <1>1. /\ SpoolInv /\ DataTypes /\ FlowInv /\ RowsInv /\ JobsInv
        /\ Innocent /\ NoDurableLoss /\ OnlyGuiltyBuried
    BY DEF DataInv
  <1>2. job' = [job EXCEPT ![w] = j] /\ B # {}
    BY DEF Send
  <1>3. /\ B \subseteq pending /\ pending \subseteq PendingRow
        /\ \A b \in B : b.event \notin Corrupt
    <2>1. B \subseteq pending /\ pending \subseteq PendingRow
      BY <1>1 DEF Batch, PeekBatch, SpoolInv, SpoolTypeOK
    <2>2. ASSUME NEW b \in B
          PROVE  b.event \notin Corrupt
      <3> DEFINE rows == PeekBatch(IF alone THEN 1 ELSE DeliveryBatchRows)
                 U == {q \in rows : q.seq <= b.seq}
      <3>1. b \in rows /\ EventsOf(U) \cap Corrupt = {}
        BY DEF Batch
      <3>2. b.seq <= b.seq
        BY <2>1 DEF PendingRow
      <3> HIDE DEF rows
      <3> QED
        BY <3>1, <3>2 DEF EventsOf
    <2> QED
      BY <2>1, <2>2
  <1>4. \A b \in B, r \in pending : r.seq < b.seq => r \in B
    BY <1>1, BatchIsPrefix
  <1> HIDE DEF B
  <1>5. RequestInv(j)
    <2>1. j.seqs = Sequences(B) /\ j.events = EventsOf(B) /\ j.answer = "sent"
      OBVIOUS
    <2>2. j.events \subseteq durable \ Corrupt
      BY <1>1, <1>3, <2>1 DEF RowsInv, EventsOf
    <2>3. \A s \in j.seqs : s <= lastSequence
      BY <1>1, <1>3, <2>1 DEF SpoolInv, CountersAhead, Sequences
    <2>4. ASSUME NEW r \in pending, r.seq \in j.seqs
          PROVE  r.event \in j.events
      <3>1. PICK b \in B : b.seq = r.seq
        BY <2>1, <2>4 DEF Sequences
      <3>2. b = r
        BY <1>1, <1>3, <3>1, RowsOrdered
      <3> QED
        BY <2>1, <3>2 DEF EventsOf
    <2>5. ASSUME NEW e \in j.events, NEW r \in pending, r.event < e
          PROVE  r.event \in j.events
      <3>1. PICK b \in B : b.event = e
        BY <2>1 DEF EventsOf
      <3>2. r.seq < b.seq
        BY <1>1, <1>3, <2>5, <3>1, RowsOrdered
      <3> QED
        BY <1>4, <2>1, <3>2 DEF EventsOf
    <2>6. ASSUME Cardinality(j.seqs) = 1
          PROVE  \E e \in Events : j.events = {e}
      <3>1. IsFiniteSet(pending)
        BY <1>1 DEF SpoolInv, TablesFinite
      <3>2. IsFiniteSet(B)
        BY <1>3, <3>1, FS_Subset
      <3>3. IsFiniteSet(Sequences(B))
        <4> DEFINE f == [r \in B |-> r.seq]
        <4>1. f \in Surjection(B, Sequences(B))
          BY DEF Surjection, Sequences
        <4> QED
          BY <3>2, <4>1, FS_Surjection
      <3>4. PICK s : Sequences(B) = {s}
        BY <2>1, <2>6, <3>3, FS_Singleton
      <3>5. PICK b \in B : TRUE
        BY <1>2
      <3>6. \A r \in B : r = b
        BY <1>1, <1>3, <3>4, RowsOrdered DEF Sequences
      <3>7. j.events = {b.event}
        BY <2>1, <3>6 DEF EventsOf
      <3> QED
        BY <1>3, <3>7 DEF PendingRow
    <2> HIDE DEF j
    <2> QED
      BY <2>1, <2>2, <2>3, <2>4, <2>5, <2>6 DEF RequestInv
  <1>6. j \in JobType
    BY <1>3 DEF JobType, PendingRow, Sequences, EventsOf
  <1> HIDE DEF j
  <1>7. job' \in [Senders -> JobType] /\ job'[w] = j
        /\ \A v \in Senders : v # w => job'[v] = job[v]
    BY <1>1, <1>2, <1>6 DEF DataTypes
  <1>8. UNCHANGED <<pending, lastSequence, durable, received>>
    BY DEF spoolVars
  <1>9. JobsInv'
    <2>1. ASSUME NEW v \in Senders, NEW g, g = job'[v]
          PROVE  RequestInv(g)
      BY <1>1, <1>5, <1>7, <2>1 DEF JobsInv
    <2> QED
      BY <1>8, <2>1 DEF JobsInv, RequestInv
  <1>10. SpoolInv'
    BY <1>1 DEF SpoolInv, spoolVars, SpoolTypeOK, TablesFinite, CountersAhead, OneHome,
                Overlap, RowCountsExact
  <1>11. DataTypes' /\ FlowInv' /\ RowsInv'
    BY <1>1, <1>7 DEF DataTypes, FlowInv, RowsInv, Queue, Rising, spoolVars
  <1>12. Innocent' /\ NoDurableLoss' /\ OnlyGuiltyBuried'
    BY <1>1 DEF Innocent, NoDurableLoss, OnlyGuiltyBuried, spoolVars
  <1>13. UNCHANGED Contract!contractVars
    BY DEF Contract!contractVars, spoolVars
  <1> QED
    BY <1>9, <1>10, <1>11, <1>12, <1>13 DEF DataInv, ContractStep

\* Requests that QuestDB takes carry events it can take, and with them or
\* before them go all older ones that are still stored.
LEMMA LandsInOrder ==
  ASSUME DataInv, NEW W \in SUBSET Senders,
         \A w \in W : job[w].events \cap Poison = {}
  PROVE  LET S == (UNION {job[w].events : w \in W}) \ received
         IN  /\ Contract!InOrder(S) /\ S \in SUBSET Events
             /\ received \cup UNION {job[w].events : w \in W} = received \cup S
             /\ S \subseteq durable \ Guilty
  <1> DEFINE U == UNION {job[w].events : w \in W}
             S == U \ received
  <1>1. /\ DataTypes /\ JobsInv /\ Innocent /\ NoDurableLoss
    BY DEF DataInv
  <1>2. \A w \in W : RequestInv(job[w])
    BY <1>1 DEF JobsInv
  <1>3. U \subseteq durable \ Guilty
    BY <1>2 DEF RequestInv, Guilty
  <1>4. \A e \in U : \E w \in W : e \in job[w].events
    OBVIOUS
  <1>5. \A w \in W : job[w].events \subseteq U
    OBVIOUS
  <1> HIDE DEF U
  <1>6. S \subseteq EventsOf(pending)
    BY <1>1, <1>3 DEF NoDurableLoss, Guilty
  <1>7. ASSUME NEW e \in S, NEW f \in EventsOf(pending), f < e
        PROVE  f \in S \cup received
    <2>1. PICK w \in W : e \in job[w].events
      BY <1>4
    <2>2. PICK r \in pending : r.event = f
      BY DEF EventsOf
    <2>3. f \in job[w].events
      BY <1>2, <1>7, <2>1, <2>2 DEF RequestInv
    <2> QED
      BY <1>5, <2>3
  <1>8. S \in SUBSET Events /\ S \subseteq durable \ Guilty
    BY <1>1, <1>3 DEF DataTypes
  <1>9. received \cup U = received \cup S
    OBVIOUS
  <1> HIDE DEF S
  <1>10. Contract!InOrder(S)
    BY <1>6, <1>7, <1>8 DEF Contract!InOrder, Guilty
  <1> QED
    BY <1>8, <1>9, <1>10 DEF S, U

\* An answer changes what a request says about QuestDB, and nothing else.
LEMMA AnswerKeepsJobs ==
  ASSUME DataInv, NEW w \in Senders, NEW answer \in {"ok", "reject"} \cup AnswerFaults,
         job' = [job EXCEPT ![w].answer = answer],
         UNCHANGED <<pending, lastSequence, durable>>, received \subseteq received',
         answer = "ok" => job[w].events \subseteq received',
         answer = "reject" => job[w].events \cap Poison # {}
  PROVE  job' \in [Senders -> JobType] /\ JobsInv'
  <1> DEFINE j == [job[w] EXCEPT !.answer = answer]
  <1>1. job \in [Senders -> JobType] /\ JobsInv
    BY DEF DataInv, DataTypes
  <1>2. job[w] \in JobType /\ RequestInv(job[w])
    BY <1>1 DEF JobsInv
  <1>3. j.answer = answer /\ j.seqs = job[w].seqs /\ j.events = job[w].events
    BY <1>2 DEF JobType
  <1>4. j \in JobType
    BY <1>2 DEF JobType
  <1>5. job' = [job EXCEPT ![w] = j]
    OBVIOUS
  <1> HIDE DEF j
  <1>6. job' \in [Senders -> JobType] /\ job'[w] = j
        /\ \A v \in Senders : v # w => job'[v] = job[v]
    BY <1>1, <1>4, <1>5
  <1>7. ASSUME NEW v \in Senders, NEW g, g = job'[v]
        PROVE  RequestInv(g)'
    <2>1. CASE v = w
      <3>1. g = j
        BY <1>6, <1>7, <2>1
      <3> QED
        BY <1>2, <1>3, <3>1 DEF RequestInv
    <2>2. CASE v # w
      <3>1. g = job[v] /\ RequestInv(job[v])
        BY <1>1, <1>6, <1>7, <2>2 DEF JobsInv
      <3> QED
        BY <3>1 DEF RequestInv
    <2> QED
      BY <2>1, <2>2
  <1> QED
    BY <1>6, <1>7 DEF JobsInv, RequestInv

\* QuestDB gets events, in order, and the spool, the queue and the history do
\* not move.
LEMMA ReceiveKeepsData ==
  ASSUME DataInv, NEW W \in SUBSET Senders, \A w \in W : job[w].events \cap Poison = {},
         received' = received \cup UNION {job[w].events : w \in W},
         UNCHANGED <<spoolVars, offered, held, ingress, accepted, durable, lost>>,
         job' \in [Senders -> JobType], JobsInv'
  PROVE  DataInv' /\ ContractStep
  <1> DEFINE U == UNION {job[w].events : w \in W}
             S == U \ received
  <1>1. /\ SpoolInv /\ DataTypes /\ FlowInv /\ RowsInv /\ JobsInv
        /\ Innocent /\ NoDurableLoss /\ OnlyGuiltyBuried
    BY DEF DataInv
  <1>2. /\ Contract!InOrder(S) /\ S \in SUBSET Events
        /\ received' = received \cup S /\ S \subseteq durable \ Guilty
    <2>1. received' = received \cup U
      OBVIOUS
    <2> QED
      BY <2>1, LandsInOrder
  <1> HIDE DEF S
  <1>3. SpoolInv'
    BY <1>1 DEF SpoolInv, spoolVars, SpoolTypeOK, TablesFinite, CountersAhead, OneHome,
                Overlap, RowCountsExact
  <1>4. DataTypes' /\ FlowInv' /\ RowsInv'
    BY <1>1, <1>2 DEF DataTypes, FlowInv, RowsInv, Queue, Rising, spoolVars
  <1>5. Innocent' /\ NoDurableLoss' /\ OnlyGuiltyBuried'
    BY <1>1, <1>2 DEF Innocent, NoDurableLoss, OnlyGuiltyBuried, spoolVars
  <1>6. ContractStep
    <2>1. CASE S = {}
      BY <1>2, <2>1 DEF ContractStep, Contract!contractVars, spoolVars
    <2>2. CASE S # {}
      <3>1. Contract!Receive(S)
        BY <1>2, <2>2 DEF Contract!Receive, spoolVars
      <3> QED
        BY <1>2, <3>1 DEF ContractStep, Contract!ContractNext
    <2> QED
      BY <2>1, <2>2
  <1> QED
    BY <1>3, <1>4, <1>5, <1>6 DEF DataInv

\* The server answers, or the answer is lost and the request is not.
LEMMA ServerKeepsData ==
  ASSUME DataInv, NEW w \in Senders, ServerAnswers(w)
  PROVE  DataInv' /\ ContractStep
  <1> DEFINE clean == job[w].events \cap Poison = {}
             take == received \cup job[w].events
  <1>1. UNCHANGED <<spoolVars, offered, held, ingress, accepted, durable, lost>>
    BY DEF ServerAnswers, callerVars, queues, history
  <1>2. UNCHANGED <<pending, lastSequence>>
    BY <1>1 DEF spoolVars
  <1>3. UNION {job[v].events : v \in {w}} = job[w].events
        /\ UNION {job[v].events : v \in {}} = {}
    OBVIOUS
  <1>4. PICK answer \in {"ok", "reject"} \cup AnswerFaults :
           /\ job' = [job EXCEPT ![w].answer = answer]
           /\ answer = "ok" => clean /\ received' = take
           /\ answer = "reject" => ~clean
           /\ received' = received \/ (clean /\ received' = take)
    <2>1. CASE job' = [job EXCEPT ![w].answer = IF clean THEN "ok" ELSE "reject"]
               /\ received' = IF clean THEN take ELSE received
      BY <2>1
    <2>2. CASE \E answer \in Answers :
                 /\ job' = [job EXCEPT ![w].answer = answer]
                 /\ received' \in {received} \cup
                       (IF clean /\ answer = "uncertain" THEN {take} ELSE {})
      <3>1. PICK answer \in Answers :
                 /\ job' = [job EXCEPT ![w].answer = answer]
                 /\ received' \in {received} \cup
                       (IF clean /\ answer = "uncertain" THEN {take} ELSE {})
        BY <2>2
      <3>2. answer \in AnswerFaults /\ answer # "ok" /\ answer # "reject"
        BY WorkerAssumption DEF AnswerFaults
      <3> QED
        BY <3>1, <3>2
    <2> QED
      BY <2>1, <2>2 DEF ServerAnswers
  <1>5. job' \in [Senders -> JobType] /\ JobsInv'
    BY <1>1, <1>2, <1>4, AnswerKeepsJobs
  <1>6. CASE received' = received
    <2>1. received' = received \cup UNION {job[v].events : v \in {}}
      BY <1>3, <1>6
    <2>2. {} \in SUBSET Senders /\ \A v \in {} : job[v].events \cap Poison = {}
      OBVIOUS
    <2> QED
      BY <1>1, <1>5, <2>1, <2>2, ReceiveKeepsData
  <1>7. CASE clean /\ received' = take
    <2>1. received' = received \cup UNION {job[v].events : v \in {w}}
      BY <1>3, <1>7
    <2>2. {w} \in SUBSET Senders /\ \A v \in {w} : job[v].events \cap Poison = {}
      BY <1>7
    <2> QED
      BY <1>1, <1>5, <2>1, <2>2, ReceiveKeepsData
  <1> QED
    BY <1>4, <1>6, <1>7

\* Opening and closing the spool moves no row.
LEMMA HandleKeepsSpool ==
  ASSUME SpoolInv,
         \/ \E l \in Limits : OpenSpool(l)
         \/ CloseSpool
         \/ UNCHANGED spoolVars
  PROVE  SpoolInv' /\ UNCHANGED <<pending, deadLetter, lastSequence>>
  <1>1. CASE \E l \in Limits : OpenSpool(l)
    BY <1>1, OpenKeepsInv DEF OpenSpool
  <1>2. CASE CloseSpool
    BY <1>2, CloseKeepsInv DEF CloseSpool
  <1>3. CASE UNCHANGED spoolVars
    BY <1>3 DEF SpoolInv, spoolVars, SpoolTypeOK, TablesFinite, CountersAhead, OneHome,
                Overlap, RowCountsExact
  <1> QED
    BY <1>1, <1>2, <1>3

\* The process is killed: what was in memory is lost, and only that.
LEMMA CrashKeepsData ==
  ASSUME DataInv, Crash
  PROVE  DataInv' /\ ContractStep
  <1>1. /\ SpoolInv /\ DataTypes /\ FlowInv /\ RowsInv /\ JobsInv
        /\ Innocent /\ NoDurableLoss /\ OnlyGuiltyBuried
    BY DEF DataInv
  <1>2. PICK W \in SUBSET {w \in Senders :
                 job[w].answer = "sent" /\ job[w].events \cap Poison = {}} :
          received' = received \cup UNION {job[w].events : w \in W}
    BY Zenon DEF Crash
  <1> DEFINE S == (UNION {job[w].events : w \in W}) \ received
  <1>3. /\ Contract!InOrder(S) /\ S \in SUBSET Events
        /\ received' = received \cup S /\ S \subseteq durable \ Guilty
    <2>1. W \in SUBSET Senders /\ \A w \in W : job[w].events \cap Poison = {}
      BY <1>2
    <2> QED
      BY <1>2, <2>1, LandsInOrder
  <1> HIDE DEF S
  <1>4. /\ lost' = lost \cup Range(ingress) \cup Range(held)
        /\ ingress' = <<>> /\ held' = <<>> /\ job' = [w \in Senders |-> Idle]
        /\ UNCHANGED <<offered, accepted, durable>>
        /\ CloseSpool \/ UNCHANGED spoolVars
    BY DEF Crash
  <1>5. SpoolInv' /\ UNCHANGED <<pending, deadLetter, lastSequence>>
    BY <1>1, <1>4, HandleKeepsSpool
  <1>6. Range(<<>>) = {} /\ <<>> \in Seq(Events) /\ Len(<<>>) = 0 /\ <<>> \o <<>> = <<>>
    BY EmptySeq, ConcatEmptySeq DEF Range
  <1>7. Queue' = <<>> /\ Range(Queue)' = {}
    BY <1>4, <1>6 DEF Queue
  <1>8. Range(Queue) = Range(held) \cup Range(ingress) /\ Range(Queue) \subseteq Events
    BY <1>1, QueueRange, RangeOfSeq DEF DataTypes
  <1>9. Idle \in JobType
    BY DEF Idle, JobType
  <1>10. DataTypes'
    <2>1. lost' \subseteq Events
      BY <1>1, <1>4, <1>8 DEF DataTypes
    <2>2. received' \subseteq Events
      BY <1>1, <1>3 DEF DataTypes
    <2>3. 0 <= PersistBatchRows
      BY WorkerAssumption
    <2> QED
      BY <1>1, <1>4, <1>6, <1>9, <2>1, <2>2, <2>3 DEF DataTypes
  <1>11. FlowInv'
    BY <1>1, <1>4, <1>6, <1>7, <1>8 DEF FlowInv, Rising
  <1>12. RowsInv' /\ Innocent' /\ NoDurableLoss' /\ OnlyGuiltyBuried'
    BY <1>1, <1>3, <1>4, <1>5 DEF RowsInv, Innocent, NoDurableLoss, OnlyGuiltyBuried
  <1>13. JobsInv'
    <2>1. lastSequence \in Nat
      BY <1>1 DEF SpoolInv, SpoolTypeOK
    <2> QED
      BY <1>1, <1>3, <1>4, <1>5, <2>1, JobsStable
  <1>14. Contract!Forget(S)
    BY <1>3, <1>4, <1>5, <1>6 DEF Contract!Forget
  <1> QED
    BY <1>3, <1>5, <1>10, <1>11, <1>12, <1>13, <1>14
       DEF DataInv, ContractStep, Contract!ContractNext

\* Jobs may end, and nothing but the tables moves.
JobsOnlyEnd ==
    /\ UNCHANGED <<offered, held, ingress, received, accepted, durable, lost>>
    /\ job' \in [Senders -> JobType]
    /\ \A w \in Senders : job'[w] = job[w] \/ job'[w] = Idle

\* Rows leave pending, each for a reason: QuestDB has its event, or its event
\* is the guilty one that the dead-letter ring may take.
LEMMA RemovalKeepsData ==
  ASSUME DataInv, SpoolInv', JobsOnlyEnd, NEW D \in SUBSET pending,
         pending' = pending \ D, lastSequence' = lastSequence,
         EventsOf(deadLetter)' \subseteq EventsOf(deadLetter) \cup (EventsOf(D) \cap Guilty),
         \A r \in D : r.event \in received \cup Guilty
  PROVE  DataInv' /\ EventsOf(pending)' = EventsOf(pending) \ EventsOf(D)
  <1>1. /\ SpoolInv /\ DataTypes /\ FlowInv /\ RowsInv /\ JobsInv
        /\ Innocent /\ NoDurableLoss /\ OnlyGuiltyBuried
    BY DEF DataInv
  <1>2. UNCHANGED <<offered, held, ingress, received, accepted, durable, lost>>
        /\ job' \in [Senders -> JobType]
    BY DEF JobsOnlyEnd
  <1>3. EventsOf(pending)' = EventsOf(pending) \ EventsOf(D)
    <2>1. \A p, q \in pending : p.event = q.event => p = q
      BY <1>1, RowsOrdered
    <2> QED
      BY <2>1 DEF EventsOf
  <1>4. DataTypes' /\ FlowInv'
    BY <1>1, <1>2 DEF DataTypes, FlowInv, Queue, Rising
  <1>5. EventsOf(D) \subseteq EventsOf(pending)
    BY DEF EventsOf
  <1>6. RowsInv'
    <2>1. EventsOf(pending)' \subseteq durable' /\ EventsOf(deadLetter)' \subseteq durable'
      BY <1>1, <1>2, <1>3, <1>5 DEF RowsInv
    <2>2. \A p, q \in pending' : p.seq < q.seq => p.event < q.event
      BY <1>1 DEF RowsInv
    <2> QED
      BY <2>1, <2>2 DEF RowsInv
  <1>7. JobsInv'
    <2>1. lastSequence \in Nat
      BY <1>1 DEF SpoolInv, SpoolTypeOK
    <2>2. \A r \in pending' : \E q \in pending : q.seq = r.seq /\ q.event = r.event
      OBVIOUS
    <2> QED
      BY <1>1, <1>2, <2>1, <2>2, JobsStable DEF JobsOnlyEnd
  <1>8. Innocent'
    BY <1>1, <1>2 DEF Innocent
  <1>9. NoDurableLoss'
    <2>1. EventsOf(D) \subseteq received \cup Guilty
      BY DEF EventsOf
    <2> QED
      BY <1>1, <1>2, <1>3, <2>1 DEF NoDurableLoss, Guilty
  <1>10. OnlyGuiltyBuried'
    BY <1>1 DEF OnlyGuiltyBuried, Guilty
  <1> QED
    BY <1>1, <1>3, <1>4, <1>6, <1>7, <1>8, <1>9, <1>10 DEF DataInv

\* A confirmed batch is deleted.
LEMMA ReleaseKeepsData ==
  ASSUME DataInv, JobsOnlyEnd, NEW w \in Senders,
         job[w].answer = "ok", MarkDelivered(job[w].seqs)
  PROVE  DataInv' /\ ContractStep
  <1> DEFINE D == RowsAt(job[w].seqs)
  <1>1. /\ SpoolInv /\ JobsInv /\ RequestInv(job[w])
    BY DEF DataInv, JobsInv
  <1>2. SpoolInv'
    BY <1>1, DeliverKeepsInv
  <1>3. /\ pending' = pending \ D /\ D \in SUBSET pending
        /\ UNCHANGED <<deadLetter, lastSequence>>
    BY DEF MarkDelivered, RowsAt
  <1>4. \A r \in D : r.event \in received
    BY <1>1 DEF RequestInv, RowsAt
  <1> HIDE DEF D
  <1>5. DataInv' /\ EventsOf(pending)' = EventsOf(pending) \ EventsOf(D)
    <2>1. EventsOf(deadLetter)' \subseteq EventsOf(deadLetter) \cup (EventsOf(D) \cap Guilty)
      BY <1>3
    <2> QED
      BY <1>2, <1>3, <1>4, <2>1, RemovalKeepsData
  <1>6. EventsOf(D) \subseteq EventsOf(pending) \cap received
    BY <1>3, <1>4 DEF EventsOf
  <1>7. UNCHANGED <<held, ingress, durable, received>>
    BY DEF JobsOnlyEnd
  <1>8. CASE EventsOf(D) = {}
    BY <1>5, <1>7, <1>8 DEF ContractStep, Contract!contractVars
  <1>9. CASE EventsOf(D) # {}
    <2>1. EventsOf(D) \in SUBSET Events
      BY <1>6 DEF DataInv, DataTypes
    <2>2. Contract!Release(EventsOf(D))
      BY <1>5, <1>6, <1>7, <1>9 DEF Contract!Release
    <2> QED
      BY <1>5, <2>1, <2>2 DEF ContractStep, Contract!ContractNext
  <1> QED
    BY <1>5, <1>8, <1>9

\* A failed attempt is written down: the rows keep their numbers and events.
LEMMA RecordKeepsData ==
  ASSUME DataInv, JobsOnlyEnd, NEW seqs, NEW uncertain \in BOOLEAN,
         RecordAttempt(seqs, uncertain)
  PROVE  DataInv' /\ ContractStep
  <1> DEFINE after(r) == IF r.seq \in seqs THEN Attempted(r, uncertain) ELSE r
  <1>1. /\ SpoolInv /\ DataTypes /\ FlowInv /\ RowsInv /\ JobsInv
        /\ Innocent /\ NoDurableLoss /\ OnlyGuiltyBuried
    BY DEF DataInv
  <1>2. UNCHANGED <<offered, held, ingress, received, accepted, durable, lost>>
        /\ job' \in [Senders -> JobType]
    BY DEF JobsOnlyEnd
  <1>3. SpoolInv'
    BY <1>1, AttemptKeepsInv
  <1>4. /\ pending' = {after(r) : r \in pending} /\ UNCHANGED <<deadLetter, lastSequence>>
    BY DEF RecordAttempt
  <1>5. \A r \in pending : after(r).seq = r.seq /\ after(r).event = r.event
    <2>1. pending \subseteq PendingRow
      BY <1>1 DEF SpoolInv, SpoolTypeOK
    <2> QED
      BY <2>1, AttemptedRow
  <1> HIDE DEF after
  <1>6. EventsOf(pending)' = EventsOf(pending)
    BY <1>4, <1>5 DEF EventsOf
  <1>7. \A r \in pending' : \E q \in pending : q.seq = r.seq /\ q.event = r.event
    BY <1>4, <1>5
  <1>8. DataTypes' /\ FlowInv'
    BY <1>1, <1>2 DEF DataTypes, FlowInv, Queue, Rising
  <1>9. RowsInv'
    <2>1. \A p, q \in pending' : p.seq < q.seq => p.event < q.event
      BY <1>1, <1>7 DEF RowsInv
    <2> QED
      BY <1>1, <1>2, <1>4, <1>6, <2>1 DEF RowsInv
  <1>10. JobsInv'
    <2>1. lastSequence \in Nat
      BY <1>1 DEF SpoolInv, SpoolTypeOK
    <2> QED
      BY <1>1, <1>2, <1>4, <1>7, <2>1, JobsStable DEF JobsOnlyEnd
  <1>11. Innocent' /\ NoDurableLoss' /\ OnlyGuiltyBuried'
    BY <1>1, <1>2, <1>4, <1>6 DEF Innocent, NoDurableLoss, OnlyGuiltyBuried
  <1>12. UNCHANGED Contract!contractVars
    BY <1>2, <1>6 DEF Contract!contractVars
  <1> QED
    BY <1>3, <1>8, <1>9, <1>10, <1>11, <1>12 DEF DataInv, ContractStep

\* A guilty row goes to the dead-letter ring, which may evict others.
LEMMA BuryKeepsData ==
  ASSUME DataInv, JobsOnlyEnd, NEW row, row.event \in Guilty, MoveToDeadLetter(row, FALSE)
  PROVE  DataInv' /\ ContractStep
  <1>1. /\ row \in pending /\ pending' = pending \ {row} /\ lastSequence' = lastSequence
        /\ deadLetter' = Survivors(row) \cup {AsDeadRow(row, FALSE)}
    BY DEF MoveToDeadLetter
  <1>2. SpoolInv'
    BY <1>1, BuryKeepsInv DEF DataInv
  <1>3. EventsOf({row}) = {row.event}
    BY DEF EventsOf
  <1>4. EventsOf(deadLetter)' \subseteq EventsOf(deadLetter) \cup (EventsOf({row}) \cap Guilty)
    <2>1. AsDeadRow(row, FALSE).event = row.event /\ Survivors(row) \subseteq deadLetter
      BY DEF AsDeadRow, Survivors
    <2> QED
      BY <1>1, <1>3, <2>1 DEF EventsOf
  <1>5. DataInv' /\ EventsOf(pending)' = EventsOf(pending) \ {row.event}
    BY <1>1, <1>2, <1>3, <1>4, RemovalKeepsData
  <1>6. UNCHANGED <<held, ingress, durable, received>>
    BY DEF JobsOnlyEnd
  <1>7. row.event \in EventsOf(pending) /\ row.event \in Events
    BY <1>1 DEF EventsOf, DataInv, SpoolInv, SpoolTypeOK, PendingRow
  <1>8. Contract!GiveUp(row.event)
    BY <1>5, <1>6, <1>7 DEF Contract!GiveUp, Guilty
  <1> QED
    BY <1>5, <1>7, <1>8 DEF ContractStep, Contract!ContractNext

\* What _deliver_once writes down for each answer.
LEMMA AnswerKeepsData ==
  ASSUME DataInv, JobsOnlyEnd, NEW w \in Senders, NEW outcome, ApplyAnswer(w, outcome)
  PROVE  DataInv' /\ ContractStep
  <1> DEFINE j == job[w]
             row == CHOOSE r \in pending : r.seq \in j.seqs
  <1>1. CASE Confirms(j.answer) /\ MarkDelivered(j.seqs)
    BY <1>1, ReleaseKeepsData DEF Confirms
  <1>2. CASE \E uncertain \in BOOLEAN : RecordAttempt(j.seqs, uncertain)
    BY <1>2, RecordKeepsData
  <1>3. CASE /\ j.answer = "reject" /\ SentAlone(j.seqs) /\ Known(j.seqs)
             /\ MoveToDeadLetter(row, FALSE)
    <2>1. RequestInv(j)
      BY DEF DataInv, JobsInv
    <2>2. row \in pending /\ row.seq \in j.seqs
      <3>1. j.seqs # {}
        BY <1>3, FS_EmptySet DEF SentAlone
      <3>2. \E r \in pending : r.seq \in j.seqs
        BY <1>3, <3>1 DEF Known, Sequences
      <3> QED
        BY <3>2
    <2>3. row.event \in j.events
      BY <2>1, <2>2 DEF RequestInv
    <2>4. \E e \in Events : j.events = {e}
      BY <1>3, <2>1 DEF RequestInv, SentAlone
    <2>5. j.events \cap Poison # {}
      BY <1>3, <2>1 DEF RequestInv
    <2>6. row.event \in Guilty
      BY <2>3, <2>4, <2>5 DEF Guilty
    <2> HIDE DEF row
    <2> QED
      BY <1>3, <2>6, BuryKeepsData
  <1>4. CASE UNCHANGED spoolVars
    <2>1. SpoolInv' /\ UNCHANGED <<pending, deadLetter, lastSequence>>
      BY <1>4, HandleKeepsSpool DEF DataInv
    <2> QED
      BY <2>1, RestKeepsData DEF JobsOnlyEnd
  <1> QED
    <2>1. (j.answer = "uncertain") \in BOOLEAN /\ FALSE \in BOOLEAN
      OBVIOUS
    <2> QED
      BY <1>1, <1>2, <1>3, <1>4, <2>1 DEF ApplyAnswer

-----------------------------------------------------------------------------
(* The actions, one by one.                                                *)

dataVars == <<spoolVars, offered, held, ingress, job, received, accepted, durable, lost>>

\* The caller and the worker thread outside the loop touch events only where
\* they submit, open, close or crash.
LEMMA CallerLeavesData ==
  ASSUME \/ Start \/ Stop \/ CallerStep \/ StartTimesOut
         \/ Accept \/ Ready \/ RecordFailure \/ Finish \/ Exit
         \/ DiskChanges \/ DeadlinePasses
  PROVE  UNCHANGED dataVars
  <1> USE DEF dataVars, callerVars, health, signals, queues, tasks, delivery, world, history
  <1>1. CASE Start
    BY <1>1 DEF Start
  <1>2. CASE Stop
    BY <1>2 DEF Stop
  <1>3. CASE StartReturns
    BY <1>3 DEF StartReturns
  <1>4. CASE RequestStop
    BY <1>4 DEF RequestStop
  <1>5. CASE SignalStop
    BY <1>5 DEF SignalStop
  <1>6. CASE Join
    BY <1>6 DEF Join
  <1>7. CASE StartTimesOut
    BY <1>7 DEF StartTimesOut
  <1>8. CASE Accept
    BY <1>8 DEF Accept
  <1>9. CASE Ready
    BY <1>9 DEF Ready
  <1>10. CASE RecordFailure
    BY <1>10 DEF RecordFailure
  <1>11. CASE Finish
    BY <1>11 DEF Finish
  <1>12. CASE Exit
    BY <1>12 DEF Exit
  <1>13. CASE DiskChanges
    BY <1>13 DEF DiskChanges
  <1>14. CASE DeadlinePasses
    BY <1>14 DEF DeadlinePasses
  <1> QED
    BY <1>1, <1>2, <1>3, <1>4, <1>5, <1>6, <1>7, <1>8, <1>9, <1>10, <1>11, <1>12, <1>13, <1>14
       DEF CallerStep

\* So does a task of the loop that only waits, looks or asks.
LEMMA LoopLeavesData ==
  ASSUME \/ SetLoop \/ CreateTasks \/ SeeStop \/ SeeFailure \/ AwaitPersist \/ FlushSchema
         \/ CancelDelivery \/ PersistNothing \/ PersistChecksStop
         \/ DeliverStops \/ DeliverAsksSchema \/ EnsureSchema \/ DeliverWaits
  PROVE  UNCHANGED dataVars
  <1> USE DEF dataVars, callerVars, health, signals, queues, tasks, delivery, world, history
  <1>1. CASE SetLoop
    BY <1>1 DEF SetLoop
  <1>2. CASE CreateTasks
    BY <1>2 DEF CreateTasks
  <1>3. CASE SeeStop
    BY <1>3 DEF SeeStop
  <1>4. CASE SeeFailure
    BY <1>4 DEF SeeFailure
  <1>5. CASE AwaitPersist
    BY <1>5 DEF AwaitPersist
  <1>6. CASE FlushSchema
    BY <1>6 DEF FlushSchema
  <1>7. CASE CancelDelivery
    BY <1>7 DEF CancelDelivery
  <1>8. CASE PersistNothing
    BY <1>8 DEF PersistNothing
  <1>9. CASE PersistChecksStop
    BY <1>9 DEF PersistChecksStop
  <1>10. CASE DeliverStops
    BY <1>10 DEF DeliverStops
  <1>11. CASE DeliverAsksSchema
    BY <1>11 DEF DeliverAsksSchema
  <1>12. CASE EnsureSchema
    BY <1>12 DEF EnsureSchema
  <1>13. CASE DeliverWaits
    BY <1>13 DEF DeliverWaits
  <1> QED
    BY <1>1, <1>2, <1>3, <1>4, <1>5, <1>6, <1>7, <1>8, <1>9, <1>10, <1>11, <1>12, <1>13

\* A job that is set to Idle, or left alone, is one that ends.
LEMMA JobEnds ==
  ASSUME DataInv, UNCHANGED <<offered, held, ingress, received, accepted, durable, lost>>,
         \/ job' = job
         \/ \E w \in Senders : job' = [job EXCEPT ![w] = Idle]
         \/ job' = [w \in Senders |-> Idle]
  PROVE  JobsOnlyEnd
  <1>1. job \in [Senders -> JobType] /\ Idle \in JobType
    BY DEF DataInv, DataTypes, Idle, JobType
  <1>2. /\ job' \in [Senders -> JobType]
        /\ \A w \in Senders : job'[w] = job[w] \/ job'[w] = Idle
    BY <1>1
  <1> QED
    BY <1>2 DEF JobsOnlyEnd

\* The spool is opened or closed, or a job ends without a write.
LEMMA HandleKeepsData ==
  ASSUME DataInv, JobsOnlyEnd,
         \/ \E l \in Limits : OpenSpool(l)
         \/ CloseSpool
         \/ UNCHANGED spoolVars
  PROVE  DataInv' /\ ContractStep
  <1>1. SpoolInv' /\ UNCHANGED <<pending, deadLetter, lastSequence>>
    BY HandleKeepsSpool DEF DataInv
  <1> QED
    BY <1>1, RestKeepsData DEF JobsOnlyEnd

\* Steps that open or close the spool, or end a job without a write.
LEMMA RunKeepsData ==
  ASSUME DataInv, OpenResources \/ OpenFails \/ CloseResources \/ EndLoop \/ FlushBreaks
                    \/ DeliverParks \/ DeliverBreaks
  PROVE  DataInv' /\ ContractStep
  <1> USE DEF callerVars, queues, delivery, world, history
  <1>1. CASE OpenResources
    <2>1. JobsOnlyEnd
      BY <1>1, JobEnds DEF OpenResources
    <2> QED
      BY <1>1, <2>1, HandleKeepsData DEF OpenResources
  <1>2. CASE OpenFails
    <2>1. JobsOnlyEnd
      BY <1>2, JobEnds DEF OpenFails
    <2> QED
      BY <1>2, <2>1, HandleKeepsData DEF OpenFails
  <1>3. CASE CloseResources
    <2>1. JobsOnlyEnd
      BY <1>3, JobEnds DEF CloseResources
    <2> QED
      BY <1>3, <2>1, HandleKeepsData DEF CloseResources
  <1>4. CASE EndLoop
    <2>1. JobsOnlyEnd
      BY <1>4, JobEnds DEF EndLoop
    <2> QED
      BY <1>4, <2>1, HandleKeepsData DEF EndLoop
  <1>5. CASE FlushBreaks
    <2>1. job' = [job EXCEPT !["flush"] = Idle] /\ "flush" \in Senders
      BY <1>5 DEF FlushBreaks, Senders
    <2>2. JobsOnlyEnd
      BY <1>5, <2>1, JobEnds DEF FlushBreaks
    <2> QED
      BY <1>5, <2>2, HandleKeepsData DEF FlushBreaks
  <1>6. CASE DeliverParks
    <2>1. job' = [job EXCEPT !["loop"] = Idle] /\ "loop" \in Senders
      BY <1>6 DEF DeliverParks, Senders
    <2>2. JobsOnlyEnd
      BY <1>6, <2>1, JobEnds DEF DeliverParks
    <2> QED
      BY <1>6, <2>2, HandleKeepsData DEF DeliverParks
  <1>7. CASE DeliverBreaks
    <2>1. job' = [job EXCEPT !["loop"] = Idle] /\ "loop" \in Senders
      BY <1>7 DEF DeliverBreaks, Senders
    <2>2. JobsOnlyEnd
      BY <1>7, <2>1, JobEnds DEF DeliverBreaks
    <2> QED
      BY <1>7, <2>2, HandleKeepsData DEF DeliverBreaks
  <1> QED
    BY <1>1, <1>2, <1>3, <1>4, <1>5, <1>6, <1>7

\* The oldest row does not encode: it is buried, or it stays.
LEMMA OldestKeepsData ==
  ASSUME DataInv, JobsOnlyEnd, BuryOldest
  PROVE  DataInv' /\ ContractStep
  <1>1. CASE MoveToDeadLetter(Oldest, FALSE)
    <2>1. Oldest.event \in Guilty
      BY DEF BuryOldest, OldestCorrupt, Guilty
    <2> QED
      BY <1>1, <2>1, BuryKeepsData
  <1>2. CASE UNCHANGED spoolVars
    BY <1>2, HandleKeepsData
  <1> QED
    BY <1>1, <1>2 DEF BuryOldest

\* The persist task: a drain that is refused, one that is stored, one that breaks.
LEMMA PersistKeepsData ==
  ASSUME DataInv, PersistRefused \/ PersistStored \/ PersistBreaks
  PROVE  DataInv' /\ ContractStep
  <1> USE DEF callerVars, queues, delivery, world, history
  <1>1. CASE PersistRefused
    <2>1. /\ held' = Drained /\ ingress' = LeftInIngress
          /\ UNCHANGED <<spoolVars, offered, job, received, accepted, durable, lost>>
      BY <1>1 DEF PersistRefused
    <2> QED
      BY <2>1, RegroupKeepsData
  <1>2. CASE PersistStored
    <2>1. /\ Drained # <<>> /\ EnqueueMany(Drained)
          /\ held' = <<>> /\ ingress' = LeftInIngress /\ durable' = durable \cup Range(Drained)
          /\ UNCHANGED <<offered, job, received, accepted, lost>>
      BY <1>2 DEF PersistStored
    <2> QED
      BY <2>1, StoreKeepsData
  <1>3. CASE PersistBreaks
    <2>1. /\ held' = Drained /\ ingress' = LeftInIngress
          /\ UNCHANGED <<spoolVars, offered, job, received, accepted, durable, lost>>
      BY <1>3 DEF PersistBreaks
    <2> QED
      BY <2>1, RegroupKeepsData
  <1> QED
    BY <1>1, <1>2, <1>3

\* Both senders, and the server behind them.
LEMMA DeliveryKeepsData ==
  ASSUME DataInv, \/ DeliverSends \/ DeliverBuriesOldest \/ DeliverApplies
                  \/ FlushBegins \/ FlushApplies
                  \/ ServerStep
  PROVE  DataInv' /\ ContractStep
  <1> USE DEF callerVars, queues, delivery, world, history
  <1>0. "loop" \in Senders /\ "flush" \in Senders
    BY DEF Senders
  <1>1. CASE DeliverSends
    BY <1>0, <1>1, SendKeepsData DEF DeliverSends
  <1>2. CASE DeliverBuriesOldest
    <2>1. JobsOnlyEnd
      BY <1>2, JobEnds DEF DeliverBuriesOldest
    <2> QED
      BY <1>2, <2>1, OldestKeepsData DEF DeliverBuriesOldest
  <1>3. CASE DeliverApplies
    <2>1. job' = [job EXCEPT !["loop"] = Idle] /\ \E outcome : ApplyAnswer("loop", outcome)
      BY <1>3 DEF DeliverApplies
    <2>2. JobsOnlyEnd
      BY <1>0, <1>3, <2>1, JobEnds DEF DeliverApplies
    <2> QED
      BY <1>0, <2>1, <2>2, AnswerKeepsData
  <1>4. CASE FlushBegins
    <2>1. UNCHANGED <<offered, held, ingress, received, accepted, durable, lost>>
      BY <1>4 DEF FlushBegins
    <2>2. CASE Send("flush", FALSE) /\ UNCHANGED spoolVars
      BY <1>0, <2>1, <2>2, SendKeepsData
    <2>3. CASE BuryOldest /\ UNCHANGED job
      <3>1. JobsOnlyEnd
        BY <2>1, <2>3, JobEnds
      <3> QED
        BY <2>3, <3>1, OldestKeepsData
    <2>4. CASE UNCHANGED <<spoolVars, job>>
      BY <2>1, <2>4, StillKeepsData
    <2> QED
      BY <1>4, <2>2, <2>3, <2>4 DEF FlushBegins
  <1>5. CASE FlushApplies
    <2>1. job' = [job EXCEPT !["flush"] = Idle] /\ \E outcome : ApplyAnswer("flush", outcome)
      BY <1>5 DEF FlushApplies
    <2>2. JobsOnlyEnd
      BY <1>0, <1>5, <2>1, JobEnds DEF FlushApplies
    <2> QED
      BY <1>0, <2>1, <2>2, AnswerKeepsData
  <1>6. CASE ServerStep
    BY <1>6, ServerKeepsData DEF ServerStep
  <1> QED
    BY <1>1, <1>2, <1>3, <1>4, <1>5, <1>6

\* Every step of the worker keeps the invariant and is a step of the delivery
\* contract, or one that the contract does not see.
LEMMA NextKeepsData ==
  ASSUME DataInv, [Next]_vars
  PROVE  DataInv' /\ ContractStep
  <1>1. ASSUME UNCHANGED dataVars
        PROVE  DataInv' /\ ContractStep
    BY <1>1, StillKeepsData DEF dataVars
  <1>2. CASE Start \/ Stop \/ CallerStep \/ StartTimesOut \/ DiskChanges \/ DeadlinePasses
    BY <1>1, <1>2, CallerLeavesData
  <1>3. CASE Submit
    BY <1>3, SubmitKeepsData
  <1>4. CASE RunStep \/ OpenFails
    BY <1>1, <1>4, CallerLeavesData, RunKeepsData DEF RunStep
  <1>5. CASE MainStep
    BY <1>1, <1>5, LoopLeavesData, RunKeepsData, DeliveryKeepsData DEF MainStep
  <1>6. CASE PersistStep \/ PersistBreaks
    BY <1>1, <1>6, LoopLeavesData, PersistKeepsData DEF PersistStep
  <1>7. CASE DeliverStep
    BY <1>1, <1>7, LoopLeavesData, RunKeepsData, DeliveryKeepsData DEF DeliverStep
  <1>8. CASE ServerStep
    BY <1>8, DeliveryKeepsData
  <1>9. CASE Crash
    BY <1>9, CrashKeepsData
  <1>10. CASE UNCHANGED vars
    <2>1. UNCHANGED dataVars
      BY <1>10 DEF vars, dataVars, callerVars, queues, delivery, world, history
    <2> QED
      BY <1>1, <2>1
  <1> QED
    BY <1>2, <1>3, <1>4, <1>5, <1>6, <1>7, <1>8, <1>9, <1>10 DEF Next

\* Every step keeps the control invariant.
LEMMA NextKeepsControl ==
  ASSUME ControlInv, [Next]_vars
  PROVE  ControlInv'
  <1> USE DEF ControlInv, ControlTypes, Starting, Stopping, Ending, Quiet
  <1>1. CASE Start \/ Submit \/ Stop \/ CallerStep \/ StartTimesOut
    BY <1>1, CallerKeepsControl
  <1>2. CASE RunStep \/ OpenFails \/ Crash
    BY <1>2, RunKeepsControl
  <1>3. CASE MainStep \/ PersistStep \/ PersistBreaks
    BY <1>3, LoopKeepsControl
  <1>4. CASE DeliverStep \/ ServerStep \/ DiskChanges \/ DeadlinePasses
    BY <1>4, OthersLeaveControl
  <1>5. CASE UNCHANGED vars
    BY <1>5 DEF vars, callerVars, health, signals, queues, tasks
  <1> QED
    BY <1>1, <1>2, <1>3, <1>4, <1>5 DEF Next

-----------------------------------------------------------------------------
(* What is left of the types: health, the rest of the signals and tasks,   *)
(* the environment.                                                        *)

HealthTypes ==
    /\ state \in States
    /\ blockReason \in StorageReasons \cup {"auth", None}
    /\ episode \in StorageReasons \cup {None}

OtherTypes ==
    /\ stops \in Nat /\ faults \in Nat /\ crashes \in Nat
    /\ loopSet \in BOOLEAN /\ blocked \in BOOLEAN /\ isolate \in BOOLEAN
    /\ schemaReady \in BOOLEAN
    /\ deadline \in {"unset", "ahead", "passed"}
    /\ deliver \in {"off", "top", "schema", "passed", "sending", "done", "failed"}
    /\ disk \in {"ok", "low", "full", "readonly"}

\* The four functions that write the health fields under the lock.
LEMMA HealthWrites ==
  ASSUME HealthTypes,
         \/ \E reason \in {"disk_space", "spool_full", WriteReason} : BlockOnStorage(reason)
         \/ ResumeAfterStorageBlock
         \/ \E s \in {"running", "retry_wait", "blocked"}, r \in {None, "auth"} : Show(s, r)
         \/ \E s \in {"running", "retry_wait", "blocked"}, r \in {None, "auth"} :
               SetState(s, r) /\ episode' = EpisodeClosed
         \/ state' \in States /\ UNCHANGED <<blockReason, episode>>
         \/ UNCHANGED health
  PROVE  HealthTypes'
  <1>1. WriteReason \in StorageReasons
    BY DEF WriteReason, StorageReasons
  <1>2. "disk_space" \in StorageReasons /\ "spool_full" \in StorageReasons
    BY DEF StorageReasons
  <1>3. {"running", "retry_wait", "blocked"} \subseteq States
    BY DEF States
  <1>4. ASSUME NEW s \in {"running", "retry_wait", "blocked"},
               NEW r \in StorageReasons \cup {"auth", None}, SetState(s, r)
        PROVE  state' \in States /\ blockReason' \in StorageReasons \cup {"auth", None}
    BY <1>3, <1>4 DEF SetState, HealthTypes
  <1>5. CASE \E reason \in {"disk_space", "spool_full", WriteReason} : BlockOnStorage(reason)
    <2>1. PICK reason \in StorageReasons : BlockOnStorage(reason)
      BY <1>1, <1>2, <1>5
    <2>2. SetState("blocked", reason) /\ episode' \in StorageReasons \cup {None}
      BY <2>1 DEF BlockOnStorage, HealthTypes
    <2> QED
      BY <1>4, <2>2 DEF HealthTypes
  <1>6. CASE ResumeAfterStorageBlock
    <2>1. episode' = None
      BY <1>6 DEF ResumeAfterStorageBlock, EpisodeClosed
    <2>2. CASE SetState("running", None)
      BY <1>4, <2>1, <2>2 DEF HealthTypes
    <2>3. CASE UNCHANGED <<state, blockReason>>
      BY <2>1, <2>3 DEF HealthTypes
    <2> QED
      BY <1>6, <2>2, <2>3 DEF ResumeAfterStorageBlock
  <1>7. CASE \E s \in {"running", "retry_wait", "blocked"}, r \in {None, "auth"} : Show(s, r)
    <2>1. PICK s \in {"running", "retry_wait", "blocked"}, r \in {None, "auth"} : Show(s, r)
      BY <1>7
    <2>2. SetState(s, r) /\ episode' = episode
      BY <2>1 DEF Show
    <2> QED
      BY <1>4, <2>2 DEF HealthTypes
  <1>8. CASE \E s \in {"running", "retry_wait", "blocked"}, r \in {None, "auth"} :
               SetState(s, r) /\ episode' = EpisodeClosed
    BY <1>4, <1>8 DEF HealthTypes, EpisodeClosed
  <1>9. CASE UNCHANGED health \/ (state' \in States /\ UNCHANGED <<blockReason, episode>>)
    BY <1>9 DEF HealthTypes, health
  <1> QED
    BY <1>5, <1>6, <1>7, <1>8, <1>9

\* An answer is shown in one of three ways.
LEMMA AnswerShown ==
  ASSUME HealthTypes, NEW w, NEW outcome, ApplyAnswer(w, outcome)
  PROVE  HealthTypes'
  <1>1. \/ \E s \in {"running", "retry_wait", "blocked"}, r \in {None, "auth"} : Show(s, r)
        \/ \E s \in {"running", "retry_wait", "blocked"}, r \in {None, "auth"} :
              SetState(s, r) /\ episode' = EpisodeClosed
    <2>1. CASE SetState("running", None) /\ episode' = EpisodeClosed
      BY <2>1
    <2>2. CASE Show("retry_wait", None) \/ Show("running", None)
      BY <2>2
    <2>3. CASE Show("blocked", IF job[w].answer = "auth" THEN "auth" ELSE None)
      BY <2>3
    <2> QED
      BY <2>1, <2>2, <2>3 DEF ApplyAnswer
  <1> QED
    BY <1>1, HealthWrites

\* A burial, done or refused, is shown in one of these ways too.
LEMMA BuryShown ==
  ASSUME HealthTypes, BuryOldest
  PROVE  HealthTypes'
  BY HealthWrites DEF BuryOldest

\* The caller and the worker thread outside the loop keep the types.
LEMMA CallerKeepsTypes ==
  ASSUME HealthTypes, OtherTypes,
         Start \/ Submit \/ Stop \/ CallerStep \/ StartTimesOut \/ RunStep \/ OpenFails
  PROVE  HealthTypes' /\ OtherTypes'
  <1> USE DEF OtherTypes, callerVars, health, signals, queues, tasks, delivery, world, history,
              Fault
  <1>1. CASE Start
    BY <1>1, HealthWrites DEF Start, States
  <1>2. CASE Submit
    BY <1>2, HealthWrites DEF Submit
  <1>3. CASE Stop
    <2>1. state' \in States
      BY <1>3 DEF Stop, States, HealthTypes
    <2> QED
      BY <1>3, <2>1, HealthWrites DEF Stop
  <1>4. CASE CallerStep
    BY <1>4, HealthWrites DEF CallerStep, StartReturns, RequestStop, SignalStop, Join
  <1>5. CASE StartTimesOut
    BY <1>5, HealthWrites DEF StartTimesOut, HealthTypes
  <1>6. CASE OpenResources \/ Ready \/ CloseResources \/ Exit
    BY <1>6, HealthWrites DEF OpenResources, Ready, CloseResources, Exit
  <1>7. CASE Accept \/ RecordFailure \/ Finish
    <2>1. state' \in States
      BY <1>7 DEF Accept, RecordFailure, Finish, States, HealthTypes
    <2> QED
      BY <1>7, <2>1, HealthWrites DEF Accept, RecordFailure, Finish
  <1>8. CASE OpenFails
    BY <1>8, HealthWrites DEF OpenFails
  <1> QED
    BY <1>1, <1>2, <1>3, <1>4, <1>5, <1>6, <1>7, <1>8 DEF RunStep

\* So do the main task and the persist task,
LEMMA LoopKeepsTypes ==
  ASSUME HealthTypes, OtherTypes,
         MainStep \/ PersistStep \/ PersistBreaks
  PROVE  HealthTypes' /\ OtherTypes'
  <1> USE DEF OtherTypes, callerVars, health, signals, queues, tasks, delivery, world, history,
              Fault, Raise
  <1>1. CASE SetLoop \/ CreateTasks \/ SeeFailure \/ AwaitPersist \/ FlushSchema
             \/ FlushBreaks \/ CancelDelivery \/ EndLoop
    <2>1. CASE SetLoop \/ CreateTasks \/ AwaitPersist
      BY <2>1, HealthWrites DEF SetLoop, CreateTasks, AwaitPersist
    <2>2. CASE SeeFailure \/ FlushBreaks \/ CancelDelivery
      BY <2>2, HealthWrites DEF SeeFailure, FlushBreaks, CancelDelivery
    <2>3. CASE FlushSchema \/ EndLoop
      BY <2>3, HealthWrites DEF FlushSchema, EndLoop
    <2> QED
      BY <1>1, <2>1, <2>2, <2>3
  <1>2. CASE SeeStop
    BY <1>2, HealthWrites DEF SeeStop, States
  <1>3. CASE FlushBegins
    <2>1. HealthTypes'
      BY <1>3, BuryShown, HealthWrites DEF FlushBegins
    <2> QED
      BY <1>3, <2>1 DEF FlushBegins
  <1>4. CASE FlushApplies
    <2>1. HealthTypes'
      BY <1>4, AnswerShown DEF FlushApplies
    <2> QED
      BY <1>4, <2>1 DEF FlushApplies
  <1>5. CASE PersistNothing \/ PersistChecksStop \/ PersistBreaks
    BY <1>5, HealthWrites DEF PersistNothing, PersistChecksStop, PersistBreaks
  <1>6. CASE PersistRefused
    <2>1. HealthTypes'
      BY <1>6, HealthWrites DEF PersistRefused
    <2> QED
      BY <1>6, <2>1 DEF PersistRefused, GuardPasses
  <1>7. CASE PersistStored
    <2>1. HealthTypes'
      BY <1>7, HealthWrites DEF PersistStored
    <2> QED
      BY <1>7, <2>1 DEF PersistStored, GuardPasses
  <1> QED
    BY <1>1, <1>2, <1>3, <1>4, <1>5, <1>6, <1>7 DEF MainStep, PersistStep

\* the delivery task, the server, the disk, the clock and a kill,
LEMMA DeliveryKeepsTypes ==
  ASSUME HealthTypes, OtherTypes,
         DeliverStep \/ ServerStep \/ DiskChanges \/ DeadlinePasses \/ Crash
  PROVE  HealthTypes' /\ OtherTypes'
  <1> USE DEF OtherTypes, callerVars, health, signals, queues, tasks, delivery, world, history,
              Fault
  <1>1. CASE DeliverStops \/ DeliverAsksSchema \/ DeliverWaits \/ DeliverSends \/ DeliverBreaks
    BY <1>1, HealthWrites
       DEF DeliverStops, DeliverAsksSchema, DeliverWaits, DeliverSends, DeliverBreaks
  <1>2. CASE EnsureSchema
    <2>1. HealthTypes'
      BY <1>2, HealthWrites DEF EnsureSchema
    <2>2. /\ deliver' \in {"passed", "top", "failed"}
          /\ schemaReady' = TRUE \/ schemaReady' = schemaReady
          /\ faults' = faults \/ faults' = faults + 1
          /\ UNCHANGED <<stops, crashes, loopSet, blocked, isolate, deadline, disk>>
      BY <1>2 DEF EnsureSchema
    <2>3. schemaReady' \in BOOLEAN
      BY <2>2
    <2>4. faults' \in Nat
      BY <2>2
    <2>5. OtherTypes'
      BY <2>2, <2>3, <2>4
    <2> QED
      BY <2>1, <2>5
  <1>3. CASE DeliverBuriesOldest
    <2>1. HealthTypes'
      BY <1>3, BuryShown DEF DeliverBuriesOldest
    <2> QED
      BY <1>3, <2>1 DEF DeliverBuriesOldest
  <1>4. CASE DeliverApplies
    <2>1. HealthTypes'
      BY <1>4, AnswerShown DEF DeliverApplies
    <2> QED
      BY <1>4, <2>1 DEF DeliverApplies, Isolates
  <1>5. CASE DeliverParks
    <2>1. HealthTypes'
      BY <1>5, HealthWrites DEF DeliverParks
    <2> QED
      BY <1>5, <2>1 DEF DeliverParks
  <1>6. CASE ServerStep
    BY <1>6, HealthWrites DEF ServerStep, ServerAnswers
  <1>7. CASE DiskChanges
    <2>1. disk' \in {"ok", "low", "full", "readonly"}
      BY <1>7, WorkerAssumption DEF DiskChanges
    <2>2. HealthTypes'
      BY <1>7, HealthWrites DEF DiskChanges
    <2>3. faults' \in Nat /\ UNCHANGED <<stops, crashes, loopSet, blocked, isolate,
                                       schemaReady, deadline, deliver>>
      BY <1>7 DEF DiskChanges
    <2> QED
      BY <2>1, <2>2, <2>3
  <1>8. CASE DeadlinePasses
    BY <1>8, HealthWrites DEF DeadlinePasses
  <1>9. CASE Crash
    <2>1. Gated \in BOOLEAN
      BY WorkerAssumption
    <2>2. /\ state' = "new" /\ blockReason' = None /\ episode' = None
          /\ stops' = 0 /\ crashes' = crashes + 1 /\ loopSet' = FALSE /\ deadline' = "unset"
          /\ deliver' = "off" /\ blocked' = FALSE /\ isolate' = FALSE
          /\ schemaReady' = ~Gated /\ UNCHANGED <<disk, faults>>
      BY <1>9 DEF Crash
    <2>3. schemaReady' \in BOOLEAN /\ crashes' \in Nat
      BY <2>1, <2>2
    <2>4. OtherTypes'
      BY <2>2, <2>3
    <2>5. HealthTypes'
      BY <2>2 DEF HealthTypes, States
    <2> QED
      BY <2>4, <2>5
  <1> QED
    BY <1>1, <1>2, <1>3, <1>4, <1>5, <1>6, <1>7, <1>8, <1>9 DEF DeliverStep

\* and so does every step.
LEMMA NextKeepsTypes ==
  ASSUME HealthTypes, OtherTypes, [Next]_vars
  PROVE  HealthTypes' /\ OtherTypes'
  <1>1. CASE UNCHANGED vars
    BY <1>1, HealthWrites
       DEF vars, OtherTypes, callerVars, health, signals, tasks, delivery, world
  <1>2. CASE Start \/ Submit \/ Stop \/ CallerStep \/ StartTimesOut \/ RunStep \/ OpenFails
    BY <1>2, CallerKeepsTypes
  <1>3. CASE MainStep \/ PersistStep \/ PersistBreaks
    BY <1>3, LoopKeepsTypes
  <1>4. CASE DeliverStep \/ ServerStep \/ DiskChanges \/ DeadlinePasses \/ Crash
    BY <1>4, DeliveryKeepsTypes
  <1> QED
    BY <1>1, <1>2, <1>3, <1>4 DEF Next

-----------------------------------------------------------------------------
(* The theorems.                                                           *)

\* Order of arrival, from the contract: what QuestDB receives for the first
\* time is as old as anything stored, and nothing older is left behind.
LEMMA OrderKept ==
  ASSUME DataInv, DataInv', ContractStep, DeliveredInOrder
  PROVE  DeliveredInOrder'
  <1>1. /\ DataTypes /\ FlowInv /\ NoDurableLoss /\ Innocent
    BY DEF DataInv
  <1>2. CASE UNCHANGED <<durable, received>>
    BY <1>2 DEF DeliveredInOrder
  <1>3. ASSUME NEW S, Contract!Store(S)
        PROVE  DeliveredInOrder'
    <2>1. /\ received' = received /\ durable' = durable \cup S
          /\ S \subseteq Range(held) \cup Range(ingress)
      BY <1>3 DEF Contract!Store
    <2>2. \A d \in S, e \in received : ~(d < e)
      <3> SUFFICES ASSUME NEW d \in S, NEW e \in received, d < e
                   PROVE  FALSE
        OBVIOUS
      <3>1. d \in Range(Queue) /\ e \in durable
        BY <1>1, <2>1, QueueRange DEF DataTypes, Innocent
      <3>2. e < d
        BY <1>1, <3>1 DEF FlowInv
      <3>3. d \in Nat /\ e \in Nat
        BY <1>1, <3>1, QueueRange, RangeOfSeq, WorkerAssumption DEF DataTypes
      <3> QED
        BY <3>2, <3>3
    <2> QED
      BY <1>1, <2>1, <2>2 DEF DeliveredInOrder, Innocent
  <1>4. ASSUME NEW S, Contract!InOrder(S), received' = received \cup S, durable' = durable
        PROVE  DeliveredInOrder'
    <2> SUFFICES ASSUME NEW d \in durable, NEW e \in received', d < e
                 PROVE  d \in received' \cup Poison \cup Corrupt
      BY <1>4 DEF DeliveredInOrder
    <2>1. CASE e \in received
      BY <1>1, <1>4, <2>1 DEF DeliveredInOrder, Innocent
    <2>2. CASE e \in S
      <3>1. d \in EventsOf(pending) => d \in S \cup received
        BY <1>4, <2>2 DEF Contract!InOrder
      <3> QED
        BY <1>1, <1>4, <3>1 DEF NoDurableLoss
    <2> QED
      BY <1>4, <2>1, <2>2
  <1> QED
    BY <1>2, <1>3, <1>4
       DEF ContractStep, Contract!ContractNext, Contract!contractVars, Contract!Accept,
           Contract!GiveUp, Contract!Receive, Contract!Release, Contract!Forget

WorkerInv == ControlInv /\ DataInv /\ DeliveredInOrder /\ HealthTypes /\ OtherTypes

\* A process without a WriterService, over a new database file.
LEMMA InitSetsWorkerInv ==
  ASSUME Init
  PROVE  WorkerInv
  <1>1. ControlInv
    BY DEF Init, ControlInv, ControlTypes, Starting, Stopping, Ending, Quiet, CallerPlaces,
           MainPlaces
  <1>2. SpoolInv
    BY InitSetsInv DEF Init
  <1>3. Range(<<>>) = {} /\ <<>> \in Seq(Events) /\ Len(<<>>) = 0 /\ <<>> \o <<>> = <<>>
    BY EmptySeq, ConcatEmptySeq DEF Range
  <1>4. Idle \in JobType
    BY DEF Idle, JobType
  <1>5. DataTypes
    BY <1>3, <1>4, WorkerAssumption DEF Init, DataTypes
  <1>6. FlowInv
    BY <1>3 DEF Init, FlowInv, Queue, Rising
  <1>7. RowsInv /\ Innocent /\ NoDurableLoss /\ OnlyGuiltyBuried
    BY DEF Init, SpoolInit, RowsInv, Innocent, NoDurableLoss, OnlyGuiltyBuried, EventsOf
  <1>8. JobsInv
    BY IdleRequest DEF Init, JobsInv
  <1>9. DeliveredInOrder
    BY DEF Init, DeliveredInOrder
  <1>10. HealthTypes
    BY DEF Init, HealthTypes, States
  <1>11. OtherTypes
    BY WorkerAssumption DEF Init, OtherTypes
  <1> QED
    BY <1>1, <1>2, <1>5, <1>6, <1>7, <1>8, <1>9, <1>10, <1>11 DEF WorkerInv, DataInv

\* The inductive invariant of the worker.
THEOREM WorkerInvariant == Spec => []WorkerInv
  <1>1. Init => WorkerInv
    BY InitSetsWorkerInv
  <1>2. WorkerInv /\ [Next]_vars => WorkerInv'
    <2> SUFFICES ASSUME WorkerInv, [Next]_vars
                 PROVE  WorkerInv'
      OBVIOUS
    <2>1. /\ ControlInv /\ DataInv /\ DeliveredInOrder /\ HealthTypes /\ OtherTypes
      BY DEF WorkerInv
    <2>2. ControlInv'
      BY <2>1, NextKeepsControl
    <2>3. DataInv' /\ ContractStep
      BY <2>1, NextKeepsData
    <2>4. HealthTypes' /\ OtherTypes'
      BY <2>1, NextKeepsTypes
    <2>5. DeliveredInOrder'
      BY <2>1, <2>3, OrderKept
    <2> QED
      BY <2>2, <2>3, <2>4, <2>5 DEF WorkerInv
  <1> QED
    BY <1>1, <1>2, PTL DEF Spec

\* The service, its three threads of control and its environment keep their
\* types (WriterService, its lock-protected health fields, the jobs in flight).
THEOREM WorkerTypeCorrect == Spec => []TypeOK
  <1>1. WorkerInv => TypeOK
    BY DEF WorkerInv, ControlInv, ControlTypes, DataInv, DataTypes, SpoolInv, HealthTypes,
           OtherTypes, TypeOK
  <1> QED
    BY <1>1, WorkerInvariant, PTL

\* submit() answered True for an event: it is in exactly one of the ingress
\* queue, the batch being persisted, the durable events and what a kill lost
\* (_drain_ingress, _persist_held, the shutdown paths).
THEOREM WorkerAccounts == Spec => []AcceptedAccounted
  <1>1. WorkerInv => AcceptedAccounted
    <2> SUFFICES ASSUME WorkerInv
                 PROVE  AcceptedAccounted
      OBVIOUS
    <2>1. /\ held \in Seq(Events) /\ ingress \in Seq(Events) /\ FlowInv
          /\ durable \cup lost \subseteq Events
      BY DEF WorkerInv, DataInv, DataTypes
    <2>2. Queue \in Seq(Events) /\ Range(Queue) = Range(held) \cup Range(ingress)
      BY <2>1, QueueRange
    <2>3. Len(Queue) = Len(held) + Len(ingress)
      BY <2>1, ConcatProperties DEF Queue
    <2>4. Cardinality(Range(Queue)) = Len(Queue)
      BY <2>1, <2>2, RisingDistinct DEF FlowInv
    <2>5. Range(Queue) \cap (durable \cup lost) = {}
      <3> SUFFICES ASSUME NEW e \in Range(Queue), e \in durable \cup lost
                   PROVE  FALSE
        OBVIOUS
      <3>1. e < e
        BY <2>1 DEF FlowInv
      <3>2. e \in Nat
        BY <2>1, WorkerAssumption
      <3> QED
        BY <3>1, <3>2
    <2> QED
      BY <2>1, <2>2, <2>3, <2>4, <2>5 DEF AcceptedAccounted, FlowInv
  <1> QED
    BY <1>1, WorkerInvariant, PTL

\* Nothing that was durable and can be delivered is removed before QuestDB has
\* it (mark_delivered after a confirmed send only, the lone rejected row).
THEOREM WorkerLosesNothing == Spec => []NoDurableLoss
  <1>1. WorkerInv => NoDurableLoss
    BY DEF WorkerInv, DataInv
  <1> QED
    BY <1>1, WorkerInvariant, PTL

\* Only a row that does not encode, or that QuestDB rejects by itself, reaches
\* the dead-letter ring (the split of a rejected batch in _deliver_once).
THEOREM WorkerBuriesGuilty == Spec => []OnlyGuiltyBuried
  <1>1. WorkerInv => OnlyGuiltyBuried
    BY DEF WorkerInv, DataInv
  <1> QED
    BY <1>1, WorkerInvariant, PTL

\* QuestDB gets the events in the order of acceptance, whatever is split,
\* retried, cut off or flushed at the same time (_build_batch, send_batch).
THEOREM WorkerDeliversInOrder == Spec => []DeliveredInOrder
  <1>1. WorkerInv => DeliveredInOrder
    BY DEF WorkerInv
  <1> QED
    BY <1>1, WorkerInvariant, PTL

\* A worker that ends without a failure leaves nothing in memory (stop(), the
\* persist loop's look at the stop signal, _async_main).
THEOREM WorkerStopsClean == Spec => []CleanStopPersistsAll
  <1>1. WorkerInv => CleanStopPersistsAll
    <2> SUFFICES ASSUME WorkerInv, main \in {"closing", "final", "exiting", "dead"}, ~failure
                 PROVE  held \o ingress = <<>>
      BY DEF CleanStopPersistsAll
    <2>1. held = <<>> /\ ingress = <<>>
      BY DEF WorkerInv, ControlInv, Ending
    <2> QED
      BY <2>1, ConcatEmptySeq, EmptySeq
  <1> QED
    BY <1>1, WorkerInvariant, PTL

\* The worker, with its threads, retries, overlapping sends and crashes, does
\* to events only what the delivery contract allows.
THEOREM WorkerRefinesContract == Spec => ImplementsContract
  <1>1. Init => Contract!ContractInit
    <2>1. Range(<<>>) = {}
      BY DEF Range
    <2> QED
      BY <2>1 DEF Init, SpoolInit, Contract!ContractInit, EventsOf
  <1>2. WorkerInv /\ [Next]_vars => [Contract!ContractNext]_(Contract!contractVars)
    BY NextKeepsData DEF WorkerInv, ContractStep
  <1> QED
    BY <1>1, <1>2, WorkerInvariant, PTL DEF Spec, ImplementsContract, Contract!ContractSpec

-----------------------------------------------------------------------------
(* The spool inside the worker: whatever threads, tasks and kills do, its  *)
(* file sees one method call after another, so that what was proved of a   *)
(* spool in use holds of this one.                                         *)

\* A step of the worker makes at most one call of the spool.
LEMMA StepCallsSpool ==
  ASSUME DataInv, [Next]_vars
  PROVE  [SpoolCall]_spoolVars
  <1> DEFINE Called == SpoolCall \/ UNCHANGED spoolVars
  <1>1. ASSUME NEW seqs, NEW uncertain \in BOOLEAN,
               MarkDelivered(seqs) \/ RecordAttempt(seqs, uncertain)
        PROVE  SpoolCall
    <2>1. seqs \in SUBSET Sequences(pending)
      BY <1>1 DEF MarkDelivered, RecordAttempt, Known
    <2> QED
      BY <1>1, <2>1 DEF SpoolCall, DeliverAny, AttemptAny
  <1>2. ASSUME NEW row, MoveToDeadLetter(row, FALSE)
        PROVE  SpoolCall
    <2>1. row \in pending
      BY <1>2 DEF MoveToDeadLetter
    <2> QED
      BY <1>2, <2>1 DEF SpoolCall, Bury
  <1>3. ASSUME EnqueueMany(Drained)
        PROVE  SpoolCall
    <2>1. held \in Seq(Events) /\ ingress \in Seq(Events) /\ Len(held) <= PersistBatchRows
      BY DEF DataInv, DataTypes
    <2>2. Drained \in Seq(Events)
      BY <2>1, DrainSplits
    <2>3. Len(Drained) \in Nat /\ Drained \in [1 .. Len(Drained) -> Events]
      BY <2>2, LenProperties
    <2> QED
      BY <1>3, <2>3 DEF SpoolCall, EnqueueAny
  <1>4. ASSUME \/ \E l \in Limits : OpenSpool(l)
               \/ CloseSpool
        PROVE  SpoolCall
    BY <1>4 DEF SpoolCall, Reopen
  <1>5. ASSUME NEW w \in Senders, NEW outcome, ApplyAnswer(w, outcome)
        PROVE  Called
    <2>1. (job[w].answer = "uncertain") \in BOOLEAN /\ FALSE \in BOOLEAN
      OBVIOUS
    <2> QED
      BY <1>1, <1>2, <1>5, <2>1 DEF ApplyAnswer
  <1>6. ASSUME BuryOldest
        PROVE  Called
    BY <1>2, <1>6 DEF BuryOldest
  <1>7. ASSUME UNCHANGED dataVars
        PROVE  Called
    BY <1>7 DEF dataVars
  <1>8. CASE Start \/ Stop \/ CallerStep \/ StartTimesOut \/ DiskChanges \/ DeadlinePasses
    BY <1>7, <1>8, CallerLeavesData
  <1>9. CASE Submit \/ ServerStep
    BY <1>9 DEF Submit, ServerStep, ServerAnswers
  <1>10. CASE RunStep \/ OpenFails
    <2>1. CASE OpenResources \/ OpenFails \/ CloseResources
      BY <1>4, <2>1 DEF OpenResources, OpenFails, CloseResources
    <2> QED
      BY <1>7, <1>10, <2>1, CallerLeavesData DEF RunStep
  <1>11. CASE MainStep
    <2>1. CASE EndLoop \/ FlushBreaks
      BY <2>1 DEF EndLoop, FlushBreaks
    <2>2. CASE FlushBegins
      BY <1>6, <2>2 DEF FlushBegins
    <2>3. CASE FlushApplies
      <3>1. "flush" \in Senders /\ \E outcome : ApplyAnswer("flush", outcome)
        BY <2>3 DEF FlushApplies, Senders
      <3> QED
        BY <1>5, <3>1
    <2> QED
      BY <1>7, <1>11, <2>1, <2>2, <2>3, LoopLeavesData DEF MainStep
  <1>12. CASE PersistStep \/ PersistBreaks
    <2>1. CASE PersistRefused \/ PersistBreaks
      BY <2>1 DEF PersistRefused, PersistBreaks
    <2>2. CASE PersistStored
      BY <1>3, <2>2 DEF PersistStored
    <2> QED
      BY <1>7, <1>12, <2>1, <2>2, LoopLeavesData DEF PersistStep
  <1>13. CASE DeliverStep
    <2>1. CASE DeliverSends \/ DeliverParks \/ DeliverBreaks
      BY <2>1 DEF DeliverSends, DeliverParks, DeliverBreaks
    <2>2. CASE DeliverBuriesOldest
      BY <1>6, <2>2 DEF DeliverBuriesOldest
    <2>3. CASE DeliverApplies
      <3>1. "loop" \in Senders /\ \E outcome : ApplyAnswer("loop", outcome)
        BY <2>3 DEF DeliverApplies, Senders
      <3> QED
        BY <1>5, <3>1
    <2> QED
      BY <1>7, <1>13, <2>1, <2>2, <2>3, LoopLeavesData DEF DeliverStep
  <1>14. CASE Crash
    BY <1>4, <1>14 DEF Crash
  <1>15. CASE UNCHANGED vars
    BY <1>15 DEF vars
  <1> QED
    BY <1>8, <1>9, <1>10, <1>11, <1>12, <1>13, <1>14, <1>15 DEF Next

\* The worker uses its spool as a spool is used: the bounds of SpoolNext do not
\* apply to it, and a kill leaves the file as a close does (all calls of
\* worker.py on SQLiteSpool).
THEOREM WorkerUsesSpool == Spec => SpoolUse
  <1>1. Init => SpoolInit
    BY DEF Init
  <1>2. WorkerInv /\ [Next]_vars => [SpoolCall]_spoolVars
    BY StepCallsSpool DEF WorkerInv
  <1> QED
    BY <1>1, <1>2, WorkerInvariant, PTL DEF Spec, SpoolUse

\* The delivery task and the flush hold the sequence numbers of a batch from the
\* peek over the send to the write of the answer: no event stored meanwhile, or
\* after a restart, is ever addressed by them (_deliver_once).
THEOREM WorkerSequences == Spec => SequencesNeverReissued
  BY WorkerUsesSpool, UseSequences, PTL

\* A duplicate that QuestDB may hold stays marked through every retry, split,
\* burial and restart of the worker (record_attempt in _deliver_once).
THEOREM WorkerUncertainty == Spec => UncertaintyKept
  BY WorkerUsesSpool, UseUncertainty, PTL

\* The worker never stores over a limit, with limits that change at a restart
\* over the rows of the run before (_persist_held, move_to_dead_letter).
THEOREM WorkerCapacity == Spec => CapacityRespected
  BY WorkerUsesSpool, UseCapacity, PTL

\* What the worker buries displaces no dead letter without need
\* (_deliver_once, _build_batch).
THEOREM WorkerRingEvicts == Spec => RingEvictsOnlyWhatItMust
  BY WorkerUsesSpool, UseRingEvicts, PTL

\* The delivery task, the flush and AwaitPersist decide on stats.pendingRows
\* alone: it is the number of rows in the table, in every state (_delivery_loop).
THEOREM WorkerCounts == Spec => [](RowCountsExact /\ ByteCountsExact)
  <1>1. LimitsInv => RowCountsExact /\ ByteCountsExact
    BY DEF LimitsInv, SpoolInv
  <1> QED
    BY <1>1, WorkerUsesSpool, UseLimitsInvariant, PTL

=============================================================================
