--------------------------- MODULE StoragePressure --------------------------
(***************************************************************************)
(* The writer on a disk that runs full: the free-space guard, the pause of *)
(* persistence, and the reclamation that is to end it (storage_guard.py,   *)
(* _persist_held and _reclaim_spool of worker.py, reclaim and compact of   *)
(* spool.py).                                                              *)
(*                                                                         *)
(* Space is counted in pages, and an event fills one page.  The database   *)
(* file holds live and spare pages: a deleted row leaves a spare page,     *)
(* which SQLite uses again or gives back when it is asked to.  The         *)
(* write-ahead log grows with every commit up to WalMax, where SQLite      *)
(* starts it over, and shrinks only when it is truncated.  The rest of the *)
(* disk belongs to others, who use it at any time, between the measurement *)
(* and the write too.                                                      *)
(***************************************************************************)
EXTENDS Naturals, FiniteSetsExt

CONSTANTS
    Total,          \* size of the disk
    MinFree,        \* min_free_bytes
    Percent,        \* min_free_ratio, in percent
    Batch,          \* persist_batch_rows
    Pass,           \* _RECLAIM_MAX_PAGES
    WalMax,         \* bound of SQLite on the log
    StartPages      \* bound: pages of the file at the start

ASSUME StorageAssumption ==
    /\ {Total, MinFree, Percent, WalMax, StartPages} \subseteq Nat
    /\ {Batch, Pass} \subseteq Nat \ {0} /\ Percent < 100

VARIABLES
    others,         \* pages that others use
    live, spare,    \* pages of the database file
    wal,            \* pages of the write-ahead log
    mode,           \* auto_vacuum of the file
    readable,       \* whether the free space can be read
    held,           \* events that wait to be persisted
    pc,             \* where the persist task is
    paused,         \* _storage_episode
    rewrote,        \* _rewrite_attempted
    recent,         \* _last_reclaim is less than an interval ago
    least           \* history: the least that others have used

vars == <<others, live, spare, wal, mode, readable, held, pc, paused, rewrote, recent, least>>

FreeWith(l, s, w) == Total - (others + l + s + w)

Free == FreeWith(live, spare, wal)

Least(a, b) == Min({a, b})

\* reserve_bytes_for
Reserve == Max({MinFree, (Total * Percent + 99) \div 100})

\* Wrong variant: a filesystem that cannot be read counts as empty.
Blocked_Open(free) == readable /\ free < Reserve

\* FilesystemGuard.check and StorageStatus.blocked
Blocked(free) == ~readable \/ free < Reserve

\* What a commit of n pages adds to the log, and to the file.
LogGrowth(n) == Least(n, WalMax - wal)

FileGrowth(n) == n - Least(n, spare)

-----------------------------------------------------------------------------
(* Reclamation.                                                            *)

\* _truncate_wal: nobody else reads the spool, so it is never busy.
TruncatedWal == 0

\* Wrong variant: the attempt itself counts as a reclamation.
ReclaimDue_Stamped == FALSE

ReclaimDue == ~recent

Outcome(ok, s, w, m, r) == [ok |-> ok, spare |-> s, wal |-> w, mode |-> m, rewrote |-> r]

Nothing == Outcome(FALSE, spare, wal, mode, rewrote)

\* Wrong variant: a pass takes as many pages whether they are there or not.
PassPages_Fixed == Pass

\* Pages that one incremental_vacuum moves.
PassPages == Least(Pass, spare)

\* reclaim() in incremental mode: the pages it moves go through the log.
Vacuumed ==
    IF LogGrowth(PassPages) > Free THEN Nothing
      ELSE Outcome(TRUE, spare - PassPages, TruncatedWal, mode, rewrote)

\* reclaim() of an older file truncates the log; compact() then rewrites the
\* file once in a pause, for which the live pages need room a second time.
Rewritten ==
    LET w == TruncatedWal
    IN  IF rewrote THEN Outcome(TRUE, spare, w, mode, TRUE)
        ELSE IF FreeWith(live, spare, w) < live THEN Outcome(FALSE, spare, w, mode, TRUE)
        ELSE Outcome(TRUE, 0, w, "incremental", TRUE)

\* _reclaim_spool
Reclaimed ==
    IF ~ReclaimDue THEN Nothing
    ELSE IF mode = "incremental" THEN Vacuumed
    ELSE Rewritten

\* Wrong variant: the first measurement decides.
BlockedAfter_Stale(r) == Blocked(Free)

\* The space is measured again where reclaiming did something.
BlockedAfter(r) == IF r.ok THEN Blocked(FreeWith(live, r.spare, r.wal)) ELSE Blocked(Free)

-----------------------------------------------------------------------------
(* The persist task and the delivery task, on one loop.                    *)

Arrive ==
    /\ pc = "idle" /\ held < Batch
    /\ held' = held + 1
    /\ UNCHANGED <<others, live, spare, wal, mode, readable, pc, paused, rewrote, recent, least>>

\* _persist_held up to the write
CheckPasses ==
    /\ pc = "idle" /\ held > 0 /\ ~Blocked(Free)
    /\ pc' = "write"
    /\ UNCHANGED <<others, live, spare, wal, mode, readable, held, paused, rewrote, recent,
                   least>>

CheckBlocks ==
    /\ pc = "idle" /\ held > 0 /\ Blocked(Free)
    /\ LET r == Reclaimed
       IN  /\ spare' = r.spare /\ wal' = r.wal /\ mode' = r.mode /\ rewrote' = r.rewrote
           /\ paused' = (paused \/ BlockedAfter(r))
           /\ pc' = IF BlockedAfter(r) THEN "idle" ELSE "write"
    /\ recent' = TRUE
    /\ UNCHANGED <<others, live, readable, held, least>>

\* Wrong variant: there is nothing to reset where no pause was open.
PauseEnded_IfPaused == paused' = FALSE /\ rewrote' = (rewrote /\ ~paused)

\* _resume_after_storage_block, after every durable write
PauseEnded == paused' = FALSE /\ rewrote' = FALSE

\* enqueue_many: the batch is stored, which ends a pause, or the disk is full.
Write ==
    /\ pc = "write" /\ pc' = "idle"
    /\ \/ /\ FileGrowth(held) + LogGrowth(held) <= Free
          /\ live' = live + held /\ spare' = spare - Least(held, spare)
          /\ wal' = wal + LogGrowth(held)
          /\ held' = 0
          /\ PauseEnded
       \/ /\ FileGrowth(held) + LogGrowth(held) > Free
          /\ paused' = TRUE
          /\ UNCHANGED <<live, spare, wal, held, rewrote>>
    /\ UNCHANGED <<others, mode, readable, recent, least>>

\* A batch was acknowledged: mark_delivered, which ends a pause as well, or the
\* deletion finds the disk full.
Deliver ==
    /\ pc = "idle" /\ live > 0
    /\ LET n == Least(live, Batch)
       IN  \/ /\ LogGrowth(n) <= Free
              /\ live' = live - n /\ spare' = spare + n /\ wal' = wal + LogGrowth(n)
              /\ PauseEnded
           \/ /\ LogGrowth(n) > Free
              /\ paused' = TRUE
              /\ UNCHANGED <<live, spare, wal, rewrote>>
    /\ UNCHANGED <<others, mode, readable, held, pc, recent, least>>

IntervalPasses ==
    /\ recent
    /\ recent' = FALSE
    /\ UNCHANGED <<others, live, spare, wal, mode, readable, held, pc, paused, rewrote, least>>

-----------------------------------------------------------------------------
(* The environment.                                                        *)

OthersGrow ==
    /\ Free > 0
    /\ others' = others + 1
    /\ UNCHANGED <<live, spare, wal, mode, readable, held, pc, paused, rewrote, recent, least>>

OthersShrink ==
    /\ others > 0
    /\ others' = others - 1
    /\ least' = Least(least, others')
    /\ UNCHANGED <<live, spare, wal, mode, readable, held, pc, paused, rewrote, recent>>

ReadabilityChanges ==
    /\ readable' = ~readable
    /\ UNCHANGED <<others, live, spare, wal, mode, held, pc, paused, rewrote, recent, least>>

\* The process is killed and started again; the log stays as long as it was.
Restart ==
    /\ held' = 0 /\ pc' = "idle"
    /\ paused' = FALSE /\ rewrote' = FALSE /\ recent' = FALSE
    /\ UNCHANGED <<others, live, spare, wal, mode, readable, least>>

-----------------------------------------------------------------------------
\* A file of an older version, or a new one, on a disk with room for it.
Init ==
    /\ live \in 0 .. StartPages /\ spare \in 0 .. StartPages - live
    /\ others \in 0 .. Total
    /\ live + spare + others + Reserve <= Total
    /\ wal = 0 /\ mode \in {"none", "incremental"} /\ readable = TRUE
    /\ held = 0 /\ pc = "idle" /\ paused = FALSE /\ rewrote = FALSE /\ recent = FALSE
    /\ least = others

Persist == CheckPasses \/ CheckBlocks \/ Write

Next == \/ Persist \/ Arrive \/ Deliver \/ IntervalPasses
        \/ OthersGrow \/ OthersShrink \/ ReadabilityChanges \/ Restart

Spec == Init /\ [][Next]_vars

\* The persist task polls and time goes on; nothing is forced on QuestDB, on
\* the user or on the rest of the disk.
FairSpec == Spec /\ WF_vars(Persist) /\ WF_vars(IntervalPasses)

-----------------------------------------------------------------------------
(* Properties.                                                             *)

\* Type correctness; in particular the spool never takes more than there is.
StorageTypeOK ==
    /\ {others, live, spare, wal, least} \subseteq 0 .. Total
    /\ others + live + spare + wal <= Total
    /\ wal <= WalMax /\ held \in 0 .. Batch
    /\ mode \in {"none", "incremental"} /\ pc \in {"idle", "write"}
    /\ {readable, paused, rewrote, recent} \subseteq BOOLEAN

\* The reserve is a threshold for the writer's own file: whatever others do,
\* and however often persistence pauses, reclaims and resumes, the file
\* reaches into the reserve by no more than one batch.  The log is not under
\* the guard, and is bounded by SQLite alone.
ReserveKept == live + spare + Reserve + least <= Total + Batch

\* The guard holds a batch back only where what reclaiming gave back is not
\* enough.  The exception is a rewrite that failed just then: the log was
\* truncated before it, and the space is not measured again.
PauseIsMeasured ==
    [][CheckBlocks /\ pc' = "idle" /\ ~(rewrote' # rewrote /\ mode' = "none")
         => ~readable' \/ Free' < Reserve]_vars

\* The space that reclaiming can reach without help: the pages of a file that
\* gives them back, where there is room for a pass, or the pages of an older
\* one, where there is room for the rewrite and this pause has not used it up.
Reclaimable ==
    CASE mode = "incremental" -> IF LogGrowth(PassPages) > Free THEN 0 ELSE spare + wal
      [] mode = "none" -> IF ~rewrote /\ FreeWith(live, spare, 0) >= live THEN spare + wal ELSE wal

\* Every pause has its one rewrite: the mark that it was tried is there only
\* while a pause lasts, or while the write that it made room for is under way.
\* A mark left behind by a pause that either task has ended, or by a rewrite
\* that prevented one, would leave the next pause of an older file without any
\* way out.
RewriteLeftForPause == rewrote => paused \/ pc = "write"

\* A writer that filled the disk itself comes out of its pause: once others
\* leave the disk alone, and where the space it can reclaim is enough, the
\* waiting events are persisted without any help, delivery or restart.
StoragePauseEnds ==
    \A n \in 0 .. Total :
        <>[](others = n /\ readable /\ Free + Reclaimable >= Reserve) => []<>(held = 0)

-----------------------------------------------------------------------------
(* Statements of the documentation that the code does not keep.            *)

\* docs/decisions/0015: the worker reclaims, measures again, and pauses only if
\* the space did not come back.  In the code a rewrite that fails has truncated
\* the log before, and the verdict is the one of the first measurement.
PausesOnlyIfNeeded ==
    [][CheckBlocks /\ pc' = "idle" => ~readable' \/ Free' < Reserve]_vars

=============================================================================
