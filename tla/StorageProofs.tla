---------------------------- MODULE StorageProofs ---------------------------
(***************************************************************************)
(* Theorems about the writer on a disk that runs full, for every size of   *)
(* the disk, the reserve, the batch, the passes and the log.               *)
(*                                                                         *)
(* ReserveKept is not inductive: a write adds a batch to whatever the file *)
(* is, so the invariant has to carry what the check has established until  *)
(* the write.  That is Measured: between the two, nobody but others can    *)
(* take space, and what they leave is what the check has seen, or more.    *)
(***************************************************************************)
EXTENDS StoragePressure, TLAPS

\* The least that others have used is not more than what they use.
LeastIsLeast == least <= others

\* A batch that passed the check found the reserve free.
Measured == pc = "write" => live + spare + Reserve + least <= Total

StorageInv == StorageTypeOK /\ LeastIsLeast /\ Measured /\ ReserveKept

-----------------------------------------------------------------------------
(* Arithmetic.                                                             *)

\* Least is the smaller of two numbers.
LEMMA LeastOfTwo ==
  ASSUME NEW a \in Int, NEW b \in Int
  PROVE  /\ Least(a, b) \in {a, b}
         /\ Least(a, b) <= a /\ Least(a, b) <= b
  <1>1. \E x \in {a, b} : \A y \in {a, b} : x <= y
    <2>1. CASE a <= b
      BY <2>1
    <2>2. CASE ~(a <= b)
      BY <2>2
    <2> QED
      BY <2>1, <2>2
  <1>2. /\ Min({a, b}) \in {a, b}
        /\ \A y \in {a, b} : Min({a, b}) <= y
    BY <1>1 DEF Min
  <1> QED
    BY <1>2 DEF Least

\* The reserve is a number of pages.
LEMMA ReserveIsNat == Reserve \in Nat
  <1> DEFINE share == (Total * Percent + 99) \div 100
  <1>1. MinFree \in Nat /\ Total \in Nat /\ Percent \in Nat
    BY StorageAssumption
  <1>2. Total * Percent \in Nat
    BY <1>1
  <1>3. share \in Nat
    BY <1>2
  <1> HIDE DEF share
  <1>4. \E x \in {MinFree, share} : \A y \in {MinFree, share} : x >= y
    <2>1. CASE MinFree >= share
      BY <1>1, <1>3, <2>1
    <2>2. CASE ~(MinFree >= share)
      BY <1>1, <1>3, <2>2
    <2> QED
      BY <2>1, <2>2
  <1>5. Max({MinFree, share}) \in {MinFree, share}
    BY <1>4 DEF Max
  <1> QED
    BY <1>1, <1>3, <1>5 DEF Reserve, share

\* What the invariant says of the pages, for the provers' arithmetic.
LEMMA PagesAreNat ==
  ASSUME StorageTypeOK
  PROVE  /\ others \in Nat /\ live \in Nat /\ spare \in Nat /\ wal \in Nat
         /\ held \in Nat /\ least \in Nat
         /\ Total \in Nat /\ WalMax \in Nat /\ Batch \in Nat /\ Pass \in Nat
         /\ Free = Total - (others + live + spare + wal) /\ Free \in Nat
  BY StorageAssumption DEF StorageTypeOK, Free, FreeWith

\* A commit adds at most its pages to the log, which stays within its bound,
\* and at most its pages to the file.
LEMMA Growth ==
  ASSUME StorageTypeOK, NEW n \in Nat
  PROVE  /\ LogGrowth(n) \in Nat /\ LogGrowth(n) <= n /\ wal + LogGrowth(n) <= WalMax
         /\ Least(n, spare) \in Nat /\ Least(n, spare) <= spare /\ Least(n, spare) <= n
         /\ FileGrowth(n) = n - Least(n, spare)
         /\ FileGrowth(n) \in Nat /\ FileGrowth(n) <= n
  <1>1. wal \in Nat /\ spare \in Nat /\ WalMax \in Nat /\ wal <= WalMax
    BY PagesAreNat DEF StorageTypeOK
  <1>2. /\ Least(n, WalMax - wal) \in {n, WalMax - wal}
        /\ Least(n, WalMax - wal) <= n /\ Least(n, WalMax - wal) <= WalMax - wal
    BY <1>1, LeastOfTwo
  <1>3. /\ Least(n, spare) \in {n, spare}
        /\ Least(n, spare) <= n /\ Least(n, spare) <= spare
    BY <1>1, LeastOfTwo
  <1> QED
    BY <1>1, <1>2, <1>3 DEF LogGrowth, FileGrowth

\* Reclaiming never takes space, keeps live pages, and leaves the state as it
\* was or says what it did.
LEMMA ReclaimedGivesBack ==
  ASSUME StorageTypeOK
  PROVE  /\ Reclaimed.ok \in BOOLEAN /\ Reclaimed.rewrote \in BOOLEAN
         /\ Reclaimed.spare \in Nat /\ Reclaimed.spare <= spare
         /\ Reclaimed.wal \in Nat /\ Reclaimed.wal <= wal
         /\ Reclaimed.mode \in {"none", "incremental"}
         /\ \/ Reclaimed.ok
            \/ Reclaimed.spare = spare /\ Reclaimed.wal = wal
            \/ ~rewrote /\ Reclaimed.rewrote /\ Reclaimed.mode = "none"
  <1>1. /\ spare \in Nat /\ wal \in Nat /\ Pass \in Nat
        /\ rewrote \in BOOLEAN /\ mode \in {"none", "incremental"}
    BY PagesAreNat DEF StorageTypeOK
  <1>2. PassPages \in Nat /\ PassPages <= spare
    <2>1. Least(Pass, spare) \in {Pass, spare} /\ Least(Pass, spare) <= spare
      BY <1>1, LeastOfTwo
    <2> QED
      BY <1>1, <2>1 DEF PassPages
  <1>3. CASE ~ReclaimDue
    BY <1>1, <1>3 DEF Reclaimed, Nothing, Outcome
  <1>4. CASE ReclaimDue /\ mode = "incremental"
    <2>1. Reclaimed = Vacuumed
      BY <1>4 DEF Reclaimed
    <2>2. CASE LogGrowth(PassPages) > Free
      BY <1>1, <2>1, <2>2 DEF Vacuumed, Nothing, Outcome
    <2>3. CASE ~(LogGrowth(PassPages) > Free)
      BY <1>1, <1>2, <2>1, <2>3 DEF Vacuumed, Outcome, TruncatedWal
    <2> QED
      BY <2>2, <2>3
  <1>5. CASE ReclaimDue /\ mode # "incremental"
    <2>1. Reclaimed = Rewritten
      BY <1>5 DEF Reclaimed
    <2>2. CASE rewrote
      BY <1>1, <2>1, <2>2 DEF Rewritten, Outcome, TruncatedWal
    <2>3. CASE ~rewrote /\ FreeWith(live, spare, TruncatedWal) < live
      BY <1>1, <1>5, <2>1, <2>3 DEF Rewritten, Outcome, TruncatedWal
    <2>4. CASE ~rewrote /\ ~(FreeWith(live, spare, TruncatedWal) < live)
      BY <1>1, <2>1, <2>4 DEF Rewritten, Outcome, TruncatedWal
    <2> QED
      BY <2>2, <2>3, <2>4
  <1> QED
    BY <1>3, <1>4, <1>5

-----------------------------------------------------------------------------
(* The invariant.                                                          *)

\* The disk has room for the file and the reserve at the start.
LEMMA StorageInvInit == Init => StorageInv
  <1> SUFFICES ASSUME Init PROVE StorageInv
    OBVIOUS
  <1>1. Reserve \in Nat /\ Total \in Nat /\ StartPages \in Nat /\ Batch \in Nat /\ WalMax \in Nat
    BY ReserveIsNat, StorageAssumption
  <1>2. live \in Nat /\ spare \in Nat /\ others \in Nat /\ least = others /\ wal = 0
    BY <1>1 DEF Init
  <1>3. live + spare + others + Reserve <= Total
    BY DEF Init
  <1>4. /\ others + live + spare + wal <= Total
        /\ others <= Total /\ live <= Total /\ spare <= Total
        /\ live + spare + Reserve + least <= Total
    BY <1>1, <1>2, <1>3
  <1>5. StorageTypeOK
    <2>1. {others, live, spare, wal, least} \subseteq 0 .. Total
      BY <1>1, <1>2, <1>4
    <2>2. wal <= WalMax /\ held \in 0 .. Batch
      BY <1>1 DEF Init
    <2> QED
      BY <1>4, <2>1, <2>2 DEF Init, StorageTypeOK
  <1>6. ReserveKept
    BY <1>1, <1>2, <1>4 DEF ReserveKept
  <1> QED
    BY <1>2, <1>5, <1>6 DEF Init, StorageInv, LeastIsLeast, Measured


\* Every step keeps it.
LEMMA StorageInvStep == StorageInv /\ [Next]_vars => StorageInv'
  <1> SUFFICES ASSUME StorageInv, [Next]_vars PROVE StorageInv'
    OBVIOUS
  <1> USE DEF StorageInv
  <1>1. /\ others \in Nat /\ live \in Nat /\ spare \in Nat /\ wal \in Nat
        /\ held \in Nat /\ least \in Nat /\ Reserve \in Nat
        /\ Total \in Nat /\ WalMax \in Nat /\ Batch \in Nat /\ Pass \in Nat
        /\ Free = Total - (others + live + spare + wal) /\ Free \in Nat
    BY PagesAreNat, ReserveIsNat
  <1>2. /\ others + live + spare + wal <= Total /\ least <= others
        /\ wal <= WalMax /\ held <= Batch
        /\ live + spare + Reserve + least <= Total + Batch
        /\ pc = "write" => live + spare + Reserve + least <= Total
    BY <1>1 DEF StorageTypeOK, LeastIsLeast, ReserveKept, Measured
  \* The invariant in terms of the pages after the step.
  <1>3. ASSUME others' \in Nat, live' \in Nat, spare' \in Nat, wal' \in Nat,
               held' \in Nat, least' \in Nat,
               others' + live' + spare' + wal' <= Total, least' <= others',
               wal' <= WalMax, held' <= Batch,
               live' + spare' + Reserve + least' <= Total + Batch,
               pc' = "write" => live' + spare' + Reserve + least' <= Total,
               mode' \in {"none", "incremental"}, pc' \in {"idle", "write"},
               readable' \in BOOLEAN, paused' \in BOOLEAN,
               rewrote' \in BOOLEAN, recent' \in BOOLEAN
        PROVE  StorageInv'
    <2>1. {others', live', spare', wal', least'} \subseteq 0 .. Total
      <3>1. ASSUME NEW a \in Nat, NEW b \in Nat, NEW c \in Nat, NEW d \in Nat,
                   a + b + c + d <= Total
            PROVE  a <= Total /\ b <= Total /\ c <= Total /\ d <= Total
        BY <1>1, <3>1
      <3>2. others' <= Total /\ live' <= Total /\ spare' <= Total /\ wal' <= Total
        BY <1>3, <3>1
      <3>3. least' <= Total
        BY <1>1, <1>3, <3>2
      <3> QED
        BY <1>1, <1>3, <3>2, <3>3
    <2>2. Reserve' = Reserve
      BY DEF Reserve
    <2>3. held' \in 0 .. Batch
      BY <1>1, <1>3
    <2>4. StorageTypeOK'
      BY <1>3, <2>1, <2>3 DEF StorageTypeOK
    <2> QED
      BY <1>3, <2>2, <2>4 DEF LeastIsLeast, ReserveKept, Measured
  <1>4. /\ mode \in {"none", "incremental"} /\ pc \in {"idle", "write"}
        /\ readable \in BOOLEAN /\ paused \in BOOLEAN
        /\ rewrote \in BOOLEAN /\ recent \in BOOLEAN
    BY DEF StorageTypeOK
  <1>5. CASE UNCHANGED vars
    BY <1>1, <1>2, <1>3, <1>4, <1>5 DEF vars
  <1>6. CASE Arrive
    BY <1>1, <1>2, <1>3, <1>4, <1>6 DEF Arrive
  <1>7. CASE CheckPasses
    <2>1. Free >= Reserve
      BY <1>1, <1>7 DEF CheckPasses, Blocked
    <2>2. live + spare + Reserve + least <= Total
      BY <1>1, <1>2, <2>1
    <2> QED
      BY <1>1, <1>2, <1>3, <1>4, <1>7, <2>2 DEF CheckPasses
  <1>8. CASE CheckBlocks
    <2> DEFINE r == Reclaimed
    <2>1. /\ r.rewrote \in BOOLEAN /\ r.mode \in {"none", "incremental"}
          /\ r.spare \in Nat /\ r.spare <= spare /\ r.wal \in Nat /\ r.wal <= wal
      BY ReclaimedGivesBack
    <2>2. ~BlockedAfter(r) => live + r.spare + Reserve + least <= Total
      <3> SUFFICES ASSUME ~BlockedAfter(r)
                   PROVE  live + r.spare + Reserve + least <= Total
        OBVIOUS
      <3> HIDE DEF r
      <3>1. r.ok /\ ~Blocked(FreeWith(live, r.spare, r.wal))
        BY <1>8 DEF CheckBlocks, BlockedAfter
      <3>2. Total - (others + live + r.spare + r.wal) >= Reserve
        BY <1>1, <2>1, <3>1 DEF Blocked, FreeWith
      <3> QED
        BY <1>1, <1>2, <2>1, <3>2
    <2>3. /\ spare' = r.spare /\ wal' = r.wal /\ mode' = r.mode /\ rewrote' = r.rewrote
          /\ paused' = (paused \/ BlockedAfter(r))
          /\ pc' = IF BlockedAfter(r) THEN "idle" ELSE "write"
          /\ recent' = TRUE
          /\ others' = others /\ live' = live /\ readable' = readable /\ held' = held
          /\ least' = least
      BY <1>8 DEF CheckBlocks
    <2> HIDE DEF r
    <2>4. pc' = "write" => live' + spare' + Reserve + least' <= Total
      BY <2>2, <2>3
    <2>5. pc' \in {"idle", "write"} /\ paused' \in BOOLEAN
      BY <1>4, <2>3
    <2> QED
      BY <1>1, <1>2, <1>3, <1>4, <2>1, <2>3, <2>4, <2>5
  <1>9. CASE Write
    <2>1. PICK used \in Nat, logged \in Nat :
            /\ used = Least(held, spare) /\ logged = LogGrowth(held)
            /\ wal + logged <= WalMax /\ used <= spare /\ used <= held
            /\ FileGrowth(held) = held - used
      BY <1>1, Growth
    <2>2. /\ pc = "write" /\ pc' = "idle" /\ others' = others /\ mode' = mode
          /\ readable' = readable /\ recent' = recent /\ least' = least
      BY <1>9 DEF Write
    <2>3. CASE /\ FileGrowth(held) + logged <= Free
               /\ live' = live + held /\ spare' = spare - used /\ wal' = wal + logged
               /\ held' = 0 /\ paused' = FALSE /\ rewrote' = FALSE
      <3>1. live + spare + Reserve + least <= Total /\ held <= Batch
        BY <1>2, <2>2
      <3>2. /\ live + held \in Nat /\ spare - used \in Nat /\ wal + logged \in Nat
            /\ others + (live + held) + (spare - used) + (wal + logged) <= Total
            /\ (live + held) + (spare - used) + Reserve + least <= Total + Batch
        BY <1>1, <1>2, <2>1, <2>3, <3>1
      <3>3. /\ live' \in Nat /\ spare' \in Nat /\ wal' \in Nat /\ wal' <= WalMax
            /\ others + live' + spare' + wal' <= Total
            /\ live' + spare' + Reserve + least <= Total + Batch
        BY <2>1, <2>3, <3>2
      <3>4. /\ others' \in Nat /\ least' \in Nat /\ least' <= others'
            /\ others' + live' + spare' + wal' <= Total
            /\ live' + spare' + Reserve + least' <= Total + Batch
        BY <1>1, <1>2, <2>2, <3>3
      <3>5. held' \in Nat /\ held' <= Batch /\ ~(pc' = "write")
        BY <1>1, <2>2, <2>3
      <3> QED
        BY <1>3, <1>4, <2>2, <2>3, <3>3, <3>4, <3>5, Zenon
    <2>4. CASE /\ paused' = TRUE /\ live' = live /\ spare' = spare /\ wal' = wal
               /\ held' = held /\ rewrote' = rewrote
      BY <1>1, <1>2, <1>3, <1>4, <2>2, <2>4
    <2> QED
      BY <1>9, <2>1, <2>3, <2>4 DEF Write, PauseEnded
  <1>10. CASE Deliver
    <2> DEFINE n == Least(live, Batch)
               logged == LogGrowth(n)
    <2>1. n \in Nat /\ n <= live
      BY <1>1, LeastOfTwo
    <2>2. logged \in Nat /\ wal + logged <= WalMax
      BY <2>1, Growth
    <2>3. /\ pc = "idle" /\ pc' = pc /\ others' = others /\ mode' = mode
          /\ readable' = readable /\ held' = held /\ recent' = recent /\ least' = least
      BY <1>10 DEF Deliver
    <2>4. CASE /\ logged <= Free
               /\ live' = live - n /\ spare' = spare + n /\ wal' = wal + logged
               /\ paused' = FALSE /\ rewrote' = FALSE
      <3> HIDE DEF n, logged
      <3>1. /\ live' \in Nat /\ spare' \in Nat /\ wal' \in Nat
            /\ live' + spare' = live + spare /\ wal' <= WalMax
        BY <1>1, <2>1, <2>2, <2>4
      <3>2. others + live' + spare' + wal' <= Total
        BY <1>1, <1>2, <2>2, <2>4, <3>1
      <3>3. live' + spare' + Reserve + least <= Total + Batch
        BY <1>1, <1>2, <3>1
      <3> QED
        BY <1>1, <1>2, <1>3, <1>4, <2>3, <2>4, <3>1, <3>2, <3>3
    <2>5. CASE /\ paused' = TRUE /\ live' = live /\ spare' = spare /\ wal' = wal
               /\ rewrote' = rewrote
      BY <1>1, <1>2, <1>3, <1>4, <2>3, <2>5
    <2> QED
      BY <1>10, <2>4, <2>5 DEF Deliver, PauseEnded
  <1>11. CASE IntervalPasses
    BY <1>1, <1>2, <1>3, <1>4, <1>11 DEF IntervalPasses
  <1>12. CASE OthersGrow
    BY <1>1, <1>2, <1>3, <1>4, <1>12 DEF OthersGrow
  <1>13. CASE OthersShrink
    <2>1. others' = others - 1 /\ others' \in Nat
      BY <1>1, <1>13 DEF OthersShrink
    <2>2. /\ least' \in {least, others'} /\ least' <= least /\ least' <= others'
      BY <1>1, <1>13, <2>1, LeastOfTwo DEF OthersShrink
    <2> QED
      BY <1>1, <1>2, <1>3, <1>4, <1>13, <2>1, <2>2 DEF OthersShrink
  <1>14. CASE ReadabilityChanges
    BY <1>1, <1>2, <1>3, <1>4, <1>14 DEF ReadabilityChanges
  <1>15. CASE Restart
    <2>1. /\ held' = 0 /\ pc' = "idle"
          /\ paused' = FALSE /\ rewrote' = FALSE /\ recent' = FALSE
          /\ others' = others /\ live' = live /\ spare' = spare /\ wal' = wal
          /\ mode' = mode /\ readable' = readable /\ least' = least
      BY <1>15 DEF Restart
    <2>2. held' \in Nat /\ held' <= Batch
      BY <1>1, <2>1
    <2>3. ~(pc' = "write")
      BY <2>1
    <2>4. live' + spare' + Reserve + least' <= Total + Batch
      BY <1>2, <2>1
    <2> QED
      BY <1>1, <1>2, <1>3, <1>4, <2>1, <2>2, <2>3, <2>4
  <1> QED
    BY <1>5, <1>6, <1>7, <1>8, <1>9, <1>10, <1>11, <1>12, <1>13, <1>14, <1>15
       DEF Next, Persist

\* The invariant holds of every reachable state.
LEMMA StorageInvariant == Spec => []StorageInv
  BY StorageInvInit, StorageInvStep, PTL DEF Spec

\* The pages of the file, the log and the rest of the disk never add up to more
\* than the disk, whatever _persist_held, _reclaim_spool and others do.
THEOREM StorageTypeCorrect == Spec => []StorageTypeOK
  <1>1. StorageInv => StorageTypeOK
    BY DEF StorageInv
  <1> QED
    BY <1>1, StorageInvariant, PTL

\* The writer's own file reaches into the reserve by no more than one batch of
\* persist_batch_rows, for every reserve and every size of the disk.
THEOREM StorageReserveKept == Spec => []ReserveKept
  <1>1. StorageInv => ReserveKept
    BY DEF StorageInv
  <1> QED
    BY <1>1, StorageInvariant, PTL

\* Every pause has its one rewrite: _reclaim_spool marks it as tried on the way
\* into a pause or into a write, and either ends in _resume_after_storage_block
\* or in a pause.
THEOREM StorageRewriteLeft == Spec => []RewriteLeftForPause
  <1>1. Init => RewriteLeftForPause
    BY DEF Init, RewriteLeftForPause
  <1>2. RewriteLeftForPause /\ [Next]_vars => RewriteLeftForPause'
    <2> SUFFICES ASSUME RewriteLeftForPause, [Next]_vars, rewrote'
                 PROVE  paused' \/ pc' = "write"
      BY DEF RewriteLeftForPause
    <2>1. CASE CheckPasses
      BY <2>1 DEF CheckPasses
    <2>2. CASE CheckBlocks
      BY <2>2 DEF CheckBlocks
    <2>3. CASE Write
      BY <2>3 DEF Write, PauseEnded
    <2>4. CASE Deliver
      BY <2>4 DEF Deliver, PauseEnded
    <2>5. CASE Restart
      BY <2>5 DEF Restart
    <2>6. CASE UNCHANGED <<rewrote, paused, pc>>
      BY <2>6 DEF RewriteLeftForPause
    <2>7. CASE Arrive \/ IntervalPasses \/ OthersGrow \/ OthersShrink \/ ReadabilityChanges
      BY <2>6, <2>7 DEF Arrive, IntervalPasses, OthersGrow, OthersShrink, ReadabilityChanges
    <2> QED
      BY <2>1, <2>2, <2>3, <2>4, <2>5, <2>6, <2>7 DEF Next, Persist, vars
  <1> QED
    BY <1>1, <1>2, PTL DEF Spec

\* _persist_held keeps a batch back only where what reclaiming gave back is not
\* enough: the decision is the one of the space after reclaiming.
THEOREM StoragePauseMeasured == Spec => PauseIsMeasured
  <1> DEFINE Measures ==
        CheckBlocks /\ pc' = "idle" /\ ~(rewrote' # rewrote /\ mode' = "none")
          => ~readable' \/ Free' < Reserve
  <1>1. StorageInv /\ [Next]_vars => [Measures]_vars
    <2> SUFFICES ASSUME StorageInv, CheckBlocks, pc' = "idle",
                        ~(rewrote' # rewrote /\ mode' = "none")
                 PROVE  ~readable' \/ Free' < Reserve
      OBVIOUS
    <2> DEFINE r == Reclaimed
    <2>1. StorageTypeOK
      BY DEF StorageInv
    <2>2. \/ r.ok
          \/ r.spare = spare /\ r.wal = wal
          \/ ~rewrote /\ r.rewrote /\ r.mode = "none"
      BY <2>1, ReclaimedGivesBack
    <2>3. /\ spare' = r.spare /\ wal' = r.wal /\ mode' = r.mode /\ rewrote' = r.rewrote
          /\ pc' = IF BlockedAfter(r) THEN "idle" ELSE "write"
          /\ others' = others /\ live' = live /\ readable' = readable
          /\ Blocked(Free)
      BY DEF CheckBlocks
    <2> HIDE DEF r
    <2>4. BlockedAfter(r)
      BY <2>3
    <2>5. Free' = FreeWith(live, r.spare, r.wal)
      BY <2>3 DEF Free, FreeWith
    <2>6. CASE r.ok
      BY <2>3, <2>4, <2>5, <2>6 DEF BlockedAfter, Blocked
    <2>7. CASE r.spare = spare /\ r.wal = wal
      <3>1. Free' = Free
        BY <2>5, <2>7 DEF Free
      <3> QED
        BY <2>3, <3>1 DEF Blocked
    <2>8. CASE ~rewrote /\ r.rewrote /\ r.mode = "none"
      BY <2>3, <2>8
    <2> QED
      BY <2>2, <2>6, <2>7, <2>8
  <1> QED
    BY <1>1, StorageInvariant, PTL DEF Spec, PauseIsMeasured

=============================================================================
