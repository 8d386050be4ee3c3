---------------------------- MODULE SpoolProofs ----------------------------
(***************************************************************************)
(* Theorems about the spool, for every set of events, every choice of      *)
(* limits and every value of the bounds.                                   *)
(*                                                                         *)
(* The inductive invariant is SpoolInv: besides the properties themselves  *)
(* it says that both tables are finite and that the AUTOINCREMENT counters *)
(* are ahead of every number handed out.  The second part is what makes    *)
(* uniqueness inductive: a fresh row is told from every stored row by its  *)
(* number alone.                                                           *)
(***************************************************************************)
EXTENDS Spool, FiniteSetTheorems, TLAPS

TablesFinite == IsFiniteSet(pending) /\ IsFiniteSet(deadLetter)

CountersAhead ==
    /\ \A r \in pending : r.seq <= lastSequence
    /\ \A d \in deadLetter : d.seq <= lastSequence /\ d.id <= lastDeadId

SpoolInv == SpoolTypeOK /\ TablesFinite /\ CountersAhead /\ OneHome /\ RowCountsExact

-----------------------------------------------------------------------------
(* What a batch inserts.                                                   *)

\* The rank of a position among the fresh ones.
Rank(batch, i) == Cardinality({j \in FreshPositions(batch) : j <= i})

\* Fresh positions are positions, and there are finitely many.
LEMMA FreshFinite ==
  ASSUME NEW n \in Nat, NEW batch \in [1 .. n -> Events]
  PROVE  /\ FreshPositions(batch) \subseteq 1 .. n
         /\ IsFiniteSet(FreshPositions(batch))
         /\ Cardinality(FreshPositions(batch)) \in Nat
  <1>1. FreshPositions(batch) \subseteq 1 .. n
    BY DEF FreshPositions
  <1>2. IsFiniteSet(1 .. n)
    BY FS_Interval
  <1> QED
    BY <1>1, <1>2, FS_Subset, FS_CardinalityType

\* Ranks count from one, in the order of the batch.
LEMMA RankMonotone ==
  ASSUME NEW n \in Nat, NEW batch \in [1 .. n -> Events],
         NEW i \in FreshPositions(batch)
  PROVE  /\ Rank(batch, i) \in 1 .. Cardinality(FreshPositions(batch))
         /\ \A k \in FreshPositions(batch) : i < k => Rank(batch, i) < Rank(batch, k)
  <1> DEFINE F == FreshPositions(batch)
             Upto(x) == {j \in F : j <= x}
  <1>1. IsFiniteSet(F) /\ F \subseteq 1 .. n /\ Cardinality(F) \in Nat
    BY FreshFinite
  <1>2. \A x : IsFiniteSet(Upto(x)) /\ Cardinality(Upto(x)) \in Nat
                /\ Cardinality(Upto(x)) <= Cardinality(F)
    <2> TAKE x
    <2>1. Upto(x) \in SUBSET F
      OBVIOUS
    <2> QED
      BY <1>1, <2>1, FS_Subset, FS_CardinalityType
  <1>3. i \in Upto(i) /\ i \in Int
    BY <1>1
  <1>4. Cardinality(Upto(i)) # 0
    BY <1>2, <1>3, FS_EmptySet
  <1>5. ASSUME NEW k \in F, i < k
        PROVE  Cardinality(Upto(i)) < Cardinality(Upto(k))
    <2>1. Upto(i) \in SUBSET Upto(k) /\ Upto(i) # Upto(k)
      <3>1. k \in Int
        BY <1>1
      <3>2. \A j \in F : j \in Int
        BY <1>1
      <3>3. k \in Upto(k) /\ k \notin Upto(i)
        BY <1>3, <1>5, <3>1
      <3>4. \A j \in Upto(i) : j \in Upto(k)
        BY <1>3, <1>5, <3>1, <3>2
      <3> QED
        BY <3>3, <3>4
    <2>2. Cardinality(Upto(i)) <= Cardinality(Upto(k))
            /\ Cardinality(Upto(i)) # Cardinality(Upto(k))
      BY <1>2, <2>1, FS_Subset
    <2>3. Cardinality(Upto(i)) \in Nat /\ Cardinality(Upto(k)) \in Nat
      BY <1>2
    <2> HIDE DEF Upto
    <2> QED
      BY <2>2, <2>3
  <1>6. Rank(batch, i) = Cardinality(Upto(i))
         /\ \A k \in F : Rank(batch, k) = Cardinality(Upto(k))
    BY DEF Rank
  <1> HIDE DEF Upto
  <1> QED
    BY <1>1, <1>2, <1>4, <1>5, <1>6

\* A fresh row: its number is new, its id is in neither table, and no other
\* row of the batch has its number or its id.
LEMMA NewRowsFresh ==
  ASSUME SpoolTypeOK, NEW n \in Nat, NEW batch \in [1 .. n -> Events]
  PROVE  /\ NewRows(batch) \subseteq PendingRow
         /\ \A r \in NewRows(batch) :
               /\ r.seq > lastSequence
               /\ r.seq <= lastSequence + Cardinality(FreshPositions(batch))
               /\ ~Stored(IdOf[r.event])
         /\ \A r, q \in NewRows(batch) :
               r.seq = q.seq \/ IdOf[r.event] = IdOf[q.event] => r = q
         /\ IsFiniteSet(NewRows(batch))
         /\ Cardinality(NewRows(batch)) = Cardinality(FreshPositions(batch))
  <1> DEFINE F == FreshPositions(batch)
             row(i) == NewRow(batch, i)
  <1>1. F \subseteq 1 .. n /\ IsFiniteSet(F) /\ Cardinality(F) \in Nat
    BY FreshFinite
  <1>2. \A i \in F : /\ Rank(batch, i) \in 1 .. Cardinality(F)
                     /\ \A k \in F : i < k => Rank(batch, i) < Rank(batch, k)
    BY RankMonotone
  <1>3. \A i \in F : row(i) = [seq |-> lastSequence + Rank(batch, i), event |-> batch[i],
                               attempts |-> 0, uncertain |-> FALSE]
    BY DEF NewRow, Rank
  <1>4. lastSequence \in Nat
    BY DEF SpoolTypeOK
  <1>5. \A i \in F : i \in Int /\ batch[i] \in Events
    BY <1>1
  <1>6. \A i, k \in F : row(i).seq = row(k).seq => i = k
    <2> SUFFICES ASSUME NEW i \in F, NEW k \in F, i # k
                 PROVE  row(i).seq # row(k).seq
      OBVIOUS
    <2>1. i < k \/ k < i
      BY <1>5
    <2>2. Rank(batch, i) \in Int /\ Rank(batch, k) \in Int
      BY <1>2
    <2>3. Rank(batch, i) # Rank(batch, k)
      BY <1>2, <2>1, <2>2
    <2>4. row(i).seq = lastSequence + Rank(batch, i)
           /\ row(k).seq = lastSequence + Rank(batch, k)
      BY <1>3
    <2> QED
      BY <1>4, <2>2, <2>3, <2>4
  <1>7. \A i, k \in F : IdOf[row(i).event] = IdOf[row(k).event] => i = k
    <2>1. \A i, k \in F : i < k => IdOf[batch[i]] # IdOf[batch[k]]
      BY DEF FreshPositions
    <2> SUFFICES ASSUME NEW i \in F, NEW k \in F, i # k
                 PROVE  IdOf[row(i).event] # IdOf[row(k).event]
      OBVIOUS
    <2>2. i < k \/ k < i
      BY <1>5
    <2>3. row(i).event = batch[i] /\ row(k).event = batch[k]
      BY <1>3
    <2> QED
      BY <2>1, <2>2, <2>3
  <1>8. \A i \in F : /\ row(i) \in PendingRow
                     /\ row(i).seq > lastSequence
                     /\ row(i).seq <= lastSequence + Cardinality(F)
                     /\ ~Stored(IdOf[row(i).event])
    <2> SUFFICES ASSUME NEW i \in F
                 PROVE  /\ row(i) \in PendingRow
                        /\ row(i).seq > lastSequence
                        /\ row(i).seq <= lastSequence + Cardinality(F)
                        /\ ~Stored(IdOf[row(i).event])
      OBVIOUS
    <2>1. ~Stored(IdOf[batch[i]])
      BY DEF FreshPositions
    <2>2. row(i) = [seq |-> lastSequence + Rank(batch, i), event |-> batch[i],
                    attempts |-> 0, uncertain |-> FALSE]
      BY <1>3
    <2>3. Rank(batch, i) \in 1 .. Cardinality(F) /\ batch[i] \in Events
      BY <1>2, <1>5
    <2> HIDE DEF F, row
    <2> QED
      BY <1>1, <1>4, <2>1, <2>2, <2>3 DEF PendingRow
  <1>9. NewRows(batch) = {row(i) : i \in F}
    BY DEF NewRows
  <1>10. IsFiniteSet(NewRows(batch)) /\ Cardinality(NewRows(batch)) = Cardinality(F)
    <2> DEFINE f == [i \in F |-> row(i)]
    <2>1. f \in Bijection(F, NewRows(batch))
      <3> HIDE DEF F, row
      <3>1. f \in [F -> NewRows(batch)]
        BY <1>9
      <3>2. \A i, k \in F : f[i] = f[k] => i = k
        BY <1>6
      <3>3. \A r \in NewRows(batch) : \E i \in F : f[i] = r
        BY <1>9
      <3> QED
        BY <3>1, <3>2, <3>3 DEF Bijection, Injection, Surjection, IsInjective
    <2> QED
      BY <1>1, <2>1, FS_Bijection DEF ExistsBijection
  <1> HIDE DEF F, row
  <1> QED
    BY <1>6, <1>7, <1>8, <1>9, <1>10 DEF F

-----------------------------------------------------------------------------
(* One lemma per operation: it preserves the inductive invariant.          *)

\* Opening a spool recounts the tables.
LEMMA OpenKeepsInv ==
  ASSUME SpoolInv, NEW l \in Limits, OpenSpool(l)
  PROVE  SpoolInv'
  <1> USE DEF SpoolInv
  <1>1. Cardinality(pending) \in Nat /\ Cardinality(deadLetter) \in Nat
    BY FS_CardinalityType DEF TablesFinite
  <1>2. pending' = pending /\ deadLetter' = deadLetter /\ lastSequence' = lastSequence
         /\ lastDeadId' = lastDeadId /\ open' = TRUE /\ limits' = l /\ stats' = Recount
    BY DEF OpenSpool
  <1>3. SpoolTypeOK'
    BY <1>1, <1>2 DEF SpoolTypeOK, Recount, StatsFields
  <1>4. RowCountsExact'
    BY <1>2 DEF RowCountsExact, Recount
  <1> QED
    BY <1>2, <1>3, <1>4 DEF TablesFinite, CountersAhead, OneHome, Overlap

\* enqueue_many adds new rows behind all others.
LEMMA EnqueueKeepsInv ==
  ASSUME SpoolInv, NEW n \in Nat, NEW batch \in [1 .. n -> Events], EnqueueMany(batch)
  PROVE  SpoolInv'
  <1> DEFINE R == NewRows(batch)
             size == Cardinality(FreshPositions(batch))
  <1>1. SpoolTypeOK /\ TablesFinite /\ CountersAhead /\ OneHome /\ RowCountsExact
    BY DEF SpoolInv
  <1>2. /\ R \subseteq PendingRow
        /\ \A r \in R : /\ r.seq > lastSequence /\ r.seq <= lastSequence + size
                        /\ ~Stored(IdOf[r.event])
        /\ \A r, q \in R : r.seq = q.seq \/ IdOf[r.event] = IdOf[q.event] => r = q
        /\ IsFiniteSet(R) /\ Cardinality(R) = size
    BY <1>1, NewRowsFresh
  <1>3. size \in Nat
    BY FreshFinite
  <1>4. /\ pending' = pending \cup R
        /\ lastSequence' = lastSequence + size
        /\ stats' = PendingInserted(R, stats)
        /\ deadLetter' = deadLetter /\ lastDeadId' = lastDeadId
        /\ open' = open /\ limits' = limits
    BY DEF EnqueueMany
  <1> HIDE DEF R, size
  <1>5. SpoolTypeOK'
    BY <1>1, <1>2, <1>3, <1>4 DEF SpoolTypeOK, PendingInserted, StatsFields
  <1>6. TablesFinite'
    BY <1>1, <1>2, <1>4, FS_Union DEF TablesFinite
  <1>7. \A r \in pending \cup R : r.seq \in Nat
    BY <1>1, <1>2 DEF SpoolTypeOK, PendingRow
  <1>8. lastSequence \in Nat /\ \A d \in deadLetter : d.seq \in Nat
    BY <1>1 DEF SpoolTypeOK, DeadRow
  <1>9. CountersAhead'
    BY <1>1, <1>2, <1>3, <1>4, <1>7, <1>8 DEF CountersAhead
  <1>10. OneHome'
    <2>1. ASSUME NEW r \in R, NEW p \in pending
          PROVE  r.seq # p.seq /\ IdOf[r.event] # IdOf[p.event]
      <3>1. r.seq > lastSequence /\ p.seq <= lastSequence /\ r.seq \in Nat /\ p.seq \in Nat
        BY <1>1, <1>2, <1>7 DEF CountersAhead
      <3>2. p.event \in EventsOf(pending)
        BY DEF EventsOf
      <3> QED
        BY <1>2, <1>8, <3>1, <3>2 DEF Stored
    <2>2. ASSUME NEW r \in R, NEW d \in deadLetter
          PROVE  r.seq # d.seq /\ IdOf[r.event] # IdOf[d.event]
      <3>1. r.seq > lastSequence /\ d.seq <= lastSequence /\ r.seq \in Nat /\ d.seq \in Nat
        BY <1>1, <1>2, <1>7, <1>8 DEF CountersAhead
      <3>2. d.event \in EventsOf(deadLetter)
        BY DEF EventsOf
      <3> QED
        BY <1>2, <1>8, <3>1, <3>2 DEF Stored
    <2>3. \A p, q \in pending' : p.seq = q.seq \/ IdOf[p.event] = IdOf[q.event] => p = q
      BY <1>1, <1>2, <1>4, <2>1 DEF OneHome
    <2>4. ~Overlap'
      BY <1>1, <1>4, <2>2 DEF OneHome, Overlap
    <2> QED
      BY <1>1, <1>4, <2>3, <2>4 DEF OneHome
  <1>11. RowCountsExact'
    <2>1. pending \cap R = {}
      BY <1>1, <1>2, <1>7, <1>8 DEF CountersAhead
    <2>2. Cardinality(pending') = Cardinality(pending) + size
      <3>1. Cardinality(pending \cup R) =
              Cardinality(pending) + Cardinality(R) - Cardinality(pending \cap R)
        BY <1>1, <1>2, FS_Union DEF TablesFinite
      <3>2. Cardinality(pending \cap R) = 0
        BY <2>1, FS_EmptySet
      <3>3. Cardinality(pending) \in Nat
        BY <1>1, FS_CardinalityType DEF TablesFinite
      <3> QED
        BY <1>2, <1>3, <1>4, <3>1, <3>2, <3>3
    <2>3. stats'.pendingRows = stats.pendingRows + size /\ stats'.deadRows = stats.deadRows
      BY <1>1, <1>2, <1>4 DEF SpoolTypeOK, PendingInserted, StatsFields
    <2> QED
      BY <1>1, <1>4, <2>2, <2>3 DEF RowCountsExact
  <1> QED
    BY <1>5, <1>6, <1>9, <1>10, <1>11 DEF SpoolInv

\* What deleting rows of a table leaves.
LEMMA DeletedRows ==
  ASSUME NEW T, IsFiniteSet(T), NEW D \in SUBSET T
  PROVE  /\ IsFiniteSet(T \ D) /\ Cardinality(D) \in Nat
         /\ Cardinality(T \ D) = Cardinality(T) - Cardinality(D)
  <1>1. T \cap D = D
    OBVIOUS
  <1>2. IsFiniteSet(D)
    BY FS_Subset
  <1>3. Cardinality(D) \in Nat
    BY <1>2, FS_CardinalityType
  <1>4. IsFiniteSet(T \ D) /\ Cardinality(T \ D) = Cardinality(T) - Cardinality(T \cap D)
    BY FS_Difference
  <1> QED
    BY <1>1, <1>3, <1>4

\* mark_delivered deletes rows.
LEMMA DeliverKeepsInv ==
  ASSUME SpoolInv, NEW seqs, MarkDelivered(seqs)
  PROVE  SpoolInv'
  <1> DEFINE D == RowsAt(seqs)
  <1>1. SpoolTypeOK /\ TablesFinite /\ CountersAhead /\ OneHome /\ RowCountsExact
    BY DEF SpoolInv
  <1>2. /\ pending' = pending \ D /\ stats' = PendingDeleted(D, stats)
        /\ deadLetter' = deadLetter /\ lastDeadId' = lastDeadId
        /\ lastSequence' = lastSequence /\ open' = open /\ limits' = limits
    BY DEF MarkDelivered
  <1>3. D \in SUBSET pending
    BY DEF RowsAt
  <1> HIDE DEF D
  <1>4. /\ IsFiniteSet(pending \ D) /\ Cardinality(D) \in Nat
        /\ Cardinality(pending \ D) = Cardinality(pending) - Cardinality(D)
    BY <1>1, <1>3, DeletedRows DEF TablesFinite
  <1>5. SpoolTypeOK'
    BY <1>1, <1>2, <1>4 DEF SpoolTypeOK, PendingDeleted, StatsFields
  <1>6. TablesFinite' /\ CountersAhead'
    BY <1>1, <1>2, <1>4 DEF TablesFinite, CountersAhead
  <1>7. OneHome'
    BY <1>1, <1>2 DEF OneHome, Overlap
  <1>8. RowCountsExact'
    BY <1>1, <1>2, <1>4 DEF RowCountsExact, SpoolTypeOK, PendingDeleted, StatsFields
  <1> QED
    BY <1>5, <1>6, <1>7, <1>8 DEF SpoolInv

\* One attempt more, and the mark of an uncertain one stays.
LEMMA AttemptedRow ==
  ASSUME NEW r \in PendingRow, NEW uncertain \in BOOLEAN
  PROVE  /\ Attempted(r, uncertain) \in PendingRow
         /\ Attempted(r, uncertain).seq = r.seq
         /\ Attempted(r, uncertain).event = r.event
         /\ Attempted(r, uncertain).attempts = r.attempts + 1
         /\ r.uncertain => Attempted(r, uncertain).uncertain
  <1> DEFINE mark == r.uncertain \/ uncertain
  <1>1. mark \in BOOLEAN
    OBVIOUS
  <1>2. Attempted(r, uncertain)
          = [seq |-> r.seq, event |-> r.event, attempts |-> r.attempts + 1, uncertain |-> mark]
    BY DEF Attempted
  <1>3. r.uncertain => mark
    OBVIOUS
  <1> HIDE DEF mark
  <1>4. r.seq \in Nat /\ r.event \in Events /\ r.attempts + 1 \in Nat
    BY DEF PendingRow
  <1>5. Attempted(r, uncertain) \in PendingRow
    BY <1>1, <1>2, <1>4 DEF PendingRow
  <1>6. /\ Attempted(r, uncertain).seq = r.seq
        /\ Attempted(r, uncertain).event = r.event
        /\ Attempted(r, uncertain).attempts = r.attempts + 1
        /\ Attempted(r, uncertain).uncertain = mark
    BY <1>2
  <1> QED
    BY <1>3, <1>5, <1>6, Zenon

\* Recording an attempt changes no number and no event: the rows before and
\* after it correspond one to one.
LEMMA AttemptKeepsInv ==
  ASSUME SpoolInv, NEW seqs, NEW uncertain \in BOOLEAN, RecordAttempt(seqs, uncertain)
  PROVE  SpoolInv'
  <1> DEFINE after(r) == IF r.seq \in seqs THEN Attempted(r, uncertain) ELSE r
             f == [r \in pending |-> after(r)]
  <1>1. SpoolTypeOK /\ TablesFinite /\ CountersAhead /\ OneHome /\ RowCountsExact
    BY DEF SpoolInv
  <1>2. /\ pending' = {after(r) : r \in pending}
        /\ deadLetter' = deadLetter /\ stats' = stats /\ lastDeadId' = lastDeadId
        /\ lastSequence' = lastSequence /\ open' = open /\ limits' = limits
    BY DEF RecordAttempt
  <1>3. \A r \in pending : /\ after(r) \in PendingRow
                           /\ after(r).seq = r.seq
                           /\ after(r).event = r.event
    BY <1>1, AttemptedRow DEF SpoolTypeOK
  <1> HIDE DEF after
  <1>4. SpoolTypeOK'
    BY <1>1, <1>2, <1>3 DEF SpoolTypeOK
  <1>5. IsFiniteSet(pending') /\ Cardinality(pending') = Cardinality(pending)
    <2>1. f \in [pending -> pending']
      BY <1>2
    <2>2. \A p, q \in pending : f[p] = f[q] => p = q
      BY <1>1, <1>3 DEF OneHome
    <2>3. \A r \in pending' : \E p \in pending : f[p] = r
      BY <1>2
    <2>4. f \in Bijection(pending, pending')
      BY <2>1, <2>2, <2>3 DEF Bijection, Injection, Surjection, IsInjective
    <2> QED
      BY <1>1, <2>4, FS_Bijection DEF ExistsBijection, TablesFinite
  <1>6. TablesFinite' /\ RowCountsExact'
    BY <1>1, <1>2, <1>5 DEF TablesFinite, RowCountsExact
  <1>7. CountersAhead'
    BY <1>1, <1>2, <1>3 DEF CountersAhead
  <1>8. OneHome'
    <2>1. \A p, q \in pending : after(p).seq = after(q).seq
               \/ IdOf[after(p).event] = IdOf[after(q).event] => after(p) = after(q)
      BY <1>1, <1>3 DEF OneHome
    <2>2. ~Overlap'
      BY <1>1, <1>2, <1>3 DEF OneHome, Overlap
    <2> QED
      BY <1>1, <1>2, <2>1, <2>2 DEF OneHome
  <1> QED
    BY <1>4, <1>6, <1>7, <1>8 DEF SpoolInv

\* Burying a row gives its number and its id from one table to the other.
LEMMA BuryKeepsInv ==
  ASSUME SpoolInv, NEW row \in pending, NEW uncertain \in BOOLEAN,
         MoveToDeadLetter(row, uncertain)
  PROVE  SpoolInv'
  <1> DEFINE dead == AsDeadRow(row, uncertain)
             kept == Survivors(row)
             gone == deadLetter \ kept
  <1>1. SpoolTypeOK /\ TablesFinite /\ CountersAhead /\ OneHome /\ RowCountsExact
    BY DEF SpoolInv
  <1>2. /\ deadLetter' = kept \cup {dead} /\ pending' = pending \ {row}
        /\ stats' = PendingDeleted({row}, DeadInserted(dead, DeadDeleted(gone, stats)))
        /\ lastDeadId' = lastDeadId + 1 /\ lastSequence' = lastSequence
        /\ open' = open /\ limits' = limits
    BY DEF MoveToDeadLetter
  <1>3. kept \in SUBSET deadLetter
    BY DEF Survivors
  <1>4. /\ dead \in DeadRow /\ dead.id = lastDeadId + 1
        /\ dead.seq = row.seq /\ dead.event = row.event
    BY <1>1 DEF SpoolTypeOK, AsDeadRow, PendingRow, DeadRow
  <1> HIDE DEF dead, kept
  <1>5. gone \in SUBSET deadLetter /\ kept = deadLetter \ gone
    BY <1>3
  <1> HIDE DEF gone
  <1>6. /\ IsFiniteSet(kept) /\ Cardinality(gone) \in Nat
        /\ Cardinality(kept) = Cardinality(deadLetter) - Cardinality(gone)
    BY <1>1, <1>5, DeletedRows DEF TablesFinite
  <1>7. /\ stats'.pendingRows = stats.pendingRows - 1
        /\ stats'.deadRows = stats.deadRows - Cardinality(gone) + 1
        /\ DOMAIN stats' = StatsFields
    <2>1. Cardinality({row}) = 1
      BY FS_Singleton
    <2> QED
      BY <1>1, <1>2, <2>1
         DEF SpoolTypeOK, StatsFields, PendingDeleted, DeadInserted, DeadDeleted
  <1>8. SpoolTypeOK'
    BY <1>1, <1>2, <1>3, <1>4, <1>6, <1>7 DEF SpoolTypeOK
  <1>9. /\ IsFiniteSet(pending') /\ IsFiniteSet(deadLetter')
        /\ Cardinality(pending') = Cardinality(pending) - 1
        /\ Cardinality(deadLetter') = Cardinality(kept) + 1
    <2>1. dead \notin kept
      BY <1>1, <1>3, <1>4 DEF CountersAhead, SpoolTypeOK, DeadRow
    <2> QED
      BY <1>1, <1>2, <1>6, <2>1, FS_AddElement, FS_RemoveElement DEF TablesFinite
  <1>10. TablesFinite' /\ RowCountsExact'
    BY <1>1, <1>6, <1>7, <1>9 DEF TablesFinite, RowCountsExact, SpoolTypeOK
  <1>11. CountersAhead'
    <2>1. \A d \in deadLetter : d.id \in Nat /\ d.id <= lastDeadId /\ lastDeadId \in Nat
      BY <1>1 DEF CountersAhead, SpoolTypeOK, DeadRow
    <2> QED
      BY <1>1, <1>2, <1>3, <1>4, <2>1 DEF CountersAhead, SpoolTypeOK
  <1>12. OneHome'
    <2>1. \A d \in kept : d.id # dead.id /\ d.seq # dead.seq
                            /\ IdOf[d.event] # IdOf[dead.event]
      <3>1. \A d \in kept : d.id \in Nat /\ d.id <= lastDeadId /\ lastDeadId \in Nat
        BY <1>1, <1>3 DEF CountersAhead, SpoolTypeOK, DeadRow
      <3>2. \A d \in kept : d.id # dead.id
        BY <1>4, <3>1
      <3> QED
        BY <1>1, <1>3, <1>4, <3>2 DEF OneHome, Overlap
    <2>2. \A d, e \in deadLetter' :
             d.id = e.id \/ d.seq = e.seq \/ IdOf[d.event] = IdOf[e.event] => d = e
      BY <1>1, <1>2, <1>3, <2>1 DEF OneHome
    <2>3. \A p \in pending' : p.seq # dead.seq /\ IdOf[p.event] # IdOf[dead.event]
      BY <1>1, <1>2, <1>4 DEF OneHome
    <2>4. ~Overlap'
      BY <1>1, <1>2, <1>3, <2>3 DEF OneHome, Overlap
    <2> QED
      BY <1>1, <1>2, <2>2, <2>4 DEF OneHome
  <1> QED
    BY <1>8, <1>10, <1>11, <1>12 DEF SpoolInv

\* delete_dead_letters deletes rows of the ring.
LEMMA DeleteKeepsInv ==
  ASSUME SpoolInv, NEW seqs, DeleteDeadLetters(seqs)
  PROVE  SpoolInv'
  <1> DEFINE D == {d \in deadLetter : d.seq \in seqs}
  <1>1. SpoolTypeOK /\ TablesFinite /\ CountersAhead /\ OneHome /\ RowCountsExact
    BY DEF SpoolInv
  <1>2. /\ deadLetter' = deadLetter \ D /\ stats' = DeadDeleted(D, stats)
        /\ pending' = pending /\ lastDeadId' = lastDeadId
        /\ lastSequence' = lastSequence /\ open' = open /\ limits' = limits
    BY DEF DeleteDeadLetters
  <1>3. D \in SUBSET deadLetter
    OBVIOUS
  <1> HIDE DEF D
  <1>4. /\ IsFiniteSet(deadLetter \ D) /\ Cardinality(D) \in Nat
        /\ Cardinality(deadLetter \ D) = Cardinality(deadLetter) - Cardinality(D)
    BY <1>1, <1>3, DeletedRows DEF TablesFinite
  <1>5. SpoolTypeOK'
    BY <1>1, <1>2, <1>4 DEF SpoolTypeOK, DeadDeleted, StatsFields
  <1>6. TablesFinite' /\ CountersAhead'
    BY <1>1, <1>2, <1>4 DEF TablesFinite, CountersAhead
  <1>7. OneHome'
    BY <1>1, <1>2 DEF OneHome, Overlap
  <1>8. RowCountsExact'
    BY <1>1, <1>2, <1>4 DEF RowCountsExact, SpoolTypeOK, DeadDeleted, StatsFields
  <1> QED
    BY <1>5, <1>6, <1>7, <1>8 DEF SpoolInv

\* Closing, or being killed, leaves the tables as they are.
LEMMA CloseKeepsInv ==
  ASSUME SpoolInv, CloseSpool
  PROVE  SpoolInv'
  BY DEF SpoolInv, CloseSpool, SpoolTypeOK, TablesFinite, CountersAhead, OneHome, Overlap,
         RowCountsExact

-----------------------------------------------------------------------------
(* Any use of the spool: its methods in any order, with any arguments.  The *)
(* calls of SpoolNext are such a use, and so are those of the worker.       *)

EnqueueAny == \E n \in Nat : \E batch \in [1 .. n -> Events] : EnqueueMany(batch)

DeliverAny == \E seqs \in SUBSET Sequences(pending) : MarkDelivered(seqs)

AttemptAny ==
    \E seqs \in SUBSET Sequences(pending), uncertain \in BOOLEAN :
        RecordAttempt(seqs, uncertain)

DeleteAny == \E seqs \in SUBSET Sequences(deadLetter) : DeleteDeadLetters(seqs)

SpoolCall ==
    EnqueueAny \/ DeliverAny \/ AttemptAny \/ Bury \/ DeleteAny \/ Reopen \/ CloseSpool

SpoolUse == SpoolInit /\ [][SpoolCall]_spoolVars

\* The bounds of SpoolNext only leave calls out.
LEMMA NextIsCall ==
  ASSUME SpoolNext
  PROVE  SpoolCall
  <1>1. CASE Enqueue
    <2>1. PICK batch \in Batches : EnqueueMany(batch)
      BY <1>1 DEF Enqueue
    <2>2. PICK n \in 1 .. MaxBatch : batch \in [1 .. n -> Events]
      BY DEF Batches
    <2>3. n \in Nat
      BY BoundAssumption
    <2> QED
      BY <2>1, <2>2, <2>3 DEF EnqueueAny, SpoolCall
  <1>2. CASE Deliver
    BY <1>2 DEF Deliver, DeliverAny, SpoolCall
  <1>3. CASE Attempt
    BY <1>3 DEF Attempt, AttemptAny, SpoolCall
  <1>4. CASE Delete
    BY <1>4 DEF Delete, DeleteAny, SpoolCall
  <1> QED
    BY <1>1, <1>2, <1>3, <1>4 DEF SpoolNext, SpoolCall

\* The spool under SpoolSpec is one in use.
LEMMA SpecIsUse == SpoolSpec => SpoolUse
  <1>1. [SpoolNext]_spoolVars => [SpoolCall]_spoolVars
    BY NextIsCall
  <1> QED
    BY <1>1, PTL DEF SpoolSpec, SpoolUse

\* A new database file satisfies the invariant.
LEMMA InitSetsInv ==
  ASSUME SpoolInit
  PROVE  SpoolInv
  <1>1. SpoolTypeOK
    <2>1. DOMAIN stats = StatsFields /\ stats.pendingRows = 0 /\ stats.deadRows = 0
      BY DEF SpoolInit, StatsFields
    <2>2. pending \in SUBSET PendingRow /\ deadLetter \in SUBSET DeadRow
      BY Zenon DEF SpoolInit
    <2>3. /\ stats.pendingRows \in Int /\ stats.deadRows \in Int
          /\ lastSequence \in Nat /\ lastDeadId \in Nat
      BY <2>1 DEF SpoolInit
    <2>4. open \in BOOLEAN /\ limits \in Limits
      BY Zenon DEF SpoolInit
    <2> QED
      BY <2>1, <2>2, <2>3, <2>4, Zenon DEF SpoolTypeOK
  <1>2. TablesFinite /\ RowCountsExact
    BY FS_EmptySet DEF SpoolInit, TablesFinite, RowCountsExact
  <1>3. CountersAhead /\ OneHome
    BY DEF SpoolInit, CountersAhead, OneHome, Overlap
  <1> QED
    BY <1>1, <1>2, <1>3 DEF SpoolInv

\* Every call keeps the invariant.
LEMMA CallKeepsInv ==
  ASSUME SpoolInv, [SpoolCall]_spoolVars
  PROVE  SpoolInv'
  <1>1. CASE EnqueueAny
    BY <1>1, EnqueueKeepsInv DEF EnqueueAny
  <1>2. CASE DeliverAny
    BY <1>2, DeliverKeepsInv DEF DeliverAny
  <1>3. CASE AttemptAny
    BY <1>3, AttemptKeepsInv DEF AttemptAny
  <1>4. CASE Bury
    BY <1>4, BuryKeepsInv DEF Bury
  <1>5. CASE DeleteAny
    BY <1>5, DeleteKeepsInv DEF DeleteAny
  <1>6. CASE Reopen
    BY <1>6, OpenKeepsInv DEF Reopen
  <1>7. CASE CloseSpool
    BY <1>7, CloseKeepsInv
  <1>8. CASE UNCHANGED spoolVars
    BY <1>8 DEF SpoolInv, spoolVars, SpoolTypeOK, TablesFinite, CountersAhead, OneHome,
                Overlap, RowCountsExact
  <1> QED
    BY <1>1, <1>2, <1>3, <1>4, <1>5, <1>6, <1>7, <1>8 DEF SpoolCall

\* The inductive invariant holds in every state of a spool in use.
LEMMA UseInvariant == SpoolUse => []SpoolInv
  <1>1. SpoolInit => SpoolInv
    BY InitSetsInv
  <1>2. SpoolInv /\ [SpoolCall]_spoolVars => SpoolInv'
    BY CallKeepsInv
  <1> QED
    BY <1>1, <1>2, PTL DEF SpoolUse

\* So it does under the bounds of SpoolNext.
THEOREM SpoolInvariant == SpoolSpec => []SpoolInv
  BY UseInvariant, SpecIsUse, PTL

\* The tables, the row counters and the open handle keep their types
\* (spool.py, all methods).
THEOREM SpoolTypeCorrect == SpoolSpec => []SpoolTypeOK
  <1>1. SpoolInv => SpoolTypeOK
    BY DEF SpoolInv
  <1> QED
    BY <1>1, SpoolInvariant, PTL

\* An event lives in one row of one table, however the calls follow one
\* another (enqueue_many, move_to_dead_letter): opening never meets an overlap.
THEOREM SpoolOneHome == SpoolSpec => []OneHome
  <1>1. SpoolInv => OneHome
    BY DEF SpoolInv
  <1> QED
    BY <1>1, SpoolInvariant, PTL

\* The row counters of spool_stats equal the sizes of the tables, so the row
\* limits are checked against the truth (the triggers, _reconcile_stats).
THEOREM SpoolRowCounts == SpoolSpec => []RowCountsExact
  <1>1. SpoolInv => RowCountsExact
    BY DEF SpoolInv
  <1> QED
    BY <1>1, SpoolInvariant, PTL

-----------------------------------------------------------------------------
(* Action properties, from the same invariant.                             *)

\* A new row takes its number from the part of the counter that this very
\* step claims (AUTOINCREMENT in enqueue_many); no other step adds a number.
LEMMA UseSequences == SpoolUse => SequencesNeverReissued
  <1> DEFINE Claimed == /\ lastSequence <= lastSequence'
                        /\ \A r \in pending' :
                              \/ r.seq \in Sequences(pending)
                              \/ lastSequence < r.seq /\ r.seq <= lastSequence'
  <1>1. ASSUME SpoolInv, SpoolCall
        PROVE  Claimed
    <2>1. lastSequence \in Nat /\ SpoolTypeOK
      BY <1>1 DEF SpoolInv, SpoolTypeOK
    <2>2. CASE EnqueueAny
      <3>1. PICK n \in Nat : \E batch \in [1 .. n -> Events] : EnqueueMany(batch)
        BY <2>2 DEF EnqueueAny
      <3>2. PICK batch \in [1 .. n -> Events] : EnqueueMany(batch)
        BY <3>1
      <3>3. Cardinality(FreshPositions(batch)) \in Nat
        BY FreshFinite
      <3>4. \A r \in NewRows(batch) :
               /\ r.seq > lastSequence
               /\ r.seq <= lastSequence + Cardinality(FreshPositions(batch))
               /\ r \in PendingRow
        BY <2>1, NewRowsFresh
      <3>5. /\ pending' = pending \cup NewRows(batch)
            /\ lastSequence' = lastSequence + Cardinality(FreshPositions(batch))
        BY <3>2 DEF EnqueueMany
      <3> QED
        BY <2>1, <3>3, <3>4, <3>5 DEF Sequences, PendingRow
    <2>3. CASE AttemptAny
      <3>1. PICK seqs \in SUBSET Sequences(pending), uncertain \in BOOLEAN :
               RecordAttempt(seqs, uncertain)
        BY <2>3 DEF AttemptAny
      <3>2. lastSequence' = lastSequence
        BY <3>1 DEF RecordAttempt
      <3>3. \A r \in pending' : \E p \in pending : r.seq = p.seq
        <4>1. \A p \in pending : Attempted(p, uncertain).seq = p.seq
          BY <2>1, AttemptedRow DEF SpoolTypeOK
        <4> QED
          BY <3>1, <4>1 DEF RecordAttempt
      <3> QED
        BY <2>1, <3>2, <3>3 DEF Sequences
    <2>4. CASE DeliverAny \/ Bury \/ DeleteAny \/ Reopen \/ CloseSpool
      <3>1. pending' \subseteq pending /\ lastSequence' = lastSequence
        BY <2>4 DEF DeliverAny, Bury, DeleteAny, Reopen, CloseSpool, MarkDelivered,
                    MoveToDeadLetter, DeleteDeadLetters, OpenSpool
      <3> QED
        BY <2>1, <3>1 DEF Sequences
    <2> QED
      BY <1>1, <2>2, <2>3, <2>4 DEF SpoolCall
  <1>2. SpoolInv /\ [SpoolCall]_spoolVars => [Claimed]_spoolVars
    BY <1>1
  <1> QED
    BY <1>2, UseInvariant, PTL DEF SpoolUse, SequencesNeverReissued

\* So a caller that holds sequence numbers across other calls addresses the rows
\* it has read or none (enqueue_many).
THEOREM SpoolSequences == SpoolSpec => SequencesNeverReissued
  BY UseSequences, SpecIsUse, PTL

\* A sequence number names one row of the two tables.
LEMMA SameRow ==
  ASSUME OneHome, NEW r \in pending \cup deadLetter, NEW s \in pending \cup deadLetter,
         r.seq = s.seq
  PROVE  r = s
  BY DEF OneHome, Overlap

\* The uncertain-delivery mark and the attempt count of an event never go
\* back (record_attempt, move_to_dead_letter): a duplicate that QuestDB may
\* hold is never reported as a certain delivery later.
LEMMA UseUncertainty == SpoolUse => UncertaintyKept
  <1> DEFINE Onward(r, s) == (r.uncertain => s.uncertain) /\ r.attempts <= s.attempts
             Kept == \A r \in pending \cup deadLetter, s \in pending' \cup deadLetter' :
                        r.seq = s.seq => /\ r.uncertain => s.uncertain
                                         /\ r.attempts <= s.attempts
  <1>1. ASSUME SpoolInv, SpoolCall,
               NEW r \in pending \cup deadLetter, NEW s \in pending' \cup deadLetter',
               r.seq = s.seq
        PROVE  Onward(r, s)
    <2>1. SpoolTypeOK /\ OneHome /\ CountersAhead
      BY <1>1 DEF SpoolInv
    <2>2. r.attempts \in Nat /\ r.seq \in Nat /\ lastSequence \in Nat /\ r.seq <= lastSequence
      BY <2>1 DEF SpoolTypeOK, PendingRow, DeadRow, CountersAhead
    <2>3. CASE s \in pending \cup deadLetter
      <3>1. r = s
        BY <1>1, <2>1, <2>3, SameRow
      <3> QED
        BY <2>2, <3>1
    <2>4. CASE EnqueueAny /\ s \notin pending \cup deadLetter
      <3>1. PICK n \in Nat : \E batch \in [1 .. n -> Events] : EnqueueMany(batch)
        BY <2>4 DEF EnqueueAny
      <3>2. PICK batch \in [1 .. n -> Events] : EnqueueMany(batch)
        BY <3>1
      <3>3. \A q \in NewRows(batch) : q.seq > lastSequence
        BY <2>1, NewRowsFresh
      <3>4. s \in NewRows(batch)
        BY <2>4, <3>2 DEF EnqueueMany
      <3> QED
        BY <1>1, <2>2, <3>3, <3>4
    <2>5. CASE AttemptAny /\ s \notin pending \cup deadLetter
      <3>1. PICK seqs \in SUBSET Sequences(pending), uncertain \in BOOLEAN :
               RecordAttempt(seqs, uncertain)
        BY <2>5 DEF AttemptAny
      <3>2. PICK p \in pending : s = Attempted(p, uncertain)
        BY <2>5, <3>1 DEF RecordAttempt
      <3>3. p \in PendingRow
        BY <2>1 DEF SpoolTypeOK
      <3>4. /\ s.seq = p.seq /\ s.attempts = p.attempts + 1
            /\ p.uncertain => s.uncertain
        BY <3>2, <3>3, AttemptedRow
      <3>5. r = p
        BY <1>1, <2>1, <3>4, SameRow
      <3>6. r.attempts <= s.attempts
        BY <2>2, <3>4, <3>5
      <3> QED
        BY <3>4, <3>5, <3>6, Zenon
    <2>6. CASE Bury /\ s \notin pending \cup deadLetter
      <3>1. PICK row \in pending, uncertain \in BOOLEAN : MoveToDeadLetter(row, uncertain)
        BY <2>6 DEF Bury
      <3>2. s = AsDeadRow(row, uncertain)
        BY <2>6, <3>1 DEF MoveToDeadLetter, Survivors
      <3>3. s.seq = row.seq /\ s.attempts = row.attempts + 1
        BY <3>2 DEF AsDeadRow
      <3>4. row.uncertain => s.uncertain
        BY <3>2 DEF AsDeadRow
      <3>5. r = row
        BY <1>1, <2>1, <3>3, SameRow
      <3>6. r.attempts <= s.attempts
        BY <2>2, <3>3, <3>5
      <3> QED
        BY <3>4, <3>5, <3>6, Zenon
    <2>7. CASE DeliverAny \/ DeleteAny \/ Reopen \/ CloseSpool
      <3>1. pending' \cup deadLetter' \subseteq pending \cup deadLetter
        BY <2>7 DEF DeliverAny, DeleteAny, Reopen, CloseSpool, MarkDelivered, DeleteDeadLetters,
                    OpenSpool
      <3> QED
        BY <2>3, <3>1
    <2> QED
      BY <1>1, <2>3, <2>4, <2>5, <2>6, <2>7 DEF SpoolCall
  <1>2. SpoolInv /\ [SpoolCall]_spoolVars => [Kept]_spoolVars
    BY <1>1
  <1> QED
    BY <1>2, UseInvariant, PTL DEF SpoolUse, UncertaintyKept

\* So in whatever order the attempts, the burials and the deletions come
\* (record_attempt, move_to_dead_letter).
THEOREM SpoolUncertainty == SpoolSpec => UncertaintyKept
  BY UseUncertainty, SpecIsUse, PTL

=============================================================================
