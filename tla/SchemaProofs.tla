---------------------------- MODULE SchemaProofs ----------------------------
(***************************************************************************)
(* Theorems about the schema gate, for every retention, edition and set of *)
(* failures, every number of acts of an operator and every length of the   *)
(* queue of accepted changes.                                              *)
(*                                                                         *)
(* What makes the properties inductive is ValidatedIsDeclared: what a      *)
(* check has seen of the table stays true through the statements of both   *)
(* callers, whoever loses the connection, until somebody else changes the  *)
(* table, which the history variable remembers.                            *)
(***************************************************************************)
EXTENDS Schema, SequenceTheorems, TLAPS

\* A table that passed validation is the declared one until an operator acts.
ValidatedIsDeclared ==
    \A c \in Callers : Validated(c) /\ ~tampered[c] => table = "declared"

SchemaInv == SchemaTypeOK /\ ValidatedIsDeclared /\ TtlSettled

-----------------------------------------------------------------------------
(* The time to live that is left when all accepted changes are applied.    *)

\* The last change accepted is the one that stays.
LEMMA FinalOfAppend ==
  ASSUME queue \in Seq(Days), NEW n \in Days, queue' = Append(queue, n)
  PROVE  queue' \in Seq(Days) /\ FinalTtl' = n
  BY DEF FinalTtl

\* Applying a change changes nothing of that.
LEMMA FinalOfApply ==
  ASSUME queue \in Seq(Days), queue # <<>>, ttl' = Head(queue), queue' = Tail(queue)
  PROVE  /\ queue' \in Seq(Days) /\ ttl' \in Days
         /\ FinalTtl' = FinalTtl
  <1>1. /\ Len(queue) \in Nat /\ Len(queue) > 0
        /\ queue' \in Seq(Days) /\ Len(queue') = Len(queue) - 1
        /\ ttl' = queue[1] /\ ttl' \in Days
    OBVIOUS
  <1>2. CASE Len(queue) = 1
    <2>1. Len(queue') = 0
      BY <1>1, <1>2
    <2>2. queue' = <<>>
      BY <1>1, <2>1, EmptySeq
    <2>3. FinalTtl' = ttl'
      BY <2>2 DEF FinalTtl
    <2>4. FinalTtl = queue[1]
      BY <1>2 DEF FinalTtl
    <2> QED
      BY <1>1, <2>3, <2>4
  <1>3. CASE Len(queue) # 1
    <2>1. Len(queue) - 1 \in 1 .. Len(queue) - 1 /\ Len(queue') # 0
      BY <1>1, <1>3
    <2>2. queue' # <<>>
      BY <2>1
    <2>3. Tail(queue)[Len(queue) - 1] = queue[Len(queue)]
      BY <1>1, <2>1
    <2> QED
      BY <1>1, <2>2, <2>3 DEF FinalTtl
  <1> QED
    BY <1>2, <1>3

-----------------------------------------------------------------------------
(* What a statement does at the server.                                    *)

ServerTypes ==
    /\ table \in {"missing", "declared", "other"} /\ ttl \in Days /\ queue \in Seq(Days)
    /\ edition \in Editions /\ accepted \in BOOLEAN

\* What the statements of a check leave of a declared table.
DeclaredKept ==
    table = "declared" => table' = "declared" /\ FinalTtl' \in {FinalTtl, retention}

\* A step that leaves the server alone keeps what is declared.
LEMMA ServerUnchanged ==
  ASSUME ServerTypes, UNCHANGED server
  PROVE  ServerTypes' /\ DeclaredKept
  BY DEF ServerTypes, server, DeclaredKept, FinalTtl

\* CREATE TABLE IF NOT EXISTS declares a missing table and no other.
LEMMA CreateKeeps ==
  ASSUME ServerTypes, Create
  PROVE  ServerTypes' /\ DeclaredKept
  <1>1. CASE table = "missing"
    BY <1>1, SchemaAssumption DEF Create, ServerTypes, DeclaredKept
  <1>2. CASE table # "missing"
    BY <1>2, ServerUnchanged DEF Create
  <1> QED
    BY <1>1, <1>2

\* ALTER TABLE SET TTL keeps the table, and its last TTL is the configured one.
LEMMA AlterKeeps ==
  ASSUME ServerTypes, retention \in Days, Alter
  PROVE  /\ ServerTypes' /\ DeclaredKept
         /\ table # "missing" /\ TtlSupported => FinalTtl' = retention
  <1>1. CASE table # "missing" /\ TtlSupported
    <2>1. /\ queue' = Append(queue, retention)
          /\ UNCHANGED <<table, ttl, edition, accepted>>
      BY <1>1 DEF Alter
    <2>2. queue' \in Seq(Days) /\ FinalTtl' = retention
      BY <2>1, FinalOfAppend DEF ServerTypes
    <2> QED
      BY <2>1, <2>2 DEF ServerTypes, DeclaredKept
  <1>2. CASE ~(table # "missing" /\ TtlSupported)
    <2>1. UNCHANGED server
      BY <1>2 DEF Alter
    <2> QED
      BY <1>2, <2>1, ServerUnchanged
  <1> QED
    BY <1>1, <1>2

\* No statement of the schema manager undoes a declaration.
LEMMA EffectKeeps ==
  ASSUME ServerTypes, retention \in Days, NEW c \in Callers, Effect(c)
  PROVE  ServerTypes' /\ DeclaredKept
  <1>1. CASE pc[c] = "create"
    BY <1>1, CreateKeeps DEF Effect
  <1>2. CASE pc[c] = "alter"
    BY <1>2, AlterKeeps DEF Effect
  <1>3. CASE pc[c] # "create" /\ pc[c] # "alter"
    BY <1>3, ServerUnchanged DEF Effect
  <1> QED
    BY <1>1, <1>2, <1>3

-----------------------------------------------------------------------------
(* Types.                                                                  *)

Places == Statements \cup {"idle", "retry", "blocked", "dead", "skipped", "ready", "ended",
                           "done"}

ConnectionTypes ==
    /\ conn \in {None, "open", "stale"} /\ busy \in Callers \cup {None}
    /\ pc \in [Callers -> Places] /\ sent \in [Callers -> BOOLEAN]
    /\ busy # None => sent[busy] /\ conn # None

RestTypes ==
    /\ retention \in Days
    /\ ttlRejected \in BOOLEAN /\ stopping \in BOOLEAN /\ stray \in BOOLEAN
    /\ tampered \in [Callers -> BOOLEAN] /\ lagged \in [Callers -> BOOLEAN]
    /\ faults \in Nat /\ acts \in Nat

\* The type invariant, in groups of variables that change together.
LEMMA TypesGrouped ==
  /\ SchemaTypeOK <=> ServerTypes /\ ConnectionTypes /\ RestTypes
  /\ SchemaTypeOK' <=> ServerTypes' /\ ConnectionTypes' /\ RestTypes'
  BY DEF SchemaTypeOK, ServerTypes, ConnectionTypes, RestTypes, Places

\* Where a caller goes on is a place, and the other caller stays where it is.
LEMMA ProceedsTypes ==
  ASSUME ConnectionTypes, NEW c \in Callers, NEW outcome \in Places, Proceeds(c, outcome)
  PROVE  /\ pc' \in [Callers -> Places] /\ sent' \in [Callers -> BOOLEAN]
         /\ pc'[c] = After(c, outcome) /\ After(c, outcome) \in {outcome, "skipped"}
         /\ \A d \in Callers \ {c} : pc'[d] = pc[d] /\ sent'[d] = sent[d]
  <1>1. After(c, outcome) \in {outcome, "skipped"} /\ After(c, outcome) \in Places
    BY DEF After, Places
  <1> QED
    BY <1>1 DEF Proceeds, ConnectionTypes

\* A new service has no connection and nobody waiting on it.
LEMMA NewServiceTypes ==
  ASSUME RestTypes, NewService
  PROVE  /\ ConnectionTypes'
         /\ ttlRejected' \in BOOLEAN /\ stopping' \in BOOLEAN
         /\ tampered' \in [Callers -> BOOLEAN] /\ lagged' \in [Callers -> BOOLEAN]
         /\ \A c \in Callers : ~Validated(c)'
  <1>1. /\ pc' = [gate |-> "create", flush |-> "idle"]
        /\ pc' \in [Callers -> Places]
        /\ \A c \in Callers : pc'[c] \in {"create", "idle"}
    BY DEF NewService, Callers, Places, Statements
  <1> QED
    BY <1>1 DEF NewService, ConnectionTypes, Validated

\* What a step leaves alone keeps its type.
LEMMA TypesFramed ==
  /\ ServerTypes /\ UNCHANGED server => ServerTypes'
  /\ ConnectionTypes /\ UNCHANGED <<conn, busy, pc, sent>> => ConnectionTypes'
  /\ RestTypes /\ UNCHANGED <<manager, history, bounds>> => RestTypes'
  BY DEF ServerTypes, ConnectionTypes, RestTypes, server, manager, history, bounds

\* The ways a statement of a caller ends.
LEMMA ClosedTypes ==
  ASSUME ConnectionTypes, NEW c \in Callers, NEW outcome \in Places, Closed,
         Proceeds(c, outcome)
  PROVE  ConnectionTypes'
  BY ProceedsTypes DEF Closed, ConnectionTypes

\* An answer moves one caller on.
LEMMA AnsweredTypes ==
  ASSUME ConnectionTypes, NEW c \in Callers, NEW outcome \in Places, Answered(c, outcome)
  PROVE  ConnectionTypes'
  BY ProceedsTypes DEF Answered, ConnectionTypes, Callers, None

\* A refused TTL settles the check either way, and stays remembered.
LEMMA RefusedTypes ==
  ASSUME ConnectionTypes, ttlRejected \in BOOLEAN, NEW c \in Callers, Refused(c)
  PROVE  /\ ConnectionTypes' /\ ttlRejected' \in BOOLEAN
         /\ ttlRejected => ttlRejected'
         /\ \E outcome \in {"ready", "blocked"} :
               Answered(c, outcome) /\ (outcome = "ready" => ttlRejected')
  <1>1. {"ready", "blocked"} \subseteq Places
    BY DEF Places
  <1>2. \E outcome \in {"ready", "blocked"} :
          /\ Answered(c, outcome) /\ ttlRejected' \in BOOLEAN
          /\ ttlRejected => ttlRejected'
          /\ outcome = "ready" => ttlRejected'
    BY DEF Refused
  <1> QED
    BY <1>1, <1>2, AnsweredTypes

-----------------------------------------------------------------------------
(* The steps of a check.                                                   *)

\* A step that keeps a declared table declared can only break the promise of
\* the caller that takes it.
LEMMA OneCallerMoves ==
  ASSUME SchemaInv, NEW c \in Callers, DeclaredKept,
         retention' = retention, ttlRejected => ttlRejected',
         \A d \in Callers \ {c} :
            pc'[d] = pc[d] /\ tampered'[d] = tampered[d] /\ lagged'[d] = lagged[d],
         Validated(c)' /\ ~tampered'[c] => table' = "declared",
         pc'[c] = "ready" /\ ~tampered'[c] /\ ~lagged'[c]
            => ttlRejected' \/ FinalTtl' = retention
  PROVE  ValidatedIsDeclared' /\ TtlSettled'
  <1>1. ASSUME NEW d \in Callers \ {c}
        PROVE  /\ Validated(d)' /\ ~tampered'[d] => table' = "declared"
               /\ pc'[d] = "ready" /\ ~tampered'[d] /\ ~lagged'[d]
                    => ttlRejected' \/ FinalTtl' = retention'
    <2>1. Validated(d) /\ ~tampered[d] => table = "declared"
      BY DEF SchemaInv, ValidatedIsDeclared
    <2>2. pc[d] = "ready" => Validated(d)
      BY DEF Validated
    <2>3. Validated(d)' <=> Validated(d)
      BY DEF Validated
    <2>4. pc[d] = "ready" /\ ~tampered[d] /\ ~lagged[d] => ttlRejected \/ FinalTtl = retention
      BY DEF SchemaInv, TtlSettled
    <2> QED
      BY <2>1, <2>2, <2>3, <2>4 DEF DeclaredKept
  <1> QED
    BY <1>1 DEF ValidatedIsDeclared, TtlSettled

\* Where the check is not past its validation, nothing is promised.
LEMMA CallerFallsBack ==
  ASSUME SchemaInv, NEW c \in Callers, ServerTypes' /\ DeclaredKept,
         NEW outcome \in {"retry", "blocked", "dead", "show"}, Proceeds(c, outcome),
         ConnectionTypes', RestTypes',
         UNCHANGED <<manager, history>>
  PROVE  SchemaInv'
  <1>1. ConnectionTypes /\ outcome \in Places
    BY TypesGrouped DEF SchemaInv, Places, Statements
  <1>2. /\ pc'[c] \in {"retry", "blocked", "dead", "show", "skipped"}
        /\ \A d \in Callers \ {c} : pc'[d] = pc[d]
    BY <1>1, ProceedsTypes
  <1>3. ~Validated(c)' /\ pc'[c] # "ready"
    BY <1>2 DEF Validated
  <1>4. ValidatedIsDeclared' /\ TtlSettled'
    BY <1>2, <1>3, OneCallerMoves DEF manager, history
  <1> QED
    BY <1>4, TypesGrouped DEF SchemaInv

\* Every step of a check, with every way its request can fail, keeps the
\* invariant.
LEMMA CheckKeeps ==
  ASSUME SchemaInv, NEW c \in Callers,
         CheckStep(c) \/ Lost(c) \/ TurnedAway(c) \/ Garbage(c) \/ Malformed(c)
  PROVE  SchemaInv'
  <1> USE DEF SchemaInv
  <1>1. ServerTypes /\ ConnectionTypes /\ RestTypes
    BY TypesGrouped
  <1>2. {"retry", "blocked", "dead", "show", "ready", "read", "alter"} \subseteq Places
    BY DEF Places, Statements
  <1>3. retention \in Days /\ faults \in Nat
    BY <1>1 DEF RestTypes
  <1>4. Effect(c) \/ UNCHANGED server => ServerTypes' /\ DeclaredKept
    BY <1>1, <1>3, EffectKeeps, ServerUnchanged
  <1>5. ASSUME NEW kind, Fault(kind), UNCHANGED <<manager, history, acts>>
        PROVE  RestTypes'
    BY <1>1, <1>5 DEF Fault, RestTypes, manager, history
  <1>6. CASE Request(c)
    <2>1. UNCHANGED <<server, manager, history, bounds>>
      BY <1>6 DEF Request
    <2>2. ServerTypes' /\ DeclaredKept /\ RestTypes'
      BY <1>1, <2>1, ServerUnchanged, TypesFramed
    <2>3. CASE /\ busy = None /\ conn' = (IF conn = None THEN "open" ELSE conn)
               /\ busy' = c /\ sent' = [sent EXCEPT ![c] = TRUE] /\ UNCHANGED pc
      <3>1. ConnectionTypes'
        BY <1>1, <2>3 DEF ConnectionTypes, None
      <3>2. ValidatedIsDeclared' /\ TtlSettled'
        BY <2>1, <2>3 DEF ValidatedIsDeclared, TtlSettled, Validated, FinalTtl, server,
           manager, history
      <3> QED
        BY <2>2, <3>1, <3>2, TypesGrouped
    <2>4. CASE Closed /\ Proceeds(c, "retry")
      <3>1. ConnectionTypes'
        BY <1>1, <1>2, <2>4, ClosedTypes
      <3> QED
        BY <2>1, <2>2, <2>4, <3>1, CallerFallsBack
    <2> QED
      BY <1>6, <2>3, <2>4 DEF Request
  <1>7. CASE Broken(c)
    <2>1. /\ Effect(c) \/ UNCHANGED server
          /\ Closed /\ Proceeds(c, "retry") /\ UNCHANGED <<manager, history, bounds>>
      BY <1>7 DEF Broken
    <2>2. ConnectionTypes' /\ RestTypes'
      BY <1>1, <1>2, <2>1, ClosedTypes, TypesFramed
    <2> QED
      BY <1>4, <2>1, <2>2, CallerFallsBack
  <1>8. CASE Lost(c)
    <2>1. /\ Effect(c) \/ UNCHANGED server
          /\ Fault("lost")
          /\ Closed /\ Proceeds(c, "retry") /\ UNCHANGED <<manager, history, acts>>
      BY <1>8 DEF Lost
    <2>2. ConnectionTypes' /\ RestTypes'
      BY <1>1, <1>2, <1>5, <2>1, ClosedTypes
    <2> QED
      BY <1>4, <2>1, <2>2, CallerFallsBack
  <1>9. CASE TurnedAway(c)
    <2>1. /\ Fault("busy") /\ Answered(c, "retry") /\ UNCHANGED <<server, manager, history, acts>>
      BY <1>9 DEF TurnedAway, Answered
    <2>2. ConnectionTypes' /\ RestTypes' /\ Proceeds(c, "retry")
      BY <1>1, <1>2, <1>5, <2>1, AnsweredTypes DEF Answered
    <2> QED
      BY <1>4, <2>1, <2>2, CallerFallsBack
  <1>10. CASE Malformed(c)
    <2>1. /\ Fault("malformed") /\ Answered(c, "dead")
          /\ UNCHANGED <<server, manager, history, acts>>
      BY <1>10 DEF Malformed
    <2>2. ConnectionTypes' /\ RestTypes' /\ Proceeds(c, "dead")
      BY <1>1, <1>2, <1>5, <2>1, AnsweredTypes DEF Answered
    <2> QED
      BY <1>4, <2>1, <2>2, CallerFallsBack
  \* Credentials or an answer that make a permanent error.
  <1>11. ASSUME Refused(c), UNCHANGED <<server, retention, stopping, history>>,
                faults' \in Nat, acts' \in Nat
         PROVE  SchemaInv'
    <2>1. ServerTypes' /\ DeclaredKept
      BY <1>4, <1>11
    <2>2. /\ ConnectionTypes' /\ ttlRejected' \in BOOLEAN /\ (ttlRejected => ttlRejected')
          /\ \E outcome \in {"ready", "blocked"} :
               Answered(c, outcome) /\ (outcome = "ready" => ttlRejected')
      BY <1>1, <1>11, RefusedTypes DEF RestTypes
    <2>3. RestTypes'
      BY <1>1, <1>11, <2>2 DEF RestTypes, history
    <2>4. PICK outcome \in {"ready", "blocked"} :
            Answered(c, outcome) /\ (outcome = "ready" => ttlRejected')
      BY <2>2
    <2>5. /\ pc'[c] \in {"ready", "blocked", "skipped"} /\ (pc'[c] = "ready" => ttlRejected')
          /\ \A d \in Callers \ {c} : pc'[d] = pc[d]
      BY <1>1, <1>2, <2>4, ProceedsTypes DEF Answered
    <2>6. pc'[c] = "ready" => Validated(c)
      <3>1. CASE pc[c] = "alter"
        BY <3>1 DEF Validated
      <3>2. CASE pc[c] # "alter"
        <4>1. Proceeds(c, "blocked")
          BY <1>11, <3>2 DEF Refused, Answered
        <4>2. pc'[c] \in {"blocked", "skipped"}
          BY <1>1, <1>2, <4>1, ProceedsTypes
        <4> QED
          BY <4>2
      <3> QED
        BY <3>1, <3>2
    <2>7. Validated(c)' /\ ~tampered'[c] => table' = "declared"
      BY <1>11, <2>5, <2>6 DEF Validated, ValidatedIsDeclared, server, history
    <2>8. ValidatedIsDeclared' /\ TtlSettled'
      BY <1>11, <2>1, <2>2, <2>5, <2>7, OneCallerMoves DEF history
    <2> QED
      BY <2>1, <2>2, <2>3, <2>8, TypesGrouped
  <1>12. CASE CredentialsRejected(c)
    BY <1>1, <1>11, <1>12 DEF CredentialsRejected, RestTypes, bounds
  <1>13. CASE Garbage(c)
    <2>1. faults' \in Nat /\ acts' \in Nat
      BY <1>1, <1>13 DEF Garbage, Fault, RestTypes
    <2> QED
      BY <1>11, <1>13, <2>1 DEF Garbage
  <1>14. CASE CreateAnswered(c)
    <2>1. Create /\ Answered(c, "show") /\ UNCHANGED <<manager, history, bounds>>
      BY <1>14 DEF CreateAnswered
    <2>2. ServerTypes' /\ DeclaredKept
      BY <1>1, <2>1, CreateKeeps
    <2>3. ConnectionTypes' /\ RestTypes' /\ Proceeds(c, "show")
      BY <1>1, <1>2, <2>1, AnsweredTypes, TypesFramed DEF Answered
    <2> QED
      BY <2>1, <2>2, <2>3, CallerFallsBack
  <1>15. CASE ShowAnswered(c)
    <2>1. UNCHANGED <<server, manager, stray, lagged, bounds>>
      BY <1>15 DEF ShowAnswered
    <2>2. ServerTypes' /\ DeclaredKept
      BY <1>4, <2>1
    <2>3. ASSUME NEW outcome \in {"retry", "blocked"}, Answered(c, outcome), UNCHANGED tampered
          PROVE  SchemaInv'
      <3>1. ConnectionTypes' /\ RestTypes' /\ Proceeds(c, outcome)
        BY <1>1, <1>2, <2>1, <2>3, AnsweredTypes, TypesFramed DEF Answered, history
      <3> QED
        BY <2>1, <2>2, <2>3, <3>1, CallerFallsBack DEF history
    <2>4. CASE /\ table # "missing" /\ ~Mismatch
               /\ Answered(c, AfterValidation)
               /\ tampered' = [tampered EXCEPT ![c] = FALSE]
      <3>1. /\ AfterValidation \in {"ready", "read"}
            /\ AfterValidation = "ready" => ttlRejected
        BY DEF AfterValidation
      <3>2. /\ pc'[c] \in {AfterValidation, "skipped"}
            /\ \A d \in Callers \ {c} : pc'[d] = pc[d]
        BY <1>1, <1>2, <2>4, <3>1, ProceedsTypes DEF Answered
      <3>3. table' = "declared"
        BY <1>1, <2>1, <2>4 DEF Mismatch, ServerTypes, server
      <3>4. ConnectionTypes'
        BY <1>1, <1>2, <2>4, <3>1, AnsweredTypes
      <3>5. RestTypes'
        BY <1>1, <2>1, <2>4 DEF RestTypes, manager, bounds
      <3>6. \A d \in Callers \ {c} : tampered'[d] = tampered[d] /\ lagged'[d] = lagged[d]
        BY <1>1, <2>1, <2>4 DEF RestTypes
      <3>7. pc'[c] = "ready" => ttlRejected'
        BY <2>1, <3>1, <3>2 DEF manager
      <3>8. ValidatedIsDeclared' /\ TtlSettled'
        BY <2>1, <2>2, <3>2, <3>3, <3>6, <3>7, OneCallerMoves DEF manager
      <3> QED
        BY <2>2, <3>4, <3>5, <3>8, TypesGrouped
    <2> QED
      BY <1>15, <2>3, <2>4 DEF ShowAnswered, MissingAtShow
  <1>16. CASE ReadAnswered(c)
    <2>1. /\ UNCHANGED <<server, manager, stray, tampered, bounds>>
          /\ lagged' = [lagged EXCEPT ![c] = queue # <<>>] /\ pc[c] = "read"
      BY <1>16 DEF ReadAnswered
    <2>2. ServerTypes' /\ DeclaredKept
      BY <1>4, <2>1
    <2>3. PICK outcome \in {"dead", "alter", "ready"} :
            Answered(c, outcome) /\ (outcome = "ready" => ~Differs)
      BY <1>16 DEF ReadAnswered
    <2>4. /\ pc'[c] \in {outcome, "skipped"}
          /\ \A d \in Callers \ {c} : pc'[d] = pc[d]
      BY <1>1, <1>2, <2>3, ProceedsTypes DEF Answered
    <2>5. ConnectionTypes'
      BY <1>1, <1>2, <2>3, AnsweredTypes
    <2>6. RestTypes'
      BY <1>1, <2>1 DEF RestTypes, manager, bounds
    <2>7. \A d \in Callers \ {c} : tampered'[d] = tampered[d] /\ lagged'[d] = lagged[d]
      BY <1>1, <2>1 DEF RestTypes
    <2>8. ~tampered'[c] => table' = "declared"
      BY <2>1 DEF ValidatedIsDeclared, Validated, server
    <2>9. pc'[c] = "ready" /\ ~lagged'[c] => FinalTtl' = retention
      <3> SUFFICES ASSUME pc'[c] = "ready", ~lagged'[c] PROVE FinalTtl' = retention
        OBVIOUS
      <3>1. ttl = retention
        BY <2>3, <2>4 DEF Differs
      <3>2. queue = <<>>
        BY <1>1, <2>1 DEF RestTypes
      <3> QED
        BY <2>1, <3>1, <3>2 DEF FinalTtl, server
    <2>10. ValidatedIsDeclared' /\ TtlSettled'
      BY <2>1, <2>2, <2>4, <2>7, <2>8, <2>9, OneCallerMoves DEF manager
    <2> QED
      BY <2>2, <2>5, <2>6, <2>10, TypesGrouped
  <1>17. CASE AlterAnswered(c)
    <2>1. UNCHANGED <<retention, stopping, history, bounds>> /\ pc[c] = "alter"
      BY <1>17 DEF AlterAnswered
    <2>2. CASE Refused(c) /\ UNCHANGED server
      BY <1>1, <1>11, <2>1, <2>2 DEF RestTypes, bounds
    <2>3. CASE /\ table # "missing" /\ TtlSupported /\ Alter
               /\ Answered(c, "ready") /\ UNCHANGED ttlRejected
      <3>1. ServerTypes' /\ DeclaredKept /\ FinalTtl' = retention
        BY <1>1, <1>3, <2>3, AlterKeeps
      <3>2. ConnectionTypes' /\ RestTypes'
        BY <1>1, <1>2, <2>1, <2>3, AnsweredTypes DEF RestTypes, history, bounds
      <3>3. \A d \in Callers \ {c} : pc'[d] = pc[d]
        BY <1>1, <1>2, <2>3, ProceedsTypes DEF Answered
      <3>4. ~tampered'[c] => table' = "declared"
        BY <2>1, <3>1 DEF ValidatedIsDeclared, Validated, DeclaredKept, history
      <3>5. ValidatedIsDeclared' /\ TtlSettled'
        BY <2>1, <2>3, <3>1, <3>3, <3>4, OneCallerMoves DEF history
      <3> QED
        BY <3>1, <3>2, <3>5, TypesGrouped
    <2> QED
      BY <1>17, <2>2, <2>3 DEF AlterAnswered
  <1> QED
    BY <1>6, <1>7, <1>8, <1>9, <1>10, <1>12, <1>13, <1>14, <1>15, <1>16, <1>17 DEF CheckStep

-----------------------------------------------------------------------------
(* The other steps.                                                        *)

\* What an operator does to the table is remembered of every caller that has
\* validated it.
LEMMA TampersKeeps ==
  ASSUME SchemaInv, NEW kind, Tampers(kind), ServerTypes'
  PROVE  SchemaInv'
  <1>1. ConnectionTypes /\ RestTypes
    BY TypesGrouped DEF SchemaInv
  <1>2. /\ tampered' = [c \in Callers |-> tampered[c] \/ Validated(c)]
        /\ UNCHANGED <<conn, busy, pc, sent, manager, stray, lagged, faults>>
        /\ acts' \in Nat
    BY <1>1 DEF Tampers, Act, RestTypes
  <1>3. ConnectionTypes' /\ RestTypes'
    <2>1. tampered' \in [Callers -> BOOLEAN]
      BY <1>1, <1>2 DEF RestTypes, Validated
    <2> QED
      BY <1>1, <1>2, <2>1 DEF ConnectionTypes, RestTypes, manager
  <1>4. \A c \in Callers : Validated(c)' => tampered'[c]
    BY <1>2 DEF Validated
  <1>5. \A c \in Callers : pc'[c] = "ready" => Validated(c)'
    BY DEF Validated
  <1> QED
    BY <1>3, <1>4, <1>5, TypesGrouped DEF SchemaInv, ValidatedIsDeclared, TtlSettled

\* A step that leaves alone what the promises are about, or takes a caller to a
\* place where there are none.
LEMMA NothingPromised ==
  ASSUME SchemaInv, SchemaTypeOK', UNCHANGED <<table, ttl, queue, tampered, lagged, retention>>,
         ttlRejected' = ttlRejected,
         \A c \in Callers : pc'[c] = pc[c] \/ ~Validated(c)'
  PROVE  SchemaInv'
  <1>1. \A c \in Callers : Validated(c)' => pc'[c] = pc[c] /\ Validated(c)
    BY DEF Validated
  <1>2. \A c \in Callers : pc'[c] = "ready" => Validated(c)'
    BY DEF Validated
  <1> QED
    BY <1>1, <1>2 DEF SchemaInv, ValidatedIsDeclared, TtlSettled, FinalTtl

\* So do the server, the operator and the end of the worker.
LEMMA OtherStepsKeep ==
  ASSUME SchemaInv,
         \/ \E c \in Callers : Deliver(c)
         \/ ServerCloses \/ ApplyTtl \/ Recheck \/ Stop \/ GateEnds \/ FlushBegins
         \/ Reload \/ Kill \/ Drop \/ Replace \/ SetTtl \/ ChangeCredentials
         \/ UNCHANGED vars
  PROVE  SchemaInv'
  <1>1. ServerTypes /\ ConnectionTypes /\ RestTypes /\ retention \in Days
    BY TypesGrouped DEF SchemaInv, RestTypes
  <1>2. ASSUME NEW c \in Callers, Deliver(c)
        PROVE  SchemaInv'
    <2>1. /\ UNCHANGED <<ttl, queue, edition, accepted, conn, busy, sent, manager, tampered,
                        lagged, bounds>>
          /\ pc[c] = "ready"
          /\ \/ table # "declared" /\ table' = "other" /\ stray' = TRUE
             \/ UNCHANGED <<table, stray>>
          /\ pc' = IF c = "flush" THEN [pc EXCEPT ![c] = "done"] ELSE pc
      BY <1>1, <1>2 DEF Deliver, ServerTypes
    <2>2. /\ pc' \in [Callers -> Places] /\ pc'[c] \in {"ready", "done"}
          /\ \A d \in Callers \ {c} : pc'[d] = pc[d]
      BY <1>1, <2>1 DEF ConnectionTypes, Places
    <2>3. ServerTypes' /\ ConnectionTypes' /\ RestTypes'
      <3>1. table' \in {"missing", "declared", "other"} /\ stray' \in BOOLEAN
        BY <1>1, <2>1 DEF ServerTypes, RestTypes
      <3> QED
        BY <1>1, <2>1, <2>2, <3>1 DEF ServerTypes, ConnectionTypes, RestTypes, manager, bounds
    <2>4. DeclaredKept
      BY <2>1 DEF DeclaredKept, FinalTtl
    <2>5. ~tampered'[c] => table' = "declared"
      BY <2>1 DEF SchemaInv, ValidatedIsDeclared, Validated
    <2>6. pc'[c] = "ready" /\ ~tampered'[c] /\ ~lagged'[c]
             => ttlRejected' \/ FinalTtl' = retention
      BY <2>1 DEF SchemaInv, TtlSettled, FinalTtl, manager
    <2>7. ValidatedIsDeclared' /\ TtlSettled'
      BY <2>1, <2>2, <2>4, <2>5, <2>6, OneCallerMoves DEF manager
    <2> QED
      BY <2>3, <2>7, TypesGrouped DEF SchemaInv
  <1>3. CASE ServerCloses
    <2>1. ConnectionTypes' /\ RestTypes' /\ ServerTypes'
      BY <1>1, <1>3 DEF ServerCloses, Fault, ConnectionTypes, RestTypes, ServerTypes, server,
         manager, history
    <2> QED
      BY <1>3, <2>1, NothingPromised, TypesGrouped DEF ServerCloses, server, manager, history
  <1>4. CASE ApplyTtl
    <2>1. /\ UNCHANGED <<table, edition, accepted, conn, busy, pc, sent, manager, history,
                         bounds>>
          /\ queue' \in Seq(Days) /\ ttl' \in Days /\ FinalTtl' = FinalTtl
      BY <1>1, <1>4, FinalOfApply DEF ApplyTtl, ServerTypes
    <2>2. ServerTypes' /\ ConnectionTypes' /\ RestTypes'
      BY <1>1, <2>1, TypesFramed DEF ServerTypes
    <2>3. ValidatedIsDeclared' /\ TtlSettled'
      BY <2>1 DEF SchemaInv, ValidatedIsDeclared, TtlSettled, Validated, manager, history
    <2> QED
      BY <2>2, <2>3, TypesGrouped DEF SchemaInv
  \* A caller goes to another place by itself.
  <1>5. ASSUME NEW c \in Callers, NEW place \in {"create", "ended"},
               pc' = [pc EXCEPT ![c] = place],
               UNCHANGED <<server, conn, busy, sent, manager, history, bounds>>
        PROVE  SchemaInv'
    <2>1. pc' \in [Callers -> Places] /\ ~Validated(c)'
          /\ \A d \in Callers \ {c} : pc'[d] = pc[d]
      BY <1>1, <1>5 DEF ConnectionTypes, Places, Statements, Validated
    <2>2. ConnectionTypes' /\ RestTypes' /\ ServerTypes'
      BY <1>1, <1>5, <2>1, TypesFramed DEF ConnectionTypes
    <2> QED
      BY <1>5, <2>1, <2>2, NothingPromised, TypesGrouped DEF server, manager, history
  <1>6. CASE Recheck
    BY <1>5, <1>6 DEF Recheck, Callers
  <1>7. CASE GateEnds
    BY <1>5, <1>7 DEF GateEnds, Callers
  <1>8. CASE FlushBegins
    BY <1>5, <1>8 DEF FlushBegins, Callers
  <1>9. CASE Stop
    <2>1. ConnectionTypes' /\ RestTypes' /\ ServerTypes'
      BY <1>1, <1>9 DEF Stop, ConnectionTypes, RestTypes, ServerTypes, server, history, bounds
    <2> QED
      BY <1>9, <2>1, NothingPromised, TypesGrouped DEF Stop, server, history
  \* Both start with no promise.
  <1>10. ASSUME NewService, ServerTypes', retention' \in Days, stray' = stray,
                faults' \in Nat, acts' \in Nat
         PROVE  SchemaInv'
    <2>1. ConnectionTypes' /\ RestTypes' /\ \A c \in Callers : ~Validated(c)'
      BY <1>1, <1>10, NewServiceTypes DEF RestTypes
    <2>2. \A c \in Callers : pc'[c] # "ready"
      BY <2>1 DEF Validated
    <2> QED
      BY <1>10, <2>1, <2>2, TypesGrouped DEF SchemaInv, ValidatedIsDeclared, TtlSettled
  <1>11. CASE Reload
    <2>1. ServerTypes'
      BY <1>1, <1>11, TypesFramed DEF Reload
    <2>2. faults' \in Nat /\ acts' \in Nat
      BY <1>1, <1>11 DEF Reload, RestTypes
    <2> QED
      BY <1>10, <1>11, <2>1, <2>2 DEF Reload
  <1>12. CASE Kill
    <2>1. ServerTypes'
      BY <1>1, <1>12, EffectKeeps, ServerUnchanged DEF Kill
    <2>2. faults' \in Nat /\ acts' \in Nat
      BY <1>1, <1>12 DEF Kill, Fault, RestTypes
    <2> QED
      BY <1>1, <1>10, <1>12, <2>1, <2>2 DEF Kill
  <1>13. CASE Drop
    <2>1. ServerTypes'
      BY <1>1, <1>13, SchemaAssumption DEF Drop, Tampers, ServerTypes
    <2> QED
      BY <1>13, <2>1, TampersKeeps DEF Drop
  <1>14. CASE Replace
    <2>1. ServerTypes'
      BY <1>1, <1>14, SchemaAssumption DEF Replace, Tampers, ServerTypes
    <2> QED
      BY <1>14, <2>1, TampersKeeps DEF Replace
  <1>15. CASE SetTtl
    <2>1. queue' \in Seq(Days)
      BY <1>1, <1>15, FinalOfAppend DEF SetTtl, ServerTypes
    <2>2. ServerTypes'
      BY <1>1, <1>15, <2>1 DEF SetTtl, Tampers, ServerTypes
    <2> QED
      BY <1>15, <2>2, TampersKeeps DEF SetTtl
  <1>16. CASE ChangeCredentials
    <2>1. ConnectionTypes' /\ RestTypes' /\ ServerTypes'
      BY <1>1, <1>16 DEF ChangeCredentials, Act, ConnectionTypes, RestTypes, ServerTypes,
         manager, history
    <2> QED
      BY <1>16, <2>1, NothingPromised, TypesGrouped DEF ChangeCredentials, manager, history
  <1>17. CASE UNCHANGED vars
    <2>1. ConnectionTypes' /\ RestTypes' /\ ServerTypes'
      BY <1>1, <1>17, TypesFramed DEF vars
    <2> QED
      BY <1>17, <2>1, NothingPromised, TypesGrouped DEF vars, server, manager, history
  <1> QED
    BY <1>2, <1>3, <1>4, <1>6, <1>7, <1>8, <1>9, <1>11, <1>12, <1>13, <1>14, <1>15, <1>16,
       <1>17

-----------------------------------------------------------------------------
(* The invariant, and what follows from it.                                *)

\* A new worker in front of any server satisfies the invariant.
LEMMA SchemaInvInit == Init => SchemaInv
  <1> SUFFICES ASSUME Init PROVE SchemaInv
    OBVIOUS
  <1>1. ServerTypes
    BY SchemaAssumption, EmptySeq DEF Init, ServerTypes
  <1>2. ConnectionTypes
    BY DEF Init, ConnectionTypes, Callers, Places, Statements
  <1>3. RestTypes
    BY DEF Init, RestTypes
  <1>4. \A c \in Callers : ~Validated(c) /\ pc[c] # "ready"
    BY DEF Init, Validated, Callers
  <1> QED
    BY <1>1, <1>2, <1>3, <1>4, TypesGrouped DEF SchemaInv, ValidatedIsDeclared, TtlSettled

\* Every step keeps it.
LEMMA SchemaInvStep == SchemaInv /\ [Next]_vars => SchemaInv'
  BY CheckKeeps, OtherStepsKeep DEF Next

\* The invariant holds of every reachable state.
LEMMA SchemaInvariant == Spec => []SchemaInv
  BY SchemaInvInit, SchemaInvStep, PTL DEF Spec

\* Table, connection and callers keep their types; a request that waits for its
\* answer waits alone on a connection that is there.
THEOREM SchemaTypeCorrect == Spec => []SchemaTypeOK
  <1>1. SchemaInv => SchemaTypeOK
    BY DEF SchemaInv
  <1> QED
    BY <1>1, SchemaInvariant, PTL

\* ensure() comes back only when the configured time to live is the one that
\* the table ends up with, whatever the other caller of it did in between.
THEOREM EnsureSettlesTtl == Spec => []TtlSettled
  <1>1. SchemaInv => TtlSettled
    BY DEF SchemaInv
  <1> QED
    BY <1>1, SchemaInvariant, PTL

\* What is left of RowsOnlyIntoDeclaredTable: a row goes into a table without
\* the declared keys from a caller whose check had passed before the table was
\* dropped or replaced.
StrayOnlyBehindCheck ==
    [][stray' /\ ~stray => \E c \in Callers : pc[c] = "ready" /\ tampered[c]]_vars

\* There is no other way to the trace that violates RowsOnlyIntoDeclaredTable,
\* for any interleaving of the delivery task with the flush.
THEOREM StrayRowsOnlyBehindCheck == Spec => StrayOnlyBehindCheck
  <1> DEFINE Guarded == stray' /\ ~stray => \E c \in Callers : pc[c] = "ready" /\ tampered[c]
  <1>1. SchemaInv /\ [Next]_vars => [Guarded]_vars
    <2> SUFFICES ASSUME SchemaInv, Next, stray' # stray
                 PROVE  \E c \in Callers : pc[c] = "ready" /\ tampered[c]
      OBVIOUS
    <2>1. PICK c \in Callers : Deliver(c)
      BY DEF Next, CheckStep, Request, Broken, CredentialsRejected, CreateAnswered,
         ShowAnswered, ReadAnswered, AlterAnswered, Lost, TurnedAway, Garbage, Malformed,
         ServerCloses, ApplyTtl, Recheck, Stop, GateEnds, FlushBegins, Reload, Kill,
         Drop, Replace, SetTtl, ChangeCredentials, Tampers, history
    <2>2. pc[c] = "ready" /\ table \in {"missing", "other"}
      BY <2>1 DEF Deliver
    <2>3. tampered[c]
      BY <2>2 DEF SchemaInv, SchemaTypeOK, ValidatedIsDeclared, Validated
    <2> QED
      BY <2>2, <2>3
  <1> QED
    BY <1>1, SchemaInvariant, PTL DEF Spec, StrayOnlyBehindCheck

\* The delivery task ends over nothing but an answer of another shape, or a
\* table that was dropped after its columns were read: a connection that the
\* flush has closed under it only repeats its check.
THEOREM GateSurvives == Spec => GateDiesOnlyOfShape
  <1> DEFINE Justified ==
        pc'["gate"] = "dead" /\ pc["gate"] # "dead" => Malformed("gate") \/ tampered["gate"]
  <1>1. SchemaInv /\ [Next]_vars => [Justified]_vars
    <2> SUFFICES ASSUME SchemaInv, Next, pc'["gate"] = "dead", pc["gate"] # "dead",
                        ~Malformed("gate")
                 PROVE  tampered["gate"]
      OBVIOUS
    <2>1. ConnectionTypes /\ ServerTypes /\ RestTypes /\ "gate" \in Callers
      BY TypesGrouped DEF SchemaInv, Callers
    <2>2. {"retry", "blocked", "dead", "show", "ready", "read", "alter"} \subseteq Places
      BY DEF Places, Statements
    \* Nothing but an outcome of this kind makes the task end.
    <2>3. ASSUME NEW c \in Callers, NEW outcome \in Places, Proceeds(c, outcome)
          PROVE  c = "gate" /\ outcome = "dead"
      <3>1. c = "gate"
        BY <2>1, <2>3, ProceedsTypes
      <3> QED
        BY <2>1, <2>3, <3>1, ProceedsTypes
    <2>4. ASSUME NEW c \in Callers, ReadAnswered(c)
          PROVE  tampered["gate"]
      <3>1. PICK outcome \in {"dead", "alter", "ready"} :
              Proceeds(c, outcome) /\ (outcome = "dead" => table = "missing")
        BY <2>4 DEF ReadAnswered, Answered
      <3>2. c = "gate" /\ table = "missing" /\ pc[c] = "read"
        BY <2>2, <2>3, <2>4, <3>1 DEF ReadAnswered
      <3> QED
        BY <2>1, <3>2 DEF SchemaInv, ValidatedIsDeclared, Validated, RestTypes
    <2>5. ASSUME NEW c \in Callers, Malformed(c)
          PROVE  FALSE
      <3>1. c = "gate"
        BY <2>2, <2>3, <2>5 DEF Malformed, Answered
      <3> QED
        BY <2>5, <3>1
    <2>6. ASSUME NEW c \in Callers, Proceeds(c, "retry") \/ Proceeds(c, "show")
          PROVE  FALSE
      BY <2>2, <2>3, <2>6
    <2>7. ASSUME NEW c \in Callers, Refused(c)
          PROVE  FALSE
      BY <2>2, <2>3, <2>7 DEF Refused, Answered
    <2>8. ASSUME NEW c \in Callers, ShowAnswered(c)
          PROVE  FALSE
      BY <2>2, <2>3, <2>8 DEF ShowAnswered, MissingAtShow, AfterValidation, Answered
    <2>9. ASSUME NEW c \in Callers, AlterAnswered(c)
          PROVE  FALSE
      BY <2>2, <2>3, <2>7, <2>9 DEF AlterAnswered, Answered
    <2>10. ASSUME NEW c \in Callers, Request(c)
           PROVE  FALSE
      BY <2>6, <2>10 DEF Request
    <2>11. ASSUME NEW c \in Callers,
                  \/ Broken(c) \/ Lost(c) \/ TurnedAway(c) \/ Garbage(c)
                  \/ CredentialsRejected(c) \/ CreateAnswered(c)
           PROVE  FALSE
      BY <2>6, <2>7, <2>11 DEF Broken, Lost, TurnedAway, Garbage, CredentialsRejected,
         CreateAnswered, Answered
    <2>12. ASSUME NEW c \in Callers, Deliver(c)
           PROVE  FALSE
      BY <2>1, <2>12 DEF Deliver, ConnectionTypes
    <2>13. ~(Recheck \/ GateEnds \/ FlushBegins)
      BY <2>1 DEF Recheck, GateEnds, FlushBegins, ConnectionTypes
    <2>14. ~(Reload \/ Kill)
      BY DEF Reload, Kill, NewService
    <2>15. ~(ServerCloses \/ ApplyTtl \/ Stop \/ Drop \/ Replace \/ SetTtl
               \/ ChangeCredentials)
      BY DEF ServerCloses, ApplyTtl, Stop, Drop, Replace, SetTtl, Tampers, ChangeCredentials
    <2> QED
      BY <2>4, <2>5, <2>8, <2>9, <2>10, <2>11, <2>12, <2>13, <2>14, <2>15
         DEF Next, CheckStep
  <1> QED
    BY <1>1, SchemaInvariant, PTL DEF Spec, GateDiesOnlyOfShape

=============================================================================
