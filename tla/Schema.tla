-------------------------------- MODULE Schema ------------------------------
(***************************************************************************)
(* The gate in front of delivery: the check that creates the table,        *)
(* validates it and aligns its time to live (schema.py), the HTTP          *)
(* connection it is made over (exec_query of transport.py), and the two    *)
(* callers of it in worker.py: the delivery task, and the flush on         *)
(* shutdown, which may run while a check of the delivery task is still in  *)
(* its executor thread.  Both use one IlpSchemaManager and so one          *)
(* connection.                                                             *)
(*                                                                         *)
(* A check is a sequence of statements, each a request and an answer.  The *)
(* table belongs to QuestDB, where an operator may drop, replace or alter  *)
(* it between any two of them, and where a change of the time to live is   *)
(* accepted first and applied later.                                       *)
(***************************************************************************)
EXTENDS Naturals, Sequences

CONSTANTS
    Days,           \* values of retention_days
    Editions,       \* editions of the server
    Breakage,       \* failures that may occur
    Operator,       \* acts of the operator that may occur
    MaxFaults,      \* bound: such failures
    MaxActs,        \* bound: acts of the operator and changes of the option
    MaxQueue        \* bound: changes of the time to live that wait to be applied

None == "none"

ASSUME SchemaAssumption ==
    /\ 0 \in Days /\ Days \subseteq Nat
    /\ Editions # {} /\ Editions \subseteq {"open_source", "enterprise"}
    /\ Breakage \subseteq {"lost", "closed", "busy", "garbage", "malformed", "kill"}
    /\ Operator \subseteq {"drop", "replace", "ttl", "credentials"}
    /\ {MaxFaults, MaxActs, MaxQueue} \subseteq Nat

VARIABLES
    table, ttl, queue,          \* the table: kind, time to live, accepted changes of it
    edition, accepted,          \* the server: edition, whether it takes the credentials
    conn, busy,                 \* the connection, and the caller that waits on it
    pc, sent,                   \* the callers: where they are, whether a request is out
    retention, ttlRejected,     \* the manager
    stopping,                   \* stop was requested
    stray,                      \* history: a row went into a table without the keys
    tampered, lagged,           \* history: see the actions that set them
    faults, acts

server  == <<table, ttl, queue, edition, accepted>>
manager == <<retention, ttlRejected, stopping>>
history == <<stray, tampered, lagged>>
bounds  == <<faults, acts>>

vars == <<server, conn, busy, pc, sent, manager, history, bounds>>

Callers == {"gate", "flush"}

Statements == {"create", "show", "read", "alter"}

\* The caller has validated the table.
Validated(c) == pc[c] \in {"read", "alter", "ready"}

Fault(kind) == kind \in Breakage /\ faults < MaxFaults /\ faults' = faults + 1

-----------------------------------------------------------------------------
(* QuestDB.                                                                *)

\* CREATE TABLE IF NOT EXISTS
Create ==
    IF table = "missing"
      THEN table' = "declared" /\ ttl' = 0 /\ queue' = <<>> /\ UNCHANGED <<edition, accepted>>
      ELSE UNCHANGED server

TtlSupported == retention = 0 \/ edition = "open_source"

\* ALTER TABLE ... SET TTL
Alter ==
    IF table # "missing" /\ TtlSupported
      THEN queue' = Append(queue, retention) /\ UNCHANGED <<table, ttl, edition, accepted>>
      ELSE UNCHANGED server

\* What the statement of a caller does at the server.
Effect(c) ==
    CASE pc[c] = "create" -> Create
      [] pc[c] = "alter"  -> Alter
      [] OTHER            -> UNCHANGED server

ApplyTtl ==
    /\ queue # <<>>
    /\ ttl' = Head(queue) /\ queue' = Tail(queue)
    /\ UNCHANGED <<table, edition, accepted, conn, busy, pc, sent, manager, history, bounds>>

\* The time to live that the table ends up with.
FinalTtl == IF queue = <<>> THEN ttl ELSE queue[Len(queue)]

-----------------------------------------------------------------------------
(* The connection.                                                         *)

\* Wrong variant: a repeated check sends on the connection that failed.
Closed_Not == UNCHANGED <<conn, busy>>

\* close() drops the connection that is current, whoever made it.
Closed == conn' = None /\ busy' = None

\* _ensure_schema: a failed check of the delivery task waits and is repeated,
\* or ends the task; a failed check of the flush leaves the rows where they are.
After(c, outcome) ==
    IF c = "flush" /\ outcome \in {"retry", "blocked", "dead"} THEN "skipped" ELSE outcome

Proceeds(c, outcome) ==
    pc' = [pc EXCEPT ![c] = After(c, outcome)] /\ sent' = [sent EXCEPT ![c] = FALSE]

\* request(): http.client refuses a request while another is out, and the
\* handler closes the connection under it.
Request(c) ==
    /\ pc[c] \in Statements /\ ~sent[c]
    /\ \/ /\ busy = None
          /\ conn' = IF conn = None THEN "open" ELSE conn
          /\ busy' = c
          /\ sent' = [sent EXCEPT ![c] = TRUE]
          /\ UNCHANGED pc
       \/ /\ busy # None
          /\ Closed
          /\ Proceeds(c, "retry")
    /\ UNCHANGED <<server, manager, history, bounds>>

Owns(c) == sent[c] /\ busy = c /\ conn = "open"

\* The statement arrived or not, and its answer did not: the server had closed
\* the idle connection, or the other caller has closed it.
Broken(c) ==
    /\ sent[c] /\ ~Owns(c)
    /\ Effect(c) \/ UNCHANGED server
    /\ Closed
    /\ Proceeds(c, "retry")
    /\ UNCHANGED <<manager, history, bounds>>

\* A timeout, a network failure, or a status that closes the connection.
Lost(c) ==
    /\ Owns(c) /\ Fault("lost")
    /\ Effect(c) \/ UNCHANGED server
    /\ Closed
    /\ Proceeds(c, "retry")
    /\ UNCHANGED <<manager, history, acts>>

\* 425 or 429: the connection is kept.
TurnedAway(c) ==
    /\ Owns(c) /\ Fault("busy")
    /\ busy' = None
    /\ Proceeds(c, "retry")
    /\ UNCHANGED <<server, conn, manager, history, acts>>

ServerCloses ==
    /\ conn = "open" /\ busy = None /\ Fault("closed")
    /\ conn' = "stale"
    /\ UNCHANGED <<server, busy, pc, sent, manager, history, acts>>

-----------------------------------------------------------------------------
(* The check: IlpSchemaManager.ensure.                                     *)

\* An answer that ends the statement and keeps the connection.
Answered(c, outcome) == busy' = None /\ Proceeds(c, outcome) /\ UNCHANGED conn

\* PermanentIlpError, of which rejected credentials are one.  A change of the
\* time to live that meets it counts as one that the edition does not know.
Refused(c) ==
    IF pc[c] = "alter" /\ retention # 0
      THEN ttlRejected' = TRUE /\ Answered(c, "ready")
      ELSE UNCHANGED ttlRejected /\ Answered(c, "blocked")

CredentialsRejected(c) ==
    /\ Owns(c) /\ ~accepted
    /\ Refused(c)
    /\ UNCHANGED <<server, retention, stopping, history, bounds>>

\* An answer that is no JSON object.
Garbage(c) ==
    /\ Owns(c) /\ Fault("garbage")
    /\ Refused(c)
    /\ UNCHANGED <<server, retention, stopping, history, acts>>

\* A JSON object of another shape: a plain SchemaError, which only the flush
\* catches.
Malformed(c) ==
    /\ Owns(c) /\ pc[c] \in {"show", "read"} /\ Fault("malformed")
    /\ Answered(c, "dead")
    /\ UNCHANGED <<server, manager, history, acts>>

CreateAnswered(c) ==
    /\ Owns(c) /\ accepted /\ pc[c] = "create"
    /\ Create
    /\ Answered(c, "show")
    /\ UNCHANGED <<manager, history, bounds>>

\* Wrong variant: a table that has disappeared meanwhile ends the check.
MissingAtShow_Error == "dead"

\* "does not exist" is turned into a retryable error.
MissingAtShow == "retry"

\* validate_table_columns
Mismatch == table = "other"

\* Where the check goes when the table is as declared; a rejected time to live
\* is not looked at again.
AfterValidation == IF ttlRejected THEN "ready" ELSE "read"

ShowAnswered(c) ==
    /\ Owns(c) /\ accepted /\ pc[c] = "show"
    /\ \/ table = "missing" /\ Answered(c, MissingAtShow) /\ UNCHANGED tampered
       \/ table # "missing" /\ Mismatch /\ Answered(c, "blocked") /\ UNCHANGED tampered
       \/ /\ table # "missing" /\ ~Mismatch
          /\ Answered(c, AfterValidation)
          /\ tampered' = [tampered EXCEPT ![c] = FALSE]
    /\ UNCHANGED <<server, manager, stray, lagged, bounds>>

\* Wrong variant: a retention of 0 leaves the time to live alone.
Differs_IfSet == retention # 0 /\ ttl # retention

Differs == ttl # retention

\* _read_ttl_days and the comparison.  No row for the table is a malformed
\* answer to the manager.
ReadAnswered(c) ==
    /\ Owns(c) /\ accepted /\ pc[c] = "read"
    /\ lagged' = [lagged EXCEPT ![c] = queue # <<>>]
    /\ \/ table = "missing" /\ Answered(c, "dead")
       \/ table # "missing" /\ Differs /\ Answered(c, "alter")
       \/ table # "missing" /\ ~Differs /\ Answered(c, "ready")
    /\ UNCHANGED <<server, manager, stray, tampered, bounds>>

\* _apply_retention from the ALTER on
AlterAnswered(c) ==
    /\ Owns(c) /\ accepted /\ pc[c] = "alter"
    /\ \/ /\ table # "missing" /\ TtlSupported /\ Len(queue) < MaxQueue
          /\ Alter
          /\ Answered(c, "ready")
          /\ UNCHANGED ttlRejected
       \/ (table = "missing" \/ ~TtlSupported) /\ Refused(c) /\ UNCHANGED server
    /\ UNCHANGED <<retention, stopping, history, bounds>>

-----------------------------------------------------------------------------
(* The callers: _delivery_loop, _ensure_schema, _schema_is_ready.          *)

\* Wrong variant: a permanent failure is not looked at again.
Rechecked_Retry == {"retry"}

\* Both waits end with another check.
Rechecked == {"retry", "blocked"}

Recheck ==
    /\ pc["gate"] \in Rechecked /\ ~stopping
    /\ pc' = [pc EXCEPT !["gate"] = "create"]
    /\ UNCHANGED <<server, conn, busy, sent, manager, history, bounds>>

\* Rows are sent over another connection.  QuestDB makes a table that is
\* missing from the first row, without the declared keys, and takes rows into
\* a table of another shape where the types allow it.
Deliver(c) ==
    /\ pc[c] = "ready" /\ (c = "gate" => ~stopping)
    /\ \/ table = "missing" /\ table' = "other" /\ stray' = TRUE
       \/ table = "other" /\ stray' = TRUE /\ UNCHANGED table
       \/ UNCHANGED <<table, stray>>
    /\ pc' = IF c = "flush" THEN [pc EXCEPT ![c] = "done"] ELSE pc
    /\ UNCHANGED <<ttl, queue, edition, accepted, conn, busy, sent, manager, tampered, lagged,
                   bounds>>

Stop ==
    /\ ~stopping /\ stopping' = TRUE
    /\ UNCHANGED <<server, conn, busy, pc, sent, retention, ttlRejected, history, bounds>>

\* The delivery task sees the stop between two checks or batches.
GateEnds ==
    /\ stopping /\ pc["gate"] \in {"retry", "blocked", "ready"}
    /\ pc' = [pc EXCEPT !["gate"] = "ended"]
    /\ UNCHANGED <<server, conn, busy, sent, manager, history, bounds>>

FlushBegins ==
    /\ stopping /\ pc["flush"] = "idle"
    /\ pc' = [pc EXCEPT !["flush"] = "create"]
    /\ UNCHANGED <<server, conn, busy, sent, manager, history, bounds>>

NewService ==
    /\ conn' = None /\ busy' = None
    /\ pc' = [gate |-> "create", flush |-> "idle"]
    /\ sent' = [c \in Callers |-> FALSE]
    /\ ttlRejected' = FALSE /\ stopping' = FALSE
    /\ tampered' = [c \in Callers |-> FALSE] /\ lagged' = [c \in Callers |-> FALSE]

\* The threads have ended and the entry is set up again, with the same or
\* another retention.
Reload ==
    /\ stopping /\ \A c \in Callers : pc[c] \notin Statements
    /\ acts < MaxActs /\ acts' = acts + 1
    /\ retention' \in Days
    /\ NewService
    /\ UNCHANGED <<server, stray, faults>>

Kill ==
    /\ Fault("kill")
    /\ UNCHANGED server \/ \E c \in Callers : sent[c] /\ Effect(c)
    /\ NewService
    /\ UNCHANGED <<retention, stray, acts>>

-----------------------------------------------------------------------------
(* The operator.                                                           *)

Act(kind) == kind \in Operator /\ acts < MaxActs /\ acts' = acts + 1

\* What a caller has validated is no longer what is there.
Tampers(kind) ==
    /\ Act(kind)
    /\ tampered' = [c \in Callers |-> tampered[c] \/ Validated(c)]
    /\ UNCHANGED <<edition, accepted, conn, busy, pc, sent, manager, stray, lagged, faults>>

Drop ==
    /\ Tampers("drop")
    /\ table # "missing" /\ table' = "missing"
    /\ ttl' = 0 /\ queue' = <<>>

Replace ==
    /\ Tampers("replace")
    /\ table' \in {"declared", "other"} \ {table}
    /\ ttl' = 0 /\ queue' = <<>>

SetTtl ==
    /\ Tampers("ttl")
    /\ table # "missing" /\ Len(queue) < MaxQueue
    /\ \E n \in Days : queue' = Append(queue, n)
    /\ UNCHANGED <<table, ttl>>

ChangeCredentials ==
    /\ Act("credentials")
    /\ accepted' = ~accepted
    /\ UNCHANGED <<table, ttl, queue, edition, conn, busy, pc, sent, manager, history, faults>>

-----------------------------------------------------------------------------
Init ==
    /\ table \in {"missing", "declared", "other"}
    /\ ttl \in IF table = "missing" THEN {0} ELSE Days
    /\ queue = <<>> /\ edition \in Editions /\ accepted \in BOOLEAN
    /\ conn = None /\ busy = None
    /\ pc = [gate |-> "create", flush |-> "idle"]
    /\ sent = [c \in Callers |-> FALSE]
    /\ retention \in Days /\ ttlRejected = FALSE /\ stopping = FALSE
    /\ stray = FALSE
    /\ tampered = [c \in Callers |-> FALSE] /\ lagged = [c \in Callers |-> FALSE]
    /\ faults = 0 /\ acts = 0

CheckStep(c) == \/ Request(c) \/ Broken(c) \/ CredentialsRejected(c)
                \/ CreateAnswered(c) \/ ShowAnswered(c) \/ ReadAnswered(c) \/ AlterAnswered(c)

Next == \/ \E c \in Callers : CheckStep(c) \/ Deliver(c)
        \/ \E c \in Callers : Lost(c) \/ TurnedAway(c) \/ Garbage(c) \/ Malformed(c)
        \/ ServerCloses \/ ApplyTtl
        \/ Recheck \/ Stop \/ GateEnds \/ FlushBegins \/ Reload \/ Kill
        \/ Drop \/ Replace \/ SetTtl \/ ChangeCredentials

Spec == Init /\ [][Next]_vars

\* Requests are answered or time out, the waits of the gate end, and QuestDB
\* applies what it has accepted.
FairSpec == /\ Spec
            /\ \A c \in Callers : WF_vars(CheckStep(c))
            /\ WF_vars(Recheck) /\ WF_vars(ApplyTtl)

-----------------------------------------------------------------------------
(* Properties.                                                             *)

\* Type correctness; a request that waits for its answer waits alone.
SchemaTypeOK ==
    /\ table \in {"missing", "declared", "other"} /\ ttl \in Days /\ queue \in Seq(Days)
    /\ edition \in Editions /\ accepted \in BOOLEAN
    /\ conn \in {None, "open", "stale"} /\ busy \in Callers \cup {None}
    /\ pc \in [Callers -> Statements \cup {"idle", "retry", "blocked", "dead", "skipped",
                                           "ready", "ended", "done"}]
    /\ sent \in [Callers -> BOOLEAN]
    /\ retention \in Days /\ {ttlRejected, stopping, stray} \subseteq BOOLEAN
    /\ tampered \in [Callers -> BOOLEAN] /\ lagged \in [Callers -> BOOLEAN]
    /\ {faults, acts} \subseteq Nat
    /\ busy # None => sent[busy] /\ conn # None

\* A check that passes leaves the table with the configured time to live, or
\* has been told that there is none.  Not so when a change was accepted and
\* not applied yet while it read the value.
TtlSettled ==
    \A c \in Callers :
        pc[c] = "ready" /\ ~tampered[c] /\ ~lagged[c] => ttlRejected \/ FinalTtl = retention

\* The delivery task survives everything that happens to the table, whatever
\* the flush does to its connection.  It ends over an answer of another shape,
\* or over a table that was dropped after its columns were read.
GateDiesOnlyOfShape ==
    [][pc'["gate"] = "dead" /\ pc["gate"] # "dead" => Malformed("gate") \/ tampered["gate"]]_vars

\* A gate that still waits, after whatever failures, opens in the end once the
\* credentials are taken and the table is not of another shape; it needs no
\* reload for that, as _ensure_schema says.  A gate that has ended does not
\* wait: its worker is failed and needs a reload, and GateDiesOnlyOfShape says
\* when that happens.
GateOpens ==
    <>[](accepted /\ table # "other" /\ ~stopping /\ pc["gate"] # "dead")
        => <>[](pc["gate"] = "ready")

-----------------------------------------------------------------------------
(* Statements of the documentation that the code does not keep.            *)

\* docs/decisions/0009: the manager aligns the time to live on every check,
\* and a retention of 0 keeps everything.
RetentionAligned ==
    pc["gate"] = "ready" /\ ~tampered["gate"] => ttlRejected \/ FinalTtl = retention

\* docs/architecture.md: delivery is gated on the check, so that no row is
\* ever in a table without the declared dedup keys, the one QuestDB would make
\* from the first row included.  In the code the gate looks once.
RowsOnlyIntoDeclaredTable == ~stray

\* README.md: a retention is given up where the edition of the server does not
\* know it.  In the code any permanent error at the ALTER counts as that,
\* rejected credentials and a table that is gone included.
RetentionGivenUpByEdition == ttlRejected => ~TtlSupported

=============================================================================
