-------------------------- MODULE DeliveryContract --------------------------
(***************************************************************************)
(* What the writer promises about events, without threads, tasks, rows or  *)
(* answers: at-least-once delivery, in order, of everything that was made  *)
(* durable.  An accepted event is first only in memory; it becomes durable *)
(* in the order of acceptance; QuestDB may receive it any number of times  *)
(* while it is stored; it is let go only once QuestDB has it, or when it   *)
(* can never be delivered.  A killed process forgets its memory, and only  *)
(* that.                                                                   *)
(***************************************************************************)
EXTENDS Naturals

CONSTANTS Events,   \* numbered in the order in which they are offered
          Guilty    \* those that QuestDB can never take

VARIABLES volatile,   \* accepted, in memory
          promised,   \* ever made durable
          stored,     \* durable and not let go
          remote      \* QuestDB has it

contractVars == <<volatile, promised, stored, remote>>

ContractInit == volatile = {} /\ promised = {} /\ stored = {} /\ remote = {}

\* Events come in the order of their numbers; one may be refused or forgotten.
Accept(e) ==
    /\ \A f \in volatile \cup promised : f < e
    /\ volatile' = volatile \cup {e}
    /\ UNCHANGED <<promised, stored, remote>>

\* The oldest events in memory become durable together.
Store(S) ==
    /\ S # {} /\ S \subseteq volatile
    /\ \A e \in S, f \in volatile \ S : e < f
    /\ volatile' = volatile \ S
    /\ promised' = promised \cup S
    /\ stored' = stored \cup S
    /\ UNCHANGED remote

\* QuestDB receives the events of S for the first time, and already has, or
\* receives with them, everything older that is stored.
InOrder(S) ==
    /\ S \subseteq stored \ Guilty
    /\ \A e \in S, f \in stored : f < e => f \in S \cup remote

Receive(S) ==
    /\ S # {} /\ InOrder(S)
    /\ remote' = remote \cup S
    /\ UNCHANGED <<volatile, promised, stored>>

Release(S) ==
    /\ S # {} /\ S \subseteq stored \cap remote
    /\ stored' = stored \ S
    /\ UNCHANGED <<volatile, promised, remote>>

GiveUp(e) ==
    /\ e \in stored \cap Guilty
    /\ stored' = stored \ {e}
    /\ UNCHANGED <<volatile, promised, remote>>

\* The process dies; a request on its way may still arrive.
Forget(S) ==
    /\ InOrder(S)
    /\ volatile' = {}
    /\ remote' = remote \cup S
    /\ UNCHANGED <<promised, stored>>

ContractNext ==
    \/ \E e \in Events : Accept(e) \/ GiveUp(e)
    \/ \E S \in SUBSET Events : Store(S) \/ Receive(S) \/ Release(S) \/ Forget(S)

ContractSpec == ContractInit /\ [][ContractNext]_contractVars

-----------------------------------------------------------------------------
\* Everything that was ever durable and can be delivered is stored or remote.
PromiseKept == promised \ Guilty \subseteq stored \cup remote

\* What QuestDB has is a prefix of what was made durable, but for the events
\* that it can never take.
RemoteInOrder ==
    \A d, e \in promised : d < e /\ e \in remote => d \in remote \cup Guilty

=============================================================================
