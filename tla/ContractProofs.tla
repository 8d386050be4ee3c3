--------------------------- MODULE ContractProofs ---------------------------
(***************************************************************************)
(* What the delivery contract guarantees, for any set of events.  Neither  *)
(* property is inductive alone: a prefix can only grow into a prefix       *)
(* because memory holds nothing older than what is durable, and because    *)
(* nothing deliverable leaves the store before QuestDB has it.             *)
(***************************************************************************)
EXTENDS DeliveryContract, TLAPS

Ordered ==
    /\ volatile \cup promised \subseteq Events
    /\ stored \subseteq promised /\ remote \subseteq promised
    /\ \A p \in promised, v \in volatile : p < v

ContractInv == Ordered /\ PromiseKept /\ RemoteInOrder

\* Receiving a batch in order extends the prefix.
LEMMA ReceiveInOrder ==
  ASSUME Events \subseteq Nat, ContractInv, NEW S, InOrder(S), remote' = remote \cup S,
         promised' = promised
  PROVE  RemoteInOrder' /\ remote' \subseteq promised
  <1>1. S \subseteq promised
    BY DEF ContractInv, Ordered, InOrder
  <1>2. ASSUME NEW d \in promised, NEW e \in promised, d < e, e \in S
        PROVE  d \in remote \cup S \cup Guilty
    BY <1>2 DEF ContractInv, PromiseKept, InOrder
  <1> QED
    BY <1>1, <1>2 DEF ContractInv, Ordered, RemoteInOrder

\* Every action of the contract keeps the invariant.
LEMMA ContractNextKeepsInv ==
  ASSUME Events \subseteq Nat, ContractInv, [ContractNext]_contractVars
  PROVE  ContractInv'
  <1> USE DEF ContractInv
  <1>1. ASSUME NEW e \in Events, Accept(e)
        PROVE  ContractInv'
    <2>1. Ordered'
      BY <1>1 DEF Accept, Ordered
    <2>2. PromiseKept' /\ RemoteInOrder'
      BY <1>1 DEF Accept, PromiseKept, RemoteInOrder
    <2> QED
      BY <2>1, <2>2
  <1>2. ASSUME NEW S \in SUBSET Events, Store(S)
        PROVE  ContractInv'
    <2>1. Ordered'
      BY <1>2 DEF Store, Ordered
    <2>2. PromiseKept'
      BY <1>2 DEF Store, PromiseKept
    <2>3. ASSUME NEW d \in promised', NEW e \in promised', d < e, e \in remote
          PROVE  d \in remote \cup Guilty
      <3>1. e \in promised /\ d \in Nat /\ e \in Nat
        BY <1>2, <2>3 DEF Store, Ordered
      <3>2. d \notin S
        BY <1>2, <2>3, <3>1 DEF Store, Ordered
      <3> QED
        BY <1>2, <2>3, <3>1, <3>2 DEF Store, RemoteInOrder
    <2> QED
      BY <1>2, <2>1, <2>2, <2>3 DEF Store, RemoteInOrder
  <1>3. ASSUME NEW S \in SUBSET Events, Receive(S)
        PROVE  ContractInv'
    <2>1. RemoteInOrder' /\ remote' \subseteq promised
      BY <1>3, ReceiveInOrder DEF Receive
    <2> QED
      BY <1>3, <2>1 DEF Receive, Ordered, PromiseKept
  <1>4. ASSUME NEW S \in SUBSET Events, Release(S)
        PROVE  ContractInv'
    BY <1>4 DEF Release, Ordered, PromiseKept, RemoteInOrder
  <1>5. ASSUME NEW e \in Events, GiveUp(e)
        PROVE  ContractInv'
    BY <1>5 DEF GiveUp, Ordered, PromiseKept, RemoteInOrder
  <1>6. ASSUME NEW S \in SUBSET Events, Forget(S)
        PROVE  ContractInv'
    <2>1. RemoteInOrder' /\ remote' \subseteq promised
      BY <1>6, ReceiveInOrder DEF Forget
    <2> QED
      BY <1>6, <2>1 DEF Forget, Ordered, PromiseKept
  <1>7. CASE UNCHANGED contractVars
    BY <1>7 DEF contractVars, Ordered, PromiseKept, RemoteInOrder
  <1> QED
    BY <1>1, <1>2, <1>3, <1>4, <1>5, <1>6, <1>7 DEF ContractNext

\* A service that keeps the contract loses nothing that it made durable and
\* that QuestDB can take, whatever crashes, retries and late answers occur
\* (worker.py: a row leaves the spool only after a confirmed send).
THEOREM ContractKeepsPromises ==
  ASSUME Events \subseteq Nat
  PROVE  ContractSpec => []PromiseKept
  <1>1. ContractInit => ContractInv
    BY DEF ContractInit, ContractInv, Ordered, PromiseKept, RemoteInOrder
  <1>2. ContractInv /\ [ContractNext]_contractVars => ContractInv'
    BY ContractNextKeepsInv
  <1>3. ContractInv => PromiseKept
    BY DEF ContractInv
  <1> QED
    BY <1>1, <1>2, <1>3, PTL DEF ContractSpec

\* ... and QuestDB receives the durable events in the order of acceptance
\* (worker.py: one batch from the old end of the spool at a time).
THEOREM ContractDeliversInOrder ==
  ASSUME Events \subseteq Nat
  PROVE  ContractSpec => []RemoteInOrder
  <1>1. ContractInit => ContractInv
    BY DEF ContractInit, ContractInv, Ordered, PromiseKept, RemoteInOrder
  <1>2. ContractInv /\ [ContractNext]_contractVars => ContractInv'
    BY ContractNextKeepsInv
  <1>3. ContractInv => RemoteInOrder
    BY DEF ContractInv
  <1> QED
    BY <1>1, <1>2, <1>3, PTL DEF ContractSpec

=============================================================================
