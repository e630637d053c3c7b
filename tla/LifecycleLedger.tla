-------------------------- MODULE LifecycleLedger --------------------------
(***************************************************************************)
(* network/relay/durable-lifecycle-ledger.js: the SQLite lifecycle ledger, *)
(* its lifecycle_needs and lifecycle_outbox tables.  Relay processes of    *)
(* one host share the file; every operation is one BEGIN IMMEDIATE         *)
(* transaction, so an operation is one step, and one that throws is rolled *)
(* back and changes nothing.  A crash of a relay process loses nothing     *)
(* that was committed (WAL, synchronous=FULL) and is no step of the        *)
(* ledger.                                                                 *)
(*                                                                         *)
(* A row of the outbox is addressed by its primary key event_id, here      *)
(* <<need, kind, sequence>>.  Its recipient is fixed by persistOutbox:     *)
(* the provider for NEED and REVOKE, the requester for PARTIAL and RESULT. *)
(***************************************************************************)
EXTENDS Naturals, FiniteSets, TLAPS

CONSTANTS
    Needs,              \* identifiers of NEEDs
    Nodes,              \* requesters and providers
    Requester,          \* who signed each NEED
    Digests,            \* digests of PARTIAL payloads
    NoNode,             \* provider of a NEED that is not there
    NoDigest,           \* partial_digest before the first PARTIAL
    MaxRecords,         \* maxRecords
    OutboxPerRecord,    \* outbox rows allowed for each record (8)
    MaxPartials,        \* bound on sequence numbers (safe integers)
    MaxBatch            \* largest limit of pendingDeliveries (100)

ASSUME LedgerAssumption ==
    /\ Requester \in [Needs -> Nodes]
    /\ NoNode \notin Nodes
    /\ NoDigest \notin Digests
    /\ MaxRecords \in Nat \ {0}
    /\ OutboxPerRecord \in Nat \ {0}
    /\ MaxPartials \in Nat
    /\ MaxBatch \in Nat \ {0}

\* A value of Requester for finite instances: one node signs every NEED, and
\* may be a provider as well.
SoleRequester == [n \in Needs |-> CHOOSE m \in Nodes : TRUE]

VARIABLES
    status,             \* lifecycle_needs.status, or "absent"
    provider,           \* lifecycle_needs.provider
    partialSequence,    \* lifecycle_needs.partial_sequence
    partialDigest,      \* lifecycle_needs.partial_digest
    rowid,              \* rowid of each outbox row, 0 when there is none
    rows,               \* number of rows of lifecycle_outbox
    acked,              \* rows whose acknowledged_at is set
    seen                \* rows some pendingDeliveries call has returned

needVars == <<status, provider, partialSequence, partialDigest>>
vars == <<status, provider, partialSequence, partialDigest, rowid, rows, acked, seen>>

PartialNumbers == 0..(MaxPartials - 1)

EventIds ==
    (Needs \X {"NEED", "RESULT", "REVOKE"} \X {0})
        \cup (Needs \X {"PARTIAL"} \X PartialNumbers)

Terminal == {"completed", "cancelled", "failed"}

Statuses == {"absent", "matched"} \cup Terminal

Recipient(e) ==
    IF e[2] \in {"NEED", "REVOKE"} THEN provider[e[1]] ELSE Requester[e[1]]

Init ==
    /\ status = [n \in Needs |-> "absent"]
    /\ provider = [n \in Needs |-> NoNode]
    /\ partialSequence = [n \in Needs |-> 0]
    /\ partialDigest = [n \in Needs |-> NoDigest]
    /\ rowid = [e \in EventIds |-> 0]
    /\ rows = 0
    /\ acked = {}
    /\ seen = {}

-----------------------------------------------------------------------------
\* persistOutbox: insert a row, or nothing when no delivery is given.  The
\* insert is refused, and the transaction with it, when the table is full or
\* the key exists.  Rows are never deleted, so the next rowid is rows + 1.
PersistOutbox(e, delivery) ==
    \/ /\ delivery = "none"
       /\ UNCHANGED <<rowid, rows>>
    \/ /\ delivery = "event"
       /\ rows < MaxRecords * OutboxPerRecord
       /\ rowid[e] = 0
       /\ rowid' = [rowid EXCEPT ![e] = rows + 1]
       /\ rows' = rows + 1

Deliveries == {"none", "event"}

\* The kind of the event that announces an end.
Farewell(to) == IF to = "completed" THEN "RESULT" ELSE "REVOKE"

\* Rows that pendingDeliveries may return to node r.
Pending(r) ==
    {e \in EventIds :
        /\ rowid[e] # 0
        /\ Recipient(e) = r
        /\ e \notin acked
        /\ e[2] = "NEED" => status[e[1]] = "matched"}

-----------------------------------------------------------------------------
\* Mutants.  An UPDATE without the status='matched' condition; a rollback
\* that does not look for the committed outbox row; a query without ORDER BY;
\* a query that forgets to exclude acknowledged rows from the batch and so
\* returns the same head for ever; a rollback one number too far.
TransitionAnyNeed(n, by, to, delivery) ==
    /\ status[n] # "absent"
    /\ by = IF to = "cancelled" THEN Requester[n] ELSE provider[n]
    /\ status' = [status EXCEPT ![n] = to]
    /\ to = "failed" => delivery = "none"
    /\ PersistOutbox(<<n, Farewell(to), 0>>, delivery)
    /\ UNCHANGED <<provider, partialSequence, partialDigest, acked, seen>>

RollbackCommittedPartial(n, s, d, previous) ==
    /\ status[n] = "matched"
    /\ partialSequence[n] = s + 1
    /\ partialDigest[n] = d
    /\ partialSequence' = [partialSequence EXCEPT ![n] = s]
    /\ partialDigest' = [partialDigest EXCEPT ![n] = previous]
    /\ UNCHANGED <<status, provider, rowid, rows, acked, seen>>

PollUnordered(r, last) ==
    /\ \E batch \in SUBSET Pending(r) :
        /\ Cardinality(batch) \in 1..MaxBatch
        /\ seen' = seen \cup batch
    /\ UNCHANGED <<status, provider, partialSequence, partialDigest, rowid, rows, acked>>

PollHead(r, last) ==
    LET head == {e \in EventIds : rowid[e] \in 1..last /\ Recipient(e) = r}
    IN  /\ Cardinality(head) \in 1..MaxBatch
        /\ seen' = seen \cup head
        /\ UNCHANGED <<status, provider, partialSequence, partialDigest, rowid, rows, acked>>

RollbackTooFar(n, s, d, previous) ==
    /\ rowid[<<n, "PARTIAL", s>>] = 0
    /\ status[n] = "matched"
    /\ partialSequence[n] = s + 1
    /\ partialDigest[n] = d
    /\ partialSequence' = [partialSequence EXCEPT ![n] = s - 1]
    /\ partialDigest' = [partialDigest EXCEPT ![n] = previous]
    /\ UNCHANGED <<status, provider, rowid, rows, acked, seen>>

-----------------------------------------------------------------------------
\* A relay admits NEED n and matches it to provider p.
ReserveNeed(n, p, delivery) ==
    /\ status[n] = "absent"
    /\ Cardinality({m \in Needs : status[m] # "absent"}) < MaxRecords
    /\ status' = [status EXCEPT ![n] = "matched"]
    /\ provider' = [provider EXCEPT ![n] = p]
    /\ PersistOutbox(<<n, "NEED", 0>>, delivery)
    /\ UNCHANGED <<partialSequence, partialDigest, acked, seen>>

\* Node `by` ends NEED n: the requester cancels it, the provider completes
\* or fails it.  A NEED that already ended is left alone, whatever is asked.
TransitionNeed(n, by, to, delivery) ==
    /\ status[n] = "matched"
    /\ by = IF to = "cancelled" THEN Requester[n] ELSE provider[n]
    /\ status' = [status EXCEPT ![n] = to]
    /\ to = "failed" => delivery = "none"
    /\ PersistOutbox(<<n, Farewell(to), 0>>, delivery)
    /\ UNCHANGED <<provider, partialSequence, partialDigest, acked, seen>>

\* The provider's next PARTIAL.  A repetition of the last one (same sequence
\* number and digest) is answered without a change.
AcceptPartial(n, by, s, d, delivery) ==
    /\ status[n] = "matched"
    /\ by = provider[n]
    /\ s = partialSequence[n]
    /\ partialSequence' = [partialSequence EXCEPT ![n] = s + 1]
    /\ partialDigest' = [partialDigest EXCEPT ![n] = d]
    /\ PersistOutbox(<<n, "PARTIAL", s>>, delivery)
    /\ UNCHANGED <<status, provider, acked, seen>>

\* Undo the last PARTIAL, unless it has an outbox row.
RollbackPartial(n, s, d, previous) ==
    /\ rowid[<<n, "PARTIAL", s>>] = 0
    /\ status[n] = "matched"
    /\ partialSequence[n] = s + 1
    /\ partialDigest[n] = d
    /\ partialSequence' = [partialSequence EXCEPT ![n] = s]
    /\ partialDigest' = [partialDigest EXCEPT ![n] = previous]
    /\ UNCHANGED <<status, provider, rowid, rows, acked, seen>>

\* pendingDeliveries with ORDER BY rowid LIMIT limit: node r is shown its
\* pending rows up to some row `last`, at most MaxBatch of them.  Reading
\* acknowledges nothing.
Poll(r, last) ==
    LET batch == {e \in Pending(r) : rowid[e] <= last}
    IN  /\ Cardinality(batch) \in 1..MaxBatch
        /\ seen' = seen \cup batch
        /\ UNCHANGED <<status, provider, partialSequence, partialDigest, rowid, rows, acked>>

\* acknowledgeDelivery: any row of the node, shown to it before or not.
AcknowledgeDelivery(e, r) ==
    /\ rowid[e] # 0
    /\ Recipient(e) = r
    /\ e \notin acked
    /\ acked' = acked \cup {e}
    /\ UNCHANGED <<status, provider, partialSequence, partialDigest, rowid, rows, seen>>

Next ==
    \/ \E n \in Needs, delivery \in Deliveries, by \in Nodes :
        \/ ReserveNeed(n, by, delivery)
        \/ \E to \in Terminal : TransitionNeed(n, by, to, delivery)
        \/ \E s \in PartialNumbers, d \in Digests : AcceptPartial(n, by, s, d, delivery)
    \/ \E n \in Needs, s \in PartialNumbers, d \in Digests, previous \in Digests \cup {NoDigest} :
        RollbackPartial(n, s, d, previous)
    \/ \E r \in Nodes, last \in 1..rows : Poll(r, last)
    \/ \E e \in EventIds, r \in Nodes : AcknowledgeDelivery(e, r)

Spec == Init /\ [][Next]_vars

\* Every node keeps polling, and acknowledges what it was shown
\* (node/client.js pollDurable and acknowledgeDurable).
Fairness ==
    /\ \A r \in Nodes : WF_vars(\E last \in 1..rows : Poll(r, last) /\ seen' # seen)
    /\ \A e \in EventIds :
        WF_vars(e \in seen /\ \E r \in Nodes : AcknowledgeDelivery(e, r))

FairSpec == Spec /\ Fairness

-----------------------------------------------------------------------------
\* Every variable has its type.
TypeOK ==
    /\ status \in [Needs -> Statuses]
    /\ provider \in [Needs -> Nodes \cup {NoNode}]
    /\ partialSequence \in [Needs -> Nat]
    /\ partialDigest \in [Needs -> Digests \cup {NoDigest}]
    /\ rowid \in [EventIds -> Nat]
    /\ rows \in Nat
    /\ acked \in SUBSET EventIds
    /\ seen \in SUBSET EventIds

\* The place of an event in the life of its NEED.
Place(e) ==
    IF e[2] = "NEED" THEN 0
    ELSE IF e[2] = "PARTIAL" THEN e[3] + 1 ELSE MaxPartials + 1

\* The outbox holds the events of a NEED in the order of its life: NEED first,
\* then the PARTIALs by number, then the end, whatever relays, providers and
\* rollbacks did in between.
OutboxInLifeOrder ==
    \A e, f \in EventIds :
        (e[1] = f[1] /\ rowid[e] # 0 /\ rowid[f] # 0 /\ Place(e) < Place(f))
            => rowid[e] < rowid[f]

\* "A committed PARTIAL outbox entry is durable and MUST NOT be rolled back":
\* partial_sequence stays beyond every PARTIAL in the outbox, so that no
\* number is ever handed out twice and no insert meets an existing key.
CommittedPartialsStand ==
    \A n \in Needs, s \in PartialNumbers :
        rowid[<<n, "PARTIAL", s>>] # 0 => s < partialSequence[n]

\* The outbox and the status column never contradict each other: an outbox
\* row exists only for an admitted NEED, a RESULT row only for a completed
\* one, a REVOKE row only for a cancelled one.
OutboxAgreesWithStatus ==
    \A e \in EventIds :
        rowid[e] # 0 =>
            /\ status[e[1]] # "absent"
            /\ e[2] = "RESULT" => status[e[1]] = "completed"
            /\ e[2] = "REVOKE" => status[e[1]] = "cancelled"

\* Recovery "in commit order": when a node has been shown a row, every row
\* committed to it earlier has been shown too, unless the node acknowledged
\* it unseen or it is the NEED of work that has ended meanwhile.
ShownInCommitOrder ==
    \A e \in seen, f \in EventIds :
        (rowid[f] # 0 /\ rowid[f] < rowid[e] /\ Recipient(f) = Recipient(e)) =>
            \/ f \in seen
            \/ f \in acked
            \/ f[2] = "NEED" /\ status[f[1]] \in Terminal

\* No committed event starves behind the batch limit: each is shown, or
\* acknowledged, or is a NEED whose work has ended.
CommittedEventsAreShown ==
    \A e \in EventIds :
        rowid[e] # 0 ~>
            \/ e \in seen
            \/ e \in acked
            \/ e[2] = "NEED" /\ status[e[1]] \in Terminal

\* The events of NEED n in the outbox.
Announced(n) ==
    {<<e[2], e[3]>> : e \in {f \in EventIds : f[1] = n /\ rowid[f] # 0}}

Abstract == INSTANCE NeedLifecycle WITH events <- [n \in Needs |-> Announced(n)]

\* The ledger keeps the promise of NeedLifecycle: ends are final and
\* announced in the same transaction, PARTIALs only grow, nothing announced
\* is withdrawn.
KeepsLifecycle == Abstract!Spec

-----------------------------------------------------------------------------
(***************************************************************************)
(* Proofs, for any sets of NEEDs and nodes and any bounds: the invariants, *)
(* and that the ledger implements NeedLifecycle.                           *)
(***************************************************************************)

Kinds == {"NEED", "PARTIAL", "RESULT", "REVOKE"}

\* What is known of the parts of an event identifier.
LEMMA EventIdParts ==
    ASSUME NEW e \in EventIds
    PROVE  /\ e[1] \in Needs
           /\ e[2] \in Kinds
           /\ e[3] \in Nat
           /\ e = <<e[1], e[2], e[3]>>
           /\ e[2] = "PARTIAL" => e[3] \in PartialNumbers
           /\ e[2] # "PARTIAL" => e[3] = 0
BY LedgerAssumption DEF EventIds, Kinds, PartialNumbers

\* The identifiers the operations build are identifiers.
LEMMA EventIdForms ==
    ASSUME NEW n \in Needs
    PROVE  /\ <<n, "NEED", 0>> \in EventIds
           /\ <<n, "RESULT", 0>> \in EventIds
           /\ <<n, "REVOKE", 0>> \in EventIds
           /\ \A s \in PartialNumbers : <<n, "PARTIAL", s>> \in EventIds
BY DEF EventIds

\* Rowids are handed out in increasing order and are never reused.
RowidsBounded == \A e \in EventIds : rowid[e] <= rows

\* Only committed rows are ever shown.
ShownAreCommitted == \A e \in seen : rowid[e] # 0

IInv ==
    /\ TypeOK
    /\ RowidsBounded
    /\ ShownAreCommitted
    /\ OutboxInLifeOrder
    /\ CommittedPartialsStand
    /\ OutboxAgreesWithStatus
    /\ ShownInCommitOrder

-----------------------------------------------------------------------------
\* The two cases of persistOutbox, as facts about each row.
LEMMA PersistCases ==
    ASSUME TypeOK, RowidsBounded,
           NEW e \in EventIds, NEW delivery \in Deliveries,
           PersistOutbox(e, delivery)
    PROVE  /\ rowid' \in [EventIds -> Nat]
           /\ rows' \in Nat
           /\ rows <= rows'
           /\ \A f \in EventIds : f # e => rowid'[f] = rowid[f]
           /\ rowid'[e] = rowid[e] \/ (rowid[e] = 0 /\ rowid'[e] = rows + 1 /\ rows' = rows + 1)
           /\ \A f \in EventIds : rowid[f] <= rows
           /\ \A f \in EventIds : rowid'[f] <= rows'
           /\ \A f \in EventIds : rowid[f] # 0 => rowid'[f] = rowid[f]
           /\ \A f \in EventIds : rowid[f] \in Nat /\ rowid'[f] \in Nat
<1>1. CASE delivery = "none"
  BY <1>1 DEF PersistOutbox, TypeOK, RowidsBounded
<1>2. CASE delivery = "event"
  BY <1>2 DEF PersistOutbox, TypeOK, RowidsBounded
<1>3. QED
  BY <1>1, <1>2 DEF Deliveries

-----------------------------------------------------------------------------
\* A new row keeps the order of life when nothing later in the life of its
\* NEED is in the outbox.
LEMMA InsertInOrder ==
    ASSUME IInv,
           NEW e \in EventIds, NEW delivery \in Deliveries,
           PersistOutbox(e, delivery),
           \A f \in EventIds : f[1] = e[1] /\ rowid[f] # 0 => ~(Place(e) < Place(f))
    PROVE  OutboxInLifeOrder'
<1>1. /\ \A f \in EventIds : f # e => rowid'[f] = rowid[f]
      /\ rowid'[e] = rowid[e] \/ (rowid[e] = 0 /\ rowid'[e] = rows + 1)
      /\ \A f \in EventIds : rowid[f] <= rows
      /\ \A f \in EventIds : rowid[f] \in Nat /\ rowid'[f] \in Nat
  BY PersistCases DEF IInv
<1>2. rows \in Nat
  BY DEF IInv, TypeOK
<1>3. SUFFICES ASSUME NEW f \in EventIds, NEW g \in EventIds,
                      f[1] = g[1], rowid'[f] # 0, rowid'[g] # 0, Place(f) < Place(g)
               PROVE  rowid'[f] < rowid'[g]
  BY DEF OutboxInLifeOrder, Place
<1>4. ~(Place(f) < Place(f))
  <2>1. Place(f) \in Nat
    BY EventIdParts, LedgerAssumption DEF Place, PartialNumbers
  <2>2. QED
    BY <2>1
<1>5. CASE rowid'[e] = rowid[e]
  BY <1>1, <1>3, <1>5 DEF IInv, OutboxInLifeOrder
<1>6. CASE rowid[e] = 0 /\ rowid'[e] = rows + 1
  <2>1. CASE f = e
    BY <1>1, <1>3, <1>4, <1>6, <2>1
  <2>2. CASE g = e /\ f # e
    BY <1>1, <1>2, <1>3, <1>6, <2>2
  <2>3. CASE f # e /\ g # e
    BY <1>1, <1>3, <2>3 DEF IInv, OutboxInLifeOrder
  <2>4. QED
    BY <2>1, <2>2, <2>3
<1>7. QED
  BY <1>1, <1>5, <1>6

\* A new row disturbs nobody's reading order, as long as recipients of
\* existing rows stay and ended NEEDs stay ended.
LEMMA InsertAfterShown ==
    ASSUME IInv,
           NEW e \in EventIds, NEW delivery \in Deliveries,
           PersistOutbox(e, delivery),
           \A f \in EventIds : rowid[f] # 0 => Recipient(f)' = Recipient(f),
           \A f \in EventIds : status[f[1]] \in Terminal => status'[f[1]] \in Terminal,
           seen' = seen, acked' = acked
    PROVE  ShownInCommitOrder' /\ ShownAreCommitted'
<1>1. /\ \A f \in EventIds : f # e => rowid'[f] = rowid[f]
      /\ rowid'[e] = rowid[e] \/ (rowid[e] = 0 /\ rowid'[e] = rows + 1)
      /\ \A f \in EventIds : rowid[f] <= rows
      /\ \A f \in EventIds : rowid[f] \in Nat /\ rowid'[f] \in Nat
      /\ \A f \in EventIds : rowid[f] # 0 => rowid'[f] = rowid[f]
  BY PersistCases DEF IInv
<1>2. rows \in Nat /\ seen \in SUBSET EventIds
  BY DEF IInv, TypeOK
<1>3. ShownAreCommitted'
  BY <1>1, <1>2 DEF IInv, ShownAreCommitted
<1>4. SUFFICES ASSUME NEW g \in seen, NEW f \in EventIds,
                      rowid'[f] # 0, rowid'[f] < rowid'[g],
                      Recipient(f)' = Recipient(g)'
               PROVE  \/ f \in seen
                      \/ f \in acked
                      \/ f[2] = "NEED" /\ status'[f[1]] \in Terminal
  BY <1>3 DEF ShownInCommitOrder
<1>5. g \in EventIds /\ rowid[g] # 0 /\ rowid'[g] = rowid[g]
  BY <1>1, <1>2 DEF IInv, ShownAreCommitted
<1>6. rowid[f] = rowid'[f]
  <2>1. rowid'[f] <= rows
    BY <1>1, <1>2, <1>4, <1>5
  <2>2. QED
    BY <1>1, <1>2, <2>1
<1>7. Recipient(f) = Recipient(g)
  BY <1>4, <1>5, <1>6
<1>8. QED
  BY <1>4, <1>5, <1>6, <1>7 DEF IInv, ShownInCommitOrder

-----------------------------------------------------------------------------
LEMMA InitEstablishes == Init => IInv
<1> SUFFICES ASSUME Init PROVE IInv
  OBVIOUS
<1>1. TypeOK
  BY DEF Init, TypeOK, Statuses
<1>2. \A e \in EventIds : rowid[e] = 0
  BY DEF Init
<1>3. RowidsBounded /\ OutboxInLifeOrder /\ OutboxAgreesWithStatus
  BY <1>2 DEF Init, RowidsBounded, OutboxInLifeOrder, OutboxAgreesWithStatus
<1>4. CommittedPartialsStand
  BY <1>2, EventIdForms DEF CommittedPartialsStand
<1>5. ShownAreCommitted /\ ShownInCommitOrder
  BY DEF Init, ShownAreCommitted, ShownInCommitOrder
<1>6. QED
  BY <1>1, <1>3, <1>4, <1>5 DEF IInv

LEMMA ReserveKeeps ==
    ASSUME IInv, NEW n \in Needs, NEW p \in Nodes, NEW delivery \in Deliveries,
           ReserveNeed(n, p, delivery)
    PROVE  IInv'
<1> DEFINE e == <<n, "NEED", 0>>
<1>1. e \in EventIds
  BY EventIdForms
<1>2. PersistOutbox(e, delivery)
  BY DEF ReserveNeed
<1>3. /\ status[n] = "absent"
      /\ status' = [status EXCEPT ![n] = "matched"]
      /\ provider' = [provider EXCEPT ![n] = p]
      /\ partialSequence' = partialSequence
      /\ partialDigest' = partialDigest
      /\ acked' = acked
      /\ seen' = seen
  BY DEF ReserveNeed
<1>4. /\ rowid' \in [EventIds -> Nat]
      /\ rows' \in Nat
      /\ \A f \in EventIds : f # e => rowid'[f] = rowid[f]
      /\ \A f \in EventIds : rowid'[f] <= rows'
  BY <1>1, <1>2, PersistCases DEF IInv
<1>5. \A f \in EventIds : f[1] = n => rowid[f] = 0
  BY <1>3 DEF IInv, OutboxAgreesWithStatus
<1>6. TypeOK'
  BY <1>3, <1>4 DEF IInv, TypeOK, Statuses
<1>7. RowidsBounded'
  BY <1>4 DEF RowidsBounded
<1>8. OutboxInLifeOrder'
  BY <1>1, <1>2, <1>5, InsertInOrder
<1>9. CommittedPartialsStand'
  <2>1. \A m \in Needs, s \in PartialNumbers :
            rowid'[<<m, "PARTIAL", s>>] = rowid[<<m, "PARTIAL", s>>]
    BY <1>4, EventIdForms
  <2>2. QED
    BY <1>3, <2>1 DEF IInv, CommittedPartialsStand
<1>10. OutboxAgreesWithStatus'
  <2>1. SUFFICES ASSUME NEW f \in EventIds, rowid'[f] # 0
                 PROVE  /\ status'[f[1]] # "absent"
                        /\ f[2] = "RESULT" => status'[f[1]] = "completed"
                        /\ f[2] = "REVOKE" => status'[f[1]] = "cancelled"
    BY DEF OutboxAgreesWithStatus
  <2>2. status \in [Needs -> Statuses] /\ f[1] \in Needs
    BY EventIdParts DEF IInv, TypeOK
  <2>3. CASE f = e
    BY <1>3, <2>2, <2>3
  <2>4. CASE f # e
    <3>1. rowid[f] # 0
      BY <1>4, <2>1, <2>4
    <3>2. f[1] # n
      BY <1>5, <3>1
    <3>3. status'[f[1]] = status[f[1]]
      BY <1>3, <2>2, <3>2
    <3>4. QED
      BY <3>1, <3>3 DEF IInv, OutboxAgreesWithStatus
  <2>5. QED
    BY <2>3, <2>4
<1>11. \A f \in EventIds : rowid[f] # 0 => Recipient(f)' = Recipient(f)
  <2>1. SUFFICES ASSUME NEW f \in EventIds, rowid[f] # 0
                 PROVE  Recipient(f)' = Recipient(f)
    OBVIOUS
  <2>2. f[1] # n
    BY <1>5, <2>1
  <2>3. provider'[f[1]] = provider[f[1]]
    BY <1>3, <2>2, EventIdParts DEF IInv, TypeOK
  <2>4. QED
    BY <2>3 DEF Recipient
<1>12. \A f \in EventIds : status[f[1]] \in Terminal => status'[f[1]] \in Terminal
  BY <1>3, EventIdParts DEF IInv, TypeOK, Terminal
<1>13. ShownInCommitOrder' /\ ShownAreCommitted'
  BY <1>1, <1>2, <1>3, <1>11, <1>12, InsertAfterShown
<1>14. QED
  BY <1>6, <1>7, <1>8, <1>9, <1>10, <1>13 DEF IInv

LEMMA TransitionKeeps ==
    ASSUME IInv, NEW n \in Needs, NEW by \in Nodes, NEW to \in Terminal,
           NEW delivery \in Deliveries, TransitionNeed(n, by, to, delivery)
    PROVE  IInv'
<1> DEFINE e == <<n, Farewell(to), 0>>
<1>1. e \in EventIds /\ e[1] = n /\ e[2] = Farewell(to)
  BY EventIdForms DEF Farewell
<1>2. PersistOutbox(e, delivery)
  BY DEF TransitionNeed
<1>3. /\ status[n] = "matched"
      /\ status' = [status EXCEPT ![n] = to]
      /\ to = "failed" => delivery = "none"
      /\ provider' = provider
      /\ partialSequence' = partialSequence
      /\ partialDigest' = partialDigest
      /\ acked' = acked
      /\ seen' = seen
  BY DEF TransitionNeed
<1>4. /\ rowid' \in [EventIds -> Nat]
      /\ rows' \in Nat
      /\ \A f \in EventIds : f # e => rowid'[f] = rowid[f]
      /\ \A f \in EventIds : rowid'[f] <= rows'
  BY <1>1, <1>2, PersistCases DEF IInv
<1>5. TypeOK'
  BY <1>3, <1>4 DEF IInv, TypeOK, Statuses
<1>6. RowidsBounded'
  BY <1>4 DEF RowidsBounded
<1>7. OutboxInLifeOrder'
  <2>1. Place(e) = MaxPartials + 1
    BY <1>1 DEF Place, Farewell
  <2>2. \A f \in EventIds : ~(MaxPartials + 1 < Place(f))
    BY EventIdParts, LedgerAssumption DEF Place, PartialNumbers
  <2>3. QED
    BY <1>1, <1>2, <2>1, <2>2, InsertInOrder
<1>8. CommittedPartialsStand'
  <2>1. \A m \in Needs, s \in PartialNumbers : <<m, "PARTIAL", s>> # e
    BY DEF Farewell
  <2>2. \A m \in Needs, s \in PartialNumbers :
            rowid'[<<m, "PARTIAL", s>>] = rowid[<<m, "PARTIAL", s>>]
    BY <1>4, <2>1, EventIdForms
  <2>3. QED
    BY <1>3, <2>2 DEF IInv, CommittedPartialsStand
<1>9. OutboxAgreesWithStatus'
  <2>1. SUFFICES ASSUME NEW f \in EventIds, rowid'[f] # 0
                 PROVE  /\ status'[f[1]] # "absent"
                        /\ f[2] = "RESULT" => status'[f[1]] = "completed"
                        /\ f[2] = "REVOKE" => status'[f[1]] = "cancelled"
    BY DEF OutboxAgreesWithStatus
  <2>2. status \in [Needs -> Statuses] /\ f[1] \in Needs
    BY EventIdParts DEF IInv, TypeOK
  <2>3. CASE rowid[f] # 0
    <3>1. /\ status[f[1]] # "absent"
          /\ f[2] = "RESULT" => status[f[1]] = "completed"
          /\ f[2] = "REVOKE" => status[f[1]] = "cancelled"
      BY <2>3 DEF IInv, OutboxAgreesWithStatus
    <3>2. QED
      BY <1>3, <2>2, <3>1 DEF Terminal
  <2>4. CASE rowid[f] = 0
    <3>1. f = e
      BY <1>4, <2>1, <2>4
    <3>2. delivery = "event"
      BY <1>2, <2>1, <2>4 DEF PersistOutbox
    <3>3. to \in {"completed", "cancelled"}
      BY <1>3, <3>2 DEF Terminal
    <3>4. QED
      BY <1>1, <1>3, <2>2, <3>1, <3>3 DEF Farewell
  <2>5. QED
    BY <2>3, <2>4
<1>10. \A f \in EventIds : rowid[f] # 0 => Recipient(f)' = Recipient(f)
  BY <1>3 DEF Recipient
<1>11. \A f \in EventIds : status[f[1]] \in Terminal => status'[f[1]] \in Terminal
  BY <1>3, EventIdParts DEF IInv, TypeOK, Terminal
<1>12. ShownInCommitOrder' /\ ShownAreCommitted'
  BY <1>1, <1>2, <1>3, <1>10, <1>11, InsertAfterShown
<1>13. QED
  BY <1>5, <1>6, <1>7, <1>8, <1>9, <1>12 DEF IInv

LEMMA PartialKeeps ==
    ASSUME IInv, NEW n \in Needs, NEW by \in Nodes, NEW s \in PartialNumbers,
           NEW d \in Digests, NEW delivery \in Deliveries,
           AcceptPartial(n, by, s, d, delivery)
    PROVE  IInv'
<1> DEFINE e == <<n, "PARTIAL", s>>
<1>1. e \in EventIds /\ e[1] = n /\ e[2] = "PARTIAL" /\ e[3] = s
  BY EventIdForms
<1>2. PersistOutbox(e, delivery)
  BY DEF AcceptPartial
<1>3. /\ status[n] = "matched"
      /\ s = partialSequence[n]
      /\ partialSequence' = [partialSequence EXCEPT ![n] = s + 1]
      /\ partialDigest' = [partialDigest EXCEPT ![n] = d]
      /\ status' = status
      /\ provider' = provider
      /\ acked' = acked
      /\ seen' = seen
  BY DEF AcceptPartial
<1>4. /\ rowid' \in [EventIds -> Nat]
      /\ rows' \in Nat
      /\ \A f \in EventIds : f # e => rowid'[f] = rowid[f]
      /\ \A f \in EventIds : rowid'[f] <= rows'
  BY <1>1, <1>2, PersistCases DEF IInv
<1>5. s \in Nat /\ s < MaxPartials
  BY LedgerAssumption DEF PartialNumbers
<1>6. TypeOK'
  BY <1>3, <1>4, <1>5 DEF IInv, TypeOK
<1>7. RowidsBounded'
  BY <1>4 DEF RowidsBounded
<1>8. OutboxInLifeOrder'
  <2>1. \A f \in EventIds : f[1] = n /\ rowid[f] # 0 => ~(Place(e) < Place(f))
    <3>1. SUFFICES ASSUME NEW f \in EventIds, f[1] = n, rowid[f] # 0
                   PROVE  ~(Place(e) < Place(f))
      OBVIOUS
    <3>2. f[2] \notin {"RESULT", "REVOKE"}
      BY <1>3, <3>1 DEF IInv, OutboxAgreesWithStatus
    <3>3. Place(e) = s + 1
      BY <1>1 DEF Place
    <3>4. CASE f[2] = "NEED"
      BY <1>5, <3>3, <3>4 DEF Place
    <3>5. CASE f[2] = "PARTIAL"
      <4>1. f = <<n, "PARTIAL", f[3]>> /\ f[3] \in PartialNumbers /\ f[3] \in Nat
        BY <3>1, <3>5, EventIdParts
      <4>2. f[3] < s
        BY <1>3, <3>1, <4>1 DEF IInv, CommittedPartialsStand
      <4>3. Place(f) = f[3] + 1
        BY <3>5 DEF Place
      <4>4. QED
        BY <1>5, <3>3, <4>1, <4>2, <4>3
    <3>6. QED
      BY <3>2, <3>4, <3>5, EventIdParts DEF Kinds
  <2>2. QED
    BY <1>1, <1>2, <2>1, InsertInOrder
<1>9. CommittedPartialsStand'
  <2>1. SUFFICES ASSUME NEW m \in Needs, NEW t \in PartialNumbers,
                        rowid'[<<m, "PARTIAL", t>>] # 0
                 PROVE  t < partialSequence'[m]
    BY DEF CommittedPartialsStand
  <2>2. partialSequence \in [Needs -> Nat] /\ t \in Nat
    BY LedgerAssumption DEF IInv, TypeOK, PartialNumbers
  <2>3. CASE m = n /\ t = s
    BY <1>3, <1>5, <2>2, <2>3
  <2>4. CASE ~(m = n /\ t = s)
    <3>1. rowid'[<<m, "PARTIAL", t>>] = rowid[<<m, "PARTIAL", t>>]
      BY <1>4, <2>4, EventIdForms
    <3>2. t < partialSequence[m]
      BY <2>1, <3>1 DEF IInv, CommittedPartialsStand
    <3>3. QED
      BY <1>3, <1>5, <2>2, <3>2
  <2>5. QED
    BY <2>3, <2>4
<1>10. OutboxAgreesWithStatus'
  <2>1. SUFFICES ASSUME NEW f \in EventIds, rowid'[f] # 0
                 PROVE  /\ status'[f[1]] # "absent"
                        /\ f[2] = "RESULT" => status'[f[1]] = "completed"
                        /\ f[2] = "REVOKE" => status'[f[1]] = "cancelled"
    BY DEF OutboxAgreesWithStatus
  <2>2. CASE f = e
    BY <1>1, <1>3, <2>2
  <2>3. CASE f # e
    BY <1>3, <1>4, <2>1, <2>3 DEF IInv, OutboxAgreesWithStatus
  <2>4. QED
    BY <2>2, <2>3
<1>11. \A f \in EventIds : rowid[f] # 0 => Recipient(f)' = Recipient(f)
  BY <1>3 DEF Recipient
<1>12. ShownInCommitOrder' /\ ShownAreCommitted'
  BY <1>1, <1>2, <1>3, <1>11, InsertAfterShown
<1>13. QED
  BY <1>6, <1>7, <1>8, <1>9, <1>10, <1>12 DEF IInv

LEMMA RollbackKeeps ==
    ASSUME IInv, NEW n \in Needs, NEW s \in PartialNumbers, NEW d \in Digests,
           NEW previous \in Digests \cup {NoDigest},
           RollbackPartial(n, s, d, previous)
    PROVE  IInv'
<1>1. /\ rowid[<<n, "PARTIAL", s>>] = 0
      /\ partialSequence[n] = s + 1
      /\ partialSequence' = [partialSequence EXCEPT ![n] = s]
      /\ partialDigest' = [partialDigest EXCEPT ![n] = previous]
      /\ status' = status /\ provider' = provider /\ rowid' = rowid /\ rows' = rows
      /\ acked' = acked /\ seen' = seen
  BY DEF RollbackPartial
<1>2. s \in Nat
  BY LedgerAssumption DEF PartialNumbers
<1>3. TypeOK'
  BY <1>1, <1>2 DEF IInv, TypeOK
<1>4. CommittedPartialsStand'
  <2>1. SUFFICES ASSUME NEW m \in Needs, NEW t \in PartialNumbers,
                        rowid[<<m, "PARTIAL", t>>] # 0
                 PROVE  t < partialSequence'[m]
    BY <1>1 DEF CommittedPartialsStand
  <2>2. partialSequence \in [Needs -> Nat] /\ t \in Nat
    BY LedgerAssumption DEF IInv, TypeOK, PartialNumbers
  <2>3. t < partialSequence[m]
    BY <2>1 DEF IInv, CommittedPartialsStand
  <2>4. CASE m = n
    BY <1>1, <1>2, <2>1, <2>2, <2>3, <2>4
  <2>5. CASE m # n
    BY <1>1, <2>2, <2>3, <2>5
  <2>6. QED
    BY <2>4, <2>5
<1>5. RowidsBounded' /\ ShownAreCommitted' /\ OutboxInLifeOrder' /\ OutboxAgreesWithStatus'
  BY <1>1 DEF IInv, RowidsBounded, ShownAreCommitted, OutboxInLifeOrder, OutboxAgreesWithStatus
<1>6. ShownInCommitOrder'
  BY <1>1 DEF IInv, ShownInCommitOrder, Recipient
<1>7. QED
  BY <1>3, <1>4, <1>5, <1>6 DEF IInv

LEMMA PollKeeps ==
    ASSUME IInv, NEW r \in Nodes, NEW last \in 1..rows, Poll(r, last)
    PROVE  IInv'
<1> DEFINE batch == {e \in Pending(r) : rowid[e] <= last}
<1>1. /\ seen' = seen \cup batch
      /\ status' = status /\ provider' = provider /\ partialSequence' = partialSequence
      /\ partialDigest' = partialDigest /\ rowid' = rowid /\ rows' = rows /\ acked' = acked
  BY DEF Poll
<1>2. batch \subseteq EventIds /\ \A e \in batch : rowid[e] # 0 /\ Recipient(e) = r
  BY DEF Pending
<1>3. TypeOK'
  BY <1>1, <1>2 DEF IInv, TypeOK
<1>4. RowidsBounded' /\ OutboxInLifeOrder' /\ CommittedPartialsStand' /\ OutboxAgreesWithStatus'
  BY <1>1 DEF IInv, RowidsBounded, OutboxInLifeOrder, CommittedPartialsStand, OutboxAgreesWithStatus
<1>5. ShownAreCommitted'
  BY <1>1, <1>2 DEF IInv, ShownAreCommitted
<1>6. ShownInCommitOrder'
  <2>1. \A e \in EventIds : Recipient(e)' = Recipient(e)
    BY <1>1 DEF Recipient
  <2>2. SUFFICES ASSUME NEW e \in seen \cup batch, NEW f \in EventIds,
                        rowid[f] # 0, rowid[f] < rowid[e], Recipient(f) = Recipient(e)
                 PROVE  \/ f \in seen \cup batch
                        \/ f \in acked
                        \/ f[2] = "NEED" /\ status[f[1]] \in Terminal
    <3>1. seen \subseteq EventIds
      BY DEF IInv, TypeOK
    <3>2. QED
      BY <1>1, <1>2, <2>1, <3>1 DEF ShownInCommitOrder
  <2>3. CASE e \in seen
    BY <2>2, <2>3 DEF IInv, ShownInCommitOrder
  <2>4. CASE e \in batch
    <3>1. rowid[f] \in Nat /\ rowid[e] \in Nat /\ rowid[e] <= last /\ last \in Nat
      BY <1>2, <2>4 DEF IInv, TypeOK
    <3>2. rowid[f] <= last /\ Recipient(f) = r
      BY <1>2, <2>2, <2>4, <3>1
    <3>3. CASE f[2] = "NEED" /\ status[f[1]] # "matched"
      <4>1. status[f[1]] \in Statuses /\ status[f[1]] # "absent"
        BY <2>2, EventIdParts DEF IInv, TypeOK, OutboxAgreesWithStatus
      <4>2. QED
        BY <3>3, <4>1 DEF Statuses
    <3>4. CASE ~(f[2] = "NEED" /\ status[f[1]] # "matched") /\ f \notin acked
      <4>1. f \in Pending(r)
        BY <2>2, <3>2, <3>4 DEF Pending
      <4>2. QED
        BY <3>2, <4>1
    <3>5. QED
      BY <3>3, <3>4
  <2>5. QED
    BY <2>3, <2>4
<1>7. QED
  BY <1>3, <1>4, <1>5, <1>6 DEF IInv

LEMMA AcknowledgeKeeps ==
    ASSUME IInv, NEW e \in EventIds, NEW r \in Nodes, AcknowledgeDelivery(e, r)
    PROVE  IInv'
<1>1. /\ acked' = acked \cup {e}
      /\ status' = status /\ provider' = provider /\ partialSequence' = partialSequence
      /\ partialDigest' = partialDigest /\ rowid' = rowid /\ rows' = rows /\ seen' = seen
  BY DEF AcknowledgeDelivery
<1>2. TypeOK'
  BY <1>1 DEF IInv, TypeOK
<1>3. RowidsBounded' /\ OutboxInLifeOrder' /\ CommittedPartialsStand' /\ OutboxAgreesWithStatus'
  BY <1>1 DEF IInv, RowidsBounded, OutboxInLifeOrder, CommittedPartialsStand, OutboxAgreesWithStatus
<1>4. ShownAreCommitted' /\ ShownInCommitOrder'
  BY <1>1 DEF IInv, ShownAreCommitted, ShownInCommitOrder, Recipient
<1>5. QED
  BY <1>2, <1>3, <1>4 DEF IInv

-----------------------------------------------------------------------------
\* The invariant is inductive: every transaction, poll and acknowledgement
\* of the ledger preserves it.
THEOREM Inductive == Spec => []IInv
<1>1. IInv /\ [Next]_vars => IInv'
  <2>1. SUFFICES ASSUME IInv, [Next]_vars PROVE IInv'
    OBVIOUS
  <2>2. ASSUME NEW n \in Needs, NEW delivery \in Deliveries, NEW by \in Nodes,
               \/ ReserveNeed(n, by, delivery)
               \/ \E to \in Terminal : TransitionNeed(n, by, to, delivery)
               \/ \E s \in PartialNumbers, d \in Digests : AcceptPartial(n, by, s, d, delivery)
        PROVE  IInv'
    BY <2>1, <2>2, ReserveKeeps, TransitionKeeps, PartialKeeps
  <2>3. ASSUME NEW n \in Needs, NEW s \in PartialNumbers, NEW d \in Digests,
               NEW previous \in Digests \cup {NoDigest}, RollbackPartial(n, s, d, previous)
        PROVE  IInv'
    BY <2>1, <2>3, RollbackKeeps
  <2>4. ASSUME NEW r \in Nodes, NEW last \in 1..rows, Poll(r, last) PROVE IInv'
    BY <2>1, <2>4, PollKeeps
  <2>5. ASSUME NEW e \in EventIds, NEW r \in Nodes, AcknowledgeDelivery(e, r) PROVE IInv'
    BY <2>1, <2>5, AcknowledgeKeeps
  <2>6. CASE UNCHANGED vars
    BY <2>1, <2>6 DEF vars, IInv, TypeOK, RowidsBounded, ShownAreCommitted, OutboxInLifeOrder,
        CommittedPartialsStand, OutboxAgreesWithStatus, ShownInCommitOrder, Recipient
  <2>7. QED
    BY <2>1, <2>2, <2>3, <2>4, <2>5, <2>6 DEF Next
<1>2. QED
  BY <1>1, InitEstablishes, PTL DEF Spec

\* Every variable keeps its type.
THEOREM Typing == Spec => []TypeOK
<1>1. IInv => TypeOK
  BY DEF IInv
<1>2. QED
  BY <1>1, Inductive, PTL

\* The outbox holds the events of every NEED in the order of its life.
THEOREM LifeOrder == Spec => []OutboxInLifeOrder
<1>1. IInv => OutboxInLifeOrder
  BY DEF IInv
<1>2. QED
  BY <1>1, Inductive, PTL

\* A committed PARTIAL is never rolled back and its number never reused.
THEOREM PartialsStand == Spec => []CommittedPartialsStand
<1>1. IInv => CommittedPartialsStand
  BY DEF IInv
<1>2. QED
  BY <1>1, Inductive, PTL

\* The outbox never contradicts the status of a NEED.
THEOREM OutboxAgreement == Spec => []OutboxAgreesWithStatus
<1>1. IInv => OutboxAgreesWithStatus
  BY DEF IInv
<1>2. QED
  BY <1>1, Inductive, PTL

\* Recipients are shown their rows in the order of commit.
THEOREM CommitOrder == Spec => []ShownInCommitOrder
<1>1. IInv => ShownInCommitOrder
  BY DEF IInv
<1>2. QED
  BY <1>1, Inductive, PTL

-----------------------------------------------------------------------------
(***************************************************************************)
(* The ledger implements NeedLifecycle.  The abstract events of a NEED are *)
(* the keys of its outbox rows: reserveNeed, transitionNeed and            *)
(* acceptPartial with a delivery are the abstract steps of the same name;  *)
(* everything else is a stutter.                                           *)
(***************************************************************************)
AbstractEvents == [n \in Needs |-> Announced(n)]

\* Membership in the abstract events of a NEED.
LEMMA AnnouncedRows ==
    ASSUME NEW n \in Needs, NEW k, NEW s
    PROVE  <<k, s>> \in Announced(n) <=>
               <<n, k, s>> \in EventIds /\ rowid[<<n, k, s>>] # 0
<1>1. ASSUME <<k, s>> \in Announced(n)
      PROVE  <<n, k, s>> \in EventIds /\ rowid[<<n, k, s>>] # 0
  <2>1. PICK e \in EventIds : e[1] = n /\ rowid[e] # 0 /\ <<k, s>> = <<e[2], e[3]>>
    BY <1>1 DEF Announced
  <2>2. e = <<n, k, s>>
    BY <2>1, EventIdParts
  <2>3. QED
    BY <2>1, <2>2
<1>2. ASSUME <<n, k, s>> \in EventIds, rowid[<<n, k, s>>] # 0
      PROVE  <<k, s>> \in Announced(n)
  BY <1>2 DEF Announced
<1>3. QED
  BY <1>1, <1>2

\* A step that leaves the rows of a NEED alone leaves its events alone.
LEMMA AnnouncedSame ==
    ASSUME NEW n \in Needs, \A e \in EventIds : e[1] = n => (rowid'[e] # 0 <=> rowid[e] # 0)
    PROVE  Announced(n)' = Announced(n)
BY DEF Announced

\* A new row adds its event.
LEMMA AnnouncedInsert ==
    ASSUME NEW n \in Needs, NEW k, NEW s, <<n, k, s>> \in EventIds,
           rowid'[<<n, k, s>>] # 0,
           \A e \in EventIds : e # <<n, k, s>> => rowid'[e] = rowid[e]
    PROVE  Announced(n)' = Announced(n) \cup {<<k, s>>}
<1> DEFINE old == {f \in EventIds : f[1] = n /\ rowid[f] # 0}
           new == {f \in EventIds : f[1] = n /\ rowid'[f] # 0}
<1>1. new = old \cup {<<n, k, s>>}
  BY EventIdParts
<1>2. Announced(n) = {<<e[2], e[3]>> : e \in old} /\ Announced(n)' = {<<e[2], e[3]>> : e \in new}
  BY DEF Announced
<1>3. {<<e[2], e[3]>> : e \in new} = {<<e[2], e[3]>> : e \in old} \cup {<<k, s>>}
  BY <1>1
<1>4. QED
  BY <1>2, <1>3

\* The effect of persistOutbox on the abstract events.
LEMMA PersistAnnounces ==
    ASSUME IInv, NEW n \in Needs, NEW k, NEW s, <<n, k, s>> \in EventIds,
           NEW delivery \in Deliveries, PersistOutbox(<<n, k, s>>, delivery)
    PROVE  /\ delivery = "none" => AbstractEvents' = AbstractEvents
           /\ delivery = "event" =>
                AbstractEvents' = [AbstractEvents EXCEPT ![n] = @ \cup {<<k, s>>}]
<1>1. ASSUME delivery = "none" PROVE AbstractEvents' = AbstractEvents
  <2>1. rowid' = rowid
    BY <1>1 DEF PersistOutbox
  <2>2. QED
    BY <2>1 DEF AbstractEvents, Announced
<1>2. ASSUME delivery = "event"
      PROVE  AbstractEvents' = [AbstractEvents EXCEPT ![n] = @ \cup {<<k, s>>}]
  <2>1. /\ rowid'[<<n, k, s>>] # 0
        /\ \A e \in EventIds : e # <<n, k, s>> => rowid'[e] = rowid[e]
    BY <1>2 DEF PersistOutbox, IInv, TypeOK
  <2>2. Announced(n)' = Announced(n) \cup {<<k, s>>}
    BY <2>1, AnnouncedInsert
  <2>3. ASSUME NEW m \in Needs, m # n PROVE Announced(m)' = Announced(m)
    <3>1. \A e \in EventIds : e[1] = m => rowid'[e] = rowid[e]
      BY <2>1, <2>3
    <3>2. QED
      BY <3>1, AnnouncedSame
  <2>4. QED
    BY <2>2, <2>3 DEF AbstractEvents
<1>3. QED
  BY <1>1, <1>2

LEMMA ReserveRefines ==
    ASSUME IInv, NEW n \in Needs, NEW p \in Nodes, NEW delivery \in Deliveries,
           ReserveNeed(n, p, delivery)
    PROVE  Abstract!Reserve(n)
<1>1. /\ status[n] = "absent"
      /\ status' = [status EXCEPT ![n] = "matched"]
      /\ PersistOutbox(<<n, "NEED", 0>>, delivery)
  BY DEF ReserveNeed
<1>2. Announced(n) = {}
  <2>1. \A e \in EventIds : e[1] = n => rowid[e] = 0
    BY <1>1 DEF IInv, OutboxAgreesWithStatus
  <2>2. QED
    BY <2>1 DEF Announced
<1>3. \E announced \in SUBSET {<<"NEED", 0>>} :
        AbstractEvents' = [AbstractEvents EXCEPT ![n] = announced]
  <2>1. CASE delivery = "none"
    <3>1. AbstractEvents' = AbstractEvents
      BY <1>1, <2>1, EventIdForms, PersistAnnounces
    <3>2. AbstractEvents = [AbstractEvents EXCEPT ![n] = {}]
      BY <1>2 DEF AbstractEvents
    <3>3. QED
      BY <3>1, <3>2
  <2>2. CASE delivery = "event"
    <3>1. AbstractEvents' = [AbstractEvents EXCEPT ![n] = @ \cup {<<"NEED", 0>>}]
      BY <1>1, <2>2, EventIdForms, PersistAnnounces
    <3>2. AbstractEvents[n] \cup {<<"NEED", 0>>} = {<<"NEED", 0>>}
      BY <1>2 DEF AbstractEvents
    <3>3. QED
      BY <3>1, <3>2
  <2>3. QED
    BY <2>1, <2>2 DEF Deliveries
<1>4. QED
  BY <1>1, <1>3 DEF Abstract!Reserve, AbstractEvents

LEMMA TransitionRefines ==
    ASSUME IInv, NEW n \in Needs, NEW by \in Nodes, NEW to \in Terminal,
           NEW delivery \in Deliveries, TransitionNeed(n, by, to, delivery)
    PROVE  Abstract!Settle(n, to)
<1>1. /\ status[n] = "matched"
      /\ status' = [status EXCEPT ![n] = to]
      /\ to = "failed" => delivery = "none"
      /\ PersistOutbox(<<n, Farewell(to), 0>>, delivery)
  BY DEF TransitionNeed
<1>2. <<n, Farewell(to), 0>> \in EventIds
  BY EventIdForms DEF Farewell
<1>3. \E announced \in SUBSET Abstract!Farewells(to) :
        AbstractEvents' = [AbstractEvents EXCEPT ![n] = @ \cup announced]
  <2>1. CASE delivery = "none"
    <3>1. AbstractEvents' = AbstractEvents
      BY <1>1, <1>2, <2>1, PersistAnnounces
    <3>2. AbstractEvents = [AbstractEvents EXCEPT ![n] = @ \cup {}]
      BY DEF AbstractEvents
    <3>3. QED
      BY <3>1, <3>2
  <2>2. CASE delivery = "event"
    <3>1. AbstractEvents' = [AbstractEvents EXCEPT ![n] = @ \cup {<<Farewell(to), 0>>}]
      BY <1>1, <1>2, <2>2, PersistAnnounces
    <3>2. {<<Farewell(to), 0>>} \in SUBSET Abstract!Farewells(to)
      BY <1>1, <2>2 DEF Farewell, Abstract!Farewells, Terminal
    <3>3. QED
      BY <3>1, <3>2
  <2>3. QED
    BY <2>1, <2>2 DEF Deliveries
<1>4. QED
  BY <1>1, <1>3 DEF Abstract!Settle, AbstractEvents

LEMMA PartialRefines ==
    ASSUME IInv, NEW n \in Needs, NEW by \in Nodes, NEW s \in PartialNumbers,
           NEW d \in Digests, NEW delivery \in Deliveries,
           AcceptPartial(n, by, s, d, delivery)
    PROVE  Abstract!Stream(n, s) \/ UNCHANGED <<status, AbstractEvents>>
<1>1. /\ status[n] = "matched"
      /\ status' = status
      /\ s = partialSequence[n]
      /\ PersistOutbox(<<n, "PARTIAL", s>>, delivery)
  BY DEF AcceptPartial
<1>2. CASE delivery = "none"
  BY <1>1, <1>2, EventIdForms, PersistAnnounces
<1>3. CASE delivery = "event"
  <2>1. AbstractEvents' = [AbstractEvents EXCEPT ![n] = @ \cup {<<"PARTIAL", s>>}]
    BY ZenonT(60), <1>1, <1>3, EventIdForms, PersistAnnounces
  <2>2. \A t \in PartialNumbers : <<"PARTIAL", t>> \in AbstractEvents[n] => t < s
    BY <1>1, AnnouncedRows DEF AbstractEvents, IInv, CommittedPartialsStand
  <2>3. QED
    BY <1>1, <2>1, <2>2 DEF Abstract!Stream, AbstractEvents, PartialNumbers
<1>4. QED
  BY <1>2, <1>3 DEF Deliveries

\* The SQLite ledger implements the promise of NeedLifecycle.
THEOREM Refinement == Spec => KeepsLifecycle
<1>1. Init => Abstract!Init
  <2>1. SUFFICES ASSUME Init PROVE Abstract!Init
    OBVIOUS
  <2>2. \A n \in Needs : Announced(n) = {}
    BY <2>1 DEF Init, Announced
  <2>3. QED
    BY <2>1, <2>2 DEF Init, Abstract!Init
<1>2. IInv /\ [Next]_vars => [Abstract!Next]_(Abstract!lifecycle)
  <2>1. SUFFICES ASSUME IInv, [Next]_vars
                 PROVE  Abstract!Next \/ UNCHANGED <<status, AbstractEvents>>
    BY DEF Abstract!lifecycle, AbstractEvents
  <2>2. ASSUME NEW n \in Needs, NEW delivery \in Deliveries, NEW by \in Nodes,
               ReserveNeed(n, by, delivery)
        PROVE  Abstract!Next
    BY <2>1, <2>2, ReserveRefines DEF Abstract!Next
  <2>3. ASSUME NEW n \in Needs, NEW delivery \in Deliveries, NEW by \in Nodes,
               NEW to \in Terminal, TransitionNeed(n, by, to, delivery)
        PROVE  Abstract!Next
    BY <2>1, <2>3, TransitionRefines DEF Abstract!Next, Abstract!Terminal, Terminal
  <2>4. ASSUME NEW n \in Needs, NEW delivery \in Deliveries, NEW by \in Nodes,
               NEW s \in PartialNumbers, NEW d \in Digests, AcceptPartial(n, by, s, d, delivery)
        PROVE  Abstract!Next \/ UNCHANGED <<status, AbstractEvents>>
    BY <2>1, <2>4, PartialRefines DEF Abstract!Next, PartialNumbers
  <2>5. ASSUME status' = status, rowid' = rowid
        PROVE  UNCHANGED <<status, AbstractEvents>>
    BY <2>5 DEF AbstractEvents, Announced
  <2>6. ASSUME \/ \E n \in Needs, s \in PartialNumbers, d \in Digests,
                      previous \in Digests \cup {NoDigest} : RollbackPartial(n, s, d, previous)
               \/ \E r \in Nodes, last \in 1..rows : Poll(r, last)
               \/ \E e \in EventIds, r \in Nodes : AcknowledgeDelivery(e, r)
               \/ UNCHANGED vars
        PROVE  UNCHANGED <<status, AbstractEvents>>
    <3>1. status' = status /\ rowid' = rowid
      BY <2>6 DEF RollbackPartial, Poll, AcknowledgeDelivery, vars
    <3>2. QED
      BY <2>5, <3>1
  <2>7. QED
    BY <2>1, <2>2, <2>3, <2>4, <2>6 DEF Next
<1>3. QED
  BY <1>1, <1>2, Inductive, PTL DEF Spec, KeepsLifecycle, Abstract!Spec
=============================================================================
