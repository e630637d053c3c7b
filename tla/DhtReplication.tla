--------------------------- MODULE DhtReplication ---------------------------
(***************************************************************************)
(* network/replication/dht-replication.js over the record stores of        *)
(* network/dht/kademlia.js: a publisher places its signed records on the   *)
(* closest replicas, and reads, repairs and re-checks them.                *)
(*                                                                         *)
(* All records are of one key and one publisher, so a store holds at most  *)
(* one of them.  A record is a sequence number and a value; the publisher  *)
(* may sign two values for one number (it restarted and lost its last      *)
(* write).  A replica persists an accepted record before it acknowledges;  *)
(* what it did not persist is lost when it restarts.  Requests and replies *)
(* are lost, late or answered by a store that has changed since.           *)
(***************************************************************************)
EXTENDS Naturals, Sequences, FiniteSets, SequencesExt

CONSTANTS
    Self,               \* the publisher
    Replicas,           \* the candidates, a sequence: closest first
    ReplicationFactor,  \* replicationFactor
    WriteQuorum,        \* writeQuorum
    Records,            \* the records the publisher may sign: [seq, value]
    Budgets             \* bounds on the calls of put, the restarts of all nodes and the
                        \* rounds of reconcilePublishedRecords: [puts, restarts, reconciles]

ReplicaSet == {Replicas[i] : i \in DOMAIN Replicas}
DhtNodes == {Self} \cup ReplicaSet
Sequences == {rec.seq : rec \in Records}
NoRecord == [seq |-> 0, value |-> 0]

ASSUME DhtAssumption ==
    /\ Replicas \in Seq(ReplicaSet) /\ ReplicationFactor \in Nat /\ WriteQuorum \in Nat
    /\ \A rec \in Records : rec.seq \in Nat \ {0}
    /\ Budgets \subseteq [puts : Nat, restarts : Nat, reconciles : Nat]

VARIABLES
    store,      \* recordStore of each node
    replicaDisk,\* what each node has persisted of it
    expired,    \* the records up to this number are past their expiresAt (one ttl)
    write,      \* the put() under way
    requests,   \* the dht.store calls under way, and how far they are
    placement,  \* placementByRecordId, for the record last placed
    confirmed,  \* the records whose put() returned
    check,      \* the reconcile under way
    budget      \* puts, restarts and reconciles left

dhtVars == <<store, replicaDisk, expired, write, requests, placement, confirmed, check, budget>>

Idle == [rec |-> NoRecord, phase |-> "idle", local |-> FALSE, acked |-> {}, cursor |-> 1]
NotChecking == [rec |-> NoRecord, phase |-> "idle", held |-> {}, sent |-> {}]

DhtTypeOK ==
    /\ store \in [DhtNodes -> Records \cup {NoRecord}]
    /\ replicaDisk \in [DhtNodes -> Records \cup {NoRecord}]
    /\ expired \in {0} \cup Sequences
    /\ write \in [rec : Records \cup {NoRecord}, phase : {"idle", "placing"},
                  local : BOOLEAN, acked : SUBSET ReplicaSet, cursor : 1..(Len(Replicas) + 1)]
    /\ requests \subseteq [to : ReplicaSet, rec : Records, at : {"sent", "accepted", "durable", "lost"}]
    /\ placement \in [rec : Records \cup {NoRecord}, at : SUBSET ReplicaSet]
    /\ confirmed \subseteq Records
    /\ check \in [rec : Records \cup {NoRecord}, phase : {"idle", "storing"},
                  held : SUBSET ReplicaSet, sent : SUBSET ReplicaSet]
    /\ budget \in [puts : Nat, restarts : Nat, reconciles : Nat]

DhtInit ==
    /\ store = [n \in DhtNodes |-> NoRecord]
    /\ replicaDisk = [n \in DhtNodes |-> NoRecord]
    /\ expired = 0
    /\ write = Idle
    /\ requests = {}
    /\ placement = [rec |-> NoRecord, at |-> {}]
    /\ confirmed = {}
    /\ check = NotChecking
    /\ budget \in Budgets

---------------------------------------------------------------------------
(* KademliaRecordStore.                                                    *)

\* verifyDhtRecord, of a record whose signature holds: it has not expired.
Live(rec) == rec.seq > expired

\* put: an older number and another value for the same number are refused.
Accepts(held, rec) ==
    /\ Live(rec)
    /\ held.seq < rec.seq \/ held = rec

---------------------------------------------------------------------------
(* put(record).                                                            *)

\* The pump: as many STOREs are outstanding as the replication factor still
\* needs, the next closest candidate taking the place of one that failed.
Pump(w, reqs) ==
    LET have == Cardinality(w.acked) + (IF w.local THEN 1 ELSE 0)
        open == Cardinality({q \in reqs : q.rec = w.rec})
        want == IF have + open >= ReplicationFactor THEN 0 ELSE ReplicationFactor - have - open
        last == IF w.cursor + want - 1 > Len(Replicas) THEN Len(Replicas) ELSE w.cursor + want - 1
    IN /\ write' = [w EXCEPT !.cursor = last + 1]
       /\ requests' = reqs \cup {[to |-> Replicas[i], rec |-> w.rec, at |-> "sent"] : i \in w.cursor..last}

\* verifyDhtRecord, the lookup, recordStore.put at the publisher, and the first
\* round of the pump.  The local copy counts as an acknowledgement.  repair is a
\* put of the record that get found.  (Answers to an earlier put of the same
\* record are awaited first.)
PutStarts(rec) ==
    /\ write.phase = "idle" /\ budget.puts > 0
    /\ \A q \in requests : q.rec # rec
    /\ Live(rec)
    /\ LET local == Accepts(store[Self], rec)
       IN /\ store' = IF local THEN [store EXCEPT ![Self] = rec] ELSE store
          /\ Pump([rec |-> rec, phase |-> "placing", local |-> local, acked |-> {}, cursor |-> 1],
                  requests)
    /\ budget' = [budget EXCEPT !.puts = @ - 1]
    /\ UNCHANGED <<replicaDisk, expired, placement, confirmed, check>>

Moved(q, at) == (requests \ {q}) \cup {[q EXCEPT !.at = at]}

\* A replica handles dht.store: it verifies, puts, and starts to persist.
StoreServed(q) ==
    /\ q.at = "sent"
    /\ IF Accepts(store[q.to], q.rec)
       THEN /\ store' = [store EXCEPT ![q.to] = q.rec]
            /\ requests' = Moved(q, "accepted")
       ELSE /\ requests' = Moved(q, "lost")
            /\ UNCHANGED store
    /\ UNCHANGED <<replicaDisk, expired, write, placement, confirmed, check, budget>>

StoreAnsweredEarly(q) ==
    /\ q.at = "accepted"
    /\ requests' = Moved(q, "durable")
    /\ UNCHANGED <<store, replicaDisk, expired, write, placement, confirmed, check, budget>>

\* persistRecordStore writes the whole store; only then the STORE is answered.
StorePersisted(q) ==
    /\ q.at = "accepted"
    /\ replicaDisk' = [replicaDisk EXCEPT ![q.to] = store[q.to]]
    /\ requests' = Moved(q, "durable")
    /\ UNCHANGED <<store, expired, write, placement, confirmed, check, budget>>

\* The acknowledgement arrives: it is counted and the pump runs.
StoreAcked(q) ==
    /\ write.phase = "placing" /\ q.rec = write.rec /\ q.at = "durable"
    /\ Pump([write EXCEPT !.acked = @ \cup {q.to}], requests \ {q})
    /\ UNCHANGED <<store, replicaDisk, expired, placement, confirmed, check, budget>>

\* The request is refused, times out or is lost: the pump takes the next one.  A
\* request that timed out may still be served.
StoreFails(q) ==
    /\ write.phase = "placing" /\ q.rec = write.rec
    /\ Pump(write, requests \ {q})
    /\ IF q.at = "sent" /\ Accepts(store[q.to], q.rec)
       THEN \E served \in BOOLEAN :
              store' = IF served THEN [store EXCEPT ![q.to] = q.rec] ELSE store
       ELSE UNCHANGED store
    /\ UNCHANGED <<replicaDisk, expired, placement, confirmed, check, budget>>

Acknowledgements == Cardinality(write.acked) + (IF write.local THEN 1 ELSE 0)

\* finish: the factor is reached, the candidates are used up, the grace period
\* after the quorum or the deadline is over.  A put without its quorum throws.
\* Answers that are under way are no longer counted.
PutEnds ==
    /\ write.phase = "placing"
    /\ IF Acknowledgements >= WriteQuorum
       THEN /\ placement' = [rec |-> write.rec, at |-> write.acked]
            /\ confirmed' = confirmed \cup {write.rec}
       ELSE UNCHANGED <<placement, confirmed>>
    /\ write' = Idle
    /\ UNCHANGED <<store, replicaDisk, expired, requests, check, budget>>

\* The answer to a request that its put no longer awaits.
LateAnswer(q) ==
    /\ ~(write.phase = "placing" /\ q.rec = write.rec)
    /\ q.at \in {"durable", "lost"}
    /\ requests' = requests \ {q}
    /\ UNCHANGED <<store, replicaDisk, expired, write, placement, confirmed, check, budget>>

---------------------------------------------------------------------------
(* get(namespace, key): a local record answers; else the replicas are       *)
(* asked and what they return is verified and kept.                        *)
ReadThrough(r) ==
    /\ store[Self] = NoRecord /\ store[r] # NoRecord
    /\ store' = [store EXCEPT ![Self] = store[r]]
    /\ UNCHANGED <<replicaDisk, expired, write, requests, placement, confirmed, check, budget>>

\* Persistence in the background: schedulePersist after onChange.
Persist(n) ==
    /\ replicaDisk[n] # store[n]
    /\ replicaDisk' = [replicaDisk EXCEPT ![n] = store[n]]
    /\ UNCHANGED <<store, expired, write, requests, placement, confirmed, check, budget>>

\* reconcilePublishedRecords reads its record from each assigned holder ...
Assigned == {Replicas[i] : i \in 1..(IF ReplicationFactor - 1 < Len(Replicas)
                                     THEN ReplicationFactor - 1 ELSE Len(Replicas))}

ReconcileStarts ==
    /\ check.phase = "idle" /\ budget.reconciles > 0
    /\ store[Self] # NoRecord
    /\ \E reached \in SUBSET Assigned :
         LET rec == store[Self]
             held == {r \in reached : store[r] = rec}
         IN check' = IF placement = [rec |-> rec, at |-> Assigned] /\ held = Assigned
                     THEN check
                     ELSE [rec |-> rec, phase |-> "storing", held |-> held, sent |-> Assigned \ held]
    /\ budget' = [budget EXCEPT !.reconciles = @ - 1]
    /\ UNCHANGED <<store, replicaDisk, expired, write, requests, placement, confirmed>>

\* ... stores it again where it is missing, as StoreServed and StorePersisted do ...
ReconcileStores(r) ==
    /\ check.phase = "storing" /\ r \in check.sent
    /\ Accepts(store[r], check.rec)
    /\ store' = [store EXCEPT ![r] = check.rec]
    /\ replicaDisk' = [replicaDisk EXCEPT ![r] = check.rec]
    /\ check' = [check EXCEPT !.sent = @ \ {r}, !.held = @ \cup {r}]
    /\ UNCHANGED <<expired, write, requests, placement, confirmed, budget>>

\* ... and moves the placement when every assigned holder has it.
ReconcileEnds ==
    /\ check.phase = "storing"
    /\ placement' = IF check.held = Assigned THEN [rec |-> check.rec, at |-> Assigned]
                    ELSE placement
    /\ check' = NotChecking
    /\ UNCHANGED <<store, replicaDisk, expired, write, requests, confirmed, budget>>

---------------------------------------------------------------------------
\* expiresAt passes, and sweep deletes what no longer verifies.  (A store or a
\* file that still holds an expired record shows it to nobody.)
Swept(held, n) == [m \in DhtNodes |-> IF held[m].seq > n THEN held[m] ELSE NoRecord]

ExpireRecords ==
    /\ \E n \in Sequences :
         /\ n > expired
         /\ expired' = n
         /\ store' = Swept(store, n)
         /\ replicaDisk' = Swept(replicaDisk, n)
    /\ UNCHANGED <<write, requests, placement, confirmed, check, budget>>

\* A node restarts and restores what it persisted, if that still verifies.  The
\* put of a publisher that restarts is gone, and so is the placement.
Restart(n) ==
    /\ budget.restarts > 0
    /\ budget' = [budget EXCEPT !.restarts = @ - 1]
    /\ store' = [store EXCEPT ![n] = replicaDisk[n]]
    /\ requests' = {IF q.to = n THEN [q EXCEPT !.at = "lost"] ELSE q : q \in requests}
    /\ IF n = Self
       THEN /\ write' = Idle /\ check' = NotChecking
            /\ placement' = [rec |-> NoRecord, at |-> {}]
       ELSE UNCHANGED <<write, check, placement>>
    /\ UNCHANGED <<replicaDisk, expired, confirmed>>

DhtNext ==
    \/ \E rec \in Records : PutStarts(rec)
    \/ \E q \in requests :
         \/ StoreServed(q)
         \/ StorePersisted(q)
         \/ StoreAcked(q)
         \/ StoreFails(q)
         \/ LateAnswer(q)
    \/ \E r \in ReplicaSet : ReconcileStores(r)
    \/ PutEnds
    \/ \E r \in ReplicaSet : ReadThrough(r)
    \/ \E n \in DhtNodes : Persist(n) \/ Restart(n)
    \/ ReconcileStarts
    \/ ReconcileEnds
    \/ ExpireRecords

DhtSpec == DhtInit /\ [][DhtNext]_dhtVars
---------------------------------------------------------------------------
\* What a node holds is the record or a newer one.
Covers(held, rec) == held = rec \/ held.seq > rec.seq

\* A put that returned is durable: WriteQuorum - 1 replicas besides the
\* publisher have persisted its record or a newer one, whatever restarted since,
\* until the record expires.
ConfirmedIsDurable ==
    \A rec \in confirmed :
        Live(rec) => Cardinality({r \in ReplicaSet : Covers(replicaDisk[r], rec)}) >= WriteQuorum - 1

---------------------------------------------------------------------------
(* Why it holds: a store is never behind the disk, and what a request that *)
(* was accepted, made durable or counted says of its replica stays true    *)
(* until the record expires or the replica restarts.                       *)

StoreAhead == \A n \in DhtNodes : Covers(store[n], replicaDisk[n])

RequestsTrue ==
    \A q \in requests :
        Live(q.rec) => /\ q.at = "accepted" => Covers(store[q.to], q.rec)
                       /\ q.at = "durable" => Covers(replicaDisk[q.to], q.rec)

AcksTrue == Live(write.rec) => \A r \in write.acked : Covers(replicaDisk[r], write.rec)

DhtInv ==
    /\ DhtTypeOK /\ IsFiniteSet(requests)
    /\ write.phase = "placing" => write.rec \in Records
    /\ StoreAhead /\ RequestsTrue /\ AcksTrue /\ ConfirmedIsDurable
=============================================================================
