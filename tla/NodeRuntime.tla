----------------------------- MODULE NodeRuntime -----------------------------
(***************************************************************************)
(* network/runtime.js, TruynNetworkNode: the life of the node's own peer   *)
(* record - its sequence, renewal, placement with the peers closest to it  *)
(* and the retries of that placement - beside the repair of its DHT        *)
(* records, the lease keeper, start, close and a crash.                    *)
(*                                                                         *)
(* A record is its sequence and the process that signed it.  What is       *)
(* durable of the state is its sequence: NodePersistence has the rest.     *)
(* Timers fire at any time, announcements settle in any order.             *)
(***************************************************************************)
EXTENDS Naturals, FiniteSets

CONSTANTS
    Peers,          \* peers whose record this node may hold
    MaxSequence,    \* bound on the sequence
    MaxTurns,       \* bound on the processes, changes of the closest peers, callers' announcements
    MaxAttempts     \* length of peerRecordRecoveryRetryDelaysMs

NoOwnRecord == [seq |-> 0, boot |-> 0]
OwnRecords == [seq : 1..MaxSequence, boot : 1..MaxTurns] \cup {NoOwnRecord}
Publishers == {"direct", "worker", "retry", "caller"}
Operations == [rec : OwnRecords, to : SUBSET Peers, all : SUBSET Peers, attempt : Nat]
NoOperation == [rec |-> NoOwnRecord, to |-> {}, all |-> {}, attempt |-> 0]

VARIABLES
    phase,     \* started, closing and where start stands
    boot, seq, \* instanceId and sequence
    durable,   \* the sequence in the state file
    local,     \* localPeerRecord
    closest,   \* discovery.closest(own id, fanout)
    placed,    \* peerRecordLifecycle.propagation: record and targets
    acked,     \* peerRecordAcked
    publish,   \* announcements under way: start or renewal, worker, retry, a caller's
    dirty,     \* peerRecordPublishDirty
    queued,    \* peerRecordPropagationQueued: record, whether the targets changed
    retry,     \* peerRecordRecoveryRetryTimer
    renewal,   \* peerRecordRenewTimer or peerRecordRenewalInFlight
    unstaged,  \* (history) the routing table changed, or other targets were set, and no
               \* publication or accepted record took the targets from it since
    heal,      \* dhtRebalance: timer, run, dirty flag, attempts, a change not seen
    held,      \* per peer: the record it acknowledged last
    heard,     \* every record any peer was given
    churn

runtimeVars == <<phase, boot, seq, durable, local, closest, placed, acked, publish, dirty,
                 queued, retry, renewal, unstaged, heal, held, heard, churn>>

NoPlacement == [rec |-> NoOwnRecord, targets |-> {}]
NoHeal == [timer |-> FALSE, running |-> FALSE, dirty |-> FALSE, attempts |-> 0, stale |-> FALSE]

\* There is a delay before the first retry, and a process and a sequence.
ASSUME RuntimeAssumption ==
    {MaxSequence, MaxTurns, MaxAttempts} \subseteq Nat \ {0}

RuntimeTypeOK ==
    /\ phase \in {"down", "persisting", "publishing", "up", "closing", "closed"}
    /\ boot \in 1..MaxTurns /\ seq \in 0..MaxSequence /\ durable \in 0..MaxSequence
    /\ local \in OwnRecords
    /\ closest \subseteq Peers
    /\ placed \in [rec : OwnRecords, targets : SUBSET Peers]
    /\ acked \in [rec : OwnRecords, nodes : SUBSET Peers]
    /\ publish \in [Publishers -> Operations] /\ retry \in Operations
    /\ dirty \in BOOLEAN /\ unstaged \in BOOLEAN
    /\ queued \in [on : BOOLEAN, rec : OwnRecords, changed : BOOLEAN]
    /\ renewal \in {"none", "timer", "persisting", "publishing"}
    /\ heal \in [timer : BOOLEAN, running : BOOLEAN, dirty : BOOLEAN, attempts : 0..2,
                 stale : BOOLEAN]
    /\ held \in [Peers -> OwnRecords]
    /\ heard \subseteq OwnRecords /\ churn \in 0..MaxTurns

RuntimeInit ==
    /\ phase = "down" /\ boot = 1 /\ seq = 0 /\ durable = 0 /\ local = NoOwnRecord
    /\ closest \in SUBSET Peers
    /\ placed = NoPlacement /\ acked = [rec |-> NoOwnRecord, nodes |-> {}]
    /\ publish = [o \in Publishers |-> NoOperation]
    /\ dirty = FALSE /\ queued = [on |-> FALSE, rec |-> NoOwnRecord, changed |-> FALSE]
    /\ retry = NoOperation /\ renewal = "none" /\ unstaged = FALSE /\ heal = NoHeal
    /\ held = [p \in Peers |-> NoOwnRecord] /\ heard = {} /\ churn = 0

Started == phase \in {"persisting", "publishing", "up", "closing"}
Active == phase \in {"persisting", "publishing", "up"}

---------------------------------------------------------------------------
(* Placement of the record.                                                *)

AckedForever(rec) == acked.nodes

\* #ackedNodeIdsFor: acknowledgements belong to one record.
AckedFor(rec) == IF acked.rec = rec THEN acked.nodes ELSE {}

\* #resetPeerRecordPropagation: these targets for this record.
Reset(rec, targets) ==
    /\ placed' = [rec |-> rec, targets |-> targets]
    /\ acked' = [rec |-> rec, nodes |-> AckedFor(rec)]

\* peerRecordPropagationReady.
Ready == Started /\ local # NoOwnRecord /\ placed.rec = local /\ placed.targets \subseteq AckedFor(local)

\* An announcement of rec by publisher o to the peers in to.
Announce(o, rec, to, all, attempt) ==
    publish' = [publish EXCEPT ![o] = IF to = {} THEN NoOperation
                    ELSE [rec |-> rec, to |-> to, all |-> all, attempt |-> attempt]]

\* #publishCurrentPeerRecord, up to its wait: the targets are set anew and the
\* pending ones are announced to.  Without any, a ready placement needs no retry.
Publish(o) ==
    LET pending == closest \ AckedFor(local)
    IN /\ Reset(local, closest) /\ unstaged' = FALSE
       /\ Announce(o, local, pending, closest, 0)
       /\ retry' = IF pending = {} THEN NoOperation ELSE retry

\* #schedulePeerRecordRecoveryRetries: the one timer is set anew for what
\* failed; past the last delay only for what is still pending.
RetryLater(rec, all, failed, attempt, after) ==
    LET due == IF attempt < MaxAttempts THEN failed \cap all
               ELSE failed \cap all \cap
                    (IF placed.rec = rec THEN placed.targets \ after ELSE {})
    IN IF ~Active \/ local # rec \/ due = {} THEN NoOperation
       ELSE [rec |-> rec, to |-> due, all |-> all,
             attempt |-> IF attempt < MaxAttempts THEN attempt ELSE MaxAttempts - 1]

\* ingest at a peer: an older sequence, and another record with the same one,
\* are refused.
PeerAccepts(p, rec) == held[p].seq < rec.seq \/ held[p] = rec

\* An announcement settles, perhaps with acknowledgements lost: what was acknowledged counts when the record is
\* still the node's own; what failed is retried, unless a caller announced.
Settle(o, failed) ==
    LET op == publish[o]
        current == local = op.rec
        nodes == AckedFor(op.rec) \cup (op.to \ failed)
        ready == placed.rec # op.rec \/ placed.targets \subseteq nodes
    IN /\ \A p \in op.to \ failed : PeerAccepts(p, op.rec)
       /\ \E lost \in SUBSET {p \in failed : PeerAccepts(p, op.rec)} :
            LET got == (op.to \ failed) \cup lost
            IN /\ held' = [p \in Peers |-> IF p \in got THEN op.rec ELSE held[p]]
               /\ heard' = IF got = {} THEN heard ELSE heard \cup {op.rec}
       /\ acked' = IF current THEN [rec |-> op.rec, nodes |-> nodes] ELSE acked
       /\ retry' = IF o = "caller" THEN retry
                   ELSE IF failed # {}
                   THEN RetryLater(op.rec, op.all, failed, IF o = "retry" THEN op.attempt + 1 ELSE 0,
                              nodes)
                   ELSE IF o # "retry" /\ ready THEN NoOperation ELSE retry

\* The settled worker goes round again when it became dirty and its record is
\* still the node's own; the start and the renewal go on.  A caller's
\* announcement leaves the peers it went to as the targets.
AnnouncementSettles(o) ==
    \E failed \in SUBSET publish[o].to :
        /\ publish[o] # NoOperation
        /\ Settle(o, failed)
        /\ IF o = "worker" /\ dirty /\ Active /\ local = publish[o].rec
           THEN LET to == closest \ acked'.nodes
                IN /\ placed' = [rec |-> local, targets |-> closest]
                   /\ Announce(o, local, to, closest, 0)
                   /\ dirty' = FALSE /\ unstaged' = FALSE
           ELSE /\ publish' = [publish EXCEPT ![o] = NoOperation]
                /\ dirty' = IF o = "worker" THEN FALSE ELSE dirty
                /\ IF o = "caller" /\ local = publish[o].rec
                   THEN placed' = [rec |-> local, targets |-> publish[o].all] /\ unstaged' = TRUE
                   ELSE UNCHANGED <<placed, unstaged>>
        /\ phase' = IF o = "direct" /\ phase = "publishing" THEN "up" ELSE phase
        /\ renewal' = IF o = "direct" /\ renewal = "publishing"
                      THEN IF phase = "closing" THEN "none" ELSE "timer"
                      ELSE IF o = "direct" /\ phase = "publishing" THEN "timer" ELSE renewal
        /\ heal' = IF o = "direct" /\ phase = "publishing" /\ ~heal.running
                   THEN [heal EXCEPT !.timer = TRUE] ELSE heal
        /\ UNCHANGED <<boot, seq, durable, local, closest, queued, churn>>

\* The retry timer fires for a record that is still the node's own.
RetryFires ==
    /\ retry # NoOperation /\ publish["retry"] = NoOperation
    /\ retry' = NoOperation
    /\ IF Active /\ local = retry.rec
       THEN Announce("retry", retry.rec, retry.to, retry.all, retry.attempt)
       ELSE UNCHANGED publish
    /\ UNCHANGED <<phase, boot, seq, durable, local, closest, placed, acked, dirty, queued,
                   renewal, unstaged, heal, held, heard, churn>>

\* announcePeerRecord by a caller: to the closest peers, the targets stay until
\* it settles.
CallerAnnounces ==
    /\ Started /\ publish["caller"] = NoOperation /\ boot + churn < MaxTurns /\ churn' = churn + 1
    /\ Announce("caller", local, closest, closest, 0)
    /\ IF closest = {} THEN Reset(local, {}) /\ unstaged' = TRUE
       ELSE UNCHANGED <<placed, acked, unstaged>>
    /\ UNCHANGED <<phase, boot, seq, durable, local, closest, dirty, queued, retry, renewal, heal,
                   held, heard>>

\* #schedulePeerRecordPropagation: the targets are staged at once, so that
\* readiness closes; the publication is queued.
Stage(near) ==
    LET changed == placed.rec # local \/ placed.targets # near
    IN IF ~Active \/ local = NoOwnRecord THEN UNCHANGED <<placed, acked, queued, unstaged>>
       ELSE /\ IF changed THEN Reset(local, near) ELSE UNCHANGED <<placed, acked>>
            /\ unstaged' = FALSE
            /\ queued' = IF queued.on THEN queued
                         ELSE [on |-> TRUE, rec |-> local, changed |-> changed]

\* #scheduleDhtRecordRebalance.
ScheduleHeal(h) ==
    IF ~Active THEN h
    ELSE IF h.running THEN [h EXCEPT !.dirty = TRUE] ELSE [h EXCEPT !.timer = TRUE]

\* onRecordAccepted: a peer record that is new changes the closest peers.
RecordAccepted ==
    /\ boot + churn < MaxTurns /\ churn' = churn + 1
    /\ \E near \in SUBSET Peers : closest' = near /\ Stage(near)
    /\ heal' = [ScheduleHeal(heal) EXCEPT !.stale = Active]
    /\ UNCHANGED <<phase, boot, seq, durable, local, publish, dirty, retry, renewal, held, heard>>

\* sweep removes the peers whose leases ended: onChange schedules a repair, and
\* nothing is staged.
PeersSwept ==
    /\ boot + churn < MaxTurns /\ churn' = churn + 1
    /\ closest' \in SUBSET Peers /\ unstaged' = TRUE
    /\ heal' = [ScheduleHeal(heal) EXCEPT !.stale = Active]
    /\ UNCHANGED <<phase, boot, seq, durable, local, placed, acked, publish, dirty, queued, retry,
                   renewal, held, heard>>

\* ingest of a record already held moves its peer in the routing table and tells
\* nobody.
PeerSeenAgain ==
    /\ boot + churn < MaxTurns /\ churn' = churn + 1
    /\ closest' \in SUBSET Peers /\ unstaged' = TRUE
    /\ UNCHANGED <<phase, boot, seq, durable, local, placed, acked, publish, dirty, queued, retry,
                   renewal, heal, held, heard>>

\* The queued microtask: publish, unless nothing changed and the placement is
\* complete or already being retried.  A running worker is told to go again.
Propagate ==
    LET same == placed.rec = local /\ placed.targets = closest
        complete == placed.targets \subseteq AckedFor(local) \/ retry # NoOperation
    IN /\ queued.on
       /\ queued' = [on |-> FALSE, rec |-> NoOwnRecord, changed |-> FALSE]
       /\ IF ~Active \/ local # queued.rec \/ (~queued.changed /\ same /\ complete)
          THEN UNCHANGED <<placed, acked, publish, retry, dirty, unstaged>>
          ELSE IF publish["worker"] # NoOperation
          THEN dirty' = TRUE /\ UNCHANGED <<placed, acked, publish, retry, unstaged>>
          ELSE Publish("worker") /\ UNCHANGED dirty
       /\ UNCHANGED <<phase, boot, seq, durable, local, closest, renewal, heal, held, heard, churn>>

---------------------------------------------------------------------------
(* start, renewal and close.                                               *)

\* start, up to persistState: the file's sequence plus one, a record, started.
Start ==
    /\ phase = "down" /\ durable < MaxSequence
    /\ seq' = durable + 1
    /\ local' = [seq |-> durable + 1, boot |-> boot]
    /\ phase' = "persisting"
    /\ UNCHANGED <<boot, durable, closest, placed, acked, publish, dirty, queued, retry,
                   renewal, unstaged, heal, held, heard, churn>>

\* The state is durable: the record is published.  recoverAcceptedWork is
\* DurableInbox's.
StartPersisted ==
    /\ phase = "persisting"
    /\ durable' = seq
    /\ Publish("direct")
    /\ phase' = IF closest \subseteq AckedFor(local) THEN "up" ELSE "publishing"
    /\ renewal' = IF phase' = "up" THEN "timer" ELSE renewal
    /\ heal' = IF phase' = "up" THEN ScheduleHeal(heal) ELSE heal
    /\ UNCHANGED <<boot, seq, local, closest, dirty, queued, held, heard, churn>>

\* renewPeerRecord, up to persistState: refreshPeerRecord replaces the record.
Renew ==
    /\ phase = "up" /\ renewal = "timer" /\ seq < MaxSequence
    /\ seq' = seq + 1
    /\ local' = [seq |-> seq + 1, boot |-> boot]
    /\ Reset(local', closest) /\ unstaged' = FALSE
    /\ retry' = NoOperation
    /\ renewal' = "persisting"
    /\ UNCHANGED <<phase, boot, durable, closest, publish, dirty, queued, heal, held, heard, churn>>

\* The renewed record is durable and published, or the caller wanted it not
\* announced and no peer is required, or the write failed; then the next renewal
\* is scheduled.
RenewPersisted ==
    /\ renewal = "persisting"
    /\ \/ /\ durable' = seq
          /\ IF Active /\ publish["direct"] = NoOperation
             THEN /\ Publish("direct")
                  /\ renewal' = IF closest \subseteq AckedFor(local) THEN "timer" ELSE "publishing"
             ELSE renewal' = "none" /\ UNCHANGED <<placed, acked, publish, retry, unstaged>>
       \/ /\ durable' = seq /\ Reset(local, {}) /\ unstaged' = TRUE
          /\ renewal' = IF Active THEN "timer" ELSE "none"
          /\ UNCHANGED <<publish, retry>>
       \/ /\ renewal' = IF Active THEN "timer" ELSE "none"
          /\ UNCHANGED <<durable, placed, acked, publish, retry, unstaged>>
    /\ UNCHANGED <<phase, boot, seq, local, closest, dirty, queued, heal, held, heard, churn>>

\* The answer to a ping carries the node's current record.
PeerPings(p) ==
    /\ Started /\ PeerAccepts(p, local)
    /\ held' = [held EXCEPT ![p] = local]
    /\ heard' = heard \cup {local}
    /\ UNCHANGED <<phase, boot, seq, durable, local, closest, placed, acked, publish, dirty,
                   queued, retry, renewal, unstaged, heal, churn>>

\* The repair of the DHT records: one run at a time, at most two retries.
HealRuns ==
    /\ heal.timer
    /\ heal' = IF Active THEN [heal EXCEPT !.timer = FALSE, !.running = TRUE, !.dirty = FALSE,
                                           !.stale = FALSE]
               ELSE [heal EXCEPT !.timer = FALSE]
    /\ UNCHANGED <<phase, boot, seq, durable, local, closest, placed, acked, publish, dirty,
                   queued, retry, renewal, unstaged, held, heard, churn>>

HealEnds ==
    /\ heal.running
    /\ \E failed \in BOOLEAN :
         LET again == failed /\ heal.attempts < 2
         IN heal' = [heal EXCEPT !.running = FALSE, !.dirty = FALSE,
                                 !.attempts = IF again THEN @ + 1 ELSE IF failed THEN @ ELSE 0,
                                 !.timer = Active /\ (heal.dirty \/ again)]
    /\ UNCHANGED <<phase, boot, seq, durable, local, closest, placed, acked, publish, dirty,
                   queued, retry, renewal, unstaged, held, heard, churn>>

\* close: the timers are cleared and the work under way is awaited.
Close ==
    /\ Active /\ phase' = "closing"
    /\ retry' = NoOperation
    /\ renewal' = IF renewal = "timer" THEN "none" ELSE renewal
    /\ heal' = [heal EXCEPT !.timer = FALSE]
    /\ UNCHANGED <<boot, seq, durable, local, closest, placed, acked, publish, dirty, queued,
                   unstaged, held, heard, churn>>

Closed ==
    /\ phase = "closing" /\ renewal = "none" /\ ~heal.running
    /\ durable' = seq
    /\ phase' = "closed"
    /\ UNCHANGED <<boot, seq, local, closest, placed, acked, publish, dirty, queued, retry,
                   renewal, unstaged, heal, held, heard, churn>>

\* The process ends, by a crash or after close, and the next one begins.
RestartNode ==
    /\ phase # "down" /\ boot + churn < MaxTurns
    /\ boot' = boot + 1 /\ phase' = "down" /\ seq' = 0 /\ local' = NoOwnRecord
    /\ placed' = NoPlacement /\ acked' = [rec |-> NoOwnRecord, nodes |-> {}]
    /\ publish' = [o \in Publishers |-> NoOperation]
    /\ dirty' = FALSE /\ queued' = [on |-> FALSE, rec |-> NoOwnRecord, changed |-> FALSE]
    /\ retry' = NoOperation /\ renewal' = "none" /\ unstaged' = FALSE /\ heal' = NoHeal
    /\ UNCHANGED <<durable, closest, held, heard, churn>>

RuntimeNext ==
    \/ Start \/ StartPersisted \/ Renew \/ RenewPersisted \/ RecordAccepted \/ PeersSwept
    \/ PeerSeenAgain \/ Propagate \/ CallerAnnounces \/ RetryFires \/ HealRuns \/ HealEnds \/ Close \/ Closed \/ RestartNode
    \/ \E o \in Publishers : AnnouncementSettles(o)
    \/ \E p \in Peers : PeerPings(p)

RuntimeSpec == RuntimeInit /\ [][RuntimeNext]_runtimeVars

---------------------------------------------------------------------------

(* A node that reports itself ready has its current record with every      *)
(* required peer: acknowledgements of an older record, and of announcements *)
(* overtaken by a renewal or by churn, do not count                        *)
(* (peerRecordPropagationReady, #recordPeerRecordPropagation).             *)
ReadyMeansPlaced == Ready => \A p \in placed.targets : held[p] = local

(* Readiness closes at once when an accepted record changes the required   *)
(* peers: a ready node's targets are the peers closest to it now           *)
(* (#stagePeerRecordPropagation).  The code takes the targets from the     *)
(* routing table at a publication, a renewal and an accepted record only;  *)
(* a sweep, a record seen again, a caller's announcement and a renewal     *)
(* that is not announced leave others, until the next of those three.      *)
ReadyFollowsChurn == Active /\ ~ unstaged /\ Ready => closest \subseteq AckedFor(local)

(* A change that is told of, an accepted record or a sweep, is never lost  *)
(* to the repair of the DHT records: it waits for a timer, or for the end  *)
(* of the run it came too late for                                         *)
(* (#scheduleDhtRecordRebalance, #runDhtRecordRebalance).                  *)
ChurnIsRepaired == Active /\ heal.stale => heal.timer \/ (heal.running /\ heal.dirty)

(* A sequence names one record: durability precedes dissemination, so that *)
(* no restart mints another record with a sequence that peers have seen    *)
(* (renewPeerRecord).                                                      *)
SequenceNamesOneRecord == \A r, s \in heard : r.seq = s.seq => r = s

---------------------------------------------------------------------------
(* What is inductive.                                                      *)

(* The node's record is the one of its process and sequence, from start on. *)
OwnIsCurrent ==
    local = IF phase = "down" THEN NoOwnRecord ELSE [seq |-> seq, boot |-> boot]

\* A record this process made.
Made(rec) == rec # NoOwnRecord /\ rec.boot = boot /\ rec.seq <= seq

(* What is announced, retried or acknowledged is a record of this process,  *)
(* and none is newer than its own.                                          *)
NothingNewer ==
    /\ \A o \in Publishers : publish[o] # NoOperation => publish[o].to # {} /\ Made(publish[o].rec)
    /\ retry # NoOperation => retry.to # {} /\ Made(retry.rec)
    /\ acked.rec # NoOwnRecord => Made(acked.rec)

(* Who acknowledged the node's record has it.                              *)
AckedHold == local # NoOwnRecord /\ acked.rec = local => \A p \in acked.nodes : held[p] = local

(* The record of an active node is placed with the peers closest to it,    *)
(* unless the table or the targets changed without staging.                *)
PlacedNearest == Active /\ ~ unstaged /\ placed.rec = local => placed.targets = closest

HealOneAtATime == ~ (heal.running /\ heal.timer)

(* A process that has not started has nothing under way.                   *)
DownIsQuiet ==
    phase = "down" => /\ placed = NoPlacement /\ acked = [rec |-> NoOwnRecord, nodes |-> {}]
                      /\ retry = NoOperation /\ renewal = "none" /\ ~ heal.stale
                      /\ \A o \in Publishers : publish[o] = NoOperation

RuntimeInv ==
    /\ RuntimeTypeOK /\ OwnIsCurrent /\ NothingNewer /\ AckedHold /\ PlacedNearest
    /\ HealOneAtATime /\ ChurnIsRepaired /\ DownIsQuiet

=============================================================================
