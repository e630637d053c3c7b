------------------------------- MODULE MCNode -------------------------------
(****************************************************************************)
(* Parts of one node that queue, lease, store, relay and persist work, in   *)
(* one run: each behaviour is one of one part, and focus tells which.       *)
(*   host     the adapter host without a ledger, three NEEDs for two places *)
(*   rpc      three RPCs over two connections to one peer, in two lanes     *)
(*   mailbox  three envelopes through the polling relay                     *)
(*   persist  three barriers over the state file, a failed write, a crash   *)
(*   dht      two puts to a quorum of two and a restart, or one put, a      *)
(*            restart and a reconcile                                       *)
(*   p2p      two sends over three connections, superseded records, faults  *)
(*   log      two replicas of the transparency log, two events, a sync, two *)
(*            failed writes or crashes                                      *)
(*   runtime  a node whose closest peers change once, or that starts twice, *)
(*            and the placement, renewal and retries of its own record      *)
(*   client   an A2A execution, two discoveries of cards and a stream       *)
(*   index    three calls of the semantic router on two contexts that share *)
(*            a block, and a crash                                          *)
(*   flights  three queries of two contexts through one lane                *)
(* The NEEDs, RPCs and calls are the interchangeable Items, which the       *)
(* envelopes and the barriers are too; the Nodes of the log are             *)
(* interchangeable, and so are the peers of the runtime, the sends and the  *)
(* discoveries.                                                             *)
(****************************************************************************)
EXTENDS NodePersistence, RelayMailbox, DhtReplication, P2pTransport, TransparencyLog,
        NodeRuntime, A2aClient, SequenceTheorems, FiniteSetTheorems, WellFoundedInduction, TLC, TLAPS

CONSTANTS Items, Peer, Near, Far

VARIABLES
    focus,
    v1, v2, v3, v4, v5, v6, v7, v8, v9, v10, v11, v12, v13, v14, v15, v16, v17, v18, v19
        \* shared by the host, the RPCs, the index and the flights

\* The directories of the overlay by distance, the records of a publisher, and
\* what happens around them.
Directories == <<Near, Far>>

Signed == {[seq |-> s, value |-> 1] : s \in 1..2}

Budget(p, r, c) == [puts |-> p, restarts |-> r, reconciles |-> c]

Rounds == {Budget(2, 1, 0), Budget(1, 1, 1)}

\* Artifacts a remote agent may answer with: none, one within the limit of a byte
\* or above it, and two that fit, that repeat an id or that are too large together.
Artifact(id, bytes) == [id |-> id, bytes |-> bytes]

FewParts ==
    {<<>>, <<Artifact(1, 1)>>, <<Artifact(1, 2)>>, <<Artifact(1, 0), Artifact(2, 1)>>,
     <<Artifact(1, 0), Artifact(1, 0)>>, <<Artifact(1, 1), Artifact(2, 0)>>,
     <<Artifact(1, 1), Artifact(2, 1)>>}

\* The contexts x and y share the block b2, which lives in a shard of its own.
BlocksOf == [r \in {"x", "y"} |-> IF r = "x" THEN {"b1", "b2"} ELSE {"b2", "b3"}]

ShardOf == [b \in {"b1", "b2", "b3"} |-> IF b = "b2" THEN "t" ELSE "s"]

Host == INSTANCE AdapterHost WITH
    Needs <- Items, Ledger <- FALSE, Paid <- FALSE, Senders <- {"requester"},
    MaxConcurrent <- 1, MaxPending <- 1, MaxTombstones <- 1, MaxDeliveries <- 1,
    MaxRetries <- 1, MaxRestarts <- 0, MaxFaults <- 0, running <- v1, loop <- v2,
    inFlight <- v3, pending <- v4, cancelled <- v5, pc <- v6, aborted <- v7,
    billing <- v8, supervisor <- v9, stop <- v10, interrupted <- v11, effect <- v12,
    executed <- v13, answered <- v14, unsettled <- v15, deliveries <- v16,
    retries <- v17, restarts <- v18, faults <- v19

Rpc == INSTANCE QuicRpc WITH
    Calls <- Items, Peers <- {Peer}, Lanes <- <<"critical", "background">>, LaneLimit <- 2,
    PerPeer <- 2, Connections <- 1..2, MaxGeneration <- 2, MaxClients <- 1,
    SupersededRetries <- 1, call <- v1, queues <- v2, pool <- v3, connecting <- v4,
    conn <- v5

Index == INSTANCE SemanticIndex WITH
    Calls <- Items, Roots <- {"x", "y"}, BlocksOf <- BlocksOf, ShardOf <- ShardOf,
    MaxCrashes <- 1, call <- v1, index <- v2, documents <- v3, vectors <- v4,
    indexFlight <- v5, blockFlight <- v6, results <- v7, rootFile <- v8, shardFile <- v9,
    shardQueue <- v10, crashes <- v11

Flights == INSTANCE SemanticFlights WITH
    Calls <- Items, Roots <- {"x", "y"}, Queries <- {"p", "q"}, MaxInvalidations <- 1,
    call <- v1, warmed <- v2, warmFlight <- v3, flight <- v4, tail <- v5, invalidations <- v6

\* The variables of a part that is not in focus have no meaning.
MailboxUnused ==
    /\ sender = 0 /\ item = 0 /\ queue = 0 /\ waiter = 0 /\ receiver = 0 /\ handled = 0

PersistUnused ==
    /\ version = 0 /\ disk = 0 /\ partial = 0 /\ requested = 0 /\ persisted = 0 /\ timer = 0
    /\ flush = 0 /\ barrier = 0 /\ node = 0 /\ failures = 0 /\ crashes = 0

DhtUnused ==
    /\ store = 0 /\ replicaDisk = 0 /\ expired = 0 /\ write = 0 /\ requests = 0
    /\ placement = 0 /\ confirmed = 0 /\ check = 0 /\ budget = 0

P2pUnused ==
    /\ send = 0 /\ record = 0 /\ recovery = 0 /\ pool = 0 /\ connecting = 0 /\ conn = 0
    /\ entered = 0 /\ faults = 0

LogUnused ==
    /\ up = 0 /\ log = 0 /\ file = 0 /\ unsaved = 0 /\ ingest = 0 /\ sync = 0
    /\ advertised = 0 /\ logFaults = 0

RuntimeUnused ==
    /\ phase = 0 /\ boot = 0 /\ seq = 0 /\ durable = 0 /\ local = 0 /\ closest = 0
    /\ placed = 0 /\ acked = 0 /\ publish = 0 /\ dirty = 0 /\ queued = 0 /\ retry = 0
    /\ renewal = 0 /\ unstaged = 0 /\ heal = 0 /\ held = 0 /\ heard = 0 /\ churn = 0

ClientUnused == discovery = 0 /\ fetch = 0 /\ exec = 0 /\ stream = 0

\* Of the shared variables a part uses the first ones; the rest stay 0.
UnusedFrom12 ==
    v12 = 0 /\ v13 = 0 /\ v14 = 0 /\ v15 = 0 /\ v16 = 0 /\ v17 = 0 /\ v18 = 0 /\ v19 = 0
UnusedFrom7 == v7 = 0 /\ v8 = 0 /\ v9 = 0 /\ v10 = 0 /\ v11 = 0 /\ UnusedFrom12
UnusedFrom6 == v6 = 0 /\ UnusedFrom7
UnusedFrom1 == v1 = 0 /\ v2 = 0 /\ v3 = 0 /\ v4 = 0 /\ v5 = 0 /\ UnusedFrom6
from12 == <<v12, v13, v14, v15, v16, v17, v18, v19>>
from7 == <<v7, v8, v9, v10, v11, from12>>
from6 == <<v6, from7>>
from1 == <<v1, v2, v3, v4, v5, from6>>

NamedUnused ==
    /\ MailboxUnused /\ PersistUnused /\ DhtUnused /\ P2pUnused /\ LogUnused
    /\ RuntimeUnused /\ ClientUnused

namedVars == <<mailboxVars, persistVars, dhtVars, p2pVars, logVars, runtimeVars, clientVars>>

MCInit ==
    \/ /\ focus = "mailbox" /\ MailboxInit
       /\ PersistUnused /\ DhtUnused /\ P2pUnused /\ LogUnused /\ RuntimeUnused
       /\ ClientUnused /\ UnusedFrom1
    \/ /\ focus = "persist" /\ PersistInit
       /\ MailboxUnused /\ DhtUnused /\ P2pUnused /\ LogUnused /\ RuntimeUnused
       /\ ClientUnused /\ UnusedFrom1
    \/ /\ focus = "dht" /\ DhtInit
       /\ MailboxUnused /\ PersistUnused /\ P2pUnused /\ LogUnused /\ RuntimeUnused
       /\ ClientUnused /\ UnusedFrom1
    \/ /\ focus = "p2p" /\ P2pInit
       /\ MailboxUnused /\ PersistUnused /\ DhtUnused /\ LogUnused /\ RuntimeUnused
       /\ ClientUnused /\ UnusedFrom1
    \/ /\ focus = "log" /\ LogInit
       /\ MailboxUnused /\ PersistUnused /\ DhtUnused /\ P2pUnused /\ RuntimeUnused
       /\ ClientUnused /\ UnusedFrom1
    \/ /\ focus = "runtime" /\ RuntimeInit
       /\ MailboxUnused /\ PersistUnused /\ DhtUnused /\ P2pUnused /\ LogUnused
       /\ ClientUnused /\ UnusedFrom1
    \/ /\ focus = "client" /\ ClientInit
       /\ MailboxUnused /\ PersistUnused /\ DhtUnused /\ P2pUnused /\ LogUnused
       /\ RuntimeUnused /\ UnusedFrom1
    \/ focus = "host" /\ Host!Init /\ NamedUnused
    \/ focus = "rpc" /\ Rpc!RpcInit /\ NamedUnused /\ UnusedFrom6
    \/ focus = "index" /\ Index!IndexInit /\ NamedUnused /\ UnusedFrom12
    \/ focus = "flights" /\ Flights!FlightsInit /\ NamedUnused /\ UnusedFrom7

MCNext ==
    \/ /\ focus = "mailbox" /\ MailboxNext
       /\ UNCHANGED <<focus, persistVars, dhtVars, p2pVars, logVars, runtimeVars,
                      clientVars, from1>>
    \/ /\ focus = "persist" /\ PersistNext
       /\ UNCHANGED <<focus, mailboxVars, dhtVars, p2pVars, logVars, runtimeVars,
                      clientVars, from1>>
    \/ /\ focus = "dht" /\ DhtNext
       /\ UNCHANGED <<focus, mailboxVars, persistVars, p2pVars, logVars, runtimeVars,
                      clientVars, from1>>
    \/ /\ focus = "p2p" /\ P2pNext
       /\ UNCHANGED <<focus, mailboxVars, persistVars, dhtVars, logVars, runtimeVars,
                      clientVars, from1>>
    \/ /\ focus = "log" /\ LogNext
       /\ UNCHANGED <<focus, mailboxVars, persistVars, dhtVars, p2pVars, runtimeVars,
                      clientVars, from1>>
    \/ /\ focus = "runtime" /\ RuntimeNext
       /\ UNCHANGED <<focus, mailboxVars, persistVars, dhtVars, p2pVars, logVars,
                      clientVars, from1>>
    \/ /\ focus = "client" /\ ClientNext
       /\ UNCHANGED <<focus, mailboxVars, persistVars, dhtVars, p2pVars, logVars,
                      runtimeVars, from1>>
    \/ focus = "host" /\ Host!Next /\ UNCHANGED <<focus, namedVars>>
    \/ focus = "rpc" /\ Rpc!RpcNext /\ UNCHANGED <<focus, namedVars, from6>>
    \/ focus = "index" /\ Index!IndexNext /\ UNCHANGED <<focus, namedVars, from12>>
    \/ focus = "flights" /\ Flights!FlightsNext /\ UNCHANGED <<focus, namedVars, from7>>

MCSpec == MCInit /\ [][MCNext]_<<focus, namedVars, from1>>

ItemSymmetry == Permutations(Items) \cup Permutations(Nodes)

-----------------------------------------------------------------------------
ASSUME NodeConstants == Host!HostAssumption /\ PersistAssumption

\* HeldOnceAndBounded, ReservationsAccounted and CancelledWorkStops of AdapterHost
\* without a ledger: no NEED is held twice, the running and the waiting stay
\* within their limits together, every reservation is settled, and cancelled
\* work neither waits nor runs on without having been told to abort.
HostSound ==
    focus = "host" => /\ Host!TypeOK /\ Host!HeldOnceAndBounded /\ Host!ReservationsAccounted
                      /\ Host!CancelledWorkStops

\* LanesWorkConserving and PoolSound: no RPC waits while its lane has room, and
\* leases, the pool and the connections agree whatever is superseded meanwhile.
RpcSound == focus = "rpc" => Rpc!RpcTypeOK /\ Rpc!LanesWorkConserving /\ Rpc!PoolSound

\* RelayedOnce, ResultIsTheHandlers and WaitsOnlyForNothing of RelayMailbox: an
\* envelope runs once, its sender gets what its handler returned, and the
\* recipient never sleeps while an envelope waits for it.
MailboxSound ==
    focus = "mailbox" => /\ MailboxTypeOK /\ RelayedOnce
                         /\ ResultIsTheHandlers /\ WaitsOnlyForNothing

\* BarrierIsDurable and NoChangeForgotten of NodePersistence: what persistState
\* confirmed is in the state file, and a change is always on its way there.
BarriersAreDurable ==
    focus = "persist" => /\ PersistTypeOK
                         /\ BarrierIsDurable /\ NoChangeForgotten

\* ConfirmedIsDurable of DhtReplication: a put() that returned is on the disks of
\* WriteQuorum - 1 replicas besides the publisher, through restarts.
QuorumIsDurable == focus = "dht" => DhtTypeOK /\ ConfirmedIsDurable

\* EnvelopeEntersOnce and NeverClosedUnderneath of P2pTransport: a retry or a
\* fallback never sends an envelope that may have arrived, and no connection is
\* closed under a send that leases it.
P2pSound == focus = "p2p" => P2pTypeOK /\ EnvelopeEntersOnce /\ NeverClosedUnderneath

\* AckMeansHeld and EntriesBacked of TransparencyLog: what a sync acknowledged the
\* peer holds, and what a replica serves is in its file, on its way there or marked
\* as one whose write failed.
LogSound == focus = "log" => LogTypeOK /\ AckMeansHeld /\ EntriesBacked

\* ReadyMeansPlaced, ReadyFollowsChurn and ChurnIsRepaired of NodeRuntime: a node
\* says it is ready only while its record is placed; an accepted record closes its
\* readiness at once; and it repairs what churn undid.
RuntimeSound ==
    focus = "runtime" => /\ RuntimeTypeOK /\ ReadyMeansPlaced
                         /\ ReadyFollowsChurn /\ ChurnIsRepaired

\* TaskStaysItsOwn of A2aClient: a call and a stream of the A2A client stay with
\* one task.
OneTaskPerCall == focus = "client" => ClientTypeOK /\ TaskStaysItsOwn

\* ReadyIsDurable, PreparedIsOnDisk and FlightsFly of SemanticIndex, LanesSound of
\* SemanticFlights: a context called ready has all its vectors on disk, whatever
\* prepare, publish and purge raced before; a preparation that ended leaves its
\* index ready on disk, unless one failed or the root was purged; nobody waits for
\* work that no call is doing; and a query runs once at a time, whatever its root,
\* and its lane goes on.
SemanticSound ==
    /\ focus = "index" => /\ Index!IndexTypeOK /\ Index!ReadyIsDurable
                       /\ Index!PreparedIsOnDisk /\ Index!FlightsFly
    /\ focus = "flights" => Flights!FlightsTypeOK /\ Flights!LanesSound

-----------------------------------------------------------------------------
(* The state file: proofs, for every set of barriers and every bound.      *)

\* A flush that does not write yet.
LEMMA Unwritten ==
    ASSUME PersistAssumption
    PROVE  /\ NoFlush \in [pc : {"none", "pending", "saving"}, gen : Nat, snap : 0..MaxVersion]
           /\ PendingFlush
                \in [pc : {"none", "pending", "saving"}, gen : Nat, snap : 0..MaxVersion]
BY DEF PersistAssumption, NoFlush, PendingFlush

LEMMA PersistInvInit == PersistAssumption /\ PersistInit => PersistInv
<1> SUFFICES ASSUME PersistAssumption, PersistInit PROVE PersistInv OBVIOUS
<1> USE DEF PersistAssumption, PersistInit, NoFlush
<1>1. \A b \in Barriers : barrier[b].pc = "new" BY DEF NoBarrier
<1>2. PersistTypeOK
  <2>1. NoBarrier \in [pc : {"new", "waiting", "returned", "failed"}, gen : Nat, covers : 0..MaxVersion]
    BY DEF NoBarrier
  <2>2. barrier \in [Barriers -> [pc : {"new", "waiting", "returned", "failed"},
                                  gen : Nat, covers : 0..MaxVersion]]
    BY <2>1
  <2>3. version \in 0..MaxVersion /\ disk \in 0..MaxVersion OBVIOUS
  <2>4. requested \in Nat /\ persisted \in 0..requested OBVIOUS
  <2>5. timer \in BOOLEAN /\ partial \in BOOLEAN OBVIOUS
  <2>6. failures \in 0..MaxFailures /\ crashes \in 0..MaxCrashes OBVIOUS
  <2>7. node \in {"loading", "ready", "closing", "closed"} OBVIOUS
  <2>8. flush \in [pc : {"none", "pending", "saving"}, gen : Nat, snap : 0..MaxVersion]
    BY Unwritten
  <2> QED BY <2>2, <2>3, <2>4, <2>5, <2>6, <2>7, <2>8 DEF PersistTypeOK
<1>3. WaitersKnown /\ SnapshotCovers /\ BarrierIsDurable
  BY <1>1 DEF WaitersKnown, SnapshotCovers, BarrierIsDurable
<1>4. DiskBehind /\ LoadingIsQuiet /\ NoChangeForgotten
  BY <1>1 DEF DiskBehind, LoadingIsQuiet, NoChangeForgotten
<1> QED BY <1>2, <1>3, <1>4 DEF PersistInv

LEMMA HydratePersistInv == PersistAssumption /\ PersistInv /\ Hydrate => PersistInv'
BY DEF PersistInv, PersistAssumption, PersistTypeOK, WaitersKnown, SnapshotCovers, DiskBehind, LoadingIsQuiet,
       BarrierIsDurable, NoChangeForgotten, Hydrate

LEMMA ChangePersistInv == PersistAssumption /\ PersistInv /\ Change => PersistInv'
<1> SUFFICES ASSUME PersistAssumption, PersistInv, Change PROVE PersistInv' OBVIOUS
<1> USE DEF PersistInv, PersistAssumption, PersistTypeOK, Change
<1>1. PersistTypeOK' BY DEF Checkpoint
<1>2. WaitersKnown' BY DEF WaitersKnown
<1>3. SnapshotCovers' BY DEF SnapshotCovers
<1>4. DiskBehind' /\ LoadingIsQuiet' BY DEF DiskBehind, LoadingIsQuiet
<1>5. BarrierIsDurable' BY DEF BarrierIsDurable
<1>6. NoChangeForgotten' BY DEF NoChangeForgotten, Checkpoint
<1> QED BY <1>1, <1>2, <1>3, <1>4, <1>5, <1>6

LEMMA TimerFiresPersistInv == PersistAssumption /\ PersistInv /\ TimerFires => PersistInv'
<1> SUFFICES ASSUME PersistAssumption, PersistInv, TimerFires PROVE PersistInv' OBVIOUS
<1> USE DEF PersistInv, PersistAssumption, PersistTypeOK, TimerFires, EnsureFlush, NoFlush, PendingFlush
<1>1. node # "loading" BY DEF LoadingIsQuiet
<1>2. PersistTypeOK' /\ DiskBehind' /\ LoadingIsQuiet'
  BY <1>1, Unwritten DEF DiskBehind, LoadingIsQuiet
<1>3. WaitersKnown' /\ SnapshotCovers' BY DEF WaitersKnown, SnapshotCovers
<1>4. BarrierIsDurable' /\ NoChangeForgotten' BY DEF BarrierIsDurable, NoChangeForgotten
<1> QED BY <1>2, <1>3, <1>4

LEMMA BarrierPersistInv == \A b \in Barriers : PersistAssumption /\ PersistInv /\ Barrier(b) => PersistInv'
<1> SUFFICES ASSUME NEW b \in Barriers, PersistAssumption, PersistInv, Barrier(b) PROVE PersistInv' OBVIOUS
<1> USE DEF PersistInv, PersistAssumption, PersistTypeOK, Barrier, EnsureFlush, NoFlush, PendingFlush
<1>1. PersistTypeOK'
  <2>1. [pc |-> "waiting", gen |-> requested + 1, covers |-> version]
          \in [pc : {"new", "waiting", "returned", "failed"}, gen : Nat, covers : 0..MaxVersion]
    OBVIOUS
  <2>2. barrier' \in [Barriers -> [pc : {"new", "waiting", "returned", "failed"},
                                   gen : Nat, covers : 0..MaxVersion]]
    BY <2>1
  <2>3. flush' \in [pc : {"none", "pending", "saving"}, gen : Nat, snap : 0..MaxVersion]
    BY Unwritten
  <2>4. persisted' \in 0..requested' OBVIOUS
  <2>5. timer' \in BOOLEAN OBVIOUS
  <2> QED BY <2>2, <2>3, <2>4, <2>5
<1>2. /\ barrier'[b] = [pc |-> "waiting", gen |-> requested + 1, covers |-> version]
      /\ \A c \in Barriers \ {b} : barrier'[c] = barrier[c]
  OBVIOUS
<1>3. WaitersKnown' BY <1>2 DEF WaitersKnown
<1>4. SnapshotCovers' BY <1>2 DEF SnapshotCovers
<1>5. DiskBehind' /\ LoadingIsQuiet' BY DEF DiskBehind, LoadingIsQuiet
<1>6. BarrierIsDurable' BY <1>2 DEF BarrierIsDurable
<1>7. NoChangeForgotten' BY DEF NoChangeForgotten
<1> QED BY <1>1, <1>3, <1>4, <1>5, <1>6, <1>7

LEMMA TakeSnapshotPersistInv == PersistAssumption /\ PersistInv /\ TakeSnapshot => PersistInv'
<1> SUFFICES ASSUME PersistAssumption, PersistInv, TakeSnapshot PROVE PersistInv' OBVIOUS
<1> USE DEF PersistInv, PersistAssumption, PersistTypeOK, TakeSnapshot, NoFlush
<1>1. node # "loading" BY DEF LoadingIsQuiet
<1>2. PersistTypeOK' /\ DiskBehind' /\ LoadingIsQuiet' BY <1>1 DEF DiskBehind, LoadingIsQuiet
<1>3. WaitersKnown' BY DEF WaitersKnown
<1>4. SnapshotCovers' BY <1>1 DEF SnapshotCovers, WaitersKnown, DiskBehind
<1>5. BarrierIsDurable' /\ NoChangeForgotten' BY DEF BarrierIsDurable, NoChangeForgotten
<1> QED BY <1>2, <1>3, <1>4, <1>5

LEMMA SavedPersistInv == PersistAssumption /\ PersistInv /\ Saved => PersistInv'
<1> SUFFICES ASSUME PersistAssumption, PersistInv, Saved PROVE PersistInv' OBVIOUS
<1> USE DEF PersistInv, PersistAssumption, PersistTypeOK, Saved, NoFlush, PendingFlush
<1>1. \A b \in Barriers :
        /\ barrier'[b].gen = barrier[b].gen /\ barrier'[b].covers = barrier[b].covers
        /\ barrier'[b].pc = barrier[b].pc
           \/ /\ barrier[b].pc = "waiting" /\ barrier'[b].pc = "returned"
              /\ barrier[b].gen <= flush.gen
  BY DEF Wake
<1>2. barrier' \in [Barriers -> [pc : {"new", "waiting", "returned", "failed"},
                                 gen : Nat, covers : 0..MaxVersion]]
  BY DEF Wake
<1>3. PersistTypeOK'
  <2>1. flush' \in [pc : {"none", "pending", "saving"}, gen : Nat, snap : 0..MaxVersion]
    BY Unwritten
  <2>2. persisted' \in 0..requested' BY DEF SnapshotCovers
  <2> QED BY <1>2, <2>1, <2>2
<1>4. WaitersKnown' BY <1>1 DEF WaitersKnown
<1>5. flush'.pc # "saving" OBVIOUS
<1>6. SnapshotCovers' BY <1>5 DEF SnapshotCovers
<1>7. node # "loading" /\ node' # "loading" BY DEF LoadingIsQuiet
<1>8. DiskBehind' /\ LoadingIsQuiet' BY <1>7 DEF DiskBehind, LoadingIsQuiet, SnapshotCovers
<1>9. BarrierIsDurable' BY <1>1 DEF BarrierIsDurable, SnapshotCovers
<1>10. NoChangeForgotten' BY DEF NoChangeForgotten
<1> QED BY <1>3, <1>4, <1>6, <1>8, <1>9, <1>10

\* Failing the barriers that wait, as a failed save and a crash do.
LEMMA FailedWaiters ==
    ASSUME PersistInv,
           barrier' = [b \in Barriers |-> IF barrier[b].pc = "waiting"
                                          THEN [barrier[b] EXCEPT !.pc = "failed"] ELSE barrier[b]]
    PROVE  /\ barrier' \in [Barriers -> [pc : {"new", "waiting", "returned", "failed"},
                                         gen : Nat, covers : 0..MaxVersion]]
           /\ \A b \in Barriers : /\ barrier'[b].pc # "waiting"
                                  /\ barrier'[b].pc = "returned" => barrier'[b] = barrier[b]
BY DEF PersistInv, PersistAssumption, PersistTypeOK

LEMMA SaveFailsPersistInv == PersistAssumption /\ PersistInv /\ SaveFails => PersistInv'
<1> SUFFICES ASSUME PersistAssumption, PersistInv, SaveFails PROVE PersistInv' OBVIOUS
<1> USE DEF PersistInv, PersistAssumption, PersistTypeOK, SaveFails, NoFlush
<1>1. PersistTypeOK' BY FailedWaiters
<1>2. WaitersKnown' /\ SnapshotCovers' BY FailedWaiters DEF WaitersKnown, SnapshotCovers
<1>3. DiskBehind' /\ LoadingIsQuiet' BY DEF DiskBehind, LoadingIsQuiet
<1>4. BarrierIsDurable' BY FailedWaiters DEF BarrierIsDurable
<1>5. NoChangeForgotten' BY DEF NoChangeForgotten
<1> QED BY <1>1, <1>2, <1>3, <1>4, <1>5

LEMMA CrashPersistInv == PersistAssumption /\ PersistInv /\ Crash => PersistInv'
<1> SUFFICES ASSUME PersistAssumption, PersistInv, Crash PROVE PersistInv' OBVIOUS
<1> USE DEF PersistInv, PersistAssumption, PersistTypeOK, Crash, NoFlush
<1>1. PersistTypeOK'
  <2>1. disk' \in 0..MaxVersion OBVIOUS
  <2>2. persisted' \in 0..requested' OBVIOUS
  <2>3. partial' \in BOOLEAN /\ timer' \in BOOLEAN OBVIOUS
  <2>4. version' \in 0..MaxVersion OBVIOUS
  <2> QED BY <2>1, <2>2, <2>3, <2>4, FailedWaiters, Unwritten
<1>2. WaitersKnown' /\ SnapshotCovers' BY FailedWaiters DEF WaitersKnown, SnapshotCovers
<1>3. DiskBehind' /\ LoadingIsQuiet' BY FailedWaiters DEF DiskBehind, LoadingIsQuiet
<1>4. disk' \in Nat /\ disk <= disk' BY DEF SnapshotCovers
<1>5. BarrierIsDurable' BY FailedWaiters, <1>4 DEF BarrierIsDurable
<1>6. NoChangeForgotten' BY DEF NoChangeForgotten
<1> QED BY <1>1, <1>2, <1>3, <1>5, <1>6

LEMMA StutterPersistInv == PersistInv /\ UNCHANGED persistVars => PersistInv'
BY DEF PersistInv, PersistAssumption, PersistTypeOK, WaitersKnown, SnapshotCovers, DiskBehind, LoadingIsQuiet,
       BarrierIsDurable, NoChangeForgotten, persistVars

LEMMA PersistInvNext ==
    ASSUME PersistAssumption, PersistInv, [PersistNext]_persistVars
    PROVE  PersistInv'
BY HydratePersistInv, ChangePersistInv, TimerFiresPersistInv, BarrierPersistInv,
   TakeSnapshotPersistInv, SavedPersistInv, SaveFailsPersistInv, CrashPersistInv,
   StutterPersistInv DEF PersistNext

-----------------------------------------------------------------------------
(* The mailbox: proofs, for any number of envelopes.  RelayedOnce is not   *)
(* inductive: that no envelope is handed out twice rests on Untouched, and *)
(* that a sender is given what its handler returned on ResultsAreReal,     *)
(* which carries the outcome from the handler over the report to the       *)
(* entry.                                                                  *)

LEMMA Least == ASSUME NEW T, T \subseteq Nat, T # {} PROVE \E x \in T : \A y \in T : x <= y
<1> DEFINE R == {ss \in Nat \X Nat : ss[1] < ss[2]}
<1>1. IsWellFoundedOn(R, Nat)
  BY NatLessThanWellFounded DEF OpToRel
<1>2. \A a, b \in Nat : a < b => <<a, b>> \in R
  OBVIOUS
<1> HIDE DEF R
<1>3. PICK x \in T : \A y \in T : ~(<<y, x>> \in R)
  BY <1>1, WFMin
<1>4. \A y \in T : ~(y < x)
  BY <1>2, <1>3
<1> QED
  BY <1>4

\* nextFor hands out an id of the queue that is still queued, or finds none.
LEMMA NextForGives ==
    ASSUME NEW q \in Seq(Messages), NEW items \in Entries
    PROVE  /\ NextFor(q, items).queue \in Seq(Messages)
           /\ NextFor(q, items).msg = <<>> =>
                 /\ NextFor(q, items).items = items /\ NextFor(q, items).queue = <<>>
                 /\ \A i \in DOMAIN q : items[q[i]].state # "queued"
           /\ NextFor(q, items).msg # <<>> =>
                 \E m \in Messages :
                    /\ items[m].state = "queued" /\ NextFor(q, items).msg = <<m>>
                    /\ NextFor(q, items).items \in Entries
                    /\ NextFor(q, items).items[m] = [state |-> "delivered", out |-> items[m].out]
                    /\ \A n \in Messages : n # m => NextFor(q, items).items[n] = items[n]
                    /\ \E i \in DOMAIN q : q[i] = m
<1> DEFINE live == {i \in DOMAIN q : items[q[i]].state = "queued"}
           first == CHOOSE j \in live : \A k \in live : j <= k
<1>1. CASE live = {}
  BY <1>1, EmptySeq DEF NextFor
<1>2. CASE live # {}
  <2>1. Len(q) \in Nat /\ DOMAIN q = 1..Len(q) /\ \A j \in 1..Len(q) : q[j] \in Messages
    BY ElementOfSeq, LenProperties
  <2>2. live \subseteq Nat
    BY <2>1
  <2>3. \E j \in live : \A k \in live : j <= k
    BY <1>2, <2>2, Least
  <2>4. first \in live
    BY <2>3
  <2>5. NextFor(q, items) = [queue |-> SubSeq(q, first + 1, Len(q)), msg |-> <<q[first]>>,
                             items |-> [items EXCEPT ![q[first]].state = "delivered"]]
    BY SMTT(60), <1>2 DEF NextFor
  <2>6. PICK i \in live :
           NextFor(q, items) = [queue |-> SubSeq(q, i + 1, Len(q)), msg |-> <<q[i]>>,
                                items |-> [items EXCEPT ![q[i]].state = "delivered"]]
    BY <2>4, <2>5
  <2>7. i \in 1..Len(q) /\ q[i] \in Messages /\ items[q[i]].state = "queued"
    BY <2>1
  <2>8. SubSeq(q, i + 1, Len(q)) \in Seq(Messages)
    BY <2>1, <2>7, SubSeqProperties
  <2>9. /\ NextFor(q, items).queue = SubSeq(q, i + 1, Len(q)) /\ NextFor(q, items).msg = <<q[i]>>
        /\ NextFor(q, items).items = [items EXCEPT ![q[i]].state = "delivered"]
    BY SMTT(60), <2>6
  <2>10. NextFor(q, items).msg # <<>>
    BY <2>9
  <2>12. /\ NextFor(q, items).items \in Entries
         /\ NextFor(q, items).items[q[i]] = [state |-> "delivered", out |-> items[q[i]].out]
         /\ \A n \in Messages : n # q[i] => NextFor(q, items).items[n] = items[n]
    BY <2>7, <2>9 DEF Entries
  <2>11. i \in DOMAIN q
    BY <2>1, <2>7
  <2> HIDE DEF live
  <2> QED
    BY <2>7, <2>8, <2>9, <2>10, <2>11, <2>12, Zenon
<1> QED
  BY <1>1, <1>2

\* Leaving the queue takes nothing into it.
LEMMA UnqueuedKeeps ==
    ASSUME NEW S, NEW q \in Seq(S), NEW m
    PROVE  Unqueued(q, m) \in Seq(S)
<1> DEFINE places == {j \in DOMAIN q : q[j] = m}
           i == CHOOSE j \in places : TRUE
<1>1. CASE places = {}
  BY <1>1 DEF Unqueued
<1>2. CASE places # {}
  <2>1. Len(q) \in Nat /\ i \in 1..Len(q) /\ \A j \in 1..Len(q) : q[j] \in S
    BY <1>2, LenProperties, ElementOfSeq
  <2>2. Unqueued(q, m) = SubSeq(q, 1, i - 1) \o SubSeq(q, i + 1, Len(q))
    BY <1>2 DEF Unqueued
  <2> HIDE DEF i
  <2>3. /\ i - 1 \in Int /\ i + 1 \in Int /\ \A j \in 1..(i - 1) : q[j] \in S
        /\ \A j \in (i + 1)..Len(q) : q[j] \in S
    BY <2>1
  <2>4. SubSeq(q, 1, i - 1) \in Seq(S) /\ SubSeq(q, i + 1, Len(q)) \in Seq(S)
    BY <2>1, <2>3, SubSeqProperties
  <2> QED
    BY <2>2, <2>4, ConcatProperties
<1> QED
  BY <1>1, <1>2

\* The records of the types, field by field.
LEMMA MailboxTyped ==
    ASSUME MailboxTypeOK, NEW m \in Messages
    PROVE  /\ item[m] = [state |-> item[m].state, out |-> item[m].out]
           /\ handled[m] = [runs |-> handled[m].runs, out |-> handled[m].out]
           /\ receiver = [pc |-> receiver.pc, msg |-> receiver.msg, out |-> receiver.out]
BY DEF MailboxTypeOK, Entries

LEMMA MailboxInvInit == MailboxInit => MailboxInv
<1> SUFFICES ASSUME MailboxInit PROVE MailboxInv
  OBVIOUS
<1>1. MailboxTypeOK
  BY EmptySeq DEF MailboxInit, MailboxTypeOK, Entries, Nobody
<1>2. Untouched /\ Working /\ ResultsAreReal /\ RelayedOnce /\ WaitsOnlyForNothing
  BY DEF MailboxInit, Untouched, Working, ResultsAreReal, RelayedOnce, WaitsOnlyForNothing,
         Holds, Reports, Nobody
<1> QED
  BY <1>1, <1>2 DEF MailboxInv

\* A step by which no handler runs and nothing is reported: envelopes are queued,
\* handed to the recipient or dropped, and senders learn what the relay keeps.
LEMMA Moves ==
    ASSUME MailboxInv, MailboxTypeOK', UNCHANGED handled,
           \A m \in Messages :
              \/ item'[m] = item[m]
              \/ /\ item'[m].out = item[m].out /\ (item[m].state = "absent" => sender'[m] # "new")
                 /\ \/ item'[m].state = "gone"
                    \/ /\ item[m].state \in {"absent", "queued"}
                       /\ item'[m].state \in {"queued", "delivered"},
           \A m \in Messages :
              \/ sender'[m] = sender[m]
              \/ /\ sender'[m] # "new"
                 /\ sender'[m] = "result" => item'[m] = [state |-> "gone", out |-> "result"],
           \/ receiver' = receiver
           \/ ~(\E m \in Messages : Holds(m)') /\ Working'
           \/ \E m \in Messages : /\ receiver' = [pc |-> "handling", msg |-> <<m>>, out |-> "none"]
                                  /\ item[m].state \in {"absent", "queued"}
                                  /\ item'[m].state = "delivered",
           WaitsOnlyForNothing'
    PROVE  MailboxInv'
<1>1. MailboxTypeOK /\ Untouched /\ Working /\ ResultsAreReal /\ RelayedOnce
  BY DEF MailboxInv
<1>2. ASSUME NEW m \in Messages, item'[m].state \in {"absent", "queued"}
      PROVE  item[m].state \in {"absent", "queued"} /\ item'[m].out = item[m].out
  BY <1>2
<1>3. Untouched'
  <2> SUFFICES ASSUME NEW m \in Messages
               PROVE  /\ sender'[m] = "new" => item'[m].state = "absent"
                      /\ item'[m].state \in {"absent", "queued"} =>
                            ~Holds(m)' /\ item'[m].out = "none" /\ handled'[m].runs = 0
    BY DEF Untouched
  <2>1. sender'[m] = "new" => item'[m].state = "absent"
    BY <1>1 DEF Untouched
  <2>2. ASSUME item'[m].state \in {"absent", "queued"}
        PROVE  ~Holds(m)' /\ item'[m].out = "none" /\ handled'[m].runs = 0
    <3>1. ~Holds(m) /\ item'[m].out = "none" /\ handled'[m].runs = 0
      BY <1>1, <1>2, <2>2 DEF Untouched
    <3>2. ASSUME NEW n \in Messages, item'[n].state = "delivered",
                 receiver' = [pc |-> "handling", msg |-> <<n>>, out |-> "none"]
          PROVE  ~Holds(m)'
      BY <2>2, <3>2 DEF Holds
    <3> QED
      BY <3>1, <3>2 DEF Holds
  <2> QED
    BY <2>1, <2>2
<1>4. Working'
  <2>1. CASE receiver' = receiver
    <3>1. ASSUME NEW m \in Messages, Holds(m)', receiver'.pc = "handling"
          PROVE  handled'[m].runs = 0 /\ item'[m].out = "none"
      <4>1. handled[m].runs = 0 /\ item[m].out = "none"
        BY <1>1, <2>1, <3>1 DEF Holds, Working
      <4> QED
        BY <4>1
    <3> QED
      BY <1>1, <2>1, <3>1 DEF Working
  <2>2. ASSUME NEW m \in Messages, item[m].state \in {"absent", "queued"}, item'[m].state = "delivered",
               receiver' = [pc |-> "handling", msg |-> <<m>>, out |-> "none"]
        PROVE  Working'
    <3>1. handled'[m].runs = 0 /\ item'[m].out = "none"
      BY <1>1, <2>2 DEF Untouched
    <3> QED
      BY <2>2, <3>1 DEF Working, Holds
  <2> QED
    BY <2>1, <2>2
<1>5. ResultsAreReal'
  <2> SUFFICES ASSUME NEW m \in Messages
               PROVE  /\ (item'[m].out = "result" \/ Reports(m)') => handled'[m] = [runs |-> 1, out |-> "result"]
                      /\ item'[m].state = "completed" => item'[m].out # "none"
                      /\ sender'[m] = "result" => item'[m] = [state |-> "gone", out |-> "result"]
    BY DEF ResultsAreReal
  <2>1. item'[m].out = item[m].out
    OBVIOUS
  <2>2. Reports(m)' => Reports(m)
    BY DEF Reports, Holds
  <2>3. sender[m] = "result" => item'[m] = [state |-> "gone", out |-> "result"]
    <3>1. ASSUME sender[m] = "result" PROVE item[m].state = "gone" /\ item[m].out = "result"
      BY <1>1, <3>1 DEF ResultsAreReal
    <3>2. item'[m] = [state |-> item'[m].state, out |-> item'[m].out]
      BY DEF MailboxTypeOK, Entries
    <3> QED
      BY <2>1, <3>1, <3>2
  <2>4. item'[m].state = "completed" => item'[m].out # "none"
    BY <1>1 DEF ResultsAreReal
  <2> QED
    BY <1>1, <2>1, <2>2, <2>3, <2>4 DEF ResultsAreReal
<1> QED
  BY <1>1, <1>3, <1>4, <1>5 DEF MailboxInv, RelayedOnce

LEMMA QuietSteps ==
    ASSUME MailboxInv,
           \/ \E m \in Messages : PostLost(m) \/ SenderTimesOut(m)
           \/ PollEnds \/ WaiterCloses \/ StopReceiver \/ StartReceiver
           \/ UNCHANGED mailboxVars
    PROVE  MailboxInv'
<1>1. MailboxTypeOK /\ Working /\ WaitsOnlyForNothing
  BY DEF MailboxInv
<1>2. CASE UNCHANGED mailboxVars
  <2>1. MailboxTypeOK'
    BY <1>1, <1>2 DEF mailboxVars, MailboxTypeOK
  <2> QED
    BY <1>1, <1>2, <2>1, Moves DEF mailboxVars, WaitsOnlyForNothing
<1>3. ASSUME NEW m \in Messages, PostLost(m) \/ SenderTimesOut(m)
      PROVE  MailboxInv'
  <2>1. /\ UNCHANGED <<item, queue, waiter, receiver, handled>>
        /\ \E r \in {"error", "timeout"} : sender' = [sender EXCEPT ![m] = r]
    BY <1>3 DEF PostLost, SenderTimesOut
  <2>2. MailboxTypeOK'
    BY <1>1, <2>1 DEF MailboxTypeOK, Entries
  <2>3. \A n \in Messages : sender'[n] # sender[n] => sender'[n] \notin {"new", "result"}
    BY <1>1, <2>1 DEF MailboxTypeOK, Entries
  <2> QED
    BY <1>1, <2>1, <2>2, <2>3, Moves DEF WaitsOnlyForNothing
<1>4. CASE PollEnds \/ WaiterCloses \/ StopReceiver \/ StartReceiver
  <2>1. /\ UNCHANGED <<sender, item, queue, handled>>
        /\ waiter' \in {"none", "live", "abandoned"} /\ (waiter' # "none" => waiter # "none")
        /\ \/ receiver' = receiver \/ receiver' = Nobody
           \/ receiver.pc = "idle" /\ receiver' = [receiver EXCEPT !.pc = "stopped"]
    BY <1>1, <1>4 DEF PollEnds, WaiterCloses, StopReceiver, StartReceiver, MailboxTypeOK
  <2>2. \/ receiver' = receiver
        \/ /\ receiver'.pc \in {"idle", "stopped"} /\ receiver'.msg = <<>> /\ receiver'.out = "none"
           /\ receiver' \in [pc : {"idle", "polling", "handling", "reporting", "stopped"},
                             msg : {<<>>} \cup {<<n>> : n \in Messages},
                             out : {"none", "result", "error"}]
    BY <1>1, <2>1 DEF Working, Nobody, MailboxTypeOK
  <2>3. MailboxTypeOK'
    BY <1>1, <2>1, <2>2 DEF MailboxTypeOK, Entries
  <2>4. receiver' = receiver \/ (~(\E n \in Messages : Holds(n)') /\ Working')
    BY <2>2 DEF Holds, Working
  <2> QED
    BY <1>1, <2>1, <2>3, <2>4, Moves DEF WaitsOnlyForNothing
<1> QED
  BY <1>2, <1>3, <1>4

LEMMA DropSteps ==
    ASSUME MailboxInv, NEW m \in Messages, Expire(m) \/ FetchResult(m)
    PROVE  MailboxInv'
<1>1. MailboxTypeOK /\ WaitsOnlyForNothing /\ Untouched /\ ResultsAreReal
  BY DEF MailboxInv
<1>2. /\ item' = [item EXCEPT ![m].state = "gone"] /\ UNCHANGED <<waiter, receiver, handled>>
      /\ item[m].state # "absent"
  BY DEF Expire, FetchResult
<1>3. /\ item' \in Entries
      /\ item'[m] = [state |-> "gone", out |-> item[m].out]
      /\ \A n \in Messages : n # m => item'[n] = item[n]
  BY <1>1, <1>2 DEF MailboxTypeOK, Entries
<1>4. /\ queue' \in Seq(Messages)
      /\ \A i \in DOMAIN queue' : \E k \in DOMAIN queue : queue'[i] = queue[k]
  <2>1. CASE queue' = queue
    BY <1>1, <2>1 DEF MailboxTypeOK, Entries
  <2>2. CASE queue' = Unqueued(queue, m)
    <3>1. queue \in Seq(Messages)
      BY <1>1 DEF MailboxTypeOK, Entries
    <3>2. queue' \in Seq(Messages) /\ queue' \in Seq(Range(queue))
      BY <2>2, <3>1, UnqueuedKeeps, SeqOfRange
    <3>3. \A i \in DOMAIN queue' : queue'[i] \in Range(queue)
      BY <3>2, ElementOfSeq, LenProperties
    <3> QED
      BY <3>2, <3>3 DEF Range
  <2> QED
    BY <2>1, <2>2 DEF Expire, FetchResult
<1>5. /\ sender' \in [Messages -> {"new", "waiting", "result", "error", "timeout"}]
      /\ \A n \in Messages : n # m => sender'[n] = sender[n]
      /\ sender'[m] = sender[m] \/ sender'[m] \in {"error", item[m].out}
      /\ sender[m] = "new" => sender' = sender
      /\ sender'[m] = sender[m] \/ sender'[m] = "error" \/ item[m].state = "completed"
  <2>1. CASE Expire(m)
    BY <1>1, <2>1 DEF Expire, MailboxTypeOK
  <2>2. CASE FetchResult(m)
    <3>1. item[m].state = "completed" => item[m].out \in {"result", "error"}
      BY <1>1 DEF MailboxTypeOK, Entries, ResultsAreReal
    <3>2. PICK got \in {"error", item[m].out} :
             /\ sender' = [sender EXCEPT ![m] = got]
             /\ got = "error" \/ item[m].state = "completed"
      BY <2>2 DEF FetchResult
    <3>3. got \in {"result", "error"} /\ sender[m] = "waiting"
      BY <2>2, <3>1, <3>2 DEF FetchResult
    <3> QED
      BY <1>1, <3>2, <3>3 DEF MailboxTypeOK, Entries
  <2> QED
    BY <2>1, <2>2
<1>6. MailboxTypeOK'
  BY <1>1, <1>2, <1>3, <1>4, <1>5 DEF MailboxTypeOK, Entries
<1>7. WaitsOnlyForNothing'
  <2>1. \A n \in Messages : item'[n].state = "queued" => item[n].state = "queued"
    BY <1>3
  <2>2. \A i \in DOMAIN queue' : queue'[i] \in Messages
    BY <1>4, ElementOfSeq, LenProperties
  <2> QED
    BY <1>1, <1>2, <1>4, <2>1, <2>2 DEF WaitsOnlyForNothing
<1> QED
  BY ZenonT(60), <1>1, <1>2, <1>3, <1>5, <1>6, <1>7, Moves DEF Entries

LEMMA HandleStep == ASSUME MailboxInv, Handle PROVE MailboxInv'
<1>1. MailboxTypeOK /\ Untouched /\ Working /\ ResultsAreReal /\ RelayedOnce /\ WaitsOnlyForNothing
  BY DEF MailboxInv
<1>2. PICK m \in Messages : receiver.msg = <<m>>
  BY <1>1 DEF Handle, Working, MailboxTypeOK
<1>3. Holds(m) /\ receiver.pc = "handling" /\ receiver.msg[1] = m
  BY <1>2 DEF Handle, Holds
<1>4. PICK out \in {"result", "error"}, runs \in {0, 1} :
        /\ out = "result" => runs = 1
        /\ handled' = [handled EXCEPT ![m] = [runs |-> @.runs + runs, out |-> out]]
        /\ receiver' = [receiver EXCEPT !.pc = "reporting", !.out = out]
  BY <1>3 DEF Handle
<1>5. UNCHANGED <<sender, item, queue, waiter>>
  BY DEF Handle
<1>6. handled[m].runs = 0 /\ item[m].out = "none" /\ item[m].state \notin {"absent", "queued"}
  BY <1>1, <1>3 DEF Working, Untouched
<1>7. /\ handled'[m] = [runs |-> runs, out |-> out]
      /\ handled' \in [Messages -> [runs : Nat, out : {"none", "result", "error"}]]
      /\ \A n \in Messages : n # m => handled'[n] = handled[n]
  <2>1. handled[m].runs + runs = runs
    BY <1>6
  <2>2. handled' = [handled EXCEPT ![m] = [runs |-> runs, out |-> out]]
    BY <1>4, <2>1
  <2> QED
    BY <1>1, <2>2 DEF MailboxTypeOK, Entries
<1>8. /\ receiver'.pc = "reporting" /\ receiver'.msg = <<m>> /\ receiver'.out = out
      /\ receiver' \in [pc : {"idle", "polling", "handling", "reporting", "stopped"},
                        msg : {<<>>} \cup {<<n>> : n \in Messages},
                        out : {"none", "result", "error"}]
  BY <1>1, <1>2, <1>4 DEF MailboxTypeOK, Entries
<1>9. MailboxTypeOK'
  BY <1>1, <1>5, <1>7, <1>8 DEF MailboxTypeOK, Entries
<1>10. \A n \in Messages : Holds(n)' => n = m
  BY <1>8 DEF Holds
<1>11. Untouched'
  BY <1>1, <1>5, <1>6, <1>7, <1>10 DEF Untouched
<1>12. Working'
  BY <1>8 DEF Working
<1>13. ResultsAreReal'
  <2> SUFFICES ASSUME NEW n \in Messages
               PROVE  /\ (item'[n].out = "result" \/ Reports(n)') => handled'[n] = [runs |-> 1, out |-> "result"]
                      /\ item'[n].state = "completed" => item'[n].out # "none"
                      /\ sender'[n] = "result" => item'[n] = [state |-> "gone", out |-> "result"]
    BY DEF ResultsAreReal
  <2>1. CASE n # m
    BY <1>1, <1>5, <1>7, <1>10, <2>1 DEF ResultsAreReal, Reports
  <2>2. CASE n = m
    BY <1>1, <1>4, <1>5, <1>6, <1>7, <1>8, <2>2 DEF ResultsAreReal, Reports
  <2> QED
    BY <2>1, <2>2
<1>14. RelayedOnce' /\ WaitsOnlyForNothing'
  BY <1>1, <1>5, <1>7 DEF RelayedOnce, WaitsOnlyForNothing
<1> QED
  BY <1>9, <1>11, <1>12, <1>13, <1>14 DEF MailboxInv

LEMMA CompleteStep == ASSUME MailboxInv, Complete PROVE MailboxInv'
<1>1. MailboxTypeOK /\ Untouched /\ Working /\ ResultsAreReal /\ RelayedOnce /\ WaitsOnlyForNothing
  BY DEF MailboxInv
<1>2. PICK m \in Messages : receiver.msg = <<m>>
  BY <1>1 DEF Complete, Working, MailboxTypeOK
<1>3. /\ Holds(m) /\ receiver.pc = "reporting" /\ receiver.out \in {"result", "error"}
      /\ item[m].state \notin {"absent", "queued"}
  BY <1>1, <1>2 DEF Complete, Holds, Working, Untouched, MailboxTypeOK
<1>4. UNCHANGED <<sender, queue, waiter, handled>>
  BY DEF Complete
<1>5. \/ item' = item
      \/ item[m].state # "gone" /\ item' = [item EXCEPT ![m] = [state |-> "completed", out |-> receiver.out]]
  BY <1>2 DEF Complete
<1>6. receiver' = Nobody \/ receiver' = [receiver EXCEPT !.out = "error"]
  BY DEF Complete
<1>7. /\ item' \in Entries
      /\ \A n \in Messages : n # m => item'[n] = item[n]
      /\ \/ item'[m] = item[m]
         \/ item[m].state # "gone" /\ item'[m] = [state |-> "completed", out |-> receiver.out]
  <2>1. CASE item' = item
    BY <1>1, <2>1 DEF MailboxTypeOK, Entries
  <2>2. CASE item[m].state # "gone" /\ item' = [item EXCEPT ![m] = [state |-> "completed", out |-> receiver.out]]
    <3>1. [state |-> "completed", out |-> receiver.out]
            \in [state : {"absent", "queued", "delivered", "completed", "gone"},
                 out : {"none", "result", "error"}]
      BY <1>3
    <3>2. item'[m] = [state |-> "completed", out |-> receiver.out]
      BY <1>1, <2>2 DEF MailboxTypeOK, Entries
    <3>3. item' \in Entries
      BY <1>1, <2>2, <3>1 DEF MailboxTypeOK, Entries
    <3>4. \A n \in Messages : n # m => item'[n] = item[n]
      BY <1>1, <2>2 DEF MailboxTypeOK, Entries
    <3> QED
      BY <2>2, <3>2, <3>3, <3>4
  <2> QED
    BY <1>5, <2>1, <2>2
<1>8. /\ receiver' \in [pc : {"idle", "polling", "handling", "reporting", "stopped"},
                        msg : {<<>>} \cup {<<n>> : n \in Messages},
                        out : {"none", "result", "error"}]
      /\ \/ receiver'.pc = "idle" /\ receiver'.msg = <<>> /\ receiver'.out = "none"
         \/ receiver'.pc = "reporting" /\ receiver'.msg = <<m>> /\ receiver'.out = "error"
  BY <1>1, <1>2, <1>3, <1>6 DEF MailboxTypeOK, Entries, Nobody
<1>9. MailboxTypeOK'
  BY <1>1, <1>4, <1>7, <1>8 DEF MailboxTypeOK, Entries
<1>10. \A n \in Messages : Holds(n)' => n = m
  BY <1>8 DEF Holds
<1>11. Untouched'
  <2> SUFFICES ASSUME NEW n \in Messages
               PROVE  /\ sender'[n] = "new" => item'[n].state = "absent"
                      /\ item'[n].state \in {"absent", "queued"} =>
                            ~Holds(n)' /\ item'[n].out = "none" /\ handled'[n].runs = 0
    BY DEF Untouched
  <2>1. CASE n = m
    BY <1>1, <1>3, <1>4, <1>7, <2>1 DEF Untouched
  <2>2. CASE n # m
    BY <1>1, <1>4, <1>7, <1>10, <2>2 DEF Untouched
  <2> QED
    BY <2>1, <2>2
<1>12. Working'
  BY <1>8 DEF Working
<1>13. ResultsAreReal'
  <2> SUFFICES ASSUME NEW n \in Messages
               PROVE  /\ (item'[n].out = "result" \/ Reports(n)') => handled'[n] = [runs |-> 1, out |-> "result"]
                      /\ item'[n].state = "completed" => item'[n].out # "none"
                      /\ sender'[n] = "result" => item'[n] = [state |-> "gone", out |-> "result"]
    BY DEF ResultsAreReal
  <2>1. CASE n # m
    BY <1>1, <1>4, <1>7, <1>10, <2>1 DEF ResultsAreReal, Reports
  <2>2. CASE n = m
    <3>1. receiver.out = "result" => handled[m] = [runs |-> 1, out |-> "result"]
      BY <1>1, <1>3 DEF ResultsAreReal, Reports
    <3>2. ~Reports(m)'
      BY <1>8 DEF Reports
    <3>3. sender[m] = "result" => item'[m] = item[m]
      BY <1>1, <1>7 DEF ResultsAreReal
    <3> QED
      BY <1>1, <1>3, <1>4, <1>7, <2>2, <3>1, <3>2, <3>3 DEF ResultsAreReal
  <2> QED
    BY <2>1, <2>2
<1>14. WaitsOnlyForNothing'
  <2>1. \A n \in Messages : item'[n].state = "queued" => item[n].state = "queued"
    BY <1>7
  <2>2. \A i \in DOMAIN queue : queue[i] \in Messages
    BY <1>1, ElementOfSeq, LenProperties DEF MailboxTypeOK, Entries
  <2> QED
    BY <1>1, <1>4, <2>1, <2>2 DEF WaitsOnlyForNothing
<1> QED
  BY <1>1, <1>4, <1>9, <1>11, <1>12, <1>13, <1>14 DEF MailboxInv, RelayedOnce

\* What a poll or a post that answers a poll does to the entries.
LEMMA Answered ==
    ASSUME MailboxInv, NEW items, NEW p \in Messages, NEW q \in Seq(Messages),
           items = item \/ (item[p].state = "absent" /\ items = [item EXCEPT ![p].state = "queued"]),
           NextFor(q, items).msg # <<>>, item' = NextFor(q, items).items
    PROVE  \E n \in Messages :
             /\ NextFor(q, items).msg = <<n>>
             /\ item' \in Entries
             /\ item[n].state = "queued" \/ (n = p /\ items # item)
             /\ item'[n].state = "delivered" /\ item'[n].out = item[n].out
             /\ \A m \in Messages : m # n => item'[m] = items[m]
             /\ \E i \in DOMAIN q : q[i] = n
<1>1. MailboxTypeOK
  BY DEF MailboxInv
<1>2. /\ items \in Entries
      /\ \A m \in Messages : items[m].out = item[m].out /\ (m # p => items[m] = item[m])
  <2>1. CASE items = item
    BY <1>1, <2>1 DEF MailboxTypeOK, Entries
  <2>2. CASE items = [item EXCEPT ![p].state = "queued"]
    BY <1>1, <2>2 DEF MailboxTypeOK, Entries
  <2> QED
    BY <2>1, <2>2
<1>3. PICK n \in Messages : /\ items[n].state = "queued" /\ NextFor(q, items).msg = <<n>>
                            /\ item' \in Entries /\ item'[n] = [state |-> "delivered", out |-> items[n].out]
                            /\ \A m \in Messages : m # n => item'[m] = items[m]
                            /\ \E i \in DOMAIN q : q[i] = n
  BY <1>2, NextForGives
<1>4. item'[n].state = "delivered" /\ item'[n].out = items[n].out
  BY <1>3
<1>5. item[n].state = "queued" \/ (n = p /\ items # item)
  BY <1>2, <1>3
<1> QED
  BY <1>2, <1>3, <1>4, <1>5

\* The recipient that is answered, or whose answer is lost.
LEMMA Reached ==
    ASSUME NEW n \in Messages, receiver' \in {[pc |-> "handling", msg |-> <<n>>, out |-> "none"], Nobody}
    PROVE  /\ receiver' \in [pc : {"idle", "polling", "handling", "reporting", "stopped"},
                             msg : {<<>>} \cup {<<m>> : m \in Messages}, out : {"none", "result", "error"}]
           /\ \/ ~(\E m \in Messages : Holds(m)') /\ Working'
              \/ receiver' = [pc |-> "handling", msg |-> <<n>>, out |-> "none"]
<1>1. CASE receiver' = [pc |-> "handling", msg |-> <<n>>, out |-> "none"]
  BY <1>1
<1>2. CASE receiver' = Nobody
  BY <1>2 DEF Nobody, Holds, Working
<1> QED
  BY <1>1, <1>2

LEMMA PollStep == ASSUME MailboxInv, Poll PROVE MailboxInv'
<1> DEFINE next == NextFor(queue, item)
<1>1. MailboxTypeOK /\ Untouched /\ Working /\ WaitsOnlyForNothing /\ queue \in Seq(Messages)
      /\ item \in Entries
  BY DEF MailboxInv, MailboxTypeOK
<1>2. next.queue \in Seq(Messages)
  BY <1>1, NextForGives
<1>3. UNCHANGED <<sender, handled>> /\ receiver.pc = "idle"
  BY DEF Poll
<1>4. CASE next.msg # <<>>
  <2>1. item' = next.items /\ queue' = next.queue /\ UNCHANGED waiter
    BY <1>4 DEF Poll, Deliver
  <2>2. PICK p \in Messages : TRUE
    BY <1>1, <1>4, NextForGives
  <2>3. PICK n \in Messages :
             /\ next.msg = <<n>>
             /\ item' \in Entries
             /\ item[n].state = "queued" \/ (n = p /\ item # item)
             /\ item'[n].state = "delivered" /\ item'[n].out = item[n].out
             /\ \A m \in Messages : m # n => item'[m] = item[m]
             /\ \E i \in DOMAIN queue : queue[i] = n
    BY ZenonT(60), <1>1, <1>4, <2>1, Answered
  <2>4. receiver' \in {[pc |-> "handling", msg |-> <<n>>, out |-> "none"], Nobody}
    BY <1>4, <2>3 DEF Poll, Deliver
  <2>5. MailboxTypeOK'
    BY <1>1, <1>2, <1>3, <2>1, <2>3, <2>4, Reached DEF MailboxTypeOK, Entries
  <2>6. waiter = "none"
    <3>1. \E i \in DOMAIN queue : item[queue[i]].state = "queued"
      BY <2>3
    <3> QED
      BY <1>1, <3>1 DEF WaitsOnlyForNothing
  <2>7. WaitsOnlyForNothing'
    BY <2>1, <2>6 DEF WaitsOnlyForNothing
  <2> QED
    BY <1>1, <1>3, <2>3, <2>4, <2>5, <2>7, Reached, Moves
<1>5. CASE next.msg = <<>>
  <2>1. /\ queue' = next.queue /\ waiter' = "live" /\ UNCHANGED item
        /\ receiver' = [receiver EXCEPT !.pc = "polling"]
    BY <1>5 DEF Poll
  <2>2. next.queue = <<>>
    BY <1>1, <1>5, NextForGives
  <2>3. /\ receiver'.pc = "polling" /\ receiver'.msg = <<>> /\ receiver'.out = "none"
        /\ receiver' \in [pc : {"idle", "polling", "handling", "reporting", "stopped"},
                          msg : {<<>>} \cup {<<m>> : m \in Messages}, out : {"none", "result", "error"}]
    BY <1>1, <1>3, <2>1 DEF Working, MailboxTypeOK
  <2>4. MailboxTypeOK'
    BY <1>1, <1>2, <1>3, <2>1, <2>3 DEF MailboxTypeOK, Entries
  <2>5. WaitsOnlyForNothing'
    BY <2>1, <2>2 DEF WaitsOnlyForNothing
  <2>6. ~(\E m \in Messages : Holds(m)') /\ Working'
    BY <2>3 DEF Holds, Working
  <2> QED
    BY <1>3, <2>1, <2>4, <2>5, <2>6, Moves
<1> QED
  BY <1>4, <1>5

LEMMA PostStep == ASSUME MailboxInv, NEW m \in Messages, Post(m) PROVE MailboxInv'
<1> DEFINE q == Append(queue, m)
           items == [item EXCEPT ![m].state = "queued"]
           next == NextFor(q, items)
<1>1. MailboxTypeOK /\ Untouched /\ queue \in Seq(Messages) /\ sender[m] = "new"
  BY DEF MailboxInv, MailboxTypeOK, Post
<1>2. /\ q \in Seq(Messages) /\ Len(q) \in DOMAIN q /\ q[Len(q)] = m
  BY <1>1, AppendProperties, LenProperties
<1>3. item[m].state = "absent"
  BY <1>1 DEF Untouched
<1>4. /\ items \in Entries
      /\ items[m].state = "queued" /\ items[m].out = item[m].out
      /\ \A n \in Messages : n # m => items[n] = item[n]
  BY <1>1 DEF MailboxTypeOK, Entries
<1>5. /\ sender' \in [Messages -> {"new", "waiting", "result", "error", "timeout"}]
      /\ sender'[m] \in {"waiting", "error"}
      /\ \A n \in Messages : n # m => sender'[n] = sender[n]
  BY ZenonT(60), <1>1 DEF Post, MailboxTypeOK
<1>6. UNCHANGED handled /\ waiter' = "none"
  BY DEF Post
<1>7. WaitsOnlyForNothing'
  BY <1>6 DEF WaitsOnlyForNothing
<1>8. next.queue \in Seq(Messages)
  BY <1>2, <1>4, NextForGives
<1>9. CASE waiter = "none"
  <2>1. item' = items /\ queue' = q /\ UNCHANGED receiver
    BY <1>9 DEF Post
  <2>2. MailboxTypeOK'
    BY <1>1, <1>2, <1>4, <1>5, <1>6, <2>1 DEF MailboxTypeOK, Entries
  <2> HIDE DEF items
  <2> QED
    BY <1>3, <1>4, <1>5, <1>6, <1>7, <2>1, <2>2, Moves
<1>10. CASE waiter # "none"
  <2>1. /\ item' = next.items /\ queue' = next.queue
        /\ receiver' = receiver \/ receiver' \in {[pc |-> "handling", msg |-> next.msg, out |-> "none"], Nobody}
    BY <1>10 DEF Post, Deliver
  <2>2. next.msg # <<>>
    <3> HIDE DEF q, items
    <3>1. items[q[Len(q)]].state = "queued"
      BY <1>2, <1>4
    <3> QED
      BY <1>2, <1>4, <3>1, NextForGives
  <2>3. PICK n \in Messages :
             /\ next.msg = <<n>>
             /\ item' \in Entries
             /\ item[n].state = "queued" \/ (n = m /\ items # item)
             /\ item'[n].state = "delivered" /\ item'[n].out = item[n].out
             /\ \A k \in Messages : k # n => item'[k] = items[k]
    <3>1. items = item \/ (item[m].state = "absent" /\ items = [item EXCEPT ![m].state = "queued"])
      BY <1>3
    <3> HIDE DEF q, items
    <3> QED
      BY <1>2, <2>1, <2>2, <3>1, Answered
  <2>4. receiver' = receiver \/ receiver' \in {[pc |-> "handling", msg |-> <<n>>, out |-> "none"], Nobody}
    BY <2>1, <2>3
  <2>5. MailboxTypeOK'
    BY ZenonT(60), <1>1, <1>5, <1>6, <1>8, <2>1, <2>3, <2>4, Reached DEF MailboxTypeOK, Entries
  <2>6. item[n].state \in {"absent", "queued"} /\ \A k \in Messages : k # n => item'[k] = items[k]
    BY <1>3, <2>3
  <2> HIDE DEF items, next, q
  <2>7. ASSUME NEW k \in Messages
        PROVE  \/ item'[k] = item[k]
               \/ /\ item'[k].out = item[k].out /\ (item[k].state = "absent" => sender'[k] # "new")
                  /\ item[k].state \in {"absent", "queued"} /\ item'[k].state \in {"queued", "delivered"}
    BY <1>3, <1>4, <1>5, <2>3, <2>6
  <2> QED
    BY <1>5, <1>6, <1>7, <2>3, <2>4, <2>5, <2>6, <2>7, Reached, Moves
<1> QED
  BY <1>9, <1>10

LEMMA MailboxInvNext == ASSUME MailboxInv, [MailboxNext]_mailboxVars PROVE MailboxInv'
BY QuietSteps, DropSteps, HandleStep, CompleteStep, PollStep, PostStep DEF MailboxNext

LEMMA MailboxInvMeans ==
    MailboxInv => MailboxTypeOK /\ RelayedOnce /\ ResultIsTheHandlers /\ WaitsOnlyForNothing
BY DEF MailboxInv, ResultsAreReal, ResultIsTheHandlers

-----------------------------------------------------------------------------
(* Replication: proofs, for any directories, quorum and records.  The      *)
(* durability of a confirmed put is not inductive: an acknowledgement says *)
(* so only because a request that was answered left its record on the disk *)
(* (RequestsTrue), and a disk is overwritten only by the store of its      *)
(* node, which is never behind it (StoreAhead).                            *)

Held == Records \cup {NoRecord}

LEMMA HeldNumbers == ASSUME DhtAssumption PROVE \A rec \in Held : rec.seq \in Nat
BY DEF DhtAssumption, Held, NoRecord

LEMMA CoversThrough ==
    ASSUME DhtAssumption, NEW a \in Held, NEW b \in Held, NEW c \in Held, Covers(a, b), Covers(b, c)
    PROVE  Covers(a, c)
BY HeldNumbers DEF Covers

LEMMA AcceptedCovers ==
    ASSUME DhtAssumption, NEW a \in Held, NEW b \in Held, Accepts(a, b)
    PROVE  Covers(b, a)
BY HeldNumbers DEF Covers, Accepts

LEMMA ReplicasFinite ==
    ASSUME DhtAssumption
    PROVE  /\ Len(Replicas) \in Nat /\ DOMAIN Replicas = 1..Len(Replicas)
           /\ IsFiniteSet(ReplicaSet)
<1>1. Len(Replicas) \in Nat /\ DOMAIN Replicas = 1..Len(Replicas)
  BY LenProperties DEF DhtAssumption
<1> DEFINE f == [i \in 1..Len(Replicas) |-> Replicas[i]]
<1>2. f \in Surjection(1..Len(Replicas), ReplicaSet)
  BY <1>1 DEF Surjection, ReplicaSet
<1>3. IsFiniteSet(1..Len(Replicas))
  BY <1>1, FS_Interval
<1> HIDE DEF f
<1> QED
  BY <1>1, <1>2, <1>3, FS_Surjection

\* The disks that cover a record still do, unless it expires.
DiskKept ==
    \A n \in DhtNodes, rec \in Held :
        rec.seq > expired' /\ Covers(replicaDisk[n], rec) => Live(rec) /\ Covers(replicaDisk'[n], rec)

LEMMA QuorumKept ==
    ASSUME DhtAssumption, DhtInv, confirmed' = confirmed, DiskKept,
           \A rec \in Held : rec.seq > expired' => Live(rec)
    PROVE  ConfirmedIsDurable'
<1> SUFFICES ASSUME NEW rec \in confirmed, rec.seq > expired'
             PROVE  Cardinality({r \in ReplicaSet : Covers(replicaDisk'[r], rec)}) >= WriteQuorum - 1
  BY DEF ConfirmedIsDurable, Live, Covers
<1> DEFINE old == {r \in ReplicaSet : Covers(replicaDisk[r], rec)}
           new == {r \in ReplicaSet : Covers(replicaDisk'[r], rec)}
<1>1. rec \in Held
  BY DEF DhtInv, DhtTypeOK, Held
<1>2. Live(rec)
  BY <1>1
<1>3. Cardinality(old) >= WriteQuorum - 1
  BY <1>2 DEF DhtInv, ConfirmedIsDurable
<1>4. old \subseteq new /\ new \subseteq ReplicaSet
  BY <1>1 DEF DiskKept, DhtNodes
<1> HIDE DEF old
<1>5. IsFiniteSet(new)
  BY <1>4, ReplicasFinite, FS_Subset
<1>6. IsFiniteSet(old) /\ Cardinality(old) <= Cardinality(new)
  BY <1>4, <1>5, FS_Subset
<1>7. Cardinality(old) \in Nat /\ Cardinality(new) \in Nat
  BY <1>5, <1>6, FS_CardinalityType
<1> HIDE DEF new
<1>8. Cardinality(new) >= WriteQuorum - 1
  BY <1>3, <1>6, <1>7 DEF DhtAssumption
<1> QED
  BY <1>8 DEF new

\* Where no replicaDisk goes back and nothing expires.
LEMMA DiskGrows ==
    ASSUME DhtAssumption, DhtInv, replicaDisk' \in [DhtNodes -> Held], expired' = expired,
           \A n \in DhtNodes : Covers(replicaDisk'[n], replicaDisk[n])
    PROVE  DiskKept /\ \A rec \in Held : rec.seq > expired' => Live(rec)
<1>1. \A n \in DhtNodes : replicaDisk[n] \in Held /\ replicaDisk'[n] \in Held
  BY DEF DhtInv, DhtTypeOK, Held
<1> QED
  BY <1>1, CoversThrough DEF DiskKept, Live

\* A step that changes neither the requests nor the write, and takes no store
\* and no replicaDisk back.
LEMMA GrowingStep ==
    ASSUME DhtAssumption, DhtInv, DhtTypeOK', UNCHANGED <<expired, write, requests, confirmed>>,
           \A n \in DhtNodes : /\ Covers(store'[n], store[n]) /\ Covers(replicaDisk'[n], replicaDisk[n])
                               /\ Covers(store'[n], replicaDisk'[n])
    PROVE  DhtInv'
<1>1. /\ store \in [DhtNodes -> Held] /\ replicaDisk \in [DhtNodes -> Held]
      /\ store' \in [DhtNodes -> Held] /\ replicaDisk' \in [DhtNodes -> Held]
  BY DEF DhtInv, DhtTypeOK, Held
<1>2. ConfirmedIsDurable'
  BY <1>1, DiskGrows, QuorumKept
<1>3. StoreAhead'
  BY DEF StoreAhead, Covers
<1>4. RequestsTrue'
  <2> SUFFICES ASSUME NEW q \in requests, Live(q.rec)
               PROVE  /\ q.at = "accepted" => Covers(store'[q.to], q.rec)
                      /\ q.at = "durable" => Covers(replicaDisk'[q.to], q.rec)
    BY DEF RequestsTrue, Live, Covers
  <2>1. q.to \in DhtNodes /\ q.rec \in Held
    BY DEF DhtInv, DhtTypeOK, DhtNodes, Held
  <2>2. /\ q.at = "accepted" => Covers(store[q.to], q.rec)
        /\ q.at = "durable" => Covers(replicaDisk[q.to], q.rec)
    BY DEF DhtInv, RequestsTrue
  <2>3. /\ store[q.to] \in Held /\ store'[q.to] \in Held /\ Covers(store'[q.to], store[q.to])
        /\ replicaDisk[q.to] \in Held /\ replicaDisk'[q.to] \in Held /\ Covers(replicaDisk'[q.to], replicaDisk[q.to])
    BY <1>1, <2>1
  <2> QED
    BY <2>1, <2>2, <2>3, CoversThrough
<1>5. AcksTrue'
  <2> SUFFICES ASSUME Live(write.rec), NEW r \in write.acked
               PROVE  Covers(replicaDisk'[r], write.rec)
    BY DEF AcksTrue, Live, Covers
  <2>1. r \in DhtNodes /\ write.rec \in Held /\ Covers(replicaDisk[r], write.rec)
    BY DEF DhtInv, DhtTypeOK, DhtNodes, Held, AcksTrue
  <2>2. replicaDisk[r] \in Held /\ replicaDisk'[r] \in Held /\ Covers(replicaDisk'[r], replicaDisk[r])
    BY <1>1, <2>1
  <2> QED
    BY <2>1, <2>2, CoversThrough
<1> QED
  BY <1>2, <1>3, <1>4, <1>5 DEF DhtInv

\* A step that changes only the requests, the write, and stores that grow.
LEMMA ServingStep ==
    ASSUME DhtAssumption, DhtInv, DhtTypeOK', UNCHANGED <<replicaDisk, expired, confirmed>>,
           IsFiniteSet(requests'), write'.phase = "placing" => write'.rec \in Records,
           \A n \in DhtNodes : Covers(store'[n], store[n]),
           \A q \in requests' :
              \/ q \in requests
              \/ q.at \in {"sent", "lost"}
              \/ q.at = "accepted" /\ store'[q.to] = q.rec
              \/ q.at = "durable" /\ Covers(replicaDisk[q.to], q.rec),
           \/ write'.acked = {}
           \/ /\ write'.rec = write.rec
              /\ \A r \in write'.acked \ write.acked : Live(write.rec) => Covers(replicaDisk[r], write.rec)
    PROVE  DhtInv'
<1>1. /\ store \in [DhtNodes -> Held] /\ replicaDisk \in [DhtNodes -> Held]
      /\ store' \in [DhtNodes -> Held]
  BY DEF DhtInv, DhtTypeOK, Held
<1>2. ConfirmedIsDurable'
  BY DEF DhtInv, ConfirmedIsDurable, Covers, Live
<1>3. StoreAhead'
  <2> SUFFICES ASSUME NEW n \in DhtNodes PROVE Covers(store'[n], replicaDisk[n])
    BY DEF StoreAhead, Covers
  <2>1. Covers(store'[n], store[n]) /\ Covers(store[n], replicaDisk[n])
    BY DEF DhtInv, StoreAhead
  <2> QED
    BY <1>1, <2>1, CoversThrough
<1>4. RequestsTrue'
  <2> SUFFICES ASSUME NEW q \in requests', Live(q.rec)
               PROVE  /\ q.at = "accepted" => Covers(store'[q.to], q.rec)
                      /\ q.at = "durable" => Covers(replicaDisk[q.to], q.rec)
    BY DEF RequestsTrue, Live, Covers
  <2>1. q.to \in DhtNodes /\ q.rec \in Held
    BY DEF DhtTypeOK, DhtNodes, Held
  <2>2. CASE q \in requests
    <3>1. /\ q.at = "accepted" => Covers(store[q.to], q.rec)
          /\ q.at = "durable" => Covers(replicaDisk[q.to], q.rec)
      BY <2>2 DEF DhtInv, RequestsTrue
    <3>2. store[q.to] \in Held /\ store'[q.to] \in Held /\ Covers(store'[q.to], store[q.to])
      BY <1>1, <2>1
    <3> QED
      BY <2>1, <3>1, <3>2, CoversThrough
  <2>3. CASE q \notin requests
    BY <2>3 DEF Covers
  <2> QED
    BY <2>2, <2>3
<1>5. AcksTrue'
  BY DEF DhtInv, AcksTrue, Live, Covers
<1> QED
  BY <1>2, <1>3, <1>4, <1>5 DEF DhtInv

\* What the pump makes of the write and the requests.
LEMMA PumpSteps ==
    ASSUME DhtAssumption, NEW w, NEW reqs, Pump(w, reqs), IsFiniteSet(reqs),
           w \in [rec : Records, phase : {"placing"}, local : BOOLEAN, acked : SUBSET ReplicaSet,
                  cursor : 1..(Len(Replicas) + 1)],
           reqs \subseteq [to : ReplicaSet, rec : Records, at : {"sent", "accepted", "durable", "lost"}]
    PROVE  /\ write' \in [rec : Records, phase : {"placing"}, local : BOOLEAN, acked : SUBSET ReplicaSet,
                          cursor : 1..(Len(Replicas) + 1)]
           /\ write'.rec = w.rec /\ write'.acked = w.acked
           /\ requests' \subseteq [to : ReplicaSet, rec : Records,
                                   at : {"sent", "accepted", "durable", "lost"}]
           /\ IsFiniteSet(requests')
           /\ \A q \in requests' : q \in reqs \/ q.at = "sent"
<1> DEFINE have == Cardinality(w.acked) + (IF w.local THEN 1 ELSE 0)
           open == Cardinality({q \in reqs : q.rec = w.rec})
           want == IF have + open >= ReplicationFactor THEN 0 ELSE ReplicationFactor - have - open
           last == IF w.cursor + want - 1 > Len(Replicas) THEN Len(Replicas) ELSE w.cursor + want - 1
           sent == {[to |-> Replicas[i], rec |-> w.rec, at |-> "sent"] : i \in w.cursor..last}
<1>1. write' = [w EXCEPT !.cursor = last + 1] /\ requests' = reqs \cup sent
  BY DEF Pump
<1>2. IsFiniteSet(w.acked) /\ IsFiniteSet({q \in reqs : q.rec = w.rec})
  BY ReplicasFinite, FS_Subset
<1>3. have \in Nat /\ open \in Nat
  BY <1>2, FS_CardinalityType
<1> HIDE DEF have, open
<1>4. want \in Nat
  BY <1>3 DEF DhtAssumption
<1> HIDE DEF want
<1>5. last \in 0..Len(Replicas) /\ w.cursor \in 1..(Len(Replicas) + 1)
  BY <1>4, ReplicasFinite
<1> HIDE DEF last
<1>6. PICK k \in 1..(Len(Replicas) + 1) : write' = [w EXCEPT !.cursor = k]
  <2>1. last + 1 \in 1..(Len(Replicas) + 1)
    BY <1>5, ReplicasFinite
  <2> QED
    BY <1>1, <2>1
<1>7. /\ write' \in [rec : Records, phase : {"placing"}, local : BOOLEAN, acked : SUBSET ReplicaSet,
                     cursor : 1..(Len(Replicas) + 1)]
      /\ write'.rec = w.rec /\ write'.acked = w.acked
  BY <1>6
<1>8. \A i \in w.cursor..last : Replicas[i] \in ReplicaSet
  BY SMTT(60), <1>5, ReplicasFinite DEF ReplicaSet
<1>9. sent \subseteq [to : ReplicaSet, rec : Records, at : {"sent", "accepted", "durable", "lost"}]
  BY <1>8
<1>10. IsFiniteSet(sent)
  <2> DEFINE f == [i \in w.cursor..last |-> [to |-> Replicas[i], rec |-> w.rec, at |-> "sent"]]
  <2>1. f \in Surjection(w.cursor..last, sent)
    BY DEF Surjection
  <2>2. IsFiniteSet(w.cursor..last)
    BY <1>5, FS_Interval
  <2> HIDE DEF f, sent
  <2> QED
    BY <2>1, <2>2, FS_Surjection
<1>11. \A q \in sent : q.at = "sent"
  OBVIOUS
<1> HIDE DEF sent
<1>12. IsFiniteSet(requests')
  BY <1>1, <1>10, FS_Union
<1>13. /\ requests' \subseteq [to : ReplicaSet, rec : Records, at : {"sent", "accepted", "durable", "lost"}]
       /\ \A q \in requests' : q \in reqs \/ q.at = "sent"
  BY <1>1, <1>9, <1>11
<1> QED
  BY <1>7, <1>12, <1>13

Requests == [to : ReplicaSet, rec : Records, at : {"sent", "accepted", "durable", "lost"}]

LEMMA MovedRequest ==
    ASSUME DhtInv, NEW q \in requests, NEW at \in {"accepted", "durable", "lost"},
           requests' = Moved(q, at)
    PROVE  /\ requests' \subseteq Requests /\ IsFiniteSet(requests')
           /\ \A p \in requests' : p \in requests \/ (p.to = q.to /\ p.rec = q.rec /\ p.at = at)
<1>1. q \in Requests /\ requests \subseteq Requests /\ IsFiniteSet(requests)
  BY DEF DhtInv, DhtTypeOK, Requests
<1> DEFINE p == [q EXCEPT !.at = at]
<1>2. p \in Requests /\ p.to = q.to /\ p.rec = q.rec /\ p.at = at
  BY <1>1 DEF Requests
<1>3. requests' = (requests \ {q}) \cup {p}
  BY DEF Moved
<1> HIDE DEF p
<1>4. IsFiniteSet(requests')
  <2>1. IsFiniteSet(requests \ {q})
    BY <1>1, FS_RemoveElement
  <2> QED
    BY <1>3, <2>1, FS_AddElement
<1> QED
  BY <1>1, <1>2, <1>3, <1>4

LEMMA DhtInvInit == DhtAssumption /\ DhtInit => DhtInv
<1> SUFFICES ASSUME DhtAssumption, DhtInit PROVE DhtInv
  OBVIOUS
<1> USE DEF DhtInit
<1>1. DhtTypeOK
  <2>1. 1 \in 1..(Len(Replicas) + 1)
    BY ReplicasFinite
  <2> QED
    BY <2>1 DEF DhtTypeOK, DhtAssumption, Idle, NotChecking
<1>2. IsFiniteSet(requests)
  BY FS_EmptySet
<1>3. StoreAhead /\ RequestsTrue /\ AcksTrue /\ ConfirmedIsDurable
  BY DEF StoreAhead, RequestsTrue, AcksTrue, ConfirmedIsDurable, Idle, Covers
<1> QED
  BY <1>1, <1>2, <1>3 DEF DhtInv, Idle

\* Reading a type invariant field by field.
LEMMA DhtTyped ==
    ASSUME DhtInv
    PROVE  /\ store \in [DhtNodes -> Held] /\ replicaDisk \in [DhtNodes -> Held]
           /\ requests \subseteq Requests /\ IsFiniteSet(requests)
           /\ \A n \in DhtNodes : Covers(store[n], store[n]) /\ Covers(replicaDisk[n], replicaDisk[n])
                                  /\ Covers(store[n], replicaDisk[n])
           /\ write.phase = "placing" =>
                 write \in [rec : Records, phase : {"placing"}, local : BOOLEAN,
                           acked : SUBSET ReplicaSet, cursor : 1..(Len(Replicas) + 1)]
<1>1. write.phase = "placing" =>
         write \in [rec : Records, phase : {"placing"}, local : BOOLEAN,
                   acked : SUBSET ReplicaSet, cursor : 1..(Len(Replicas) + 1)]
  BY DEF DhtInv, DhtTypeOK
<1> QED
  BY <1>1 DEF DhtInv, DhtTypeOK, Held, Requests, StoreAhead, Covers

LEMMA PutStartsKeeps ==
    ASSUME DhtAssumption, DhtInv, NEW rec \in Records, PutStarts(rec)
    PROVE  DhtInv'
<1> DEFINE taken == Accepts(store[Self], rec)
           w == [rec |-> rec, phase |-> "placing", local |-> taken, acked |-> {}, cursor |-> 1]
<1>1. /\ store' = IF taken THEN [store EXCEPT ![Self] = rec] ELSE store
      /\ Pump(w, requests) /\ budget' = [budget EXCEPT !.puts = @ - 1] /\ budget.puts > 0
      /\ UNCHANGED <<replicaDisk, expired, placement, confirmed, check>>
  BY DEF PutStarts
<1>2. taken \in BOOLEAN
  BY DEF Accepts, Live
<1>3. w \in [rec : Records, phase : {"placing"}, local : BOOLEAN, acked : SUBSET ReplicaSet,
            cursor : 1..(Len(Replicas) + 1)] /\ w.acked = {}
  BY <1>2, ReplicasFinite
<1> HIDE DEF w
<1>4. /\ write' \in [rec : Records, phase : {"placing"}, local : BOOLEAN, acked : SUBSET ReplicaSet,
                     cursor : 1..(Len(Replicas) + 1)]
      /\ write'.acked = {} /\ requests' \subseteq Requests /\ IsFiniteSet(requests')
      /\ \A q \in requests' : q \in requests \/ q.at = "sent"
  BY <1>1, <1>3, DhtTyped, PumpSteps DEF Requests
<1>5. \A n \in DhtNodes : Covers(store'[n], store[n])
  <2>1. Self \in DhtNodes /\ store[Self] \in Held /\ rec \in Held
    BY DhtTyped DEF DhtNodes, Held
  <2>2. taken => Covers(rec, store[Self])
    BY <2>1, AcceptedCovers
  <2> HIDE DEF taken
  <2> QED
    BY <1>1, <2>1, <2>2, DhtTyped DEF Covers
<1> HIDE DEF taken
<1>6. DhtTypeOK'
  <2>1. budget' \in [puts : Nat, restarts : Nat, reconciles : Nat]
    <3>1. budget \in [puts : Nat, restarts : Nat, reconciles : Nat]
      BY DEF DhtInv, DhtTypeOK
    <3>2. budget' = [budget EXCEPT !.puts = @ - 1] /\ budget.puts > 0
      BY <1>1
    <3> QED
      BY <3>1, <3>2
  <2>2. store' \in [DhtNodes -> Records \cup {NoRecord}]
    BY <1>1 DEF DhtInv, DhtTypeOK
  <2>3. write' \in [rec : Records \cup {NoRecord}, phase : {"idle", "placing"},
                  local : BOOLEAN, acked : SUBSET ReplicaSet, cursor : 1..(Len(Replicas) + 1)]
    BY <1>4
  <2> QED
    BY <1>1, <1>4, <2>1, <2>2, <2>3 DEF DhtInv, DhtTypeOK, Requests
<1> QED
  BY <1>1, <1>4, <1>5, <1>6, ServingStep

LEMMA StoreServedKeeps ==
    ASSUME DhtAssumption, DhtInv, NEW q \in requests, StoreServed(q)
    PROVE  DhtInv'
<1>1. q.to \in DhtNodes /\ q.rec \in Records /\ q.rec \in Held /\ store[q.to] \in Held
  BY DhtTyped DEF DhtNodes, Held, Requests
<1>2. UNCHANGED <<replicaDisk, expired, write, placement, confirmed, check, budget>>
  BY DEF StoreServed
<1>3. CASE Accepts(store[q.to], q.rec)
  <2>1. store' = [store EXCEPT ![q.to] = q.rec] /\ requests' = Moved(q, "accepted")
    BY <1>3 DEF StoreServed
  <2>2. /\ requests' \subseteq Requests /\ IsFiniteSet(requests')
        /\ \A p \in requests' : p \in requests \/ (p.to = q.to /\ p.rec = q.rec /\ p.at = "accepted")
    BY <2>1, MovedRequest
  <2>3. store'[q.to] = q.rec /\ \A n \in DhtNodes : n # q.to => store'[n] = store[n]
    BY <1>1, <2>1, DhtTyped
  <2>4. \A n \in DhtNodes : Covers(store'[n], store[n])
    BY <1>1, <1>3, <2>3, AcceptedCovers, DhtTyped
  <2>5. DhtTypeOK'
    BY <1>1, <1>2, <2>1, <2>2 DEF DhtInv, DhtTypeOK, Requests
  <2>6. \A p \in requests' : p \in requests \/ (p.at = "accepted" /\ store'[p.to] = p.rec)
    BY <2>2, <2>3
  <2>7. write'.phase = "placing" => write'.rec \in Records
    BY <1>2 DEF DhtInv
  <2> QED
    BY <1>2, <2>2, <2>4, <2>5, <2>6, <2>7, ServingStep
<1>4. CASE ~Accepts(store[q.to], q.rec)
  <2>1. store' = store /\ requests' = Moved(q, "lost")
    BY <1>4 DEF StoreServed
  <2>2. /\ requests' \subseteq Requests /\ IsFiniteSet(requests')
        /\ \A p \in requests' : p \in requests \/ (p.to = q.to /\ p.rec = q.rec /\ p.at = "lost")
    BY <2>1, MovedRequest
  <2>5. DhtTypeOK'
    BY <1>2, <2>1, <2>2 DEF DhtInv, DhtTypeOK, Requests
  <2>7. write'.phase = "placing" => write'.rec \in Records
    BY <1>2 DEF DhtInv
  <2> QED
    BY <1>2, <2>1, <2>2, <2>5, <2>7, DhtTyped, ServingStep
<1> QED
  BY <1>3, <1>4

LEMMA StorePersistedKeeps ==
    ASSUME DhtAssumption, DhtInv, NEW q \in requests, StorePersisted(q)
    PROVE  DhtInv'
<1>1. /\ q.to \in DhtNodes /\ q.rec \in Held /\ store[q.to] \in Held /\ replicaDisk[q.to] \in Held
      /\ Covers(store[q.to], replicaDisk[q.to])
  BY DhtTyped DEF DhtNodes, Held, Requests
<1>2. /\ UNCHANGED <<store, expired, write, placement, confirmed, check, budget>>
      /\ replicaDisk' = [replicaDisk EXCEPT ![q.to] = store[q.to]] /\ requests' = Moved(q, "durable")
      /\ q.at = "accepted"
  BY DEF StorePersisted
<1>3. /\ requests' \subseteq Requests /\ IsFiniteSet(requests')
      /\ \A p \in requests' : p \in requests \/ (p.to = q.to /\ p.rec = q.rec /\ p.at = "durable")
  BY <1>2, MovedRequest
<1>4. replicaDisk'[q.to] = store[q.to] /\ \A n \in DhtNodes : n # q.to => replicaDisk'[n] = replicaDisk[n]
  BY <1>1, <1>2, DhtTyped
<1>5. \A n \in DhtNodes : Covers(replicaDisk'[n], replicaDisk[n]) /\ Covers(store[n], replicaDisk'[n])
  BY <1>1, <1>4, DhtTyped
<1>6. replicaDisk' \in [DhtNodes -> Held]
  BY <1>1, <1>2, DhtTyped
<1>7. DhtTypeOK'
  BY <1>2, <1>3, <1>6 DEF DhtInv, DhtTypeOK, Requests, Held
<1>8. ConfirmedIsDurable'
  BY <1>2, <1>5, <1>6, DiskGrows, QuorumKept
<1>9. StoreAhead'
  BY <1>2, <1>5 DEF StoreAhead, Covers
<1>10. RequestsTrue'
  <2> SUFFICES ASSUME NEW p \in requests', Live(p.rec)
               PROVE  /\ p.at = "accepted" => Covers(store[p.to], p.rec)
                      /\ p.at = "durable" => Covers(replicaDisk'[p.to], p.rec)
    BY <1>2 DEF RequestsTrue, Live, Covers
  <2>1. CASE p \in requests
    <3>1. p.to \in DhtNodes /\ p.rec \in Held
      BY <2>1, DhtTyped DEF DhtNodes, Held, Requests
    <3>2. /\ p.at = "accepted" => Covers(store[p.to], p.rec)
          /\ p.at = "durable" => Covers(replicaDisk[p.to], p.rec)
      BY <2>1 DEF DhtInv, RequestsTrue
    <3>3. replicaDisk[p.to] \in Held /\ replicaDisk'[p.to] \in Held /\ Covers(replicaDisk'[p.to], replicaDisk[p.to])
      BY <1>5, <1>6, <3>1, DhtTyped
    <3> QED
      BY <3>1, <3>2, <3>3, CoversThrough
  <2>2. CASE p \notin requests
    <3>1. p.to = q.to /\ p.rec = q.rec /\ p.at = "durable"
      BY <1>3, <2>2
    <3>2. Covers(store[q.to], q.rec)
      BY <1>2, <3>1 DEF DhtInv, RequestsTrue
    <3> QED
      BY <1>4, <3>1, <3>2
  <2> QED
    BY <2>1, <2>2
<1>11. AcksTrue'
  <2> SUFFICES ASSUME Live(write.rec), NEW r \in write.acked
               PROVE  Covers(replicaDisk'[r], write.rec)
    BY <1>2 DEF AcksTrue, Live, Covers
  <2>1. r \in DhtNodes /\ write.rec \in Held /\ Covers(replicaDisk[r], write.rec)
    BY DEF DhtInv, DhtTypeOK, DhtNodes, Held, AcksTrue
  <2>2. replicaDisk[r] \in Held /\ replicaDisk'[r] \in Held /\ Covers(replicaDisk'[r], replicaDisk[r])
    BY <1>5, <1>6, <2>1, DhtTyped
  <2> QED
    BY <2>1, <2>2, CoversThrough
<1> QED
  BY <1>2, <1>3, <1>7, <1>8, <1>9, <1>10, <1>11 DEF DhtInv

LEMMA StoreAckedKeeps ==
    ASSUME DhtAssumption, DhtInv, NEW q \in requests, StoreAcked(q)
    PROVE  DhtInv'
<1> DEFINE w == [write EXCEPT !.acked = @ \cup {q.to}]
<1>1. /\ write.phase = "placing" /\ q.rec = write.rec /\ q.at = "durable"
      /\ Pump(w, requests \ {q})
      /\ UNCHANGED <<store, replicaDisk, expired, placement, confirmed, check, budget>>
  BY DEF StoreAcked
<1>2. q \in Requests
  BY DhtTyped
<1>3. /\ w \in [rec : Records, phase : {"placing"}, local : BOOLEAN, acked : SUBSET ReplicaSet,
                cursor : 1..(Len(Replicas) + 1)]
      /\ w.acked = write.acked \cup {q.to} /\ w.rec = write.rec
  BY <1>1, <1>2, DhtTyped DEF Requests
<1> HIDE DEF w
<1>4. IsFiniteSet(requests \ {q})
  BY DhtTyped, FS_RemoveElement
<1>5. /\ write' \in [rec : Records, phase : {"placing"}, local : BOOLEAN, acked : SUBSET ReplicaSet,
                     cursor : 1..(Len(Replicas) + 1)]
      /\ write'.acked = write.acked \cup {q.to} /\ write'.rec = write.rec
      /\ requests' \subseteq Requests /\ IsFiniteSet(requests')
      /\ \A p \in requests' : p \in requests \/ p.at = "sent"
  BY <1>1, <1>3, <1>4, DhtTyped, PumpSteps DEF Requests
<1>6. DhtTypeOK'
  <2>1. write' \in [rec : Records \cup {NoRecord}, phase : {"idle", "placing"},
                  local : BOOLEAN, acked : SUBSET ReplicaSet, cursor : 1..(Len(Replicas) + 1)]
    BY <1>5
  <2> QED
    BY <1>1, <1>5, <2>1 DEF DhtInv, DhtTypeOK, Requests
<1>7. Live(write.rec) => Covers(replicaDisk[q.to], write.rec)
  BY <1>1 DEF DhtInv, RequestsTrue
<1> QED
  BY <1>1, <1>5, <1>6, <1>7, DhtTyped, ServingStep

LEMMA StoreFailsKeeps ==
    ASSUME DhtAssumption, DhtInv, NEW q \in requests, StoreFails(q)
    PROVE  DhtInv'
<1>1. /\ write.phase = "placing" /\ Pump(write, requests \ {q})
      /\ UNCHANGED <<replicaDisk, expired, placement, confirmed, check, budget>>
      /\ store' = store \/ (Accepts(store[q.to], q.rec) /\ store' = [store EXCEPT ![q.to] = q.rec])
  BY DEF StoreFails
<1>2. q.to \in DhtNodes /\ q.rec \in Held /\ store[q.to] \in Held
  BY DhtTyped DEF DhtNodes, Held, Requests
<1>3. store' \in [DhtNodes -> Held] /\ \A n \in DhtNodes : Covers(store'[n], store[n])
  <2>1. CASE store' = store
    BY <2>1, DhtTyped
  <2>2. CASE Accepts(store[q.to], q.rec) /\ store' = [store EXCEPT ![q.to] = q.rec]
    <3>1. Covers(q.rec, store[q.to])
      BY <1>2, <2>2, AcceptedCovers
    <3> QED
      BY <1>2, <2>2, <3>1, DhtTyped
  <2> QED
    BY <1>1, <2>1, <2>2
<1>4. IsFiniteSet(requests \ {q})
  BY DhtTyped, FS_RemoveElement
<1>5. /\ write' \in [rec : Records, phase : {"placing"}, local : BOOLEAN, acked : SUBSET ReplicaSet,
                     cursor : 1..(Len(Replicas) + 1)]
      /\ write'.acked = write.acked /\ write'.rec = write.rec
      /\ requests' \subseteq Requests /\ IsFiniteSet(requests')
      /\ \A p \in requests' : p \in requests \/ p.at = "sent"
  BY <1>1, <1>4, DhtTyped, PumpSteps DEF Requests
<1>6. DhtTypeOK'
  <2>1. write' \in [rec : Records \cup {NoRecord}, phase : {"idle", "placing"},
                  local : BOOLEAN, acked : SUBSET ReplicaSet, cursor : 1..(Len(Replicas) + 1)]
    BY <1>5
  <2> QED
    BY <1>1, <1>3, <1>5, <2>1 DEF DhtInv, DhtTypeOK, Requests, Held
<1> QED
  BY <1>1, <1>3, <1>5, <1>6, ServingStep

LEMMA LateAnswerKeeps ==
    ASSUME DhtAssumption, DhtInv, NEW q \in requests, LateAnswer(q)
    PROVE  DhtInv'
<1>1. /\ requests' = requests \ {q}
      /\ UNCHANGED <<store, replicaDisk, expired, write, placement, confirmed, check, budget>>
  BY DEF LateAnswer
<1>2. IsFiniteSet(requests') /\ requests' \subseteq Requests
  BY <1>1, DhtTyped, FS_RemoveElement
<1>3. DhtTypeOK'
  BY <1>1, <1>2 DEF DhtInv, DhtTypeOK, Requests
<1>4. write'.phase = "placing" => write'.rec \in Records
  BY <1>1 DEF DhtInv
<1> QED
  BY <1>1, <1>2, <1>3, <1>4, DhtTyped, ServingStep

LEMMA PutEndsKeeps ==
    ASSUME DhtAssumption, DhtInv, PutEnds
    PROVE  DhtInv'
<1>1. /\ write.phase = "placing" /\ write' = Idle
      /\ UNCHANGED <<store, replicaDisk, expired, requests, check, budget>>
  BY DEF PutEnds
<1>2. write.rec \in Records /\ write.acked \subseteq ReplicaSet
  BY <1>1, DhtTyped
<1>3. 1 \in 1..(Len(Replicas) + 1)
  BY ReplicasFinite
<1>4. placement' \in [rec : Records \cup {NoRecord}, at : SUBSET ReplicaSet] /\ confirmed' \subseteq Records
  BY <1>2 DEF PutEnds, DhtInv, DhtTypeOK
<1>5. DhtTypeOK'
  BY <1>1, <1>3, <1>4 DEF DhtInv, DhtTypeOK, Idle
<1>6. StoreAhead' /\ RequestsTrue' /\ AcksTrue'
  BY <1>1 DEF DhtInv, StoreAhead, RequestsTrue, AcksTrue, Covers, Live, Idle
<1>7. ASSUME Acknowledgements >= WriteQuorum, Live(write.rec)
      PROVE  Cardinality({r \in ReplicaSet : Covers(replicaDisk[r], write.rec)}) >= WriteQuorum - 1
  <2> DEFINE covering == {r \in ReplicaSet : Covers(replicaDisk[r], write.rec)}
  <2>1. write.acked \subseteq covering
    BY <1>2, <1>7 DEF DhtInv, AcksTrue
  <2>2. IsFiniteSet(covering)
    BY ReplicasFinite, FS_Subset
  <2>3. IsFiniteSet(write.acked) /\ Cardinality(write.acked) <= Cardinality(covering)
    BY <2>1, <2>2, FS_Subset
  <2>4. Cardinality(write.acked) \in Nat /\ Cardinality(covering) \in Nat
    BY <2>2, <2>3, FS_CardinalityType
  <2>5. Acknowledgements <= Cardinality(write.acked) + 1 /\ Acknowledgements \in Nat
    BY <2>4 DEF Acknowledgements
  <2> HIDE DEF covering
  <2>6. Cardinality(covering) >= WriteQuorum - 1
    BY <1>7, <2>3, <2>4, <2>5 DEF DhtAssumption
  <2> QED
    BY <2>6 DEF covering
<1>8. ConfirmedIsDurable'
  <2> SUFFICES ASSUME NEW rec \in confirmed', Live(rec)
               PROVE  Cardinality({r \in ReplicaSet : Covers(replicaDisk[r], rec)}) >= WriteQuorum - 1
    BY <1>1 DEF ConfirmedIsDurable, Covers, Live
  <2>1. CASE rec \in confirmed
    BY <2>1 DEF DhtInv, ConfirmedIsDurable
  <2>2. CASE rec \notin confirmed
    <3>1. Acknowledgements >= WriteQuorum /\ rec = write.rec
      BY <2>2 DEF PutEnds
    <3> QED
      BY <1>7, <3>1
  <2> QED
    BY <2>1, <2>2
<1> QED
  BY <1>1, <1>5, <1>6, <1>8 DEF DhtInv, Idle

LEMMA QuietKeeps ==
    ASSUME DhtAssumption, DhtInv,
           \/ ReconcileStarts \/ ReconcileEnds \/ UNCHANGED dhtVars
           \/ \E r \in ReplicaSet : ReadThrough(r) \/ ReconcileStores(r)
           \/ \E n \in DhtNodes : Persist(n)
    PROVE  DhtInv'
<1>1. CASE ReconcileStarts
  <2>1. UNCHANGED <<store, replicaDisk, expired, write, requests, placement, confirmed>>
    BY <1>1 DEF ReconcileStarts
  <2>2. budget' \in [puts : Nat, restarts : Nat, reconciles : Nat]
    <3>1. budget \in [puts : Nat, restarts : Nat, reconciles : Nat] /\ budget.reconciles > 0
      BY <1>1 DEF ReconcileStarts, DhtInv, DhtTypeOK
    <3>2. budget.reconciles - 1 \in Nat
      BY <3>1
    <3> QED
      BY <1>1, <3>1, <3>2 DEF ReconcileStarts
  <2>3. Assigned \subseteq ReplicaSet
    <3>1. \A i \in 1..(IF ReplicationFactor - 1 < Len(Replicas) THEN ReplicationFactor - 1 ELSE Len(Replicas)) :
             i \in DOMAIN Replicas
      BY ReplicasFinite DEF DhtAssumption
    <3> QED
      BY <3>1 DEF Assigned, ReplicaSet
  <2>4. store[Self] \in Records \cup {NoRecord}
    BY DEF DhtInv, DhtTypeOK, DhtNodes
  <2>5. check' \in [rec : Records \cup {NoRecord}, phase : {"idle", "storing"},
                  held : SUBSET ReplicaSet, sent : SUBSET ReplicaSet]
    BY <1>1, <2>3, <2>4 DEF ReconcileStarts, DhtInv, DhtTypeOK
  <2>6. DhtTypeOK'
    BY <2>1, <2>2, <2>5 DEF DhtInv, DhtTypeOK
  <2> QED
    BY <2>1, <2>6, DhtTyped, GrowingStep
<1>2. CASE ReconcileEnds
  <2>1. UNCHANGED <<store, replicaDisk, expired, write, requests, confirmed, budget>>
    BY <1>2 DEF ReconcileEnds
  <2>2. DhtTypeOK'
    BY <1>2, <2>1 DEF ReconcileEnds, NotChecking, DhtInv, DhtTypeOK
  <2> QED
    BY <2>1, <2>2, DhtTyped, GrowingStep
<1>3. CASE UNCHANGED dhtVars
  <2>1. DhtTypeOK'
    BY <1>3 DEF dhtVars, DhtInv, DhtTypeOK
  <2> QED
    BY <1>3, <2>1, DhtTyped, GrowingStep DEF dhtVars
<1>4. ASSUME NEW r \in ReplicaSet, ReadThrough(r)
      PROVE  DhtInv'
  <2>1. /\ UNCHANGED <<replicaDisk, expired, write, requests, placement, confirmed, check, budget>>
        /\ store[Self] = NoRecord /\ store' = [store EXCEPT ![Self] = store[r]]
    BY <1>4 DEF ReadThrough
  <2>2. Self \in DhtNodes /\ r \in DhtNodes /\ store[r] \in Held /\ replicaDisk[Self] \in Held
    BY DhtTyped DEF DhtNodes
  <2>3. DhtTypeOK'
    BY <2>1, <2>2 DEF DhtInv, DhtTypeOK, Held
  <2>4. NoRecord \in Held /\ Covers(store[r], NoRecord) /\ Covers(NoRecord, replicaDisk[Self])
    <3>1. Covers(NoRecord, replicaDisk[Self])
      BY <2>1, <2>2, DhtTyped
    <3>2. store[r] = NoRecord \/ store[r].seq > 0
      BY <2>2 DEF Held, DhtAssumption
    <3> QED
      BY <3>1, <3>2 DEF Held, Covers, NoRecord
  <2>5. Covers(store[r], replicaDisk[Self])
    BY <2>2, <2>4, CoversThrough
  <2>6. \A n \in DhtNodes : Covers(store'[n], store[n]) /\ Covers(store'[n], replicaDisk[n])
    BY <2>1, <2>2, <2>4, <2>5, DhtTyped
  <2> QED
    BY <2>1, <2>3, <2>6, DhtTyped, GrowingStep
<1>5. ASSUME NEW r \in ReplicaSet, ReconcileStores(r)
      PROVE  DhtInv'
  <2>1. /\ UNCHANGED <<expired, write, requests, placement, confirmed, budget>>
        /\ Accepts(store[r], check.rec) /\ store' = [store EXCEPT ![r] = check.rec]
        /\ replicaDisk' = [replicaDisk EXCEPT ![r] = check.rec]
        /\ check' = [check EXCEPT !.sent = @ \ {r}, !.held = @ \cup {r}]
    BY <1>5 DEF ReconcileStores
  <2>2. r \in DhtNodes /\ store[r] \in Held /\ replicaDisk[r] \in Held /\ check.rec \in Held
    BY DhtTyped DEF DhtNodes, DhtInv, DhtTypeOK, Held
  <2>3. Covers(check.rec, store[r]) /\ Covers(store[r], replicaDisk[r])
    BY <2>1, <2>2, AcceptedCovers, DhtTyped
  <2>4. Covers(check.rec, replicaDisk[r])
    BY <2>2, <2>3, CoversThrough
  <2>5. DhtTypeOK'
    BY <2>1, <2>2 DEF DhtInv, DhtTypeOK, Held
  <2>6. \A n \in DhtNodes : /\ Covers(store'[n], store[n]) /\ Covers(replicaDisk'[n], replicaDisk[n])
                            /\ Covers(store'[n], replicaDisk'[n])
    BY <2>1, <2>2, <2>3, <2>4, DhtTyped DEF Covers
  <2> QED
    BY <2>1, <2>5, <2>6, GrowingStep
<1>6. ASSUME NEW n \in DhtNodes, Persist(n)
      PROVE  DhtInv'
  <2>1. /\ UNCHANGED <<store, expired, write, requests, placement, confirmed, check, budget>>
        /\ replicaDisk' = [replicaDisk EXCEPT ![n] = store[n]]
    BY <1>6 DEF Persist
  <2>2. DhtTypeOK'
    BY <2>1 DEF DhtInv, DhtTypeOK
  <2>3. \A m \in DhtNodes : /\ Covers(store'[m], store[m]) /\ Covers(replicaDisk'[m], replicaDisk[m])
                            /\ Covers(store'[m], replicaDisk'[m])
    BY <2>1, DhtTyped
  <2> QED
    BY <2>1, <2>2, <2>3, GrowingStep
<1> QED
  BY <1>1, <1>2, <1>3, <1>4, <1>5, <1>6

LEMMA ExpireKeeps ==
    ASSUME DhtAssumption, DhtInv, ExpireRecords
    PROVE  DhtInv'
<1>1. PICK n \in Sequences :
           n > expired /\ expired' = n /\ store' = Swept(store, n) /\ replicaDisk' = Swept(replicaDisk, n)
  BY DEF ExpireRecords
<1>2. UNCHANGED <<write, requests, placement, confirmed, check, budget>>
  BY DEF ExpireRecords
<1>3. n \in Nat /\ expired \in Nat
  BY DEF Sequences, DhtAssumption, DhtInv, DhtTypeOK
<1>4. \A m \in DhtNodes : /\ store'[m] = IF store[m].seq > n THEN store[m] ELSE NoRecord
                          /\ replicaDisk'[m] = IF replicaDisk[m].seq > n THEN replicaDisk[m] ELSE NoRecord
  BY <1>1 DEF Swept
<1>5. store' \in [DhtNodes -> Held] /\ replicaDisk' \in [DhtNodes -> Held]
  BY <1>1, DhtTyped DEF Swept, Held
<1>6. DhtTypeOK'
  <2>1. expired' \in {0} \cup Sequences
    BY <1>1
  <2> QED
    BY <1>2, <1>5, <2>1 DEF DhtInv, DhtTypeOK, Held
<1>7. \A kept \in Held, rec \in Held :
         rec.seq > n /\ Covers(kept, rec) => rec.seq > expired /\ kept.seq > n
  BY <1>1, <1>3, HeldNumbers DEF Covers
<1>8. \A m \in DhtNodes, rec \in Held :
         rec.seq > n => /\ Live(rec) /\ (Covers(replicaDisk[m], rec) => Covers(replicaDisk'[m], rec))
                        /\ Covers(store[m], rec) => Covers(store'[m], rec)
  <2> SUFFICES ASSUME NEW m \in DhtNodes, NEW rec \in Held, rec.seq > n
               PROVE  /\ Live(rec) /\ (Covers(replicaDisk[m], rec) => Covers(replicaDisk'[m], rec))
                      /\ Covers(store[m], rec) => Covers(store'[m], rec)
    OBVIOUS
  <2>1. replicaDisk[m] \in Held /\ store[m] \in Held
    BY DhtTyped
  <2>2. Live(rec)
    BY <1>7 DEF Live, Covers
  <2> QED
    BY <1>4, <1>7, <2>1, <2>2
<1>9. DiskKept /\ \A rec \in Held : rec.seq > expired' => Live(rec)
  BY <1>1, <1>8 DEF DiskKept, DhtNodes
<1>10. ConfirmedIsDurable'
  BY <1>2, <1>9, QuorumKept
<1>11. StoreAhead'
  <2> SUFFICES ASSUME NEW m \in DhtNodes PROVE Covers(store'[m], replicaDisk'[m])
    BY DEF StoreAhead, Covers
  <2>1. replicaDisk[m] \in Held /\ store[m] \in Held /\ Covers(store[m], replicaDisk[m])
    BY DhtTyped
  <2>2. store[m].seq \in Nat /\ replicaDisk[m].seq \in Nat
    BY <2>1, HeldNumbers
  <2> QED
    BY <1>3, <1>4, <2>1, <2>2 DEF Covers, NoRecord
<1>12. RequestsTrue'
  <2> SUFFICES ASSUME NEW q \in requests, q.rec.seq > n
               PROVE  /\ q.at = "accepted" => Covers(store'[q.to], q.rec)
                      /\ q.at = "durable" => Covers(replicaDisk'[q.to], q.rec)
    BY <1>1, <1>2 DEF RequestsTrue, Live, Covers
  <2>1. q.to \in DhtNodes /\ q.rec \in Held
    BY DhtTyped DEF DhtNodes, Held, Requests
  <2>2. Live(q.rec)
    BY <1>8, <2>1
  <2> QED
    BY <1>8, <2>1, <2>2 DEF DhtInv, RequestsTrue
<1>13. AcksTrue'
  <2> SUFFICES ASSUME write.rec.seq > n, NEW r \in write.acked
               PROVE  Covers(replicaDisk'[r], write.rec)
    BY <1>1, <1>2 DEF AcksTrue, Live, Covers
  <2>1. r \in DhtNodes /\ write.rec \in Held
    BY DEF DhtInv, DhtTypeOK, DhtNodes, Held
  <2>2. Live(write.rec)
    BY <1>8, <2>1
  <2> QED
    BY <1>8, <2>1, <2>2 DEF DhtInv, AcksTrue
<1> QED
  BY <1>2, <1>6, <1>10, <1>11, <1>12, <1>13 DEF DhtInv

LEMMA RestartKeeps ==
    ASSUME DhtAssumption, DhtInv, NEW n \in DhtNodes, Restart(n)
    PROVE  DhtInv'
<1>1. /\ UNCHANGED <<replicaDisk, expired, confirmed>> /\ store' = [store EXCEPT ![n] = replicaDisk[n]]
      /\ budget' = [budget EXCEPT !.restarts = @ - 1] /\ budget.restarts > 0
      /\ requests' = {IF q.to = n THEN [q EXCEPT !.at = "lost"] ELSE q : q \in requests}
  BY DEF Restart
<1>2. \/ UNCHANGED <<write, check, placement>>
      \/ write' = Idle /\ check' = NotChecking /\ placement' = [rec |-> NoRecord, at |-> {}]
  BY DEF Restart
<1>3. \A q \in requests : [q EXCEPT !.at = "lost"] \in Requests /\ [q EXCEPT !.at = "lost"].at = "lost"
  BY DhtTyped DEF Requests
<1>4. /\ requests' \subseteq Requests
      /\ \A q \in requests' : (q \in requests /\ q.to # n) \/ q.at = "lost"
  BY ZenonT(60), <1>1, <1>3, DhtTyped
<1>5. IsFiniteSet(requests')
  <2> DEFINE f == [q \in requests |-> IF q.to = n THEN [q EXCEPT !.at = "lost"] ELSE q]
  <2>1. f \in Surjection(requests, requests')
    BY <1>1 DEF Surjection
  <2> HIDE DEF f
  <2> QED
    BY <2>1, DhtTyped, FS_Surjection
<1>6. DhtTypeOK'
  <2>1. budget' \in [puts : Nat, restarts : Nat, reconciles : Nat]
    BY SMTT(60), <1>1 DEF DhtInv, DhtTypeOK
  <2>2. store' \in [DhtNodes -> Records \cup {NoRecord}]
    BY <1>1 DEF DhtInv, DhtTypeOK
  <2>3. Idle \in [rec : Records \cup {NoRecord}, phase : {"idle", "placing"},
                 local : BOOLEAN, acked : SUBSET ReplicaSet, cursor : 1..(Len(Replicas) + 1)]
    BY ReplicasFinite DEF Idle
  <2>4. /\ write' \in [rec : Records \cup {NoRecord}, phase : {"idle", "placing"},
                       local : BOOLEAN, acked : SUBSET ReplicaSet, cursor : 1..(Len(Replicas) + 1)]
        /\ placement' \in [rec : Records \cup {NoRecord}, at : SUBSET ReplicaSet]
        /\ check' \in [rec : Records \cup {NoRecord}, phase : {"idle", "storing"},
                      held : SUBSET ReplicaSet, sent : SUBSET ReplicaSet]
    BY <1>2, <2>3 DEF DhtInv, DhtTypeOK, NotChecking
  <2> QED
    BY <1>1, <1>4, <2>1, <2>2, <2>4 DEF DhtInv, DhtTypeOK, Requests
<1>7. StoreAhead'
  <2>1. \A m \in DhtNodes : store'[m] = IF m = n THEN replicaDisk[m] ELSE store[m]
    BY <1>1, DhtTyped
  <2> QED
    BY <1>1, <2>1, DhtTyped DEF StoreAhead, Covers
<1>8. RequestsTrue'
  <2>1. \A q \in requests : q.to # n => store'[q.to] = store[q.to]
    BY <1>1, DhtTyped
  <2> QED
    BY <1>1, <1>4, <2>1 DEF DhtInv, RequestsTrue, Covers, Live
<1>9. AcksTrue' /\ (write'.phase = "placing" => write'.rec \in Records)
  BY <1>1, <1>2 DEF DhtInv, AcksTrue, Covers, Live, Idle
<1>10. ConfirmedIsDurable'
  BY <1>1 DEF DhtInv, ConfirmedIsDurable, Covers, Live
<1> QED
  BY <1>5, <1>6, <1>7, <1>8, <1>9, <1>10 DEF DhtInv

LEMMA DhtInvNext == ASSUME DhtAssumption, DhtInv, [DhtNext]_dhtVars PROVE DhtInv'
BY PutStartsKeeps, StoreServedKeeps, StorePersistedKeeps, StoreAckedKeeps, StoreFailsKeeps,
   LateAnswerKeeps, PutEndsKeeps, QuietKeeps, ExpireKeeps, RestartKeeps DEF DhtNext

-----------------------------------------------------------------------------
(* The direct transport: proofs, for any sends and connections.  That a    *)
(* leased connection stays open rests on Fit, which ties the pool, the     *)
(* connect under way and the leases to the states of the connections.      *)

LEMMA AbandonFits ==
    ASSUME P2pAssumption, NEW cs, NEW p, NEW c, Fit(cs, p, c)
    PROVE  /\ Fit(Abandon(cs, c), p, None)
           /\ \A w \in Connections : Abandon(cs, c)[w].leases = cs[w].leases
           /\ \A w \in Connections : cs[w].status = "unused" => Abandon(cs, c)[w] = cs[w]
BY DEF P2pAssumption, Fit, Abandon, ConnectionStates, None

LEMMA RetireFits ==
    ASSUME P2pAssumption, NEW cs, NEW p, NEW c, Fit(cs, p, c), NEW force \in BOOLEAN
    PROVE  /\ Fit(RetireClient(cs, p, force), None, c)
           /\ \A w \in Connections : RetireClient(cs, p, force)[w].leases = cs[w].leases
<1>1. cs \in [Connections -> ConnectionStates] /\ p \in Connections \cup {None} /\ (p # c \/ p = None)
  BY DEF Fit
<1>2. CASE p = None
  BY <1>2 DEF RetireClient, Fit
<1>3. CASE p # None
  <2> DEFINE new == IF cs[p].leases > 0 /\ ~force THEN [cs[p] EXCEPT !.retired = TRUE]
                    ELSE [cs[p] EXCEPT !.retired = FALSE, !.status = IF force THEN "torn" ELSE "closed"]
  <2>1. p \in Connections /\ cs[p] \in ConnectionStates /\ cs[p].status = "open" /\ ~cs[p].retired
    BY <1>1, <1>3 DEF Fit
  <2>2. RetireClient(cs, p, force) = [cs EXCEPT ![p] = new]
    BY <1>1, <1>3, <2>1 DEF RetireClient, ConnectionStates
  <2>3. /\ new \in ConnectionStates /\ new.leases = cs[p].leases
        /\ new.leases > 0 => new.status \in {"open", "torn"}
        /\ new.retired => new.status = "open"
    BY <2>1 DEF ConnectionStates
  <2>4. c # p
    BY <1>1, <1>3
  <2> HIDE DEF new
  <2>5. /\ RetireClient(cs, p, force) \in [Connections -> ConnectionStates]
        /\ RetireClient(cs, p, force)[p] = new
        /\ \A w \in Connections : w # p => RetireClient(cs, p, force)[w] = cs[w]
    BY <1>1, <2>1, <2>2, <2>3
  <2> QED
    BY <1>3, <2>3, <2>4, <2>5 DEF Fit
<1> QED
  BY <1>2, <1>3

\* What is fit stays so when less is in use.
LEMMA LessFits ==
    ASSUME P2pAssumption, NEW cs, NEW p, NEW c, Fit(cs, p, c)
    PROVE  Fit(cs, None, c) /\ Fit(cs, p, None) /\ Abandon(cs, None) = cs
           /\ \A force \in BOOLEAN : RetireClient(cs, None, force) = cs
BY DEF P2pAssumption, Fit, None, Abandon, RetireClient

LEMMA DiscardsConnection ==
    ASSUME P2pAssumption, NEW cs, Fit(cs, pool, connecting), NEW force \in BOOLEAN,
           DiscardConnection(cs, force)
    PROVE  /\ Fit(conn', pool', connecting')
           /\ \A w \in Connections : conn'[w].leases = cs[w].leases
<1>1. /\ conn' = RetireClient(Abandon(cs, connecting), pool, force)
      /\ pool' = None /\ connecting' = None
  BY DEF DiscardConnection
<1> DEFINE left == Abandon(cs, connecting)
<1>2. Fit(left, pool, None) /\ \A w \in Connections : left[w].leases = cs[w].leases
  <2>1. Fit(left, pool, None)
    BY AbandonFits
  <2>2. \A w \in Connections : Abandon(cs, connecting)[w].leases = cs[w].leases
    BY DEF Abandon, Fit, ConnectionStates
  <2> QED
    BY <2>1, <2>2
<1> HIDE DEF left
<1>3. /\ Fit(RetireClient(left, pool, force), None, None)
      /\ \A w \in Connections : RetireClient(left, pool, force)[w].leases = left[w].leases
  BY <1>2, RetireFits
<1> QED
  BY <1>1, <1>2, <1>3 DEF left

LEMMA DiscardsBinding ==
    ASSUME P2pAssumption, NEW cs, Fit(cs, pool, connecting), NEW g, DiscardBinding(cs, g)
    PROVE  /\ Fit(conn', pool', connecting')
           /\ \A w \in Connections : conn'[w].leases = cs[w].leases
<1> DEFINE c == IF connecting # None /\ cs[connecting].gen = g THEN connecting ELSE None
           p == IF pool # None /\ cs[pool].gen = g THEN pool ELSE None
<1>1. /\ conn' = RetireClient(Abandon(cs, c), p, FALSE)
      /\ connecting' = IF c # None THEN None ELSE connecting
      /\ pool' = IF p # None THEN None ELSE pool
  BY DEF DiscardBinding
<1> DEFINE left == Abandon(cs, c)
<1>2. Fit(left, pool, connecting') /\ \A w \in Connections : left[w].leases = cs[w].leases
  <2>1. CASE c = None
    <3>1. left = cs
      BY <2>1, LessFits
    <3> QED
      BY <1>1, <2>1, <3>1
  <2>2. CASE c # None
    <3>1. c = connecting /\ connecting' = None
      BY <1>1, <2>2
    <3>2. Fit(Abandon(cs, connecting), pool, None)
      BY AbandonFits
    <3>3. \A w \in Connections : Abandon(cs, connecting)[w].leases = cs[w].leases
      BY DEF Abandon, Fit, ConnectionStates
    <3> QED
      BY <3>1, <3>2, <3>3
  <2> QED
    BY <2>1, <2>2
<1>3. p = pool \/ p = None
  OBVIOUS
<1> HIDE DEF left, c, p
<1>4. CASE p = None
  <2>1. RetireClient(left, p, FALSE) = left
    BY <1>2, <1>4, LessFits
  <2> QED
    BY <1>1, <1>2, <1>4, <2>1 DEF left
<1>5. CASE p # None
  <2>1. p = pool /\ pool' = None
    BY <1>1, <1>3, <1>5
  <2>2. /\ Fit(RetireClient(left, pool, FALSE), None, connecting')
        /\ \A w \in Connections : RetireClient(left, pool, FALSE)[w].leases = left[w].leases
    BY ZenonT(60), <1>2, RetireFits
  <2> QED
    BY <1>1, <1>2, <2>1, <2>2 DEF left
<1> QED
  BY <1>4, <1>5

LEMMA ReleaseFits ==
    ASSUME P2pAssumption, NEW cs, NEW p, NEW c, Fit(cs, p, c), NEW w \in Connections, cs[w].leases > 0
    PROVE  /\ Fit(Release(cs, w), p, c)
           /\ Release(cs, w)[w].leases = cs[w].leases - 1
           /\ \A v \in Connections : v # w => Release(cs, w)[v] = cs[v]
<1> DEFINE left == cs[w].leases - 1
           close == left = 0 /\ cs[w].retired
           new == [cs[w] EXCEPT !.leases = left, !.retired = @ /\ ~close,
                                !.status = IF close /\ @ = "open" THEN "closed" ELSE @]
<1>1. cs \in [Connections -> ConnectionStates] /\ cs[w] \in ConnectionStates
  BY DEF Fit
<1>2. left \in Nat /\ close \in BOOLEAN
  BY <1>1 DEF ConnectionStates
<1>3. Release(cs, w) = [cs EXCEPT ![w] = new]
  BY <1>1 DEF Release, ConnectionStates
<1>4. /\ new \in ConnectionStates /\ new.leases = left
      /\ new.retired = (cs[w].retired /\ ~close)
      /\ new.status = IF close /\ cs[w].status = "open" THEN "closed" ELSE cs[w].status
  BY <1>1, <1>2 DEF ConnectionStates
<1>5. /\ Release(cs, w) \in [Connections -> ConnectionStates] /\ Release(cs, w)[w] = new
      /\ \A v \in Connections : v # w => Release(cs, w)[v] = cs[v]
  BY <1>1, <1>3, <1>4
<1>6. new.leases > 0 => new.status \in {"open", "torn"}
  BY <1>4 DEF Fit
<1>7. new.retired => new.status \in {"open", "torn", "closed"}
  BY <1>4 DEF Fit
<1>8. p = w => new.status = "open" /\ ~new.retired
  BY <1>4 DEF Fit, None, P2pAssumption
<1>9. c # w
  BY DEF Fit, None, P2pAssumption
<1> HIDE DEF new
<1> QED
  BY <1>4, <1>5, <1>6, <1>7, <1>8, <1>9 DEF Fit

LEMMA P2pTyped ==
    ASSUME P2pInv
    PROVE  /\ send \in [Sends -> SendStates] /\ conn \in [Connections -> ConnectionStates]
           /\ pool \in Connections \cup {None} /\ connecting \in Connections \cup {None}
           /\ record \in [gen : 0..MaxGeneration, live : BOOLEAN]
           /\ recovery \in Sends \cup {None} /\ faults \in 0..MaxFaults
           /\ entered \in [Sends -> SUBSET {"direct", "relay", "direct-again"}]
           /\ Fit(conn, pool, connecting)
           /\ \A s \in Sends : Progress(send[s], entered[s])
BY DEF P2pInv, P2pTypeOK

\* A step that starts or ends no dispatch and hands nothing over.
LEMMA P2pMoves ==
    ASSUME P2pInv, send' \in [Sends -> SendStates], entered' = entered,
           record' \in [gen : 0..MaxGeneration, live : BOOLEAN],
           recovery' \in Sends \cup {None}, faults' \in 0..MaxFaults,
           Fit(conn', pool', connecting'),
           \A w \in Connections : conn'[w].leases = conn[w].leases,
           \A s \in Sends : \/ send'[s] = send[s]
                            \/ /\ send[s].pc # "dispatching" /\ send'[s].pc # "dispatching"
                               /\ Progress(send'[s], entered[s])
    PROVE  P2pInv'
<1>1. P2pTypeOK'
  BY DEF P2pInv, P2pTypeOK, Fit
<1>2. \A s \in Sends : Progress(send'[s], entered'[s])
  BY DEF P2pInv
<1>3. \A w \in Connections : Dispatches(w)' = Dispatches(w)
  BY DEF Dispatches
<1>4. \A w \in Connections : conn'[w].leases = Cardinality(Dispatches(w)')
  BY <1>3 DEF P2pInv
<1> QED
  BY <1>1, <1>2, <1>4 DEF P2pInv, Fit, Progress, Dispatches

\* The same for a step of one send.
LEMMA SendMoves ==
    ASSUME P2pInv, NEW s \in Sends, NEW x \in SendStates, send' = [send EXCEPT ![s] = x],
           entered' = entered, record' \in [gen : 0..MaxGeneration, live : BOOLEAN],
           recovery' \in Sends \cup {None}, faults' \in 0..MaxFaults,
           Fit(conn', pool', connecting'),
           \A w \in Connections : conn'[w].leases = conn[w].leases,
           send[s].pc # "dispatching", x.pc # "dispatching", Progress(x, entered[s])
    PROVE  P2pInv'
<1>1. send' \in [Sends -> SendStates] /\ send'[s] = x /\ \A t \in Sends : t # s => send'[t] = send[t]
  BY P2pTyped
<1> QED
  BY <1>1, P2pMoves

\* Where a send that has handed nothing over may go.
LEMMA UnsentProgress ==
    ASSUME P2pInv, NEW s \in Sends, ~send[s].dispatched, NEW x, ~x.dispatched,
           x.pc # "dispatching", x.pc = "connecting" => x.conn # None
    PROVE  Progress(x, entered[s])
BY P2pTyped DEF Progress

LEMMA DiscoverKeeps ==
    ASSUME P2pAssumption, P2pInv, NEW s \in Sends, NEW at \in SendStates, Discovering(s, at),
           ~send[s].dispatched, ~at.dispatched, send[s].pc # "dispatching",
           UNCHANGED <<record, entered, faults>>, Fit(conn', pool', connecting'),
           \A w \in Connections : conn'[w].leases = conn[w].leases
    PROVE  P2pInv'
<1>1. CASE record.live
  <2> DEFINE x == [at EXCEPT !.pc = "resolved", !.gen = record.gen]
  <2>1. send' = [send EXCEPT ![s] = x] /\ recovery' = recovery
    BY <1>1 DEF Discovering
  <2>2. x \in SendStates /\ x.pc = "resolved" /\ ~x.dispatched
    BY P2pTyped DEF SendStates
  <2> HIDE DEF x
  <2>3. Progress(x, entered[s])
    BY <2>2, UnsentProgress
  <2> QED
    BY <2>1, <2>2, <2>3, SendMoves, P2pTyped
<1>2. CASE ~record.live
  <2> DEFINE l == IF recovery = None THEN s ELSE recovery
             x == [at EXCEPT !.pc = "discovering", !.leader = l]
  <2>1. send' = [send EXCEPT ![s] = x] /\ recovery' = l
    BY <1>2 DEF Discovering
  <2>2. l \in Sends \cup {None}
    BY P2pTyped
  <2> HIDE DEF l
  <2>3. x \in SendStates /\ x.pc = "discovering" /\ ~x.dispatched
    BY <2>2 DEF SendStates
  <2> HIDE DEF x
  <2>4. Progress(x, entered[s])
    BY <2>3, UnsentProgress
  <2> QED
    BY <2>1, <2>2, <2>3, <2>4, SendMoves, P2pTyped
<1> QED
  BY <1>1, <1>2

\* Who has not handed over, by where it stands.
LEMMA NotDispatched ==
    ASSUME P2pInv, NEW s \in Sends,
           send[s].pc \in {"new", "discovering", "resolved", "discarding", "connecting", "rediscovering"}
    PROVE  ~send[s].dispatched /\ send[s] \in SendStates
BY P2pTyped DEF Progress

LEMMA FoundStates ==
    ASSUME NEW at \in SendStates, NEW r \in [gen : 0..MaxGeneration, live : BOOLEAN], P2pAssumption
    PROVE  /\ Found(at, r) \in SendStates /\ Found(at, r).dispatched = at.dispatched
           /\ Found(at, r).pc \in {"resolved", "fallback"}
<1> DEFINE g == IF r.live THEN r.gen ELSE 0
           pc == IF r.live THEN "resolved" ELSE "fallback"
<1>1. g \in 0..MaxGeneration /\ pc \in {"resolved", "fallback"}
  BY DEF P2pAssumption
<1>2. Found(at, r) = [at EXCEPT !.leader = None, !.gen = g, !.pc = pc]
  BY DEF Found
<1> HIDE DEF g, pc
<1> QED
  BY ZenonT(60), <1>1, <1>2 DEF SendStates

LEMMA RefreshedTyped ==
    ASSUME P2pAssumption, NEW r \in [gen : 0..MaxGeneration, live : BOOLEAN]
    PROVE  Refreshed(r) \subseteq [gen : 0..MaxGeneration, live : BOOLEAN]
<1>1. \A g \in r.gen..MaxGeneration : g \in 0..MaxGeneration
  BY DEF P2pAssumption
<1> QED
  BY <1>1 DEF Refreshed

LEMMA DiscoverySteps ==
    ASSUME P2pAssumption, P2pInv, NEW s \in Sends,
           Discover(s) \/ Recovered(s) \/ DiscoveryDeadline(s) \/ Rediscovered(s)
    PROVE  P2pInv'
<1>0. \A w \in Connections : conn[w].leases = conn[w].leases
  OBVIOUS
<1>1. CASE Discover(s)
  <2>1. /\ send[s].pc = "new" /\ Discovering(s, send[s])
        /\ UNCHANGED <<record, pool, connecting, conn, entered, faults>>
    BY <1>1 DEF Discover
  <2>2. ~send[s].dispatched /\ send[s] \in SendStates
    BY <2>1, NotDispatched
  <2> QED
    BY <2>1, <2>2, DiscoverKeeps, P2pTyped
<1>2. CASE Recovered(s)
  <2> DEFINE waiting == {t \in Sends : send[t].pc = "discovering" /\ send[t].leader = s}
  <2>1. PICK r \in Refreshed(record) :
           /\ record' = r
           /\ send' = [t \in Sends |-> IF t \in waiting THEN Found(send[t], r) ELSE send[t]]
    BY <1>2 DEF Recovered
  <2>2. /\ UNCHANGED <<pool, connecting, conn, entered, faults>>
        /\ recovery' \in {None, recovery}
    BY <1>2 DEF Recovered
  <2>3. r \in [gen : 0..MaxGeneration, live : BOOLEAN]
    BY RefreshedTyped, P2pTyped
  <2>4. \A t \in waiting : /\ Found(send[t], r) \in SendStates /\ send[t].pc # "dispatching"
                           /\ Found(send[t], r).pc # "dispatching"
                           /\ Progress(Found(send[t], r), entered[t])
    <3> SUFFICES ASSUME NEW t \in waiting
                 PROVE  /\ Found(send[t], r) \in SendStates /\ send[t].pc # "dispatching"
                        /\ Found(send[t], r).pc # "dispatching"
                        /\ Progress(Found(send[t], r), entered[t])
      OBVIOUS
    <3>1. ~send[t].dispatched /\ send[t] \in SendStates
      BY NotDispatched
    <3>2. /\ Found(send[t], r) \in SendStates /\ Found(send[t], r).dispatched = send[t].dispatched
          /\ Found(send[t], r).pc \in {"resolved", "fallback"}
      BY <2>3, <3>1, FoundStates
    <3>3. Progress(Found(send[t], r), entered[t])
      BY <3>1, <3>2, UnsentProgress
    <3> QED
      BY <3>2, <3>3
  <2>5. send' \in [Sends -> SendStates]
    BY <2>1, <2>4, P2pTyped
  <2>6. \A t \in Sends : \/ send'[t] = send[t]
                         \/ /\ send[t].pc # "dispatching" /\ send'[t].pc # "dispatching"
                            /\ Progress(send'[t], entered[t])
    BY <2>1, <2>4
  <2>7. recovery' \in Sends \cup {None} /\ record' \in [gen : 0..MaxGeneration, live : BOOLEAN]
    BY <2>1, <2>2, <2>3, P2pTyped
  <2> HIDE DEF waiting
  <2> QED
    BY <2>2, <2>5, <2>6, <2>7, P2pMoves, P2pTyped
<1>3. CASE DiscoveryDeadline(s)
  <2>1. /\ send[s].pc = "discovering" /\ send' = [send EXCEPT ![s] = Found(send[s], record)]
        /\ recovery' \in {None, recovery} /\ UNCHANGED <<record, pool, connecting, conn, entered, faults>>
    BY <1>3, P2pTyped DEF DiscoveryDeadline
  <2>2. ~send[s].dispatched /\ send[s] \in SendStates
    BY <2>1, NotDispatched
  <2>3. /\ Found(send[s], record) \in SendStates /\ Found(send[s], record).dispatched = send[s].dispatched
        /\ Found(send[s], record).pc \in {"resolved", "fallback"}
    BY <2>2, P2pTyped, FoundStates
  <2>4. Progress(Found(send[s], record), entered[s])
    BY <2>2, <2>3, UnsentProgress
  <2> QED
    BY <2>1, <2>2, <2>3, <2>4, SendMoves, P2pTyped
<1>4. CASE Rediscovered(s)
  <2>1. PICK r \in Refreshed(record) :
           /\ record' = r
           /\ send' = [send EXCEPT ![s].pc = IF r.live THEN "resolved" ELSE "fallback",
                                   ![s].gen = IF r.live THEN r.gen ELSE @]
    BY <1>4 DEF Rediscovered
  <2>2. send[s].pc = "rediscovering" /\ UNCHANGED <<recovery, pool, connecting, conn, entered, faults>>
    BY <1>4 DEF Rediscovered
  <2>3. r \in [gen : 0..MaxGeneration, live : BOOLEAN]
    BY RefreshedTyped, P2pTyped
  <2>4. ~send[s].dispatched /\ send[s] \in SendStates
    BY <2>2, NotDispatched
  <2> DEFINE x == [send[s] EXCEPT !.pc = IF r.live THEN "resolved" ELSE "fallback",
                                  !.gen = IF r.live THEN r.gen ELSE @]
  <2>5. send' = [send EXCEPT ![s] = x]
    BY <2>1, <2>4, P2pTyped
  <2>6. x \in SendStates /\ x.dispatched = send[s].dispatched /\ x.pc \in {"resolved", "fallback"}
    BY <2>3, <2>4 DEF SendStates
  <2> HIDE DEF x
  <2>7. Progress(x, entered[s])
    BY <2>4, <2>6, UnsentProgress
  <2>8. record' \in [gen : 0..MaxGeneration, live : BOOLEAN]
    BY <2>1, <2>3
  <2> QED
    BY <2>2, <2>5, <2>6, <2>7, <2>8, SendMoves, P2pTyped
<1> QED
  BY <1>1, <1>2, <1>3, <1>4

\* A connect is shared or started.
LEMMA StartConnectKeeps ==
    ASSUME P2pAssumption, P2pInv, NEW s \in Sends, send[s].pc \in {"resolved", "discarding"},
           StartConnect(s), UNCHANGED <<record, recovery, pool, entered, faults>>
    PROVE  P2pInv'
<1>1. ~send[s].dispatched /\ send[s] \in SendStates
  BY NotDispatched
<1>2. ASSUME NEW w \in Connections, send' = [send EXCEPT ![s].pc = "connecting", ![s].conn = w],
             Fit(conn', pool', connecting'), \A v \in Connections : conn'[v].leases = conn[v].leases
      PROVE  P2pInv'
  <2> DEFINE x == [send[s] EXCEPT !.pc = "connecting", !.conn = w]
  <2>1. send' = [send EXCEPT ![s] = x]
    BY <1>1, <1>2, P2pTyped
  <2>2. x \in SendStates /\ ~x.dispatched /\ x.pc = "connecting" /\ x.conn = w /\ w # None
    BY <1>1 DEF SendStates, P2pAssumption
  <2> HIDE DEF x
  <2>3. Progress(x, entered[s])
    BY <1>1, <2>2, UnsentProgress
  <2> QED
    BY <1>2, <2>1, <2>2, <2>3, SendMoves, P2pTyped
<1>3. CASE connecting # None /\ conn[connecting].gen = send[s].gen
  <2>1. /\ send' = [send EXCEPT ![s].pc = "connecting", ![s].conn = connecting]
        /\ UNCHANGED <<connecting, conn>>
    BY <1>3 DEF StartConnect
  <2>2. connecting \in Connections
    BY <1>3, P2pTyped
  <2> QED
    BY <1>2, <2>1, <2>2, P2pTyped
<1>4. CASE ~(connecting # None /\ conn[connecting].gen = send[s].gen)
  <2>1. PICK w \in Connections :
           /\ conn[w].status = "unused"
           /\ conn' = [Abandon(conn, connecting) EXCEPT ![w].status = "pending", ![w].gen = send[s].gen]
           /\ connecting' = w
           /\ send' = [send EXCEPT ![s].pc = "connecting", ![s].conn = w]
    BY <1>4 DEF StartConnect
  <2> DEFINE cs == Abandon(conn, connecting)
             new == [conn[w] EXCEPT !.status = "pending", !.gen = send[s].gen]
  <2>2. Fit(conn, pool, connecting)
    BY P2pTyped
  <2>3. Fit(cs, pool, None)
    BY <2>2, AbandonFits
  <2>4. /\ \A v \in Connections : cs[v].leases = conn[v].leases
        /\ cs[w] = conn[w] /\ cs \in [Connections -> ConnectionStates]
    BY <2>1, <2>2 DEF Abandon, Fit, ConnectionStates
  <2> HIDE DEF cs
  <2>5. conn' = [cs EXCEPT ![w] = new]
    BY <2>1, <2>4 DEF ConnectionStates, cs
  <2>6. /\ new \in ConnectionStates /\ new.leases = conn[w].leases /\ new.status = "pending"
        /\ new.retired = conn[w].retired
    <3>1. send[s].gen \in 0..MaxGeneration /\ conn[w] \in ConnectionStates
      BY <1>1, P2pTyped DEF SendStates
    <3>2. PICK g \in 0..MaxGeneration : g = send[s].gen
      BY <3>1
    <3>3. new = [conn[w] EXCEPT !.status = "pending", !.gen = g]
      BY <3>2
    <3> HIDE DEF new
    <3> QED
      BY <3>1, <3>3 DEF ConnectionStates
  <2>7. ~new.retired /\ ~(new.leases > 0) /\ pool # w
    BY <2>1, <2>2, <2>6 DEF Fit, P2pAssumption, None
  <2> HIDE DEF new
  <2>8. /\ conn' \in [Connections -> ConnectionStates] /\ conn'[w] = new
        /\ \A v \in Connections : v # w => conn'[v] = cs[v]
    BY <2>4, <2>5, <2>6
  <2>9. Fit(conn', pool, w)
    BY <2>3, <2>6, <2>7, <2>8 DEF Fit
  <2>10. \A v \in Connections : conn'[v].leases = conn[v].leases
    BY <2>4, <2>6, <2>8
  <2> QED
    BY <1>2, <2>1, <2>9, <2>10
<1> QED
  BY <1>3, <1>4

LEMMA DirectClientKeeps ==
    ASSUME P2pAssumption, P2pInv, NEW s \in Sends, DirectClient(s) \/ Discarded(s)
    PROVE  P2pInv'
<1>1. CASE Discarded(s)
  BY <1>1, StartConnectKeeps DEF Discarded
<1>2. CASE DirectClient(s)
  <2>1. send[s].pc = "resolved" /\ UNCHANGED <<record, recovery, entered, faults>>
    BY <1>2 DEF DirectClient
  <2>2. ~send[s].dispatched /\ send[s] \in SendStates
    BY <2>1, NotDispatched
  <2>3. CASE /\ pool # None /\ send' = [send EXCEPT ![s].pc = "connecting", ![s].conn = pool]
             /\ UNCHANGED <<pool, connecting, conn>>
    <3> DEFINE x == [send[s] EXCEPT !.pc = "connecting", !.conn = pool]
    <3>1. send' = [send EXCEPT ![s] = x]
      BY <2>2, <2>3, P2pTyped
    <3>2. x \in SendStates /\ ~x.dispatched /\ x.pc = "connecting" /\ x.conn # None
      BY <2>2, <2>3, P2pTyped DEF SendStates
    <3> HIDE DEF x
    <3>3. Progress(x, entered[s])
      BY <2>2, <3>2, UnsentProgress
    <3> QED
      BY <2>1, <2>3, <3>1, <3>2, <3>3, SendMoves, P2pTyped
  <2>4. CASE /\ DiscardBinding(conn, send[s].gen) \/ DiscardConnection(conn, FALSE)
             /\ send' = [send EXCEPT ![s].pc = "discarding"]
    <3> DEFINE x == [send[s] EXCEPT !.pc = "discarding"]
    <3>1. send' = [send EXCEPT ![s] = x]
      BY <2>2, <2>4, P2pTyped
    <3>2. x \in SendStates /\ ~x.dispatched /\ x.pc = "discarding"
      BY <2>2 DEF SendStates
    <3> HIDE DEF x
    <3>3. Progress(x, entered[s])
      BY <2>2, <3>2, UnsentProgress
    <3>4. Fit(conn, pool, connecting)
      BY P2pTyped
    <3>5. /\ Fit(conn', pool', connecting')
          /\ \A w \in Connections : conn'[w].leases = conn[w].leases
      BY <2>4, <3>4, DiscardsBinding, DiscardsConnection
    <3> QED
      BY <2>1, <3>1, <3>2, <3>3, <3>5, SendMoves, P2pTyped
  <2>5. CASE StartConnect(s) /\ UNCHANGED pool
    BY <2>1, <2>5, StartConnectKeeps
  <2> QED
    BY <1>2, <2>3, <2>4, <2>5 DEF DirectClient
<1> QED
  BY <1>1, <1>2

\* One connection changes, and is neither leased nor in use afterwards.
LEMMA ConnMoves ==
    ASSUME P2pAssumption, P2pInv, UNCHANGED <<send, record, recovery, entered>>,
           faults' \in 0..MaxFaults, Fit(conn', pool', connecting'),
           \A w \in Connections : conn'[w].leases = conn[w].leases
    PROVE  P2pInv'
BY P2pMoves, P2pTyped

LEMMA ConnectionSteps ==
    ASSUME P2pAssumption, P2pInv, NEW w \in Connections,
           Connected(w) \/ ConnectedTooLate(w) \/ ConnectFails(w) \/ PeerCloses(w)
    PROVE  P2pInv'
<1>1. /\ Fit(conn, pool, connecting) /\ conn \in [Connections -> ConnectionStates]
      /\ conn[w] \in ConnectionStates /\ w # None
      /\ pool \in Connections \cup {None} /\ connecting \in Connections \cup {None}
  BY P2pTyped DEF P2pAssumption
<1>2. UNCHANGED <<send, record, recovery, entered>>
  BY DEF Connected, ConnectedTooLate, ConnectFails, PeerCloses
<1>3. ASSUME NEW new \in ConnectionStates, conn' = [conn EXCEPT ![w] = new], new.leases = conn[w].leases,
             new.retired = conn[w].retired
      PROVE  /\ conn' \in [Connections -> ConnectionStates] /\ conn'[w] = new
             /\ \A v \in Connections : v # w => conn'[v] = conn[v]
             /\ \A v \in Connections : conn'[v].leases = conn[v].leases
  BY <1>1, <1>3
<1>4. CASE Connected(w)
  <2> DEFINE new == [conn[w] EXCEPT !.status = "open"]
  <2>1. /\ conn[w].status = "pending" /\ conn' = [conn EXCEPT ![w] = new] /\ pool' = w /\ connecting' = None
        /\ faults' = faults
    BY <1>1, <1>4 DEF Connected
  <2>2. /\ new \in ConnectionStates /\ new.leases = conn[w].leases /\ new.retired = conn[w].retired
        /\ new.status = "open"
    BY <1>1 DEF ConnectionStates
  <2> HIDE DEF new
  <2>3. Fit(conn', pool', connecting') /\ \A v \in Connections : conn'[v].leases = conn[v].leases
    BY <1>1, <1>3, <2>1, <2>2 DEF Fit
  <2> QED
    BY <1>2, <2>1, <2>3, ConnMoves, P2pTyped
<1>5. CASE ConnectedTooLate(w)
  <2> DEFINE code == IF connecting = None /\ pool = None THEN "superseded" ELSE "none"
             next == IF connecting # None THEN connecting ELSE pool
             new == [conn[w] EXCEPT !.status = "failed", !.code = code, !.next = next]
  <2>1. /\ conn[w].status = "discarded" /\ conn' = [conn EXCEPT ![w] = new]
        /\ UNCHANGED <<pool, connecting, faults>>
    <3>1. /\ conn[w].status = "discarded" /\ UNCHANGED <<pool, connecting, faults>>
          /\ conn' = [conn EXCEPT ![w].status = "failed", ![w].code = code, ![w].next = next]
      BY <1>5 DEF ConnectedTooLate
    <3> HIDE DEF code, next
    <3> QED
      BY <1>1, <3>1
  <2>2. code \in {"superseded", "none"} /\ next \in Connections \cup {None}
    BY <1>1
  <2> HIDE DEF code, next
  <2>3. /\ new \in ConnectionStates /\ new.leases = conn[w].leases /\ new.retired = conn[w].retired
        /\ new.status = "failed"
    BY <1>1, <2>2 DEF ConnectionStates
  <2> HIDE DEF new
  <2>4. Fit(conn', pool', connecting') /\ \A v \in Connections : conn'[v].leases = conn[v].leases
    BY <1>1, <1>3, <2>1, <2>3 DEF Fit
  <2> QED
    BY <1>2, <2>1, <2>4, ConnMoves, P2pTyped
<1>6. CASE ConnectFails(w)
  <2>1. PICK code \in {"timeout", "refused"} :
           conn' = [conn EXCEPT ![w].status = "failed", ![w].code = code]
    BY <1>6 DEF ConnectFails
  <2> DEFINE new == [conn[w] EXCEPT !.status = "failed", !.code = code]
  <2>2. /\ conn[w].status \in {"pending", "discarded"} /\ conn' = [conn EXCEPT ![w] = new]
        /\ connecting' = IF connecting = w THEN None ELSE connecting
        /\ UNCHANGED <<pool, faults>>
    BY <1>1, <1>6, <2>1 DEF ConnectFails
  <2>3. /\ new \in ConnectionStates /\ new.leases = conn[w].leases /\ new.retired = conn[w].retired
        /\ new.status = "failed"
    BY <1>1 DEF ConnectionStates
  <2> HIDE DEF new
  <2>4. Fit(conn', pool', connecting') /\ \A v \in Connections : conn'[v].leases = conn[v].leases
    BY <1>1, <1>3, <2>2, <2>3 DEF Fit
  <2> QED
    BY <1>2, <2>2, <2>4, ConnMoves, P2pTyped
<1>7. CASE PeerCloses(w)
  <2> DEFINE new == [conn[w] EXCEPT !.status = "torn"]
  <2>1. /\ conn[w].status = "open" /\ conn' = [conn EXCEPT ![w] = new]
        /\ pool' = IF pool = w THEN None ELSE pool
        /\ connecting' = connecting /\ faults < MaxFaults /\ faults' = faults + 1
    BY <1>1, <1>7 DEF PeerCloses
  <2>2. /\ new \in ConnectionStates /\ new.leases = conn[w].leases /\ new.retired = conn[w].retired
        /\ new.status = "torn"
    BY <1>1 DEF ConnectionStates
  <2> HIDE DEF new
  <2>3. Fit(conn', pool', connecting') /\ \A v \in Connections : conn'[v].leases = conn[v].leases
    BY <1>1, <1>3, <2>1, <2>2 DEF Fit
  <2>4. faults' \in 0..MaxFaults
    BY <2>1, P2pTyped DEF P2pAssumption
  <2> QED
    BY <1>2, <2>3, <2>4, ConnMoves
<1> QED
  BY <1>4, <1>5, <1>6, <1>7

\* The catch block of a send that has no lease (any more).
LEMMA FailKeeps ==
    ASSUME P2pAssumption, P2pInv, NEW s \in Sends, NEW code, Fail(s, code, conn), entered' = entered,
           send[s].pc = "connecting"
    PROVE  P2pInv'
<1> DEFINE at == [send[s] EXCEPT !.conn = None]
<1>1. ~send[s].dispatched /\ send[s] \in SendStates
  BY NotDispatched
<1>2. at \in SendStates /\ ~at.dispatched /\ at.tries = send[s].tries
  BY <1>1 DEF SendStates
<1>3. DiscardBinding(conn, send[s].gen) /\ UNCHANGED <<record, faults>>
  BY DEF Fail
<1>4. Fit(conn, pool, connecting)
  BY P2pTyped
<1>5. Fit(conn', pool', connecting') /\ \A w \in Connections : conn'[w].leases = conn[w].leases
  BY <1>3, <1>4, DiscardsBinding
<1>6. CASE Retry(s, code) /\ code = "superseded" /\ Discovering(s, [at EXCEPT !.tries = @ + 1])
  <2> DEFINE x == [at EXCEPT !.tries = @ + 1]
  <2>1. send[s].tries + 1 \in 0..SupersededRetries
    BY <1>1, <1>6 DEF Retry, SendStates, P2pAssumption
  <2>2. x \in SendStates /\ ~x.dispatched
    BY <1>2, <2>1 DEF SendStates
  <2> HIDE DEF x
  <2>3. Discovering(s, x)
    BY <1>6 DEF x
  <2> QED
    BY <1>1, <1>3, <1>5, <2>2, <2>3, DiscoverKeeps
<1>7. CASE /\ send' = [send EXCEPT ![s] = [at EXCEPT !.pc = "rediscovering", !.timeouts = 1]]
           /\ UNCHANGED recovery
  <2> DEFINE x == [at EXCEPT !.pc = "rediscovering", !.timeouts = 1]
  <2>1. x \in SendStates /\ ~x.dispatched /\ x.pc = "rediscovering"
    <3> HIDE DEF at
    <3>1. 1 \in 0..1 /\ "rediscovering" \in {"rediscovering"}
      OBVIOUS
    <3> QED
      BY <1>2, <3>1 DEF SendStates
  <2> HIDE DEF x
  <2>2. Progress(x, entered[s]) /\ send' = [send EXCEPT ![s] = x]
    BY <1>1, <1>7, <2>1, UnsentProgress DEF x
  <2> QED
    BY <1>3, <1>5, <1>7, <2>1, <2>2, SendMoves, P2pTyped
<1>8. CASE send' = [send EXCEPT ![s] = [at EXCEPT !.pc = "fallback"]] /\ UNCHANGED recovery
  <2> DEFINE x == [at EXCEPT !.pc = "fallback"]
  <2>1. x \in SendStates /\ ~x.dispatched /\ x.pc = "fallback"
    BY <1>2 DEF SendStates
  <2> HIDE DEF x
  <2>2. Progress(x, entered[s]) /\ send' = [send EXCEPT ![s] = x]
    BY <1>1, <1>8, <2>1, UnsentProgress DEF x
  <2> QED
    BY <1>3, <1>5, <1>8, <2>1, <2>2, SendMoves, P2pTyped
<1> QED
  BY <1>6, <1>7, <1>8 DEF Fail

LEMMA FollowKeeps == ASSUME P2pAssumption, P2pInv, NEW s \in Sends, Follow(s) PROVE P2pInv'
<1>1. /\ send[s].pc = "connecting" /\ conn[send[s].conn].next # None
      /\ send' = [send EXCEPT ![s].conn = conn[send[s].conn].next]
      /\ UNCHANGED <<record, recovery, pool, connecting, conn, entered, faults>>
  BY DEF Follow
<1>2. ~send[s].dispatched /\ send[s] \in SendStates
  BY <1>1, NotDispatched
<1>3. send[s].conn \in Connections
  BY <1>1, <1>2, P2pTyped DEF Progress, SendStates
<1>4. PICK n \in Connections \cup {None} : n = conn[send[s].conn].next
  BY <1>3, P2pTyped DEF ConnectionStates
<1> DEFINE x == [send[s] EXCEPT !.conn = n]
<1>5. send' = [send EXCEPT ![s] = x]
  BY <1>1, <1>2, <1>4, P2pTyped
<1>6. x \in SendStates /\ ~x.dispatched /\ x.pc = "connecting" /\ x.conn # None
  BY <1>1, <1>2, <1>4 DEF SendStates
<1> HIDE DEF x
<1>7. Progress(x, entered[s])
  BY <1>2, <1>6, UnsentProgress
<1> QED
  BY <1>1, <1>5, <1>6, <1>7, SendMoves, P2pTyped

LEMMA RefusedKeeps ==
    ASSUME P2pAssumption, P2pInv, NEW s \in Sends, DirectRefused(s)
    PROVE  P2pInv'
<1> DEFINE x == [send[s] EXCEPT !.pc = "fallback"]
<1>1. /\ send[s].pc = "resolved" /\ faults < MaxFaults /\ faults' = faults + 1
      /\ DiscardBinding(conn, send[s].gen) /\ send' = [send EXCEPT ![s] = x]
      /\ UNCHANGED <<record, recovery, entered>>
  BY DEF DirectRefused
<1>2. ~send[s].dispatched /\ send[s] \in SendStates
  BY <1>1, NotDispatched
<1>3. x \in SendStates /\ ~x.dispatched /\ x.pc = "fallback"
  BY <1>2 DEF SendStates
<1> HIDE DEF x
<1>4. Progress(x, entered[s])
  BY <1>2, <1>3, UnsentProgress
<1>5. Fit(conn, pool, connecting)
  BY P2pTyped
<1>6. Fit(conn', pool', connecting') /\ \A w \in Connections : conn'[w].leases = conn[w].leases
  BY <1>1, <1>5, DiscardsBinding
<1>7. faults' \in 0..MaxFaults
  BY <1>1, P2pTyped DEF P2pAssumption
<1> QED
  BY <1>1, <1>3, <1>4, <1>6, <1>7, SendMoves, P2pTyped

LEMMA RejectedKeeps ==
    ASSUME P2pAssumption, P2pInv, NEW s \in Sends, ConnectRejected(s)
    PROVE  P2pInv'
BY FailKeeps DEF ConnectRejected

\* The sets of dispatches are finite, and one dispatch counts one.
LEMMA DispatchesFinite ==
    ASSUME P2pAssumption, P2pInv, NEW w \in Connections
    PROVE  IsFiniteSet(Dispatches(w)) /\ Cardinality(Dispatches(w)) \in Nat
<1>1. IsFiniteSet(Dispatches(w))
  BY FS_Subset DEF P2pAssumption, Dispatches
<1> QED
  BY <1>1, FS_CardinalityType

LEMMA DispatchKeeps ==
    ASSUME P2pAssumption, P2pInv, NEW s \in Sends, Dispatch(s)
    PROVE  P2pInv'
<1>1. send[s].pc = "connecting"
  BY DEF Dispatch
<1>2. ~send[s].dispatched /\ send[s] \in SendStates /\ send[s].conn \in Connections /\ entered[s] = {}
  BY <1>1, NotDispatched, P2pTyped DEF Progress, SendStates
<1>3. PICK w \in Connections : w = send[s].conn
  BY <1>2
<1>4. CASE pool # w
  BY <1>1, <1>3, <1>4, FailKeeps DEF Dispatch
<1>5. CASE pool = w
  <2> DEFINE x == [send[s] EXCEPT !.pc = "dispatching", !.dispatched = TRUE]
             new == [conn[w] EXCEPT !.leases = @ + 1]
  <2>1. /\ send' = [send EXCEPT ![s].pc = "dispatching", ![s].dispatched = TRUE]
        /\ conn' = [conn EXCEPT ![w].leases = @ + 1]
        /\ entered' = [entered EXCEPT ![s] = @ \cup {IF "direct" \in @ THEN "direct-again" ELSE "direct"}]
        /\ UNCHANGED <<record, recovery, pool, connecting, faults>>
    BY <1>3, <1>5 DEF Dispatch
  <2>2. /\ send' = [send EXCEPT ![s] = x] /\ conn' = [conn EXCEPT ![w] = new]
        /\ entered' = [entered EXCEPT ![s] = {"direct"}]
    BY <1>2, <2>1, P2pTyped
  <2>3. conn[w] \in ConnectionStates /\ conn[w].leases \in Nat
    BY P2pTyped DEF ConnectionStates
  <2>4. new \in ConnectionStates /\ new.leases = conn[w].leases + 1
        /\ new.status = conn[w].status /\ new.retired = conn[w].retired
    BY <2>3 DEF ConnectionStates
  <2>5. x \in SendStates /\ x.pc = "dispatching" /\ x.dispatched /\ x.conn = w
    BY <1>2, <1>3 DEF SendStates
  <2> HIDE DEF new, x
  <2>6. /\ conn' \in [Connections -> ConnectionStates] /\ conn'[w] = new
        /\ \A v \in Connections : v # w => conn'[v] = conn[v]
    BY <2>2, <2>4, P2pTyped
  <2>7. Fit(conn', pool', connecting')
    <3>1. w # None /\ Fit(conn, pool, connecting)
      BY P2pTyped DEF P2pAssumption
    <3> QED
      BY <1>5, <2>1, <2>4, <2>6, <3>1 DEF Fit
  <2>8. /\ send' \in [Sends -> SendStates] /\ send'[s] = x /\ \A t \in Sends : t # s => send'[t] = send[t]
    BY <2>2, <2>5, P2pTyped
  <2>9. /\ entered' \in [Sends -> SUBSET {"direct", "relay", "direct-again"}] /\ entered'[s] = {"direct"}
        /\ \A t \in Sends : t # s => entered'[t] = entered[t]
    BY <2>2, P2pTyped
  <2>10. Progress(x, {"direct"})
    BY <2>5, P2pTyped DEF Progress, P2pAssumption
  <2>11. \A t \in Sends : Progress(send'[t], entered'[t])
    BY <2>8, <2>9, <2>10, P2pTyped
  <2>12. P2pTypeOK'
    BY <2>1, <2>6, <2>8, <2>9, P2pTyped DEF P2pTypeOK
  <2>13. Dispatches(w)' = Dispatches(w) \cup {s} /\ s \notin Dispatches(w)
    BY <1>1, <2>5, <2>8 DEF Dispatches
  <2>14. \A v \in Connections : v # w => Dispatches(v)' = Dispatches(v)
    BY <1>1, <2>5, <2>8 DEF Dispatches
  <2>15. Cardinality(Dispatches(w)') = Cardinality(Dispatches(w)) + 1
    BY <2>13, DispatchesFinite, FS_AddElement
  <2>16. \A v \in Connections : conn'[v].leases = Cardinality(Dispatches(v)')
    BY <2>4, <2>6, <2>14, <2>15 DEF P2pInv
  <2> QED
    BY <2>7, <2>11, <2>12, <2>16 DEF P2pInv, Fit, Progress, Dispatches
<1> QED
  BY <1>4, <1>5

LEMMA SettlesKeeps ==
    ASSUME P2pAssumption, P2pInv, NEW s \in Sends, DispatchSettles(s)
    PROVE  P2pInv'
<1>1. send[s].pc = "dispatching" /\ entered' = entered
  BY DEF DispatchSettles
<1>2. send[s].dispatched /\ send[s] \in SendStates /\ send[s].conn \in Connections
  BY <1>1, P2pTyped DEF Progress, SendStates
<1>3. PICK w \in Connections : w = send[s].conn
  BY <1>2
<1> DEFINE cs == Release(conn, w)
           at == [send[s] EXCEPT !.conn = None]
<1>4. s \in Dispatches(w) /\ conn[w].leases = Cardinality(Dispatches(w)) /\ conn[w].leases \in Nat
  BY <1>1, <1>3, DispatchesFinite DEF Dispatches, P2pInv
<1>5. IsFiniteSet(Dispatches(w)) /\ Cardinality(Dispatches(w) \ {s}) = conn[w].leases - 1
  <2>1. IsFiniteSet(Dispatches(w))
    BY DispatchesFinite
  <2>2. Cardinality(Dispatches(w) \ {s}) = Cardinality(Dispatches(w)) - 1
    BY <1>4, <2>1, FS_RemoveElement
  <2> QED
    BY <1>4, <2>1, <2>2
<1>6. conn[w].leases > 0
  <2>1. IsFiniteSet(Dispatches(w) \ {s})
    BY <1>5, FS_RemoveElement
  <2>2. Cardinality(Dispatches(w) \ {s}) \in Nat
    BY <2>1, FS_CardinalityType
  <2> QED
    BY <1>4, <1>5, <2>2
<1>7. /\ Fit(cs, pool, connecting) /\ cs[w].leases = conn[w].leases - 1
      /\ \A v \in Connections : v # w => cs[v] = conn[v]
  BY <1>6, ReleaseFits, P2pTyped
<1> HIDE DEF cs
<1>8. at \in SendStates /\ at.dispatched
  BY <1>2 DEF SendStates
<1>9. PICK end \in {"sent", "fallback"} :
         /\ send' = [send EXCEPT ![s] = [at EXCEPT !.pc = end]]
         /\ Fit(conn', pool', connecting') /\ \A v \in Connections : conn'[v].leases = cs[v].leases
         /\ UNCHANGED <<record, recovery, faults>>
  <2>1. CASE /\ conn' = Release(conn, send[s].conn)
             /\ send' = [send EXCEPT ![s].pc = "sent", ![s].conn = None]
             /\ UNCHANGED <<record, recovery, pool, connecting, faults>>
    <3>1. send' = [send EXCEPT ![s] = [at EXCEPT !.pc = "sent"]]
      BY <1>2, <2>1, P2pTyped DEF SendStates
    <3>2. conn' = cs
      BY <1>3, <2>1 DEF cs
    <3> QED
      BY <1>7, <2>1, <3>1, <3>2
  <2>2. CASE Fail(s, "dispatch", Release(conn, send[s].conn))
    <3>1. Fail(s, "dispatch", cs)
      BY <1>3, <2>2 DEF cs
    <3>2. /\ DiscardBinding(cs, send[s].gen) /\ UNCHANGED <<record, recovery, faults>>
          /\ send' = [send EXCEPT ![s] = [at EXCEPT !.pc = "fallback"]]
      BY <1>2, <3>1 DEF Fail, Retry
    <3>3. Fit(conn', pool', connecting') /\ \A v \in Connections : conn'[v].leases = cs[v].leases
      BY <1>7, <3>2, DiscardsBinding
    <3> QED
      BY <3>2, <3>3
  <2> QED
    BY <2>1, <2>2 DEF DispatchSettles
<1> DEFINE x == [at EXCEPT !.pc = end]
<1>10. x \in SendStates /\ x.dispatched /\ x.pc = end
  BY <1>8 DEF SendStates
<1> HIDE DEF x, at
<1>11. /\ send' \in [Sends -> SendStates] /\ send'[s] = x /\ \A t \in Sends : t # s => send'[t] = send[t]
  BY <1>9, <1>10, P2pTyped DEF x
<1>12. Progress(x, entered[s])
  BY <1>2, <1>10, P2pTyped DEF Progress
<1>13. \A t \in Sends : Progress(send'[t], entered'[t])
  BY <1>1, <1>11, <1>12, P2pTyped
<1>14. P2pTypeOK'
  BY <1>1, <1>9, <1>11, P2pTyped DEF P2pTypeOK, Fit
<1>15. Dispatches(w)' = Dispatches(w) \ {s} /\ \A v \in Connections : v # w => Dispatches(v)' = Dispatches(v)
  BY <1>3, <1>10, <1>11 DEF Dispatches
<1>16. \A v \in Connections : conn'[v].leases = Cardinality(Dispatches(v)')
  BY <1>5, <1>7, <1>9, <1>15 DEF P2pInv
<1> QED
  BY <1>9, <1>13, <1>14, <1>16 DEF P2pInv, Fit, Progress, Dispatches

LEMMA RelayKeeps ==
    ASSUME P2pAssumption, P2pInv, NEW s \in Sends, Fallback(s) \/ Relayed(s)
    PROVE  P2pInv'
<1>0. send[s] \in SendStates /\ UNCHANGED <<record, recovery, pool, connecting, conn, faults>>
  BY P2pTyped DEF Fallback, Relayed
<1>1. ASSUME NEW end \in {"sent", "failed"}, send[s].pc \in {"fallback", "relaying"}, UNCHANGED entered,
             send' = [send EXCEPT ![s].pc = end]
      PROVE  P2pInv'
  <2> DEFINE x == [send[s] EXCEPT !.pc = end]
  <2>1. x \in SendStates /\ x.dispatched = send[s].dispatched /\ x.pc = end
    BY <1>0 DEF SendStates
  <2>2. send' = [send EXCEPT ![s] = x]
    BY <1>0, <1>1, P2pTyped
  <2> HIDE DEF x
  <2>3. Progress(x, entered[s])
    BY <1>0, <2>1, P2pTyped DEF Progress
  <2> QED
    BY <1>0, <1>1, <2>1, <2>2, <2>3, SendMoves, P2pTyped
<1>2. CASE /\ send[s].pc = "fallback" /\ ~send[s].dispatched
           /\ send' = [send EXCEPT ![s].pc = "relaying", ![s].dispatched = TRUE]
           /\ entered' = [entered EXCEPT ![s] = @ \cup {"relay"}]
  <2> DEFINE x == [send[s] EXCEPT !.pc = "relaying", !.dispatched = TRUE]
  <2>1. x \in SendStates /\ x.dispatched /\ x.pc = "relaying"
    BY <1>0 DEF SendStates
  <2>2. send' = [send EXCEPT ![s] = x] /\ entered' = [entered EXCEPT ![s] = {"relay"}]
    <3>1. entered[s] = {}
      BY <1>2, P2pTyped DEF Progress
    <3> QED
      BY <1>0, <1>2, <3>1, P2pTyped
  <2> HIDE DEF x
  <2>3. /\ send' \in [Sends -> SendStates] /\ send'[s] = x /\ \A t \in Sends : t # s => send'[t] = send[t]
    BY <2>1, <2>2, P2pTyped
  <2>4. /\ entered' \in [Sends -> SUBSET {"direct", "relay", "direct-again"}] /\ entered'[s] = {"relay"}
        /\ \A t \in Sends : t # s => entered'[t] = entered[t]
    BY <2>2, P2pTyped
  <2>5. \A t \in Sends : Progress(send'[t], entered'[t])
    <3>1. Progress(x, {"relay"})
      BY <2>1 DEF Progress
    <3> QED
      BY <2>3, <2>4, <3>1, P2pTyped
  <2>6. P2pTypeOK'
    BY <1>0, <2>3, <2>4, P2pTyped DEF P2pTypeOK
  <2>7. \A v \in Connections : Dispatches(v)' = Dispatches(v)
    BY <1>2, <2>1, <2>3 DEF Dispatches
  <2>8. \A v \in Connections : conn'[v].leases = Cardinality(Dispatches(v)')
    BY <1>0, <2>7 DEF P2pInv
  <2> QED
    BY <1>0, <2>5, <2>6, <2>8 DEF P2pInv, Fit, Progress, Dispatches
<1> QED
  BY <1>1, <1>2 DEF Fallback, Relayed

LEMMA FaultsKeep ==
    ASSUME P2pAssumption, P2pInv,
           SweepIdleConnections \/ RecordChanges \/ \E force \in BOOLEAN : Discard(force)
    PROVE  P2pInv'
<1>1. faults' \in 0..MaxFaults
  <2>1. faults < MaxFaults /\ faults' = faults + 1
    BY DEF SweepIdleConnections, RecordChanges, Discard
  <2> QED
    BY <2>1, P2pTyped DEF P2pAssumption
<1>2. Fit(conn, pool, connecting)
  BY P2pTyped
<1>3. CASE SweepIdleConnections
  <2>1. /\ conn' = RetireClient(conn, pool, FALSE) /\ pool' = None
        /\ UNCHANGED <<send, record, recovery, connecting, entered>>
    BY <1>3 DEF SweepIdleConnections
  <2>2. /\ Fit(RetireClient(conn, pool, FALSE), None, connecting)
        /\ \A w \in Connections : RetireClient(conn, pool, FALSE)[w].leases = conn[w].leases
    BY ZenonT(60), <1>2, RetireFits
  <2>3. Fit(conn', pool', connecting') /\ \A w \in Connections : conn'[w].leases = conn[w].leases
    BY <2>1, <2>2
  <2> QED
    BY <1>1, <2>1, <2>3, ConnMoves
<1>4. CASE RecordChanges
  <2>1. UNCHANGED <<send, recovery, pool, connecting, conn, entered>>
    BY <1>4 DEF RecordChanges
  <2>2. record' \in [gen : 0..MaxGeneration, live : BOOLEAN]
    <3>1. [record EXCEPT !.live = FALSE] \in [gen : 0..MaxGeneration, live : BOOLEAN]
      BY P2pTyped
    <3>2. {record.gen + 1} \cap (1..MaxGeneration) \subseteq 0..MaxGeneration
      BY DEF P2pAssumption
    <3> QED
      BY <1>4, <3>1, <3>2 DEF RecordChanges
  <2> QED
    BY <1>1, <2>1, <2>2, P2pMoves, P2pTyped
<1>5. ASSUME NEW force \in BOOLEAN, Discard(force)
      PROVE  P2pInv'
  <2>1. DiscardConnection(conn, force) /\ UNCHANGED <<send, record, recovery, entered>>
    BY <1>5 DEF Discard
  <2>2. Fit(conn', pool', connecting') /\ \A w \in Connections : conn'[w].leases = conn[w].leases
    BY <1>2, <2>1, DiscardsConnection
  <2> QED
    BY <1>1, <2>1, <2>2, ConnMoves
<1> QED
  BY <1>3, <1>4, <1>5

LEMMA P2pInvInit == P2pAssumption /\ P2pInit => P2pInv
<1> SUFFICES ASSUME P2pAssumption, P2pInit PROVE P2pInv
  OBVIOUS
<1> DEFINE x == [pc |-> "new", gen |-> 0, conn |-> None, leader |-> None,
                 dispatched |-> FALSE, tries |-> 0, timeouts |-> 0]
           w0 == [status |-> "unused", code |-> "none", next |-> None, gen |-> 0,
                  leases |-> 0, retired |-> FALSE]
<1>1. send = [s \in Sends |-> x] /\ conn = [w \in Connections |-> w0] /\ entered = [s \in Sends |-> {}]
      /\ recovery = None /\ pool = None /\ connecting = None /\ faults = 0
  BY DEF P2pInit
<1>2. x \in SendStates /\ w0 \in ConnectionStates
  BY DEF SendStates, ConnectionStates, P2pAssumption
<1>3. Progress(x, {}) /\ x.pc = "new" /\ w0.leases = 0 /\ w0.status = "unused" /\ ~w0.retired
  BY DEF Progress
<1>4. record \in [gen : 0..MaxGeneration, live : BOOLEAN]
  BY DEF P2pInit, P2pAssumption
<1> HIDE DEF x, w0
<1>5. P2pTypeOK
  BY <1>1, <1>2, <1>4 DEF P2pTypeOK, P2pAssumption
<1>6. Fit(conn, pool, connecting)
  BY <1>1, <1>2, <1>3 DEF Fit
<1>7. \A w \in Connections : Dispatches(w) = {}
  BY <1>1, <1>3 DEF Dispatches
<1>8. \A w \in Connections : conn[w].leases = Cardinality(Dispatches(w))
  BY <1>1, <1>3, <1>7, FS_EmptySet
<1> QED
  BY <1>1, <1>3, <1>5, <1>6, <1>8 DEF P2pInv

LEMMA P2pStutter == P2pInv /\ UNCHANGED p2pVars => P2pInv'
BY DEF p2pVars, P2pInv, P2pTypeOK, Fit, Progress, Dispatches

LEMMA P2pInvNext == ASSUME P2pAssumption, P2pInv, [P2pNext]_p2pVars PROVE P2pInv'
BY DiscoverySteps, DirectClientKeeps, FollowKeeps, RefusedKeeps, RejectedKeeps, DispatchKeeps,
   SettlesKeeps, RelayKeeps, ConnectionSteps, FaultsKeep, P2pStutter DEF P2pNext

LEMMA P2pInvMeans ==
    ASSUME P2pAssumption, P2pInv
    PROVE  P2pTypeOK /\ EnvelopeEntersOnce /\ NeverClosedUnderneath
<1>1. ASSUME NEW s \in Sends
      PROVE  Cardinality(entered[s]) <= 1
  <2>1. PICK t : entered[s] \subseteq {t}
    BY P2pTyped DEF Progress
  <2>2. IsFiniteSet({t}) /\ Cardinality({t}) = 1
    BY FS_Singleton
  <2>3. IsFiniteSet(entered[s]) /\ Cardinality(entered[s]) <= Cardinality({t})
    BY <2>1, <2>2, FS_Subset
  <2> QED
    BY <2>2, <2>3
<1> QED
  BY <1>1 DEF P2pInv, EnvelopeEntersOnce, NeverClosedUnderneath, Fit

-----------------------------------------------------------------------------
(* The transparency log: proofs, for any replicas, events and syncs.  An   *)
(* acknowledged sync is true only if what it read of the peer still is a   *)
(* prefix of what the peer holds (SyncsTrue), and an entry is served only  *)
(* if it is in the file or an ingest still has it to write (IngestsTrue).  *)

\* Prefixes of chains.

LEMMA Beginning ==
    ASSUME NEW t \in Chains, NEW n \in 0..Len(t)
    PROVE  /\ SubSeq(t, 1, n) \in Chains /\ Len(SubSeq(t, 1, n)) = n
           /\ \A i \in 1..n : SubSeq(t, 1, n)[i] = t[i]
<1>1. Len(t) \in Nat /\ \A i \in 1..n : t[i] \in Events
  BY LenProperties, ElementOfSeq DEF Chains
<1>2. /\ SubSeq(t, 1, n) \in Seq(Events)
      /\ Len(SubSeq(t, 1, n)) = IF 1 <= n THEN n - 1 + 1 ELSE 0
      /\ \A i \in 1..(n - 1 + 1) : SubSeq(t, 1, n)[i] = t[1 + i - 1]
  BY <1>1, SubSeqProperties
<1> QED
  BY <1>1, <1>2 DEF Chains

LEMMA PrefixForm ==
    ASSUME NEW s \in Chains, NEW t \in Chains
    PROVE  IsPrefix(s, t) <=> Len(s) <= Len(t) /\ \A i \in 1..Len(s) : s[i] = t[i]
<1>1. Len(s) \in Nat /\ Len(t) \in Nat /\ SubSeq(s, 1, Len(s)) = s
  BY LenProperties, SubSeqFull DEF Chains
<1>2. ASSUME Len(s) <= Len(t)
      PROVE  s = SubSeq(t, 1, Len(s)) <=> \A i \in 1..Len(s) : s[i] = t[i]
  <2>1. Len(s) \in 0..Len(t)
    BY <1>1, <1>2
  <2>2. /\ SubSeq(t, 1, Len(s)) \in Seq(Events) /\ Len(SubSeq(t, 1, Len(s))) = Len(s)
        /\ \A i \in 1..Len(s) : SubSeq(t, 1, Len(s))[i] = t[i]
    BY <2>1, Beginning DEF Chains
  <2>3. ASSUME \A i \in 1..Len(s) : s[i] = t[i]
        PROVE  s = SubSeq(t, 1, Len(s))
    BY <2>2, <2>3, SeqEqual DEF Chains
  <2> QED
    BY <2>2, <2>3
<1> QED
  BY <1>1, <1>2 DEF IsPrefix

LEMMA PrefixItself == ASSUME NEW s \in Chains PROVE IsPrefix(s, s)
<1>1. Len(s) \in Nat
  BY LenProperties DEF Chains
<1> QED
  BY <1>1, PrefixForm

LEMMA PrefixThrough ==
    ASSUME NEW s \in Chains, NEW t \in Chains, NEW u \in Chains, IsPrefix(s, t), IsPrefix(t, u)
    PROVE  IsPrefix(s, u)
<1>1. Len(s) \in Nat /\ Len(t) \in Nat /\ Len(u) \in Nat
  BY LenProperties DEF Chains
<1>2. Len(s) <= Len(t) /\ \A i \in 1..Len(s) : s[i] = t[i]
  BY PrefixForm
<1>3. Len(t) <= Len(u) /\ \A i \in 1..Len(t) : t[i] = u[i]
  BY PrefixForm
<1>4. \A i \in 1..Len(s) : s[i] = u[i]
  BY <1>1, <1>2, <1>3
<1> QED
  BY <1>1, <1>2, <1>3, <1>4, PrefixForm

\* A prefix that is no shorter is the chain.
LEMMA WholePrefix ==
    ASSUME NEW s \in Chains, NEW t \in Chains, IsPrefix(s, t), Len(t) <= Len(s)
    PROVE  s = t
<1>1. Len(s) \in Nat /\ Len(t) \in Nat /\ Len(s) <= Len(t) /\ \A i \in 1..Len(s) : s[i] = t[i]
  BY PrefixForm, LenProperties DEF Chains
<1>2. Len(s) = Len(t)
  BY <1>1
<1> QED
  BY <1>1, <1>2, SeqEqual DEF Chains

\* What starts a prefix starts the chain.
LEMMA PrefixStarts ==
    ASSUME NEW s \in Chains, NEW t \in Chains, IsPrefix(s, t), NEW i \in 1..Len(s)
    PROVE  SubSeq(s, 1, i) = SubSeq(t, 1, i) /\ i \in 1..Len(t)
<1>1. Len(s) \in Nat /\ Len(t) \in Nat /\ Len(s) <= Len(t) /\ \A j \in 1..Len(s) : s[j] = t[j]
  BY PrefixForm, LenProperties DEF Chains
<1>2. i \in 0..Len(s) /\ i \in 0..Len(t) /\ i \in 1..Len(t)
  BY <1>1
<1>3. /\ SubSeq(s, 1, i) \in Chains /\ Len(SubSeq(s, 1, i)) = i
      /\ \A j \in 1..i : SubSeq(s, 1, i)[j] = s[j]
  BY <1>2, Beginning
<1>4. /\ SubSeq(t, 1, i) \in Chains /\ Len(SubSeq(t, 1, i)) = i
      /\ \A j \in 1..i : SubSeq(t, 1, i)[j] = t[j]
  BY <1>2, Beginning
<1>5. \A j \in 1..i : SubSeq(s, 1, i)[j] = SubSeq(t, 1, i)[j]
  BY <1>1, <1>2, <1>3, <1>4
<1>6. SubSeq(s, 1, i) = SubSeq(t, 1, i)
  BY <1>3, <1>4, <1>5, SeqEqual DEF Chains
<1> QED
  BY <1>2, <1>6

\* An entry that follows a chain.
LEMMA EntryFollows ==
    ASSUME NEW e \in Chains, NEW chain \in Chains, Front(e) = chain, Len(e) > Len(chain)
    PROVE  /\ IsPrefix(chain, e) /\ Len(e) = Len(chain) + 1
           /\ \A i \in 1..Len(e) : \/ SubSeq(e, 1, i) = e
                                   \/ i \in 1..Len(chain) /\ SubSeq(e, 1, i) = SubSeq(chain, 1, i)
<1>1. Len(e) \in Nat /\ Len(chain) \in Nat /\ Len(e) - 1 \in 0..Len(e)
  BY LenProperties DEF Chains
<1>2. Len(chain) = Len(e) - 1 /\ \A j \in 1..(Len(e) - 1) : chain[j] = e[j]
  BY <1>1, Beginning DEF Front
<1>3. IsPrefix(chain, e)
  BY <1>1, <1>2, PrefixForm
<1>4. ASSUME NEW i \in 1..Len(e)
      PROVE  \/ SubSeq(e, 1, i) = e
             \/ i \in 1..Len(chain) /\ SubSeq(e, 1, i) = SubSeq(chain, 1, i)
  <2>1. CASE i = Len(e)
    BY <2>1, SubSeqFull DEF Chains
  <2>2. CASE i # Len(e)
    <3>1. i \in 1..Len(chain)
      BY <1>1, <1>2, <2>2
    <3> QED
      BY <1>3, <3>1, PrefixStarts
  <2> QED
    BY <2>1, <2>2
<1> QED
  BY <1>1, <1>2, <1>3, <1>4

LEMMA EmptyPrefix == ASSUME NEW t \in Chains PROVE <<>> \in Chains /\ IsPrefix(<<>>, t) /\ Len(<<>>) = 0
<1>1. <<>> \in Chains /\ Len(<<>>) = 0 /\ Len(t) \in Nat
  BY EmptySeq, LenProperties DEF Chains
<1> QED
  BY <1>1, PrefixForm

-----------------------------------------------------------------------------
\* open() reads a chain of which every entry is a line of the file.

ReadSoFar(lines, i) ==
    LET chain == ReadUpTo(lines, i)
    IN /\ chain \in {<<>>} \cup {lines[j] : j \in 1..i}
       /\ \A j \in 1..i : IsPrefix(lines[j], chain)
       /\ \A k \in 1..Len(chain) : SubSeq(chain, 1, k) \in Range(lines)

\* The chain that is read is the one that starts with every line.
LEMMA ReadIs ==
    ASSUME NEW lines \in Seq(Chains), NEW i \in 0..Len(lines), NEW c \in Chains,
           c \in {<<>>} \cup {lines[j] : j \in 1..i}, \A j \in 1..i : IsPrefix(lines[j], c)
    PROVE  ReadUpTo(lines, i) = c
<1> DEFINE S == {<<>>} \cup {lines[j] : j \in 1..i}
           longest(x) == \A j \in 1..i : Len(lines[j]) <= Len(x)
<1>1. Len(lines) \in Nat /\ \A j \in 1..i : lines[j] \in Chains /\ Len(lines[j]) \in Nat
  BY LenProperties, ElementOfSeq DEF Chains
<1>2. longest(c)
  <2> SUFFICES ASSUME NEW j \in 1..i PROVE Len(lines[j]) <= Len(c)
    OBVIOUS
  <2>1. lines[j] \in Chains /\ IsPrefix(lines[j], c)
    BY <1>1
  <2> QED
    BY <2>1, PrefixForm
<1>3. ASSUME NEW x \in S, longest(x)
      PROVE  x = c
  <2>1. x \in Chains /\ IsPrefix(x, c)
    BY <1>1, EmptyPrefix
  <2>2. Len(c) <= Len(x)
    <3>1. CASE c = <<>>
      BY <2>1, <3>1, EmptyPrefix, LenProperties DEF Chains
    <3>2. CASE c # <<>>
      <4>1. PICK j \in 1..i : c = lines[j]
        BY <3>2
      <4> QED
        BY <1>3, <4>1
    <3> QED
      BY <3>1, <3>2
  <2> QED
    BY <2>1, <2>2, WholePrefix
<1>4. ReadUpTo(lines, i) = CHOOSE x \in S : longest(x)
  BY DEF ReadUpTo
<1> HIDE DEF longest, S
<1>5. c \in S
  BY DEF S
<1> QED
  BY <1>2, <1>3, <1>4, <1>5

LEMMA ReadNext ==
    ASSUME NEW lines \in Seq(Chains), NEW i \in 1..Len(lines), ReadSoFar(lines, i - 1),
           Follows(lines[i], ReadUpTo(lines, i - 1))
    PROVE  ReadSoFar(lines, i)
<1>1. /\ Len(lines) \in Nat /\ i - 1 \in 0..Len(lines) /\ i \in 0..Len(lines)
      /\ 1..i = (1..(i - 1)) \cup {i} /\ DOMAIN lines = 1..Len(lines)
      /\ \A j \in 1..i : lines[j] \in Chains
  <2>1. Len(lines) \in Nat /\ DOMAIN lines = 1..Len(lines)
    BY LenProperties
  <2>2. i - 1 \in 0..Len(lines) /\ i \in 0..Len(lines) /\ 1..i = (1..(i - 1)) \cup {i}
        /\ \A j \in 1..i : j \in 1..Len(lines)
    BY <2>1
  <2> QED
    BY <2>1, <2>2, ElementOfSeq
<1> DEFINE old == ReadUpTo(lines, i - 1)
<1>2. /\ old \in {<<>>} \cup {lines[j] : j \in 1..(i - 1)}
      /\ \A j \in 1..(i - 1) : IsPrefix(lines[j], old)
      /\ \A k \in 1..Len(old) : SubSeq(old, 1, k) \in Range(lines)
      /\ Follows(lines[i], old)
  BY DEF ReadSoFar
<1> HIDE DEF old
<1>3. old \in Chains /\ lines[i] \in Chains
  BY <1>1, <1>2, EmptyPrefix
<1>4. CASE IsPrefix(lines[i], old)
  <2>1. \A j \in 1..i : IsPrefix(lines[j], old)
    BY <1>1, <1>2, <1>4
  <2>2. old \in {<<>>} \cup {lines[j] : j \in 1..i}
    BY <1>1, <1>2
  <2>3. ReadUpTo(lines, i) = old
    BY <1>1, <1>3, <2>1, <2>2, ReadIs
  <2> QED
    BY <1>2, <2>1, <2>2, <2>3 DEF ReadSoFar
<1>5. CASE ~IsPrefix(lines[i], old)
  <2> DEFINE e == lines[i]
  <2>1. Front(e) = old /\ e \in Chains
    BY <1>2, <1>3, <1>5 DEF Follows
  <2>2. Len(e) > Len(old)
    <3>1. Len(e) \in Nat /\ Len(old) \in Nat
      BY <1>3, LenProperties DEF Chains
    <3>2. e # <<>>
      BY <1>3, <1>5, EmptyPrefix
    <3>3. Len(e) # 0 /\ Len(e) - 1 \in 0..Len(e)
      BY <3>1, <3>2, <1>3, EmptySeq DEF Chains
    <3>4. Len(old) = Len(e) - 1
      BY <2>1, <3>3, Beginning DEF Front
    <3> QED
      BY <3>1, <3>4
  <2> HIDE DEF e
  <2>3. /\ IsPrefix(old, e)
        /\ \A k \in 1..Len(e) : \/ SubSeq(e, 1, k) = e
                                \/ k \in 1..Len(old) /\ SubSeq(e, 1, k) = SubSeq(old, 1, k)
    BY <1>3, <2>1, <2>2, EntryFollows
  <2>4. \A j \in 1..i : IsPrefix(lines[j], e)
    <3> SUFFICES ASSUME NEW j \in 1..i PROVE IsPrefix(lines[j], e)
      OBVIOUS
    <3>1. CASE j = i
      BY <2>1, <3>1, PrefixItself DEF e
    <3>2. CASE j # i
      <4>1. lines[j] \in Chains /\ IsPrefix(lines[j], old)
        BY <1>1, <1>2, <3>2
      <4> QED
        BY <1>3, <2>1, <2>3, <4>1, PrefixThrough
    <3> QED
      BY <3>1, <3>2
  <2>5. e \in {lines[j] : j \in 1..i} /\ e \in Range(lines)
    BY <1>1 DEF e, Range
  <2>6. ReadUpTo(lines, i) = e
    BY <1>1, <2>1, <2>4, <2>5, ReadIs
  <2>7. \A k \in 1..Len(e) : SubSeq(e, 1, k) \in Range(lines)
    BY <1>2, <2>3, <2>5
  <2> QED
    BY <2>4, <2>5, <2>6, <2>7 DEF ReadSoFar
<1> QED
  BY <1>4, <1>5

LEMMA ReloadReads ==
    ASSUME NEW lines \in Seq(Chains), Reload(lines).ok
    PROVE  /\ Reload(lines).chain \in Chains
           /\ \A k \in 1..Len(Reload(lines).chain) : SubSeq(Reload(lines).chain, 1, k) \in Range(lines)
<1>1. Len(lines) \in Nat /\ \A i \in 1..Len(lines) : Follows(lines[i], ReadUpTo(lines, i - 1))
  BY LenProperties DEF Reload
<1>2. ReadSoFar(lines, 0)
  <2>1. <<>> \in Chains /\ Len(<<>>) = 0 /\ 0 \in 0..Len(lines) /\ 1..0 = {}
    BY <1>1, EmptySeq DEF Chains
  <2>2. ReadUpTo(lines, 0) = <<>>
    BY <2>1, ReadIs
  <2> QED
    BY <2>1, <2>2 DEF ReadSoFar
<1> DEFINE T == {i \in 0..Len(lines) : ~ReadSoFar(lines, i)}
<1>3. T = {}
  <2> SUFFICES ASSUME T # {} PROVE FALSE
    OBVIOUS
  <2>0. T \subseteq Nat
    BY <1>1
  <2>1. PICK i \in T : \A y \in T : i <= y
    <3> HIDE DEF T
    <3> QED
      BY <2>0, Least
  <2>2. i \in 1..Len(lines) /\ i - 1 \in 0..Len(lines) /\ i - 1 \notin T
    BY <1>1, <1>2, <2>1
  <2>3. ReadSoFar(lines, i - 1)
    BY <2>2
  <2> QED
    BY <1>1, <2>1, <2>2, <2>3, ReadNext
<1>4. ReadSoFar(lines, Len(lines))
  BY <1>1, <1>3
<1> DEFINE c == ReadUpTo(lines, Len(lines))
<1>5. c \in {<<>>} \cup {lines[j] : j \in 1..Len(lines)} /\ \A k \in 1..Len(c) : SubSeq(c, 1, k) \in Range(lines)
  BY <1>4 DEF ReadSoFar
<1>6. c \in Chains
  <2>1. \A j \in 1..Len(lines) : lines[j] \in Chains
    BY ElementOfSeq
  <2>2. <<>> \in Chains
    BY EmptySeq DEF Chains
  <2> HIDE DEF c
  <2> QED
    BY <1>5, <2>1, <2>2
<1> QED
  BY <1>5, <1>6 DEF Reload

-----------------------------------------------------------------------------
\* ingest().

LEMMA IngestGrows ==
    ASSUME NEW chain \in Chains, NEW rest \in Seq(Chains)
    PROVE  /\ IngestFrom(chain, rest).result \in {"ok", "fork", "gap", "push"}
           /\ IngestFrom(chain, rest).rest \in Seq(Chains)
           /\ IngestFrom(chain, rest).entry \in Chains
           /\ IngestFrom(chain, rest).result = "push" =>
                /\ Front(IngestFrom(chain, rest).entry) = chain
                /\ Len(IngestFrom(chain, rest).entry) > Len(chain)
<1> DEFINE new == {i \in DOMAIN rest : ~IsPrefix(rest[i], chain)}
           i == CHOOSE j \in new : \A k \in new : j <= k
<1>0. <<>> \in Chains /\ <<>> \in Seq(Chains)
  BY EmptySeq DEF Chains
<1>1. CASE new = {}
  BY <1>0, <1>1 DEF IngestFrom
<1>2. CASE new # {}
  <2>1. Len(rest) \in Nat /\ DOMAIN rest = 1..Len(rest)
    BY LenProperties
  <2>2. new \subseteq Nat
    BY <2>1
  <2>3. \E j \in new : \A k \in new : j <= k
    BY <1>2, <2>2, Least
  <2>4. i \in 1..Len(rest)
    BY <2>1, <2>3
  <2>5. IngestFrom(chain, rest) =
          IF Len(rest[i]) <= Len(chain) THEN [result |-> "fork", rest |-> <<>>, entry |-> <<>>]
          ELSE IF Front(rest[i]) # chain THEN [result |-> "gap", rest |-> <<>>, entry |-> <<>>]
          ELSE [result |-> "push", rest |-> SubSeq(rest, i + 1, Len(rest)), entry |-> rest[i]]
    BY <1>2 DEF IngestFrom
  <2> HIDE DEF i, new
  <2>6. rest[i] \in Chains
    BY <2>4, ElementOfSeq
  <2>7. SubSeq(rest, i + 1, Len(rest)) \in Seq(Chains)
    <3>1. i + 1 \in Int /\ Len(rest) \in Int /\ \A j \in (i + 1)..Len(rest) : rest[j] \in Chains
      BY <2>1, <2>4, ElementOfSeq
    <3> QED
      BY <3>1, SubSeqProperties
  <2>8. Len(rest[i]) \in Nat /\ Len(chain) \in Nat
    BY <2>6, LenProperties DEF Chains
  <2> QED
    BY <1>0, <2>5, <2>6, <2>7, <2>8
<1> QED
  BY <1>1, <1>2

LEMMA EntriesTyped ==
    ASSUME NEW chain \in Chains, NEW from \in Nat \ {0}
    PROVE  EntriesFrom(chain, from) \in Seq(Chains)
<1> DEFINE n == IF from > Len(chain) THEN 0 ELSE Len(chain) - from + 1
           f == [i \in 1..n |-> SubSeq(chain, 1, from + i - 1)]
<1>1. Len(chain) \in Nat /\ n \in Nat
  BY LenProperties DEF Chains
<1>2. ASSUME NEW i \in 1..n PROVE SubSeq(chain, 1, from + i - 1) \in Chains
  <2>1. from + i - 1 \in 0..Len(chain)
    BY <1>1
  <2> QED
    BY <2>1, Beginning
<1>3. EntriesFrom(chain, from) = f
  BY DEF EntriesFrom
<1>4. f \in [1..n -> Chains]
  BY <1>2
<1> HIDE DEF n, f
<1>5. f \in Seq(Chains)
  BY <1>1, <1>4, SeqDef
<1> QED
  BY <1>3, <1>5

-----------------------------------------------------------------------------
\* The steps of the log.

LEMMA LogTyped ==
    ASSUME LogInv
    PROVE  /\ up \in [Nodes -> {"up", "down", "broken"}] /\ log \in [Nodes -> Chains]
           /\ file \in [Nodes -> Seq(Chains)] /\ unsaved \in [Nodes -> SUBSET Chains]
           /\ ingest \in [Calls -> IngestStates] /\ sync \in [Syncs -> SyncStates]
           /\ advertised \subseteq Nodes
           /\ logFaults \in 0..MaxLogFaults
           /\ Syncs \subseteq Calls /\ Events \subseteq Calls
BY DEF LogInv, LogTypeOK, Calls

\* What a sync counts on holds of longer logs too.
LEMMA FitsGrown ==
    ASSUME NEW x \in SyncStates, NEW b, NEW old \in [Nodes -> Chains], NEW new \in [Nodes -> Chains],
           NEW u, SyncFits(x, b, old, u), \A n \in Nodes : IsPrefix(old[n], new[n])
    PROVE  SyncFits(x, b, new, u)
<1>1. x.head \in Chains /\ x.local \in Chains
  BY DEF SyncStates
<1>2. ASSUME NEW c \in Chains, x.to \in Nodes, IsPrefix(c, old[x.to])
      PROVE  IsPrefix(c, new[x.to])
  BY <1>2, PrefixThrough
<1> QED
  BY <1>1, <1>2 DEF SyncFits

LEMMA IngestSteps ==
    ASSUME LogInv, NEW c \in Calls, NEW n \in Nodes, NEW rest \in Seq(Chains), Ingest(c, n, rest)
    PROVE  /\ log' \in [Nodes -> Chains] /\ ingest' \in [Calls -> IngestStates]
           /\ \A m \in Nodes : IsPrefix(log[m], log'[m])
           /\ \A d \in Calls : d # c => ingest'[d] = ingest[d]
           /\ ingest'[c].at = n /\ ingest'[c].pc # "none"
           /\ \A m \in Nodes : \A i \in 1..Len(log'[m]) :
                \/ i \in 1..Len(log[m]) /\ SubSeq(log'[m], 1, i) = SubSeq(log[m], 1, i)
                \/ m = n /\ ingest'[c].pc = "persisting" /\ ingest'[c].entry = SubSeq(log'[m], 1, i)
<1> DEFINE step == IngestFrom(log[n], rest)
           pc == CASE step.result = "push" -> "persisting" [] step.result = "ok" -> "ok" [] OTHER -> "error"
           x == [pc |-> pc, at |-> n, rest |-> step.rest, entry |-> step.entry]
<1>1. /\ log' = IF step.result = "push" THEN [log EXCEPT ![n] = step.entry] ELSE log
      /\ ingest' = [ingest EXCEPT ![c] = x]
  BY DEF Ingest
<1>2. log[n] \in Chains
  BY LogTyped
<1>3. /\ step.result \in {"ok", "fork", "gap", "push"} /\ step.rest \in Seq(Chains) /\ step.entry \in Chains
      /\ step.result = "push" => Front(step.entry) = log[n] /\ Len(step.entry) > Len(log[n])
  BY <1>2, IngestGrows
<1> HIDE DEF step
<1>4. pc \in {"persisting", "ok", "error"} /\ (step.result = "push" => pc = "persisting")
  BY <1>3
<1> HIDE DEF pc
<1>5. x \in IngestStates /\ x.at = n /\ x.pc = pc /\ x.entry = step.entry
  BY <1>3, <1>4 DEF IngestStates
<1> HIDE DEF x
<1>6. /\ ingest' \in [Calls -> IngestStates] /\ ingest'[c] = x
      /\ \A d \in Calls : d # c => ingest'[d] = ingest[d]
  BY <1>1, <1>5, LogTyped
<1>7. \A m \in Nodes : log[m] \in Chains /\ IsPrefix(log[m], log[m])
  BY LogTyped, PrefixItself
<1>8. CASE step.result # "push"
  <2>1. log' = log
    BY <1>1, <1>8
  <2> QED
    BY <1>4, <1>5, <1>6, <1>7, <2>1, LogTyped
<1>9. CASE step.result = "push"
  <2>1. /\ log' \in [Nodes -> Chains] /\ log'[n] = step.entry
        /\ \A m \in Nodes : m # n => log'[m] = log[m]
    BY <1>1, <1>3, <1>9, LogTyped
  <2>2. /\ IsPrefix(log[n], step.entry)
        /\ \A i \in 1..Len(step.entry) :
             \/ SubSeq(step.entry, 1, i) = step.entry
             \/ i \in 1..Len(log[n]) /\ SubSeq(step.entry, 1, i) = SubSeq(log[n], 1, i)
    BY <1>2, <1>3, <1>9, EntryFollows
  <2>3. \A m \in Nodes : IsPrefix(log[m], log'[m])
    BY <1>7, <2>1, <2>2
  <2>4. ASSUME NEW m \in Nodes, NEW i \in 1..Len(log'[m])
        PROVE  \/ i \in 1..Len(log[m]) /\ SubSeq(log'[m], 1, i) = SubSeq(log[m], 1, i)
               \/ m = n /\ ingest'[c].pc = "persisting" /\ ingest'[c].entry = SubSeq(log'[m], 1, i)
    BY <1>4, <1>5, <1>6, <1>9, <2>1, <2>2
  <2> QED
    BY <1>4, <1>5, <1>6, <2>1, <2>3, <2>4
<1> QED
  BY <1>8, <1>9

\* Backed after the step.
BackedNext(n, chain) ==
    \/ chain \in Range(file'[n]) \cup unsaved'[n]
    \/ \E c \in Calls : ingest'[c].pc = "persisting" /\ ingest'[c].at = n /\ ingest'[c].entry = chain

LEMMA StillBacked ==
    ASSUME \A n \in Nodes : \A i \in 1..Len(log'[n]) : BackedNext(n, SubSeq(log'[n], 1, i))
    PROVE  EntriesBacked'
BY DEF EntriesBacked, Backed, BackedNext

\* A step of an ingest of the call c at the node n: what was backed still is.
LEMMA IngestKeeps ==
    ASSUME LogInv, NEW c \in Calls, NEW n \in Nodes, NEW rest \in Seq(Chains), Ingest(c, n, rest),
           up' = up, logFaults' = logFaults, advertised' = advertised, unsaved' = unsaved,
           file' \in [Nodes -> Seq(Chains)], \A m \in Nodes : Range(file[m]) \subseteq Range(file'[m]),
           ingest[c].pc = "persisting" => ingest[c].entry \in Range(file'[ingest[c].at]),
           sync' \in [Syncs -> SyncStates],
           \A s \in Syncs : \/ sync'[s] = sync[s] /\ s # c
                            \/ sync'[s] = sync[s] /\ ingest[s].pc # "none"
                            \/ SyncFits(sync'[s], TRUE, log, up)
    PROVE  LogInv'
<1>1. /\ log' \in [Nodes -> Chains] /\ ingest' \in [Calls -> IngestStates]
      /\ \A m \in Nodes : IsPrefix(log[m], log'[m])
      /\ \A d \in Calls : d # c => ingest'[d] = ingest[d]
      /\ ingest'[c].at = n /\ ingest'[c].pc # "none"
      /\ \A m \in Nodes : \A i \in 1..Len(log'[m]) :
           \/ i \in 1..Len(log[m]) /\ SubSeq(log'[m], 1, i) = SubSeq(log[m], 1, i)
           \/ m = n /\ ingest'[c].pc = "persisting" /\ ingest'[c].entry = SubSeq(log'[m], 1, i)
  BY IngestSteps
<1>2. LogTypeOK'
  BY <1>1, LogTyped DEF LogTypeOK
<1>3. \A s \in Syncs : SyncFits(sync'[s], ingest'[s].pc # "none", log', up')
  <2> SUFFICES ASSUME NEW s \in Syncs
               PROVE  SyncFits(sync'[s], ingest'[s].pc # "none", log', up)
    OBVIOUS
  <2>1. s \in Calls /\ SyncFits(sync[s], ingest[s].pc # "none", log, up) /\ sync'[s] \in SyncStates
    BY LogTyped DEF LogInv, SyncsTrue
  <2>2. SyncFits(sync'[s], ingest'[s].pc # "none", log, up)
    BY <1>1, <2>1 DEF SyncFits
  <2> QED
    BY <1>1, <2>1, <2>2, FitsGrown, LogTyped
<1>4. IngestsTrue'
  BY <1>1 DEF LogInv, IngestsTrue
<1>5. ASSUME NEW m \in Nodes, NEW chain, Backed(m, chain)
      PROVE  BackedNext(m, chain)
  BY <1>1, <1>5 DEF Backed, BackedNext
<1>6. ASSUME NEW m \in Nodes, NEW i \in 1..Len(log'[m])
      PROVE  BackedNext(m, SubSeq(log'[m], 1, i))
  <2>1. CASE i \in 1..Len(log[m]) /\ SubSeq(log'[m], 1, i) = SubSeq(log[m], 1, i)
    <3>1. Backed(m, SubSeq(log[m], 1, i))
      BY <2>1 DEF LogInv, EntriesBacked
    <3>2. BackedNext(m, SubSeq(log[m], 1, i))
      BY <1>5, <3>1
    <3> QED
      BY <2>1, <3>2
  <2>2. CASE m = n /\ ingest'[c].pc = "persisting" /\ ingest'[c].entry = SubSeq(log'[m], 1, i)
    BY <1>1, <2>2 DEF BackedNext
  <2> QED
    BY <1>1, <2>1, <2>2
<1>7. EntriesBacked'
  BY <1>6, StillBacked
<1> QED
  BY <1>2, <1>3, <1>4, <1>7 DEF LogInv, SyncsTrue, SyncFits

\* A step that writes no file and no log.
LEMMA SyncKeeps ==
    ASSUME LogInv, UNCHANGED <<up, log, file, unsaved, ingest, logFaults>>, advertised' \subseteq Nodes,
           NEW s \in Syncs, NEW x \in SyncStates, sync' = [sync EXCEPT ![s] = x],
           SyncFits(x, ingest[s].pc # "none", log, up)
    PROVE  LogInv'
<1>1. /\ sync' \in [Syncs -> SyncStates] /\ sync'[s] = x
      /\ \A t \in Syncs : t # s => sync'[t] = sync[t]
  BY LogTyped
<1>2. LogTypeOK'
  BY <1>1, LogTyped DEF LogTypeOK
<1>3. SyncsTrue'
  BY <1>1 DEF LogInv, SyncsTrue, SyncFits
<1>4. IngestsTrue' /\ EntriesBacked'
  BY DEF LogInv, IngestsTrue, EntriesBacked, Backed
<1> QED
  BY <1>2, <1>3, <1>4 DEF LogInv

\* A sync that failed or whose acknowledgement lapsed counts on nothing.
LEMMA Ended ==
    ASSUME NEW pc \in {"none", "error", "lapsed"}
    PROVE  SyncAt(pc) \in SyncStates /\ SyncAt(pc).pc = pc
<1>1. <<>> \in Chains /\ <<>> \in Seq(Chains)
  BY EmptySeq DEF Chains
<1> QED
  BY <1>1 DEF SyncAt, SyncStates

LEMMA SyncSteps ==
    ASSUME LogInv, NEW s \in Syncs,
           \/ Compare(s) \/ Pull(s) \/ Pulled(s) \/ Pushed(s) \/ SyncTimeout(s)
           \/ \E n, peer \in Nodes : HeadFor(s, n, peer)
    PROVE  LogInv'
<1>1. sync[s] \in SyncStates /\ SyncFits(sync[s], ingest[s].pc # "none", log, up)
  BY LogTyped DEF LogInv, SyncsTrue
<1>2. \A n \in Nodes : log[n] \in Chains /\ IsPrefix(log[n], log[n])
  BY LogTyped, PrefixItself
<1>3. ASSUME NEW n \in Nodes, NEW peer \in Nodes, HeadFor(s, n, peer)
      PROVE  LogInv'
  <2> DEFINE x == [pc |-> "heading", from |-> n, to |-> peer, head |-> log[peer], local |-> <<>>, entries |-> <<>>]
  <2>1. /\ sync[s].pc = "none" /\ up[peer] = "up"
        /\ UNCHANGED <<up, log, file, unsaved, ingest, advertised, logFaults>>
        /\ sync' = [sync EXCEPT ![s] = x]
    BY <1>3 DEF HeadFor
  <2>2. <<>> \in Chains /\ <<>> \in Seq(Chains)
    BY EmptySeq DEF Chains
  <2>3. x \in SyncStates /\ x.pc = "heading" /\ x.from = n /\ x.to = peer /\ x.head = log[peer]
    BY <1>2, <2>2 DEF SyncStates
  <2> HIDE DEF x
  <2>4. SyncFits(x, ingest[s].pc # "none", log, up)
    BY <1>1, <1>2, <2>1, <2>3 DEF SyncFits
  <2> QED
    BY <2>1, <2>3, <2>4, SyncKeeps, LogTyped
<1>4. CASE Compare(s)
  <2> DEFINE here == log[sync[s].from]
             pc == CASE sync[s].head = here -> "ok"
                     [] Len(sync[s].head) = Len(here) /\ sync[s].head # here -> "error"
                     [] Len(sync[s].head) > Len(here) -> "pulling"
                     [] OTHER -> "pushing"
             x == [sync[s] EXCEPT !.local = here, !.pc = pc]
  <2>1. /\ sync[s].pc = "heading" /\ UNCHANGED <<up, log, file, unsaved, ingest, advertised, logFaults>>
        /\ sync' = [sync EXCEPT ![s] = x]
    <3>1. sync[s].pc = "heading" /\ UNCHANGED <<up, log, file, unsaved, ingest, advertised, logFaults>>
          /\ sync' = [sync EXCEPT ![s].local = here, ![s].pc = pc]
      BY <1>4 DEF Compare
    <3> HIDE DEF here, pc
    <3> QED
      BY <3>1, LogTyped
  <2>2. here \in Chains /\ pc \in {"ok", "error", "pulling", "pushing"} /\ (pc = "ok" => sync[s].head = here)
    <3>1. here \in Chains
      BY <1>1, <1>2, <2>1 DEF SyncFits
    <3> QED
      BY <3>1
  <2> HIDE DEF here, pc
  <2>3. /\ x \in SyncStates /\ x.pc = pc /\ x.from = sync[s].from /\ x.to = sync[s].to
        /\ x.head = sync[s].head /\ x.local = here
    BY <1>1, <2>2 DEF SyncStates
  <2> HIDE DEF x
  <2>4. SyncFits(x, ingest[s].pc # "none", log, up)
    BY <1>1, <2>1, <2>2, <2>3 DEF SyncFits
  <2> QED
    BY <2>1, <2>3, <2>4, SyncKeeps, LogTyped
<1>5. CASE Pull(s)
  <2> DEFINE head == log[sync[s].to]
             es == EntriesFrom(head, Len(sync[s].local) + 1)
             x == [sync[s] EXCEPT !.pc = "pulled", !.head = head, !.entries = es]
  <2>1. /\ sync[s].pc = "pulling" /\ UNCHANGED <<up, log, file, unsaved, ingest, advertised, logFaults>>
        /\ sync' = [sync EXCEPT ![s] = x]
    BY <1>5, LogTyped DEF Pull
  <2>2. head \in Chains /\ es \in Seq(Chains) /\ IsPrefix(head, log[sync[s].to])
    <3>1. head \in Chains /\ IsPrefix(head, log[sync[s].to])
      BY <1>1, <1>2, <2>1 DEF SyncFits
    <3>2. Len(sync[s].local) \in Nat
      BY <1>1, LenProperties DEF SyncStates, Chains
    <3> QED
      BY <3>1, <3>2, EntriesTyped
  <2> HIDE DEF head, es
  <2>3. /\ x \in SyncStates /\ x.pc = "pulled" /\ x.from = sync[s].from /\ x.to = sync[s].to
        /\ x.head = head
    BY <1>1, <2>2 DEF SyncStates
  <2> HIDE DEF x
  <2>4. SyncFits(x, ingest[s].pc # "none", log, up)
    BY <1>1, <2>1, <2>2, <2>3 DEF SyncFits
  <2> QED
    BY <2>1, <2>3, <2>4, SyncKeeps, LogTyped
<1>6. CASE Pulled(s)
  <2> DEFINE n == sync[s].from
             same == ingest[s].pc = "ok" /\ log[n] = sync[s].head
  <2>1. /\ sync[s].pc = "ingesting" /\ ingest[s].pc \in {"ok", "error"}
        /\ UNCHANGED <<up, log, file, unsaved, ingest, logFaults>>
    BY <1>6 DEF Pulled
  <2>2. n \in Nodes /\ log[n] \in Chains
    BY <1>1, <1>2, <2>1 DEF SyncFits
  <2> DEFINE y == [sync[s] EXCEPT !.pc = "ok", !.local = log[n]]
  <2>3. /\ y \in SyncStates /\ y.pc = "ok" /\ y.from = sync[s].from /\ y.to = sync[s].to
        /\ y.local = log[n]
    BY <1>1, <2>2 DEF SyncStates
  <2>4. advertised' \subseteq Nodes
    <3>1. PICK provided \in BOOLEAN :
             advertised' = IF same /\ provided /\ log[n] # <<>> THEN advertised \cup {n} ELSE advertised
      BY <1>6 DEF Pulled
    <3> QED
      BY <2>2, <3>1, LogTyped
  <2>5. PICK x \in {y, SyncAt("error")} : sync' = [sync EXCEPT ![s] = x] /\ (x = y => same \/ y = SyncAt("error"))
    BY <1>6, LogTyped DEF Pulled
  <2> HIDE DEF y
  <2>6. x \in SyncStates
    BY <2>3, <2>5, Ended
  <2>7. SyncFits(x, ingest[s].pc # "none", log, up)
    <3>1. CASE x = SyncAt("error")
      BY <3>1, Ended DEF SyncFits
    <3>2. CASE x = y /\ same
      BY <1>1, <2>1, <2>3, <3>2 DEF SyncFits
    <3> QED
      BY <2>5, <3>1, <3>2
  <2> QED
    BY <2>1, <2>4, <2>5, <2>6, <2>7, SyncKeeps
<1>7. CASE Pushed(s) \/ SyncTimeout(s)
  <2> DEFINE y == [sync[s] EXCEPT !.pc = "ok"]
  <2>1. /\ y \in SyncStates /\ y.pc = "ok" /\ y.from = sync[s].from /\ y.to = sync[s].to
        /\ y.local = sync[s].local
    BY <1>1 DEF SyncStates
  <2>2. UNCHANGED <<up, log, file, unsaved, ingest, advertised, logFaults>>
    BY <1>7 DEF Pushed, SyncTimeout
  <2>3. PICK x \in {y, SyncAt("error")} :
           /\ sync' = [sync EXCEPT ![s] = x]
           /\ x = y => (sync[s].pc = "remote" /\ log[sync[s].to] = sync[s].local) \/ y = SyncAt("error")
    BY <1>7, LogTyped DEF Pushed, SyncTimeout
  <2> HIDE DEF y
  <2>4. x \in SyncStates
    BY <2>1, <2>3, Ended
  <2>5. SyncFits(x, ingest[s].pc # "none", log, up)
    <3>1. CASE x = SyncAt("error")
      BY <3>1, Ended DEF SyncFits
    <3>2. CASE x = y /\ sync[s].pc = "remote" /\ log[sync[s].to] = sync[s].local
      BY <1>1, <1>2, <2>1, <3>2 DEF SyncFits
    <3> QED
      BY <2>3, <3>1, <3>2
  <2> QED
    BY <2>2, <2>3, <2>4, <2>5, SyncKeeps, LogTyped
<1> QED
  BY <1>3, <1>4, <1>5, <1>6, <1>7

LEMMA AppendKeeps ==
    ASSUME LogInv, NEW n \in Nodes, NEW e \in Events, AppendEvent(n, e), Events \cap Syncs = {}
    PROVE  LogInv'
<1>1. /\ ingest[e].pc = "none" /\ Ingest(e, n, <<Append(log[n], e)>>)
      /\ UNCHANGED <<up, file, unsaved, sync, advertised, logFaults>>
  BY DEF AppendEvent
<1>2. Append(log[n], e) \in Chains
  BY LogTyped, AppendProperties DEF Chains
<1>3. <<Append(log[n], e)>> \in Seq(Chains)
  BY <1>2
<1>4. \A s \in Syncs : s # e
  OBVIOUS
<1>5. PICK rest \in Seq(Chains) : rest = <<Append(log[n], e)>>
  BY <1>3
<1>6. Ingest(e, n, rest) /\ e \in Calls
  BY <1>1, <1>5, LogTyped
<1> QED
  BY <1>1, <1>4, <1>6, IngestKeeps, LogTyped

LEMMA ArrivalsKeep ==
    ASSUME LogInv, NEW s \in Syncs, PullArrives(s) \/ PushArrives(s)
    PROVE  LogInv'
<1>1. sync[s] \in SyncStates /\ SyncFits(sync[s], ingest[s].pc # "none", log, up)
  BY LogTyped DEF LogInv, SyncsTrue
<1>2. UNCHANGED <<up, file, unsaved, advertised, logFaults>>
  BY DEF PullArrives, PushArrives
<1>3. sync[s].pc \in {"pulled", "pushing"} /\ sync[s].from \in Nodes /\ sync[s].to \in Nodes
      /\ ingest[s].pc = "none"
  BY <1>1 DEF PullArrives, PushArrives, SyncFits
<1>4. PICK n \in Nodes, rest \in Seq(Chains), pc \in {"ingesting", "remote"} :
         /\ Ingest(s, n, rest) /\ sync' = [sync EXCEPT ![s].pc = pc]
         /\ pc = "ingesting" => sync[s].pc = "pulled"
  <2>1. CASE PullArrives(s)
    <3>1. sync[s].entries \in Seq(Chains)
      BY <1>1 DEF SyncStates
    <3> QED
      BY <1>3, <2>1, <3>1 DEF PullArrives, Advance
  <2>2. CASE PushArrives(s)
    <3>1. sync[s].local \in Chains /\ Len(sync[s].head) \in Nat
      BY <1>1, LenProperties DEF SyncStates, Chains
    <3>2. EntriesFrom(sync[s].local, Len(sync[s].head) + 1) \in Seq(Chains)
      BY <3>1, EntriesTyped
    <3> QED
      BY <1>3, <2>2, <3>2 DEF PushArrives, Advance
  <2> QED
    BY <2>1, <2>2
<1> DEFINE x == [sync[s] EXCEPT !.pc = pc]
<1>5. /\ x \in SyncStates /\ x.pc = pc /\ x.from = sync[s].from /\ x.to = sync[s].to
      /\ x.head = sync[s].head
  BY <1>1 DEF SyncStates
<1>6. sync' = [sync EXCEPT ![s] = x]
  BY <1>4, LogTyped
<1> HIDE DEF x
<1>7. SyncFits(x, TRUE, log, up)
  BY <1>1, <1>3, <1>4, <1>5 DEF SyncFits
<1>8. /\ sync' \in [Syncs -> SyncStates] /\ sync'[s] = x /\ \A t \in Syncs : t # s => sync'[t] = sync[t]
  BY <1>5, <1>6, LogTyped
<1> QED
  BY <1>2, <1>3, <1>4, <1>7, <1>8, IngestKeeps, LogTyped

LEMMA PersistedKeeps ==
    ASSUME LogInv, NEW c \in Calls, Persisted(c)
    PROVE  LogInv'
<1>1. ingest[c].pc = "persisting" /\ ingest[c] \in IngestStates
  BY LogTyped DEF Persisted
<1>2. PICK n \in Nodes : n = ingest[c].at
  BY <1>1 DEF LogInv, IngestsTrue
<1>3. PICK rest \in Seq(Chains), e \in Chains : rest = ingest[c].rest /\ e = ingest[c].entry
  BY <1>1 DEF IngestStates
<1>4. /\ file' = [file EXCEPT ![n] = Append(@, e)] /\ Ingest(c, n, rest)
      /\ UNCHANGED <<up, unsaved, sync, advertised, logFaults>>
  BY <1>2, <1>3 DEF Persisted
<1>5. file[n] \in Seq(Chains)
  BY LogTyped
<1>6. /\ Append(file[n], e) \in Seq(Chains) /\ Len(Append(file[n], e)) = Len(file[n]) + 1
      /\ \A i \in 1..Len(file[n]) : Append(file[n], e)[i] = file[n][i]
      /\ Append(file[n], e)[Len(file[n]) + 1] = e
  BY <1>5, AppendProperties
<1>7. Len(file[n]) \in Nat /\ DOMAIN file[n] = 1..Len(file[n])
      /\ DOMAIN Append(file[n], e) = 1..(Len(file[n]) + 1)
  BY <1>5, <1>6, LenProperties
<1>8. Range(file[n]) \subseteq Range(Append(file[n], e)) /\ e \in Range(Append(file[n], e))
  BY <1>6, <1>7 DEF Range
<1>9. /\ file' \in [Nodes -> Seq(Chains)] /\ file'[n] = Append(file[n], e)
      /\ \A m \in Nodes : m # n => file'[m] = file[m]
  BY <1>4, <1>6, LogTyped
<1>10. \A m \in Nodes : Range(file[m]) \subseteq Range(file'[m])
  BY <1>8, <1>9
<1>11. ingest[c].entry \in Range(file'[ingest[c].at])
  BY <1>2, <1>3, <1>8, <1>9
<1>12. \A s \in Syncs : sync'[s] = sync[s] /\ (s # c \/ ingest[s].pc # "none")
  BY <1>1, <1>4
<1> QED
  BY ZenonT(60), <1>4, <1>9, <1>10, <1>11, <1>12, IngestKeeps, LogTyped

LEMMA PersistFailsKeeps ==
    ASSUME LogInv, LogAssumption, NEW c \in Calls, PersistFails(c)
    PROVE  LogInv'
<1>1. ingest[c].pc = "persisting" /\ ingest[c] \in IngestStates
  BY LogTyped DEF PersistFails
<1>2. PICK n \in Nodes, e \in Chains : n = ingest[c].at /\ e = ingest[c].entry
  BY <1>1 DEF LogInv, IngestsTrue, IngestStates
<1> DEFINE x == [ingest[c] EXCEPT !.pc = "error"]
<1>3. /\ logFaults < MaxLogFaults /\ logFaults' = logFaults + 1
      /\ unsaved' = [unsaved EXCEPT ![n] = @ \cup {e}] /\ ingest' = [ingest EXCEPT ![c] = x]
      /\ UNCHANGED <<up, log, file, sync, advertised>>
  BY <1>2, LogTyped DEF PersistFails
<1>4. x \in IngestStates /\ x.pc = "error"
  BY <1>1 DEF IngestStates
<1> HIDE DEF x
<1>5. /\ ingest' \in [Calls -> IngestStates] /\ ingest'[c] = x
      /\ \A d \in Calls : d # c => ingest'[d] = ingest[d]
  BY <1>3, <1>4, LogTyped
<1>6. /\ unsaved' \in [Nodes -> SUBSET Chains] /\ unsaved'[n] = unsaved[n] \cup {e}
      /\ \A m \in Nodes : m # n => unsaved'[m] = unsaved[m]
  BY <1>3, LogTyped
<1>7. logFaults' \in 0..MaxLogFaults
  <2>1. logFaults \in 0..MaxLogFaults
    BY LogTyped
  <2> QED
    BY <1>3, <2>1 DEF LogAssumption
<1>8. LogTypeOK'
  BY <1>3, <1>5, <1>6, <1>7, LogTyped DEF LogTypeOK
<1>9. SyncsTrue'
  <2> SUFFICES ASSUME NEW s \in Syncs PROVE SyncFits(sync[s], ingest'[s].pc # "none", log, up)
    BY <1>3 DEF SyncsTrue, SyncFits
  <2>1. SyncFits(sync[s], ingest[s].pc # "none", log, up) /\ s \in Calls
    BY LogTyped DEF LogInv, SyncsTrue
  <2> QED
    BY <1>1, <1>4, <1>5, <2>1 DEF SyncFits
<1>10. IngestsTrue'
  BY <1>4, <1>5 DEF LogInv, IngestsTrue
<1>11. ASSUME NEW m \in Nodes, NEW chain, Backed(m, chain)
       PROVE  BackedNext(m, chain)
  BY <1>2, <1>3, <1>5, <1>6, <1>11 DEF Backed, BackedNext
<1>12. EntriesBacked'
  BY <1>3, <1>11, StillBacked DEF LogInv, EntriesBacked
<1> QED
  BY <1>8, <1>9, <1>10, <1>12 DEF LogInv

LEMMA CrashKeeps ==
    ASSUME LogInv, LogAssumption, NEW n \in Nodes, CrashReplica(n)
    PROVE  LogInv'
<1>0. <<>> \in Chains /\ Len(<<>>) = 0
  BY EmptySeq DEF Chains
<1>1. /\ logFaults < MaxLogFaults /\ logFaults' = logFaults + 1
      /\ up' = [up EXCEPT ![n] = "down"] /\ log' = [log EXCEPT ![n] = <<>>]
      /\ unsaved' = [unsaved EXCEPT ![n] = {}]
      /\ advertised' = advertised \ {n} /\ file' = file
  BY DEF CrashReplica
<1>2. /\ up' \in [Nodes -> {"up", "down", "broken"}] /\ log' \in [Nodes -> Chains]
      /\ unsaved' \in [Nodes -> SUBSET Chains] /\ log'[n] = <<>>
      /\ \A m \in Nodes : m # n => up'[m] = up[m] /\ log'[m] = log[m] /\ unsaved'[m] = unsaved[m]
  BY <1>0, <1>1, LogTyped
<1>3. logFaults' \in 0..MaxLogFaults
  <2>1. logFaults \in 0..MaxLogFaults
    BY LogTyped
  <2> QED
    BY <1>1, <2>1 DEF LogAssumption
<1>4. ASSUME NEW c \in Calls
      PROVE  /\ ingest'[c] \in IngestStates /\ (ingest'[c].pc = "none" <=> ingest[c].pc = "none")
             /\ ingest'[c] = ingest[c] \/ (ingest'[c].pc # "persisting" /\ ingest[c].at = n)
  <2>1. ingest[c] \in IngestStates
    BY LogTyped
  <2>2. [ingest[c] EXCEPT !.pc = "error"] \in IngestStates /\ [ingest[c] EXCEPT !.pc = "error"].pc = "error"
    BY <2>1 DEF IngestStates
  <2>3. ingest'[c] = IF ingest[c].at = n /\ ingest[c].pc = "persisting"
                     THEN [ingest[c] EXCEPT !.pc = "error"] ELSE ingest[c]
    BY DEF CrashReplica
  <2> QED
    BY <2>1, <2>2, <2>3
<1>5. ingest' \in [Calls -> IngestStates]
  BY <1>4 DEF CrashReplica
<1>6. ASSUME NEW s \in Syncs
      PROVE  /\ sync'[s] \in SyncStates
             /\ SyncFits(sync'[s], ingest'[s].pc # "none", log', up')
  <2>1. sync[s] \in SyncStates /\ SyncFits(sync[s], ingest[s].pc # "none", log, up) /\ s \in Calls
    BY LogTyped DEF LogInv, SyncsTrue
  <2>2. PICK b \in BOOLEAN : b = (ingest[s].pc # "none") /\ b = (ingest'[s].pc # "none")
    BY <1>4, <2>1
  <2>3. CASE sync'[s] = sync[s] /\ (sync[s].pc \in {"heading", "pulling", "pulled", "ingesting",
                                                    "pushing", "remote", "ok"} => sync[s].to # n)
    BY <1>2, <2>1, <2>2, <2>3 DEF SyncFits
  <2>4. CASE \E pc \in {"lapsed", "error"} : sync'[s] = SyncAt(pc)
    BY <2>4, Ended DEF SyncFits
  <2>5. sync'[s] = IF sync[s].pc = "ok" /\ sync[s].to = n THEN SyncAt("lapsed")
                   ELSE IF sync[s].pc # "ok" /\ n \in {sync[s].from, sync[s].to}
                        THEN SyncAt("error") ELSE sync[s]
    BY DEF CrashReplica
  <2> QED
    BY <2>3, <2>4, <2>5
<1>7. sync' \in [Syncs -> SyncStates]
  BY <1>6 DEF CrashReplica
<1>8. LogTypeOK'
  BY <1>1, <1>2, <1>3, <1>5, <1>7, LogTyped DEF LogTypeOK
<1>9. SyncsTrue'
  BY <1>6 DEF SyncsTrue, SyncFits
<1>10. IngestsTrue'
  BY <1>4 DEF LogInv, IngestsTrue
<1>11. ASSUME NEW m \in Nodes, m # n, NEW chain, Backed(m, chain)
       PROVE  BackedNext(m, chain)
  <2>1. \A c \in Calls : ingest[c].at = m => ingest'[c] = ingest[c]
    BY <1>4, <1>11
  <2> QED
    BY <1>1, <1>2, <1>11, <2>1 DEF Backed, BackedNext
<1>12. ASSUME NEW m \in Nodes, NEW i \in 1..Len(log'[m])
       PROVE  BackedNext(m, SubSeq(log'[m], 1, i))
  <2>1. m # n /\ log'[m] = log[m]
    BY <1>0, <1>2
  <2>2. Backed(m, SubSeq(log[m], 1, i))
    BY <2>1 DEF LogInv, EntriesBacked
  <2> QED
    BY <1>11, <2>1, <2>2
<1>13. EntriesBacked'
  BY <1>12, StillBacked
<1> QED
  BY <1>8, <1>9, <1>10, <1>13 DEF LogInv

LEMMA OpenKeeps ==
    ASSUME LogInv, NEW n \in Nodes, Open(n)
    PROVE  LogInv'
<1> DEFINE ok == Reload(file[n]).ok
           chain == Reload(file[n]).chain
<1>1. /\ up[n] = "down" /\ up' = [up EXCEPT ![n] = IF ok THEN "up" ELSE "broken"]
      /\ log' = IF ok THEN [log EXCEPT ![n] = chain] ELSE log
      /\ UNCHANGED <<file, unsaved, ingest, sync, advertised, logFaults>>
  BY DEF Open
<1>2. ok => chain \in Chains /\ \A i \in 1..Len(chain) : SubSeq(chain, 1, i) \in Range(file[n])
  BY ReloadReads, LogTyped
<1> HIDE DEF ok, chain
<1>3. /\ up' \in [Nodes -> {"up", "down", "broken"}] /\ log' \in [Nodes -> Chains]
      /\ log'[n] = IF ok THEN chain ELSE log[n]
      /\ \A m \in Nodes : m # n => up'[m] = up[m] /\ log'[m] = log[m]
  BY <1>1, <1>2, LogTyped
<1>4. LogTypeOK'
  BY <1>1, <1>3, LogTyped DEF LogTypeOK
<1>5. ASSUME NEW s \in Syncs
      PROVE  SyncFits(sync[s], ingest[s].pc # "none", log', up')
  <2>1. SyncFits(sync[s], ingest[s].pc # "none", log, up)
    BY DEF LogInv, SyncsTrue
  <2> QED
    BY <1>1, <1>3, <2>1 DEF SyncFits
<1>6. SyncsTrue' /\ IngestsTrue'
  BY <1>1, <1>5 DEF LogInv, SyncsTrue, SyncFits, IngestsTrue
<1>7. ASSUME NEW m \in Nodes, NEW i \in 1..Len(log'[m])
      PROVE  BackedNext(m, SubSeq(log'[m], 1, i))
  <2>1. CASE log'[m] = log[m]
    <3>1. Backed(m, SubSeq(log[m], 1, i))
      BY <2>1 DEF LogInv, EntriesBacked
    <3> QED
      BY <1>1, <2>1, <3>1 DEF Backed, BackedNext
  <2>2. CASE log'[m] # log[m]
    <3>1. m = n /\ ok /\ log'[m] = chain
      BY <1>3, <2>2
    <3> QED
      BY <1>1, <1>2, <3>1 DEF BackedNext
  <2> QED
    BY <2>1, <2>2
<1>8. EntriesBacked'
  BY SMTT(60), <1>7, StillBacked
<1> QED
  BY <1>4, <1>6, <1>8 DEF LogInv

LEMMA AdvertiseKeeps == ASSUME LogInv, NEW n \in Nodes, Advertise(n) PROVE LogInv'
<1>1. UNCHANGED <<up, log, file, unsaved, ingest, sync, logFaults>> /\ advertised' \subseteq Nodes
  BY LogTyped DEF Advertise
<1> QED
  BY <1>1 DEF LogInv, LogTypeOK, SyncsTrue, SyncFits, IngestsTrue, EntriesBacked, Backed

LEMMA LogInvInit == LogAssumption /\ LogInit => LogInv
<1> SUFFICES ASSUME LogAssumption, LogInit PROVE LogInv
  OBVIOUS
<1>0. <<>> \in Chains /\ <<>> \in Seq(Chains) /\ Len(<<>>) = 0
  BY EmptySeq DEF Chains
<1>1. NoIngest \in IngestStates /\ NoIngest.pc = "none" /\ NoSync \in SyncStates /\ NoSync.pc = "none"
  BY <1>0, Ended DEF NoIngest, NoSync, IngestStates
<1>2. LogTypeOK
  <2>1. logFaults \in 0..MaxLogFaults
    BY DEF LogInit, LogAssumption
  <2> QED
    BY <1>0, <1>1, <2>1 DEF LogInit, LogTypeOK
<1>3. SyncsTrue /\ IngestsTrue
  BY <1>1 DEF LogInit, SyncsTrue, SyncFits, IngestsTrue, Calls
<1>4. EntriesBacked
  BY <1>0 DEF LogInit, EntriesBacked
<1> QED
  BY <1>2, <1>3, <1>4 DEF LogInv

LEMMA LogStutter == LogInv /\ UNCHANGED logVars => LogInv'
BY DEF logVars, LogInv, LogTypeOK, SyncsTrue, SyncFits, IngestsTrue, EntriesBacked, Backed

LEMMA LogInvNext == ASSUME LogAssumption, LogInv, [LogNext]_logVars PROVE LogInv'
<1>1. Events \cap Syncs = {}
  BY DEF LogAssumption
<1> QED
  BY <1>1, SyncSteps, AppendKeeps, ArrivalsKeep, PersistedKeeps, PersistFailsKeeps, CrashKeeps,
     OpenKeeps, AdvertiseKeeps, LogStutter DEF LogNext

LEMMA LogInvMeans == LogInv => LogTypeOK /\ AckMeansHeld /\ EntriesBacked
BY DEF LogInv, SyncsTrue, SyncFits, AckMeansHeld

-----------------------------------------------------------------------------
(* The node's own record: proofs, for every set of peers and every bound.   *)

LEMMA NoOperationTyped == NoOperation \in Operations /\ NoOwnRecord \in OwnRecords
BY DEF NoOperation, Operations, OwnRecords

\* The record of a process that has started.
LEMMA OwnRecordMade ==
    ASSUME RuntimeAssumption, RuntimeInv, phase # "down"
    PROVE  /\ local = [seq |-> seq, boot |-> boot] /\ local \in OwnRecords
           /\ local # NoOwnRecord /\ Made(local)
<1>1. local = [seq |-> seq, boot |-> boot] /\ local \in OwnRecords
  BY DEF RuntimeInv, OwnIsCurrent, RuntimeTypeOK
<1>2. boot \in 1..MaxTurns /\ MaxTurns \in Nat /\ seq \in 0..MaxSequence /\ MaxSequence \in Nat
  BY DEF RuntimeInv, RuntimeTypeOK, RuntimeAssumption
<1>3. local.seq = seq /\ local.boot = boot
  BY <1>1
<1>4. boot # 0 /\ seq <= seq
  BY <1>2
<1>5. local # NoOwnRecord
  BY <1>3, <1>4 DEF NoOwnRecord
<1> QED
  BY <1>1, <1>3, <1>4, <1>5 DEF Made

\* A publication of the own record: where it is placed, who has it, and that
\* only this process's records are announced.
LEMMA PublishEffects ==
    ASSUME RuntimeAssumption, RuntimeInv, NEW o \in Publishers, phase # "down", Publish(o)
    PROVE  /\ placed' = [rec |-> local, targets |-> closest]
           /\ acked' = [rec |-> local, nodes |-> AckedFor(local)]
           /\ AckedFor(local) \subseteq Peers /\ \A p \in AckedFor(local) : held[p] = local
           /\ publish' \in [Publishers -> Operations]
           /\ \A q \in Publishers :
                publish'[q] # NoOperation => publish'[q].to # {} /\ Made(publish'[q].rec)
           /\ retry' \in {retry, NoOperation} /\ unstaged' = FALSE
<1> DEFINE missing == closest \ AckedFor(local)
           op == [rec |-> local, to |-> missing, all |-> closest, attempt |-> 0]
<1>1. local \in OwnRecords /\ local # NoOwnRecord /\ Made(local)
  BY OwnRecordMade
<1>2. closest \subseteq Peers /\ acked \in [rec : OwnRecords, nodes : SUBSET Peers]
  BY DEF RuntimeInv, RuntimeTypeOK
<1>3. AckedFor(local) \subseteq Peers
  BY <1>2 DEF AckedFor
<1>4. \A p \in AckedFor(local) : held[p] = local
  BY <1>1 DEF AckedFor, RuntimeInv, AckedHold
<1>5. publish' = [publish EXCEPT ![o] = IF missing = {} THEN NoOperation ELSE op]
  BY DEF Publish, Announce
<1>6. op \in Operations
  BY <1>1, <1>2 DEF Operations
<1>7. publish \in [Publishers -> Operations]
  BY DEF RuntimeInv, RuntimeTypeOK
<1>8. \A q \in Publishers : publish[q] # NoOperation => publish[q].to # {} /\ Made(publish[q].rec)
  BY DEF RuntimeInv, NothingNewer
<1>9. op.to = missing /\ op.rec = local
  OBVIOUS
<1>10. publish' \in [Publishers -> Operations]
  <2> HIDE DEF op, missing
  <2> QED
    BY <1>5, <1>6, <1>7, NoOperationTyped
<1>11. \A q \in Publishers : publish'[q] # NoOperation => publish'[q].to # {} /\ Made(publish'[q].rec)
  <2> HIDE DEF op, missing
  <2> QED
    BY <1>1, <1>5, <1>7, <1>8, <1>9
<1>12. retry' \in {retry, NoOperation}
  BY DEF Publish
<1> QED
  BY <1>3, <1>4, <1>10, <1>11, <1>12 DEF Publish, Reset

\* An announcement settles: the peers that acknowledged the own record have it,
\* and what is retried is a record of this process.
LEMMA SettleEffects ==
    ASSUME RuntimeAssumption, RuntimeInv, NEW o \in Publishers, publish[o] # NoOperation,
           NEW failed \in SUBSET publish[o].to, Settle(o, failed)
    PROVE  /\ held' \in [Peers -> OwnRecords] /\ heard' \subseteq OwnRecords
           /\ acked' \in [rec : OwnRecords, nodes : SUBSET Peers]
           /\ acked' = acked \/ acked'.rec = local
           /\ acked'.rec = local => \A p \in acked'.nodes : held'[p] = local
           /\ local = publish[o].rec => acked'.rec = local
           /\ retry' \in Operations
           /\ retry' # NoOperation => retry'.to # {} /\ Made(retry'.rec)
<1> DEFINE op == publish[o]
           nodes == AckedFor(op.rec) \cup (op.to \ failed)
<1>1. phase # "down"
  BY DEF RuntimeInv, DownIsQuiet
<1>2. /\ local = [seq |-> seq, boot |-> boot] /\ local \in OwnRecords
      /\ local # NoOwnRecord /\ Made(local)
  BY <1>1, OwnRecordMade
<1>3. op \in Operations /\ op.rec \in OwnRecords /\ op.to \subseteq Peers /\ op.all \subseteq Peers
      /\ op.attempt \in Nat
  BY DEF RuntimeInv, RuntimeTypeOK, Operations
<1>4. Made(op.rec)
  BY DEF RuntimeInv, NothingNewer
<1>5. /\ acked \in [rec : OwnRecords, nodes : SUBSET Peers] /\ held \in [Peers -> OwnRecords]
      /\ placed \in [rec : OwnRecords, targets : SUBSET Peers] /\ retry \in Operations
      /\ seq \in Nat
  BY DEF RuntimeInv, RuntimeTypeOK, RuntimeAssumption
<1>6. PICK lost \in SUBSET {p \in failed : PeerAccepts(p, op.rec)} :
        LET got == (op.to \ failed) \cup lost
        IN /\ held' = [p \in Peers |-> IF p \in got THEN op.rec ELSE held[p]]
           /\ heard' = IF got = {} THEN heard ELSE heard \cup {op.rec}
  BY DEF Settle
<1> DEFINE got == (op.to \ failed) \cup lost
<1>7. \A p \in op.to \ failed : PeerAccepts(p, op.rec)
  BY DEF Settle
<1>8. got \subseteq Peers /\ \A p \in got : PeerAccepts(p, op.rec)
  BY <1>3, <1>6, <1>7
<1>9. held' = [p \in Peers |-> IF p \in got THEN op.rec ELSE held[p]]
  BY <1>6
<1>10. heard' \subseteq OwnRecords /\ held' \in [Peers -> OwnRecords]
  <2>1. heard \subseteq OwnRecords
    BY DEF RuntimeInv, RuntimeTypeOK
  <2> QED
    BY <1>3, <1>5, <1>6, <2>1
<1>11. ASSUME NEW p \in Peers, held[p] = local PROVE held'[p] = local
  <2>1. CASE p \in got
    <3>1. held[p].seq < op.rec.seq \/ held[p] = op.rec
      BY <1>8, <2>1 DEF PeerAccepts
    <3>2. held[p].seq = seq /\ op.rec.seq <= seq /\ op.rec.seq \in Nat
      BY <1>2, <1>3, <1>4, <1>11 DEF Made, OwnRecords, NoOwnRecord, RuntimeAssumption
    <3>3. held[p] = op.rec
      BY <1>5, <3>1, <3>2
    <3> QED
      BY <1>9, <1>11, <2>1, <3>3
  <2>2. CASE p \notin got
    BY <1>9, <1>11, <2>2
  <2> QED
    BY <2>1, <2>2
<1>12. AckedFor(op.rec) \subseteq Peers
  BY <1>5 DEF AckedFor
<1>13. acked' = IF local = op.rec THEN [rec |-> op.rec, nodes |-> nodes] ELSE acked
  BY DEF Settle
<1>14. acked' \in [rec : OwnRecords, nodes : SUBSET Peers]
  BY <1>3, <1>5, <1>12, <1>13
<1>15. (acked' = acked \/ acked'.rec = local) /\ (local = op.rec => acked'.rec = local)
  BY <1>13
<1>16. ASSUME acked'.rec = local, NEW p \in acked'.nodes PROVE held'[p] = local
  <2>1. p \in Peers
    BY <1>14
  <2>2. CASE acked.rec = local /\ p \in acked.nodes
    BY <1>2, <1>11, <2>1, <2>2 DEF RuntimeInv, AckedHold
  <2>3. CASE ~ (acked.rec = local /\ p \in acked.nodes)
    <3>1. local = op.rec /\ p \in nodes
      BY <1>13, <1>16, <2>3
    <3>2. p \in op.to \ failed
      BY <2>3, <3>1 DEF AckedFor
    <3> QED
      BY <1>9, <2>1, <3>1, <3>2
  <2> QED
    BY <2>2, <2>3
<1>17. retry' \in Operations /\ (retry' # NoOperation => retry'.to # {} /\ Made(retry'.rec))
  <2>1. retry # NoOperation => retry.to # {} /\ Made(retry.rec)
    BY DEF RuntimeInv, NothingNewer
  <2>2. CASE o = "caller" \/ failed = {}
    BY <1>5, <2>1, <2>2, NoOperationTyped DEF Settle
  <2>3. CASE o # "caller" /\ failed # {}
    <3> DEFINE attempt == IF o = "retry" THEN op.attempt + 1 ELSE 0
    <3>1. retry' = RetryLater(op.rec, op.all, failed, attempt, nodes)
      BY <2>3 DEF Settle
    <3>2. attempt \in Nat /\ MaxAttempts - 1 \in Nat
      BY <1>3 DEF RuntimeAssumption
    <3> HIDE DEF attempt, nodes
    <3>3. PICK due \in SUBSET op.all, n \in Nat :
            \/ retry' = NoOperation
            \/ due # {} /\ retry' = [rec |-> op.rec, to |-> due, all |-> op.all, attempt |-> n]
      <4>1. CASE attempt < MaxAttempts
        BY <3>1, <3>2, <4>1 DEF RetryLater
      <4>2. CASE ~ (attempt < MaxAttempts)
        BY <3>1, <3>2, <4>2 DEF RetryLater
      <4> QED
        BY <4>1, <4>2
    <3> DEFINE r == [rec |-> op.rec, to |-> due, all |-> op.all, attempt |-> n]
    <3>4. r \in Operations /\ r.to = due /\ r.rec = op.rec
      BY <1>3, <3>3 DEF Operations
    <3> HIDE DEF op
    <3> QED
      BY <1>4, <3>3, <3>4, NoOperationTyped
  <2> QED
    BY <2>2, <2>3
<1> QED
  BY <1>10, <1>14, <1>15, <1>16, <1>17

LEMMA RuntimeInvInit == RuntimeAssumption /\ RuntimeInit => RuntimeInv
<1> SUFFICES ASSUME RuntimeAssumption, RuntimeInit PROVE RuntimeInv
  OBVIOUS
<1> USE DEF RuntimeInit
<1>1. NoHeal \in [timer : BOOLEAN, running : BOOLEAN, dirty : BOOLEAN, attempts : 0..2,
                  stale : BOOLEAN]
  BY DEF NoHeal
<1>2. RuntimeTypeOK
  <2>1. /\ boot \in 1..MaxTurns /\ seq \in 0..MaxSequence /\ durable \in 0..MaxSequence
        /\ churn \in 0..MaxTurns
    BY DEF RuntimeAssumption
  <2>2. /\ placed \in [rec : OwnRecords, targets : SUBSET Peers]
        /\ acked \in [rec : OwnRecords, nodes : SUBSET Peers]
        /\ queued \in [on : BOOLEAN, rec : OwnRecords, changed : BOOLEAN]
    BY NoOperationTyped DEF NoPlacement
  <2>3. publish \in [Publishers -> Operations] /\ held \in [Peers -> OwnRecords]
    BY NoOperationTyped
  <2> QED
    BY <1>1, <2>1, <2>2, <2>3, NoOperationTyped DEF RuntimeTypeOK
<1>3. OwnIsCurrent /\ NothingNewer /\ AckedHold /\ PlacedNearest
  BY DEF OwnIsCurrent, NothingNewer, AckedHold, PlacedNearest, Active
<1>4. HealOneAtATime /\ ChurnIsRepaired /\ DownIsQuiet
  BY DEF HealOneAtATime, ChurnIsRepaired, DownIsQuiet, Active, NoHeal
<1> QED
  BY <1>2, <1>3, <1>4 DEF RuntimeInv

LEMMA StartKeeps == ASSUME RuntimeAssumption, RuntimeInv, Start PROVE RuntimeInv'
<1>1. phase = "down" /\ phase' = "persisting" /\ local' = [seq |-> seq', boot |-> boot'] /\ boot' = boot
  BY DEF Start
<1>2. seq' \in 1..MaxSequence /\ boot \in 1..MaxTurns
  BY DEF RuntimeInv, RuntimeTypeOK, RuntimeAssumption, Start
<1>3. local' \in OwnRecords /\ local' # NoOwnRecord
  BY <1>1, <1>2 DEF OwnRecords, NoOwnRecord
<1>4. /\ placed = NoPlacement /\ acked = [rec |-> NoOwnRecord, nodes |-> {}]
      /\ retry = NoOperation /\ ~ heal.stale /\ \A o \in Publishers : publish[o] = NoOperation
      /\ UNCHANGED <<placed, acked, retry, heal, publish, unstaged>>
  BY <1>1 DEF RuntimeInv, DownIsQuiet, Start
<1>5. placed'.rec = NoOwnRecord /\ acked'.rec = NoOwnRecord
  BY <1>4 DEF NoPlacement
<1>6. seq' \in 0..MaxSequence
  BY <1>2 DEF RuntimeAssumption
<1>7. RuntimeTypeOK'
  BY <1>1, <1>3, <1>6 DEF RuntimeInv, RuntimeTypeOK, Start
<1>8. OwnIsCurrent'
  BY <1>1 DEF OwnIsCurrent
<1>9. NothingNewer' /\ AckedHold' /\ PlacedNearest'
  BY <1>3, <1>4, <1>5 DEF NothingNewer, AckedHold, PlacedNearest
<1>10. HealOneAtATime' /\ ChurnIsRepaired' /\ DownIsQuiet'
  BY <1>1, <1>4 DEF RuntimeInv, HealOneAtATime, ChurnIsRepaired, DownIsQuiet
<1> QED
  BY <1>7, <1>8, <1>9, <1>10 DEF RuntimeInv

\* A step that publishes the own record and leaves it what it is.
LEMMA PublishKeeps ==
    ASSUME RuntimeAssumption, RuntimeInv, NEW o \in Publishers, phase # "down", Publish(o),
           UNCHANGED <<boot, seq, local, closest, held>>, phase' # "down"
    PROVE  OwnIsCurrent' /\ NothingNewer' /\ AckedHold' /\ PlacedNearest' /\ DownIsQuiet'
<1>1. /\ placed' = [rec |-> local, targets |-> closest]
      /\ acked' = [rec |-> local, nodes |-> AckedFor(local)]
      /\ \A p \in AckedFor(local) : held[p] = local
      /\ \A q \in Publishers :
           publish'[q] # NoOperation => publish'[q].to # {} /\ Made(publish'[q].rec)
      /\ retry' \in {retry, NoOperation}
  BY PublishEffects
<1>2. local = [seq |-> seq, boot |-> boot] /\ local # NoOwnRecord /\ Made(local)
  BY OwnRecordMade
<1>3. retry # NoOperation => retry.to # {} /\ Made(retry.rec)
  BY DEF RuntimeInv, NothingNewer
<1>4. retry' # NoOperation => retry'.to # {} /\ Made(retry'.rec)
  BY <1>1, <1>3
<1>5. acked'.rec = local /\ acked'.nodes = AckedFor(local) /\ placed'.targets = closest
  BY <1>1
<1>6. NothingNewer'
  BY <1>1, <1>2, <1>4, <1>5 DEF NothingNewer, Made
<1>7. OwnIsCurrent' /\ DownIsQuiet'
  BY <1>2 DEF OwnIsCurrent, DownIsQuiet
<1>8. AckedHold' /\ PlacedNearest'
  BY <1>1, <1>5 DEF AckedHold, PlacedNearest
<1> QED
  BY <1>6, <1>7, <1>8

LEMMA StartPersistedKeeps == ASSUME RuntimeAssumption, RuntimeInv, StartPersisted PROVE RuntimeInv'
<1>1. phase = "persisting" /\ phase' \in {"up", "publishing"} /\ Publish("direct")
  BY DEF StartPersisted
<1>2. "direct" \in Publishers
  BY DEF Publishers
<1>3. OwnIsCurrent' /\ NothingNewer' /\ AckedHold' /\ PlacedNearest' /\ DownIsQuiet'
  BY <1>1, <1>2, PublishKeeps DEF StartPersisted
<1>4. /\ placed' = [rec |-> local, targets |-> closest]
      /\ acked' = [rec |-> local, nodes |-> AckedFor(local)] /\ AckedFor(local) \subseteq Peers
      /\ publish' \in [Publishers -> Operations] /\ retry' \in {retry, NoOperation} /\ unstaged' = FALSE
  BY <1>1, <1>2, PublishEffects
<1>5. heal' \in {heal, ScheduleHeal(heal)} /\ Active
  BY <1>1 DEF StartPersisted, Active
<1>6. heal' \in [timer : BOOLEAN, running : BOOLEAN, dirty : BOOLEAN, attempts : 0..2, stale : BOOLEAN]
  BY ZenonT(60), <1>5 DEF ScheduleHeal, RuntimeInv, RuntimeTypeOK
<1>7. HealOneAtATime' /\ ChurnIsRepaired'
  BY <1>5 DEF ScheduleHeal, RuntimeInv, RuntimeTypeOK, HealOneAtATime, ChurnIsRepaired
<1>8. RuntimeTypeOK'
  <2>1. placed' \in [rec : OwnRecords, targets : SUBSET Peers]
        /\ acked' \in [rec : OwnRecords, nodes : SUBSET Peers]
    BY <1>4 DEF RuntimeInv, RuntimeTypeOK
  <2>2. retry' \in Operations
    BY <1>4, NoOperationTyped DEF RuntimeInv, RuntimeTypeOK
  <2>3. renewal' \in {"none", "timer", "persisting", "publishing"}
    BY DEF StartPersisted, RuntimeInv, RuntimeTypeOK
  <2>4. phase' \in {"down", "persisting", "publishing", "up", "closing", "closed"}
    BY <1>1
  <2> QED
    BY <1>4, <1>6, <2>1, <2>2, <2>3, <2>4 DEF StartPersisted, RuntimeInv, RuntimeTypeOK
<1> QED
  BY <1>3, <1>7, <1>8 DEF RuntimeInv

\* A step that only sets the targets of the own record.
LEMMA ResetKeeps ==
    ASSUME RuntimeAssumption, RuntimeInv, phase # "down", phase' # "down",
           NEW to \in SUBSET Peers, Reset(local, to),
           UNCHANGED <<boot, seq, local, publish, held>>, retry' = retry
    PROVE  /\ placed' \in [rec : OwnRecords, targets : SUBSET Peers]
           /\ acked' \in [rec : OwnRecords, nodes : SUBSET Peers]
           /\ OwnIsCurrent' /\ NothingNewer' /\ AckedHold' /\ DownIsQuiet'
<1>1. local = [seq |-> seq, boot |-> boot] /\ local \in OwnRecords /\ local # NoOwnRecord /\ Made(local)
  BY OwnRecordMade
<1>2. acked \in [rec : OwnRecords, nodes : SUBSET Peers]
  BY DEF RuntimeInv, RuntimeTypeOK
<1>3. AckedFor(local) \subseteq Peers /\ \A p \in AckedFor(local) : held[p] = local
  BY <1>1, <1>2 DEF AckedFor, RuntimeInv, AckedHold
<1>4. placed' = [rec |-> local, targets |-> to] /\ acked' = [rec |-> local, nodes |-> AckedFor(local)]
  BY DEF Reset
<1>5. acked'.rec = local /\ acked'.nodes = AckedFor(local)
  BY <1>4
<1>6. placed' \in [rec : OwnRecords, targets : SUBSET Peers] /\ acked' \in [rec : OwnRecords, nodes : SUBSET Peers]
  BY <1>1, <1>3, <1>4
<1>7. NothingNewer'
  BY <1>1, <1>5 DEF RuntimeInv, NothingNewer, Made
<1>8. OwnIsCurrent' /\ AckedHold' /\ DownIsQuiet'
  BY <1>1, <1>3, <1>5 DEF OwnIsCurrent, AckedHold, DownIsQuiet
<1> QED
  BY <1>6, <1>7, <1>8

LEMMA RenewPersistedKeeps == ASSUME RuntimeAssumption, RuntimeInv, RenewPersisted PROVE RuntimeInv'
<1>1. UNCHANGED <<phase, boot, seq, local, closest, dirty, queued, heal, held, heard, churn>>
  BY DEF RenewPersisted
<1>2. durable' \in {seq, durable} /\ renewal' \in {"none", "timer", "persisting", "publishing"}
  BY DEF RenewPersisted
<1>3. phase # "down"
  BY DEF RenewPersisted, RuntimeInv, DownIsQuiet
<1>4. HealOneAtATime' /\ ChurnIsRepaired'
  BY <1>1 DEF RuntimeInv, HealOneAtATime, ChurnIsRepaired, Active
<1>5. CASE Active /\ Publish("direct")
  <2>1. "direct" \in Publishers /\ phase # "down"
    BY <1>5 DEF Publishers, Active
  <2>2. OwnIsCurrent' /\ NothingNewer' /\ AckedHold' /\ PlacedNearest' /\ DownIsQuiet'
    BY <1>1, <1>5, <2>1, PublishKeeps
  <2>3. /\ placed' = [rec |-> local, targets |-> closest]
        /\ acked' = [rec |-> local, nodes |-> AckedFor(local)] /\ AckedFor(local) \subseteq Peers
        /\ publish' \in [Publishers -> Operations] /\ retry' \in {retry, NoOperation} /\ unstaged' = FALSE
    BY <1>5, <2>1, PublishEffects
  <2>4. retry' \in Operations
    BY <2>3, NoOperationTyped DEF RuntimeInv, RuntimeTypeOK
  <2>5. RuntimeTypeOK'
    BY <1>1, <1>2, <2>3, <2>4 DEF RuntimeInv, RuntimeTypeOK
  <2> QED
    BY <1>4, <2>2, <2>5 DEF RuntimeInv
<1>6. CASE UNCHANGED <<placed, acked, publish, retry, unstaged>>
  <2>1. RuntimeTypeOK'
    BY <1>1, <1>2, <1>6 DEF RuntimeInv, RuntimeTypeOK
  <2>2. OwnIsCurrent' /\ AckedHold' /\ PlacedNearest' /\ DownIsQuiet'
    BY <1>1, <1>6, <1>3 DEF RuntimeInv, OwnIsCurrent, AckedHold, PlacedNearest, DownIsQuiet, Active
  <2>3. NothingNewer'
    BY <1>1, <1>6 DEF RuntimeInv, NothingNewer, Made
  <2> QED
    BY <1>4, <2>1, <2>2, <2>3 DEF RuntimeInv
<1>7. CASE Reset(local, {}) /\ unstaged' = TRUE /\ UNCHANGED <<publish, retry>>
  <2>1. phase # "down"
    BY <1>3
  <2>2. {} \in SUBSET Peers /\ phase' # "down" /\ retry' = retry
    BY <1>1, <1>7, <2>1
  <2>3. /\ placed' \in [rec : OwnRecords, targets : SUBSET Peers]
        /\ acked' \in [rec : OwnRecords, nodes : SUBSET Peers]
        /\ OwnIsCurrent' /\ NothingNewer' /\ AckedHold' /\ DownIsQuiet'
    BY <1>1, <1>7, <2>1, <2>2, ResetKeeps
  <2>4. RuntimeTypeOK' /\ PlacedNearest'
    BY <1>1, <1>2, <1>7, <2>3 DEF RuntimeInv, RuntimeTypeOK, PlacedNearest
  <2> QED
    BY <1>4, <2>3, <2>4 DEF RuntimeInv
<1> QED
  BY <1>5, <1>6, <1>7 DEF RenewPersisted

LEMMA RenewKeeps == ASSUME RuntimeAssumption, RuntimeInv, Renew PROVE RuntimeInv'
<1>1. /\ phase = "up" /\ phase' = phase /\ boot' = boot /\ seq' = seq + 1
      /\ local' = [seq |-> seq', boot |-> boot']
      /\ UNCHANGED <<durable, closest, publish, dirty, queued, heal, held, heard, churn>>
  BY DEF Renew
<1>2. seq \in Nat /\ seq' \in 1..MaxSequence /\ seq' \in 0..MaxSequence /\ boot \in 1..MaxTurns
  BY DEF RuntimeInv, RuntimeTypeOK, RuntimeAssumption, Renew
<1>3. local' \in OwnRecords /\ local' # NoOwnRecord
  BY <1>1, <1>2 DEF OwnRecords, NoOwnRecord
<1>4. local'.seq = seq + 1
  BY <1>1
<1>5. acked.rec # local'
  <2>1. acked.rec # NoOwnRecord => acked.rec.seq <= seq
    BY DEF RuntimeInv, NothingNewer, Made
  <2> QED
    BY <1>2, <1>3, <1>4, <2>1
<1>6. placed' = [rec |-> local', targets |-> closest] /\ acked' = [rec |-> local', nodes |-> {}]
  BY <1>5 DEF Renew, Reset, AckedFor
<1>7. retry' = NoOperation
  BY DEF Renew
<1>8. \A r \in OwnRecords : Made(r) => r # NoOwnRecord /\ r.boot = boot' /\ r.seq <= seq'
  <2>1. \A r \in OwnRecords : r.seq \in Nat
    BY DEF OwnRecords, NoOwnRecord, RuntimeAssumption
  <2> QED
    BY <1>1, <1>2, <2>1 DEF Made
<1>9. RuntimeTypeOK'
  <2>1. closest \subseteq Peers
    BY DEF RuntimeInv, RuntimeTypeOK
  <2>2. placed' \in [rec : OwnRecords, targets : SUBSET Peers]
        /\ acked' \in [rec : OwnRecords, nodes : SUBSET Peers]
    BY <1>3, <1>6, <2>1
  <2> QED
    BY <1>1, <1>2, <1>3, <1>7, <2>2, NoOperationTyped DEF RuntimeInv, RuntimeTypeOK, Renew
<1>10. NothingNewer'
  <2>1. \A o \in Publishers : publish[o].rec \in OwnRecords
    BY DEF RuntimeInv, RuntimeTypeOK, Operations
  <2>2. \A o \in Publishers : publish[o] # NoOperation => publish[o].to # {} /\ Made(publish[o].rec)
    BY DEF RuntimeInv, NothingNewer
  <2>3. \A o \in Publishers : publish'[o] # NoOperation => 
            /\ publish'[o].to # {} /\ publish'[o].rec # NoOwnRecord
            /\ publish'[o].rec.boot = boot' /\ publish'[o].rec.seq <= seq'
    BY <1>1, <1>8, <2>1, <2>2
  <2>4. acked'.rec = local' /\ local'.boot = boot' /\ local'.seq <= seq'
    BY <1>1, <1>2, <1>6
  <2> QED
    BY <1>3, <1>7, <2>3, <2>4 DEF NothingNewer, Made
<1>11. OwnIsCurrent' /\ DownIsQuiet' /\ AckedHold' /\ PlacedNearest'
  BY <1>1, <1>6 DEF OwnIsCurrent, DownIsQuiet, AckedHold, PlacedNearest
<1>12. HealOneAtATime' /\ ChurnIsRepaired'
  BY <1>1 DEF RuntimeInv, HealOneAtATime, ChurnIsRepaired, Active
<1> QED
  BY <1>9, <1>10, <1>11, <1>12 DEF RuntimeInv
\* A step that leaves the own record, what is announced and who has it alone.
LEMMA QuietStep ==
    ASSUME RuntimeInv, phase' # "down",
           UNCHANGED <<boot, seq, local, closest, placed, acked, publish, unstaged, held>>,
           retry' \in {retry, NoOperation}, phase # "down", Active' => Active
    PROVE  /\ OwnIsCurrent' /\ NothingNewer' /\ AckedHold' /\ PlacedNearest' /\ DownIsQuiet'
           /\ retry' \in Operations
<1>1. NothingNewer'
  <2>1. retry' # NoOperation => retry'.to # {} /\ Made(retry'.rec)
    BY DEF RuntimeInv, NothingNewer
  <2> QED
    BY <2>1 DEF RuntimeInv, NothingNewer, Made
<1>2. OwnIsCurrent' /\ AckedHold' /\ PlacedNearest' /\ DownIsQuiet'
  BY DEF RuntimeInv, OwnIsCurrent, AckedHold, PlacedNearest, DownIsQuiet
<1>3. retry' \in Operations
  BY NoOperationTyped DEF RuntimeInv, RuntimeTypeOK
<1> QED
  BY <1>1, <1>2, <1>3

LEMMA HealKeeps == ASSUME RuntimeAssumption, RuntimeInv, HealRuns \/ HealEnds PROVE RuntimeInv'
<1> DEFINE H == [timer : BOOLEAN, running : BOOLEAN, dirty : BOOLEAN, attempts : 0..2, stale : BOOLEAN]
<1>1. UNCHANGED <<phase, boot, seq, durable, local, closest, placed, acked, publish, dirty,
                  queued, retry, renewal, unstaged, held, heard, churn>>
  BY DEF HealRuns, HealEnds
<1>2. heal \in H
  BY DEF RuntimeInv, RuntimeTypeOK
<1>3. heal' \in H /\ HealOneAtATime' /\ ChurnIsRepaired' /\ (~ heal.stale => ~ heal'.stale)
  <2>1. CASE HealRuns
    <3>1. CASE Active
      <4> DEFINE h == [timer |-> FALSE, running |-> TRUE, dirty |-> FALSE, attempts |-> heal.attempts, stale |-> FALSE]
      <4>1. heal' = h
        BY <1>2, <2>1, <3>1 DEF HealRuns
      <4>2. h \in H
        BY <1>2
      <4> QED
        BY <4>1, <4>2 DEF HealOneAtATime, ChurnIsRepaired
    <3>2. CASE ~ Active
      <4>1. heal' = [heal EXCEPT !.timer = FALSE]
        BY <2>1, <3>2 DEF HealRuns
      <4>2. heal' \in H /\ heal'.timer = FALSE /\ heal'.stale = heal.stale
        BY <1>2, <4>1
      <4>3. ~ Active'
        BY <1>1, <3>2 DEF Active
      <4> QED
        BY <4>2, <4>3 DEF HealOneAtATime, ChurnIsRepaired
    <3> QED
      BY <3>1, <3>2
  <2>2. CASE HealEnds
    <3>1. PICK failed \in BOOLEAN :
            heal' = [heal EXCEPT !.running = FALSE, !.dirty = FALSE,
                                 !.attempts = IF failed /\ heal.attempts < 2 THEN @ + 1 ELSE IF failed THEN @ ELSE 0,
                                 !.timer = Active /\ (heal.dirty \/ (failed /\ heal.attempts < 2))]
      BY <2>2 DEF HealEnds
    <3> DEFINE n == IF failed /\ heal.attempts < 2 THEN heal.attempts + 1 ELSE IF failed THEN heal.attempts ELSE 0
               b == Active /\ (heal.dirty \/ (failed /\ heal.attempts < 2))
               h == [timer |-> b, running |-> FALSE, dirty |-> FALSE, attempts |-> n, stale |-> heal.stale]
    <3>2. n \in 0..2 /\ b \in BOOLEAN
      BY <1>2
    <3>3. Active /\ heal.dirty => b
      OBVIOUS
    <3>4. heal' = h
      <4>1. heal' = [heal EXCEPT !.running = FALSE, !.dirty = FALSE, !.attempts = n, !.timer = b]
        BY <3>1
      <4> HIDE DEF n, b
      <4> QED
        BY <1>2, <4>1
    <3> HIDE DEF n, b
    <3>5. heal' \in H /\ heal'.running = FALSE /\ heal'.stale = heal.stale /\ heal'.timer = b
      BY <1>2, <3>2, <3>4
    <3>6. heal.running /\ ~ heal.timer
      BY <2>2, <1>2 DEF HealEnds, RuntimeInv, HealOneAtATime
    <3>7. ChurnIsRepaired'
      BY <1>1, <3>3, <3>5, <3>6 DEF RuntimeInv, ChurnIsRepaired, Active
    <3> QED
      BY <3>5, <3>7 DEF HealOneAtATime
  <2> QED
    BY <2>1, <2>2
<1>4. RuntimeTypeOK'
  BY <1>1, <1>3 DEF RuntimeInv, RuntimeTypeOK
<1>5. OwnIsCurrent' /\ AckedHold' /\ PlacedNearest' /\ DownIsQuiet'
  BY <1>1, <1>3 DEF RuntimeInv, OwnIsCurrent, AckedHold, PlacedNearest, DownIsQuiet, Active
<1>6. NothingNewer'
  BY <1>1 DEF RuntimeInv, NothingNewer, Made
<1> QED
  BY <1>3, <1>4, <1>5, <1>6 DEF RuntimeInv

LEMMA CloseKeeps == ASSUME RuntimeAssumption, RuntimeInv, Close \/ Closed PROVE RuntimeInv'
<1>1. /\ phase # "down" /\ phase' \in {"closing", "closed"} /\ ~ Active'
      /\ UNCHANGED <<boot, seq, local, closest, placed, acked, publish, dirty, queued, unstaged, held, heard, churn>>
      /\ retry' \in {retry, NoOperation} /\ durable' \in {durable, seq}
      /\ renewal' \in {renewal, "none"} /\ heal' \in {heal, [heal EXCEPT !.timer = FALSE]}
  BY DEF Close, Closed, Active
<1>2. OwnIsCurrent' /\ NothingNewer' /\ AckedHold' /\ PlacedNearest' /\ DownIsQuiet' /\ retry' \in Operations
  BY <1>1, QuietStep
<1>3. ChurnIsRepaired' /\ HealOneAtATime'
  BY <1>1 DEF ChurnIsRepaired, HealOneAtATime, RuntimeInv, RuntimeTypeOK
<1>4. RuntimeTypeOK'
  <2>1. heal' \in [timer : BOOLEAN, running : BOOLEAN, dirty : BOOLEAN, attempts : 0..2, stale : BOOLEAN]
    BY <1>1 DEF RuntimeInv, RuntimeTypeOK
  <2>2. phase' \in {"down", "persisting", "publishing", "up", "closing", "closed"}
        /\ renewal' \in {"none", "timer", "persisting", "publishing"}
    BY <1>1 DEF RuntimeInv, RuntimeTypeOK
  <2> QED
    BY <1>1, <1>2, <2>1, <2>2 DEF RuntimeInv, RuntimeTypeOK
<1> QED
  BY <1>2, <1>3, <1>4 DEF RuntimeInv

LEMMA RestartNodeKeeps == ASSUME RuntimeAssumption, RuntimeInv, RestartNode PROVE RuntimeInv'
<1> USE DEF RestartNode
<1>1. boot' \in 1..MaxTurns /\ seq' \in 0..MaxSequence
  BY DEF RuntimeInv, RuntimeTypeOK, RuntimeAssumption
<1>2. /\ placed' \in [rec : OwnRecords, targets : SUBSET Peers]
      /\ acked' \in [rec : OwnRecords, nodes : SUBSET Peers]
      /\ queued' \in [on : BOOLEAN, rec : OwnRecords, changed : BOOLEAN]
      /\ publish' \in [Publishers -> Operations]
  BY NoOperationTyped DEF NoPlacement
<1>3. heal' \in [timer : BOOLEAN, running : BOOLEAN, dirty : BOOLEAN, attempts : 0..2, stale : BOOLEAN]
  BY DEF NoHeal
<1>4. RuntimeTypeOK'
  BY <1>1, <1>2, <1>3, NoOperationTyped DEF RuntimeInv, RuntimeTypeOK
<1>5. OwnIsCurrent' /\ NothingNewer' /\ AckedHold' /\ PlacedNearest'
  BY DEF OwnIsCurrent, NothingNewer, AckedHold, PlacedNearest, Active
<1>6. HealOneAtATime' /\ ChurnIsRepaired' /\ DownIsQuiet'
  BY DEF HealOneAtATime, ChurnIsRepaired, DownIsQuiet, Active, NoHeal
<1> QED
  BY <1>4, <1>5, <1>6 DEF RuntimeInv

LEMMA PingKeeps == ASSUME RuntimeAssumption, RuntimeInv, NEW p \in Peers, PeerPings(p) PROVE RuntimeInv'
<1>1. /\ UNCHANGED <<phase, boot, seq, durable, local, closest, placed, acked, publish, dirty,
                     queued, retry, renewal, unstaged, heal, churn>>
      /\ held' = [held EXCEPT ![p] = local] /\ heard' = heard \cup {local}
  BY DEF PeerPings
<1>2. RuntimeTypeOK'
  BY <1>1 DEF RuntimeInv, RuntimeTypeOK
<1>3. AckedHold'
  BY <1>1 DEF RuntimeInv, RuntimeTypeOK, AckedHold
<1>4. OwnIsCurrent' /\ PlacedNearest' /\ DownIsQuiet' /\ HealOneAtATime' /\ ChurnIsRepaired'
  BY <1>1 DEF RuntimeInv, OwnIsCurrent, PlacedNearest, DownIsQuiet, Active, HealOneAtATime, ChurnIsRepaired
<1>5. NothingNewer'
  BY <1>1 DEF RuntimeInv, NothingNewer, Made
<1> QED
  BY <1>2, <1>3, <1>4, <1>5 DEF RuntimeInv

LEMMA RetryFiresKeeps == ASSUME RuntimeAssumption, RuntimeInv, RetryFires PROVE RuntimeInv'
<1>1. /\ UNCHANGED <<phase, boot, seq, durable, local, closest, placed, acked, dirty, queued,
                     renewal, unstaged, heal, held, heard, churn>>
      /\ retry # NoOperation /\ retry' = NoOperation
  BY DEF RetryFires
<1>2. retry \in Operations /\ retry.to # {} /\ Made(retry.rec) /\ phase # "down"
  BY <1>1 DEF RuntimeInv, RuntimeTypeOK, NothingNewer, DownIsQuiet
<1>3. publish \in [Publishers -> Operations] /\ "retry" \in Publishers
  BY DEF RuntimeInv, RuntimeTypeOK, Publishers
<1>4. publish' \in {publish, [publish EXCEPT !["retry"] = retry]}
  <2>1. retry = [rec |-> retry.rec, to |-> retry.to, all |-> retry.all, attempt |-> retry.attempt]
    BY <1>2 DEF Operations
  <2> QED
    BY <1>2, <2>1 DEF RetryFires, Announce
<1>5. publish' \in [Publishers -> Operations]
      /\ \A o \in Publishers : publish'[o] # NoOperation => publish'[o].to # {} /\ Made(publish'[o].rec)
  BY <1>2, <1>3, <1>4 DEF RuntimeInv, NothingNewer
<1>6. RuntimeTypeOK'
  BY <1>1, <1>5, NoOperationTyped DEF RuntimeInv, RuntimeTypeOK
<1>7. NothingNewer'
  BY <1>1, <1>5 DEF RuntimeInv, NothingNewer, Made
<1>8. OwnIsCurrent' /\ AckedHold' /\ PlacedNearest' /\ DownIsQuiet' /\ HealOneAtATime' /\ ChurnIsRepaired'
  BY <1>1, <1>2 DEF RuntimeInv, OwnIsCurrent, AckedHold, PlacedNearest, DownIsQuiet, Active, HealOneAtATime, ChurnIsRepaired
<1> QED
  BY <1>6, <1>7, <1>8 DEF RuntimeInv

\* A change of the peers schedules a repair.
LEMMA ScheduledHeal ==
    ASSUME RuntimeInv, heal' = [ScheduleHeal(heal) EXCEPT !.stale = Active], Active' = Active
    PROVE  /\ heal' \in [timer : BOOLEAN, running : BOOLEAN, dirty : BOOLEAN, attempts : 0..2, stale : BOOLEAN]
           /\ HealOneAtATime' /\ ChurnIsRepaired' /\ (~ Active => ~ heal'.stale)
<1> DEFINE H == [timer : BOOLEAN, running : BOOLEAN, dirty : BOOLEAN, attempts : 0..2, stale : BOOLEAN]
           g == ScheduleHeal(heal)
<1>1. heal \in H /\ ~ (heal.running /\ heal.timer)
  BY DEF RuntimeInv, RuntimeTypeOK, HealOneAtATime
<1>2. g \in H /\ ~ (g.running /\ g.timer) /\ (Active => g.timer \/ (g.running /\ g.dirty))
  BY <1>1 DEF ScheduleHeal
<1>3. Active \in BOOLEAN
  BY DEF Active
<1>4. /\ heal' \in H /\ heal'.timer = g.timer /\ heal'.running = g.running
      /\ heal'.dirty = g.dirty /\ heal'.stale = Active
  <2> HIDE DEF g
  <2>1. heal' = [g EXCEPT !.stale = Active]
    BY DEF g
  <2> QED
    BY <1>2, <1>3, <2>1
<1> QED
  BY <1>2, <1>4 DEF HealOneAtATime, ChurnIsRepaired

LEMMA RecordAcceptedKeeps == ASSUME RuntimeAssumption, RuntimeInv, RecordAccepted PROVE RuntimeInv'
<1>1. /\ UNCHANGED <<phase, boot, seq, durable, local, publish, dirty, retry, renewal, held, heard>>
      /\ heal' = [ScheduleHeal(heal) EXCEPT !.stale = Active]
  BY DEF RecordAccepted
<1>2. PICK near \in SUBSET Peers : closest' = near /\ Stage(near)
  BY DEF RecordAccepted
<1>3. churn' \in 0..MaxTurns
  BY DEF RecordAccepted, RuntimeInv, RuntimeTypeOK, RuntimeAssumption
<1>4. /\ heal' \in [timer : BOOLEAN, running : BOOLEAN, dirty : BOOLEAN, attempts : 0..2, stale : BOOLEAN]
      /\ HealOneAtATime' /\ ChurnIsRepaired' /\ (~ Active => ~ heal'.stale)
  BY <1>1, ScheduledHeal DEF Active
<1>5. CASE ~ Active \/ local = NoOwnRecord
  <2>1. UNCHANGED <<placed, acked, queued, unstaged>>
    BY <1>2, <1>5 DEF Stage
  <2>2. ~ Active
    <3>1. Active => local # NoOwnRecord
      BY OwnRecordMade DEF Active
    <3> QED
      BY <1>5, <3>1
  <2>3. RuntimeTypeOK'
    BY <1>1, <1>2, <1>3, <1>4, <2>1 DEF RuntimeInv, RuntimeTypeOK
  <2>4. NothingNewer'
    BY <1>1, <2>1 DEF RuntimeInv, NothingNewer, Made
  <2>5. OwnIsCurrent' /\ AckedHold' /\ PlacedNearest' /\ DownIsQuiet'
    BY <1>1, <1>4, <2>1, <2>2 DEF RuntimeInv, OwnIsCurrent, AckedHold, PlacedNearest, DownIsQuiet, Active
  <2> QED
    BY <1>4, <2>3, <2>4, <2>5 DEF RuntimeInv
<1>6. CASE Active /\ local # NoOwnRecord
  <2>1. phase # "down"
    BY <1>6 DEF Active
  <2>2. local \in OwnRecords /\ Made(local) /\ local = [seq |-> seq, boot |-> boot]
    BY <2>1, OwnRecordMade
  <2>3. acked \in [rec : OwnRecords, nodes : SUBSET Peers] /\ placed \in [rec : OwnRecords, targets : SUBSET Peers]
    BY DEF RuntimeInv, RuntimeTypeOK
  <2>4. AckedFor(local) \subseteq Peers /\ \A p \in AckedFor(local) : held[p] = local
    BY <1>6, <2>3 DEF AckedFor, RuntimeInv, AckedHold
  <2>5. \/ placed' = [rec |-> local, targets |-> near] /\ acked' = [rec |-> local, nodes |-> AckedFor(local)]
        \/ placed' = placed /\ acked' = acked /\ placed.rec = local /\ placed.targets = near
    BY <1>2, <1>6 DEF Stage, Reset
  <2>13. unstaged' = FALSE
    BY <1>2, <1>6 DEF Stage
  <2>6. queued' \in [on : BOOLEAN, rec : OwnRecords, changed : BOOLEAN]
    <3>1. queued' = queued \/ \E c \in BOOLEAN : queued' = [on |-> TRUE, rec |-> local, changed |-> c]
      BY <1>2, <1>6 DEF Stage
    <3>2. queued \in [on : BOOLEAN, rec : OwnRecords, changed : BOOLEAN]
      BY DEF RuntimeInv, RuntimeTypeOK
    <3>3. \A c \in BOOLEAN : [on |-> TRUE, rec |-> local, changed |-> c]
                               \in [on : BOOLEAN, rec : OwnRecords, changed : BOOLEAN]
      BY <2>2
    <3> QED
      BY <3>1, <3>2, <3>3
  <2>7. placed'.targets = near
    BY <2>5
  <2>8. placed' \in [rec : OwnRecords, targets : SUBSET Peers] /\ acked' \in [rec : OwnRecords, nodes : SUBSET Peers]
    BY <1>2, <2>2, <2>3, <2>4, <2>5
  <2>9. RuntimeTypeOK'
    BY <1>1, <1>2, <1>3, <1>4, <2>6, <2>8, <2>13 DEF RuntimeInv, RuntimeTypeOK
  <2>10. (acked'.rec # NoOwnRecord => Made(acked'.rec)) /\ (acked'.rec = local => \A p \in acked'.nodes : held[p] = local)
    BY <1>6, <2>2, <2>4, <2>5 DEF RuntimeInv, NothingNewer, AckedHold
  <2>11. NothingNewer'
    BY <1>1, <2>10 DEF RuntimeInv, NothingNewer, Made
  <2>12. OwnIsCurrent' /\ AckedHold' /\ PlacedNearest' /\ DownIsQuiet'
    BY <1>1, <1>2, <2>1, <2>7, <2>10 DEF RuntimeInv, OwnIsCurrent, AckedHold, PlacedNearest, DownIsQuiet
  <2> QED
    BY <1>4, <2>9, <2>11, <2>12 DEF RuntimeInv
<1> QED
  BY <1>5, <1>6

\* A step that changes the closest peers without staging them.
LEMMA TableKeeps == ASSUME RuntimeAssumption, RuntimeInv, PeersSwept \/ PeerSeenAgain PROVE RuntimeInv'
<1>1. /\ UNCHANGED <<phase, boot, seq, durable, local, placed, acked, publish, dirty, queued, retry,
                     renewal, held, heard>>
      /\ closest' \subseteq Peers /\ unstaged' = TRUE
      /\ heal' \in {heal, [ScheduleHeal(heal) EXCEPT !.stale = Active]}
  BY DEF PeersSwept, PeerSeenAgain
<1>2. churn' \in 0..MaxTurns
  BY DEF PeersSwept, PeerSeenAgain, RuntimeInv, RuntimeTypeOK, RuntimeAssumption
<1>3. heal' = heal \/ heal' = [ScheduleHeal(heal) EXCEPT !.stale = Active]
  BY <1>1
<1>4. /\ heal' \in [timer : BOOLEAN, running : BOOLEAN, dirty : BOOLEAN, attempts : 0..2, stale : BOOLEAN]
      /\ HealOneAtATime' /\ ChurnIsRepaired' /\ (phase = "down" => ~ heal'.stale)
  <2>1. CASE heal' = heal
    <3>1. phase = "down" => ~ heal.stale
      BY DEF RuntimeInv, DownIsQuiet
    <3> QED
      BY <1>1, <2>1, <3>1 DEF RuntimeInv, RuntimeTypeOK, HealOneAtATime, ChurnIsRepaired, Active
  <2>2. CASE heal' = [ScheduleHeal(heal) EXCEPT !.stale = Active]
    BY <1>1, <2>2, ScheduledHeal DEF Active
  <2> QED
    BY <1>3, <2>1, <2>2
<1>5. RuntimeTypeOK'
  BY <1>1, <1>2, <1>4 DEF RuntimeInv, RuntimeTypeOK
<1>6. NothingNewer'
  BY <1>1 DEF RuntimeInv, NothingNewer, Made
<1>7. OwnIsCurrent' /\ AckedHold' /\ PlacedNearest' /\ DownIsQuiet'
  BY <1>1, <1>4 DEF RuntimeInv, OwnIsCurrent, AckedHold, PlacedNearest, DownIsQuiet
<1> QED
  BY <1>4, <1>5, <1>6, <1>7 DEF RuntimeInv

LEMMA CallerKeeps == ASSUME RuntimeAssumption, RuntimeInv, CallerAnnounces PROVE RuntimeInv'
<1>1. /\ UNCHANGED <<phase, boot, seq, durable, local, closest, dirty, queued, retry, renewal, heal,
                     held, heard>>
      /\ phase # "down" /\ publish["caller"] = NoOperation
  BY DEF CallerAnnounces, Started
<1>2. churn' \in 0..MaxTurns
  BY DEF CallerAnnounces, RuntimeInv, RuntimeTypeOK, RuntimeAssumption
<1>3. HealOneAtATime' /\ ChurnIsRepaired'
  BY <1>1 DEF RuntimeInv, HealOneAtATime, ChurnIsRepaired, Active
<1>4. /\ publish \in [Publishers -> Operations] /\ closest \subseteq Peers /\ "caller" \in Publishers
      /\ \A q \in Publishers : publish[q] # NoOperation => publish[q].to # {} /\ Made(publish[q].rec)
  BY DEF RuntimeInv, RuntimeTypeOK, NothingNewer, Publishers
<1>5. local \in OwnRecords /\ Made(local)
  BY <1>1, OwnRecordMade
<1>6. CASE closest = {}
  <2>1. publish' = publish
    BY <1>1, <1>4, <1>6 DEF CallerAnnounces, Announce
  <2>2. Reset(local, {}) /\ unstaged' = TRUE /\ {} \in SUBSET Peers /\ retry' = retry /\ phase' # "down"
    BY <1>1, <1>6 DEF CallerAnnounces
  <2>3. /\ placed' \in [rec : OwnRecords, targets : SUBSET Peers]
        /\ acked' \in [rec : OwnRecords, nodes : SUBSET Peers]
        /\ OwnIsCurrent' /\ NothingNewer' /\ AckedHold' /\ DownIsQuiet'
    BY <1>1, <2>1, <2>2, ResetKeeps
  <2>4. RuntimeTypeOK' /\ PlacedNearest'
    BY <1>1, <1>2, <2>1, <2>2, <2>3 DEF RuntimeInv, RuntimeTypeOK, PlacedNearest
  <2> QED
    BY <1>3, <2>3, <2>4 DEF RuntimeInv
<1>7. CASE closest # {}
  <2> DEFINE op == [rec |-> local, to |-> closest, all |-> closest, attempt |-> 0]
  <2>1. op \in Operations /\ op.to = closest /\ op.rec = local
    BY <1>4, <1>5 DEF Operations
  <2>2. publish' = [publish EXCEPT !["caller"] = op]
    BY <1>7 DEF CallerAnnounces, Announce
  <2>3. UNCHANGED <<placed, acked, unstaged>>
    BY <1>7 DEF CallerAnnounces
  <2>4. /\ publish' \in [Publishers -> Operations]
        /\ \A q \in Publishers : publish'[q] # NoOperation => publish'[q].to # {} /\ Made(publish'[q].rec)
    <3> HIDE DEF op
    <3> QED
      BY <1>4, <1>5, <1>7, <2>1, <2>2
  <2>5. RuntimeTypeOK'
    BY <1>1, <1>2, <2>3, <2>4 DEF RuntimeInv, RuntimeTypeOK
  <2>6. NothingNewer'
    BY <1>1, <2>3, <2>4 DEF RuntimeInv, NothingNewer, Made
  <2>7. OwnIsCurrent' /\ AckedHold' /\ PlacedNearest' /\ DownIsQuiet'
    BY <1>1, <2>3 DEF RuntimeInv, OwnIsCurrent, AckedHold, PlacedNearest, DownIsQuiet, Active
  <2> QED
    BY <1>3, <2>5, <2>6, <2>7 DEF RuntimeInv
<1> QED
  BY <1>6, <1>7

LEMMA PropagateKeeps == ASSUME RuntimeAssumption, RuntimeInv, Propagate PROVE RuntimeInv'
<1>1. UNCHANGED <<phase, boot, seq, durable, local, closest, renewal, heal, held, heard, churn>>
  BY DEF Propagate
<1>2. queued' \in [on : BOOLEAN, rec : OwnRecords, changed : BOOLEAN]
  BY NoOperationTyped DEF Propagate
<1>3. HealOneAtATime' /\ ChurnIsRepaired'
  BY <1>1 DEF RuntimeInv, HealOneAtATime, ChurnIsRepaired, Active
<1>4. CASE Active /\ Publish("worker") /\ UNCHANGED dirty
  <2>1. "worker" \in Publishers /\ phase # "down"
    BY <1>4 DEF Publishers, Active
  <2>2. OwnIsCurrent' /\ NothingNewer' /\ AckedHold' /\ PlacedNearest' /\ DownIsQuiet'
    BY <1>1, <1>4, <2>1, PublishKeeps
  <2>3. /\ placed' = [rec |-> local, targets |-> closest]
        /\ acked' = [rec |-> local, nodes |-> AckedFor(local)] /\ AckedFor(local) \subseteq Peers
        /\ publish' \in [Publishers -> Operations] /\ retry' \in {retry, NoOperation} /\ unstaged' = FALSE
    BY <1>4, <2>1, PublishEffects
  <2>4. retry' \in Operations
    BY <2>3, NoOperationTyped DEF RuntimeInv, RuntimeTypeOK
  <2>5. RuntimeTypeOK'
    BY <1>1, <1>2, <1>4, <2>3, <2>4 DEF RuntimeInv, RuntimeTypeOK
  <2> QED
    BY <1>3, <2>2, <2>5 DEF RuntimeInv
<1>5. CASE UNCHANGED <<placed, acked, publish, retry, unstaged>> /\ dirty' \in BOOLEAN
  <2>1. RuntimeTypeOK'
    BY <1>1, <1>2, <1>5 DEF RuntimeInv, RuntimeTypeOK
  <2>2. OwnIsCurrent' /\ AckedHold' /\ PlacedNearest' /\ DownIsQuiet'
    BY <1>1, <1>5 DEF RuntimeInv, OwnIsCurrent, AckedHold, PlacedNearest, DownIsQuiet, Active
  <2>3. NothingNewer'
    BY <1>1, <1>5 DEF RuntimeInv, NothingNewer, Made
  <2> QED
    BY <1>3, <2>1, <2>2, <2>3 DEF RuntimeInv
<1>6. dirty \in BOOLEAN
  BY DEF RuntimeInv, RuntimeTypeOK
<1> QED
  BY <1>4, <1>5, <1>6 DEF Propagate

LEMMA AnnouncementKeeps ==
    ASSUME RuntimeAssumption, RuntimeInv, NEW o \in Publishers, AnnouncementSettles(o)
    PROVE  RuntimeInv'
<1>1. PICK failed \in SUBSET publish[o].to :
        /\ publish[o] # NoOperation
        /\ Settle(o, failed)
        /\ IF o = "worker" /\ dirty /\ Active /\ local = publish[o].rec
           THEN LET to == closest \ acked'.nodes
                IN /\ placed' = [rec |-> local, targets |-> closest]
                   /\ Announce(o, local, to, closest, 0)
                   /\ dirty' = FALSE /\ unstaged' = FALSE
           ELSE /\ publish' = [publish EXCEPT ![o] = NoOperation]
                /\ dirty' = IF o = "worker" THEN FALSE ELSE dirty
                /\ IF o = "caller" /\ local = publish[o].rec
                   THEN placed' = [rec |-> local, targets |-> publish[o].all] /\ unstaged' = TRUE
                   ELSE UNCHANGED <<placed, unstaged>>
  BY DEF AnnouncementSettles
<1>2. /\ held' \in [Peers -> OwnRecords] /\ heard' \subseteq OwnRecords
      /\ acked' \in [rec : OwnRecords, nodes : SUBSET Peers]
      /\ acked' = acked \/ acked'.rec = local
      /\ acked'.rec = local => \A p \in acked'.nodes : held'[p] = local
      /\ retry' \in Operations
      /\ retry' # NoOperation => retry'.to # {} /\ Made(retry'.rec)
  BY <1>1, SettleEffects
<1>3. /\ UNCHANGED <<boot, seq, durable, local, closest, queued, churn>>
      /\ phase' = IF o = "direct" /\ phase = "publishing" THEN "up" ELSE phase
      /\ renewal' \in {renewal, "none", "timer"}
      /\ heal' = heal \/ (~ heal.running /\ heal' = [heal EXCEPT !.timer = TRUE])
  BY DEF AnnouncementSettles
<1>4. phase # "down"
  BY <1>1 DEF RuntimeInv, DownIsQuiet
<1>5. /\ local = [seq |-> seq, boot |-> boot] /\ local \in OwnRecords
      /\ local # NoOwnRecord /\ Made(local)
  BY <1>4, OwnRecordMade
<1>6. phase' # "down" /\ (Active' => Active)
      /\ phase' \in {"down", "persisting", "publishing", "up", "closing", "closed"}
  BY <1>3, <1>4 DEF Active, RuntimeInv, RuntimeTypeOK
<1>7. /\ publish \in [Publishers -> Operations] /\ closest \subseteq Peers
      /\ \A q \in Publishers : publish[q] # NoOperation => publish[q].to # {} /\ Made(publish[q].rec)
  BY DEF RuntimeInv, RuntimeTypeOK, NothingNewer
<1>8. /\ publish' \in [Publishers -> Operations]
      /\ \A q \in Publishers : publish'[q] # NoOperation => publish'[q].to # {} /\ Made(publish'[q].rec)
  <2> DEFINE to == closest \ acked'.nodes
             op == [rec |-> local, to |-> to, all |-> closest, attempt |-> 0]
  <2>1. op \in Operations /\ op.to = to /\ op.rec = local
    BY <1>5, <1>7 DEF Operations
  <2>2. \/ publish' = [publish EXCEPT ![o] = NoOperation]
        \/ to # {} /\ publish' = [publish EXCEPT ![o] = op]
    BY <1>1 DEF Announce
  <2> HIDE DEF op, to
  <2> QED
    BY <1>5, <1>7, <2>1, <2>2, NoOperationTyped
<1>9. /\ placed' \in [rec : OwnRecords, targets : SUBSET Peers]
      /\ \/ placed' = placed /\ unstaged' = unstaged
         \/ placed' = [rec |-> local, targets |-> closest] /\ unstaged' = FALSE
         \/ unstaged' = TRUE
  <2>1. placed \in [rec : OwnRecords, targets : SUBSET Peers]
    BY DEF RuntimeInv, RuntimeTypeOK
  <2>2. \/ placed' = placed /\ unstaged' = unstaged
        \/ placed' = [rec |-> local, targets |-> closest] /\ unstaged' = FALSE
        \/ placed' = [rec |-> local, targets |-> publish[o].all] /\ unstaged' = TRUE
    BY <1>1
  <2>3. \A to \in SUBSET Peers :
          [rec |-> local, targets |-> to] \in [rec : OwnRecords, targets : SUBSET Peers]
    BY <1>5
  <2>4. closest \in SUBSET Peers /\ publish[o].all \in SUBSET Peers
    BY <1>7 DEF Operations
  <2> QED
    BY <2>1, <2>2, <2>3, <2>4
<1>10. dirty' \in BOOLEAN /\ unstaged' \in BOOLEAN
  BY <1>1 DEF RuntimeInv, RuntimeTypeOK
<1>11. heal' \in [timer : BOOLEAN, running : BOOLEAN, dirty : BOOLEAN, attempts : 0..2, stale : BOOLEAN]
       /\ HealOneAtATime' /\ ChurnIsRepaired'
  <2> DEFINE H == [timer : BOOLEAN, running : BOOLEAN, dirty : BOOLEAN, attempts : 0..2, stale : BOOLEAN]
  <2>1. heal \in H
    BY DEF RuntimeInv, RuntimeTypeOK
  <2>2. CASE heal' = heal
    BY <1>6, <2>1, <2>2 DEF RuntimeInv, HealOneAtATime, ChurnIsRepaired
  <2>3. CASE ~ heal.running /\ heal' = [heal EXCEPT !.timer = TRUE]
    <3>1. heal' \in H /\ heal'.timer = TRUE /\ heal'.running = heal.running
      BY <2>1, <2>3
    <3> QED
      BY <2>3, <3>1 DEF HealOneAtATime, ChurnIsRepaired
  <2> QED
    BY <1>3, <2>2, <2>3
<1>12. renewal' \in {"none", "timer", "persisting", "publishing"}
  BY <1>3 DEF RuntimeInv, RuntimeTypeOK
<1>13. RuntimeTypeOK'
  BY <1>2, <1>3, <1>6, <1>8, <1>9, <1>10, <1>11, <1>12 DEF RuntimeInv, RuntimeTypeOK
<1>14. acked'.rec # NoOwnRecord => Made(acked'.rec)
  BY <1>2, <1>5 DEF RuntimeInv, NothingNewer
<1>15. NothingNewer'
  BY <1>2, <1>3, <1>8, <1>14 DEF NothingNewer, Made
<1>16. OwnIsCurrent' /\ AckedHold' /\ DownIsQuiet'
  BY <1>2, <1>3, <1>5, <1>6 DEF OwnIsCurrent, AckedHold, DownIsQuiet
<1>17. PlacedNearest'
  BY <1>3, <1>5, <1>6, <1>9 DEF RuntimeInv, PlacedNearest
<1> QED
  BY <1>11, <1>13, <1>15, <1>16, <1>17 DEF RuntimeInv

LEMMA RuntimeStutter == RuntimeInv /\ UNCHANGED runtimeVars => RuntimeInv'
<1> SUFFICES ASSUME RuntimeInv, UNCHANGED runtimeVars PROVE RuntimeInv'
  OBVIOUS
<1>1. RuntimeTypeOK' /\ OwnIsCurrent' /\ AckedHold' /\ PlacedNearest' /\ DownIsQuiet'
  BY DEF runtimeVars, RuntimeInv, RuntimeTypeOK, OwnIsCurrent, AckedHold, PlacedNearest, DownIsQuiet, Active
<1>2. HealOneAtATime' /\ ChurnIsRepaired'
  BY DEF runtimeVars, RuntimeInv, HealOneAtATime, ChurnIsRepaired, Active
<1>3. NothingNewer'
  BY DEF runtimeVars, RuntimeInv, NothingNewer, Made
<1> QED
  BY <1>1, <1>2, <1>3 DEF RuntimeInv

LEMMA RuntimeInvNext ==
    ASSUME RuntimeAssumption, RuntimeInv, [RuntimeNext]_runtimeVars PROVE RuntimeInv'
BY StartKeeps, StartPersistedKeeps, RenewKeeps, RenewPersistedKeeps, RecordAcceptedKeeps,
   TableKeeps, CallerKeeps,
   PropagateKeeps, RetryFiresKeeps, HealKeeps, CloseKeeps, RestartNodeKeeps, AnnouncementKeeps,
   PingKeeps, RuntimeStutter DEF RuntimeNext

LEMMA RuntimeInvMeans ==
    RuntimeInv => RuntimeTypeOK /\ ReadyMeansPlaced /\ ReadyFollowsChurn /\ ChurnIsRepaired
<1> SUFFICES ASSUME RuntimeInv PROVE ReadyMeansPlaced /\ ReadyFollowsChurn
  BY DEF RuntimeInv
<1>1. Ready => acked.rec = local \/ placed.targets = {}
  BY DEF Ready, AckedFor
<1>2. ReadyMeansPlaced
  BY <1>1 DEF RuntimeInv, ReadyMeansPlaced, AckedHold, Ready, AckedFor
<1>3. ReadyFollowsChurn
  BY DEF RuntimeInv, ReadyFollowsChurn, PlacedNearest, Ready
<1> QED
  BY <1>2, <1>3

-----------------------------------------------------------------------------
(* The A2A client: proofs, for every set of calls, cards, tasks and limits. *)

ExecutionRecords ==
    [pc : {"idle", "discovered", "polling", "verifying", "output", "error"},
     card : Cards \cup {0}, sentTo : Cards \cup {0}, sends : 0..1,
     id : TaskIds \cup {"none"}, mine : TaskIds \cup {"none"},
     context : Contexts \cup {"none"}, state : States, polls : 0..MaxPolls, output : Parts \cup {<<>>}]

StreamRecords ==
    [pc : {"idle", "open", "error", "ended"}, asked : TaskIds \cup {"none"},
     task : TaskIds \cup {"none"}, context : Contexts \cup {"none"}, yielded : SUBSET TaskIds]

\* What one execution knows, and what one stream does.
ExecutionFits(x) ==
    /\ x \in ExecutionRecords
    /\ x.id = x.mine
    /\ x.pc \in {"idle", "discovered"} => x.sends = 0
    /\ x.pc \in {"polling", "verifying", "output"} => x.sends = 1
    /\ x.pc = "output" => x.state = "completed" /\ Spent(x.output, Len(x.output)) <= MaxBytes

StreamFits(x) ==
    /\ x \in StreamRecords
    /\ x.yielded \subseteq {x.task} \ {"none"}
    /\ x.asked # "none" => x.task = x.asked
    /\ x.pc = "idle" => x.task = "none"

LEMMA ClientInvSplit ==
    ClientInv <=> /\ discovery \in Cards \cup {0}
                  /\ fetch \in [Discoveries -> Cards \cup {0}]
                  /\ exec \in [AgentCalls -> ExecutionRecords]
                  /\ stream \in [Streams -> StreamRecords]
                  /\ \A e \in AgentCalls : ExecutionFits(exec[e])
                  /\ \A s \in Streams : StreamFits(stream[s])
BY DEF ClientInv, ClientTypeOK, CallsSent, StreamsCorrelated, ExecutionFits, StreamFits,
       ExecutionRecords, StreamRecords

\* A step of one execution, and a step of one stream.
LEMMA ExecutionSteps ==
    ASSUME ClientInv, NEW e \in AgentCalls, NEW x, ExecutionFits(x),
           exec' = [exec EXCEPT ![e] = x], UNCHANGED <<discovery, fetch, stream>>
    PROVE  ClientInv'
<1>1. x \in ExecutionRecords
  BY DEF ExecutionFits
<1>2. exec \in [AgentCalls -> ExecutionRecords]
  BY ClientInvSplit
<1>3. exec' \in [AgentCalls -> ExecutionRecords]
  BY <1>1, <1>2
<1>4. \A f \in AgentCalls : exec'[f] = IF f = e THEN x ELSE exec[f]
  BY <1>2
<1>5. \A f \in AgentCalls : exec'[f].id = exec'[f].mine
  BY <1>4 DEF ExecutionFits, ClientInv, CallsSent
<1>6. CallsSent'
  BY <1>4 DEF ExecutionFits, ClientInv, CallsSent
<1>7. ClientTypeOK'
  BY <1>3 DEF ClientInv, ClientTypeOK, ExecutionRecords
<1>8. StreamsCorrelated'
  BY DEF ClientInv, StreamsCorrelated
<1> QED
  BY <1>6, <1>7, <1>8 DEF ClientInv

LEMMA StreamSteps ==
    ASSUME ClientInv, NEW s \in Streams, NEW x, StreamFits(x),
           stream' = [stream EXCEPT ![s] = x], UNCHANGED <<discovery, fetch, exec>>
    PROVE  ClientInv'
<1>1. x \in StreamRecords
  BY DEF StreamFits
<1>2. stream \in [Streams -> StreamRecords]
  BY ClientInvSplit
<1>3. stream' \in [Streams -> StreamRecords]
  BY <1>1, <1>2
<1>4. \A t \in Streams : stream'[t] = IF t = s THEN x ELSE stream[t]
  BY <1>2
<1>5. StreamsCorrelated'
  BY <1>4 DEF StreamFits, ClientInv, StreamsCorrelated
<1>6. ClientTypeOK'
  BY <1>3 DEF ClientInv, ClientTypeOK, StreamRecords
<1>7. CallsSent'
  BY DEF ClientInv, CallsSent
<1> QED
  BY <1>5, <1>6, <1>7 DEF ClientInv

LEMMA CardSteps ==
    ASSUME ClientInv, NEW d \in Discoveries,
           Discovered(d) \/ \E card \in Cards : FetchCard(d, card)
    PROVE  ClientInv'
<1>1. CallsSent' /\ StreamsCorrelated'
  BY DEF ClientInv, CallsSent, StreamsCorrelated, Discovered, FetchCard
<1>2. ClientTypeOK'
  BY DEF ClientInv, ClientTypeOK, Discovered, FetchCard
<1> QED
  BY <1>1, <1>2 DEF ClientInv

LEMMA ExecuteKeeps == ASSUME ClientInv, NEW e \in AgentCalls, Execute(e) PROVE ClientInv'
<1> DEFINE x == [exec[e] EXCEPT !.pc = "discovered", !.card = discovery]
<1>1. ExecutionFits(exec[e]) /\ exec[e] \in ExecutionRecords
  BY ClientInvSplit
<1>2. exec' = [exec EXCEPT ![e] = x]
  BY DEF Execute
<1>3. discovery \in Cards \cup {0}
  BY ClientInvSplit
<1>4. exec[e].pc = "idle"
  BY DEF Execute
<1>5. ExecutionFits(x)
  BY ZenonT(60), <1>1, <1>3, <1>4 DEF ExecutionFits, ExecutionRecords
<1> QED
  BY <1>2, <1>5, ExecutionSteps DEF Execute

LEMMA SendKeeps ==
    ASSUME ClientAssumption, ClientInv, NEW e \in AgentCalls, SendMessage(e) \/ MessageAnswered(e)
    PROVE  ClientInv'
<1>1. ExecutionFits(exec[e]) /\ exec[e].card \in Cards \cup {0} /\ discovery \in Cards \cup {0}
  BY ClientInvSplit DEF ExecutionRecords
<1>2. exec[e].pc = "discovered"
  BY DEF SendMessage, MessageAnswered
<1>3. exec[e].sends + 1 = 1 /\ 0 \in 0..MaxPolls
  BY <1>1, <1>2 DEF ExecutionFits, ClientAssumption
<1>4. \A pc \in {"verifying", "polling", "error"}, id \in TaskIds \cup {"none"},
         context \in Contexts \cup {"none"}, state \in States :
        ExecutionFits(Sent(e, pc, id, context, state))
  BY <1>1, <1>3 DEF ExecutionFits, ExecutionRecords, Sent
<1>5. PICK pc \in {"verifying", "polling", "error"}, id \in TaskIds \cup {"none"},
           context \in Contexts \cup {"none"}, state \in States :
        exec' = [exec EXCEPT ![e] = Sent(e, pc, id, context, state)]
  <2>1. "submitted" \in States /\ "completed" \in States
    BY DEF States
  <2>2. \A a \in Answers : a.id \in TaskIds /\ a.context \in Contexts \cup {"none"} /\ a.state \in States
    BY DEF Answers
  <2>3. ASSUME NEW a \in Answers,
               exec' = [exec EXCEPT ![e] = Sent(e, IF a.state \in SettledStates THEN "verifying" ELSE "polling",
                                                a.id, a.context, a.state)]
        PROVE  \E pc \in {"verifying", "polling", "error"}, id \in TaskIds \cup {"none"},
                  context \in Contexts \cup {"none"}, state \in States :
                 exec' = [exec EXCEPT ![e] = Sent(e, pc, id, context, state)]
    BY <2>2, <2>3
  <2>4. CASE exec' = [exec EXCEPT ![e] = Sent(e, "error", "none", "none", "submitted")]
    BY <2>1, <2>4
  <2>5. CASE exec' = [exec EXCEPT ![e] = Sent(e, "verifying", "none", "none", "completed")]
    BY <2>1, <2>5
  <2> QED
    BY <2>3, <2>4, <2>5 DEF SendMessage, MessageAnswered
<1>6. UNCHANGED <<discovery, fetch, stream>>
  BY DEF SendMessage, MessageAnswered
<1> QED
  BY <1>4, <1>5, <1>6, ExecutionSteps

LEMMA PollKeeps ==
    ASSUME ClientAssumption, ClientInv, NEW e \in AgentCalls,
           PollFails(e) \/ \E a \in Answers : PollTask(e, a)
    PROVE  ClientInv'
<1>1. ExecutionFits(exec[e]) /\ exec[e] \in ExecutionRecords
  BY SMTT(60), ClientInvSplit
<1>2. exec[e].pc = "polling" /\ UNCHANGED <<discovery, fetch, stream>>
  BY DEF PollFails, PollTask
<1>3. CASE PollFails(e)
  <2> DEFINE x == [exec[e] EXCEPT !.pc = "error"]
  <2>1. exec' = [exec EXCEPT ![e] = x]
    BY <1>3 DEF PollFails
  <2>2. ExecutionFits(x)
    BY <1>1 DEF ExecutionFits, ExecutionRecords
  <2> QED
    BY <1>2, <2>1, <2>2, ExecutionSteps
<1>4. ASSUME NEW a \in Answers, PollTask(e, a) PROVE ClientInv'
  <2>1. exec[e].polls + 1 \in 0..MaxPolls
    <3>1. exec[e].polls \in 0..MaxPolls /\ MaxPolls \in Nat
      BY <1>1 DEF ExecutionRecords, ClientAssumption
    <3>2. exec[e].polls < MaxPolls
      BY ZenonT(60), <1>4 DEF PollTask
    <3> QED
      BY SMTT(60), <3>1, <3>2
  <2>2. PICK pc \in {"polling", "verifying", "error"}, state \in States :
          exec' = [exec EXCEPT ![e].polls = @ + 1, ![e].state = state, ![e].pc = pc]
    <3> DEFINE drifted == "none" \notin {exec[e].context, a.context} /\ a.context # exec[e].context
               s == IF a.id = exec[e].id /\ ~ drifted THEN a.state ELSE exec[e].state
               p == IF a.id # exec[e].id \/ drifted THEN "error"
                    ELSE IF a.state \in SettledStates THEN "verifying" ELSE exec[e].pc
    <3>1. s \in States /\ p \in {"polling", "verifying", "error"}
      BY SMTT(60), <1>1, <1>2 DEF Answers, ExecutionRecords
    <3>2. exec' = [exec EXCEPT ![e].polls = @ + 1, ![e].state = s, ![e].pc = p]
      BY <1>4 DEF PollTask
    <3> QED
      BY <3>1, <3>2
  <2> DEFINE x == [exec[e] EXCEPT !.polls = exec[e].polls + 1, !.state = state, !.pc = pc]
  <2>3. exec' = [exec EXCEPT ![e] = x]
    BY <2>2
  <2>4. ExecutionFits(x)
    BY ZenonT(60), <1>1, <1>2, <2>1 DEF ExecutionFits, ExecutionRecords
  <2> QED
    BY <1>2, <2>3, <2>4, ExecutionSteps
<1> QED
  BY <1>3, <1>4

LEMMA VerifiedKeeps ==
    ASSUME ClientAssumption, ClientInv, NEW e \in AgentCalls, NEW parts \in Parts, Verified(e, parts)
    PROVE  ClientInv'
<1> DEFINE ok == exec[e].state = "completed" /\ Verify(parts, exec[e].mine # "none")
           x == [exec[e] EXCEPT !.pc = IF ok THEN "output" ELSE "error",
                                !.output = IF ok THEN parts ELSE <<>>]
<1>1. ExecutionFits(exec[e]) /\ exec[e] \in ExecutionRecords /\ exec[e].pc = "verifying"
  BY ClientInvSplit DEF Verified
<1>2. exec' = [exec EXCEPT ![e] = x] /\ UNCHANGED <<discovery, fetch, stream>>
  BY DEF Verified
<1>4. ok => Spent(parts, Len(parts)) <= MaxBytes
  <2>1. Len(parts) \in Nat /\ (parts # <<>> => Len(parts) # 0)
    BY EmptySeq DEF ClientAssumption
  <2>2. parts # <<>> => Len(parts) \in 1..Len(parts)
    BY <2>1
  <2> QED
    BY <2>2 DEF Verify
<1>5. ExecutionFits(x)
  <2> HIDE DEF ok
  <2>1. x \in ExecutionRecords
    BY ZenonT(60), <1>1 DEF ExecutionRecords
  <2>2. x.pc = (IF ok THEN "output" ELSE "error") /\ x.output = (IF ok THEN parts ELSE <<>>)
    BY <1>1 DEF ExecutionRecords
  <2>3. x.id = exec[e].id /\ x.mine = exec[e].mine /\ x.sends = exec[e].sends
        /\ x.state = exec[e].state
    BY <1>1 DEF ExecutionRecords
  <2>4. ok => x.state = "completed"
    BY <2>3 DEF ok
  <2> QED
    BY <1>1, <1>4, <2>1, <2>2, <2>3, <2>4 DEF ExecutionFits
<1> QED
  BY <1>2, <1>5, ExecutionSteps

LEMMA StreamKeeps ==
    ASSUME ClientAssumption, ClientInv, NEW s \in Streams,
           \/ StreamEnds(s)
           \/ \E id \in TaskIds \cup {"none"} : OpenStream(s, id)
           \/ \E id \in TaskIds \cup {"none"}, c \in Contexts \cup {"none"} : StreamEvent(s, id, c)
    PROVE  ClientInv'
<1>1. StreamFits(stream[s]) /\ stream[s] \in StreamRecords
  BY ClientInvSplit
<1>2. ASSUME NEW id \in TaskIds \cup {"none"}, OpenStream(s, id) PROVE ClientInv'
  <2> DEFINE x == [stream[s] EXCEPT !.pc = "open", !.asked = id, !.task = id]
  <2>1. stream' = [stream EXCEPT ![s] = x] /\ UNCHANGED <<discovery, fetch, exec>>
    BY ZenonT(60), <1>2 DEF OpenStream
  <2>2. stream[s].yielded = {}
    BY <1>1, <1>2 DEF OpenStream, StreamFits
  <2>3. StreamFits(x)
    BY <1>1, <2>2 DEF StreamFits, StreamRecords
  <2> QED
    BY <2>1, <2>3, StreamSteps
<1>3. CASE StreamEnds(s)
  <2>1. PICK pc \in {"ended", "error"} : stream' = [stream EXCEPT ![s].pc = pc]
    BY <1>3 DEF StreamEnds
  <2> DEFINE x == [stream[s] EXCEPT !.pc = pc]
  <2>2. stream' = [stream EXCEPT ![s] = x] /\ UNCHANGED <<discovery, fetch, exec>>
    BY <1>3, <2>1 DEF StreamEnds
  <2>3. StreamFits(x)
    BY <1>1 DEF StreamFits, StreamRecords
  <2> QED
    BY <2>2, <2>3, StreamSteps
<1>4. ASSUME NEW id \in TaskIds \cup {"none"}, NEW c \in Contexts \cup {"none"},
             StreamEvent(s, id, c)
      PROVE  ClientInv'
  <2> DEFINE old == stream[s]
             wrong == \/ "none" \notin {old.task, id} /\ old.task # id
                      \/ "none" \notin {old.context, c} /\ old.context # c
  <2>1. UNCHANGED <<discovery, fetch, exec>>
    BY ZenonT(60), <1>4 DEF StreamEvent
  <2>4. old.pc = "open"
    BY <1>4 DEF StreamEvent
  <2>2. CASE wrong
    <3> DEFINE x == [old EXCEPT !.pc = "error"]
    <3>1. stream' = [stream EXCEPT ![s] = x]
      BY <1>4, <2>2 DEF StreamEvent
    <3>2. StreamFits(x)
      BY <1>1 DEF StreamFits, StreamRecords
    <3> QED
      BY <2>1, <3>1, <3>2, StreamSteps
  <2>3. CASE ~ wrong
    <3> DEFINE task == IF old.task = "none" THEN id ELSE old.task
               context == IF old.context = "none" THEN c ELSE old.context
               yielded == old.yielded \cup ({id} \ {"none"})
               x == [old EXCEPT !.task = task, !.context = context, !.yielded = yielded]
    <3>1. stream' = [stream EXCEPT ![s] = x]
      BY ZenonT(60), <1>4, <2>3 DEF StreamEvent
    <3>2. task \in TaskIds \cup {"none"} /\ context \in Contexts \cup {"none"}
      BY <1>1 DEF StreamRecords
    <3>3. yielded \in SUBSET TaskIds
      BY <1>1 DEF StreamRecords
    <3>4. yielded \subseteq {task} \ {"none"}
      BY <1>1, <2>3 DEF StreamFits
    <3>5. old.asked # "none" => task = old.asked
      BY <1>1 DEF StreamFits
    <3>6. StreamFits(x)
      <4> HIDE DEF task, context, yielded
      <4> QED
        BY <1>1, <2>4, <3>2, <3>3, <3>4, <3>5 DEF StreamFits, StreamRecords
    <3> QED
      BY <2>1, <3>1, <3>6, StreamSteps
  <2> QED
    BY SMTT(60), <2>2, <2>3
<1> QED
  BY <1>2, <1>3, <1>4

LEMMA ClientInvInit == ClientAssumption /\ ClientInit => ClientInv
<1> SUFFICES ASSUME ClientAssumption, ClientInit PROVE ClientInv
  OBVIOUS
<1>1. 0 \in 0..1 /\ 0 \in 0..MaxPolls
  BY DEF ClientAssumption
<1>2. NotExecuted \in ExecutionRecords
  BY <1>1 DEF NotExecuted, ExecutionRecords, States
<1>3. ExecutionFits(NotExecuted)
  BY <1>2 DEF ExecutionFits, NotExecuted
<1>4. NoStream \in StreamRecords /\ StreamFits(NoStream)
  BY DEF NoStream, StreamRecords, StreamFits
<1>5. /\ exec \in [AgentCalls -> ExecutionRecords] /\ stream \in [Streams -> StreamRecords]
      /\ \A e \in AgentCalls : exec[e] = NotExecuted
      /\ \A s \in Streams : stream[s] = NoStream
  BY <1>2, <1>4 DEF ClientInit
<1>6. discovery \in Cards \cup {0} /\ fetch \in [Discoveries -> Cards \cup {0}]
  BY DEF ClientInit
<1> QED
  BY <1>3, <1>4, <1>5, <1>6, ClientInvSplit

LEMMA ClientInvNext == ASSUME ClientAssumption, ClientInv, [ClientNext]_clientVars PROVE ClientInv'
<1>1. CASE UNCHANGED clientVars
  BY <1>1 DEF ClientInv, ClientTypeOK, CallsSent, StreamsCorrelated, clientVars
<1>2. CASE ClientNext
  BY <1>2, CardSteps, ExecuteKeeps, SendKeeps, PollKeeps, VerifiedKeeps, StreamKeeps
     DEF ClientNext
<1> QED
  BY <1>1, <1>2

LEMMA ClientInvMeans == ClientInv => ClientTypeOK /\ TaskStaysItsOwn
<1> SUFFICES ASSUME ClientInv PROVE TaskStaysItsOwn
  BY DEF ClientInv
<1>1. \A e \in AgentCalls : exec[e].sends <= 1 /\ exec[e].id = exec[e].mine
  BY ClientInvSplit DEF ExecutionFits, ExecutionRecords
<1>2. \A s \in Streams : Cardinality(stream[s].yielded) <= 1
  <2> SUFFICES ASSUME NEW s \in Streams PROVE Cardinality(stream[s].yielded) <= 1
    OBVIOUS
  <2>1. stream[s].yielded \subseteq {stream[s].task}
    BY DEF ClientInv, StreamsCorrelated
  <2>2. IsFiniteSet({stream[s].task}) /\ Cardinality({stream[s].task}) = 1
    BY FS_Singleton
  <2> QED
    BY <2>1, <2>2, FS_Subset
<1>3. \A e \in AgentCalls :
        exec[e].pc = "output" => /\ exec[e].state = "completed" /\ exec[e].sends = 1
                                 /\ Spent(exec[e].output, Len(exec[e].output)) <= MaxBytes
  BY DEF ClientInv, CallsSent
<1>4. \A s \in Streams : stream[s].asked # "none" => stream[s].yielded \subseteq {stream[s].asked}
  BY DEF ClientInv, StreamsCorrelated
<1> QED
  BY <1>1, <1>2, <1>3, <1>4 DEF TaskStaysItsOwn

-----------------------------------------------------------------------------
mcVars == <<focus, namedVars, from1>>

\* What holds of the part in focus.
NodeInv ==
    /\ focus = "persist" => PersistInv
    /\ focus = "mailbox" => MailboxInv
    /\ focus = "dht" => DhtInv
    /\ focus = "p2p" => P2pInv
    /\ focus = "log" => LogInv
    /\ focus = "runtime" => RuntimeInv
    /\ focus = "client" => ClientInv

LEMMA NodeInvInit == MCInit => NodeInv
<1> SUFFICES ASSUME MCInit PROVE NodeInv
  OBVIOUS
<1>1. focus = "persist" => PersistInit
  BY DEF MCInit
<1>2. focus = "mailbox" => MailboxInit
  BY DEF MCInit
<1>3. focus = "dht" => DhtInit
  BY DEF MCInit
<1>4. focus = "p2p" => P2pInit
  BY DEF MCInit
<1>5. focus = "log" => LogInit
  BY DEF MCInit
<1>6. (focus = "persist" => PersistInv) /\ (focus = "mailbox" => MailboxInv)
  BY <1>1, <1>2, NodeConstants, PersistInvInit, MailboxInvInit
<1>7. focus = "dht" => DhtInv
  BY <1>3, DhtAssumption, DhtInvInit
<1>8. focus = "p2p" => P2pInv
  BY <1>4, P2pAssumption, P2pInvInit
<1>9. focus = "log" => LogInv
  BY <1>5, LogAssumption, LogInvInit
<1>10. focus = "runtime" => RuntimeInit
  BY DEF MCInit
<1>11. focus = "client" => ClientInit
  BY DEF MCInit
<1>12. (focus = "runtime" => RuntimeInv) /\ (focus = "client" => ClientInv)
  BY <1>10, <1>11, RuntimeAssumption, ClientAssumption, RuntimeInvInit, ClientInvInit
<1> QED
  BY <1>6, <1>7, <1>8, <1>9, <1>12 DEF NodeInv

LEMMA NodeInvNext == ASSUME NodeInv, [MCNext]_mcVars PROVE NodeInv'
<1>1. MCNext \/ UNCHANGED mcVars
  OBVIOUS
<1>2. focus' = focus
  BY <1>1 DEF MCNext, mcVars
<1> USE <1>1 DEF MCNext, mcVars, namedVars
<1>3. focus = "persist" => [PersistNext]_persistVars
  OBVIOUS
<1>4. focus = "mailbox" => [MailboxNext]_mailboxVars
  OBVIOUS
<1>5. focus = "dht" => [DhtNext]_dhtVars
  OBVIOUS
<1>6. focus = "p2p" => [P2pNext]_p2pVars
  OBVIOUS
<1>7. focus = "log" => [LogNext]_logVars
  OBVIOUS
<1>8. (focus = "persist" => PersistInv') /\ (focus = "mailbox" => MailboxInv')
  BY ONLY <1>3, <1>4, NodeInv, NodeConstants, PersistInvNext, MailboxInvNext DEF NodeInv
<1>9. focus = "dht" => DhtInv'
  BY ONLY <1>5, NodeInv, DhtAssumption, DhtInvNext DEF NodeInv
<1>10. focus = "p2p" => P2pInv'
  BY ONLY <1>6, NodeInv, P2pAssumption, P2pInvNext DEF NodeInv
<1>11. focus = "log" => LogInv'
  BY ONLY SMTT(60), <1>7, NodeInv, LogAssumption, LogInvNext DEF NodeInv
<1>12. focus = "runtime" => [RuntimeNext]_runtimeVars
  OBVIOUS
<1>13. focus = "client" => [ClientNext]_clientVars
  OBVIOUS
<1>14. focus = "runtime" => RuntimeInv'
  BY ONLY <1>12, NodeInv, RuntimeAssumption, RuntimeInvNext DEF NodeInv
<1>15. focus = "client" => ClientInv'
  BY ONLY <1>13, NodeInv, ClientAssumption, ClientInvNext DEF NodeInv
<1> QED
  BY ONLY <1>2, <1>8, <1>9, <1>10, <1>11, <1>14, <1>15 DEF NodeInv

\* What a call of persistState that returned had covered is in the state file,
\* over failed writes and crashes in the middle of a later save, and a change
\* that is not there has a timer or a flush that will write it (persistState,
\* #ensurePersistFlush, #schedulePersistCheckpoint).
THEOREM PersistenceSound == MCSpec => []BarriersAreDurable
<1>1. NodeInv => BarriersAreDurable
  BY DEF NodeInv, BarriersAreDurable, PersistInv
<1>2. NodeInv /\ [MCNext]_mcVars => NodeInv'
  BY NodeInvNext
<1> QED
  BY NodeInvInit, <1>1, <1>2, PTL DEF MCSpec, mcVars

\* Whatever requests and responses are lost, given up, expired or repeated, an
\* envelope is handled once, its sender is told the outcome of that run, and
\* the recipient never sleeps on an envelope (relay-service.js, http-relay.js).
THEOREM MailboxDelivers == MCSpec => []MailboxSound
<1>1. NodeInv => MailboxSound
  BY MailboxInvMeans DEF NodeInv, MailboxSound
<1>2. NodeInv /\ [MCNext]_mcVars => NodeInv'
  BY NodeInvNext
<1> QED
  BY NodeInvInit, <1>1, <1>2, PTL DEF MCSpec, mcVars

\* A put() that returned to its caller is on the disks of WriteQuorum - 1 replicas
\* besides the publisher, as this or a newer record, until it expires, whatever
\* replicas restart, answer late or are reconciled meanwhile (put and
\* reconcilePublishedRecords of dht-replication.js).
THEOREM QuorumDurability == MCSpec => []QuorumIsDurable
<1>1. NodeInv => QuorumIsDurable
  BY DEF NodeInv, QuorumIsDurable, DhtInv
<1>2. NodeInv /\ [MCNext]_mcVars => NodeInv'
  BY NodeInvNext
<1> QED
  BY NodeInvInit, <1>1, <1>2, PTL DEF MCSpec, mcVars

\* However retries, fallbacks, superseded peer records and faults interleave, an
\* envelope enters the network once, and the connection a send leases stays open
\* until it lets go (send, #directClient and #retireClient of p2p.js).
THEOREM DirectTransport == MCSpec => []P2pSound
<1>1. NodeInv => P2pSound
  BY P2pAssumption, P2pInvMeans DEF NodeInv, P2pSound
<1>2. NodeInv /\ [MCNext]_mcVars => NodeInv'
  BY NodeInvNext
<1> QED
  BY NodeInvInit, <1>1, <1>2, PTL DEF MCSpec, mcVars

\* A sync that reported agreement left the peer with every entry it named, and
\* an entry a replica serves is in its file, is being written or is one whose
\* write failed, through concurrent pushes, pulls and crashes (ingest and #persist
\* of transparency-log.js, syncWithPeer of transparency-replication.js).
THEOREM LogReplicates == MCSpec => []LogSound
<1>1. NodeInv => LogSound
  BY LogInvMeans DEF NodeInv, LogSound
<1>2. NodeInv /\ [MCNext]_mcVars => NodeInv'
  BY NodeInvNext
<1> QED
  BY NodeInvInit, <1>1, <1>2, PTL DEF MCSpec, mcVars

\* However renewals, churn, retries, late acknowledgements, crashes and restarts
\* interleave, a node that reports itself ready has its current record with every
\* required peer; those are the closest ones, unless the table or the targets
\* changed without staging; and a change the node is told of is repaired
\* (peerRecordPropagationReady, #recordPeerRecordPropagation,
\* #scheduleDhtRecordRebalance of runtime.js).
THEOREM ReadinessIsTrue == MCSpec => []RuntimeSound
<1>1. NodeInv => RuntimeSound
  BY RuntimeInvMeans DEF NodeInv, RuntimeSound
<1>2. NodeInv /\ [MCNext]_mcVars => NodeInv'
  BY NodeInvNext
<1> QED
  BY NodeInvInit, <1>1, <1>2, PTL DEF MCSpec, mcVars

\* Whatever a remote agent answers, and whichever card is discovered meanwhile, a
\* call sends its message once and returns only a completed task's output within
\* the limit, and a stream stays with one task (execute and pollTask of client.js,
\* correlateStreamEvent of lifecycle-client.js).
THEOREM CallsKeepTheirTask == MCSpec => []OneTaskPerCall
<1>1. NodeInv => OneTaskPerCall
  BY ClientInvMeans DEF NodeInv, OneTaskPerCall
<1>2. NodeInv /\ [MCNext]_mcVars => NodeInv'
  BY NodeInvNext
<1> QED
  BY NodeInvInit, <1>1, <1>2, PTL DEF MCSpec, mcVars
=============================================================================
