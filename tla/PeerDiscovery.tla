--------------------------- MODULE PeerDiscovery ---------------------------
(***************************************************************************)
(* network/discovery/peer-discovery.js over the routing table of           *)
(* network/dht/kademlia.js: the signed peer records one node keeps, its    *)
(* Kademlia buckets, the iterative walk that finds a peer, and the         *)
(* periodic refresh that keeps the table alive.                            *)
(*                                                                         *)
(* Peers are numbers and Distance is their XOR metric; Local is 0.  A      *)
(* record is its sequence number and whether its lease still runs.  An     *)
(* answer to findNode carries at most one record or one hint.              *)
(***************************************************************************)
EXTENDS Naturals, Sequences, FiniteSets, SequencesExt

CONSTANTS
    Peers,          \* the other nodes
    Distance,       \* [peers and Local] x [the same] -> Nat
    Bucket,         \* bucketIndex of each peer
    K,              \* k
    Alpha,          \* alpha
    MaxRounds,      \* maxRounds
    MaxCached,      \* maxCachedRecords + RECORD_TRIM_SLACK
    MaxSequence,    \* bound on the sequence numbers of peer records
    MaxWalks,       \* bound on the walks
    MaxTargets,     \* targetCount of a refresh
    IdleWalks       \* earlyExitIdleWalks

Local == 0

VARIABLES
    record,     \* records: per peer its record; seq 0 is no record
    recency,    \* the order of records, oldest first
    bucket,     \* per bucket index its peers, oldest first
    walk,       \* the walk under way
    refresh,    \* the periodic refresh
    walksLeft

discoveryVars == <<record, recency, bucket, walk, refresh, walksLeft>>

BucketSet == {Bucket[p] : p \in Peers}
NoWalk == [on |-> FALSE, target |-> Local, stop |-> FALSE, background |-> FALSE, queried |-> {},
           inflight |-> {}, slow |-> {}, hints |-> {}, responded |-> {}, stable |-> 0,
           top |-> {}, novel |-> FALSE, shed |-> FALSE]

DiscoveryInit ==
    /\ record = [p \in Peers |-> [seq |-> 0, live |-> FALSE]]
    /\ recency = <<>>
    /\ bucket = [b \in BucketSet |-> <<>>]
    /\ walk = NoWalk
    /\ refresh = [enabled |-> FALSE, timer |-> FALSE, running |-> 0, targets |-> 0, idle |-> 0]
    /\ walksLeft = MaxWalks

---------------------------------------------------------------------------
(* The records and the routing table.                                      *)

Routing(bs) == UNION {{bs[b][i] : i \in DOMAIN bs[b]} : b \in BucketSet}

\* upsert: the peer becomes the newest of its bucket, and an overfull bucket
\* loses its oldest peer.
Upsert(bs, p) ==
    LET b == Bucket[p]
        moved == Append(Remove(bs[b], p), p)
    IN [bs EXCEPT ![b] = IF Len(moved) > K THEN Tail(moved) ELSE moved]

\* #trimRecordCache: of the records outside the routing table the oldest go, until
\* MaxCached of them are left.  (The slack of the code is in MaxCached: it trims
\* less often and further.)
Trim(order, bs) ==
    LET routed == Routing(bs)
        spare == SelectSeq(order, LAMBDA p : p \notin routed)
    IN IF Len(spare) <= MaxCached THEN {}
       ELSE {spare[i] : i \in 1..(Len(spare) - MaxCached)}

\* Set the records of the peers in gone to none.
Without(rs, gone) == [p \in Peers |-> IF p \in gone THEN [seq |-> 0, live |-> FALSE] ELSE rs[p]]

\* ingest, of a record whose lease runs: an older number is refused.
Accepts(p, seq) == seq >= record[p].seq

\* Is it news: no record yet, or other endpoints?  (They change with the number.)
Novel(p, seq) == seq # record[p].seq

Ingest(p, seq) ==
    LET order == Append(Remove(recency, p), p)
        bs == Upsert(bucket, p)
        gone == Trim(order, bs)
    IN /\ bucket' = bs
       /\ recency' = SelectSeq(order, LAMBDA n : n \notin gone)
       /\ record' = Without([record EXCEPT ![p] = [seq |-> seq, live |-> TRUE]], gone)

\* peer.announce and bootstrap: a peer's record reaches this node.
Announce(p, seq) ==
    /\ Accepts(p, seq)
    /\ Ingest(p, seq)
    /\ UNCHANGED <<walk, refresh, walksLeft>>

LeaseEnds(p) ==
    /\ record[p].live
    /\ record' = [record EXCEPT ![p].live = FALSE]
    /\ UNCHANGED <<recency, bucket, walk, refresh, walksLeft>>

SweepRecordsOnly ==
    LET gone == {p \in Peers : record[p].seq > 0 /\ ~record[p].live}
    IN /\ gone # {}
       /\ record' = Without(record, gone)
       /\ recency' = SelectSeq(recency, LAMBDA p : p \notin gone)
       /\ UNCHANGED <<bucket, walk, refresh, walksLeft>>

SweepRecords ==
    LET gone == {p \in Peers : record[p].seq > 0 /\ ~record[p].live}
    IN /\ gone # {}
       /\ record' = Without(record, gone)
       /\ recency' = SelectSeq(recency, LAMBDA p : p \notin gone)
       /\ bucket' = [b \in BucketSet |-> SelectSeq(bucket[b], LAMBDA p : p \notin gone)]
       /\ UNCHANGED <<walk, refresh, walksLeft>>

\* The node restarts from durableSnapshot: restore takes the live records like
\* ingest and the expired ones as routing hints, in the order of the file, which
\* rebuilds the buckets; walks and timers are gone.
RestartDiscovery ==
    LET bs == FoldLeft(Upsert, [b \in BucketSet |-> <<>>], recency)
        gone == Trim(recency, bs)
    IN /\ bs # bucket \/ walk.on \/ refresh.enabled
       /\ bucket' = bs
       /\ recency' = SelectSeq(recency, LAMBDA p : p \notin gone)
       /\ record' = Without(record, gone)
       /\ walk' = NoWalk
       /\ refresh' = [enabled |-> FALSE, timer |-> FALSE, running |-> 0, targets |-> 0, idle |-> 0]
       /\ UNCHANGED walksLeft

---------------------------------------------------------------------------
(* The walk.                                                               *)

\* The n members of ps closest to t.
Closest(ps, t, n) ==
    {p \in ps : Cardinality({q \in ps : Distance[q, t] < Distance[p, t]}) < n}

Candidates(w, bs) ==
    (Closest(Routing(bs), w.target, K) \cup w.hints) \ w.queried

Live(rs, p) == p # Local /\ rs[p].live

\* pump: unless the walk is shed or has found its target, the closest candidates
\* are asked, within the budget and alpha questions beside the slow ones.
Pump(w, rs, bs) ==
    LET found == w.stop /\ w.queried # {} /\ Live(rs, w.target)
        room == Alpha + Cardinality(w.slow) - Cardinality(w.inflight)
        left == MaxRounds * Alpha - Cardinality(w.queried)
        n == IF room < left THEN room ELSE left
        asked == IF w.shed \/ n <= 0 THEN {} ELSE Closest(Candidates(w, bs), w.target, n)
        next == [w EXCEPT !.queried = @ \cup asked, !.inflight = @ \cup asked]
    IN IF found THEN [w EXCEPT !.on = FALSE]
       ELSE [next EXCEPT !.on = next.inflight # {}]

\* What the end of a walk means for the refresh it belongs to: a walk without
\* news is idle, enough idle ones or a shed walk end the refresh.
Ended(w, r) ==
    IF w.on \/ ~w.background \/ r.running = 0 THEN r
    ELSE LET idle == IF w.novel THEN 0 ELSE r.idle + 1
         IN [r EXCEPT !.idle = idle,
                      !.targets = IF w.shed \/ idle >= IdleWalks THEN 0 ELSE @ - 1]

Walking(w, r) ==
    /\ walk' = IF w.on THEN w ELSE NoWalk
    /\ refresh' = Ended(w, r)

\* findNode(target), after its look at the local records, or a refresh target.
WalkStarts(t, background) ==
    /\ ~walk.on /\ walksLeft > 0
    /\ background => refresh.running > 0 /\ refresh.targets > 0
    /\ ~background => ~Live(record, t)
    /\ walksLeft' = walksLeft - 1
    /\ Walking(Pump([NoWalk EXCEPT !.on = TRUE, !.target = t, !.stop = ~background,
                                   !.background = background], record, bucket), refresh)
    /\ UNCHANGED <<record, recency, bucket>>

\* A question is settled: converged() compares the closest alpha with the last
\* ones, and the walk is over or pumped.
Settle(w, p, rs, bs) ==
    LET top == Closest(Routing(bs), w.target, Alpha)
        stable == IF w.stop THEN 0 ELSE IF top = w.top THEN w.stable + 1 ELSE 0
        over == ~w.stop /\ stable >= Alpha /\ top # {} /\ top \subseteq w.responded
        v == [w EXCEPT !.inflight = @ \ {p}, !.slow = @ \ {p},
                       !.stable = IF stable > Alpha THEN Alpha ELSE stable,
                       !.top = IF w.stop THEN {} ELSE top]
    IN IF over THEN [v EXCEPT !.on = FALSE] ELSE Pump(v, rs, bs)

\* findNode answers.  The record, if any, is ingested; a hint is a contact whose
\* lease is over, kept for this walk only.
Answer(p) ==
    /\ walk.on /\ p \in walk.inflight
    /\ LET w == [walk EXCEPT !.responded = @ \cup {p}]
       IN \/ /\ \E hint \in {{}} \cup {{q} : q \in {h \in Peers : ~Live(record, h)}} :
                  Walking(Settle([w EXCEPT !.hints = @ \cup hint], p, record, bucket), refresh)
             /\ UNCHANGED <<record, recency, bucket>>
          \/ \E q \in Peers, seq \in 1..MaxSequence :
               /\ Accepts(q, seq)
               /\ Ingest(q, seq)
               /\ Walking(Settle([w EXCEPT !.novel = @ \/ Novel(q, seq)], p, record', bucket'),
                          refresh)
    /\ UNCHANGED walksLeft

\* The question fails.  A busy peer sheds a background walk.
AnswerFails(p, busy) ==
    /\ walk.on /\ p \in walk.inflight
    /\ Walking(Settle([walk EXCEPT !.shed = @ \/ (busy /\ walk.background)], p, record, bucket),
               refresh)
    /\ UNCHANGED <<record, recency, bucket, walksLeft>>

\* hedgeAfterMs: a slow question of a foreground walk no longer counts.
Hedge(p) ==
    /\ walk.on /\ ~walk.background
    /\ p \in walk.inflight \ walk.slow /\ Cardinality(walk.slow) < Alpha
    /\ Walking(Pump([walk EXCEPT !.slow = @ \cup {p}], record, bucket), refresh)
    /\ UNCHANGED <<record, recency, bucket, walksLeft>>

---------------------------------------------------------------------------
(* The periodic refresh.                                                   *)

StartPeriodicRefresh ==
    /\ refresh' = [refresh EXCEPT !.enabled = TRUE, !.timer = TRUE]
    /\ UNCHANGED <<record, recency, bucket, walk, walksLeft>>

StopPeriodicRefresh ==
    /\ refresh.enabled
    /\ refresh' = [refresh EXCEPT !.enabled = FALSE, !.timer = FALSE]
    /\ UNCHANGED <<record, recency, bucket, walk, walksLeft>>

\* The timer fires: a refresh that still runs only has it set again.
RefreshFires ==
    /\ refresh.timer
    /\ refresh' = IF refresh.running > 0 THEN refresh
                  ELSE [refresh EXCEPT !.timer = FALSE, !.running = @ + 1, !.targets = MaxTargets,
                                       !.idle = 0]
    /\ UNCHANGED <<record, recency, bucket, walk, walksLeft>>

\* The last target was walked, or the deadline passed before the next one; the
\* timer is set again while the refresh is enabled.
RefreshEnds ==
    /\ refresh.running > 0
    /\ ~(walk.on /\ walk.background)
    /\ refresh' = [refresh EXCEPT !.running = @ - 1, !.timer = refresh.enabled, !.targets = 0]
    /\ UNCHANGED <<record, recency, bucket, walk, walksLeft>>

DiscoveryNext ==
    \/ \E p \in Peers, seq \in 1..MaxSequence : Announce(p, seq)
    \/ \E p \in Peers : LeaseEnds(p)
    \/ SweepRecords
    \/ RestartDiscovery
    \/ \E t \in Peers, b \in BOOLEAN : WalkStarts(t, b)
    \/ \E p \in Peers : Answer(p) \/ Hedge(p)
    \/ \E p \in Peers, busy \in BOOLEAN : AnswerFails(p, busy)
    \/ StartPeriodicRefresh
    \/ StopPeriodicRefresh
    \/ RefreshFires
    \/ RefreshEnds

DiscoverySpec == DiscoveryInit /\ [][DiscoveryNext]_discoveryVars
---------------------------------------------------------------------------
\* Whatever is ingested, swept, trimmed or restored, every routing contact has
\* its signed record, recency lists the records once each, and outside the
\* routing table at most MaxCached of them are kept.
RoutingBacked ==
    LET held == {p \in Peers : record[p].seq > 0}
    IN /\ Routing(bucket) \subseteq held
       /\ ToSet(recency) = held /\ IsInjective(recency)
       /\ Cardinality(held \ Routing(bucket)) <= MaxCached

\* A walk that is not over awaits an answer, so its promise resolves; and a
\* refresh that is enabled runs or has its timer set, never twice at a time.
NothingStalls ==
    /\ walk.on => walk.inflight # {}
    /\ refresh.running <= 1
    /\ refresh.enabled => refresh.timer \/ refresh.running > 0
=============================================================================
