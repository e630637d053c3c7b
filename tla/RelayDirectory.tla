--------------------------- MODULE RelayDirectory ---------------------------
(***************************************************************************)
(* The nodes and OFFERs a relay knows (network/relay/server.js), kept in   *)
(* step with the shared OFFER documents and owner slots of the Cosmos      *)
(* ledger (network/relay/cosmos-lifecycle-ledger.js): registration with    *)
(* eviction and restored OFFERs, publishing, revoking, and the matching    *)
(* of a NEED.  This is the mode with lifecycle maintenance, in which one   *)
(* operation of an owner runs at a time: handler[n] is that operation.     *)
(*                                                                         *)
(* Signatures, negotiation and access policies decide only whether an      *)
(* operation begins.  A peer relay works on the same documents.            *)
(***************************************************************************)
EXTENDS Naturals, FiniteSets

CONSTANTS
    Nodes,      \* node identifiers, each also the owner of OFFERs
    Offers,     \* OFFER identifiers, which any owner may pick
    MaxNodes,   \* maxNodes
    MaxOffers,  \* maxOffers
    SlotLimit   \* slotLimit of an owner, also the limit of restoreOffers

DirectoryAssumption ==
    /\ IsFiniteSet(Nodes) /\ IsFiniteSet(Offers) /\ "none" \notin Nodes \cup Offers
    /\ MaxNodes \in Nat /\ MaxOffers \in Nat /\ SlotLimit \in Nat

None == "none"

VARIABLES
    node,       \* nodes: absent, fresh or stale
    dir,        \* offers: per identifier its owner, or None
    gone,       \* the local OFFERs with the revoked flag
    handler,    \* per owner: the operation that holds its lock
    doc,        \* OFFER documents: owner and state
    slots,      \* per owner: offerSlots of its index document
    match       \* a matchingOffers call: candidates to read, eligible ones, choice, and
                \* the OFFERs this relay had revoked when it began

directoryVars == <<node, dir, gone, handler, doc, slots, match>>

Idle == [op |-> "idle", offer |-> None, evict |-> None, restored |-> {}, slot |-> FALSE]
NoDoc == [owner |-> None, state |-> "none"]
NoMatch == [pc |-> "idle", reads |-> {}, eligible |-> {}, choice |-> None, dead |-> {}]

Handlers ==
    [op : {"idle", "registering", "publishing", "claiming", "creating", "conflict", "revoking",
           "releasing"},
     offer : Offers \cup {None}, evict : Nodes \cup {None}, restored : SUBSET Offers, slot : BOOLEAN]
Docs == [owner : Nodes \cup {None}, state : {"none", "active", "revoked", "compacted"}]
Matches ==
    [pc : {"idle", "reading", "matched"}, reads : SUBSET Offers, eligible : SUBSET Offers,
     choice : Offers \cup {None}, dead : SUBSET Offers]

DirectoryTypeOK ==
    /\ node \in [Nodes -> {"absent", "fresh", "stale"}]
    /\ dir \in [Offers -> Nodes \cup {None}] /\ gone \subseteq Offers
    /\ handler \in [Nodes -> Handlers]
    /\ doc \in [Offers -> Docs]
    /\ slots \in [Nodes -> SUBSET Offers]
    /\ match \in Matches

DirectoryInit ==
    /\ node = [n \in Nodes |-> "absent"]
    /\ dir = [o \in Offers |-> None] /\ gone = {}
    /\ handler = [n \in Nodes |-> Idle]
    /\ doc = [o \in Offers |-> NoDoc]
    /\ slots = [n \in Nodes |-> {}]
    /\ match = NoMatch

---------------------------------------------------------------------------

Present == {n \in Nodes : node[n] # "absent"}
Listed == {o \in Offers : dir[o] # None}
PendingNodes == {n \in Nodes : handler[n].slot}
PendingEvictions == {handler[n].evict : n \in Nodes} \ {None}
\* pendingOfferReservations: publications past their capacity check.
PendingOffers == {n \in Nodes : handler[n].op \in {"claiming", "creating", "conflict"}}
Locked(n) == handler[n].op # "idle"

\* withOwnerLifecycleMutation: the lock is taken, and given back at the end.
Enter(n, h) == handler[n] = Idle /\ handler' = [handler EXCEPT ![n] = h]
Leave(n) == handler' = [handler EXCEPT ![n] = Idle]

\* A node falls silent; touch() makes it fresh again.
GoesStale(n) ==
    /\ node[n] = "fresh"
    /\ node' = [node EXCEPT ![n] = "stale"]
    /\ UNCHANGED <<dir, gone, handler, doc, slots, match>>

\* findStaleNodeCandidate: the one silent for longest, so any of them.
StaleCandidates == {e \in Nodes : node[e] = "stale" /\ ~Locked(e)} \ PendingEvictions

\* POST /v1/register up to restoreOffers: a new node takes a place, or the place
\* of a stale node that it will evict.
Register(n) ==
    LET full == Cardinality(Present) + Cardinality(PendingNodes) >= MaxNodes
        evictions == IF node[n] = "absent" /\ full THEN StaleCandidates ELSE {None}
    IN /\ \E e \in evictions :
             Enter(n, [Idle EXCEPT !.op = "registering", !.evict = e,
                                   !.slot = (node[n] = "absent")])
       /\ UNCHANGED <<node, dir, gone, doc, slots, match>>

\* restoreOffers fences the documents of the owner one after the other; the query
\* that names them may miss some.
Restore(n, o) ==
    /\ handler[n].op = "registering" /\ o \notin handler[n].restored
    /\ doc[o] = [owner |-> n, state |-> "active"]
    /\ handler' = [handler EXCEPT ![n].restored = @ \cup {o}]
    /\ UNCHANGED <<node, dir, gone, doc, slots, match>>

\* commitStaleNodeEviction would still find its node stale and free.
Evictable(e) == e # None /\ node[e] = "stale" /\ ~Locked(e)

RegisterRoom(n) ==
    LET others == {o \in Listed : dir[o] # n}
    IN Cardinality(others) + Cardinality(handler[n].restored) + Cardinality(PendingOffers) <= MaxOffers

\* The rest of the registration, without a wait: an eviction if the table is full,
\* a new session, and the restored OFFERs instead of the ones known so far.
Registered(n) ==
    LET evict == handler[n].evict
        full == node[n] = "absent" /\ Cardinality(Present) >= MaxNodes
        leaves == IF full THEN {evict} ELSE {}
        keep == {o \in Listed : dir[o] # n /\ dir[o] \notin leaves}
    IN /\ handler[n].op = "registering" /\ RegisterRoom(n)
       /\ full => Evictable(evict)
       /\ node' = [m \in Nodes |-> IF m = n THEN "fresh" ELSE IF m \in leaves THEN "absent"
                                   ELSE node[m]]
       /\ dir' = [o \in Offers |-> IF o \in handler[n].restored THEN n
                                   ELSE IF o \in keep THEN dir[o] ELSE None]
       /\ gone' = gone \cap (keep \ handler[n].restored)
       /\ Leave(n)
       /\ UNCHANGED <<doc, slots, match>>

\* Capacity, an eviction that is no longer possible, or a failing ledger; finally
\* gives back what was reserved.
RegisterFails(n) ==
    /\ handler[n].op = "registering"
    /\ Leave(n)
    /\ UNCHANGED <<node, dir, gone, doc, slots, match>>

---------------------------------------------------------------------------

\* POST /v1/offers: an identifier that the relay does not know is looked up.
Publish(n, o) ==
    /\ node[n] # "absent" /\ dir[o] = None
    /\ Enter(n, [Idle EXCEPT !.op = "publishing", !.offer = o])
    /\ UNCHANGED <<node, dir, gone, doc, slots, match>>

\* The document does not exist: if there is room the OFFER is reserved.
PublishChecked(n) ==
    /\ handler[n].op = "publishing"
    /\ IF /\ doc[handler[n].offer] = NoDoc
          /\ Cardinality(Listed) + Cardinality(PendingOffers) < MaxOffers
       THEN handler' = [handler EXCEPT ![n].op = "claiming"]
       ELSE Leave(n)
    /\ UNCHANGED <<node, dir, gone, doc, slots, match>>

\* claimOfferSlot, a compare-and-swap on the index of the owner.
ClaimOfferSlot(n) ==
    LET o == handler[n].offer
    IN /\ handler[n].op = "claiming"
       /\ \/ /\ doc[o] = NoDoc
             /\ o \in slots[n] \/ Cardinality(slots[n]) < SlotLimit
             /\ slots' = [slots EXCEPT ![n] = @ \cup {o}]
             /\ handler' = [handler EXCEPT ![n].op = "creating"]
          \/ Leave(n) /\ UNCHANGED slots
       /\ UNCHANGED <<node, dir, gone, doc, match>>

\* The document is created and the OFFER listed.
Created(n) ==
    LET o == handler[n].offer
    IN /\ handler[n].op = "creating" /\ doc[o] = NoDoc
       /\ doc' = [doc EXCEPT ![o] = [owner |-> n, state |-> "active"]]
       /\ dir' = [dir EXCEPT ![o] = n]
       /\ node' = [node EXCEPT ![n] = "fresh"]
       /\ Leave(n)
       /\ UNCHANGED <<gone, slots, match>>

\* The reply is lost: whether the document exists is unknown and the slot stays.
CreateUnknown(n) ==
    LET o == handler[n].offer
    IN /\ handler[n].op = "creating"
       /\ doc' \in {doc, [doc EXCEPT ![o] = IF @ = NoDoc THEN [owner |-> n, state |-> "active"] ELSE @]}
       /\ Leave(n)
       /\ UNCHANGED <<node, dir, gone, slots, match>>

\* Somebody else created it first: the claim is given back if it was another owner.
CreateConflict(n) ==
    LET o == handler[n].offer
    IN /\ handler[n].op = "creating" /\ doc[o] # NoDoc
       /\ IF doc[o].owner = n THEN Leave(n)
          ELSE handler' = [handler EXCEPT ![n].op = "conflict"]
       /\ UNCHANGED <<node, dir, gone, doc, slots, match>>

ReleaseOfferClaim(n) ==
    /\ handler[n].op = "conflict"
    /\ slots' \in {slots, [slots EXCEPT ![n] = @ \ {handler[n].offer}]}
    /\ Leave(n)
    /\ UNCHANGED <<node, dir, gone, doc, match>>

---------------------------------------------------------------------------

\* POST /v1/revoke of an OFFER, listed here or not.
Revoke(n, o) ==
    /\ node[n] # "absent" /\ doc[o].owner = n
    /\ Enter(n, [Idle EXCEPT !.op = "revoking", !.offer = o])
    /\ UNCHANGED <<node, dir, gone, doc, slots, match>>

\* revokeOffer commits; a document already revoked is left as it is.
RevokeCommits(n) ==
    LET o == handler[n].offer
    IN /\ handler[n].op = "revoking"
       /\ doc' = [doc EXCEPT ![o].state = IF @ = "active" THEN "revoked" ELSE @]
       /\ handler' = [handler EXCEPT ![n].op = "releasing"]
       /\ UNCHANGED <<node, dir, gone, slots, match>>

\* Then the slot is released and the local OFFER marked; the release may fail and
\* leaves both to the next revocation.
Revoked(n) ==
    LET o == handler[n].offer
    IN /\ handler[n].op = "releasing"
       /\ \/ /\ slots' = [slots EXCEPT ![n] = @ \ {o}]
             /\ gone' = IF dir[o] = n THEN gone \cup {o} ELSE gone
             /\ node' = [node EXCEPT ![n] = IF dir[o] = n /\ @ # "absent" THEN "fresh" ELSE @]
          \/ UNCHANGED <<slots, gone, node>>
       /\ Leave(n)
       /\ UNCHANGED <<dir, doc, match>>

\* compactOffer drops the envelope of a revoked OFFER.
CompactOffer(o) ==
    /\ doc[o].state = "revoked"
    /\ doc' = [doc EXCEPT ![o].state = "compacted"]
    /\ UNCHANGED <<node, dir, gone, handler, slots, match>>

\* The owner revokes the OFFER at another relay.
PeerRevokes(o) ==
    /\ doc[o].state = "active"
    /\ doc' = [doc EXCEPT ![o].state = "revoked"]
    /\ slots' = [slots EXCEPT ![doc[o].owner] = @ \ {o}]
    /\ UNCHANGED <<node, dir, gone, handler, match>>

---------------------------------------------------------------------------

\* matchingOffers: what is listed, not revoked and of a fresh node is read from the
\* ledger.  The requester is none of the Nodes.
MatchStarts ==
    /\ match.pc # "reading"
    /\ match' = [NoMatch EXCEPT !.pc = "reading",
                    !.reads = {o \in Listed \ gone : node[dir[o]] = "fresh"}, !.dead = gone]
    /\ UNCHANGED <<node, dir, gone, handler, doc, slots>>

\* getOffer, durableOfferMatches: a revoked or missing document drops a candidate.
MatchReads(o) ==
    /\ match.pc = "reading" /\ o \in match.reads
    /\ match' = [match EXCEPT !.reads = @ \ {o},
                              !.eligible = IF doc[o].state = "active" THEN @ \cup {o} ELSE @]
    /\ UNCHANGED <<node, dir, gone, handler, doc, slots>>

\* rankOffers: price, load, cooldown and sockets decide; any may come first.
MatchEnds ==
    /\ match.pc = "reading" /\ match.reads = {}
    /\ \E o \in IF match.eligible = {} THEN {None} ELSE match.eligible :
          match' = [match EXCEPT !.pc = "matched", !.choice = o]
    /\ UNCHANGED <<node, dir, gone, handler, doc, slots>>

DirectoryNext ==
    \/ \E n \in Nodes :
          \/ GoesStale(n) \/ Register(n) \/ Registered(n) \/ RegisterFails(n)
          \/ PublishChecked(n) \/ ClaimOfferSlot(n) \/ Created(n) \/ CreateUnknown(n)
          \/ CreateConflict(n) \/ ReleaseOfferClaim(n) \/ RevokeCommits(n) \/ Revoked(n)
          \/ \E o \in Offers : Restore(n, o) \/ Publish(n, o) \/ Revoke(n, o)
    \/ \E o \in Offers : CompactOffer(o) \/ PeerRevokes(o) \/ MatchReads(o)
    \/ MatchStarts \/ MatchEnds

DirectorySpec == DirectoryInit /\ [][DirectoryNext]_directoryVars

---------------------------------------------------------------------------

ActiveOf(n) == {o \in Offers : doc[o] = [owner |-> n, state |-> "active"]}

(* Registrations and publications that wait for the ledger together never  *)
(* push the tables over maxNodes and maxOffers, evictions included, and a  *)
(* listed OFFER belongs to a registered node (register, offers).           *)
TablesKept ==
    /\ Cardinality(Present) <= MaxNodes
    /\ Cardinality(Listed) + Cardinality(PendingOffers) <= MaxOffers
    /\ \A o \in Listed : node[dir[o]] # "absent"

(* The slot of an OFFER is claimed before its document exists and outlives *)
(* it, so an owner never has more active documents than restoreOffers will *)
(* scan: otherwise it could never register again (claimOfferSlot,          *)
(* releaseRevokedOfferSlot, releaseOfferClaim).                            *)
ScanFits ==
    \A n \in Nodes : ActiveOf(n) \subseteq slots[n] /\ Cardinality(slots[n]) <= SlotLimit

(* A NEED is not matched with an OFFER this relay revoked before.          *)
NoRevokedMatch == match.eligible \cap match.dead = {}

---------------------------------------------------------------------------

\* What the operation that holds the lock of owner n relies on: its node is not
\* evicted under it, its claim stands until the document exists, a document that it lost to another owner stays
\* that owner's, and one that it revoked stays revoked.
HandlerFits(n) ==
    LET o == handler[n].offer
    IN /\ handler[n].op \notin {"idle", "registering"} => o \in Offers
       /\ handler[n].op \in {"publishing", "claiming", "creating"} => node[n] # "absent"
       /\ handler[n].op = "creating" /\ doc[o] = NoDoc => o \in slots[n]
       /\ handler[n].op = "conflict" => doc[o] # NoDoc /\ doc[o].owner # n
       /\ handler[n].op \in {"revoking", "releasing"} => doc[o].owner = n
       /\ handler[n].op = "releasing" => doc[o].state # "active"

DirectoryInv ==
    /\ DirectoryTypeOK /\ TablesKept /\ ScanFits
    /\ \A n \in Nodes : HandlerFits(n)
    /\ \A o \in Offers : doc[o] = NoDoc <=> doc[o].owner = None
    /\ (match.reads \cup match.eligible) \cap match.dead = {}
=============================================================================
