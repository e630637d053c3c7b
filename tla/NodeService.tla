---------------------------- MODULE NodeService -----------------------------
(***************************************************************************)
(* The long-running node service (network/testnet/node-service.js): its    *)
(* identity file, start and stop, the requests of its control server and   *)
(* of authorised operators, and the operations they share while those run. *)
(*                                                                         *)
(* The node itself is NodeRuntime's and NodePersistence's subject: here it *)
(* replicates a record or does not, and persistState() makes what the node *)
(* held when it was called durable.  The service may crash at any await.   *)
(***************************************************************************)
EXTENDS Naturals, FiniteSets

CONSTANTS
    Requests,
    Keys,             \* dedupe keys of replicate, option sets of refresh
    Operators,        \* requests that come from a configured operator
    MaxCrashes        \* bound

VARIABLES
    service,          \* phase of the service
    identity,         \* identity of the running process; 0 before it has one
    idFile,           \* identity on disk; 0 when there is none
    created,          \* identities created so far
    req,              \* of each request: pc, kind, key, how it came
    flight,           \* replicateInFlight: flight[k] of each key
    refresh,          \* dhtRefreshInFlight with its key
    held, disk,       \* records in the node, and in its state file
    crashes

serviceVars == <<service, identity, idFile, created, req, flight, refresh, held, disk, crashes>>

NoFlight == [at |-> "none", snap |-> {}]
NoKey == "none"
NewRequest == [pc |-> "new", kind |-> "none", key |-> NoKey, http |-> FALSE]
Busy == {"joined", "work", "repair", "persist"}
Node == <<identity, idFile, created, crashes>>

ServiceInit ==
    /\ service = "loading" /\ identity = 0 /\ idFile = 0 /\ created = 0
    /\ req = [r \in Requests |-> NewRequest]
    /\ flight = [k \in Keys |-> NoFlight]
    /\ refresh = [at |-> "none", key |-> NoKey]
    /\ held = {} /\ disk = {} /\ crashes = 0

-----------------------------------------------------------------------------
\* loadOrCreateTestnetIdentity reads the file, or creates an identity that it
\* writes to a temporary file and renames before anyone uses it.
ReadIdentity ==
    /\ service = "loading"
    /\ \/ idFile # 0 /\ identity' = idFile /\ service' = "starting" /\ UNCHANGED created
       \/ /\ idFile = 0 /\ created' = created + 1 /\ identity' = created + 1
          /\ service' = "writing"
    /\ UNCHANGED <<idFile, crashes, req, flight, refresh, held, disk>>

WriteIdentity ==
    /\ service = "writing"
    /\ idFile' = identity /\ service' = "starting"
    /\ UNCHANGED <<identity, created, crashes, req, flight, refresh, held, disk>>

\* node.start() loads the persisted state; when it fails the server is closed.
StartNode ==
    /\ service = "starting"
    /\ \/ service' = "up" /\ held' = disk
       \/ service' = "failed" /\ UNCHANGED held
    /\ UNCHANGED <<Node, req, flight, refresh, disk>>

\* SIGTERM: no new request, the ones under way first, then the node.
Stop ==
    /\ service = "up"
    /\ service' = "draining"
    /\ UNCHANGED <<Node, req, flight, refresh, held, disk>>

CloseNode ==
    /\ service = "draining"
    /\ \A r \in Requests : req[r].http => req[r].pc \notin Busy
    /\ service' = "stopped"
    /\ UNCHANGED <<Node, req, flight, refresh, held, disk>>

Crash ==
    /\ service \notin {"loading", "stopped"} /\ crashes < MaxCrashes
    /\ crashes' = crashes + 1
    /\ service' = "loading" /\ identity' = 0
    /\ req' = [r \in Requests |-> IF req[r].pc \in Busy THEN [req[r] EXCEPT !.pc = "lost"] ELSE req[r]]
    /\ flight' = [k \in Keys |-> NoFlight]
    /\ refresh' = [at |-> "none", key |-> NoKey]
    /\ held' = {}
    /\ UNCHANGED <<idFile, created, disk>>

-----------------------------------------------------------------------------
Answered(r, kind, k, http, how) ==
    req' = [req EXCEPT ![r] = [pc |-> how, kind |-> kind, key |-> k, http |-> http]]

\* A request that came over HTTP before the node is up is answered 503; an
\* operator's command reaches only a node that runs.
Admitted(r, http) ==
    /\ req[r].pc = "new"
    /\ IF http THEN service = "up" ELSE service \in {"up", "draining"} /\ r \in Operators

Unavailable(r) ==
    /\ req[r].pc = "new" /\ service = "starting"
    /\ Answered(r, "none", NoKey, TRUE, "unavailable")
    /\ UNCHANGED <<service, Node, flight, refresh, held, disk>>

Denied(r) ==
    /\ req[r].pc = "new" /\ service \in {"up", "draining"} /\ r \notin Operators
    /\ Answered(r, "none", NoKey, FALSE, "denied")
    /\ UNCHANGED <<service, Node, flight, refresh, held, disk>>

\* replicate: a request for a write that is under way shares it.
Replicate(r, k, http) ==
    /\ Admitted(r, http)
    /\ \/ /\ flight[k].at = "none"
          /\ flight' = [flight EXCEPT ![k].at = "work"]
          /\ Answered(r, "replicate", k, http, "work")
       \/ /\ flight[k].at # "none"
          /\ Answered(r, "replicate", k, http, "joined")
          /\ UNCHANGED flight
    /\ UNCHANGED <<service, Node, refresh, held, disk>>

\* refreshDht: the same options share the walk, others are refused with 409.
RefreshDht(r, k, http) ==
    /\ Admitted(r, http)
    /\ \/ /\ refresh.at = "none"
          /\ refresh' = [at |-> "work", key |-> k]
          /\ Answered(r, "refresh", k, http, "work")
       \/ /\ refresh.at # "none" /\ refresh.key = k
          /\ Answered(r, "refresh", k, http, "joined")
          /\ UNCHANGED refresh
       \/ /\ refresh.at # "none" /\ refresh.key # k
          /\ Answered(r, "refresh", k, http, "conflict")
          /\ UNCHANGED refresh
    /\ UNCHANGED <<service, Node, flight, held, disk>>

\* repair and sweep share nothing; both end by saving the state.  No record
\* expires within the horizon of the model, so a sweep drops none.
Maintain(r, kind, http) ==
    /\ Admitted(r, http)
    /\ Answered(r, kind, NoKey, http, IF kind = "repair" THEN "repair" ELSE "persist")
    /\ UNCHANGED <<service, Node, flight, refresh, held, disk>>

Repaired(r) ==
    /\ req[r].pc = "repair"
    /\ \E how \in {"persist", "error"} : req' = [req EXCEPT ![r].pc = how]
    /\ UNCHANGED <<service, Node, flight, refresh, held, disk>>

-----------------------------------------------------------------------------
Sharing(kind, k) == {r \in Requests : /\ req[r].pc \in Busy
                                      /\ req[r].kind = kind /\ req[r].key = k}

\* The operation settles: whoever shares it gets its outcome, and in its
\* finally block the entry that names it is removed.
Settled(kind, k, how) ==
    req' = [r \in Requests |-> IF r \in Sharing(kind, k) THEN [req[r] EXCEPT !.pc = how] ELSE req[r]]

\* replicateRecord reached its quorum; persistState() is called.
Replicated(k) ==
    /\ flight[k].at = "work"
    /\ held' = held \cup {k}
    /\ flight' = [flight EXCEPT ![k] = [at |-> "persist", snap |-> held \cup {k}]]
    /\ UNCHANGED <<service, Node, req, refresh, disk>>

ReplicateDone(k) ==
    /\ flight[k].at = "persist"
    /\ disk' = disk \cup flight[k].snap
    /\ Settled("replicate", k, "ok")
    /\ flight' = [flight EXCEPT ![k] = NoFlight]
    /\ UNCHANGED <<service, Node, refresh, held>>

\* The quorum was missed, or the state could not be written.
ReplicateFails(k) ==
    /\ flight[k].at # "none"
    /\ Settled("replicate", k, "error")
    /\ flight' = [flight EXCEPT ![k] = NoFlight]
    /\ UNCHANGED <<service, Node, refresh, held, disk>>

\* refreshRoutingTable is over; persistState() is called.
Refreshed ==
    /\ refresh.at = "work"
    /\ refresh' = [refresh EXCEPT !.at = "persist"]
    /\ UNCHANGED <<service, Node, req, flight, held, disk>>

\* The state is saved, and lastDhtRefresh is set; or the refresh failed.
RefreshDone(how) ==
    /\ refresh.at = "persist" \/ (refresh.at = "work" /\ how = "error")
    /\ Settled("refresh", refresh.key, how)
    /\ disk' = IF how = "ok" THEN disk \cup held ELSE disk
    /\ refresh' = [at |-> "none", key |-> NoKey]
    /\ UNCHANGED <<service, Node, flight, held>>

MaintainDone(r) ==
    /\ req[r].pc = "persist"
    /\ \/ disk' = disk \cup held /\ req' = [req EXCEPT ![r].pc = "ok"]
       \/ UNCHANGED disk /\ req' = [req EXCEPT ![r].pc = "error"]
    /\ UNCHANGED <<service, Node, flight, refresh, held>>

ServiceNext ==
    \/ ReadIdentity \/ WriteIdentity \/ StartNode \/ Stop \/ CloseNode \/ Crash
    \/ Refreshed \/ RefreshDone("ok") \/ RefreshDone("error")
    \/ \E k \in Keys : Replicated(k) \/ ReplicateDone(k) \/ ReplicateFails(k)
    \/ \E r \in Requests :
         \/ Unavailable(r) \/ Denied(r) \/ MaintainDone(r) \/ Repaired(r)
         \/ \E http \in BOOLEAN :
              \/ Maintain(r, "repair", http) \/ Maintain(r, "sweep", http)
              \/ \E k \in Keys : Replicate(r, k, http) \/ RefreshDht(r, k, http)

ServiceSpec == ServiceInit /\ [][ServiceNext]_serviceVars

-----------------------------------------------------------------------------
\* The shape of the service's state.
ServiceTypeOK ==
    /\ service \in {"loading", "writing", "starting", "failed", "up", "draining", "stopped"}
    /\ {identity, idFile} \subseteq 0..created
    /\ \A k \in Keys : flight[k].at \in {"none", "work", "persist"} /\ flight[k].snap \subseteq Keys
    /\ refresh.at \in {"none", "work", "persist"}
    /\ disk \subseteq Keys /\ held \subseteq Keys
    /\ \A r \in Requests : req[r].pc \in Busy \cup {"new", "ok", "error", "lost", "denied",
                                                    "unavailable", "conflict"}

\* Whatever crashes and shares: a record whose write was answered is in the
\* state file, also for those who joined it; every request that waits waits
\* for an operation that runs; a node that serves does so under the identity
\* on disk, which never changes again; a stopped node owes no HTTP answer.
ServiceKeepsItsWord ==
    /\ \A r \in Requests :
         /\ req[r].kind = "replicate" /\ req[r].pc = "ok" => req[r].key \in disk
         /\ req[r].pc \in {"joined", "work"} =>
              IF req[r].kind = "replicate" THEN flight[req[r].key].at # "none"
              ELSE refresh.at # "none" /\ refresh.key = req[r].key
    /\ service \in {"up", "draining", "stopped"} => identity = idFile /\ disk \subseteq held
    /\ service = "stopped" => \A r \in Requests : req[r].http => req[r].pc \notin Busy
=============================================================================
