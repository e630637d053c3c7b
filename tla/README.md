# A verification project for the TRUYN network

TRUYN is a network in which a *requester* sends a signed **NEED**, a *relay*
matches it to an **OFFER** of a *provider*, and the provider answers with
numbered **PARTIAL** events and one **RESULT**. A requester may **REVOKE** a
NEED. Relays share a *lifecycle ledger* (a SQLite file, or a Cosmos DB
container). Nodes also talk to each other directly over QUIC, find each other in
a Kademlia overlay, replicate records and transparency logs, hold partitions of
contexts, and verify claims for each other. Providers run adapters that may call
paid external services; A2A and MCP agents, SDKs and a desktop client sit at the
edges.

This directory holds TLA+ modules translated from the source, TLC
configurations that check them on small instances, and TLAPS proofs of the
results that matter most. `PROJECT.json` maps every definition to the lines it
models and lists components, runs, mutants, findings, hazards and theorems.

To check it: `tlc -config <X>.cfg <module>` for a run (section 4 names both),
`tlapm <module>.tla` for the proofs (section 6 names the modules).

## 1. Inventory

Paths are relative to the repository. For each part: the state it keeps, what it
does, what makes it hard, and what makes it right.

### Requests: relay and ledgers
| part | code | state and operations | hard | right when |
|---|---|---|---|---|
| Lifecycle ledgers | `network/relay/durable-lifecycle-ledger.js`, `cosmos-lifecycle-ledger.js` | status, provider, PARTIAL number and outbox of every NEED; OFFERs and owner slots; effects; capacity tickets | several processes on one file; compare-and-swap with stale reads; requests served after their caller gave up; compaction | a NEED is reserved once and ends once, the end and its event are one step, nothing announced is withdrawn, an answer stays true, capacity holds |
| Relay, compact path | `network/relay/server.js` | requests, terminal reservations, in-flight counts; NEED, PARTIAL, RESULT, REVOKE, expiry, status, eviction, recovery | every handler awaits the ledger in the middle; peers end the same NEEDs; restart | a NEED is dispatched once, one committed end, exact books |
| Relay, legacy path | `network/relay/server.js` 1359-1562 | requests by signed NEED; RESULT, REVOKE, status, outbox | a RESULT or REVOKE reaches a relay that did not admit the NEED, or was restarted | everybody is told the end the ledger holds; the outbox carries what the live events may miss |
| Relay, chains | `network/relay/server.js` 739-829 | chain, stage, deadline | a time-out against a stage that is being matched; a repeated frame | one stage of a chain is in flight at a time, each once, after the result of the one before it; of a closed chain only a stage that was being matched when it closed |
| Relay, directory | `network/relay/server.js`, Cosmos OFFER documents | nodes, OFFERs, their indexes and limits | registration, eviction and restore interleave with publishing and revoking; slot releases that fail | the tables agree, limits hold, a revoked OFFER is not matched |
| Relay, delivery | `network/relay/server.js` 395-540 | three queues, long polls, a socket with backpressure | sockets fill, close and are replaced while polls wait | a terminal is in exactly one place and on its way |
| Node client | `node/client.js` | session, fast socket, event queue, waiters | registrations answered out of order; late events of an old socket | an event reaches one reader, once, or is lost with the reader's failed check of its signer |
| Context store | `network/relay/server.js`, `core/context/index.js`, `node/client.js` | documents and deltas by content id | a relay that lies; concurrent deltas | a block a caller accepts is the one its root commits to |

### A node and its neighbours
| part | code | state and operations | hard | right when |
|---|---|---|---|---|
| Admission queue | `network/admission/bounded-queue.js` | `inFlight`, parked calls, counters | a woken call resumes in a later microtask | no parked call forgotten, no slot idle, every call counted once |
| Durable inbox | `network/admission/durable-inbox.js` | entries, file, write queue; accept, run, recover | every write is an await; double delivery; crash anywhere | handlers run durable work, pending work is settled |
| QUIC sessions | `network/transport/quic.js`, `sessions/authenticated-session.js`, `admission/need-replay.js` | hello, session keys, replay guard, lanes | simultaneous streams, a restart, a full replay cache | both ends agree on a session, a NEED is handled once |
| Direct transport | `network/transport/p2p.js` | routes, leased clients | retries and the relay fallback against a late success | an envelope enters one transport, no client is closed under a send |
| Discovery RPC | `network/discovery/quic-rpc.js` | lanes, pool of clients, leases | a record supersedes the one a connect was made for | no call waits while its lane has room; leases and pool agree |
| Peer discovery | `network/discovery/peer-discovery.js`, `network/dht/kademlia.js` | records, buckets, walks, refresh | answers arrive in any order while the table is trimmed and swept | routed peers have records; a walk with work left goes on |
| DHT replication | `network/replication/dht-replication.js` | record stores, quorum writes, repair | late answers, restarts, expiry | a put that returned is on a quorum of disks |
| Node runtime | `network/runtime.js` | own record, its sequence, placement, retries | churn, renewal and repair in the background, crash | ready means placed; what churn undid is repaired |
| Node persistence | `network/runtime.js`, `network/state/persistent-state.js` | generations, checkpoint timer, flush | barriers during a save, failed writes, crash | a confirmed barrier is on disk; no change is forgotten |
| Mailbox relay | `network/testnet/relay-service.js`, `network/transport/http-relay.js` | queues, waiters, leases, results | lost requests and responses, expiry | an envelope runs once, its sender gets its handler's result |
| Node service | `network/testnet/node-service.js` | identity, operations under way | joined requests, crash between replicate and persist | what was answered is durable; one identity |

### Contexts and trust
| part | code | hard | right when |
|---|---|---|---|
| Semantic index | `core/context/semantic-router-v2.js`, `sharded-semantic-index-store.js` | prepare, publish and purge of roots that share blocks | what is called ready has its vectors on disk; a preparation that ended has its index there unless it was purged |
| Flights | `core/context/singleflight-semantic-router.js` | warm-up, joins and lanes | a query runs once at a time, nobody waits for nothing |
| Placement | `node/placement-directory.js`, `core/network/placement-discovery.js` | gossip, reissue, revocation, partial answers | a lookup returns live records enough directories hold |
| Federated retrieval | `node/federated-context.js`, `core/context/byzantine-retrieval.js` | faulty holders | a block is accepted with the quorum it names, from diverse replicas |
| Distributed context | `node/distributed-context.js` | retrievals that share one inbox | an answer counts only for the call that asked |
| Trust assessment | `core/trust/lifecycle.js`, `claim-verification.js`, `core/provenance` | re-issue, revocation, dispute, lineage | verified means live and independent evidence |
| Trust authority | `core/trust/source-owner-pki.js`, `receipt-v2.js`, `network/discovery/verifier-dht.js` | the log grows between two reads | believed only under a committed delegation that is not revoked |
| Trust verification | `node/trust-verification.js`, `node/active-trust-network.js` | verifications that share one inbox; attesters that stop | an attestation counts only for the call that asked |
| Transparency log | `core/trust/transparency-log.js`, `network/replication/transparency-replication.js` | pushes, pulls and appends interleave with writes | an acknowledged entry is held; what is served is backed by the file |

### Providers and clients
| part | code | hard | right when |
|---|---|---|---|
| Adapter host, provider loop | `adapters/sdk/index.js`, `runtime/service.js` | redelivery, revocation, abort, detachment, a killed process around a paid call | paid work runs at most once, the effect ledger tells the truth, cancelled work stops, `stop()` returns |
| G5 receipts | `runtime/g5-*.js` | lost answers, dead hosts, rival recoveries | one paid call; what completes the NEED is what the provider answered |
| Rate governor | `adapters/providers/common/provider-rate-governor.js` | concurrent callers, shared cooldown | no more attempts than bucket and time allow, save for one oversized request; no sleep planned past the limit |
| Durable JSON store | `core/security/durable-json-store.js` | lock files taken over from dead owners | transactions are serialised unless a live lock is taken for a dead one |
| A2A server and client | `adapters/a2a` | every request drains the events of all tasks; eviction at capacity; an untrusted remote agent | a task ends once, a stream carries all that happens from when it was asked for, a call stays with one task |
| MCP tools | `adapters/mcp/client.js`, `adapters/providers/mcp-discovery.js` | a server that answers anything, late, or with another request's id | a call returns its own answer; only tools and UI resources that were imported are used |
| MCP imports | `adapters/mcp` | reads and notifications overtake each other | an import never regresses; only what was asked and granted invalidates |
| SDK local node | `sdk/typescript/src/local-node.ts` | one pump for all waiters | every caller gets its event |
| Desktop client | `clients/native/src-tauri/src/lib.rs` | two processes, three files, sessions replaced while commands use them | a NEED is recovered under its identity and asked about at its relay |

### How the parts interact

    requester --NEED--> relay --reserveNeed--> ledger <--reserveNeed-- other relays
        ^                 |                      ^  ^
        | RESULT/PARTIAL  | dispatch             |  | beginEffect / finishEffect, receipts
        | (live, queue    v                      |  |
        |  or outbox)  provider: adapter host ---+--+--> governor --> external service
        |                 |
        +---- relay <-----+
    node --direct transport--> QUIC session --> replay guard --> admission queue
                 |                                                  --> durable inbox --> handler
                 +--fallback--> mailbox relay
    node --discovery RPC--> peers: routing table, records, DHT replicas, log replicas
    coordinator --NEEDs--> holders of context partitions, attesters of claims
    A2A / MCP / SDK / desktop client --> node client --> relay

`PROJECT.json` lists all components, also those that are not modelled, and under
"hazards" what in this code is hard to test, line by line, with the properties
that would catch it going wrong.

## 2. Modules

State variables keep the names of the fields they stand for; actions are the
functions of the code, or the stretch of one between two awaits. The lines of
every definition are in `PROJECT.json`.

| module | state | actions |
|---|---|---|
| `NeedLifecycle` | `status`, `events` | `Reserve`, `Stream`, `Settle`: the promise both ledgers give |
| `LifecycleLedger` | columns as functions of keys; `rowid` is the commit order | one per transaction of the SQLite ledger |
| `CosmosLedger` | every version of each document, tickets, the request on the `wire` | one per GET, PUT and POST as the store serves it; `GiveUp` |
| `RelayFastPath` | fields of the relay for one requester, the shared ledger, calls | handlers between awaits; peers, eviction, restart |
| `RelayLegacy` | ledger shared by relays, their `requests`, reservations and in-flight counts, handlers | one per route between awaits; the ledger's answers; restart |
| `RelayChains` | chain calls, `chains`, stage requests, `inFlight` | start, check, dispatch, stage result, time-out |
| `RelayDirectory` | nodes, OFFERs, documents, slots, one handler per owner, matches | register, restore, publish, revoke, compact, match; a peer relay |
| `RelayDelivery` | three queues, sockets, polls, session | one per function that queues, and per socket or timer event |
| `NodeClient` | registrations, sockets, queue, waiters, chains | register, connect, read, verify, send chain, close; relay answers |
| `ContextStore` | contexts of the relay, cache, calls | put, delta, and the three steps of a verified read |
| `BoundedAdmissionQueue` | fields of the class, `waking` for microtasks | `Reject`, `Enqueue`, `Start`, `Resume`, `Finish` |
| `DurableInbox` | entries, file, write queue, runs | run, write, handler, `Crash`, `Restart` |
| `QuicTransport` | clients, server, replay guard, lanes | hello, send, receive, admit, run, answer, free a place, resume, restart |
| `P2pTransport` | sends, record, pool, connections | discover, connect, dispatch, retry, fallback, sweep |
| `QuicRpc` | calls, lanes, pool, connections | acquire, lease, connect, supersede, answer, sweep |
| `PeerDiscovery` | records, buckets, walk, refresh | announce, walk, answer, hedge, sweep, restart |
| `DhtReplication` | stores, disks, requests, placement | put, serve, acknowledge, read through, reconcile |
| `NodeRuntime` | own record, durable sequence, placement, retries | start, renew, propagate, a caller's announcement, records accepted, seen again or swept, retry, heal, close, restart |
| `NodePersistence` | version, disk, generations, timer, flush, barriers | change, timer, barrier, snapshot, save, fail, crash |
| `RelayMailbox` | items, queue, waiter, receiver | post, poll, handle, complete, expire; lost requests |
| `NodeService` | service, identity, operations under way | start, stop, replicate, maintain, refresh, crash |
| `SemanticIndex` | documents, indexes, vectors, shards, files | publish, prepare, embed, write, retrieve, purge, crash |
| `SemanticFlights` | warm roots, flights, lanes | warm, join, take a turn, publish, invalidate |
| `Placement` | clock, directories, requests, lookup | publish, revoke, gossip, ask, expire |
| `FederatedRetrieval` | offers, one retrieval | discover, ask, answer or fail, decide |
| `DistributedContext` | holders, inboxes, retrievals | offer, serve, retrieve, poll, verify |
| `TrustAssessment` | attestations, certificates, revocations, disputes | one per object that becomes known; sign a receipt |
| `TrustAuthority` | log, delegations, records, lookup, receipt | delegate, publish, append, look up, read head, read state |
| `TrustVerification` | attesters, inboxes, tasks | offer, serve, assign, poll, check |
| `TransparencyLog` | replicas, files, ingests, syncs | append, ingest, persist, push, pull, crash, open |
| `AdapterHost` | host, executions, supervisor, effect ledger | schedule, execute, revoke, start, stop, restart |
| `EffectReceipts` | effect document, hosts, vendor, witnesses | claim, pay, capture, recover, finalise, deliver |
| `ProviderGovernor` | buckets, cooldown, header budget, calls | run, wake, answer, tick |
| `DurableJsonStore` | lock file, processes, revision | one per file-system call; crash |
| `A2aServer` | tasks, requests, queues, push | create, dispatch, wait, open a stream, stream, cancel, poll, evict |
| `A2aClient` | card, executions, stream | discover, send, poll, verify, stream |
| `McpTools` | import, listing, imported tools, requests | discover, list, execute, resolve, and what a response may do |
| `McpImports` | server editions, reads, state, subscription | read, materialise, notify, list |
| `SdkLocalNode` | waiters, pending, pump | wait, pump, settle, close |
| `NativeRecovery` | processes, identity, record, backup, claim | one per file operation of a command; crash |
| `NativeSession` | session, active relay, commands | connect, submit, adopt, poll, refresh, refuse, register, answer; restart |

`LifecycleLedger` and `CosmosLedger` instantiate `NeedLifecycle` with refinement
mappings. `RelayFastPath` and `AdapterHost` contain the ledger as far as they
use it, with the failures the detailed modules justify: an operation commits,
throws, or (Cosmos) commits and throws. Modules refer to each other's subject in
their header where one is the environment of another.
`MCProvider` extends `BoundedAdmissionQueue`, `MCRelay` extends `RelayFastPath`,
and `MCNode` extends `NodePersistence`, `RelayMailbox`, `DhtReplication`,
`P2pTransport`, `TransparencyLog`, `NodeRuntime` and `A2aClient`; the other parts
of their runs are instances. The three hold the proofs about their parts.

### Conventions
JavaScript runs to the next `await` without interruption, so a stretch between
two awaits is one action; what was read before an await is kept in the call's
own record and used after it. A handler that refuses before it changes anything
is left out. Definitions marked "Mutant" are altered forms of the definition
that follows; they are used only to confirm that a property notices the
alteration.

### Abstractions worth knowing
- **Payloads, keys, signatures** do not appear; a signature check is a guard
  that holds, and a content id is the content. Where the code compares digests
  or ids, the model compares what they stand for.
- **SQLite transactions** are one step (`BEGIN IMMEDIATE`); rows are never
  deleted, so `rowid` grows by one.
- **Cosmos** keeps every version; a read returns any version not older than the
  caller's session knows; an ETag is an index into the history. The store is
  external, modelled from how the code uses it.
- **Time** is a choice: a deadline may strike whenever its timer runs. Clocks
  appear only where the code compares times (`Placement`, `TrustAssessment`,
  `TrustAuthority`, `ProviderGovernor`), in ticks.
- **Peers, remote agents, holders, attesters and relays** that the code does not
  trust may answer anything of the right shape.
- **Relay**: the await of an operation without a ledger (`mode = "memory"`)
  still yields to whatever is ready. One requester and one provider, any number
  of NEEDs.
- **Host**: a chain stage uses no effect ledger, so it is the case
  `Ledger = FALSE`. Billing and access control are outcomes, not policies. The
  history of what was executed and answered is kept only with a ledger, for only
  then a property is about it.
- **Disturbances** of one kind share a bound where their order is what matters:
  `MaxTurns` bounds the processes of a node, the changes of its closest peers and
  its callers' announcements together, `MaxLogFaults` the failed writes and crashes of log replicas.

## 3. How the runs are built

Most parts never touch each other's state, so composing them would multiply
states and show nothing. A run of an `MC` module is therefore a *sum*: `Init`
chooses a `focus`, the part that focus names runs as its own specification, and
the variables of the others keep a constant value. The state space is the sum
of the parts' state spaces. Each property is stated for the focus it is about.
Where parts have many variables they share the positional ones `v1`, `v2`, ...;
the comment at the instances says which part binds which. A part an `MC` module
extends keeps its own variables, which is what a proof about it wants. Parts that do interact
are composed inside a module, as the table above says: relay with ledger, client
with relay, coordinator with holders, transport with replay guard, host with
effect ledger and supervisor.

Runs switch deadlock checking off because the instances are finite: when all
calls have been made and answered nothing is left to do.

## 4. Runs

### Checks that pass
| run | module, configuration | distinct states |
|---|---|---|
| `sqlite_ledger` | `LifecycleLedger`, `MCLifecycleLedger.cfg` | 42,833 |
| `relay` | `MCRelay`, `MCRelay.cfg` | 1,045,980 |
| `provider` | `MCProvider`, `MCProvider.cfg` | 380,433 |
| `node` | `MCNode`, `MCNode.cfg` | 1,815,217 |
| `overlay` | `MCOverlay`, `MCOverlay.cfg` | 2,969,000 |
| `agents` | `MCAgents`, `MCAgents.cfg` | 3,192,900 |

**`sqlite_ledger`** - two NEEDs and room for one, two nodes, four outbox rows,
three PARTIAL numbers, two digests, a batch of one, fair. Outbox and status
agree (`OutboxAgreesWithStatus`), the outbox is in the order of the life
(`OutboxInLifeOrder`), PARTIAL numbers are never reused
(`CommittedPartialsStand`), a node is shown events in commit order
(`ShownInCommitOrder`) and each of them in the end (`CommittedEventsAreShown`),
and the ledger refines `NeedLifecycle` (`KeepsLifecycle`).

**`relay`**
- *race*: three handlers of one NEED, peers, eviction and a restart, Cosmos
  ledger. *capacity*: two NEEDs for one terminal and one request, Cosmos ledger
  or none. `NeedsLiveOnce`: dispatched once, only committed ends, one terminal,
  PARTIALs in order. `BooksBalance`: terminal room, reservations and in-flight
  counts are exact.
- *legacy*: two handlers of one NEED at two relays that share a Cosmos ledger, or
  at one with a SQLite ledger, and a restart. *room*: two NEEDs for one request,
  one with the identifier of an OFFER. For these `NeedsLiveOnce` says that no
  relay keeps, tells or sends an end the ledger does not hold, and that the
  outbox carries exactly what was committed; `BooksBalance` that the in-flight
  count is exact.
- *tickets*: four calls of the Cosmos ledger, one of them a reservation, two NEEDs,
  capacity one. *compaction*: five calls, the shortest life with something to
  compact.
  `CapacityIsKept`, `AnswersAreKept`, and `LedgerKeepsLifecycle`, the refinement
  of `NeedLifecycle`.
- *chains*: three calls on two chains of two stages. *directory*: two nodes and
  two OFFERs for one place each. *delivery*: events to two sockets through
  queues of one place. `TablesSound`: of a chain whose frame came once one stage
  is in flight, after the result of the one before it, and of a closed chain none
  but the stage that was being matched when it closed;
  the tables of nodes and OFFERs agree, stay within limits and match no revoked
  OFFER; a terminal is in exactly one place and will be sent.

**`provider`** - five calls, two slots and a line of two; two envelopes, three
deliveries, a failing write, two crashes; one paid NEED with redelivery, retry,
restart, a ledger fault and REVOKEs of requester and stranger; fair.
`WorkConserving`, `ZeroSilentLoss`, `ParkedCallsSettle`; `InboxIsDurable` (a
handler runs only for an envelope the file holds, unless another run has
completed it and it was trimmed), `InboxRecovers`; `PaidEffectsSound` (executed at most once, the ledger tells the
truth, reservations accounted), `StopReturnsInTime`.

**`node`**
- *host* (three NEEDs, one place, a line of one): `HostSound`. *rpc* (three calls,
  two connections): `RpcSound`. *mailbox* (three envelopes): `MailboxSound`.
  *persist* (three barriers, a failed write, a crash): `BarriersAreDurable`.
  *index* (three calls on two roots that share a block, a crash) and *flights*
  (three queries of two roots): `SemanticSound`: vectors of what is called ready
  on disk, the index too once its preparation ended, flights that somebody flies,
  one lane per query.
- *dht*: two puts to a quorum of two and a restart, or one put, a restart and a
  reconcile. `QuorumIsDurable`: a put that returned is on disk at one replica fewer
  than the quorum besides the publisher.
- *p2p*: two sends, three connections, superseded records and faults. `P2pSound`:
  an envelope enters one transport, and no client closes under a dispatch.
- *log*: two replicas, two events, a sync, two failed writes or crashes.
  `LogSound`: what a sync acknowledged is held, what is served is backed.
- *runtime*: a node whose two closest peers change once (by an accepted
  record, a sweep or a record seen again), that a caller lets announce once, that
  renews with and without announcing, or that starts twice.
  `RuntimeSound`: ready means that the required peers hold the current record, and
  that they are the closest ones unless a sweep, a record seen again, a caller's
  announcement or a quiet renewal came after the targets were last staged; an
  accepted record and a sweep are repaired.
- *client*: an A2A execution, two discoveries of cards, a stream.
  `OneTaskPerCall`: one message, one task, a completed output within the limit.

**`overlay`**
- *discovery* and *cache* (three peers, buckets of one): `DiscoverySound`, tables
  and record cache agree and a walk with work left goes on.
- *quic* and *memory* (two requests with a ledger, or with ids in memory) and
  *lanes* (three requests, room for one, where a freed place is taken by a new
  call before the woken one resumes): `QuicSound`, both ends agree on the session,
  a NEED is handled once, and no place idles while a request waits for it.
- *placement* (one holder, two of three directories asked, one answer enough, gossip) and
  *agreeing* (all three asked, two must agree, no gossip), *federated* (two partitions, one
  liar) and *context* (two retrievals): `ContextSound`. A lookup returns records
  that had not expired when it began, none that all directories it asks knew to be
  revoked or replaced, each backed by as many directories as must agree.
- *trust*, *authority*, and four instances of the coordinators of attestations:
  *verify* (two verifications that each find two attesters), *challenged* (a
  challenge that finds two), *restarted* (attesters whose loop dies and is started
  again). `TrustSound`. Of a verification that ends, each attester it found has
  exactly one attestation, made for it.

**`agents`** - each focus has two or three rival calls, and a crash where the code
survives one.
- *tasks* (two messages, two tasks), *full* (one message twice, one task) and
  *streamed* (one task, two partials, streams opened before and after them):
  `TasksSound`.
- *mcp* (two reads of items of three editions, two of one date), *listening* (two
  subscriptions to two resources) and *tools*: `ImportsSound`.
- *relayed*, *store* and *local*: `ClientSound`.
- *paced* (two callers, one larger than the bucket, a timer that may be late),
  *json*, *service* and *effects*: `ServiceSound`.
- *native* (files, two processes) and *session* (two commands, two relays, a NEED
  that another process left): `NativeSound`.

The comment above each property in the `MC` module names the properties of the
components it puts together; the comment in the component says what each means.

### Checks that fail, and what they show
Each states what a comment, a test or a document says; TLC shows a behaviour of
the code that contradicts it.

| run | module, configuration | property | what happens |
|---|---|---|---|
| `admission_queue_bound` | `BoundedAdmissionQueue`, `MCBoundedAdmissionQueueBound` | `InFlightBounded` | the `finally` block frees the slot and wakes a parked call; a call that arrives before it resumes starts as well, and both run in one slot |
| `relay_eviction` | `RelayFastPath`, `MCRelayEviction` | `TerminalRoom` | evicting a stale requester deletes its reservation count while its requests still hold reservations; new ones are granted on top |
| `durable_inbox_twice` | `DurableInbox`, `MCDurableInboxTwice` | `CompletedStands` | two deliveries of a new envelope both execute; the later one throws and overwrites the completed entry |
| `runtime_sequence` | `NodeRuntime`, `MCRuntimeSequence` | `SequenceNamesOneRecord` | a ping hands out a new peer record before it is persisted; after a crash another record gets the same sequence |
| `log_reload` | `TransparencyLog`, `MCTransparencyReload` | `Reloads` | two ingests write their entries in the order the writes end; the file cannot be opened again |
| `mcp_stale` | `McpImports`, `MCMcpStale` | `StaleUntilReread` | a read answered before an update notification and materialised after it clears the mark the notification set |

`TerminalRoom` holds in `relay`, where the focus *capacity* evicts no node.

### Other behaviours of the models worth a look
No run states these; each is a behaviour the module has, and the properties are
stated so that they say what does hold.

- *Relay without a ledger*: two RESULT frames read from one socket together both
  pass the terminal check before either marks the request, and both are
  delivered, whereas `spec/protocol/v1/lifecycle.md:26` says later attempts are
  rejected before delivery. `OneTerminal` is checked with a ledger.
- *NEED ended elsewhere*: a NEED that is completed or cancelled through another
  relay stays matched, and in flight, at the relay that admitted it; that relay's
  `/v1/requests` says "matched" while the ledger has the end, and every other
  relay reports `reconciliationRequired` for a NEED that is simply under way.
- *REVOKE during admission*: between `reserveNeed` and `markMatchedRequest` a
  REVOKE is committed and left to the outbox; the NEED then still goes out live,
  and the relay holds it as matched (`server.js:1379`).
- *Left reservation*: when `pruneCompleted` makes no room (`server.js:1372`), the
  selection reservation just made is not withdrawn and counts as load of the
  provider until it expires.
- *Status route*: an end that a peer committed is marked without
  `releaseFastTerminal`; the reservation stays until the requester is evicted.
- *Relay delivery*: a legacy event behind a full but open socket stays queued
  until the next poll or message (`server.js:437`); the bounded queue may push
  out a REVOKE (`server.js:412`).
- *Inbox replay*: a duplicate is given a completed result before the write that
  persists it; a crash then forgets it and the work runs again.
- *Preserved work*: `stop({preserveDequeuedWork: true})` queues a NEED again
  whose RESULT the relay took during the drain; without an effect ledger the
  next `start()` executes it a second time.
- *Shutdown during start*: `stop()` finds no loop and returns, `start()` then
  polls, and `await loop` never settles.
- *Chains*: a chain that times out while its next stage awaits `matchingOffers`
  is not looked at again (`server.js:802-829`): that stage goes out for a closed
  chain, and its RESULT is refused (`:949`), so it stays in flight. `late` marks
  it. A frame that arrives again for a closed chain starts its stages anew.
- *Readiness*: the comment at `runtime.js:677` has readiness close at once when
  live discovery changes the required peers. A sweep and a record that is seen
  again change the routing table and stage nothing (`peer-discovery.js:131-150`,
  `:277-289`); a caller's `announcePeerRecord` puts the peers it went to in the
  place of the targets, and `renewPeerRecord({announce: false})` requires none.
  `unstaged` marks the time from there to the next publication or accepted
  record, and `ReadyFollowsChurn` holds outside it.
- *Semantic index*: two concurrent `publishContext` calls of one root may leave
  its index "preparing" (`semantic-router-v2.js:376`); a purge that races a
  prepare leaves the root's file behind again (`:426`).
- *Federated quorum*: a holder that appears under two records of a partition
  counts twice (`federated-context.js:158`).
- *Shared inbox*: concurrent retrievals, or verifications, of one coordinator
  discard each other's RESULTs and run into their time-outs
  (`distributed-context.js:275`). A holder or attester whose loop throws stays
  `running`.
- *Placement*: a record re-issued with the same sequence may be rolled back by
  gossip from a directory that has the other one.
- *Delegation*: a revoked delegation cannot be renewed with the same scopes, as
  it has the same id. A v2 receipt that is verified without a current state is
  accepted although its delegation was revoked since (`receipt-v2.js:90`).
- *Node client*: the late close of an old socket rejects the waiters of the new
  one (`client.js:390`); registrations answered out of order leave a token the
  relay has replaced (`:140`).
- *JSON store*: two waiters may take over one after the other, the second from
  an owner that is alive (`durable-json-store.js:102`), or take a lock whose owner
  has not written its record yet for a stale one. `Serialised` is stated up to such
  a mistaken takeover of the lock of a live transaction, which `mistaken` records;
  takeovers from the dead, and of a lock that was left without a record because
  its write failed, keep it.
- *A2A streams*: a task that ends after `streamTask` took its snapshot and before
  it is written ends the stream without its final event (`server.js:519-521`);
  these streams are marked "short". The snapshot of `subscribeToTask` has no
  PARTIALs and its cursor stands at the end (`server.js:560`,
  `task-store.js:366-376`), so a late subscriber never sees the earlier ones.
- *Node client, lookup*: an event is taken from the queue, or given to its waiter,
  before its signer is known; when the lookup of the key fails the reader gets an
  error and the event is gone (`client.js:436`, `:452`, `:79-86`).
- *Governor*: a request above the capacity goes out when the bucket is full
  (`provider-rate-governor.js:109-112`) and overdraws it, and a timer that fires
  late may take a caller past `maxWaitMs` (`:214`), although the
  header of the file (`:16`) has the total bounded. Budget is checked and taken on two sides
  of an await, so callers that wake together may overdraw the header budget together.
- *Receipts*: a claim whose answer is lost leaves the effect to reconciliation
  although nothing was paid.
- *Desktop client*: a submission that finds the record of another process makes
  that NEED the active one (`lib.rs:1033-1041`); the next poll connects to its relay
  and replaces the session the user had (`:1008`). `update_active_need` writes the record without holding
  `active_need` (`lib.rs:1021`); a final update may write a record again that a
  poll cleared (`:1282`); setup may claim with a record replaced meanwhile
  (`:1612`); `active_session` may restore a session after `disconnect`
  (`:1008`). `unguarded`, `early` and `late` mark these last four, and the properties
  hold apart from them: after `unguarded` the identity is still the one on disk, but
  a NEED may be without a record, or active in a process without the claim.

### Bounds and why they are enough
- *Calls* (2 to 5): every property compares at most two rival operations and one
  that creates what they compete for; the extra calls allow a retry or a late
  duplicate.
- *Capacities* (1 or 2): the interesting case is the full queue, map, outbox,
  lane, bucket or ticket list, which is then reached at once.
- *CAS attempts* 1 or 2, *PARTIAL numbers* 1 to 3: enough for "the next", "the
  one before" and a rollback.
- *Restarts, crashes, faults, failed writes* 1 or 2: one interrupts any single
  step; two crashes of the inbox interrupt the recovery from the first.
- *Replicas, holders, directories, verifiers* 2 or 3: a quorum and one beyond
  it.
- *Clocks*: `MaxTime` 1 or 2 lets a record, or a bucket, expire or fill between two
  steps; `MaxLate` 1 is one tick a timer may be late. `PerDate` 2 gives two editions
  of an MCP resource the same date.
- *Loops* of attesters and holders are bounded by their starts (`MaxStarts`): an
  old one may still be in an await when its successor serves.
- `MaxNeeds` 2 of the desktop client is a submission and one NEED of another process.
- Symmetry is used over calls, items or peers that nothing tells apart, and only
  in runs without liveness properties.

### Fairness and what justifies it
- `BoundedAdmissionQueue`: resolved promises resume (the event loop), and every
  task settles; the callers' handlers have deadlines.
- `LifecycleLedger`: a node keeps polling and acknowledges what it was shown, as
  `node/client.js` does. Fairness of `Poll` is asked only for polls that show
  something new.
- `DurableInbox`: writes finish, handlers end, the node is restarted, and
  `recover()` goes through its list. A write that fails leaves the write queue
  rejected until the node restarts, so recovery is asked for after that.
- `AdapterHost`: a poll returns (long polls are bounded) and the timer of
  `settleWithin()` fires. The adapter may never return.

The other modules state no fairness; what must go on is stated as safety: a walk
with work left has a request under way, a waiter has somebody working for it, a
dirty state has a timer or a flush (`NothingStalls`, `FlightsFly`,
`WaitsOnlyForNothing`, `NoChangeForgotten`, `ChurnIsRepaired`).

## 5. Hazards
`PROJECT.json` lists forty, each at its line with the properties about it, or with
the reason why there is none. Three
habits of the code account for most: state read before an await and used after
it; a name (socket, lock, chain, root, record) that has been replaced by the
time its old bearer reports; and a reply that is lost although the operation
took effect.

## 6. What is proved

A theorem holds for every value of the constants that the named assumptions
allow, not for the small instance of a run. The assumptions say what the code
relies on: bounds are natural numbers, sets of calls, NEEDs, nodes, sockets or
OFFERs are finite, marker values differ from real ones. TLC evaluates each on the
instance of a run (`BoundsAssumption`, `LedgerAssumption`, `ProviderConstants`,
`NodeConstants`, `CosmosConstants`, `RelayConstants`, `TableConstants`,
`DhtAssumption`, `P2pAssumption`, `LogAssumption`, `RuntimeAssumption`,
`ClientAssumption`).

Every proof has the same shape: an inductive invariant that holds initially, is
preserved by each action, and implies the property; one lemma or step per action.
The invariants were checked by TLC before they were proved. What each adds to the
properties, and why the properties do not carry themselves, is below.

| module | theorems | about |
|---|---|---|
| `LifecycleLedger` | `Typing`, `LifeOrder`, `PartialsStand`, `OutboxAgreement`, `CommitOrder`, `Refinement` | the SQLite ledger |
| `CosmosLedger` | `LedgerSafe`, `Refinement` | the distributed ledger |
| `RelayFastPath` | `NeedsOnce`, `Books` | the compact path |
| `RelayLegacy` | `OneEnd`, `OutboxComplete`, `InFlightIsExact` | the signed path |
| `MCRelay` | `LiveOnce`, `RelayBooks`, `LedgerCapacity`, `LedgerAnswers`, `LedgerLifecycle`, `Tables` | all properties of the run `relay`; the lemmas about chains, directory and delivery |
| `AdapterHost` | `AtMostOnce`, `LedgerTruth`, `Reservations` | paid work |
| `MCProvider` | `Typing`, `WorkConservation`, `Accounting`, `InboxDurability`, `PaidEffects` | all safety properties of the run `provider`; the lemmas about queue and inbox |
| `MCNode` | `PersistenceSound`, `MailboxDelivers`, `QuorumDurability`, `DirectTransport`, `LogReplicates`, `ReadinessIsTrue`, `CallsKeepTheirTask` | state file, mailbox, DHT, direct transport, transparency log, node runtime, A2A client; the lemmas about them |

Where a component is instantiated by an `MC` module and its proof is used in no
other, the lemmas stand in the `MC` module; aliases such as `chains == v2` keep
the component's names.

**Admission queue** - `TypeOK /\ ParkedOnce /\ WorkConserving /\ ZeroSilentLoss`.
`ParkedOnce` is the strengthening: the line and the list of woken calls hold each
call of their stage exactly once. Without it the woken call could be one that
already runs, and neither the count of running tasks nor the sum of the counters
would survive `Resume`. `WorkConserving` is preserved by `Finish` because the
slot it frees is matched by the call it wakes.

**Durable inbox** - `InboxInv`. A call waits for one write and a write is waited
for by one call (`OneWriteEach`); from its own write on, every queued write lists
the entry of a call that is at work, and so does the file once its handler runs
(`Listed`); nothing runs while the node is down (`Quiet`). The proof found the
property itself too strong: on instances larger than the run's, another run of
the same envelope may complete and its entry be trimmed while a duplicate is
still waiting for its write, so that the duplicate's handler runs for an envelope
the file does not hold. `HandlersRunDurableWork` now says so: the file holds the
envelope, or its entry was trimmed while the call was at work (`outlived`).

**SQLite ledger** - the invariant adds `RowidsBounded` (no row number exceeds the
count of rows, so a new row is the newest) and `ShownAreCommitted` (what was shown
is in the table) to the properties. They depend on each other: `LifeOrder` needs
`PartialsStand`, for a new PARTIAL goes behind the old ones only if its number
is beyond theirs, and `OutboxAgreement`, for nothing may follow an end;
`PartialsStand` needs the check for a committed row in `rollbackPartial`. The
refinement shows that each transaction maps to one abstract step, or to none
for polls, acknowledgements and rollbacks; a PARTIAL without outbox row is a
stutter.

**Distributed ledger** - `CosmosInv`. Every version of a document is a lawful
step in the life of its NEED after the one before (`VersionsContinue`), and a
ticket list after the one before (`TicketsContinue`). What a call holds was read
from a version that exists (`CallFits`), what it has on the wire continues that
version, so that a PUT served late either meets the ETag it names or changes
nothing (`RequestFits`), and an answer tells of a version that exists
(`AnswerFits`). `OneEnder` makes the call that was told it ended a NEED the one
whose version is the end. `CapacityHolds`, `AnswersStand`, `OneWinner` and
`PendingPayloadsKept` follow, and so does the refinement of `NeedLifecycle`: a
write the store accepts is one lawful step. `LedgerLifecycle` carries it over to
the two instances of the run, whose abstract state is that of all NEEDs.

**Compact path** - `RelayInv`: a handler is at a stage its kind can be at
(`StagesFit`), nothing was done for a NEED whose identifier nobody claimed
(`Unclaimed`), before a NEED is dispatched there is no trace of it but its
reservation (`Undispatched`), the call that was given the identifier is the only
one (`OneAdmitter`), and the ledger decides every end that is kept or told
(`LedgerDecides`). `DispatchedOnce` rests on `OneAdmitter` and `Undispatched`.
`BooksInv` adds that a RESULT that can still commit, or has, holds the room that
was reserved for it (`RoomHeld`). `Books` and `RelayBooks` assume `~Maintenance`, no eviction of a
requester: with it the property is false, as the run `relay_eviction` shows.

**Signed path** - `LegacyInv`: a handler is at a step its kind can be at
(`OpsFit`), a NEED the ledger does not hold is known to nobody (`Unborn`), the
handler whose reservation was committed is the only one and until it goes on the
NEED is a request of no relay (`ReservedByOne`), and a handler that was told of an
end was told the ledger's (`ToldTheEnd`).

**Chains** - `ChainsInv` strengthens `ChainsSound`: of a stage that is with a
provider, or still being matched for a chain object, *all* earlier stages have
results (`Done`), not only the one before; a dispatch takes over what the matching
promised. The in-flight counter is the number of stage requests with a provider;
`CloseCounts` shows that `closeChain` takes from it exactly those it ends. `TurnInv`
says the rest for a chain whose frame came once: at most one of its stages is being
matched or in flight, and it is the one after those with results.

**Directory** - `DirectoryInv` adds what the handler of an owner may rely on after
each await (`HandlerFits`): a document about to be created has its slot, a
conflict is with another owner, and what is being revoked or released belongs to
the owner and, when its slot is released, is no longer active. The limits hold because a place is
claimed before the await (`PendingNodes`, `PendingOffers`) and the sum of held and
claimed places never exceeds the limit. A match keeps the OFFERs this relay had
revoked when it began apart from those still to be read and from the eligible
ones.

**Delivery** - `DeliveryInv` says `OnePlace` without counting: the queues and
buffers are injective sequences, an event is in at most one of them (`OneAt`),
and in one exactly if it has not ended. Injectivity is needed because taking out
the first entry of a queue must take the event out. `ConnectStep`, the longest
lemma, shows that a new socket takes a prefix of the three queues in order and
that what is left of each is what was not sent.

**Paid work** - `EffectInv`: of the executions of one NEED at most one is past
`beginEffect` (`OneIsPastBegin`), the step of each agrees with the state of the
effect (`StepTellsEffect`), a reservation is held only between billing and its
settlement (`ReservationHeld`), the effect tells how often the adapter was called
(`EffectTellsCalls`), and what is unsettled is an effect for reconciliation
(`Accounted`). `PaidEffects` carries this to the
instance of the run.

**State file** - `PersistInv` adds `WaitersKnown` (a waiting barrier asked for a
generation that has been counted and covers no more than the present version),
`SnapshotCovers` (the snapshot being saved covers every barrier of the generation
it will confirm), `DiskBehind` (the file is not ahead of the memory) and
`LoadingIsQuiet` (nothing is under way while the file is read). `SnapshotCovers`
is what the re-check of the generation after a save is for: a barrier that comes
during a save must wait for the next.

**Mailbox** - `MailboxInv` adds to `RelayedOnce` and `WaitsOnlyForNothing` that an
envelope that was not handed to the recipient yet has no outcome (`Untouched`),
that the recipient works on one it has not handled before (`Working`), and that a
result that is reported, kept or fetched is the one the handler returned
(`ResultsAreReal`).

**DHT quorum** - `DhtInv`. That a put which returned is on disk is decided when it
returns, from answers that were given at different times, so the invariant says
what each stage of a request is worth: the memory of a replica is never behind its
disk (`StoreAhead`), a request that was accepted is covered by the memory of its
replica and one that was made durable by its disk (`RequestsTrue`), and every
acknowledgement that was counted is covered by a disk (`AcksTrue`). `Covers`, "this
record or a newer one", is what survives a later put. A restart loads the disk,
which is why an accepted request must be dropped by it; a late answer is worth what
its request was.

**Direct transport** - `P2pInv`. The leases of a client are the dispatches under
way on it (`Dispatches`), counted; a pooled client is open and not retired, only an
open or torn one is leased (`Fit`); and a send that handed its envelope over never
goes round its loop again (`Progress`). The count is needed: that a lease is
positive while somebody dispatches does not survive the end of another dispatch.

**Transparency log** - `LogInv`. The head a sync was told is a prefix of what the
peer holds, until the sync ends or the peer crashes, which ends the sync
(`SyncsTrue`); this needs that logs only grow, by the lemmas on prefixes, and that
a sync ingests at most once. `EntriesBacked` is inductive with `IngestsTrue`: an
entry leaves the set of those being written only into the file or among those
whose write failed. The file may be out of order all the same, as the run
`log_reload` shows; the theorem does not need order.

**Node runtime** - `RuntimeInv`. Readiness compares acknowledgements with the
current record, but announcements, retries and acknowledgements of older records
are still under way. The invariant says that none of them is newer than the node's
own record, or of another process (`OwnIsCurrent`, `NothingNewer`), so a peer that
acknowledged the current record can have been given nothing later (`AckedHold`);
that the staged placement is that of the closest peers unless `unstaged` says what
came in between (`PlacedNearest`); that a
process which is down has nothing under way (`DownIsQuiet`); and that the timer and
the run of the repair exclude each other (`HealOneAtATime`), without which the end
of a run could drop the change it came too late for.

**A2A client** - `ClientInv`. `CallsSent` ties the number of messages to the stage
of the call and keeps the task it polls equal to the one its first answer named;
`StreamsCorrelated` says a stream has yielded at most the task it is correlated
with, which is fixed by its first event or by the subscription. Neither assumes
anything of the remote agent.

## 7. What is only model-checked
- *Liveness* (`ParkedCallsSettle`, `CommittedEventsAreShown`, `InboxRecovers`,
  `StopReturnsInTime`) and everything that needs `ENABLED`: out of the prover's
  reach.
- `HostSound`: `HeldOnceAndBounded` and `CancelledWorkStops` need what `SelectSeq`
  keeps of a queue of any length, and that is induction over data. The same holds
  for `RpcSound`, whose `Pump` folds over the lanes.
- `SemanticSound` of `node`; `DiscoverySound`, `QuicSound`, `ContextSound` and
  `TrustSound` of `overlay`; `TasksSound`, `ImportsSound`, `ClientSound`,
  `ServiceSound` and `NativeSound` of `agents`: no proof has been attempted.

## 8. What is not modelled, and why
- Cryptography, canonical encoding, certificates, packet formats, NAT traversal:
  assumed correct; what delivery may do wrong is an action where it matters.
- Scoring of OFFERs, relevance ranking, embeddings, reputation: arithmetic
  without state of its own; where the result matters it is a choice or an order.
- The OFFER rows of the SQLite ledger, the maintenance scan of the Cosmos
  ledger, `runOnce`, PARTIALs and stored-effect recovery of the adapter host.
- Billing and access policies, NLWeb, HTTP and provider adapters (protocol
  mapping), the MCP server, which maps a request to one call of the node.
- Configuration, secret stores, operations tooling, the other SDKs, CLI,
  benchmarks, tests, infrastructure: no concurrent state in the request path.

## 9. Plan
1. Theorems: `FlightsFly` of `SemanticFlights`; `PaidOnceAndBound` of
   `EffectReceipts`; `AttestationsBelong` and `AnswersBelong`, whose argument is
   the same; the replay guard of `QuicTransport`. Each needs the lemmas of its
   component in the `MC` module that holds it.
2. Models: the OFFER rows of the SQLite ledger, `runOnce` and stored-effect
   recovery of the adapter host, the billing policies over the durable JSON
   store.
3. Liveness of the attesters, holders and the relay mailbox under the fairness
   of their polling loops.
