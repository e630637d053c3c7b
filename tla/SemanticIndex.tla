--------------------------- MODULE SemanticIndex ---------------------------
(***************************************************************************)
(* The production mode of the semantic router (core/context/               *)
(* semantic-router-v2.js) over the sharded file store (core/context/       *)
(* sharded-semantic-index-store.js): contexts are published and prepared,  *)
(* their block vectors embedded once and kept by block, and retrievals     *)
(* answered only from a prepared index.                                    *)
(*                                                                         *)
(* A document object belongs to the call that made it, because the map     *)
(* documents may hold a newer object for a root than the one a call works  *)
(* on.  Vectors, queries and scores carry no data here: a retrieval        *)
(* answers when it gets to scoring.                                        *)
(***************************************************************************)
EXTENDS Naturals, Sequences, FiniteSets

CONSTANTS
    Calls,       \* calls of publishContext, prepareContext, retrieve, invalidateContext
    Roots,       \* root CIDs
    BlocksOf,    \* the block CIDs of each root
    ShardOf,     \* the shard file of each block
    MaxCrashes

Blocks == UNION {BlocksOf[r] : r \in Roots}
Shards == {ShardOf[b] : b \in Blocks}
Nobody == "nobody"

VARIABLES
    call,        \* of each call: op, root, pc, its document object, the blocks it embeds and
                 \* those it waits for, whether one of them failed, the shard it has read
    index,       \* the index status of the document object of each call
    documents,   \* per root the call whose object is in memory
    vectors,     \* vectorCache
    indexFlight, \* indexFlights: per root the preparing call
    blockFlight, \* blockVectorFlights: per block the embedding call
    results,     \* the roots of resultCache
    rootFile,    \* root files: index status per root
    shardFile,   \* shard files: the blocks with a vector
    shardQueue,  \* shardFlights: per shard the calls that write it, in order
    crashes

indexVars == <<call, index, documents, vectors, indexFlight, blockFlight, results, rootFile,
               shardFile, shardQueue, crashes>>

Idle == [op |-> "none", root |-> Nobody, pc |-> "new", obj |-> Nobody, fresh |-> {}, wait |-> {},
         doomed |-> FALSE, shard |-> Nobody, read |-> {}]

Ended == {"done", "failed"}

IndexTypeOK ==
    /\ \A c \in Calls :
          /\ call[c].op \in {"none", "publish", "prepare", "put", "retrieve", "warm", "invalidate",
                             "purge"}
          /\ call[c].root \in Roots \cup {Nobody} /\ call[c].obj \in Calls \cup {Nobody}
          /\ call[c].fresh \subseteq Blocks /\ call[c].wait \subseteq Blocks
          /\ call[c].read \subseteq Blocks /\ call[c].shard \in Shards \cup {Nobody}
    /\ index \in [Calls -> {"none", "preparing", "ready"}]
    /\ documents \in [Roots -> Calls \cup {Nobody}] /\ indexFlight \in [Roots -> Calls \cup {Nobody}]
    /\ blockFlight \in [Blocks -> Calls \cup {Nobody}]
    /\ vectors \subseteq Blocks /\ results \subseteq Roots /\ shardFile \subseteq Blocks
    /\ rootFile \in [Roots -> {"none", "preparing", "ready"}]
    /\ shardQueue \in [Shards -> Seq(Calls)]

IndexInit ==
    /\ call = [c \in Calls |-> Idle] /\ index = [c \in Calls |-> "none"]
    /\ documents = [r \in Roots |-> Nobody] /\ vectors = {} /\ results = {}
    /\ indexFlight = [r \in Roots |-> Nobody] /\ blockFlight = [b \in Blocks |-> Nobody]
    /\ rootFile = [r \in Roots |-> "none"] /\ shardFile = {}
    /\ shardQueue = [s \in Shards |-> <<>>] /\ crashes = 0

---------------------------------------------------------------------------

At(c, pc) == call[c].pc = pc
Goto(c, pc) == call' = [call EXCEPT ![c].pc = pc]
Root(c) == call[c].root
Obj(c) == call[c].obj

Start(c, op, r, pc) ==
    /\ At(c, "new")
    /\ call' = [call EXCEPT ![c] = [Idle EXCEPT !.op = op, !.root = r, !.pc = pc]]
    /\ UNCHANGED <<index, documents, vectors, indexFlight, blockFlight, results, rootFile,
                   shardFile, shardQueue, crashes>>

\* publishContext looks for an earlier document; registerDocument puts a new object
\* into documents, and its root is saved as preparing.
Publish(c, r) == Start(c, "publish", r, "register")

RegisterDocument(c) ==
    /\ At(c, "register")
    /\ documents' = [documents EXCEPT ![Root(c)] = c]
    /\ index' = [index EXCEPT ![c] = "preparing"]
    /\ call' = [call EXCEPT ![c].pc = "published", ![c].obj = c]
    /\ UNCHANGED <<vectors, indexFlight, blockFlight, results, rootFile, shardFile, shardQueue,
                   crashes>>

\* putContext registers without saving; the index status is that of an object in memory.
PutContext(c, r) ==
    /\ At(c, "new")
    /\ index' = [index EXCEPT ![c] = IF documents[r] = Nobody THEN "none" ELSE index[documents[r]]]
    /\ documents' = [documents EXCEPT ![r] = c]
    /\ call' = [call EXCEPT ![c] = [Idle EXCEPT !.op = "put", !.root = r, !.pc = "done"]]
    /\ UNCHANGED <<vectors, indexFlight, blockFlight, results, rootFile, shardFile, shardQueue,
                   crashes>>

\* saveRoot of what publishContext registered.
SavePublished(c) ==
    /\ At(c, "published")
    /\ rootFile' = [rootFile EXCEPT ![Root(c)] = "preparing"]
    /\ Goto(c, "prepare")
    /\ UNCHANGED <<index, documents, vectors, indexFlight, blockFlight, results, shardFile,
                   shardQueue, crashes>>

---------------------------------------------------------------------------

Prepare(c, r) == Start(c, "prepare", r, "prepare")

\* prepareContext: one flight per root, which others follow.
JoinIndexFlight(c) ==
    /\ At(c, "prepare")
    /\ IF indexFlight[Root(c)] = Nobody
       THEN indexFlight' = [indexFlight EXCEPT ![Root(c)] = c] /\ Goto(c, "resolve")
       ELSE Goto(c, "follow") /\ UNCHANGED indexFlight
    /\ UNCHANGED <<index, documents, vectors, blockFlight, results, rootFile, shardFile,
                   shardQueue, crashes>>

\* The flight of a call ends, and with it the calls that follow it.
EndFlight(c, outcome) ==
    LET r == Root(c)
        mine == indexFlight[r] = c
        followers == {d \in Calls : mine /\ At(d, "follow") /\ Root(d) = r}
    IN /\ indexFlight' = IF mine THEN [indexFlight EXCEPT ![r] = Nobody] ELSE indexFlight
       /\ call' = [d \in Calls |-> IF d = c \/ d \in followers
                                   THEN [Idle EXCEPT !.op = call[d].op, !.root = r, !.pc = outcome]
                                   ELSE call[d]]

\* resolveDocument: the object in memory, or the one in the root file.
ResolveDocument(c) ==
    LET r == Root(c)
        prepares == call[c].op \in {"publish", "prepare"}
        next == IF prepares THEN "preparing" ELSE "check"
    IN /\ At(c, "resolve")
       /\ \/ /\ documents[r] # Nobody
             /\ call' = [call EXCEPT ![c].pc = next, ![c].obj = documents[r]]
             /\ index' = IF prepares THEN [index EXCEPT ![documents[r]] = "preparing"] ELSE index
             /\ UNCHANGED <<documents, indexFlight>>
          \/ /\ documents[r] = Nobody /\ rootFile[r] # "none"
             /\ documents' = [documents EXCEPT ![r] = c]
             /\ call' = [call EXCEPT ![c].pc = next, ![c].obj = c]
             /\ index' = [index EXCEPT ![c] = IF prepares THEN "preparing" ELSE rootFile[r]]
             /\ UNCHANGED indexFlight
          \/ /\ documents[r] = Nobody /\ rootFile[r] = "none"
             /\ EndFlight(c, "failed")
             /\ UNCHANGED <<documents, index>>
       /\ UNCHANGED <<vectors, blockFlight, results, rootFile, shardFile, shardQueue, crashes>>

\* saveRoot of the preparing snapshot.
SavePreparing(c) ==
    /\ At(c, "preparing")
    /\ rootFile' = [rootFile EXCEPT ![Root(c)] = "preparing"]
    /\ Goto(c, "load")
    /\ UNCHANGED <<index, documents, vectors, indexFlight, blockFlight, results, shardFile,
                   shardQueue, crashes>>

\* loadPersistedVectors, then embedNewBlockVectors without a wait between them: what
\* nobody embeds yet is fresh, the rest is waited for.
LoadVectors(c) ==
    LET known == vectors \cup (BlocksOf[Root(c)] \cap shardFile)
        missing == BlocksOf[Root(c)] \ known
        fresh == {b \in missing : blockFlight[b] = Nobody}
    IN /\ At(c, "load")
       /\ vectors' = known
       /\ blockFlight' = [b \in Blocks |-> IF b \in fresh THEN c ELSE blockFlight[b]]
       /\ call' = [call EXCEPT ![c] = [@ EXCEPT !.pc = IF fresh = {} THEN "wait" ELSE "embed",
                                                !.fresh = fresh, !.wait = missing]]
       /\ UNCHANGED <<index, documents, indexFlight, results, rootFile, shardFile, shardQueue,
                      crashes>>

\* embedMany answered: saveVectors queues a write for every shard.
Embedded(c) ==
    LET shards == {ShardOf[b] : b \in call[c].fresh}
    IN /\ At(c, "embed")
       /\ shardQueue' = [s \in Shards |-> IF s \in shards THEN Append(shardQueue[s], c)
                                          ELSE shardQueue[s]]
       /\ Goto(c, "store")
       /\ UNCHANGED <<index, documents, vectors, indexFlight, blockFlight, results, rootFile,
                      shardFile, crashes>>

InShard(s) == {b \in Blocks : ShardOf[b] = s}

\* enqueueShardWrite: the writes of a shard follow each other; each reads the file ...
ReadShard(c, s) ==
    /\ At(c, "store") /\ shardQueue[s] # <<>> /\ Head(shardQueue[s]) = c
    /\ call' = [call EXCEPT ![c] = [@ EXCEPT !.pc = "write", !.shard = s,
                                                !.read = shardFile \cap InShard(s)]]
    /\ UNCHANGED <<index, documents, vectors, indexFlight, blockFlight, results, rootFile,
                   shardFile, shardQueue, crashes>>

\* ... and replaces it by what it read and its own vectors.
WriteShard(c, s) ==
    LET queue == [shardQueue EXCEPT ![s] = Tail(@)]
        left == {t \in Shards : \E i \in 1..Len(queue[t]) : queue[t][i] = c}
    IN /\ At(c, "write") /\ call[c].shard = s
       /\ shardFile' = (shardFile \ InShard(s)) \cup call[c].read \cup (call[c].fresh \cap InShard(s))
       /\ shardQueue' = queue
       /\ IF left # {}
          THEN Goto(c, "store") /\ UNCHANGED <<vectors, blockFlight>>
          ELSE /\ Goto(c, "wait")
               /\ vectors' = vectors \cup call[c].fresh
               /\ blockFlight' = [b \in Blocks |-> IF blockFlight[b] = c THEN Nobody
                                                   ELSE blockFlight[b]]
       /\ UNCHANGED <<index, documents, indexFlight, results, rootFile, crashes>>

\* The embedder or a write fails: so does the batch, and whoever waits for one of
\* its blocks, once its own batch is over.  (Writes to other shards go on and
\* add vectors only.)  The finally() of a failed flight is an unhandled rejection
\* besides, which ends a process without a handler: see Crash.
BatchFails(c) ==
    LET lost == call[c].fresh
        hit == {d \in Calls \ {c} : call[d].wait \cap lost # {}}
    IN /\ call[c].pc \in {"embed", "write"}
       /\ blockFlight' = [b \in Blocks |-> IF b \in lost THEN Nobody ELSE blockFlight[b]]
       /\ shardQueue' = [s \in Shards |-> SelectSeq(shardQueue[s], LAMBDA d : d # c)]
       /\ call' = [d \in Calls |->
                      IF d = c THEN [call[d] EXCEPT !.pc = "wait", !.fresh = {}, !.doomed = TRUE]
                      ELSE IF d \in hit THEN [call[d] EXCEPT !.doomed = TRUE] ELSE call[d]]
       /\ UNCHANGED <<index, documents, vectors, indexFlight, results, rootFile, shardFile, crashes>>

PrepareFails(c) ==
    /\ At(c, "wait") /\ call[c].doomed
    /\ EndFlight(c, "failed")
    /\ UNCHANGED <<index, documents, vectors, blockFlight, results, rootFile, shardFile,
                   shardQueue, crashes>>

\* Every block has its vector: the object of the flight is ready.
Vectorized(c) ==
    /\ At(c, "wait") /\ ~call[c].doomed /\ BlocksOf[Root(c)] \subseteq vectors
    /\ index' = [index EXCEPT ![Obj(c)] = "ready"]
    /\ Goto(c, "ready")
    /\ UNCHANGED <<documents, vectors, indexFlight, blockFlight, results, rootFile, shardFile,
                   shardQueue, crashes>>

\* saveRoot of the ready snapshot; cached results of the root are dropped.
SaveReady(c) ==
    /\ At(c, "ready")
    /\ rootFile' = [rootFile EXCEPT ![Root(c)] = "ready"]
    /\ results' = results \ {Root(c)}
    /\ EndFlight(c, "done")
    /\ UNCHANGED <<index, documents, vectors, blockFlight, shardFile, shardQueue, crashes>>

---------------------------------------------------------------------------

Retrieve(c, r) == Start(c, "retrieve", r, "resolve")
WarmContext(c, r) == Start(c, "warm", r, "resolve")

\* A cached result answers; otherwise the index must be ready and, after loading,
\* complete: a retrieval never embeds.
CheckIndex(c) ==
    LET blocks == BlocksOf[Root(c)]
        known == vectors \cup (blocks \cap shardFile)
        cached == call[c].op = "retrieve" /\ Root(c) \in results
    IN /\ At(c, "check")
       /\ \/ cached /\ EndFlight(c, "done") /\ UNCHANGED vectors
          \/ /\ ~cached /\ index[Obj(c)] # "ready"
             /\ EndFlight(c, "failed") /\ UNCHANGED vectors
          \/ /\ ~cached /\ index[Obj(c)] = "ready"
             /\ vectors' = known
             /\ IF blocks \subseteq known /\ call[c].op = "retrieve"
                THEN Goto(c, "score") /\ UNCHANGED indexFlight
                ELSE EndFlight(c, IF blocks \subseteq known THEN "done" ELSE "failed")
       /\ UNCHANGED <<index, documents, blockFlight, results, rootFile, shardFile, shardQueue,
                      crashes>>

\* projectQuery, queryVectors, scoring, reranking: the result is cached.
Score(c) ==
    /\ At(c, "score")
    /\ \E outcome \in Ended :
          /\ results' = IF outcome = "done" THEN results \cup {Root(c)} ELSE results
          /\ EndFlight(c, outcome)
    /\ UNCHANGED <<index, documents, vectors, blockFlight, rootFile, shardFile, shardQueue, crashes>>

\* invalidateContext forgets a root in memory and, when asked, its root file.
Invalidate(c, r, purge) ==
    /\ At(c, "new")
    /\ documents' = [documents EXCEPT ![r] = Nobody]
    /\ results' = results \ {r}
    /\ call' = [call EXCEPT ![c] = [Idle EXCEPT !.root = r,
                                                !.op = IF purge THEN "purge" ELSE "invalidate",
                                                !.pc = IF purge THEN "purge" ELSE "done"]]
    /\ UNCHANGED <<index, vectors, indexFlight, blockFlight, rootFile, shardFile, shardQueue,
                   crashes>>

RemoveRoot(c) ==
    /\ At(c, "purge")
    /\ rootFile' = [rootFile EXCEPT ![Root(c)] = "none"]
    /\ Goto(c, "done")
    /\ UNCHANGED <<index, documents, vectors, indexFlight, blockFlight, results, shardFile,
                   shardQueue, crashes>>

\* The process ends: files stay, the rest is gone.
Crash ==
    /\ crashes < MaxCrashes /\ crashes' = crashes + 1
    /\ call' = [c \in Calls |-> IF At(c, "new") THEN Idle ELSE [Idle EXCEPT !.pc = "failed"]]
    /\ index' = [c \in Calls |-> "none"] /\ documents' = [r \in Roots |-> Nobody]
    /\ vectors' = {} /\ results' = {}
    /\ indexFlight' = [r \in Roots |-> Nobody] /\ blockFlight' = [b \in Blocks |-> Nobody]
    /\ shardQueue' = [s \in Shards |-> <<>>]
    /\ UNCHANGED <<rootFile, shardFile>>

IndexNext ==
    \/ \E c \in Calls :
          \/ \E r \in Roots :
                \/ Publish(c, r) \/ Prepare(c, r) \/ PutContext(c, r)
                \/ Retrieve(c, r) \/ WarmContext(c, r)
                \/ \E purge \in BOOLEAN : Invalidate(c, r, purge)
          \/ RegisterDocument(c) \/ SavePublished(c) \/ JoinIndexFlight(c) \/ ResolveDocument(c)
          \/ SavePreparing(c) \/ LoadVectors(c) \/ Embedded(c) \/ BatchFails(c)
          \/ PrepareFails(c)
          \/ \E s \in Shards : ReadShard(c, s) \/ WriteShard(c, s)
          \/ Vectorized(c) \/ SaveReady(c) \/ CheckIndex(c) \/ Score(c) \/ RemoveRoot(c)
    \/ Crash

IndexSpec == IndexInit /\ [][IndexNext]_indexVars

---------------------------------------------------------------------------

(* A root file or a document that says ready has all its vectors in the    *)
(* shard files, so that the index is still complete after a restart,       *)
(* although roots share blocks and their writes share shards               *)
(* (prepareContext, embedNewBlockVectors, saveVectors).                    *)
ReadyIsDurable ==
    /\ \A r \in Roots : rootFile[r] = "ready" => BlocksOf[r] \subseteq shardFile
    /\ \A r \in Roots : documents[r] # Nobody /\ index[documents[r]] = "ready" =>
                            BlocksOf[r] \subseteq shardFile
    /\ vectors \subseteq shardFile

(* The index of a root is on disk when its preparation is: once publish or *)
(* prepare answered and no call for the root is under way, its root file   *)
(* says ready, whoever wrote it in between, unless a call failed or the    *)
(* file was purged (publishContext, prepareContext).                       *)
PreparedIsOnDisk ==
    \A r \in Roots :
        LET cs == {c \in Calls : Root(c) = r}
        IN /\ \E c \in cs : call[c].op \in {"publish", "prepare"}
           /\ \A c \in cs : At(c, "done") /\ call[c].op # "purge"
           => rootFile[r] = "ready"

(* A flight that calls wait for is one that somebody still flies: a failed *)
(* embedding or preparation leaves none behind, and no block is embedded   *)
(* by two calls at a time (indexFlights, blockVectorFlights).              *)
FlightsFly ==
    /\ \A r \in Roots : indexFlight[r] # Nobody =>
          call[indexFlight[r]].pc \in {"resolve", "preparing", "load", "embed", "store", "write",
                                       "wait", "ready"}
    /\ \A b \in Blocks, c \in Calls :
          blockFlight[b] = c <=> b \in call[c].fresh /\ call[c].pc \in {"embed", "store", "write"}
    /\ \A c \in Calls : At(c, "wait") /\ ~call[c].doomed =>
          \A b \in call[c].wait : b \in vectors \/ blockFlight[b] # Nobody
    /\ \A c \in Calls : At(c, "follow") => indexFlight[Root(c)] # Nobody

=============================================================================
