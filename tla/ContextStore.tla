---------------------------- MODULE ContextStore ----------------------------
(***************************************************************************)
(* Contexts kept by the relay (network/relay/server.js), their content ids *)
(* and deltas (core/context/index.js), and the node that reads them        *)
(* without trusting the relay (node/client.js).                            *)
(*                                                                         *)
(* A document is the function from its block ids to their texts, and       *)
(* stands for its own cid and manifest: both are hashes of exactly that.   *)
(* The relay answers the reading node with what it keeps or with Lie.      *)
(***************************************************************************)
EXTENDS Naturals, Sequences, FiniteSets, TLC

CONSTANTS
    Nodes,
    Reader,         \* the node whose calls are modelled in detail
    Ids, Texts,
    Lie,            \* a document that a relay may answer with
    MaxContexts, TopK

Docs == UNION {[s -> Texts] : s \in (SUBSET Ids) \ {{}}}
NoDoc == <<>>
Ops == [op : {"delete", "replace", "upsert"}, id : Ids, text : Texts]

VARIABLES
    contexts,       \* from the cids kept to [owners, readers]
    cache,          \* contextManifestCache of Reader: from cids to manifests
    call            \* the call of Reader: pc, its cid, and the blocks it returned

storeVars == <<contexts, cache, call>>

StoreTypeOK ==
    /\ DOMAIN contexts \subseteq Docs /\ DOMAIN cache \subseteq Docs
    /\ \A d \in DOMAIN contexts : contexts[d].owners \in SUBSET Nodes \ {{}} /\ contexts[d].readers \subseteq Nodes
    /\ call.pc \in {"idle", "manifest", "blocks", "done", "failed"}

Idle == [pc |-> "idle", cid |-> NoDoc, ids |-> {}, manifest |-> NoDoc, blocks |-> NoDoc]

StoreInit == contexts = <<>> /\ cache = <<>> /\ call = Idle

---------------------------------------------------------------------------

\* applyContextDelta, one operation: NoDoc when it is refused, as for an unknown block
\* and for a document left without blocks.
ApplyOp(d, o) ==
    CASE o.op = "delete" /\ o.id \in DOMAIN d /\ DOMAIN d # {o.id} ->
              [i \in DOMAIN d \ {o.id} |-> d[i]]
      [] o.op = "replace" /\ o.id \in DOMAIN d -> [d EXCEPT ![o.id] = o.text]
      [] o.op = "upsert" -> (o.id :> o.text) @@ d
      [] OTHER -> NoDoc

\* saveContext: a document that is kept already gets one more owner and more readers.
SaveContext(n, d, readers) ==
    /\ d \in DOMAIN contexts \/ Cardinality(DOMAIN contexts) < MaxContexts
    /\ contexts' =
          IF d \in DOMAIN contexts
          THEN [contexts EXCEPT ![d].owners = @ \cup {n}, ![d].readers = @ \cup readers]
          ELSE contexts @@ (d :> [owners |-> {n}, readers |-> readers])

\* What the relay answers to Reader's PUT or DELTA is cached as it came.
CacheAnswer(n, d) ==
    \E m \in {d, Lie} : cache' = IF n = Reader THEN (d :> m) @@ cache ELSE cache

\* POST /v1/contexts, putContext
PutContext(n, d, readers) ==
    /\ SaveContext(n, d, readers)
    /\ CacheAnswer(n, d)
    /\ UNCHANGED call

\* POST /v1/contexts/:cid/delta, deltaContext: the readers of the base come along.
DeltaContext(n, base, o, readers) ==
    LET d == ApplyOp(base, o)
    IN /\ base \in DOMAIN contexts /\ n \in contexts[base].owners
       /\ d # NoDoc
       /\ SaveContext(n, d, readers \cup contexts[base].readers)
       /\ CacheAnswer(n, d)
       /\ UNCHANGED call

---------------------------------------------------------------------------

CanReadContext(n, d) == d \in DOMAIN contexts /\ n \in contexts[d].owners \cup contexts[d].readers

\* verifyContextManifest: the cid of the manifest's blocks is the expected one.
VerifyManifest(m, cid) == m = cid

\* selectContext and retrieveContext begin with the manifest, from the cache if it is there.
ReadContext(cid, ids) ==
    /\ call.pc = "idle"
    /\ call' = [Idle EXCEPT !.cid = cid, !.ids = ids,
                   !.pc = IF cid \in DOMAIN cache THEN "blocks" ELSE "manifest",
                   !.manifest = IF cid \in DOMAIN cache THEN cache[cid] ELSE NoDoc]
    /\ UNCHANGED <<contexts, cache>>

\* contextManifest: fetched, verified, cached.
FetchManifest ==
    /\ call.pc = "manifest"
    /\ \E m \in {call.cid, Lie} :
          IF CanReadContext(Reader, call.cid) /\ VerifyManifest(m, call.cid)
          THEN /\ call' = [call EXCEPT !.pc = "blocks", !.manifest = m]
               /\ cache' = (call.cid :> m) @@ cache
          ELSE /\ call' = [call EXCEPT !.pc = "failed"]
               /\ UNCHANGED cache
    /\ UNCHANGED contexts

\* verifyContextSelection
VerifySelection(m, blocks, cid) ==
    /\ VerifyManifest(m, cid)
    /\ \A i \in DOMAIN blocks : i \in DOMAIN m /\ blocks[i] = m[i]

\* The relay's answer: some blocks of the context or of Lie; for ids, the blocks asked
\* for, or fewer if it lies: that all of them came is not looked at.  For a query the
\* ranking is the relay's (retrieveContextBlocks), at most TopK, with their provenance.
Answers ==
    LET of(d) == {[i \in s |-> d[i]] : s \in (SUBSET DOMAIN d) \ {{}}}
    IN {b \in of(call.cid) \cup of(Lie) :
          IF call.ids = {} THEN Cardinality(DOMAIN b) <= TopK ELSE DOMAIN b \subseteq call.ids}

\* The rest of selectContext and retrieveContext.
FetchBlocks ==
    /\ call.pc = "blocks"
    /\ \/ /\ CanReadContext(Reader, call.cid)
          /\ \E b \in Answers :
                call' = IF VerifySelection(call.manifest, b, call.cid)
                        THEN [call EXCEPT !.pc = "done", !.blocks = b] ELSE [call EXCEPT !.pc = "failed"]
       \/ call' = [call EXCEPT !.pc = "failed"]
    /\ UNCHANGED <<contexts, cache>>

ReturnBlocks ==
    /\ call.pc \in {"done", "failed"}
    /\ call' = Idle
    /\ UNCHANGED <<contexts, cache>>

StoreNext ==
    \/ \E n \in Nodes, readers \in SUBSET {Reader} :
          \/ \E d \in Docs : PutContext(n, d, readers)
          \/ \E base \in DOMAIN contexts, o \in Ops : DeltaContext(n, base, o, readers)
    \/ \E cid \in DOMAIN contexts \cup {Lie}, ids \in SUBSET Ids : ReadContext(cid, ids)
    \/ FetchManifest \/ FetchBlocks \/ ReturnBlocks

StoreSpec == StoreInit /\ [][StoreNext]_storeVars

---------------------------------------------------------------------------

(* Whatever the relay answers, to this call or to an earlier PUT or DELTA  *)
(* whose manifest was cached unseen, the blocks a node returns are blocks  *)
(* of the document with the cid it asked for (selectContext,               *)
(* retrieveContext, verifyContextSelection).                               *)
BlocksAreGenuine ==
    call.pc = "done" =>
        /\ DOMAIN call.blocks \subseteq DOMAIN call.cid
        /\ \A i \in DOMAIN call.blocks : call.blocks[i] = call.cid[i]

=============================================================================
