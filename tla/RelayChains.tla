---------------------------- MODULE RelayChains ----------------------------
(***************************************************************************)
(* Multi-stage chains of network/relay/server.js: startChain,              *)
(* dispatchChainStage, closeChain and the chain branch of                  *)
(* processFastResult.                                                      *)
(*                                                                         *)
(* A chain object belongs to the call of startChain that made it; the map  *)
(* chains knows it by the identifier of its signed frame, which a client   *)
(* may send more than once.  Which provider an OFFER names is left out:    *)
(* matching finds one or none.                                             *)
(***************************************************************************)
EXTENDS Integers, FiniteSets

CONSTANTS
    Calls,       \* calls of startChain
    ChainOf,     \* the identifier in the frame of each
    LastStage,   \* the stages of a chain are 0..LastStage
    MaxChains,   \* maxChains
    MaxRequests  \* maxRequests

ChainsAssumption ==
    /\ IsFiniteSet(Calls) /\ "none" \notin Calls /\ LastStage \in Nat

Ids == {ChainOf[c] : c \in Calls}
Stages == 0..LastStage
None == "none"

VARIABLES
    call,      \* of each call: pc, and its chain object: status, currentStage, the stages
               \* that are being matched for it, those that were when it was closed
               \* (late), those it has results of, its answer
    chains,    \* the map: per identifier the call whose object it holds
    request,   \* per stage: the status of its request
    inFlight   \* inFlightByProvider, over all providers

chainVars == <<call, chains, request, inFlight>>

NewCall == [pc |-> "new", status |-> "none", current |-> -1, matching |-> {}, late |-> {},
            results |-> {}, reply |-> "none"]

CallRecords ==
    [pc : {"new", "checking", "made", "refused"}, status : {"none", "running", "completed", "failed"},
     current : -1..LastStage, matching : SUBSET Stages, late : SUBSET Stages,
     results : SUBSET Stages, reply : {"none", "whole", "stopped", "error"}]

ChainsTypeOK ==
    /\ call \in [Calls -> CallRecords]
    /\ chains \in [Ids -> Calls \cup {None}]
    /\ request \in [Ids \X Stages -> {"none", "matched", "completed", "failed"}]
    /\ inFlight \in Nat

ChainsInit ==
    /\ call = [c \in Calls |-> NewCall]
    /\ chains = [i \in Ids |-> None]
    /\ request = [k \in Ids \X Stages |-> "none"]
    /\ inFlight = 0

---------------------------------------------------------------------------

\* pruneCompleted: what may be left of a map at its limit.  The map is walked
\* in insertion order, so any of its finished entries may be the first to go.
Prunings(held, finished, max) ==
    IF Cardinality(held) < max THEN {{}}
    ELSE {gone \in SUBSET (held \cap finished) : Cardinality(held \ gone) = max - 1}

Known == {i \in Ids : chains[i] # None}
Finished == {i \in Known : call[chains[i]].status # "running"}
Held == {k \in Ids \X Stages : request[k] # "none"}
Ended == {k \in Held : request[k] # "matched"}

\* closeChain: the request its chain waits for fails and the requester is told.
\* reqs are the requests as the handler leaves them.
CloseChain(c, obj, reqs, status, reply) ==
    LET lost == {k \in DOMAIN reqs : k = <<ChainOf[c], obj.current>> /\ reqs[k] = "matched"}
    IN /\ call' = [call EXCEPT ![c] =
                      [obj EXCEPT !.status = status, !.late = @ \cup obj.matching,
                                  !.reply = IF @ = "none" THEN reply ELSE @]]
       /\ request' = [k \in DOMAIN reqs |-> IF k \in lost THEN "failed" ELSE reqs[k]]
       /\ inFlight' = inFlight - Cardinality({k \in Held : request[k] = "matched" /\
                                                          request'[k] # "matched"})

\* startChain up to its first wait.  Strict paid mode, access and the shape of
\* the stages refuse a chain without a trace.
StartChain(c) ==
    /\ call[c].pc = "new"
    /\ \E pc \in {"checking", "refused"} :
          /\ pc = "checking" => chains[ChainOf[c]] = None
          /\ call' = [call EXCEPT ![c].pc = pc]
    /\ UNCHANGED <<chains, request, inFlight>>

\* Every stage has an OFFER: the chain is made and its first stage is matched.
\* The identifier is not looked up again, so two calls may both get here.
Checked(c) ==
    /\ call[c].pc = "checking"
    /\ \E gone \in Prunings(Known, Finished, MaxChains) :
          chains' = [i \in Ids |-> IF i = ChainOf[c] THEN c
                                   ELSE IF i \in gone THEN None ELSE chains[i]]
    /\ call' = [call EXCEPT ![c] = [@ EXCEPT !.pc = "made", !.status = "running",
                                              !.matching = {0}]]
    /\ UNCHANGED <<request, inFlight>>

\* No OFFER for some stage, no room for the chain, or a failing ledger.
CheckFails(c) ==
    /\ call[c].pc = "checking"
    /\ call' = [call EXCEPT ![c].pc = "refused"]
    /\ UNCHANGED <<chains, request, inFlight>>

\* The chain object when one of its matchings is over.
Matched(c, k) == [call[c] EXCEPT !.matching = @ \ {k}]

\* dispatchChainStage after it matched: the request is made and queued.  It does
\* not look whether the chain still runs; a request that exists makes it throw.
Dispatch(c, k) ==
    LET key == <<ChainOf[c], k>>
    IN /\ k \in call[c].matching
       /\ \E gone \in Prunings(Held, Ended, MaxRequests) :
             LET left == [r \in DOMAIN request |-> IF r \in gone THEN "none" ELSE request[r]]
             IN \/ /\ left[key] = "none"
                   /\ request' = [left EXCEPT ![key] = "matched"]
                   /\ call' = [call EXCEPT ![c] = [Matched(c, k) EXCEPT !.current = k]]
                   /\ inFlight' = inFlight + 1
                \/ /\ left[key] # "none"
                   /\ request' = left
                   /\ call' = [call EXCEPT ![c] = Matched(c, k)]
                   /\ UNCHANGED inFlight
       /\ UNCHANGED chains

\* No OFFER is left, or the requester may no longer dispatch.
DispatchRefused(c, k) ==
    /\ k \in call[c].matching
    /\ CloseChain(c, Matched(c, k), request, "failed", "error")
    /\ UNCHANGED chains

\* The ledger fails, or there is no room for a request: the handler throws and
\* the chain is left to its timer.
DispatchThrows(c, k) ==
    /\ k \in call[c].matching
    /\ call' = [call EXCEPT ![c] = Matched(c, k)]
    /\ UNCHANGED <<chains, request, inFlight>>

\* processFastResult for a stage: the object the map holds gets the result, and
\* is answered or goes on to its next stage.
StageResult(i, k) ==
    LET c == chains[i]
        obj == [call[c] EXCEPT !.results = @ \cup {k}]
        reqs == [request EXCEPT ![<<i, k>>] = "completed"]
    IN /\ request[<<i, k>>] = "matched"
       /\ c # None /\ call[c].status = "running"
       /\ \/ CloseChain(c, obj, reqs, "completed", "stopped")
          \/ k = LastStage /\ CloseChain(c, obj, reqs, "completed", "whole")
          \/ /\ k < LastStage
             /\ call' = [call EXCEPT ![c] = [obj EXCEPT !.matching = @ \cup {k + 1}]]
             /\ request' = reqs
             /\ inFlight' = inFlight - 1
       /\ UNCHANGED chains

\* The timer of a chain, and the close of the relay.
ChainTimeout(c) ==
    /\ call[c].status = "running"
    /\ CloseChain(c, call[c], request, "failed", "error")
    /\ UNCHANGED chains

ChainsNext ==
    \/ \E c \in Calls :
          \/ StartChain(c) \/ Checked(c) \/ CheckFails(c) \/ ChainTimeout(c)
          \/ \E k \in Stages : Dispatch(c, k) \/ DispatchRefused(c, k) \/ DispatchThrows(c, k)
    \/ \E i \in Ids, k \in Stages : StageResult(i, k)

ChainsSpec == ChainsInit /\ [][ChainsNext]_chainVars

---------------------------------------------------------------------------

Same(c) == {d \in Calls : ChainOf[d] = ChainOf[c]}

\* The chain of a frame that was sent once: one stage is in flight at a time, the
\* one after those that have a result, and none is sent twice.  It belongs to a
\* chain that runs, unless the chain was closed while that stage was being matched.
OneStageInTurn(c) ==
    \A k \in Stages : request[<<ChainOf[c], k>>] = "matched" =>
        /\ call[c].current = k
        /\ call[c].results = 0..(k - 1)
        /\ call[c].status = "running" \/ k \in call[c].late

(* A provider gets a stage only when the stage before it has a result, and *)
(* a requester is told its chain is complete only when every stage of it   *)
(* was executed, although the frame may have been sent twice and one call  *)
(* may have taken over the results of the other (dispatchChainStage,       *)
(* processFastResult).  A frame that was sent once got all its results,    *)
(* and has its stages executed in turn; after its chain is closed only the *)
(* stage that was being matched just then still goes out.  The count of    *)
(* requests in flight is exact.                                            *)
ChainsSound ==
    /\ \A i \in Ids, k \in Stages \ {0} :
          request[<<i, k>>] = "matched" =>
              \E c \in Calls : ChainOf[c] = i /\ k - 1 \in call[c].results
    /\ \A c \in Calls : call[c].reply = "whole" =>
          /\ \A k \in Stages : \E d \in Same(c) : k \in call[d].results
          /\ Same(c) = {c} => call[c].results = Stages
    /\ \A c \in Calls : Same(c) = {c} => OneStageInTurn(c)
    /\ inFlight = Cardinality({k \in Ids \X Stages : request[k] = "matched"})

---------------------------------------------------------------------------

\* The stages of a chain that have a result.
Done == [i \in Ids |-> {k \in Stages : \E c \in Calls : ChainOf[c] = i /\ k \in call[c].results}]

\* ChainsSound, for all the earlier stages and already while a stage is matched.
ChainsInv ==
    /\ ChainsTypeOK
    /\ \A i \in Known : ChainOf[chains[i]] = i
    /\ \A i \in Ids, k \in Stages : request[<<i, k>>] = "matched" => 0..(k - 1) \subseteq Done[i]
    /\ \A c \in Calls : \A k \in call[c].matching : 0..(k - 1) \subseteq Done[ChainOf[c]]
    /\ \A c \in Calls : call[c].reply = "whole" => Done[ChainOf[c]] = Stages
    /\ inFlight = Cardinality({k \in Ids \X Stages : request[k] = "matched"})

\* A stage that is being matched is the next one, and then none is in flight.
MatchesInTurn(c) ==
    \A k \in call[c].matching :
        /\ call[c].matching = {k} /\ call[c].results = 0..(k - 1)
        /\ call[c].status = "running" \/ k \in call[c].late
        /\ \A r \in Stages : request[<<ChainOf[c], r>>] # "matched"

InTurn(c) ==
    /\ OneStageInTurn(c) /\ MatchesInTurn(c)
    /\ call[c].pc # "made" =>
          /\ call[c].matching = {} /\ call[c].status = "none" /\ call[c].results = {}
          /\ \A r \in Stages : request[<<ChainOf[c], r>>] # "matched"

TurnInv == \A c \in Calls : Same(c) = {c} => InTurn(c)
=============================================================================
