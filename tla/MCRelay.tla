------------------------------ MODULE MCRelay ------------------------------
(***************************************************************************)
(* The relay and the distributed ledger below it, in one run: each         *)
(* behaviour is one of one finite instance, and focus tells which.         *)
(*   race        handlers of one relay and a peer relay race on one NEED   *)
(*   capacity    two NEEDs compete for the room of one requester           *)
(*   tickets     calls of the Cosmos ledger race to reserve and end two    *)
(*               NEEDs for one place                                       *)
(*   compaction  compactNeed races acknowledgements and the end of a NEED  *)
(*   chains      three calls on two chains of two stages                   *)
(*   directory   two nodes and two OFFERs for one place each               *)
(*   delivery    events to two sockets, queues of one place                *)
(*   legacy      two calls on one NEED at two relays of one ledger, a      *)
(*               restart                                                   *)
(*   room        two NEEDs for the one request a relay keeps               *)
(* All calls but one that only reserves and one that only compacts are     *)
(* interchangeable.                                                        *)
(* The lemmas about chains, directory and delivery come first, then the    *)
(* other parts, the composition, its properties and the theorems.          *)
(***************************************************************************)
EXTENDS RelayFastPath, TLC

CONSTANTS
    RacedNeed, Reserver, Compactor,                 \* of the races and of compaction
    Frames, LastStage, MaxChains, MaxStageRequests, \* of chains: a frame is the set of calls that send it
    Nodes, Offers, MaxNodes, MaxOffers, SlotLimit,  \* of the directory
    Sockets, MaxEvents, MaxQueued, MaxBuffered      \* of the delivery

VARIABLES
    focus,
    history, tickets, attempts, floor, wire, answer, \* of the Cosmos ledger,
    ledgerOp, ledgerPc,                              \* with its op and pc
    v1, v2, v3, v4, v5, v6, v7, v8, v9               \* shared by the other parts

\* The shared variables, under the names that chains, directory and delivery
\* give them.
call == v1
chains == v2
stageRequest == v3
stagesInFlight == v4

node == v1
dir == v2
gone == v3
handler == v4
doc == v5
slots == v6
match == v7

kind == v1
queue == v2
socket == v3
registered == v4
waiting == v5
session == v6
ended == v7

\* The calls of startChain, and the frame that each sends.
ChainCalls == UNION Frames
ChainIds == [c \in ChainCalls |-> CHOOSE f \in Frames : c \in f]

Chains == INSTANCE RelayChains WITH
    Calls <- ChainCalls, ChainOf <- ChainIds,
    MaxRequests <- MaxStageRequests, request <- stageRequest, inFlight <- stagesInFlight

Directory == INSTANCE RelayDirectory

Delivery == INSTANCE RelayDelivery

-----------------------------------------------------------------------------
\* The chains (startChain, dispatchChainStage, the RESULT of a stage).

LEMMA ChainsCount ==
    \A S : Chains!Cardinality(S) = Cardinality(S) /\ (Chains!IsFiniteSet(S) <=> IsFiniteSet(S))
<1> SUFFICES ASSUME NEW S
             PROVE  Chains!Cardinality(S) = Cardinality(S) /\ (Chains!IsFiniteSet(S) <=> IsFiniteSet(S))
  OBVIOUS
<1>1. Chains!Cardinality(S) = Cardinality(S)
  BY DEF Chains!Cardinality, Cardinality
<1>2. Chains!IsFiniteSet(S) <=> IsFiniteSet(S)
  BY DEF Chains!IsFiniteSet, IsFiniteSet
<1> QED
  BY <1>1, <1>2

\* The stage requests that are with a provider.
BusyStages == {k \in Chains!Ids \X Chains!Stages : stageRequest[k] = "matched"}

LEMMA StagesFinite ==
    ASSUME Chains!ChainsAssumption, NEW X \in SUBSET (Chains!Ids \X Chains!Stages)
    PROVE  IsFiniteSet(X)
<1>1. IsFiniteSet(ChainCalls)
  BY ChainsCount DEF Chains!ChainsAssumption
<1>2. IsFiniteSet(Chains!Ids)
  <2> DEFINE f == [c \in ChainCalls |-> ChainIds[c]]
  <2>1. f \in Surjection(ChainCalls, Chains!Ids)
    BY DEF Surjection, Chains!Ids
  <2> HIDE DEF f
  <2> QED
    BY <1>1, <2>1, FS_Surjection
<1>3. IsFiniteSet(Chains!Stages)
  BY FS_Interval DEF Chains!Stages, Chains!ChainsAssumption
<1>4. IsFiniteSet(Chains!Ids \X Chains!Stages)
  BY <1>2, <1>3, FS_Product
<1> QED
  BY <1>4, FS_Subset

\* closeChain takes from the counter the requests it ends, and only those.
LEMMA CloseCounts ==
    ASSUME Chains!ChainsAssumption, Chains!ChainsInv, NEW c \in ChainCalls, NEW obj, NEW status, NEW reply,
           NEW reqs \in [Chains!Ids \X Chains!Stages -> {"none", "matched", "completed", "failed"}],
           \A k \in Chains!Ids \X Chains!Stages : reqs[k] = "matched" => stageRequest[k] = "matched",
           Chains!CloseChain(c, obj, reqs, status, reply)
    PROVE  /\ stageRequest' \in [Chains!Ids \X Chains!Stages -> {"none", "matched", "completed", "failed"}]
           /\ \A k \in Chains!Ids \X Chains!Stages : stageRequest'[k] = "matched" => stageRequest[k] = "matched"
           /\ stagesInFlight' \in Nat /\ stagesInFlight' = Cardinality(BusyStages')
<1>1. /\ stageRequest' \in [Chains!Ids \X Chains!Stages -> {"none", "matched", "completed", "failed"}]
      /\ \A k \in Chains!Ids \X Chains!Stages : stageRequest'[k] = "matched" => stageRequest[k] = "matched"
  BY DEF Chains!CloseChain
<1>2. IsFiniteSet(BusyStages) /\ IsFiniteSet(BusyStages')
  BY StagesFinite DEF BusyStages
<1> DEFINE L == {k \in Chains!Held : stageRequest[k] = "matched" /\ stageRequest'[k] # "matched"}
<1>3. BusyStages' = BusyStages \ L /\ BusyStages \cap L = L
  BY <1>1 DEF BusyStages, Chains!Held
<1>4. stagesInFlight = Cardinality(BusyStages) /\ stagesInFlight' = stagesInFlight - Cardinality(L)
  <2>1. stagesInFlight' = stagesInFlight - Cardinality({k \in Chains!Held : stageRequest[k] = "matched" /\
                                                          stageRequest'[k] # "matched"})
    BY Zenon, ChainsCount DEF Chains!CloseChain
  <2>2. stagesInFlight = Cardinality(BusyStages)
    BY Zenon, ChainsCount DEF Chains!ChainsInv, BusyStages
  <2> QED
    BY <2>1, <2>2
<1> HIDE DEF L
<1>5. Cardinality(BusyStages') = Cardinality(BusyStages) - Cardinality(L)
  <2>1. Cardinality(BusyStages \ L) = Cardinality(BusyStages) - Cardinality(BusyStages \cap L)
    BY <1>2, FS_Difference
  <2> QED
    BY <1>3, <2>1
<1>6. Cardinality(BusyStages') \in Nat
  BY <1>2, FS_CardinalityType
<1> QED
  BY <1>1, <1>4, <1>5, <1>6

LEMMA BusyGrows ==
    ASSUME Chains!ChainsAssumption, Chains!ChainsInv, NEW k \in Chains!Ids \X Chains!Stages, stageRequest[k] # "matched",
           NEW left \in [Chains!Ids \X Chains!Stages -> {"none", "matched", "completed", "failed"}],
           \A r \in Chains!Ids \X Chains!Stages : left[r] = "matched" <=> stageRequest[r] = "matched",
           stageRequest' = [left EXCEPT ![k] = "matched"], stagesInFlight' = stagesInFlight + 1
    PROVE  stagesInFlight' \in Nat /\ stagesInFlight' = Cardinality(BusyStages')
<1>1. BusyStages' = BusyStages \cup {k} /\ k \notin BusyStages
  BY DEF BusyStages
<1>2. IsFiniteSet(BusyStages)
  BY StagesFinite DEF BusyStages
<1>3. Cardinality(BusyStages') = Cardinality(BusyStages) + 1
  BY <1>1, <1>2, FS_AddElement
<1> QED
  BY <1>3, ChainsCount DEF Chains!ChainsInv, Chains!ChainsTypeOK, BusyStages

LEMMA BusyShrinks ==
    ASSUME Chains!ChainsAssumption, Chains!ChainsInv, NEW k \in Chains!Ids \X Chains!Stages, stageRequest[k] = "matched",
           stageRequest' = [stageRequest EXCEPT ![k] = "completed"], stagesInFlight' = stagesInFlight - 1
    PROVE  stagesInFlight' \in Nat /\ stagesInFlight' = Cardinality(BusyStages')
<1>1. BusyStages' = BusyStages \ {k} /\ k \in BusyStages
  BY DEF BusyStages, Chains!ChainsInv, Chains!ChainsTypeOK
<1>2. IsFiniteSet(BusyStages) /\ IsFiniteSet(BusyStages')
  BY StagesFinite DEF BusyStages
<1>3. Cardinality(BusyStages') = Cardinality(BusyStages) - 1
  BY <1>1, <1>2, FS_RemoveElement
<1>4. Cardinality(BusyStages') \in Nat
  BY <1>2, FS_CardinalityType
<1> QED
  BY <1>3, <1>4, ChainsCount DEF Chains!ChainsInv, Chains!ChainsTypeOK, BusyStages

\* The results of a call only grow, and so do those of a chain.
LEMMA DoneGrows ==
    ASSUME Chains!ChainsTypeOK, NEW c \in ChainCalls, NEW obj \in Chains!CallRecords,
           call' = [call EXCEPT ![c] = obj], call[c].results \subseteq obj.results
    PROVE  /\ \A i \in Chains!Ids : Chains!Done[i] \subseteq Chains!Done'[i] /\ Chains!Done'[i] \subseteq Chains!Stages
           /\ obj.results \subseteq Chains!Done'[ChainIds[c]]
<1>1. call'[c] = obj /\ \A d \in ChainCalls \ {c} : call'[d] = call[d]
  BY DEF Chains!ChainsTypeOK
<1>2. \A d \in ChainCalls : call[d].results \subseteq call'[d].results
  BY <1>1
<1>3. obj.results \subseteq Chains!Stages /\ ChainIds[c] \in Chains!Ids
  BY DEF Chains!CallRecords, Chains!Ids
<1> QED
  BY <1>1, <1>2, <1>3 DEF Chains!Done

\* A step of one call.  Its object may start a stage, or tell its requester that all
\* is done, only when the stages before are done; the requests follow.
LEMMA CallMoves ==
    ASSUME Chains!ChainsInv, NEW c \in ChainCalls, NEW obj \in Chains!CallRecords, call' = [call EXCEPT ![c] = obj],
           call[c].results \subseteq obj.results,
           \A k \in obj.matching : 0..(k - 1) \subseteq Chains!Done'[ChainIds[c]],
           obj.reply = "whole" => Chains!Done'[ChainIds[c]] = Chains!Stages,
           stageRequest' \in [Chains!Ids \X Chains!Stages -> {"none", "matched", "completed", "failed"}],
           \A i \in Chains!Ids, k \in Chains!Stages : stageRequest'[<<i, k>>] = "matched" =>
               stageRequest[<<i, k>>] = "matched" \/ 0..(k - 1) \subseteq Chains!Done'[i],
           stagesInFlight' \in Nat, stagesInFlight' = Cardinality(BusyStages'),
           chains' \in [Chains!Ids -> ChainCalls \cup {Chains!None}],
           \A i \in Chains!Known' : ChainIds[chains'[i]] = i,
           Chains!ChainsAssumption
    PROVE  Chains!ChainsInv'
<1>1. call' \in [ChainCalls -> Chains!CallRecords] /\ call'[c] = obj /\ \A d \in ChainCalls \ {c} : call'[d] = call[d]
  BY DEF Chains!ChainsInv, Chains!ChainsTypeOK
<1>3. \A d \in ChainCalls : ChainIds[d] \in Chains!Ids
  BY DEF Chains!Ids
<1>4. Chains!Stages \subseteq Int /\ LastStage + 1 \in Int
  BY DEF Chains!Stages, Chains!ChainsAssumption
<1>5. \A i \in Chains!Ids : Chains!Done[i] \subseteq Chains!Done'[i] /\ Chains!Done'[i] \subseteq Chains!Stages
  BY DoneGrows DEF Chains!ChainsInv
<1>6. ASSUME NEW i \in Chains!Ids, NEW k \in Chains!Stages, stageRequest'[<<i, k>>] = "matched"
      PROVE  0..(k - 1) \subseteq Chains!Done'[i]
  BY <1>4, <1>5, <1>6 DEF Chains!ChainsInv
<1>7. ASSUME NEW d \in ChainCalls, NEW k \in call'[d].matching PROVE 0..(k - 1) \subseteq Chains!Done'[ChainIds[d]]
  <2>1. CASE d = c
    BY <1>1, <1>7, <2>1
  <2>2. CASE d # c
    <3>1. k \in call[d].matching /\ call[d].matching \subseteq Chains!Stages
      BY <1>1, <1>7, <2>2 DEF Chains!ChainsInv, Chains!ChainsTypeOK, Chains!CallRecords
    <3>2. 0..(k - 1) \subseteq Chains!Done[ChainIds[d]]
      BY <3>1 DEF Chains!ChainsInv
    <3> QED
      BY <1>3, <1>4, <1>5, <3>1, <3>2
  <2> QED
    BY <2>1, <2>2
<1>8. ASSUME NEW d \in ChainCalls, call'[d].reply = "whole" PROVE Chains!Done'[ChainIds[d]] = Chains!Stages
  <2>1. CASE d = c
    BY <1>1, <1>8, <2>1
  <2>2. CASE d # c
    <3>1. Chains!Done[ChainIds[d]] = Chains!Stages
      BY <1>1, <1>8, <2>2 DEF Chains!ChainsInv
    <3>2. Chains!Stages \subseteq Chains!Done'[ChainIds[d]] /\ Chains!Done'[ChainIds[d]] \subseteq Chains!Stages
      BY <1>3, <1>5, <3>1
    <3> QED
      BY <3>2
  <2> QED
    BY <2>1, <2>2
<1>9. Chains!ChainsTypeOK'
  BY <1>1 DEF Chains!ChainsTypeOK
<1> QED
  BY <1>6, <1>7, <1>8, <1>9, ChainsCount DEF Chains!ChainsInv, BusyStages

LEMMA ChainsInvInit ==
    ASSUME Chains!ChainsAssumption, Chains!ChainsInit
    PROVE  Chains!ChainsInv
<1>1. Chains!ChainsTypeOK
  BY DEF Chains!ChainsInit, Chains!ChainsTypeOK, Chains!CallRecords, Chains!NewCall,
     Chains!ChainsAssumption, Chains!None
<1>2. {k \in Chains!Ids \X Chains!Stages : stageRequest[k] = "matched"} = {}
  BY DEF Chains!ChainsInit
<1>3. stagesInFlight = Cardinality({k \in Chains!Ids \X Chains!Stages : stageRequest[k] = "matched"})
  BY <1>2, FS_EmptySet DEF Chains!ChainsInit
<1>4. \A c \in ChainCalls : call[c].matching = {} /\ call[c].reply = "none"
  BY DEF Chains!ChainsInit, Chains!NewCall
<1>5. Chains!Known = {} /\ \A k \in Chains!Ids \X Chains!Stages : stageRequest[k] = "none"
  BY DEF Chains!ChainsInit, Chains!Known
<1> QED
  BY <1>1, <1>3, <1>4, <1>5, ChainsCount DEF Chains!ChainsInv

LEMMA ChainsInvNext ==
    ASSUME Chains!ChainsAssumption, Chains!ChainsInv, Chains!ChainsNext
    PROVE  Chains!ChainsInv'
<1> USE DEF Chains!None
<1>0. /\ call \in [ChainCalls -> Chains!CallRecords] /\ chains \in [Chains!Ids -> ChainCalls \cup {Chains!None}]
      /\ stageRequest \in [Chains!Ids \X Chains!Stages -> {"none", "matched", "completed", "failed"}]
      /\ stagesInFlight \in Nat /\ \A c \in ChainCalls : ChainIds[c] \in Chains!Ids
  BY DEF Chains!ChainsInv, Chains!ChainsTypeOK, Chains!Ids
<1>1. Chains!Stages \subseteq Int /\ LastStage + 1 \in Int /\ 0 \in Chains!Stages /\ "none" \notin ChainCalls
  BY DEF Chains!Stages, Chains!ChainsAssumption
<1>2. ASSUME NEW c \in ChainCalls, NEW obj \in Chains!CallRecords, call' = [call EXCEPT ![c] = obj],
             call[c].results \subseteq obj.results
      PROVE  /\ \A i \in Chains!Ids : Chains!Done[i] \subseteq Chains!Done'[i] /\ Chains!Done'[i] \subseteq Chains!Stages
             /\ obj.results \subseteq Chains!Done'[ChainIds[c]]
  BY <1>2, DoneGrows DEF Chains!ChainsInv
<1>3. /\ \A c \in ChainCalls : \A k \in call[c].matching : k \in Chains!Stages /\ 0..(k - 1) \subseteq Chains!Done[ChainIds[c]]
      /\ \A c \in ChainCalls : call[c].reply = "whole" => Chains!Done[ChainIds[c]] = Chains!Stages
  BY <1>0 DEF Chains!ChainsInv, Chains!CallRecords
<1>4. \A i \in Chains!Known : ChainIds[chains[i]] = i
  BY DEF Chains!ChainsInv
<1>5. ASSUME UNCHANGED <<stageRequest, stagesInFlight>> 
      PROVE  stagesInFlight' \in Nat /\ stagesInFlight' = Cardinality(BusyStages')
  <2>1. BusyStages' = BusyStages
    BY <1>5 DEF BusyStages
  <2>2. stagesInFlight = Cardinality(BusyStages)
    BY ChainsCount DEF Chains!ChainsInv, BusyStages
  <2> QED
    BY <1>0, <1>5, <2>1, <2>2
<1>6. ASSUME UNCHANGED chains
      PROVE  chains' \in [Chains!Ids -> ChainCalls \cup {Chains!None}] /\ \A i \in Chains!Known' : ChainIds[chains'[i]] = i
  BY <1>0, <1>4, <1>6 DEF Chains!Known
\* A step that changes one object and no request.
<1>7. ASSUME NEW c \in ChainCalls, NEW obj \in Chains!CallRecords, call' = [call EXCEPT ![c] = obj],
             obj.results = call[c].results, obj.matching \subseteq call[c].matching \cup {0},
             obj.reply = call[c].reply,
             UNCHANGED <<stageRequest, stagesInFlight>>,
             chains' \in [Chains!Ids -> ChainCalls \cup {Chains!None}],
             \A i \in Chains!Known' : ChainIds[chains'[i]] = i
      PROVE  Chains!ChainsInv'
  <2>1. \A i \in Chains!Ids : Chains!Done[i] \subseteq Chains!Done'[i] /\ Chains!Done'[i] \subseteq Chains!Stages
    BY <1>2, <1>7
  <2>2. 0..(0 - 1) = {}
    OBVIOUS
  <2>3. \A k \in obj.matching : 0..(k - 1) \subseteq Chains!Done'[ChainIds[c]]
    BY <1>0, <1>1, <1>3, <1>7, <2>1, <2>2
  <2>4. ASSUME obj.reply = "whole" PROVE Chains!Done'[ChainIds[c]] = Chains!Stages
    <3>1. Chains!Done[ChainIds[c]] = Chains!Stages /\ ChainIds[c] \in Chains!Ids
      BY <1>0, <1>3, <1>7, <2>4
    <3>2. Chains!Stages \subseteq Chains!Done'[ChainIds[c]] /\ Chains!Done'[ChainIds[c]] \subseteq Chains!Stages
      BY <2>1, <3>1
    <3> QED
      BY <3>2
  <2>5. stagesInFlight' \in Nat /\ stagesInFlight' = Cardinality(BusyStages')
    BY <1>5, <1>7
  <2> QED
    BY <1>0, <1>7, <2>3, <2>4, <2>5, CallMoves
<1>8. ASSUME NEW c \in ChainCalls, Chains!StartChain(c) \/ Chains!CheckFails(c) PROVE Chains!ChainsInv'
  <2>1. PICK at \in {"checking", "refused"} : call' = [call EXCEPT ![c].pc = at]
    BY <1>8 DEF Chains!StartChain, Chains!CheckFails
  <2> DEFINE obj == [call[c] EXCEPT !.pc = at]
  <2>2. /\ obj \in Chains!CallRecords /\ obj.results = call[c].results
        /\ obj.matching = call[c].matching /\ obj.reply = call[c].reply
    BY <1>0 DEF Chains!CallRecords
  <2>3. call' = [call EXCEPT ![c] = obj] /\ UNCHANGED <<chains, stageRequest, stagesInFlight>>
    BY <1>0, <1>8, <2>1 DEF Chains!StartChain, Chains!CheckFails
  <2> HIDE DEF obj
  <2> QED
    BY <1>6, <1>7, <2>2, <2>3
<1>9. ASSUME NEW c \in ChainCalls, NEW k \in Chains!Stages, Chains!DispatchThrows(c, k) PROVE Chains!ChainsInv'
  <2> DEFINE obj == Chains!Matched(c, k)
  <2>2. /\ obj \in Chains!CallRecords /\ obj.results = call[c].results
        /\ obj.matching \subseteq call[c].matching /\ obj.reply = call[c].reply
    BY <1>0 DEF Chains!CallRecords, Chains!Matched
  <2>3. call' = [call EXCEPT ![c] = obj] /\ UNCHANGED <<chains, stageRequest, stagesInFlight>>
    BY <1>9 DEF Chains!DispatchThrows
  <2> HIDE DEF obj
  <2> QED
    BY <1>6, <1>7, <2>2, <2>3
<1>10. ASSUME NEW c \in ChainCalls, Chains!Checked(c) PROVE Chains!ChainsInv'
  <2> DEFINE obj == [call[c] EXCEPT !.pc = "made", !.status = "running", !.matching = {0}]
  <2>1. /\ obj \in Chains!CallRecords /\ obj.results = call[c].results
        /\ obj.matching = {0} /\ obj.reply = call[c].reply
    BY ZenonT(60), <1>0, <1>1 DEF Chains!CallRecords
  <2>2. call' = [call EXCEPT ![c] = obj] /\ UNCHANGED <<stageRequest, stagesInFlight>>
    BY <1>10 DEF Chains!Checked
  <2>3. PICK pruned : chains' = [i \in Chains!Ids |-> IF i = ChainIds[c] THEN c
                                             ELSE IF i \in pruned THEN Chains!None ELSE chains[i]]
    BY <1>10 DEF Chains!Checked
  <2>4. chains' \in [Chains!Ids -> ChainCalls \cup {Chains!None}]
    BY <1>0, <2>3
  <2>5. \A i \in Chains!Known' : ChainIds[chains'[i]] = i
    BY <1>0, <1>4, <2>3 DEF Chains!Known
  <2> HIDE DEF obj
  <2> QED
    BY <1>7, <2>1, <2>2, <2>4, <2>5
\* closeChain, with an object that has all its results.
<1>11. ASSUME NEW c \in ChainCalls, NEW obj \in Chains!CallRecords, NEW status \in {"completed", "failed"},
              NEW reply \in {"whole", "stopped", "error"},
              NEW reqs \in [Chains!Ids \X Chains!Stages -> {"none", "matched", "completed", "failed"}],
              \A r \in Chains!Ids \X Chains!Stages : reqs[r] = "matched" => stageRequest[r] = "matched",
              Chains!CloseChain(c, obj, reqs, status, reply), UNCHANGED chains,
              obj.reply = call[c].reply, obj.matching \subseteq call[c].matching,
              call[c].results \subseteq obj.results,
              reply = "whole" => 0..(LastStage - 1) \subseteq Chains!Done[ChainIds[c]] /\ LastStage \in obj.results
       PROVE  Chains!ChainsInv'
  <2> DEFINE new == [obj EXCEPT !.status = status, !.late = @ \cup obj.matching,
                                !.reply = IF @ = "none" THEN reply ELSE @]
  <2>1. /\ new \in Chains!CallRecords /\ new.results = obj.results /\ new.matching = obj.matching
        /\ new.reply = IF obj.reply = "none" THEN reply ELSE obj.reply
    BY <1>11 DEF Chains!CallRecords
  <2>2. call' = [call EXCEPT ![c] = new]
    BY <1>11, Zenon DEF Chains!CloseChain
  <2> HIDE DEF new
  <2>3. /\ stageRequest' \in [Chains!Ids \X Chains!Stages -> {"none", "matched", "completed", "failed"}]
        /\ \A r \in Chains!Ids \X Chains!Stages : stageRequest'[r] = "matched" => stageRequest[r] = "matched"
        /\ stagesInFlight' \in Nat /\ stagesInFlight' = Cardinality(BusyStages')
    BY <1>11, CloseCounts
  <2>4. \A i \in Chains!Ids : Chains!Done[i] \subseteq Chains!Done'[i] /\ Chains!Done'[i] \subseteq Chains!Stages
    BY <1>2, <1>11, <2>1, <2>2
  <2>5. \A k \in new.matching : 0..(k - 1) \subseteq Chains!Done'[ChainIds[c]]
    BY <1>0, <1>1, <1>3, <1>11, <2>1, <2>4
  <2>6. new.results \subseteq Chains!Done'[ChainIds[c]]
    BY <1>2, <1>11, <2>1, <2>2
  <2>7. new.reply = "whole" => Chains!Done'[ChainIds[c]] = Chains!Stages
    <3>1. CASE call[c].reply = "whole"
      BY ZenonT(60), <1>0, <1>1, <1>3, <2>4, <3>1
    <3>2. CASE call[c].reply # "whole" /\ reply = "whole"
      <4>1. 0..(LastStage - 1) \subseteq Chains!Done'[ChainIds[c]]
        BY <1>0, <1>1, <1>11, <2>4, <3>2 DEF Chains!ChainsAssumption
      <4>2. LastStage \in Chains!Done'[ChainIds[c]]
        BY <1>11, <2>1, <2>6, <3>2
      <4>3. Chains!Stages = 0..(LastStage - 1) \cup {LastStage}
        BY DEF Chains!Stages, Chains!ChainsAssumption
      <4>4. Chains!Stages \subseteq Chains!Done'[ChainIds[c]] /\ Chains!Done'[ChainIds[c]] \subseteq Chains!Stages
        BY <1>0, <2>4, <4>1, <4>2, <4>3
      <4> QED
        BY <4>4
    <3> QED
      BY <1>11, <2>1, <3>1, <3>2
  <2>8. chains' \in [Chains!Ids -> ChainCalls \cup {Chains!None}] /\ \A i \in Chains!Known' : ChainIds[chains'[i]] = i
    BY <1>6, <1>11
  <2>9. \A i \in Chains!Ids, k \in Chains!Stages : stageRequest'[<<i, k>>] = "matched" => stageRequest[<<i, k>>] = "matched"
    BY <2>3
  <2> QED
    BY ZenonT(60), <1>11, <2>1, <2>2, <2>3, <2>5, <2>7, <2>8, <2>9, CallMoves
<1>12. ASSUME NEW c \in ChainCalls, Chains!ChainTimeout(c) PROVE Chains!ChainsInv'
  <2>1. call[c] \in Chains!CallRecords
    BY <1>0
  <2>2. Chains!CloseChain(c, call[c], stageRequest, "failed", "error") /\ UNCHANGED chains
    BY <1>12 DEF Chains!ChainTimeout
  <2> QED
    BY <1>0, <1>11, <2>1, <2>2
<1>13. ASSUME NEW c \in ChainCalls, NEW k \in Chains!Stages, Chains!DispatchRefused(c, k) PROVE Chains!ChainsInv'
  <2> DEFINE obj == Chains!Matched(c, k)
  <2>1. /\ obj \in Chains!CallRecords /\ obj.results = call[c].results
        /\ obj.matching \subseteq call[c].matching /\ obj.reply = call[c].reply
    BY <1>0 DEF Chains!CallRecords, Chains!Matched
  <2>2. Chains!CloseChain(c, obj, stageRequest, "failed", "error") /\ UNCHANGED chains
    BY <1>13 DEF Chains!DispatchRefused
  <2> HIDE DEF obj
  <2> QED
    BY <1>0, <1>11, <2>1, <2>2
<1>14. ASSUME NEW c \in ChainCalls, NEW k \in Chains!Stages, Chains!Dispatch(c, k) PROVE Chains!ChainsInv'
  <2> DEFINE key == <<ChainIds[c], k>>
  <2>1. PICK pruned \in Chains!Prunings(Chains!Held, Chains!Ended, MaxStageRequests) :
          LET left == [r \in DOMAIN stageRequest |-> IF r \in pruned THEN "none" ELSE stageRequest[r]]
          IN \/ /\ left[key] = "none"
                /\ stageRequest' = [left EXCEPT ![key] = "matched"]
                /\ call' = [call EXCEPT ![c] = [Chains!Matched(c, k) EXCEPT !.current = k]]
                /\ stagesInFlight' = stagesInFlight + 1
             \/ /\ left[key] # "none"
                /\ stageRequest' = left
                /\ call' = [call EXCEPT ![c] = Chains!Matched(c, k)]
                /\ UNCHANGED stagesInFlight
    BY <1>14, Zenon DEF Chains!Dispatch
  <2> DEFINE left == [r \in DOMAIN stageRequest |-> IF r \in pruned THEN "none" ELSE stageRequest[r]]
  <2>2. pruned \subseteq Chains!Ended
    BY DEF Chains!Prunings
  <2>3. /\ left \in [Chains!Ids \X Chains!Stages -> {"none", "matched", "completed", "failed"}]
        /\ \A r \in Chains!Ids \X Chains!Stages : left[r] = "matched" <=> stageRequest[r] = "matched"
    BY <1>0, <2>2 DEF Chains!Ended
  <2>4. key \in Chains!Ids \X Chains!Stages
    BY <1>0
  <2>5. k \in call[c].matching /\ UNCHANGED chains
    BY <1>14 DEF Chains!Dispatch
  <2>6. 0..(k - 1) \subseteq Chains!Done[ChainIds[c]]
    BY <1>3, <2>5
  <2>7. chains' \in [Chains!Ids -> ChainCalls \cup {Chains!None}] /\ \A i \in Chains!Known' : ChainIds[chains'[i]] = i
    BY <1>6, <2>5
  <2>8. CASE /\ left[key] = "none"
             /\ stageRequest' = [left EXCEPT ![key] = "matched"]
             /\ call' = [call EXCEPT ![c] = [Chains!Matched(c, k) EXCEPT !.current = k]]
             /\ stagesInFlight' = stagesInFlight + 1
    <3> DEFINE obj == [Chains!Matched(c, k) EXCEPT !.current = k]
    <3>0. k \in -1..LastStage
      BY DEF Chains!Stages, Chains!ChainsAssumption
    <3>1. /\ obj \in Chains!CallRecords /\ obj.results = call[c].results
          /\ obj.matching \subseteq call[c].matching /\ obj.reply = call[c].reply
      BY ZenonT(60), <1>0, <3>0 DEF Chains!CallRecords, Chains!Matched
    <3>2. call' = [call EXCEPT ![c] = obj]
      BY <2>8
    <3> HIDE DEF obj
    <3>3. \A i \in Chains!Ids : Chains!Done[i] \subseteq Chains!Done'[i] /\ Chains!Done'[i] \subseteq Chains!Stages
      BY <1>2, <3>1, <3>2
    <3>4. stageRequest[key] # "matched"
      BY <2>3, <2>4, <2>8
    <3> HIDE DEF left
    <3>5. stagesInFlight' \in Nat /\ stagesInFlight' = Cardinality(BusyStages')
      BY <2>3, <2>4, <2>8, <3>4, BusyGrows
    <3>6. stageRequest' \in [Chains!Ids \X Chains!Stages -> {"none", "matched", "completed", "failed"}]
      BY <2>3, <2>4, <2>8
    <3>7. \A i \in Chains!Ids, j \in Chains!Stages : stageRequest'[<<i, j>>] = "matched" =>
               stageRequest[<<i, j>>] = "matched" \/ 0..(j - 1) \subseteq Chains!Done'[i]
      <4>1. 0..(k - 1) \subseteq Chains!Done'[ChainIds[c]]
        BY <1>0, <1>1, <2>6, <3>3
      <4> QED
        BY <2>3, <2>4, <2>8, <4>1
    <3>8. \A j \in obj.matching : 0..(j - 1) \subseteq Chains!Done'[ChainIds[c]]
      BY <1>0, <1>1, <1>3, <3>1, <3>3
    <3>9. obj.reply = "whole" => Chains!Done'[ChainIds[c]] = Chains!Stages
      BY ZenonT(60), <1>0, <1>1, <1>3, <3>1, <3>3
    <3> QED
      BY <2>7, <3>1, <3>2, <3>5, <3>6, <3>7, <3>8, <3>9, CallMoves
  <2>9. CASE /\ left[key] # "none"
             /\ stageRequest' = left
             /\ call' = [call EXCEPT ![c] = Chains!Matched(c, k)]
             /\ UNCHANGED stagesInFlight
    <3> DEFINE obj == Chains!Matched(c, k)
    <3>1. /\ obj \in Chains!CallRecords /\ obj.results = call[c].results
          /\ obj.matching \subseteq call[c].matching /\ obj.reply = call[c].reply
      BY <1>0 DEF Chains!CallRecords, Chains!Matched
    <3>2. call' = [call EXCEPT ![c] = obj]
      BY <2>9
    <3> HIDE DEF obj
    <3>3. \A i \in Chains!Ids : Chains!Done[i] \subseteq Chains!Done'[i] /\ Chains!Done'[i] \subseteq Chains!Stages
      BY <1>2, <3>1, <3>2
    <3> HIDE DEF left
    <3>4. BusyStages' = BusyStages
      BY <2>3, <2>9 DEF BusyStages
    <3>5. stagesInFlight' \in Nat /\ stagesInFlight' = Cardinality(BusyStages')
      <4>1. stagesInFlight = Cardinality(BusyStages)
        BY ChainsCount DEF Chains!ChainsInv, BusyStages
      <4> QED
        BY <1>0, <2>9, <3>4, <4>1
    <3>6. /\ stageRequest' \in [Chains!Ids \X Chains!Stages -> {"none", "matched", "completed", "failed"}]
          /\ \A i \in Chains!Ids, j \in Chains!Stages : stageRequest'[<<i, j>>] = "matched" => stageRequest[<<i, j>>] = "matched"
      BY <2>3, <2>9
    <3>8. \A j \in obj.matching : 0..(j - 1) \subseteq Chains!Done'[ChainIds[c]]
      BY <1>0, <1>1, <1>3, <3>1, <3>3
    <3>9. obj.reply = "whole" => Chains!Done'[ChainIds[c]] = Chains!Stages
      BY ZenonT(60), <1>0, <1>1, <1>3, <3>1, <3>3
    <3> QED
      BY <2>7, <3>1, <3>2, <3>5, <3>6, <3>8, <3>9, CallMoves
  <2> QED
    BY <2>1, <2>8, <2>9
<1>15. ASSUME NEW i \in Chains!Ids, NEW k \in Chains!Stages, Chains!StageResult(i, k) PROVE Chains!ChainsInv'
  <2> DEFINE c == chains[i]
             obj == [call[c] EXCEPT !.results = @ \cup {k}]
             reqs == [stageRequest EXCEPT ![<<i, k>>] = "completed"]
  <2>1. /\ stageRequest[<<i, k>>] = "matched" /\ c # Chains!None /\ UNCHANGED chains
        /\ \/ Chains!CloseChain(c, obj, reqs, "completed", "stopped")
           \/ k = LastStage /\ Chains!CloseChain(c, obj, reqs, "completed", "whole")
           \/ /\ k < LastStage
              /\ call' = [call EXCEPT ![c] = [obj EXCEPT !.matching = @ \cup {k + 1}]]
              /\ stageRequest' = reqs
              /\ stagesInFlight' = stagesInFlight - 1
    BY <1>15, Zenon DEF Chains!StageResult
  <2>2. c \in ChainCalls /\ ChainIds[c] = i
    BY <1>0, <1>4, <2>1 DEF Chains!Known
  <2> HIDE DEF c
  <2>3. /\ obj \in Chains!CallRecords /\ obj.results = call[c].results \cup {k}
        /\ obj.matching = call[c].matching /\ obj.reply = call[c].reply
    BY <1>0, <2>2 DEF Chains!CallRecords
  <2>4. /\ reqs \in [Chains!Ids \X Chains!Stages -> {"none", "matched", "completed", "failed"}]
        /\ \A r \in Chains!Ids \X Chains!Stages : reqs[r] = "matched" => stageRequest[r] = "matched"
    BY <1>0
  <2>5. 0..(k - 1) \subseteq Chains!Done[i]
    BY <2>1 DEF Chains!ChainsInv
  <2>6. CASE Chains!CloseChain(c, obj, reqs, "completed", "stopped")
    <3> HIDE DEF obj, reqs
    <3> QED
      BY ZenonT(60), <1>11, <2>1, <2>2, <2>3, <2>4, <2>6
  <2>7. CASE k = LastStage /\ Chains!CloseChain(c, obj, reqs, "completed", "whole")
    <3> HIDE DEF obj, reqs
    <3> QED
      BY ZenonT(60), <1>11, <2>1, <2>2, <2>3, <2>4, <2>5, <2>7
  <2>8. CASE /\ k < LastStage
             /\ call' = [call EXCEPT ![c] = [obj EXCEPT !.matching = @ \cup {k + 1}]]
             /\ stageRequest' = reqs
             /\ stagesInFlight' = stagesInFlight - 1
    <3> DEFINE new == [obj EXCEPT !.matching = @ \cup {k + 1}]
    <3> HIDE DEF obj
    <3>1. k \in Nat /\ k + 1 \in Chains!Stages
      BY <2>8 DEF Chains!Stages, Chains!ChainsAssumption
    <3>2. /\ new \in Chains!CallRecords /\ new.results = call[c].results \cup {k}
          /\ new.matching = call[c].matching \cup {k + 1} /\ new.reply = call[c].reply
      BY <2>3, <3>1 DEF Chains!CallRecords
    <3>3. call' = [call EXCEPT ![c] = new]
      BY <2>8
    <3> HIDE DEF new
    <3>4. \A h \in Chains!Ids : Chains!Done[h] \subseteq Chains!Done'[h] /\ Chains!Done'[h] \subseteq Chains!Stages
      BY <1>2, <2>2, <3>2, <3>3
    <3>5. k \in Chains!Done'[i]
      BY <1>2, <2>2, <3>2, <3>3
    <3>6. 0..k \subseteq Chains!Done'[i]
      <4>1. 0..(k - 1) \subseteq Chains!Done'[i]
        BY <2>5, <3>1, <3>4
      <4> QED
        BY <3>1, <3>5, <4>1
    <3>7. \A j \in new.matching : 0..(j - 1) \subseteq Chains!Done'[ChainIds[c]]
      BY <1>0, <1>1, <1>3, <2>2, <3>2, <3>4, <3>6
    <3>8. new.reply = "whole" => Chains!Done'[ChainIds[c]] = Chains!Stages
      BY ZenonT(60), <1>0, <1>1, <1>3, <2>2, <3>2, <3>4
    <3>9. stagesInFlight' \in Nat /\ stagesInFlight' = Cardinality(BusyStages')
      BY <2>1, <2>8, BusyShrinks
    <3>10. /\ stageRequest' \in [Chains!Ids \X Chains!Stages -> {"none", "matched", "completed", "failed"}]
           /\ \A h \in Chains!Ids, j \in Chains!Stages :
                 stageRequest'[<<h, j>>] = "matched" => stageRequest[<<h, j>>] = "matched"
      BY <2>4, <2>8
    <3>11. chains' \in [Chains!Ids -> ChainCalls \cup {Chains!None}] /\ \A h \in Chains!Known' : ChainIds[chains'[h]] = h
      BY <1>6, <2>1
    <3> QED
      BY <2>2, <3>2, <3>3, <3>7, <3>8, <3>9, <3>10, <3>11, CallMoves
  <2> QED
    BY <2>1, <2>6, <2>7, <2>8
<1> QED
  BY <1>8, <1>9, <1>10, <1>12, <1>13, <1>14, <1>15 DEF Chains!ChainsNext

\* The stages of a frame that was sent once: proofs.
LEMMA TurnInvInit == Chains!ChainsInit => Chains!TurnInv
<1> SUFFICES ASSUME Chains!ChainsInit PROVE Chains!TurnInv
  OBVIOUS
<1>1. \A d \in ChainCalls : call[d] = Chains!NewCall /\ ChainIds[d] \in Chains!Ids
  BY DEF Chains!ChainsInit, Chains!Ids
<1>2. \A d \in ChainCalls, r \in Chains!Stages : stageRequest[<<ChainIds[d], r>>] # "matched"
  BY <1>1 DEF Chains!ChainsInit
<1> QED
  BY <1>1, <1>2 DEF Chains!TurnInv, Chains!InTurn, Chains!OneStageInTurn, Chains!MatchesInTurn, Chains!NewCall

\* A call whose object stays, and none of whose stages is dispatched.
LEMMA TurnStays ==
    ASSUME NEW d \in ChainCalls, Chains!InTurn(d), call'[d] = call[d],
           \A r \in Chains!Stages : stageRequest'[<<ChainIds[d], r>>] = "matched" => stageRequest[<<ChainIds[d], r>>] = "matched"
    PROVE  Chains!InTurn(d)'
BY DEF Chains!InTurn, Chains!OneStageInTurn, Chains!MatchesInTurn

\* closeChain of another call, or of the only one: what it waits for has failed.
LEMMA CloseTurn ==
    ASSUME Chains!ChainsTypeOK, NEW c \in ChainCalls, NEW obj \in Chains!CallRecords, NEW status, NEW reply,
           NEW reqs \in [Chains!Ids \X Chains!Stages -> {"none", "matched", "completed", "failed"}],
           Chains!CloseChain(c, obj, reqs, status, reply)
    PROVE  /\ \A d \in ChainCalls \ {c} : call'[d] = call[d]
           /\ \A d \in ChainCalls, r \in Chains!Stages : stageRequest'[<<ChainIds[d], r>>] = "matched" => reqs[<<ChainIds[d], r>>] = "matched"
           /\ stageRequest'[<<ChainIds[c], obj.current>>] # "matched" \/ obj.current \notin Chains!Stages
           /\ call'[c].pc = obj.pc /\ call'[c].matching = obj.matching
           /\ call'[c].results = obj.results /\ obj.matching \subseteq call'[c].late
<1> DEFINE lost == {k \in DOMAIN reqs : k = <<ChainIds[c], obj.current>> /\ reqs[k] = "matched"}
           new == [obj EXCEPT !.status = status, !.late = @ \cup obj.matching,
                              !.reply = IF @ = "none" THEN reply ELSE @]
<1>1. /\ call' = [call EXCEPT ![c] = new]
      /\ stageRequest' = [k \in DOMAIN reqs |-> IF k \in lost THEN "failed" ELSE reqs[k]]
  BY Zenon DEF Chains!CloseChain
<1>2. /\ new.pc = obj.pc /\ new.matching = obj.matching /\ new.results = obj.results
      /\ obj.matching \subseteq new.late /\ \A d \in ChainCalls : ChainIds[d] \in Chains!Ids
  BY DEF Chains!Ids, Chains!CallRecords
<1>3. DOMAIN reqs = Chains!Ids \X Chains!Stages
  OBVIOUS
<1> HIDE DEF new
<1>4. call'[c] = new /\ \A d \in ChainCalls \ {c} : call'[d] = call[d]
  BY <1>1 DEF Chains!ChainsTypeOK
<1>5. \A d \in ChainCalls, r \in Chains!Stages : stageRequest'[<<ChainIds[d], r>>] = "matched" => reqs[<<ChainIds[d], r>>] = "matched"
  BY <1>1, <1>2, <1>3
<1>6. stageRequest'[<<ChainIds[c], obj.current>>] # "matched" \/ obj.current \notin Chains!Stages
  BY <1>1, <1>2, <1>3
<1> QED
  BY <1>2, <1>4, <1>5, <1>6

\* closeChain of a frame that was sent once leaves none of its stages in flight.
LEMMA CloseEndsTurn ==
    ASSUME Chains!ChainsTypeOK, NEW c \in ChainCalls, Chains!InTurn(c), NEW obj \in Chains!CallRecords,
           NEW status, NEW reply,
           NEW reqs \in [Chains!Ids \X Chains!Stages -> {"none", "matched", "completed", "failed"}],
           \A r \in Chains!Stages : reqs[<<ChainIds[c], r>>] = "matched" => stageRequest[<<ChainIds[c], r>>] = "matched",
           obj.current = call[c].current, obj.matching \subseteq call[c].matching, call[c].pc = "made",
           obj.pc = "made", obj.results = call[c].results \/ call[c].matching = {},
           Chains!CloseChain(c, obj, reqs, status, reply)
    PROVE  Chains!InTurn(c)'
<1>0. /\ \A d \in ChainCalls, r \in Chains!Stages :
            stageRequest'[<<ChainIds[d], r>>] = "matched" => reqs[<<ChainIds[d], r>>] = "matched"
      /\ stageRequest'[<<ChainIds[c], obj.current>>] # "matched" \/ obj.current \notin Chains!Stages
  BY ZenonT(60), CloseTurn
<1>1. \A r \in Chains!Stages : stageRequest'[<<ChainIds[c], r>>] # "matched"
  BY <1>0 DEF Chains!InTurn, Chains!OneStageInTurn
<1>2. /\ call'[c].pc = "made" /\ call'[c].matching = obj.matching
      /\ call'[c].results = obj.results /\ obj.matching \subseteq call'[c].late
  BY ZenonT(60), CloseTurn
<1>3. Chains!OneStageInTurn(c)'
  BY <1>1 DEF Chains!OneStageInTurn
<1>4. Chains!MatchesInTurn(c)'
  BY <1>1, <1>2 DEF Chains!InTurn, Chains!MatchesInTurn
<1> QED
  BY <1>2, <1>3, <1>4 DEF Chains!InTurn

LEMMA CloseElsewhere ==
    ASSUME Chains!ChainsTypeOK, NEW c \in ChainCalls, NEW d \in ChainCalls, c # d, Chains!InTurn(d),
           NEW obj \in Chains!CallRecords, NEW status, NEW reply,
           NEW reqs \in [Chains!Ids \X Chains!Stages -> {"none", "matched", "completed", "failed"}],
           \A r \in Chains!Stages : reqs[<<ChainIds[d], r>>] = "matched" => stageRequest[<<ChainIds[d], r>>] = "matched",
           Chains!CloseChain(c, obj, reqs, status, reply)
    PROVE  Chains!InTurn(d)'
<1>1. /\ \A e \in ChainCalls \ {c} : call'[e] = call[e]
      /\ \A e \in ChainCalls, r \in Chains!Stages :
            stageRequest'[<<ChainIds[e], r>>] = "matched" => reqs[<<ChainIds[e], r>>] = "matched"
  BY ZenonT(60), CloseTurn
<1>2. call'[d] = call[d]
  BY <1>1
<1>3. \A r \in Chains!Stages :
         stageRequest'[<<ChainIds[d], r>>] = "matched" => stageRequest[<<ChainIds[d], r>>] = "matched"
  BY <1>1
<1> QED
  BY <1>2, <1>3, TurnStays

LEMMA TurnInvNext ==
    ASSUME Chains!ChainsAssumption, Chains!ChainsInv, Chains!TurnInv, Chains!ChainsNext
    PROVE  Chains!TurnInv'
<1> SUFFICES ASSUME NEW d \in ChainCalls, Chains!Same(d) = {d} PROVE Chains!InTurn(d)'
  BY DEF Chains!TurnInv, Chains!Same
<1> USE DEF Chains!None
<1>1. /\ Chains!ChainsTypeOK /\ call \in [ChainCalls -> Chains!CallRecords]
      /\ stageRequest \in [Chains!Ids \X Chains!Stages -> {"none", "matched", "completed", "failed"}]
      /\ Chains!InTurn(d) /\ \A c \in ChainCalls : ChainIds[c] \in Chains!Ids
  BY DEF Chains!ChainsInv, Chains!ChainsTypeOK, Chains!Ids, Chains!TurnInv
<1>2. \A c \in ChainCalls : ChainIds[c] = ChainIds[d] => c = d
  BY DEF Chains!Same
<1>3. ASSUME NEW c \in ChainCalls, Chains!StartChain(c) \/ Chains!CheckFails(c) PROVE Chains!InTurn(d)'
  <2>1. PICK at \in {"checking", "refused"} : call' = [call EXCEPT ![c].pc = at]
    BY <1>3 DEF Chains!StartChain, Chains!CheckFails
  <2>4. call[c].pc # "made" /\ UNCHANGED stageRequest
    BY <1>3 DEF Chains!StartChain, Chains!CheckFails
  <2>2. CASE c # d
    BY <1>1, <2>1, <2>2, <2>4, TurnStays
  <2>3. CASE c = d
    <3>1. /\ call'[d].pc = at /\ call'[d].matching = call[d].matching
          /\ call'[d].status = call[d].status /\ call'[d].results = call[d].results
      BY <1>1, <2>1, <2>3 DEF Chains!CallRecords
    <3> QED
      BY <1>1, <2>3, <2>4, <3>1 DEF Chains!InTurn, Chains!OneStageInTurn, Chains!MatchesInTurn
  <2> QED
    BY <2>2, <2>3
<1>4. ASSUME NEW c \in ChainCalls, Chains!Checked(c) PROVE Chains!InTurn(d)'
  <2> DEFINE obj == [call[c] EXCEPT !.pc = "made", !.status = "running", !.matching = {0}]
  <2>1. call' = [call EXCEPT ![c] = obj] /\ UNCHANGED stageRequest /\ call[c].pc = "checking"
    BY <1>4 DEF Chains!Checked
  <2>2. CASE c # d
    BY <1>1, <2>1, <2>2, TurnStays
  <2>3. CASE c = d
    <3>1. /\ obj.pc = "made" /\ obj.status = "running" /\ obj.matching = {0} /\ obj.results = {}
          /\ \A r \in Chains!Stages : stageRequest'[<<ChainIds[d], r>>] # "matched"
      BY <1>1, <2>1, <2>3 DEF Chains!InTurn, Chains!CallRecords
    <3>2. call'[d] = obj /\ 0..(0 - 1) = {}
      BY <1>1, <2>1, <2>3
    <3> HIDE DEF obj
    <3> QED
      BY <3>1, <3>2 DEF Chains!InTurn, Chains!OneStageInTurn, Chains!MatchesInTurn
  <2> QED
    BY <2>2, <2>3
\* The object of a call when one of its matchings is over.
<1>5. ASSUME NEW c \in ChainCalls, NEW k \in call[c].matching
      PROVE  LET obj == Chains!Matched(c, k)
             IN /\ obj \in Chains!CallRecords /\ obj.matching = call[c].matching \ {k}
                /\ obj.pc = call[c].pc /\ obj.status = call[c].status /\ obj.current = call[c].current
                /\ obj.late = call[c].late /\ obj.results = call[c].results
  BY <1>1 DEF Chains!Matched, Chains!CallRecords
<1>6. \A k \in call[d].matching : k \in Chains!Stages /\ call[d].pc = "made" /\ call[d].matching \ {k} = {}
  BY <1>1 DEF Chains!InTurn, Chains!MatchesInTurn, Chains!CallRecords
\* A matching ends without a dispatch.
<1>7. ASSUME NEW k \in call[d].matching, call' = [call EXCEPT ![d] = Chains!Matched(d, k)],
             \A r \in Chains!Stages : stageRequest'[<<ChainIds[d], r>>] = "matched" => stageRequest[<<ChainIds[d], r>>] = "matched"
      PROVE  Chains!InTurn(d)'
  <2>1. call'[d] = Chains!Matched(d, k)
    BY <1>1, <1>7
  <2> QED
    BY <1>1, <1>5, <1>6, <1>7, <2>1 DEF Chains!InTurn, Chains!OneStageInTurn, Chains!MatchesInTurn
<1>8. ASSUME NEW c \in ChainCalls, NEW k \in Chains!Stages, Chains!DispatchThrows(c, k) PROVE Chains!InTurn(d)'
  <2>1. /\ call' = [call EXCEPT ![c] = Chains!Matched(c, k)] /\ k \in call[c].matching
        /\ UNCHANGED stageRequest
    BY <1>8 DEF Chains!DispatchThrows
  <2> QED
    BY <1>1, <1>7, <2>1, TurnStays
<1>9. ASSUME NEW c \in ChainCalls, NEW k \in Chains!Stages, Chains!Dispatch(c, k) PROVE Chains!InTurn(d)'
  <2> DEFINE key == <<ChainIds[c], k>>
  <2>1. PICK pruned \in Chains!Prunings(Chains!Held, Chains!Ended, MaxStageRequests) :
          LET left == [r \in DOMAIN stageRequest |-> IF r \in pruned THEN "none" ELSE stageRequest[r]]
          IN \/ /\ stageRequest' = [left EXCEPT ![key] = "matched"]
                /\ call' = [call EXCEPT ![c] = [Chains!Matched(c, k) EXCEPT !.current = k]]
             \/ /\ stageRequest' = left
                /\ call' = [call EXCEPT ![c] = Chains!Matched(c, k)]
    BY <1>9, Zenon DEF Chains!Dispatch
  <2> DEFINE left == [r \in DOMAIN stageRequest |-> IF r \in pruned THEN "none" ELSE stageRequest[r]]
  <2>2. k \in call[c].matching
    BY <1>9 DEF Chains!Dispatch
  <2>3. left \in [Chains!Ids \X Chains!Stages -> {"none", "matched", "completed", "failed"}]
    BY <1>1
  <2>4. \A e \in ChainCalls, r \in Chains!Stages : left[<<ChainIds[e], r>>] = "matched" => stageRequest[<<ChainIds[e], r>>] = "matched"
    BY <1>1
  <2> HIDE DEF left
  <2>5. CASE stageRequest' = left /\ call' = [call EXCEPT ![c] = Chains!Matched(c, k)]
    <3>1. \A r \in Chains!Stages : stageRequest'[<<ChainIds[d], r>>] = "matched" => stageRequest[<<ChainIds[d], r>>] = "matched"
      BY <2>4, <2>5
    <3> QED
      BY <1>1, <1>7, <2>2, <2>5, <3>1, TurnStays
  <2>6. CASE /\ stageRequest' = [left EXCEPT ![key] = "matched"]
             /\ call' = [call EXCEPT ![c] = [Chains!Matched(c, k) EXCEPT !.current = k]]
    <3>1. CASE c # d
      <4>1. \A r \in Chains!Stages : stageRequest'[<<ChainIds[d], r>>] = "matched" => stageRequest[<<ChainIds[d], r>>] = "matched"
        BY <1>1, <1>2, <2>3, <2>4, <2>6, <3>1
      <4> QED
        BY <1>1, <2>6, <3>1, <4>1, TurnStays
    <3>2. CASE c = d
      <4> DEFINE obj == [Chains!Matched(d, k) EXCEPT !.current = k]
      <4>1. /\ obj.matching = {} /\ obj.pc = "made" /\ obj.status = call[d].status /\ obj.current = k
            /\ obj.late = call[d].late /\ obj.results = call[d].results
        BY <1>5, <1>6, <2>2, <3>2 DEF Chains!CallRecords
      <4>2. call'[d] = obj
        BY <1>1, <2>6, <3>2
      <4> HIDE DEF obj
      <4>3. \A r \in Chains!Stages : stageRequest'[<<ChainIds[d], r>>] = "matched" => r = k
        BY <1>1, <2>2, <2>3, <2>4, <2>6, <3>2 DEF Chains!InTurn, Chains!MatchesInTurn
      <4>4. call[d].results = 0..(k - 1) /\ (call[d].status = "running" \/ k \in call[d].late)
        BY <1>1, <2>2, <3>2 DEF Chains!InTurn, Chains!MatchesInTurn
      <4>5. Chains!OneStageInTurn(d)'
        BY <4>1, <4>2, <4>3, <4>4 DEF Chains!OneStageInTurn
      <4>6. Chains!MatchesInTurn(d)'
        BY <4>1, <4>2 DEF Chains!MatchesInTurn
      <4> QED
        BY <4>1, <4>2, <4>5, <4>6 DEF Chains!InTurn
    <3> QED
      BY <3>1, <3>2
  <2> QED
    BY <2>1, <2>5, <2>6 DEF left
<1>10. ASSUME NEW c \in ChainCalls, NEW k \in Chains!Stages, Chains!DispatchRefused(c, k) PROVE Chains!InTurn(d)'
  <2>1. k \in call[c].matching /\ Chains!CloseChain(c, Chains!Matched(c, k), stageRequest, "failed", "error")
    BY <1>10 DEF Chains!DispatchRefused
  <2>2. CASE c # d
    BY ZenonT(60), <1>1, <1>5, <2>1, <2>2, CloseElsewhere
  <2>3. CASE c = d
    <3> DEFINE obj == Chains!Matched(d, k)
    <3>1. /\ obj \in Chains!CallRecords /\ obj.matching \subseteq call[d].matching
          /\ obj.current = call[d].current /\ obj.results = call[d].results
          /\ call[d].pc = "made" /\ obj.pc = "made"
      BY <1>5, <1>6, <2>1, <2>3
    <3>2. Chains!CloseChain(d, obj, stageRequest, "failed", "error")
      BY <2>1, <2>3
    <3> HIDE DEF obj
    <3> QED
      BY ZenonT(60), <1>1, <3>1, <3>2, CloseEndsTurn
  <2> QED
    BY <2>2, <2>3
<1>11. ASSUME NEW c \in ChainCalls, Chains!ChainTimeout(c) PROVE Chains!InTurn(d)'
  <2>1. call[c].status = "running" /\ Chains!CloseChain(c, call[c], stageRequest, "failed", "error")
    BY <1>11 DEF Chains!ChainTimeout
  <2>2. CASE c # d
    BY ZenonT(60), <1>1, <2>1, <2>2, CloseElsewhere
  <2>3. CASE c = d
    <3>1. call[d].pc = "made"
      BY <1>1, <2>1, <2>3 DEF Chains!InTurn
    <3> QED
      BY <1>1, <2>1, <2>3, <3>1, CloseEndsTurn
  <2> QED
    BY <2>2, <2>3
<1>12. ASSUME NEW i \in Chains!Ids, NEW k \in Chains!Stages, Chains!StageResult(i, k) PROVE Chains!InTurn(d)'
  <2> DEFINE c == chains[i]
             obj == [call[c] EXCEPT !.results = @ \cup {k}]
             reqs == [stageRequest EXCEPT ![<<i, k>>] = "completed"]
  <2>1. /\ stageRequest[<<i, k>>] = "matched" /\ c # Chains!None /\ call[c].status = "running"
        /\ \/ Chains!CloseChain(c, obj, reqs, "completed", "stopped")
           \/ Chains!CloseChain(c, obj, reqs, "completed", "whole")
           \/ /\ k < LastStage
              /\ call' = [call EXCEPT ![c] = [obj EXCEPT !.matching = @ \cup {k + 1}]]
              /\ stageRequest' = reqs
    BY <1>12, Zenon DEF Chains!StageResult
  <2>2. c \in ChainCalls /\ ChainIds[c] = i
    BY <1>1, <2>1 DEF Chains!ChainsInv, Chains!ChainsTypeOK, Chains!Known
  <2> HIDE DEF c
  <2>3. /\ obj \in Chains!CallRecords /\ obj.results = call[c].results \cup {k} /\ obj.pc = call[c].pc
        /\ obj.matching = call[c].matching /\ obj.current = call[c].current /\ obj.status = "running"
    BY <1>1, <2>1, <2>2 DEF Chains!CallRecords
  <2>4. /\ reqs \in [Chains!Ids \X Chains!Stages -> {"none", "matched", "completed", "failed"}]
        /\ \A e \in ChainCalls, r \in Chains!Stages :
              reqs[<<ChainIds[e], r>>] = "matched" => stageRequest[<<ChainIds[e], r>>] = "matched" /\ (e = c => r # k)
    BY <1>1, <2>2
  <2> HIDE DEF reqs
  <2>5. CASE c # d
    <3> HIDE DEF obj
    <3>1. CASE /\ call' = [call EXCEPT ![c] = [obj EXCEPT !.matching = @ \cup {k + 1}]]
               /\ stageRequest' = reqs
      BY <1>1, <2>2, <2>4, <2>5, <3>1, TurnStays
    <3>2. ASSUME NEW reply, Chains!CloseChain(c, obj, reqs, "completed", reply) PROVE Chains!InTurn(d)'
      <4>1. \A r \in Chains!Stages :
               reqs[<<ChainIds[d], r>>] = "matched" => stageRequest[<<ChainIds[d], r>>] = "matched"
        BY <2>4
      <4> QED
        BY ZenonT(60), <1>1, <2>2, <2>3, <2>4, <2>5, <3>2, <4>1, CloseElsewhere
    <3> QED
      BY <2>1, <3>1, <3>2
  <2>6. CASE c = d
    <3>1. /\ call[d].pc = "made" /\ call[d].current = k /\ call[d].results = 0..(k - 1) /\ call[d].matching = {}
      BY <1>1, <2>1, <2>2, <2>6 DEF Chains!InTurn, Chains!OneStageInTurn, Chains!MatchesInTurn, Chains!CallRecords
    <3>2. ASSUME NEW reply, Chains!CloseChain(c, obj, reqs, "completed", reply) PROVE Chains!InTurn(d)'
      <4> HIDE DEF obj
      <4> QED
        BY ZenonT(60), <1>1, <2>3, <2>4, <2>6, <3>1, <3>2, CloseEndsTurn
    <3>3. CASE /\ k < LastStage
               /\ call' = [call EXCEPT ![c] = [obj EXCEPT !.matching = @ \cup {k + 1}]]
               /\ stageRequest' = reqs
      <4> DEFINE new == [obj EXCEPT !.matching = @ \cup {k + 1}]
      <4> HIDE DEF obj
      <4>1. k \in Nat /\ (k + 1) - 1 = k /\ 0..k = 0..(k - 1) \cup {k}
        BY DEF Chains!Stages, Chains!ChainsAssumption
      <4>2. /\ new.pc = "made" /\ new.status = "running" /\ new.matching = {k + 1}
            /\ new.results = 0..((k + 1) - 1)
        BY <2>3, <2>6, <3>1, <4>1 DEF Chains!CallRecords
      <4>3. call'[d] = new
        BY <1>1, <2>6, <3>3
      <4> HIDE DEF new
      <4>4. \A r \in Chains!Stages : stageRequest'[<<ChainIds[d], r>>] # "matched"
        BY <1>1, <2>4, <2>6, <3>1, <3>3 DEF Chains!InTurn, Chains!OneStageInTurn
      <4>5. Chains!OneStageInTurn(d)' /\ Chains!MatchesInTurn(d)'
        BY <4>2, <4>3, <4>4 DEF Chains!OneStageInTurn, Chains!MatchesInTurn
      <4> QED
        BY <4>2, <4>3, <4>5 DEF Chains!InTurn
    <3> QED
      BY <2>1, <3>2, <3>3
  <2> QED
    BY <2>5, <2>6
<1> QED
  BY <1>3, <1>4, <1>8, <1>9, <1>10, <1>11, <1>12 DEF Chains!ChainsNext

LEMMA ChainsInvSound ==
    ASSUME Chains!ChainsAssumption, Chains!ChainsInv, Chains!TurnInv
    PROVE  Chains!ChainsSound
<1>1. ASSUME NEW i \in Chains!Ids, NEW k \in Chains!Stages \ {0}, stageRequest[<<i, k>>] = "matched"
      PROVE  \E c \in ChainCalls : ChainIds[c] = i /\ k - 1 \in call[c].results
  <2>1. 0..(k - 1) \subseteq Chains!Done[i]
    BY <1>1 DEF Chains!ChainsInv
  <2>2. k - 1 \in 0..(k - 1)
    BY DEF Chains!Stages
  <2> QED
    BY <2>1, <2>2 DEF Chains!Done
<1>2. ASSUME NEW c \in ChainCalls, call[c].reply = "whole"
      PROVE  /\ \A k \in Chains!Stages : \E d \in Chains!Same(c) : k \in call[d].results
             /\ Chains!Same(c) = {c} => call[c].results = Chains!Stages
  <2>1. Chains!Done[ChainIds[c]] = Chains!Stages
    BY <1>2 DEF Chains!ChainsInv
  <2>2. \A k \in Chains!Stages : \E d \in Chains!Same(c) : k \in call[d].results
    BY <2>1 DEF Chains!Done, Chains!Same, Chains!Ids
  <2>3. call[c].results \subseteq Chains!Stages
    BY DEF Chains!ChainsInv, Chains!ChainsTypeOK, Chains!CallRecords
  <2> QED
    BY <2>2, <2>3
<1>3. \A c \in ChainCalls : Chains!Same(c) = {c} => Chains!OneStageInTurn(c)
  BY DEF Chains!TurnInv, Chains!InTurn
<1> QED
  BY <1>1, <1>2, <1>3 DEF Chains!ChainsSound, Chains!ChainsInv

-----------------------------------------------------------------------------
\* The directory (register, publish, revoke, matchingOffers).

LEMMA DirectoryCount ==
    \A S : Directory!Cardinality(S) = Cardinality(S) /\ (Directory!IsFiniteSet(S) <=> IsFiniteSet(S))
<1> SUFFICES ASSUME NEW S
             PROVE  Directory!Cardinality(S) = Cardinality(S) /\ (Directory!IsFiniteSet(S) <=> IsFiniteSet(S))
  OBVIOUS
<1>1. Directory!Cardinality(S) = Cardinality(S)
  BY DEF Directory!Cardinality, Cardinality
<1>2. Directory!IsFiniteSet(S) <=> IsFiniteSet(S)
  BY DEF Directory!IsFiniteSet, IsFiniteSet
<1> QED
  BY <1>1, <1>2

LEMMA IdleForms ==
    /\ Directory!Idle \in Directory!Handlers /\ Directory!Idle.op = "idle" /\ Directory!Idle.offer = Directory!None
    /\ Directory!NoDoc \in Directory!Docs /\ Directory!NoDoc.owner = Directory!None /\ Directory!NoDoc.state = "none"
    /\ Directory!NoMatch \in Directory!Matches /\ Directory!NoMatch.reads = {} /\ Directory!NoMatch.eligible = {} /\ Directory!NoMatch.dead = {}
BY DEF Directory!Idle, Directory!Handlers, Directory!NoDoc, Directory!Docs, Directory!NoMatch,
   Directory!Matches

LEMMA DirectoryTyped ==
    ASSUME Directory!DirectoryInv, Directory!DirectoryNext
    PROVE  Directory!DirectoryTypeOK'
<1>1. Directory!DirectoryTypeOK
  BY DEF Directory!DirectoryInv
<1>2. ASSUME NEW n \in Nodes, NEW h \in Directory!Handlers, handler' = [handler EXCEPT ![n] = h]
      PROVE  handler' \in [Nodes -> Directory!Handlers]
  BY <1>1, <1>2 DEF Directory!DirectoryTypeOK
<1>3. ASSUME NEW n \in Nodes, Directory!Leave(n) PROVE handler' \in [Nodes -> Directory!Handlers]
  BY <1>2, <1>3, IdleForms DEF Directory!Leave
<1>4. ASSUME NEW n \in Nodes, Directory!GoesStale(n) PROVE Directory!DirectoryTypeOK'
  BY <1>1, <1>4 DEF Directory!GoesStale, Directory!DirectoryTypeOK
<1>5. ASSUME NEW n \in Nodes, Directory!Register(n) PROVE Directory!DirectoryTypeOK'
  <2>1. PICK e \in Nodes \cup {Directory!None} :
          Directory!Enter(n, [Directory!Idle EXCEPT !.op = "registering", !.evict = e, !.slot = (node[n] = "absent")])
    BY <1>5 DEF Directory!Register, Directory!StaleCandidates
  <2>2. [Directory!Idle EXCEPT !.op = "registering", !.evict = e, !.slot = (node[n] = "absent")] \in Directory!Handlers
    BY IdleForms DEF Directory!Handlers
  <2>3. handler' \in [Nodes -> Directory!Handlers]
    BY <1>2, <2>1, <2>2 DEF Directory!Enter
  <2> QED
    BY <1>1, <1>5, <2>3 DEF Directory!Register, Directory!DirectoryTypeOK
<1>6. ASSUME NEW n \in Nodes, NEW o \in Offers, Directory!Restore(n, o) PROVE Directory!DirectoryTypeOK'
  <2>1. handler' \in [Nodes -> Directory!Handlers]
    BY <1>1, <1>6 DEF Directory!Restore, Directory!DirectoryTypeOK, Directory!Handlers
  <2> QED
    BY <1>1, <1>6, <2>1 DEF Directory!Restore, Directory!DirectoryTypeOK
<1>7. ASSUME NEW n \in Nodes, Directory!Registered(n) PROVE Directory!DirectoryTypeOK'
  BY <1>1, <1>3, <1>7 DEF Directory!Registered, Directory!DirectoryTypeOK
<1>8. ASSUME NEW n \in Nodes, Directory!RegisterFails(n) PROVE Directory!DirectoryTypeOK'
  BY <1>1, <1>3, <1>8 DEF Directory!RegisterFails, Directory!DirectoryTypeOK
<1>9. ASSUME NEW n \in Nodes, NEW o \in Offers, Directory!Publish(n, o) \/ Directory!Revoke(n, o)
      PROVE  Directory!DirectoryTypeOK'
  <2>1. PICK p \in {"publishing", "revoking"} :
          Directory!Enter(n, [Directory!Idle EXCEPT !.op = p, !.offer = o])
    BY <1>9 DEF Directory!Publish, Directory!Revoke
  <2>2. [Directory!Idle EXCEPT !.op = p, !.offer = o] \in Directory!Handlers
    BY IdleForms DEF Directory!Handlers
  <2>3. handler' \in [Nodes -> Directory!Handlers]
    BY <1>2, <2>1, <2>2 DEF Directory!Enter
  <2> QED
    BY <1>1, <1>9, <2>3 DEF Directory!Publish, Directory!Revoke, Directory!DirectoryTypeOK
<1>10. ASSUME NEW n \in Nodes,
              NEW p \in {"claiming", "creating", "conflict", "releasing"},
              handler' = [handler EXCEPT ![n].op = p]
       PROVE  handler' \in [Nodes -> Directory!Handlers]
  BY SMTT(60), <1>1, <1>10 DEF Directory!DirectoryTypeOK, Directory!Handlers
<1>11. ASSUME NEW n \in Nodes, Directory!PublishChecked(n) \/ Directory!CreateConflict(n)
       PROVE  Directory!DirectoryTypeOK'
  <2>1. handler' \in [Nodes -> Directory!Handlers]
    BY <1>3, <1>10, <1>11 DEF Directory!PublishChecked, Directory!CreateConflict
  <2> QED
    BY <1>1, <1>11, <2>1 DEF Directory!PublishChecked, Directory!CreateConflict,
       Directory!DirectoryTypeOK
<1>12. ASSUME NEW n \in Nodes, Directory!ClaimOfferSlot(n) PROVE Directory!DirectoryTypeOK'
  <2>1. handler' \in [Nodes -> Directory!Handlers]
    BY <1>3, <1>10, <1>12 DEF Directory!ClaimOfferSlot
  <2>2. slots' \in [Nodes -> SUBSET Offers]
    <3>1. handler[n].op = "claiming" => handler[n].offer \in Offers
      BY DEF Directory!DirectoryInv, Directory!HandlerFits
    <3> QED
      BY <1>1, <1>12, <3>1 DEF Directory!ClaimOfferSlot, Directory!DirectoryTypeOK
  <2> QED
    BY <1>1, <1>12, <2>1, <2>2 DEF Directory!ClaimOfferSlot, Directory!DirectoryTypeOK
<1>13. \A n \in Nodes : [owner |-> n, state |-> "active"] \in Directory!Docs
  BY DEF Directory!Docs
<1>14. ASSUME NEW n \in Nodes, Directory!Created(n) \/ Directory!CreateUnknown(n) PROVE Directory!DirectoryTypeOK'
  <2>1. handler' \in [Nodes -> Directory!Handlers]
    BY <1>3, <1>14 DEF Directory!Created, Directory!CreateUnknown
  <2>2. doc' \in [Offers -> Directory!Docs]
    BY <1>1, <1>13, <1>14 DEF Directory!Created, Directory!CreateUnknown, Directory!DirectoryTypeOK
  <2>3. dir' \in [Offers -> Nodes \cup {Directory!None}] /\ node' \in [Nodes -> {"absent", "fresh", "stale"}]
    BY <1>1, <1>14 DEF Directory!Created, Directory!CreateUnknown, Directory!DirectoryTypeOK
  <2> QED
    BY <1>1, <1>14, <2>1, <2>2, <2>3 DEF Directory!Created, Directory!CreateUnknown,
       Directory!DirectoryTypeOK
<1>15. ASSUME NEW n \in Nodes, Directory!ReleaseOfferClaim(n) \/ Directory!Revoked(n) PROVE Directory!DirectoryTypeOK'
  <2>1. handler' \in [Nodes -> Directory!Handlers]
    BY <1>3, <1>15 DEF Directory!ReleaseOfferClaim, Directory!Revoked
  <2>2. slots' \in [Nodes -> SUBSET Offers]
    BY <1>1, <1>15 DEF Directory!ReleaseOfferClaim, Directory!Revoked, Directory!DirectoryTypeOK
  <2>3. node' \in [Nodes -> {"absent", "fresh", "stale"}]
    BY <1>1, <1>15 DEF Directory!ReleaseOfferClaim, Directory!Revoked, Directory!DirectoryTypeOK
  <2>4. gone' \subseteq Offers
    <3>1. handler[n].op = "releasing" => handler[n].offer \in Offers
      BY DEF Directory!DirectoryInv, Directory!HandlerFits
    <3> QED
      BY <1>1, <1>15, <3>1 DEF Directory!ReleaseOfferClaim, Directory!Revoked, Directory!DirectoryTypeOK
  <2> QED
    BY <1>1, <1>15, <2>1, <2>2, <2>3, <2>4 DEF Directory!ReleaseOfferClaim, Directory!Revoked,
       Directory!DirectoryTypeOK
<1>16. ASSUME NEW n \in Nodes, Directory!RevokeCommits(n) PROVE Directory!DirectoryTypeOK'
  <2>1. handler' \in [Nodes -> Directory!Handlers]
    BY <1>10, <1>16 DEF Directory!RevokeCommits
  <2>2. doc' \in [Offers -> Directory!Docs]
    BY ZenonT(60), <1>1, <1>16 DEF Directory!RevokeCommits, Directory!DirectoryTypeOK, Directory!Docs
  <2> QED
    BY <1>1, <1>16, <2>1, <2>2 DEF Directory!RevokeCommits, Directory!DirectoryTypeOK
<1>17. ASSUME NEW o \in Offers, Directory!CompactOffer(o) \/ Directory!PeerRevokes(o) PROVE Directory!DirectoryTypeOK'
  <2>1. doc' \in [Offers -> Directory!Docs]
    BY SMTT(60), <1>1, <1>17 DEF Directory!CompactOffer, Directory!PeerRevokes, Directory!DirectoryTypeOK,
       Directory!Docs
  <2>2. slots' \in [Nodes -> SUBSET Offers]
    BY <1>1, <1>17 DEF Directory!CompactOffer, Directory!PeerRevokes, Directory!DirectoryTypeOK
  <2> QED
    BY <1>1, <1>17, <2>1, <2>2 DEF Directory!CompactOffer, Directory!PeerRevokes,
       Directory!DirectoryTypeOK
<1>18. ASSUME NEW o \in Offers, Directory!MatchReads(o) PROVE Directory!DirectoryTypeOK'
  <2>1. match' \in Directory!Matches
    BY <1>1, <1>18 DEF Directory!MatchReads, Directory!DirectoryTypeOK, Directory!Matches
  <2> QED
    BY <1>1, <1>18, <2>1 DEF Directory!MatchReads, Directory!DirectoryTypeOK
<1>19. ASSUME Directory!MatchStarts PROVE Directory!DirectoryTypeOK'
  <2>1. match' \in Directory!Matches
    BY <1>1, <1>19, IdleForms DEF Directory!MatchStarts, Directory!DirectoryTypeOK, Directory!Matches,
       Directory!Listed
  <2> QED
    BY <1>1, <1>19, <2>1 DEF Directory!MatchStarts, Directory!DirectoryTypeOK
<1>20. ASSUME Directory!MatchEnds PROVE Directory!DirectoryTypeOK'
  <2>1. match' \in Directory!Matches
    BY ZenonT(60), <1>1, <1>20 DEF Directory!MatchEnds, Directory!DirectoryTypeOK, Directory!Matches
  <2> QED
    BY <1>1, <1>20, <2>1 DEF Directory!MatchEnds, Directory!DirectoryTypeOK
<1> QED
  BY <1>4, <1>5, <1>6, <1>7, <1>8, <1>9, <1>11, <1>12, <1>14, <1>15, <1>16, <1>17, <1>18, <1>19,
     <1>20 DEF Directory!DirectoryNext

LEMMA DirectoryFinite ==
    ASSUME Directory!DirectoryAssumption, Directory!DirectoryTypeOK
    PROVE  /\ IsFiniteSet(Directory!Present) /\ IsFiniteSet(Directory!Listed) /\ IsFiniteSet(Directory!PendingOffers)
           /\ Cardinality(Directory!Present) \in Nat /\ Cardinality(Directory!Listed) \in Nat
           /\ Cardinality(Directory!PendingOffers) \in Nat
<1>1. Directory!Present \subseteq Nodes /\ Directory!Listed \subseteq Offers /\ Directory!PendingOffers \subseteq Nodes
  BY DEF Directory!Present, Directory!Listed, Directory!PendingOffers
<1>2. IsFiniteSet(Directory!Present) /\ IsFiniteSet(Directory!Listed) /\ IsFiniteSet(Directory!PendingOffers)
  BY <1>1, FS_Subset, DirectoryCount DEF Directory!DirectoryAssumption
<1> QED
  BY <1>2, FS_CardinalityType

\* Where a publication holds its place in the offer map.
PendingClaims == {"claiming", "creating", "conflict"}

\* Steps that list no OFFER, keep every node and reserve nothing.
LEMMA TablesStay ==
    ASSUME Directory!DirectoryInv, Directory!DirectoryAssumption, dir' = dir, Directory!PendingOffers' \subseteq Directory!PendingOffers,
           Directory!Present' = Directory!Present
    PROVE  Directory!TablesKept'
<1>1. Directory!TablesKept /\ Directory!DirectoryTypeOK
  BY DEF Directory!DirectoryInv
<1>2. Directory!Listed' = Directory!Listed
  BY DEF Directory!Listed
<1>3. Cardinality(Directory!PendingOffers') <= Cardinality(Directory!PendingOffers) /\ Cardinality(Directory!PendingOffers') \in Nat
  BY <1>1, DirectoryFinite, FS_Subset, FS_CardinalityType
<1>4. Cardinality(Directory!Listed) + Cardinality(Directory!PendingOffers') <= MaxOffers
  <2>1. /\ Cardinality(Directory!Listed) \in Nat /\ Cardinality(Directory!PendingOffers) \in Nat
        /\ Cardinality(Directory!Listed) + Cardinality(Directory!PendingOffers) <= MaxOffers /\ MaxOffers \in Nat
    BY <1>1, DirectoryFinite, DirectoryCount DEF Directory!TablesKept, Directory!DirectoryAssumption
  <2> QED
    BY <1>3, <2>1
<1>5. \A o \in Directory!Listed : dir[o] \in Directory!Present
  BY <1>1 DEF Directory!TablesKept, Directory!Listed, Directory!Present, Directory!DirectoryTypeOK
<1>6. \A o \in Directory!Listed' : node'[dir'[o]] # "absent"
  BY <1>2, <1>5 DEF Directory!Present
<1> QED
  BY <1>1, <1>2, <1>4, <1>6, DirectoryCount DEF Directory!TablesKept

LEMMA HandlerMoves ==
    ASSUME Directory!DirectoryTypeOK, NEW n \in Nodes, NEW h, handler' = [handler EXCEPT ![n] = h]
    PROVE  Directory!PendingOffers' = IF h.op \in PendingClaims THEN Directory!PendingOffers \cup {n} ELSE Directory!PendingOffers \ {n}
<1>1. handler'[n] = h /\ \A m \in Nodes \ {n} : handler'[m] = handler[m]
  BY DEF Directory!DirectoryTypeOK
<1> QED
  BY <1>1 DEF Directory!PendingOffers, PendingClaims

LEMMA LeavingFrees ==
    ASSUME Directory!DirectoryTypeOK, NEW n \in Nodes, Directory!Leave(n)
    PROVE  Directory!PendingOffers' = Directory!PendingOffers \ {n}
BY HandlerMoves, IdleForms DEF Directory!Leave, PendingClaims

LEMMA RegisteredKeepsTables ==
    ASSUME Directory!DirectoryInv, Directory!DirectoryAssumption, NEW n \in Nodes, Directory!Registered(n)
    PROVE  Directory!TablesKept'
<1> DEFINE evict == handler[n].evict
           full == node[n] = "absent" /\ Cardinality(Directory!Present) >= MaxNodes
           leaves == IF full THEN {evict} ELSE {}
           keep == {o \in Directory!Listed : dir[o] # n /\ dir[o] \notin leaves}
           others == {o \in Directory!Listed : dir[o] # n}
           restored == handler[n].restored
<1>1. Directory!DirectoryTypeOK /\ Directory!TablesKept
  BY DEF Directory!DirectoryInv
<1>2. /\ handler[n].op = "registering" /\ Directory!RegisterRoom(n) /\ Directory!Leave(n)
      /\ full => Directory!Evictable(evict)
      /\ node' = [m \in Nodes |-> IF m = n THEN "fresh" ELSE IF m \in leaves THEN "absent" ELSE node[m]]
      /\ dir' = [o \in Offers |-> IF o \in restored THEN n ELSE IF o \in keep THEN dir[o] ELSE Directory!None]
  BY DirectoryCount DEF Directory!Registered
<1>3. restored \subseteq Offers /\ evict \in Nodes \cup {Directory!None}
  BY <1>1 DEF Directory!DirectoryTypeOK, Directory!Handlers
<1>4. /\ IsFiniteSet(Directory!Present) /\ Cardinality(Directory!Present) \in Nat /\ Cardinality(Directory!Present) <= MaxNodes
      /\ MaxNodes \in Nat
  BY <1>1, DirectoryFinite, DirectoryCount DEF Directory!TablesKept, Directory!DirectoryAssumption
<1>5. Cardinality(Directory!Present') <= MaxNodes
  <2>1. Directory!Present' = (Directory!Present \ leaves) \cup {n}
    <3>1. full => evict # n
      BY <1>2 DEF Directory!Evictable
    <3> QED
      BY <1>2, <3>1 DEF Directory!Present
  <2>2. CASE node[n] # "absent"
    <3>1. Directory!Present' = Directory!Present
      BY <2>1, <2>2 DEF Directory!Present
    <3> QED
      BY <1>4, <3>1
  <2>3. CASE node[n] = "absent" /\ ~(Cardinality(Directory!Present) >= MaxNodes)
    <3>1. Directory!Present' = Directory!Present \cup {n} /\ n \notin Directory!Present
      BY <2>1, <2>3 DEF Directory!Present
    <3>2. Cardinality(Directory!Present') = Cardinality(Directory!Present) + 1
      BY <1>4, <3>1, FS_AddElement
    <3> QED
      BY <1>4, <2>3, <3>2
  <2>4. CASE full
    <3>1. evict \in Directory!Present /\ n \notin Directory!Present
      BY <1>2, <1>3, <2>4 DEF Directory!Evictable, Directory!Present
    <3>2. Cardinality(Directory!Present \ {evict}) = Cardinality(Directory!Present) - 1 /\ IsFiniteSet(Directory!Present \ {evict})
      BY <1>4, <3>1, FS_RemoveElement
    <3>3. Directory!Present' = (Directory!Present \ {evict}) \cup {n} /\ n \notin Directory!Present \ {evict}
      BY <2>1, <2>4, <3>1
    <3>4. Cardinality(Directory!Present') = Cardinality(Directory!Present \ {evict}) + 1
      BY <3>2, <3>3, FS_AddElement
    <3> QED
      BY <1>4, <3>2, <3>4
  <2> QED
    BY <2>2, <2>3, <2>4
<1>6. Cardinality(Directory!Listed') + Cardinality(Directory!PendingOffers') <= MaxOffers
  <2>1. Directory!Listed' \subseteq others \cup restored
    BY <1>2 DEF Directory!Listed
  <2>2. Directory!PendingOffers' = Directory!PendingOffers
    <3>1. n \notin Directory!PendingOffers
      BY <1>2 DEF Directory!PendingOffers
    <3> QED
      BY <1>1, <1>2, <3>1, LeavingFrees
  <2>3. IsFiniteSet(others) /\ IsFiniteSet(restored)
    BY <1>1, <1>3, DirectoryFinite, FS_Subset, DirectoryCount DEF Directory!DirectoryAssumption
  <2>4. /\ IsFiniteSet(others \cup restored)
        /\ Cardinality(others \cup restored) <= Cardinality(others) + Cardinality(restored)
        /\ Cardinality(others) \in Nat /\ Cardinality(restored) \in Nat
        /\ Cardinality(others \cup restored) \in Nat
    <3> HIDE DEF others, restored
    <3>1. IsFiniteSet(others \cup restored) /\ IsFiniteSet(others \cap restored)
      BY <2>3, FS_Union, FS_Intersection
    <3>2. Cardinality(others \cup restored)
            = Cardinality(others) + Cardinality(restored) - Cardinality(others \cap restored)
      BY <2>3, FS_Union
    <3>3. /\ Cardinality(others) \in Nat /\ Cardinality(restored) \in Nat
          /\ Cardinality(others \cup restored) \in Nat /\ Cardinality(others \cap restored) \in Nat
      BY <2>3, <3>1, FS_CardinalityType
    <3> QED
      BY <3>1, <3>2, <3>3
  <2>5. Cardinality(Directory!Listed') <= Cardinality(others \cup restored) /\ Cardinality(Directory!Listed') \in Nat
    BY <2>1, <2>4, FS_Subset, FS_CardinalityType
  <2>6. Cardinality(others) + Cardinality(restored) + Cardinality(Directory!PendingOffers) <= MaxOffers
    BY <1>2, DirectoryCount DEF Directory!RegisterRoom
  <2>7. Cardinality(Directory!PendingOffers) \in Nat /\ MaxOffers \in Nat
    BY <1>1, DirectoryFinite DEF Directory!DirectoryAssumption
  <2> HIDE DEF others, restored
  <2> QED
    BY <2>2, <2>4, <2>5, <2>6, <2>7
<1>7. \A o \in Directory!Listed' : node'[dir'[o]] # "absent"
  <2> TAKE o \in Directory!Listed'
  <2>1. CASE o \in restored
    BY <1>2, <1>3, <2>1
  <2>2. CASE o \notin restored
    <3>1. o \in keep /\ dir'[o] = dir[o] /\ dir[o] \in Nodes /\ o \in Directory!Listed
      BY <1>1, <1>2, <2>2 DEF Directory!Listed, Directory!DirectoryTypeOK
    <3>2. node[dir[o]] # "absent"
      BY <1>1, <3>1 DEF Directory!TablesKept
    <3> QED
      BY <1>2, <3>1, <3>2
  <2> QED
    BY <2>1, <2>2
<1> QED
  BY <1>5, <1>6, <1>7, DirectoryCount DEF Directory!TablesKept

LEMMA CreatedKeepsTables ==
    ASSUME Directory!DirectoryInv, Directory!DirectoryAssumption, NEW n \in Nodes, Directory!Created(n)
    PROVE  Directory!TablesKept'
<1> DEFINE o == handler[n].offer
<1>1. Directory!DirectoryTypeOK /\ Directory!TablesKept /\ o \in Offers
  BY DEF Directory!DirectoryInv, Directory!Created, Directory!HandlerFits
<1>2. /\ n \in Directory!PendingOffers /\ Directory!PendingOffers' = Directory!PendingOffers \ {n}
      /\ node' = [node EXCEPT ![n] = "fresh"] /\ dir' = [dir EXCEPT ![o] = n]
  BY <1>1, LeavingFrees DEF Directory!Created, Directory!PendingOffers
<1>3. Directory!Listed' \subseteq Directory!Listed \cup {o}
  BY <1>1, <1>2 DEF Directory!Listed, Directory!DirectoryTypeOK
<1>4. Cardinality(Directory!Listed') + Cardinality(Directory!PendingOffers') <= MaxOffers
  <2>1. /\ Cardinality(Directory!PendingOffers') = Cardinality(Directory!PendingOffers) - 1
        /\ Cardinality(Directory!PendingOffers) \in Nat /\ Cardinality(Directory!Listed) \in Nat
        /\ Cardinality(Directory!Listed) + Cardinality(Directory!PendingOffers) <= MaxOffers /\ MaxOffers \in Nat
    BY <1>1, <1>2, DirectoryFinite, FS_RemoveElement, DirectoryCount DEF Directory!TablesKept,
       Directory!DirectoryAssumption
  <2>2. /\ IsFiniteSet(Directory!Listed \cup {o})
        /\ Cardinality(Directory!Listed \cup {o}) \in {Cardinality(Directory!Listed), Cardinality(Directory!Listed) + 1}
    BY <1>1, DirectoryFinite, FS_AddElement
  <2>3. Cardinality(Directory!Listed') <= Cardinality(Directory!Listed \cup {o}) /\ Cardinality(Directory!Listed') \in Nat
    BY <1>3, <2>2, FS_Subset, FS_CardinalityType
  <2> QED
    BY <2>1, <2>2, <2>3
<1>5. Directory!Present' = Directory!Present
  <2>1. node[n] # "absent"
    BY DEF Directory!DirectoryInv, Directory!Created, Directory!HandlerFits
  <2> QED
    BY <1>1, <1>2, <2>1 DEF Directory!Present, Directory!DirectoryTypeOK
<1>6. \A p \in Directory!Listed' : node'[dir'[p]] # "absent"
  <2>1. \A p \in Directory!Listed : dir[p] \in Directory!Present
    BY <1>1 DEF Directory!TablesKept, Directory!Listed, Directory!Present, Directory!DirectoryTypeOK
  <2>2. \A p \in Directory!Listed' : dir'[p] \in Directory!Present'
    BY <1>1, <1>2, <1>5, <2>1 DEF Directory!Listed, Directory!Present, Directory!DirectoryTypeOK
  <2> QED
    BY <2>2 DEF Directory!Present
<1> QED
  BY <1>1, <1>4, <1>5, <1>6, DirectoryCount DEF Directory!TablesKept

LEMMA CheckedKeepsTables ==
    ASSUME Directory!DirectoryInv, Directory!DirectoryAssumption, NEW n \in Nodes, Directory!PublishChecked(n)
    PROVE  Directory!TablesKept'
<1>1. Directory!DirectoryTypeOK /\ Directory!TablesKept /\ n \notin Directory!PendingOffers /\ UNCHANGED <<node, dir>>
  BY DEF Directory!DirectoryInv, Directory!PublishChecked, Directory!PendingOffers
<1>2. CASE Directory!Leave(n)
  BY <1>1, <1>2, LeavingFrees, TablesStay DEF Directory!Present
<1>3. CASE /\ Cardinality(Directory!Listed) + Cardinality(Directory!PendingOffers) < MaxOffers
           /\ handler' = [handler EXCEPT ![n].op = "claiming"]
  <2>1. Directory!PendingOffers' = Directory!PendingOffers \cup {n}
    <3>1. handler'[n].op = "claiming" /\ \A m \in Nodes \ {n} : handler'[m] = handler[m]
      BY <1>1, <1>3 DEF Directory!DirectoryTypeOK, Directory!Handlers
    <3> QED
      BY <3>1 DEF Directory!PendingOffers
  <2>2. Cardinality(Directory!PendingOffers') = Cardinality(Directory!PendingOffers) + 1
    BY <1>1, <2>1, DirectoryFinite, FS_AddElement
  <2>3. /\ Cardinality(Directory!PendingOffers) \in Nat /\ Cardinality(Directory!Listed) \in Nat /\ MaxOffers \in Nat
    BY <1>1, DirectoryFinite DEF Directory!DirectoryAssumption
  <2>4. Cardinality(Directory!Listed) + Cardinality(Directory!PendingOffers') <= MaxOffers
    BY <1>3, <2>2, <2>3
  <2> QED
    BY <1>1, <2>4, DirectoryCount DEF Directory!TablesKept, Directory!Listed, Directory!Present
<1> QED
  BY <1>2, <1>3, DirectoryCount DEF Directory!PublishChecked

LEMMA TablesKeep ==
    ASSUME Directory!DirectoryInv, Directory!DirectoryAssumption, Directory!DirectoryNext
    PROVE  Directory!TablesKept'
<1>1. Directory!DirectoryTypeOK
  BY DEF Directory!DirectoryInv
<1>2. ASSUME NEW n \in Nodes, Directory!Leave(n), UNCHANGED <<node, dir>> PROVE Directory!TablesKept'
  BY <1>1, <1>2, LeavingFrees, TablesStay DEF Directory!Present
<1>3. ASSUME UNCHANGED <<node, dir, handler>> PROVE Directory!TablesKept'
  BY <1>3, TablesStay DEF Directory!Present, Directory!PendingOffers
<1>4. ASSUME NEW n \in Nodes, Directory!GoesStale(n) PROVE Directory!TablesKept'
  <2>1. Directory!Present' = Directory!Present
    BY <1>1, <1>4 DEF Directory!GoesStale, Directory!Present, Directory!DirectoryTypeOK
  <2> QED
    BY <1>4, <2>1, TablesStay DEF Directory!GoesStale, Directory!PendingOffers
<1>5. ASSUME NEW n \in Nodes, NEW h, h.op \notin PendingClaims, Directory!Enter(n, h), UNCHANGED <<node, dir>>
      PROVE  Directory!TablesKept'
  BY <1>1, <1>5, HandlerMoves, TablesStay DEF Directory!Enter, Directory!Present
<1>6. ASSUME NEW n \in Nodes, Directory!Register(n) PROVE Directory!TablesKept'
  <2>1. PICK e \in Nodes \cup {Directory!None} :
          Directory!Enter(n, [Directory!Idle EXCEPT !.op = "registering", !.evict = e, !.slot = (node[n] = "absent")])
    BY <1>6 DEF Directory!Register, Directory!StaleCandidates
  <2>2. [Directory!Idle EXCEPT !.op = "registering", !.evict = e, !.slot = (node[n] = "absent")].op = "registering"
    BY IdleForms DEF Directory!Handlers
  <2> QED
    BY <1>5, <1>6, <2>1, <2>2 DEF Directory!Register, PendingClaims
<1>7. ASSUME NEW n \in Nodes, NEW o \in Offers, Directory!Publish(n, o) \/ Directory!Revoke(n, o)
      PROVE  Directory!TablesKept'
  <2>1. PICK p \in {"publishing", "revoking"} :
          Directory!Enter(n, [Directory!Idle EXCEPT !.op = p, !.offer = o])
    BY <1>7 DEF Directory!Publish, Directory!Revoke
  <2>2. [Directory!Idle EXCEPT !.op = p, !.offer = o].op = p
    BY IdleForms DEF Directory!Handlers
  <2> QED
    BY <1>5, <1>7, <2>1, <2>2 DEF Directory!Publish, Directory!Revoke, PendingClaims
<1>8. ASSUME NEW n \in Nodes, NEW o \in Offers, Directory!Restore(n, o) PROVE Directory!TablesKept'
  <2>1. \A m \in Nodes : handler'[m].op = handler[m].op
    BY <1>1, <1>8 DEF Directory!Restore, Directory!DirectoryTypeOK, Directory!Handlers
  <2> QED
    BY <1>8, <2>1, TablesStay DEF Directory!Restore, Directory!PendingOffers, Directory!Present
<1>9. ASSUME NEW n \in Nodes, handler[n].op \in PendingClaims \cup {"revoking"},
             NEW p \in {"creating", "conflict", "releasing"}, handler[n].op = "revoking" => p = "releasing",
             handler' = [handler EXCEPT ![n].op = p], UNCHANGED <<node, dir>>
      PROVE  Directory!TablesKept'
  <2>1. handler'[n].op = p /\ \A m \in Nodes \ {n} : handler'[m] = handler[m]
    BY <1>1, <1>9 DEF Directory!DirectoryTypeOK, Directory!Handlers
  <2>2. Directory!PendingOffers' \subseteq Directory!PendingOffers
    BY <1>9, <2>1 DEF Directory!PendingOffers, PendingClaims
  <2> QED
    BY <1>9, <2>2, TablesStay DEF Directory!Present
<1>10. ASSUME NEW n \in Nodes, Directory!ClaimOfferSlot(n) \/ Directory!CreateConflict(n) \/ Directory!RevokeCommits(n)
       PROVE  Directory!TablesKept'
  BY <1>2, <1>9, <1>10 DEF Directory!ClaimOfferSlot, Directory!CreateConflict, Directory!RevokeCommits,
     PendingClaims
<1>11. ASSUME NEW n \in Nodes, Directory!RegisterFails(n) \/ Directory!CreateUnknown(n) \/ Directory!ReleaseOfferClaim(n)
       PROVE  Directory!TablesKept'
  BY <1>2, <1>11 DEF Directory!RegisterFails, Directory!CreateUnknown, Directory!ReleaseOfferClaim
<1>12. ASSUME NEW n \in Nodes, Directory!Revoked(n) PROVE Directory!TablesKept'
  <2>1. Directory!Present' = Directory!Present
    BY <1>1, <1>12 DEF Directory!Revoked, Directory!Present, Directory!DirectoryTypeOK
  <2> QED
    BY <1>1, <1>12, <2>1, LeavingFrees, TablesStay DEF Directory!Revoked
<1>13. ASSUME NEW o \in Offers, Directory!CompactOffer(o) \/ Directory!PeerRevokes(o) \/ Directory!MatchReads(o)
       PROVE  Directory!TablesKept'
  BY <1>3, <1>13 DEF Directory!CompactOffer, Directory!PeerRevokes, Directory!MatchReads
<1>14. ASSUME Directory!MatchStarts \/ Directory!MatchEnds PROVE Directory!TablesKept'
  BY <1>3, <1>14 DEF Directory!MatchStarts, Directory!MatchEnds
<1> QED
  BY <1>4, <1>6, <1>7, <1>8, <1>10, <1>11, <1>12, <1>13, <1>14, RegisteredKeepsTables,
     CreatedKeepsTables, CheckedKeepsTables DEF Directory!DirectoryNext

\* Documents are never deleted or given to another owner, and a revocation stands.
DocsStand ==
    \A o \in Offers : doc[o] # Directory!NoDoc =>
        /\ doc'[o] # Directory!NoDoc /\ doc'[o].owner = doc[o].owner
        /\ doc'[o].state = "active" => doc[o].state = "active"

LEMMA OthersFit ==
    ASSUME Directory!DirectoryInv, Directory!DirectoryAssumption, DocsStand, NEW m \in Nodes, handler'[m] = handler[m],
           handler[m].op # "idle" /\ node[m] # "absent" => node'[m] # "absent",
           \A o \in slots[m] : doc'[o] = Directory!NoDoc => o \in slots'[m]
    PROVE  Directory!HandlerFits(m)'
<1>1. PICK h \in Directory!Handlers : h = handler[m]
  BY DEF Directory!DirectoryInv, Directory!DirectoryTypeOK
<1>2. /\ h.op \notin {"idle", "registering"} => h.offer \in Offers
      /\ h.op \in {"publishing", "claiming", "creating"} => node[m] # "absent"
      /\ h.op = "creating" /\ doc[h.offer] = Directory!NoDoc => h.offer \in slots[m]
      /\ h.op = "conflict" => doc[h.offer] # Directory!NoDoc /\ doc[h.offer].owner # m
      /\ h.op \in {"revoking", "releasing"} => doc[h.offer].owner = m
      /\ h.op = "releasing" => doc[h.offer].state # "active"
  BY <1>1 DEF Directory!DirectoryInv, Directory!HandlerFits
<1>3. h.op \in {"revoking", "releasing"} => doc[h.offer] # Directory!NoDoc
  BY <1>2, IdleForms DEF Directory!DirectoryAssumption, Directory!None
<1>4. h.op = "creating" /\ doc'[h.offer] = Directory!NoDoc => doc[h.offer] = Directory!NoDoc
  BY <1>2 DEF DocsStand
<1>5. h.op \in {"publishing", "claiming", "creating"} => node'[m] # "absent"
  BY <1>1, <1>2
<1>6. h.op = "creating" /\ doc'[h.offer] = Directory!NoDoc => h.offer \in slots'[m]
  BY <1>2, <1>4
<1>7. /\ h.op = "conflict" => doc'[h.offer] # Directory!NoDoc /\ doc'[h.offer].owner # m
      /\ h.op \in {"revoking", "releasing"} => doc'[h.offer].owner = m
      /\ h.op = "releasing" => doc'[h.offer].state # "active"
  BY <1>2, <1>3 DEF DocsStand
<1>8. handler'[m] = h
  BY <1>1
<1> QED
  BY <1>2, <1>5, <1>6, <1>7, <1>8 DEF Directory!HandlerFits

LEMMA IdleFits == ASSUME NEW n \in Nodes, handler'[n] = Directory!Idle PROVE Directory!HandlerFits(n)'
BY IdleForms DEF Directory!HandlerFits

\* What DirectoryInv says of the slots and of the handlers.
SlotsSound ==
    /\ Directory!ScanFits /\ \A n \in Nodes : Directory!HandlerFits(n)
    /\ \A o \in Offers : doc[o] = Directory!NoDoc <=> doc[o].owner = Directory!None

\* A step of owner n, or on a document of n.
LEMMA OwnerSteps ==
    ASSUME Directory!DirectoryInv, Directory!DirectoryAssumption, DocsStand, NEW n \in Nodes, Directory!HandlerFits(n)',
           \A m \in Nodes \ {n} : /\ handler'[m] = handler[m] /\ slots'[m] = slots[m]
                                  /\ Directory!ActiveOf(m)' \subseteq Directory!ActiveOf(m)
                                  /\ handler[m].op # "idle" /\ node[m] # "absent" => node'[m] # "absent",
           \A o \in Offers : doc'[o] = Directory!NoDoc <=> doc'[o].owner = Directory!None,
           Directory!ActiveOf(n)' \subseteq slots'[n], Cardinality(slots'[n]) <= SlotLimit
    PROVE  SlotsSound'
<1>1. Directory!ScanFits
  BY DEF Directory!DirectoryInv
<1>2. Directory!ScanFits'
  BY <1>1, DirectoryCount DEF Directory!ScanFits
<1>3. \A m \in Nodes : Directory!HandlerFits(m)'
  <2>1. ASSUME NEW m \in Nodes \ {n} PROVE Directory!HandlerFits(m)'
    BY OthersFit
  <2> QED
    BY <2>1
<1> QED
  BY <1>2, <1>3 DEF SlotsSound

\* A step of owner n that changes no document and no slot.
LEMMA HandlerSteps ==
    ASSUME Directory!DirectoryInv, Directory!DirectoryAssumption, NEW n \in Nodes, Directory!HandlerFits(n)', UNCHANGED <<doc, slots>>,
           \A m \in Nodes \ {n} : /\ handler'[m] = handler[m]
                                  /\ handler[m].op # "idle" /\ node[m] # "absent" => node'[m] # "absent"
    PROVE  SlotsSound'
<1>1. DocsStand /\ \A m \in Nodes : Directory!ActiveOf(m)' = Directory!ActiveOf(m)
  BY DEF DocsStand, Directory!ActiveOf
<1>2. Directory!ActiveOf(n) \subseteq slots[n] /\ Cardinality(slots[n]) <= SlotLimit
  BY DirectoryCount DEF Directory!DirectoryInv, Directory!ScanFits
<1>3. \A o \in Offers : doc'[o] = Directory!NoDoc <=> doc'[o].owner = Directory!None
  BY DEF Directory!DirectoryInv
<1> QED
  BY <1>1, <1>2, <1>3, OwnerSteps

LEMMA SlotsStayFinite ==
    ASSUME Directory!DirectoryAssumption, Directory!DirectoryTypeOK, Directory!ScanFits, NEW n \in Nodes
    PROVE  /\ IsFiniteSet(slots[n]) /\ Cardinality(slots[n]) \in Nat
           /\ \A smaller \in SUBSET slots[n] : Cardinality(smaller) <= SlotLimit
<1>1. IsFiniteSet(slots[n]) /\ Cardinality(slots[n]) \in Nat
  BY FS_Subset, FS_CardinalityType, DirectoryCount DEF Directory!DirectoryAssumption,
     Directory!DirectoryTypeOK
<1>2. ASSUME NEW smaller \in SUBSET slots[n] PROVE Cardinality(smaller) <= SlotLimit
  <2>1. Cardinality(smaller) <= Cardinality(slots[n]) /\ Cardinality(smaller) \in Nat
    BY <1>1, FS_Subset, FS_CardinalityType
  <2> QED
    BY <1>1, <2>1, DirectoryCount DEF Directory!ScanFits, Directory!DirectoryAssumption
<1> QED
  BY <1>1, <1>2

LEMMA SlotsKeep ==
    ASSUME Directory!DirectoryInv, Directory!DirectoryAssumption, Directory!DirectoryNext
    PROVE  SlotsSound'
<1>1. /\ Directory!DirectoryTypeOK /\ Directory!ScanFits /\ Directory!DirectoryTypeOK'
      /\ \A o \in Offers : doc[o] = Directory!NoDoc <=> doc[o].owner = Directory!None
  BY DirectoryTyped DEF Directory!DirectoryInv
<1>2. ASSUME NEW n \in Nodes, Directory!Leave(n)
      PROVE  Directory!HandlerFits(n)' /\ \A m \in Nodes \ {n} : handler'[m] = handler[m]
  BY <1>1, <1>2, IdleFits DEF Directory!Leave, Directory!DirectoryTypeOK
<1>3. ASSUME NEW n \in Nodes, NEW h, handler' = [handler EXCEPT ![n] = h]
      PROVE  handler'[n] = h /\ \A m \in Nodes \ {n} : handler'[m] = handler[m]
  BY <1>1, <1>3 DEF Directory!DirectoryTypeOK
<1>4. ASSUME NEW n \in Nodes, NEW p, handler' = [handler EXCEPT ![n].op = p]
      PROVE  /\ handler'[n].op = p /\ handler'[n].offer = handler[n].offer
             /\ \A m \in Nodes \ {n} : handler'[m] = handler[m]
  BY <1>1, <1>4 DEF Directory!DirectoryTypeOK, Directory!Handlers
<1>5. ASSUME NEW n \in Nodes, Directory!GoesStale(n) PROVE SlotsSound'
  <2>1. \A m \in Nodes : handler'[m] = handler[m] /\ (node[m] # "absent" => node'[m] # "absent")
    BY <1>1, <1>5 DEF Directory!GoesStale, Directory!DirectoryTypeOK
  <2>2. UNCHANGED <<doc, slots>>
    BY <1>5 DEF Directory!GoesStale
  <2>3. Directory!HandlerFits(n)'
    BY <2>1, <2>2, OthersFit DEF DocsStand
  <2> QED
    BY <2>1, <2>2, <2>3, HandlerSteps
<1>6. ASSUME NEW n \in Nodes, Directory!Register(n) PROVE SlotsSound'
  <2>1. PICK e \in Nodes \cup {Directory!None} :
          Directory!Enter(n, [Directory!Idle EXCEPT !.op = "registering", !.evict = e, !.slot = (node[n] = "absent")])
    BY <1>6 DEF Directory!Register, Directory!StaleCandidates
  <2>2. [Directory!Idle EXCEPT !.op = "registering", !.evict = e, !.slot = (node[n] = "absent")].op = "registering"
    BY IdleForms DEF Directory!Handlers
  <2>3. handler'[n].op = "registering" /\ \A m \in Nodes \ {n} : handler'[m] = handler[m]
    BY <1>3, <2>1, <2>2 DEF Directory!Enter
  <2>4. Directory!HandlerFits(n)'
    BY <2>3 DEF Directory!HandlerFits
  <2> QED
    BY <1>6, <2>3, <2>4, HandlerSteps DEF Directory!Register
<1>7. ASSUME NEW n \in Nodes, NEW o \in Offers, Directory!Publish(n, o) PROVE SlotsSound'
  <2>1. [Directory!Idle EXCEPT !.op = "publishing", !.offer = o].op = "publishing"
    BY IdleForms DEF Directory!Handlers
  <2>2. [Directory!Idle EXCEPT !.op = "publishing", !.offer = o].offer = o
    BY IdleForms DEF Directory!Handlers
  <2>3. /\ handler'[n].op = "publishing" /\ handler'[n].offer = o
        /\ \A m \in Nodes \ {n} : handler'[m] = handler[m]
    <3>1. handler' = [handler EXCEPT ![n] = [Directory!Idle EXCEPT !.op = "publishing", !.offer = o]]
      BY <1>7 DEF Directory!Publish, Directory!Enter
    <3>2. /\ handler'[n] = [Directory!Idle EXCEPT !.op = "publishing", !.offer = o]
          /\ \A m \in Nodes \ {n} : handler'[m] = handler[m]
      BY <1>3, <3>1
    <3> QED
      BY <2>1, <2>2, <3>2
  <2>4. Directory!HandlerFits(n)'
    BY <1>7, <2>3 DEF Directory!HandlerFits, Directory!Publish
  <2> QED
    BY <1>7, <2>3, <2>4, HandlerSteps DEF Directory!Publish
<1>8. ASSUME NEW n \in Nodes, NEW o \in Offers, Directory!Revoke(n, o) PROVE SlotsSound'
  <2>1. [Directory!Idle EXCEPT !.op = "revoking", !.offer = o].op = "revoking"
    BY IdleForms DEF Directory!Handlers
  <2>2. [Directory!Idle EXCEPT !.op = "revoking", !.offer = o].offer = o
    BY IdleForms DEF Directory!Handlers
  <2>3. /\ handler'[n].op = "revoking" /\ handler'[n].offer = o
        /\ \A m \in Nodes \ {n} : handler'[m] = handler[m]
    <3>1. handler' = [handler EXCEPT ![n] = [Directory!Idle EXCEPT !.op = "revoking", !.offer = o]]
      BY <1>8 DEF Directory!Revoke, Directory!Enter
    <3>2. /\ handler'[n] = [Directory!Idle EXCEPT !.op = "revoking", !.offer = o]
          /\ \A m \in Nodes \ {n} : handler'[m] = handler[m]
      BY <1>3, <3>1
    <3> QED
      BY <2>1, <2>2, <3>2
  <2>4. Directory!HandlerFits(n)'
    BY <1>8, <2>3 DEF Directory!HandlerFits, Directory!Revoke
  <2> QED
    BY <1>8, <2>3, <2>4, HandlerSteps DEF Directory!Revoke
<1>9. ASSUME NEW n \in Nodes, NEW o \in Offers, Directory!Restore(n, o) PROVE SlotsSound'
  <2>1. handler'[n].op = "registering" /\ \A m \in Nodes \ {n} : handler'[m] = handler[m]
    BY <1>1, <1>9 DEF Directory!Restore, Directory!DirectoryTypeOK, Directory!Handlers
  <2>2. Directory!HandlerFits(n)'
    BY <2>1 DEF Directory!HandlerFits
  <2> QED
    BY <1>9, <2>1, <2>2, HandlerSteps DEF Directory!Restore
<1>10. ASSUME NEW n \in Nodes, Directory!Registered(n) PROVE SlotsSound'
  <2>1. Directory!HandlerFits(n)' /\ \A m \in Nodes \ {n} : handler'[m] = handler[m]
    BY <1>2, <1>10 DEF Directory!Registered
  <2>2. ASSUME NEW m \in Nodes \ {n}, handler[m].op # "idle", node[m] # "absent"
        PROVE  node'[m] # "absent"
    <3>1. Directory!Evictable(handler[n].evict) => handler[n].evict # m
      BY <2>2 DEF Directory!Evictable, Directory!Locked
    <3> QED
      BY <1>10, <2>2, <3>1 DEF Directory!Registered
  <2> QED
    BY <1>10, <2>1, <2>2, HandlerSteps DEF Directory!Registered
<1>11. ASSUME NEW n \in Nodes, Directory!RegisterFails(n) PROVE SlotsSound'
  BY <1>2, <1>11, HandlerSteps DEF Directory!RegisterFails
<1>12. ASSUME NEW n \in Nodes, Directory!PublishChecked(n) PROVE SlotsSound'
  <2>1. CASE Directory!Leave(n)
    BY <1>2, <1>12, <2>1, HandlerSteps DEF Directory!PublishChecked
  <2>2. CASE handler' = [handler EXCEPT ![n].op = "claiming"]
    <3>1. Directory!HandlerFits(n)'
      BY <1>4, <1>12, <2>2 DEF Directory!HandlerFits, Directory!DirectoryInv, Directory!PublishChecked
    <3> QED
      BY <1>4, <1>12, <2>2, <3>1, HandlerSteps DEF Directory!PublishChecked
  <2> QED
    BY <1>12, <2>1, <2>2 DEF Directory!PublishChecked
<1>13. ASSUME NEW n \in Nodes, Directory!CreateConflict(n) PROVE SlotsSound'
  <2>1. CASE Directory!Leave(n)
    BY <1>2, <1>13, <2>1, HandlerSteps DEF Directory!CreateConflict
  <2>2. CASE doc[handler[n].offer].owner # n /\ handler' = [handler EXCEPT ![n].op = "conflict"]
    <3>1. Directory!HandlerFits(n)'
      BY <1>4, <1>13, <2>2 DEF Directory!HandlerFits, Directory!DirectoryInv, Directory!CreateConflict
    <3> QED
      BY <1>4, <1>13, <2>2, <3>1, HandlerSteps DEF Directory!CreateConflict
  <2> QED
    BY <1>13, <2>1, <2>2 DEF Directory!CreateConflict
<1>14. ASSUME NEW n \in Nodes, Directory!ClaimOfferSlot(n) PROVE SlotsSound'
  <2> DEFINE o == handler[n].offer
  <2>1. CASE Directory!Leave(n) /\ UNCHANGED slots
    BY <1>2, <1>14, <2>1, HandlerSteps DEF Directory!ClaimOfferSlot
  <2>2. CASE /\ o \in slots[n] \/ Cardinality(slots[n]) < SlotLimit
             /\ slots' = [slots EXCEPT ![n] = @ \cup {o}]
             /\ handler' = [handler EXCEPT ![n].op = "creating"]
    <3>1. UNCHANGED <<node, doc>> /\ Directory!HandlerFits(n) /\ handler[n].op = "claiming"
      BY <1>14 DEF Directory!ClaimOfferSlot, Directory!DirectoryInv
    <3>2. /\ slots'[n] = slots[n] \cup {o} /\ \A m \in Nodes \ {n} : slots'[m] = slots[m]
      BY <1>1, <2>2 DEF Directory!DirectoryTypeOK
    <3>3. Directory!HandlerFits(n)'
      BY <1>4, <2>2, <3>1, <3>2 DEF Directory!HandlerFits
    <3>4. Cardinality(slots'[n]) <= SlotLimit
      <4>1. /\ IsFiniteSet(slots[n]) /\ Cardinality(slots[n]) \in Nat /\ SlotLimit \in Nat
            /\ Cardinality(slots[n]) <= SlotLimit
        BY <1>1, SlotsStayFinite DEF Directory!DirectoryAssumption, Directory!ScanFits
      <4>2. o \in slots[n] => slots'[n] = slots[n]
        BY <3>2
      <4>3. o \notin slots[n] => Cardinality(slots'[n]) = Cardinality(slots[n]) + 1
        BY ZenonT(60), <3>2, <4>1, FS_AddElement
      <4> QED
        BY <2>2, <4>1, <4>2, <4>3
    <3>5. DocsStand /\ \A m \in Nodes : Directory!ActiveOf(m)' = Directory!ActiveOf(m)
      BY <3>1 DEF DocsStand, Directory!ActiveOf
    <3>6. Directory!ActiveOf(n)' \subseteq slots'[n]
      BY <1>1, <3>2, <3>5 DEF Directory!ScanFits
    <3>7. \A m \in Nodes \ {n} : handler'[m] = handler[m]
      BY <1>4, <2>2
    <3>8. \A p \in Offers : doc'[p] = Directory!NoDoc <=> doc'[p].owner = Directory!None
      BY <1>1, <3>1
    <3> QED
      BY <3>1, <3>2, <3>3, <3>4, <3>5, <3>6, <3>7, <3>8, OwnerSteps
  <2> QED
    BY <1>14, <2>1, <2>2, DirectoryCount DEF Directory!ClaimOfferSlot
<1>15. ASSUME NEW n \in Nodes, Directory!Created(n) \/ Directory!CreateUnknown(n) PROVE SlotsSound'
  <2> DEFINE o == handler[n].offer
             made == [owner |-> n, state |-> "active"]
  <2>1. /\ handler[n].op = "creating" /\ Directory!Leave(n) /\ slots' = slots /\ o \in Offers
        /\ doc[o] = Directory!NoDoc => o \in slots[n]
        /\ \A m \in Nodes \ {n} : node'[m] = node[m]
    <3>1. handler[n].op = "creating" /\ Directory!Leave(n) /\ slots' = slots
      BY <1>15 DEF Directory!Created, Directory!CreateUnknown
    <3>2. o \in Offers /\ (doc[o] = Directory!NoDoc => o \in slots[n])
      BY <3>1 DEF Directory!DirectoryInv, Directory!HandlerFits
    <3>3. \A m \in Nodes \ {n} : node'[m] = node[m]
      BY <1>1, <1>15 DEF Directory!Created, Directory!CreateUnknown, Directory!DirectoryTypeOK
    <3> QED
      BY <3>1, <3>2, <3>3
  <2>2. doc' = doc \/ (doc[o] = Directory!NoDoc /\ doc' = [doc EXCEPT ![o] = made])
    BY <1>1, <1>15, <2>1 DEF Directory!Created, Directory!CreateUnknown, Directory!DirectoryTypeOK
  <2>3. Directory!HandlerFits(n)' /\ \A m \in Nodes \ {n} : handler'[m] = handler[m]
    BY <1>2, <2>1
  <2>4. made.owner = n /\ made.owner # Directory!None /\ made # Directory!NoDoc
    BY IdleForms DEF Directory!DirectoryAssumption, Directory!None
  <2>5. \A p \in Offers : doc'[p] = doc[p] \/ (p = o /\ doc[p] = Directory!NoDoc /\ doc'[p] = made)
    BY <1>1, <2>1, <2>2 DEF Directory!DirectoryTypeOK
  <2>6. DocsStand
    BY <2>5 DEF DocsStand
  <2>7. \A p \in Offers : doc'[p] = Directory!NoDoc <=> doc'[p].owner = Directory!None
    BY <1>1, <2>4, <2>5
  <2>8. \A m \in Nodes \ {n} : Directory!ActiveOf(m)' \subseteq Directory!ActiveOf(m)
    BY <2>5 DEF Directory!ActiveOf
  <2>9. Directory!ActiveOf(n)' \subseteq slots'[n] /\ Cardinality(slots'[n]) <= SlotLimit
    BY <1>1, <2>1, <2>5, DirectoryCount DEF Directory!ActiveOf, Directory!ScanFits
  <2> QED
    BY <2>1, <2>3, <2>6, <2>7, <2>8, <2>9, OwnerSteps
<1>16. ASSUME NEW n \in Nodes, Directory!ReleaseOfferClaim(n) \/ Directory!Revoked(n) PROVE SlotsSound'
  <2> DEFINE o == handler[n].offer
  <2>1. /\ Directory!Leave(n) /\ doc' = doc /\ slots' \in {slots, [slots EXCEPT ![n] = @ \ {o}]}
        /\ o \in Offers /\ doc[o] # [owner |-> n, state |-> "active"]
        /\ \A m \in Nodes \ {n} : node'[m] = node[m]
    BY <1>1, <1>16 DEF Directory!ReleaseOfferClaim, Directory!Revoked, Directory!DirectoryInv,
       Directory!HandlerFits, Directory!DirectoryTypeOK
  <2>2. Directory!HandlerFits(n)' /\ \A m \in Nodes \ {n} : handler'[m] = handler[m]
    BY <1>2, <2>1
  <2>3. /\ slots'[n] \subseteq slots[n] /\ slots[n] \ {o} \subseteq slots'[n]
        /\ \A m \in Nodes \ {n} : slots'[m] = slots[m]
    BY <1>1, <2>1 DEF Directory!DirectoryTypeOK
  <2>4. DocsStand /\ \A m \in Nodes : Directory!ActiveOf(m)' = Directory!ActiveOf(m)
    BY <2>1 DEF DocsStand, Directory!ActiveOf
  <2>5. Directory!ActiveOf(n)' \subseteq slots'[n]
    BY <1>1, <2>1, <2>3, <2>4 DEF Directory!ActiveOf, Directory!ScanFits
  <2>6. Cardinality(slots'[n]) <= SlotLimit
    BY <1>1, <2>3, SlotsStayFinite
  <2>7. \A p \in Offers : doc'[p] = Directory!NoDoc <=> doc'[p].owner = Directory!None
    BY <1>1, <2>1
  <2> QED
    BY <2>1, <2>2, <2>3, <2>4, <2>5, <2>6, <2>7, OwnerSteps
<1>17. ASSUME NEW o \in Offers, NEW to \in {"revoked", "compacted"}, doc[o].state \in {"active", "revoked"},
              doc' = [doc EXCEPT ![o].state = to]
       PROVE  /\ DocsStand
              /\ \A p \in Offers : doc'[p] = Directory!NoDoc <=> doc'[p].owner = Directory!None
              /\ \A m \in Nodes : Directory!ActiveOf(m)' = Directory!ActiveOf(m) \ {o}
  <2>1. doc[o] \in Directory!Docs /\ doc[o] # Directory!NoDoc /\ doc[o].owner # Directory!None
    BY <1>1, <1>17, IdleForms DEF Directory!DirectoryTypeOK
  <2>2. /\ doc'[o].owner = doc[o].owner /\ doc'[o].state = to
        /\ \A p \in Offers \ {o} : doc'[p] = doc[p]
    BY <1>1, <1>17 DEF Directory!DirectoryTypeOK, Directory!Docs
  <2>3. doc'[o] # Directory!NoDoc
    BY <2>2, IdleForms
  <2>4. \A m \in Nodes : doc'[o] # [owner |-> m, state |-> "active"]
    BY <2>2
  <2>5. DocsStand
    BY <2>1, <2>2, <2>3 DEF DocsStand
  <2>6. \A p \in Offers : doc'[p] = Directory!NoDoc <=> doc'[p].owner = Directory!None
    BY <1>1, <2>1, <2>2, <2>3
  <2> QED
    BY <2>2, <2>4, <2>5, <2>6 DEF Directory!ActiveOf
<1>18. ASSUME NEW n \in Nodes, Directory!RevokeCommits(n) PROVE SlotsSound'
  <2> DEFINE o == handler[n].offer
  <2>1. /\ handler[n].op = "revoking" /\ UNCHANGED <<node, slots>> /\ o \in Offers /\ doc[o].owner = n
        /\ handler' = [handler EXCEPT ![n].op = "releasing"]
        /\ doc' = [doc EXCEPT ![o].state = IF @ = "active" THEN "revoked" ELSE @]
    BY <1>18 DEF Directory!RevokeCommits, Directory!DirectoryInv, Directory!HandlerFits
  <2>2. /\ handler'[n].op = "releasing" /\ handler'[n].offer = o
        /\ \A m \in Nodes \ {n} : handler'[m] = handler[m]
    BY <1>4, <2>1
  <2>3. /\ DocsStand /\ \A p \in Offers : doc'[p] = Directory!NoDoc <=> doc'[p].owner = Directory!None
        /\ \A m \in Nodes : Directory!ActiveOf(m)' \subseteq Directory!ActiveOf(m)
    <3>1. CASE doc[o].state = "active"
      <4>1. doc' = [doc EXCEPT ![o].state = "revoked"]
        BY <2>1, <3>1
      <4>2. PICK q \in Offers : q = o
        BY <2>1
      <4>3. doc[q].state \in {"active", "revoked"} /\ doc' = [doc EXCEPT ![q].state = "revoked"]
        BY <3>1, <4>1, <4>2
      <4>4. /\ DocsStand /\ \A p \in Offers : doc'[p] = Directory!NoDoc <=> doc'[p].owner = Directory!None
            /\ \A m \in Nodes : Directory!ActiveOf(m)' = Directory!ActiveOf(m) \ {q}
        BY <1>17, <4>3
      <4> QED
        BY <4>4
    <3>2. CASE doc[o].state # "active"
      <4>1. doc' = doc
        BY <1>1, <2>1, <3>2 DEF Directory!DirectoryTypeOK, Directory!Docs
      <4> QED
        BY <1>1, <4>1 DEF DocsStand, Directory!ActiveOf
    <3> QED
      BY <3>1, <3>2
  <2>4. doc'[o].owner = n /\ doc'[o].state # "active"
    BY <1>1, <2>1 DEF Directory!DirectoryTypeOK, Directory!Docs
  <2>5. Directory!HandlerFits(n)'
    BY <2>1, <2>2, <2>4 DEF Directory!HandlerFits
  <2>6. Directory!ActiveOf(n)' \subseteq slots'[n] /\ Cardinality(slots'[n]) <= SlotLimit
    BY <1>1, <2>1, <2>3, DirectoryCount DEF Directory!ScanFits
  <2> QED
    BY <2>1, <2>2, <2>3, <2>5, <2>6, OwnerSteps
<1>19. ASSUME NEW o \in Offers, Directory!CompactOffer(o) \/ Directory!PeerRevokes(o) PROVE SlotsSound'
  <2>1. /\ doc[o].state \in {"active", "revoked"} /\ UNCHANGED <<node, handler>>
        /\ \E to \in {"revoked", "compacted"} : doc' = [doc EXCEPT ![o].state = to]
        /\ slots' \in {slots, [slots EXCEPT ![doc[o].owner] = @ \ {o}]}
    BY <1>19 DEF Directory!CompactOffer, Directory!PeerRevokes
  <2>2. PICK n \in Nodes : n = doc[o].owner
    <3>1. doc[o] # Directory!NoDoc
      BY <2>1, IdleForms
    <3> QED
      BY <1>1, <3>1 DEF Directory!DirectoryTypeOK, Directory!Docs
  <2>3. /\ DocsStand /\ \A p \in Offers : doc'[p] = Directory!NoDoc <=> doc'[p].owner = Directory!None
        /\ \A m \in Nodes : Directory!ActiveOf(m)' = Directory!ActiveOf(m) \ {o}
    BY <1>17, <2>1
  <2>4. /\ slots'[n] \subseteq slots[n] /\ slots[n] \ {o} \subseteq slots'[n]
        /\ \A m \in Nodes \ {n} : slots'[m] = slots[m]
    BY <1>1, <2>1, <2>2 DEF Directory!DirectoryTypeOK
  <2>5. doc'[o] # Directory!NoDoc
    <3>1. doc[o] # Directory!NoDoc
      BY <2>1, IdleForms
    <3> QED
      BY <2>3, <3>1 DEF DocsStand
  <2>6. Directory!HandlerFits(n)'
    BY <2>1, <2>3, <2>4, <2>5, OthersFit
  <2>7. Directory!ActiveOf(n)' \subseteq slots'[n]
    BY <1>1, <2>3, <2>4 DEF Directory!ScanFits
  <2>8. Cardinality(slots'[n]) <= SlotLimit
    BY SMTT(60), <1>1, <2>4, SlotsStayFinite
  <2> QED
    BY <2>1, <2>3, <2>4, <2>6, <2>7, <2>8, OwnerSteps
<1>20. ASSUME Directory!MatchStarts \/ Directory!MatchEnds \/ \E o \in Offers : Directory!MatchReads(o)
       PROVE  SlotsSound'
  BY ZenonT(60), <1>20 DEF Directory!MatchStarts, Directory!MatchEnds, Directory!MatchReads, Directory!DirectoryInv,
     SlotsSound, Directory!ScanFits, Directory!HandlerFits, Directory!ActiveOf
<1> QED
  BY <1>5, <1>6, <1>7, <1>8, <1>9, <1>10, <1>11, <1>12, <1>13, <1>14, <1>15, <1>16, <1>18, <1>19,
     <1>20 DEF Directory!DirectoryNext

LEMMA DirectoryInvNext ==
    ASSUME Directory!DirectoryInv, Directory!DirectoryAssumption, [Directory!DirectoryNext]_(Directory!directoryVars)
    PROVE  Directory!DirectoryInv'
<1>1. CASE UNCHANGED Directory!directoryVars
  BY <1>1 DEF Directory!directoryVars, Directory!DirectoryInv, Directory!DirectoryTypeOK,
     Directory!TablesKept, Directory!ScanFits, Directory!HandlerFits, Directory!ActiveOf,
              Directory!Present, Directory!Listed, Directory!PendingOffers
<1>2. CASE Directory!DirectoryNext
  <2>1. (match.reads \cup match.eligible) \cap match.dead = {} /\ match \in Directory!Matches
    BY DEF Directory!DirectoryInv, Directory!DirectoryTypeOK
  <2>2. ASSUME Directory!MatchStarts
        PROVE  (match'.reads \cup match'.eligible) \cap match'.dead = {}
    BY <2>2, IdleForms DEF Directory!MatchStarts, Directory!Matches
  <2>3. ASSUME NEW o \in Offers, Directory!MatchReads(o)
        PROVE  (match'.reads \cup match'.eligible) \cap match'.dead = {}
    BY <2>1, <2>3 DEF Directory!MatchReads, Directory!Matches
  <2>4. ASSUME Directory!MatchEnds
        PROVE  (match'.reads \cup match'.eligible) \cap match'.dead = {}
    BY <2>1, <2>4 DEF Directory!MatchEnds, Directory!Matches
  <2>5. ASSUME match' = match
        PROVE  (match'.reads \cup match'.eligible) \cap match'.dead = {}
    BY SMTT(60), <2>1, <2>5
  <2>6. Directory!MatchStarts \/ Directory!MatchEnds \/ (\E o \in Offers : Directory!MatchReads(o)) \/ match' = match
    BY ZenonT(60), <1>2 DEF Directory!DirectoryNext, Directory!GoesStale, Directory!Register,
       Directory!Registered, Directory!RegisterFails, Directory!PublishChecked,
       Directory!ClaimOfferSlot, Directory!Created, Directory!CreateUnknown, Directory!CreateConflict,
       Directory!ReleaseOfferClaim, Directory!RevokeCommits, Directory!Revoked,
       Directory!Restore, Directory!Publish, Directory!Revoke, Directory!CompactOffer,
       Directory!PeerRevokes
  <2>7. (match'.reads \cup match'.eligible) \cap match'.dead = {}
    BY <2>2, <2>3, <2>4, <2>5, <2>6
  <2> QED
    BY <1>2, <2>7, DirectoryTyped, TablesKeep, SlotsKeep DEF Directory!DirectoryInv, SlotsSound
<1> QED
  BY <1>1, <1>2

LEMMA DirectoryInvInit == ASSUME Directory!DirectoryAssumption, Directory!DirectoryInit PROVE Directory!DirectoryInv
<1>1. Directory!DirectoryTypeOK
  BY IdleForms DEF Directory!DirectoryInit, Directory!DirectoryTypeOK
<1>2. Directory!TablesKept
  <2>1. Directory!Present = {} /\ Directory!Listed = {} /\ Directory!PendingOffers = {}
    BY IdleForms DEF Directory!DirectoryInit, Directory!Present, Directory!Listed,
       Directory!PendingOffers
  <2> QED
    BY <2>1, FS_EmptySet, DirectoryCount DEF Directory!TablesKept, Directory!DirectoryAssumption
<1>3. Directory!ScanFits
  <2>1. \A n \in Nodes : Directory!ActiveOf(n) = {} /\ slots[n] = {}
    BY IdleForms DEF Directory!DirectoryInit, Directory!ActiveOf
  <2> QED
    BY <2>1, FS_EmptySet, DirectoryCount DEF Directory!ScanFits, Directory!DirectoryAssumption
<1>4. \A n \in Nodes : Directory!HandlerFits(n)
  BY IdleForms DEF Directory!DirectoryInit, Directory!HandlerFits
<1> QED
  BY <1>1, <1>2, <1>3, <1>4, IdleForms DEF Directory!DirectoryInv, Directory!DirectoryInit

-----------------------------------------------------------------------------
\* Facts about the sequences that queues and buffers are.

LEMMA WiderSeq ==
    ASSUME NEW S, NEW T, S \subseteq T, NEW s \in Seq(S)
    PROVE  s \in Seq(T)
OBVIOUS

LEMMA SetOf ==
    ASSUME NEW S, NEW s \in Seq(S)
    PROVE  /\ \A x : x \in Delivery!ToSet(s) <=> \E i \in 1..Len(s) : x = s[i]
           /\ Delivery!ToSet(s) \subseteq S /\ \A i \in 1..Len(s) : s[i] \in Delivery!ToSet(s)
           /\ Delivery!ToSet(s) = {} <=> s = <<>>
<1>1. DOMAIN s = 1..Len(s) /\ Len(s) \in Nat
  OBVIOUS
<1>2. \A x : x \in Delivery!ToSet(s) <=> \E i \in 1..Len(s) : x = s[i]
  BY <1>1 DEF Delivery!ToSet
<1>3. \A i \in 1..Len(s) : s[i] \in S
  OBVIOUS
<1>4. s # <<>> => 1 \in 1..Len(s)
  BY <1>1
<1>5. s = <<>> => 1..Len(s) = {}
  OBVIOUS
<1> QED
  BY <1>2, <1>3, <1>4, <1>5

LEMMA AppendFun ==
    ASSUME NEW n \in Nat, NEW F, NEW f \in [1..n -> F], NEW x \in F
    PROVE  /\ Append(f, x) \in [1..(n + 1) -> F]
           /\ \A i \in 1..n : Append(f, x)[i] = f[i]
           /\ Append(f, x)[n + 1] = x
<1>1. f \in Seq(F) /\ Len(f) = n
  OBVIOUS
<1>2. Append(f, x) \in Seq(F) /\ Len(Append(f, x)) = n + 1 /\ DOMAIN Append(f, x) = 1..(n + 1)
  BY <1>1
<1>3. \A i \in 1..(n + 1) : Append(f, x)[i] = IF i <= n THEN f[i] ELSE x
  BY <1>1
<1>4. Append(f, x) \in [1..(n + 1) -> F]
  BY <1>2, LenProperties
<1> QED
  BY <1>3, <1>4

LEMMA AppendSet ==
    ASSUME NEW S, NEW s \in Seq(S), NEW e \in S
    PROVE  /\ Append(s, e) \in Seq(S) /\ Len(Append(s, e)) = Len(s) + 1
           /\ Delivery!ToSet(Append(s, e)) = Delivery!ToSet(s) \cup {e}
           /\ Delivery!IsInjective(s) /\ e \notin Delivery!ToSet(s) => Delivery!IsInjective(Append(s, e))
<1>1. Append(s, e) \in Seq(S) /\ Len(Append(s, e)) = Len(s) + 1
  OBVIOUS
<1>2. /\ \A i \in 1..Len(s) : Append(s, e)[i] = s[i]
      /\ Append(s, e)[Len(s) + 1] = e
  OBVIOUS
<1>3. Delivery!ToSet(Append(s, e)) = Delivery!ToSet(s) \cup {e}
  <2>1. \A x : x \in Delivery!ToSet(s) <=> \E i \in 1..Len(s) : x = s[i]
    BY SetOf
  <2>2. \A x : x \in Delivery!ToSet(Append(s, e)) <=> \E i \in 1..Len(Append(s, e)) : x = Append(s, e)[i]
    BY <1>1, SetOf
  <2>3. ASSUME NEW x \in Delivery!ToSet(Append(s, e)) PROVE x \in Delivery!ToSet(s) \cup {e}
    BY <1>1, <1>2, <2>1, <2>2, <2>3
  <2>4. ASSUME NEW x \in Delivery!ToSet(s) \cup {e} PROVE x \in Delivery!ToSet(Append(s, e))
    <3>1. Len(s) \in Nat /\ Len(s) + 1 \in 1..Len(Append(s, e))
      BY <1>1
    <3> QED
      BY <1>1, <1>2, <2>1, <2>2, <2>4, <3>1
  <2> QED
    BY <2>3, <2>4
<1>4. Delivery!IsInjective(s) /\ e \notin Delivery!ToSet(s) => Delivery!IsInjective(Append(s, e))
  BY <1>1, <1>2, SetOf DEF Delivery!IsInjective
<1> QED
  BY <1>1, <1>3, <1>4

LEMMA TailSet ==
    ASSUME NEW S, NEW s \in Seq(S), s # <<>>, Delivery!IsInjective(s)
    PROVE  /\ Tail(s) \in Seq(S) /\ Len(Tail(s)) = Len(s) - 1
           /\ s[1] = Head(s) /\ s[1] \in Delivery!ToSet(s) /\ s[1] \in S
           /\ Delivery!ToSet(Tail(s)) = Delivery!ToSet(s) \ {s[1]}
           /\ Delivery!IsInjective(Tail(s))
<1>1. Tail(s) \in Seq(S) /\ Len(Tail(s)) = Len(s) - 1 /\ s[1] = Head(s) /\ Len(s) \in Nat /\ Len(s) >= 1
  OBVIOUS
<1>2. \A i \in 1..(Len(s) - 1) : Tail(s)[i] = s[i + 1]
  BY <1>1
<1>3. s[1] \in Delivery!ToSet(s) /\ s[1] \in S
  BY <1>1, SetOf
<1>4. Delivery!ToSet(Tail(s)) = Delivery!ToSet(s) \ {s[1]}
  <2>1. ASSUME NEW x \in Delivery!ToSet(Tail(s)) PROVE x \in Delivery!ToSet(s) /\ x # s[1]
    <3>1. PICK i \in 1..(Len(s) - 1) : x = Tail(s)[i]
      BY <1>1, <2>1, SetOf
    <3>2. i + 1 \in 1..Len(s) /\ i + 1 # 1 /\ x = s[i + 1] /\ 1 \in 1..Len(s)
      BY <1>1, <1>2, <3>1
    <3> QED
      BY <3>2, SetOf DEF Delivery!IsInjective
  <2>2. ASSUME NEW x \in Delivery!ToSet(s), x # s[1] PROVE x \in Delivery!ToSet(Tail(s))
    <3>1. PICK i \in 1..Len(s) : x = s[i]
      BY <2>2, SetOf
    <3>2. i - 1 \in 1..(Len(s) - 1) /\ Tail(s)[i - 1] = x
      BY <1>1, <1>2, <2>2, <3>1
    <3> QED
      BY <1>1, <3>2, SetOf
  <2> QED
    BY <2>1, <2>2
<1>5. Delivery!IsInjective(Tail(s))
  BY <1>1, <1>2 DEF Delivery!IsInjective
<1> QED
  BY <1>1, <1>3, <1>4, <1>5

LEMMA ConcatSet ==
    ASSUME NEW S, NEW s \in Seq(S), NEW t \in Seq(S)
    PROVE  /\ s \o t \in Seq(S) /\ Len(s \o t) = Len(s) + Len(t)
           /\ Delivery!ToSet(s \o t) = Delivery!ToSet(s) \cup Delivery!ToSet(t)
<1>1. s \o t \in Seq(S) /\ Len(s \o t) = Len(s) + Len(t)
  OBVIOUS
<1>2. /\ \A i \in 1..Len(s) : (s \o t)[i] = s[i]
      /\ \A i \in 1..Len(t) : (s \o t)[Len(s) + i] = t[i]
  OBVIOUS
<1>3. ASSUME NEW i \in 1..Len(s \o t)
      PROVE  (s \o t)[i] \in Delivery!ToSet(s) \cup Delivery!ToSet(t)
  <2>1. CASE i <= Len(s)
    BY <1>1, <1>2, <2>1, SetOf
  <2>2. CASE i > Len(s)
    <3>1. i - Len(s) \in 1..Len(t) /\ (s \o t)[i] = t[i - Len(s)]
      BY <1>1, <1>2, <2>2
    <3> QED
      BY <3>1, SetOf
  <2> QED
    BY <1>1, <2>1, <2>2
<1>4. Delivery!ToSet(s \o t) \subseteq Delivery!ToSet(s) \cup Delivery!ToSet(t)
  <2>1. \A x : x \in Delivery!ToSet(s \o t) <=> \E i \in 1..Len(s \o t) : x = (s \o t)[i]
    BY <1>1, SetOf
  <2> QED
    BY <1>3, <2>1
<1>5. ASSUME NEW x \in Delivery!ToSet(s) PROVE x \in Delivery!ToSet(s \o t)
  <2>1. PICK i \in 1..Len(s) : x = s[i]
    BY <1>5, SetOf
  <2>2. i \in 1..Len(s \o t) /\ x = (s \o t)[i]
    BY <1>1, <1>2, <2>1
  <2> QED
    BY <1>1, <2>2, SetOf
<1>6. ASSUME NEW x \in Delivery!ToSet(t) PROVE x \in Delivery!ToSet(s \o t)
  <2>1. PICK i \in 1..Len(t) : x = t[i]
    BY <1>6, SetOf
  <2>2. Len(s) + i \in 1..Len(s \o t) /\ x = (s \o t)[Len(s) + i]
    BY <1>1, <1>2, <2>1
  <2> QED
    BY <1>1, <2>2, SetOf
<1> QED
  BY <1>1, <1>4, <1>5, <1>6
LEMMA ConcatInjective ==
    ASSUME NEW S, NEW s \in Seq(S), NEW t \in Seq(S), Delivery!IsInjective(s), Delivery!IsInjective(t),
           Delivery!ToSet(s) \cap Delivery!ToSet(t) = {}
    PROVE  Delivery!IsInjective(s \o t)
<1>1. s \o t \in Seq(S) /\ Len(s \o t) = Len(s) + Len(t) /\ Len(s) \in Nat /\ Len(t) \in Nat
  OBVIOUS
<1>2. \A i \in 1..Len(s) : (s \o t)[i] = s[i] /\ s[i] \in Delivery!ToSet(s)
  BY SetOf
<1>3. \A i \in 1..Len(t) : (s \o t)[Len(s) + i] = t[i] /\ t[i] \in Delivery!ToSet(t)
  BY SetOf
<1>4. ASSUME NEW i \in 1..Len(s \o t), NEW j \in 1..Len(s \o t), i < j
      PROVE  (s \o t)[i] # (s \o t)[j]
  <2>1. CASE j <= Len(s)
    BY <1>1, <1>2, <1>4, <2>1 DEF Delivery!IsInjective
  <2>2. CASE j > Len(s)
    <3>1. j - Len(s) \in 1..Len(t) /\ (s \o t)[j] = t[j - Len(s)] /\ t[j - Len(s)] \in Delivery!ToSet(t)
      BY <1>1, <1>3, <2>2
    <3>2. CASE i <= Len(s)
      BY <1>1, <1>2, <3>1, <3>2
    <3>3. CASE i > Len(s)
      <4>1. i - Len(s) \in 1..Len(t) /\ (s \o t)[i] = t[i - Len(s)]
        BY <1>1, <1>3, <3>3
      <4> QED
        BY <1>1, <1>4, <3>1, <4>1 DEF Delivery!IsInjective
    <3> QED
      BY <1>1, <3>2, <3>3
  <2> QED
    BY <1>1, <2>1, <2>2
<1>5. ASSUME NEW i \in 1..Len(s \o t), NEW j \in 1..Len(s \o t), (s \o t)[i] = (s \o t)[j]
      PROVE  i = j
  <2>1. i \in Int /\ j \in Int
    BY <1>1
  <2> QED
    BY <1>4, <1>5, <2>1
<1> QED
  BY <1>5 DEF Delivery!IsInjective

\* A sequence lies in another from place k on; what is left of it when the first n
\* elements of the other are taken.
LiesIn(s, all, k) == k + Len(s) <= Len(all) /\ \A i \in 1..Len(s) : all[k + i] = s[i]
LeftOf(s, n, k) == SubSeq(s, (IF n > k THEN n - k ELSE 0) + 1, Len(s))

LEMMA RestOf ==
    ASSUME NEW S, NEW all \in Seq(S), NEW s \in Seq(S), NEW k \in Nat, NEW n \in 0..Len(all),
           LiesIn(s, all, k), Delivery!IsInjective(all)
    PROVE  /\ LeftOf(s, n, k) \in Seq(S) /\ Len(LeftOf(s, n, k)) <= Len(s)
           /\ Delivery!IsInjective(LeftOf(s, n, k))
           /\ Delivery!ToSet(LeftOf(s, n, k)) = Delivery!ToSet(s) \ Delivery!ToSet(SubSeq(all, 1, n))
           /\ n = Len(all) => LeftOf(s, n, k) = <<>>
<1>0. k + Len(s) <= Len(all) /\ \A i \in 1..Len(s) : all[k + i] = s[i]
  BY DEF LiesIn
<1>15. PICK p \in Nat : p = IF n > k THEN n - k ELSE 0
  <2>1. n \in Nat
    OBVIOUS
  <2>2. (IF n > k THEN n - k ELSE 0) \in Nat
    BY <2>1
  <2> QED
    BY <2>2
<1>16. LeftOf(s, n, k) = SubSeq(s, p + 1, Len(s))
  BY <1>15 DEF LeftOf
<1> DEFINE left == SubSeq(s, p + 1, Len(s))
           first == SubSeq(all, 1, n)
<1>1. Len(s) \in Nat /\ Len(all) \in Nat /\ n \in Nat /\ n <= Len(all)
  OBVIOUS
<1>2. /\ left \in Seq(S) /\ Len(left) = IF p + 1 <= Len(s) THEN Len(s) - p ELSE 0
      /\ \A i \in 1..(Len(s) - p) : left[i] = s[p + i]
  <2>1. \A i \in (p + 1)..Len(s) : s[i] \in S
    OBVIOUS
  <2>2. /\ left \in Seq(S) /\ Len(left) = IF p + 1 <= Len(s) THEN Len(s) - (p + 1) + 1 ELSE 0
        /\ \A i \in 1..(Len(s) - (p + 1) + 1) : left[i] = s[p + 1 + i - 1]
    BY <1>1, <2>1, SubSeqProperties
  <2> HIDE DEF left
  <2>3. Len(left) = IF p + 1 <= Len(s) THEN Len(s) - p ELSE 0
    BY <1>1, <2>2
  <2>4. ASSUME NEW i \in 1..(Len(s) - p) PROVE left[i] = s[p + i]
    <3>1. i \in 1..(Len(s) - (p + 1) + 1) /\ p + 1 + i - 1 = p + i
      BY <1>1
    <3>2. left[i] = s[p + 1 + i - 1]
      BY <2>2, <3>1
    <3> QED
      BY <3>1, <3>2
  <2> QED
    BY <2>2, <2>3, <2>4
<1>3. first \in Seq(S) /\ Len(first) = n /\ \A i \in 1..n : first[i] = all[i]
  <2>1. \A i \in 1..n : all[i] \in S
    BY <1>1
  <2>2. /\ first \in Seq(S) /\ Len(first) = IF 1 <= n THEN n - 1 + 1 ELSE 0
        /\ \A i \in 1..(n - 1 + 1) : first[i] = all[1 + i - 1]
    BY <1>1, <2>1, SubSeqProperties
  <2> QED
    BY <1>1, <2>2
<1> HIDE DEF left, first
<1>4. Len(left) \in Nat /\ Len(left) <= Len(s)
  BY <1>1, <1>2
<1>5. \A i \in 1..Len(left) : left[i] = s[p + i] /\ p + i \in 1..Len(s)
  BY <1>1, <1>2
<1>6. ASSUME NEW i \in 1..Len(s), NEW j \in 1..Len(s), s[i] = s[j] PROVE i = j
  <2>1. k + i \in 1..Len(all) /\ k + j \in 1..Len(all) /\ all[k + i] = all[k + j]
    BY SMTT(60), <1>0, <1>1, <1>6
  <2>2. k + i = k + j
    BY <2>1 DEF Delivery!IsInjective
  <2> QED
    BY <2>2
<1>7. Delivery!IsInjective(left)
  <2>1. ASSUME NEW i \in 1..Len(left), NEW j \in 1..Len(left), left[i] = left[j] PROVE i = j
    <3>1. p + i \in 1..Len(s) /\ p + j \in 1..Len(s) /\ s[p + i] = s[p + j]
      BY <1>5, <2>1
    <3>2. p + i = p + j
      BY <1>6, <3>1
    <3> QED
      BY <1>4, <3>2
  <2> QED
    BY <2>1 DEF Delivery!IsInjective
<1>8. n = Len(all) => left = <<>>
  BY <1>0, <1>1, <1>2, <1>15
<1>9. ASSUME NEW x \in Delivery!ToSet(left) PROVE x \in Delivery!ToSet(s) /\ x \notin Delivery!ToSet(first)
  <2>1. PICK i \in 1..Len(left) : x = left[i]
    BY <1>2, <1>9, SetOf
  <2>2. x = s[p + i] /\ p + i \in 1..Len(s)
    BY <1>5, <2>1
  <2>3. x = all[k + (p + i)] /\ k + (p + i) \in 1..Len(all) /\ k + (p + i) > n
    <3>1. all[k + (p + i)] = s[p + i]
      BY <1>0, <2>2
    <3>2. i \in Nat /\ i >= 1
      BY <1>4, <2>1
    <3>3. k + (p + i) > n
      <4>1. p >= n - k
        BY <1>1, <1>15
      <4> QED
        BY <1>1, <3>2, <4>1
    <3>4. k + (p + i) \in 1..Len(all)
      <4>1. \A m \in 1..Len(s) : k + m \in 1..Len(all)
        BY <1>0, <1>1
      <4> QED
        BY <2>2, <4>1
    <3> QED
      BY <2>2, <3>1, <3>3, <3>4
  <2>4. ASSUME NEW j \in 1..n, first[j] = x PROVE FALSE
    <3>1. all[j] = all[k + (p + i)] /\ j \in 1..Len(all)
      BY <1>1, <1>3, <2>3, <2>4
    <3>2. j = k + (p + i)
      BY <2>3, <3>1 DEF Delivery!IsInjective
    <3> QED
      BY <1>1, <2>3, <3>2
  <2>5. x \notin Delivery!ToSet(first)
    BY <1>3, <2>4, SetOf
  <2> QED
    BY <2>2, <2>5, SetOf
<1>10. ASSUME NEW x \in Delivery!ToSet(s), x \notin Delivery!ToSet(first) PROVE x \in Delivery!ToSet(left)
  <2>1. PICK i \in 1..Len(s) : x = s[i]
    BY <1>10, SetOf
  <2>2. x = all[k + i] /\ k + i \in 1..Len(all)
    BY <1>0, <1>1, <2>1
  <2>3. k + i > n
    <3>1. ASSUME k + i <= n PROVE FALSE
      <4>1. k + i \in 1..Len(first) /\ first[k + i] = x
        BY <1>1, <1>3, <2>2, <3>1
      <4> QED
        BY <1>3, <1>10, <4>1, SetOf
    <3> QED
      BY <1>1, <3>1
  <2>4. i > p /\ i - p \in 1..(Len(s) - p) /\ p + (i - p) = i
    BY <1>1, <1>15, <2>1, <2>3
  <2>5. i - p \in 1..Len(left)
    BY <1>1, <1>2, <2>1, <2>4
  <2>6. left[i - p] = x
    BY <1>2, <2>1, <2>4
  <2> QED
    BY <1>2, <2>5, <2>6, SetOf
<1> QED
  <2>1. Delivery!ToSet(left) = Delivery!ToSet(s) \ Delivery!ToSet(first)
    BY <1>9, <1>10
  <2> QED
    BY <1>2, <1>4, <1>7, <1>8, <1>16, <2>1 DEF left, first

-----------------------------------------------------------------------------
\* The delivery of events (sendSocketEvent, the queues, sockets and long polls).

LEMMA DeliveryCount ==
    \A S : Delivery!Cardinality(S) = Cardinality(S) /\ (Delivery!IsFiniteSet(S) <=> IsFiniteSet(S))
<1> SUFFICES ASSUME NEW S
             PROVE  Delivery!Cardinality(S) = Cardinality(S) /\ (Delivery!IsFiniteSet(S) <=> IsFiniteSet(S))
  OBVIOUS
<1>1. Delivery!Cardinality(S) = Cardinality(S)
  BY DEF Delivery!Cardinality, Cardinality
<1>2. Delivery!IsFiniteSet(S) <=> IsFiniteSet(S)
  BY DEF Delivery!IsFiniteSet, IsFiniteSet
<1> QED
  BY <1>1, <1>2

\* What the places of events are made of.
LEMMA PlacesTyped ==
    ASSUME Delivery!DeliveryTypeOK
    PROVE  /\ Len(kind) \in Nat /\ Delivery!Events \subseteq Nat /\ Delivery!New \notin Delivery!Events
           /\ \A q \in Delivery!Queues : queue[q] \in Seq(Delivery!Events) /\ Delivery!Queued[q] = Delivery!ToSet(queue[q]) /\ Delivery!Queued[q] \subseteq Delivery!Events
           /\ \A s \in Sockets : /\ socket[s] \in Delivery!SocketRecords /\ socket[s].buffer \in Seq(Delivery!Events)
                                 /\ Delivery!Buffered[s] = Delivery!ToSet(socket[s].buffer) /\ Delivery!Buffered[s] \subseteq Delivery!Events
           /\ \A q \in Delivery!Queues : Delivery!Queued[q] = {} <=> queue[q] = <<>>
           /\ \A s \in Sockets : Delivery!Buffered[s] = {} <=> socket[s].buffer = <<>>
<1>1. Len(kind) \in Nat /\ Delivery!Events \subseteq Nat /\ Delivery!New \notin Delivery!Events
  BY DEF Delivery!DeliveryTypeOK, Delivery!Events, Delivery!New
<1>2. ASSUME NEW q \in Delivery!Queues
      PROVE  /\ queue[q] \in Seq(Delivery!Events) /\ Delivery!Queued[q] = Delivery!ToSet(queue[q]) /\ Delivery!Queued[q] \subseteq Delivery!Events
             /\ Delivery!Queued[q] = {} <=> queue[q] = <<>>
  <2>1. queue[q] \in Seq(Delivery!Events) /\ Delivery!Queued[q] = Delivery!ToSet(queue[q])
    BY DEF Delivery!DeliveryTypeOK, Delivery!Queued
  <2>2. Delivery!ToSet(queue[q]) \subseteq Delivery!Events /\ (Delivery!ToSet(queue[q]) = {} <=> queue[q] = <<>>)
    BY <2>1, SetOf
  <2> QED
    BY <2>1, <2>2
<1>3. ASSUME NEW s \in Sockets
      PROVE  /\ socket[s] \in Delivery!SocketRecords /\ socket[s].buffer \in Seq(Delivery!Events)
             /\ Delivery!Buffered[s] = Delivery!ToSet(socket[s].buffer) /\ Delivery!Buffered[s] \subseteq Delivery!Events
             /\ Delivery!Buffered[s] = {} <=> socket[s].buffer = <<>>
  <2>1. /\ socket[s] \in Delivery!SocketRecords /\ socket[s].buffer \in Seq(Delivery!Events)
        /\ Delivery!Buffered[s] = Delivery!ToSet(socket[s].buffer)
    BY DEF Delivery!DeliveryTypeOK, Delivery!Buffered, Delivery!SocketRecords
  <2>2. /\ Delivery!ToSet(socket[s].buffer) \subseteq Delivery!Events
        /\ Delivery!ToSet(socket[s].buffer) = {} <=> socket[s].buffer = <<>>
    BY <2>1, SetOf
  <2> QED
    BY <2>1, <2>2
<1> QED
  BY <1>1, <1>2, <1>3

\* A new event: its number is free, and what is known of the others stays.
LEMMA Produced ==
    ASSUME Delivery!DeliveryTypeOK, Len(kind) < MaxEvents, Delivery!DeliveryAssumption,
           NEW k \in Delivery!Kinds, kind' = Append(kind, k)
    PROVE  /\ kind' \in Seq(Delivery!Kinds) /\ Len(kind') <= MaxEvents
           /\ Delivery!Events' = Delivery!Events \cup {Delivery!New} /\ Delivery!Events' = 1..Delivery!New /\ Delivery!New \in Nat
           /\ \A e \in Delivery!Events : kind'[e] = kind[e]
           /\ kind'[Delivery!New] = k
<1>1. Len(kind) \in Nat /\ kind \in Seq(Delivery!Kinds)
  BY DEF Delivery!DeliveryTypeOK
<1>2. kind' \in Seq(Delivery!Kinds) /\ Len(kind') = Len(kind) + 1
  BY <1>1
<1>3. Delivery!Events' = Delivery!Events \cup {Delivery!New} /\ Delivery!Events' = 1..Delivery!New /\ Delivery!New \in Nat
  BY <1>1, <1>2 DEF Delivery!Events, Delivery!New
<1> QED
  BY <1>1, <1>2, <1>3 DEF Delivery!Events, Delivery!New, Delivery!DeliveryAssumption

LEMMA FateProduced ==
    ASSUME Delivery!DeliveryTypeOK, NEW fate \in Delivery!Fates, ended' = Append(ended, fate), Delivery!Events' = 1..Delivery!New
    PROVE  /\ ended' \in [Delivery!Events' -> Delivery!Fates]
           /\ \A e \in Delivery!Events : ended'[e] = ended[e]
           /\ ended'[Delivery!New] = fate
<1>1. Len(kind) \in Nat /\ ended \in [1..Len(kind) -> Delivery!Fates]
  BY DEF Delivery!DeliveryTypeOK, Delivery!Events
<1>2. PICK n \in Nat : n = Len(kind)
  BY <1>1
<1>4. ended \in [1..n -> Delivery!Fates]
  BY <1>1, <1>2
<1>5. /\ Append(ended, fate) \in [1..(n + 1) -> Delivery!Fates]
      /\ \A i \in 1..n : Append(ended, fate)[i] = ended[i]
      /\ Append(ended, fate)[n + 1] = fate
  BY <1>4, AppendFun
<1>3. Delivery!Events = 1..Len(kind) /\ Delivery!New = Len(kind) + 1
  BY DEF Delivery!Events, Delivery!New
<1> QED
  BY <1>2, <1>3, <1>5

\* The events are more, so what is typed stays typed.
LEMMA StillTyped ==
    ASSUME Delivery!DeliveryTypeOK, Delivery!Events \subseteq Delivery!Events'
    PROVE  /\ \A q \in Delivery!Queues : queue[q] \in Seq(Delivery!Events')
           /\ queue \in [Delivery!Queues -> Seq(Delivery!Events')]
           /\ \A s \in Sockets : socket[s] \in Delivery!SocketRecords'
           /\ socket \in [Sockets -> Delivery!SocketRecords']
<1>1. \A q \in Delivery!Queues : queue[q] \in Seq(Delivery!Events')
  BY WiderSeq DEF Delivery!DeliveryTypeOK
<1>2. queue \in [Delivery!Queues -> Seq(Delivery!Events')]
  BY <1>1 DEF Delivery!DeliveryTypeOK
<1>3. ASSUME NEW s \in Sockets PROVE socket[s] \in Delivery!SocketRecords'
  <2>1. socket[s] \in Delivery!SocketRecords /\ socket[s].buffer \in Seq(Delivery!Events)
    BY DEF Delivery!DeliveryTypeOK, Delivery!SocketRecords
  <2>2. socket[s].buffer \in Seq(Delivery!Events')
    BY <2>1, WiderSeq
  <2> QED
    BY <2>1, <2>2 DEF Delivery!SocketRecords
<1>4. socket \in [Sockets -> Delivery!SocketRecords']
  BY <1>3 DEF Delivery!DeliveryTypeOK
<1> QED
  BY <1>1, <1>2, <1>3, <1>4

\* An event whose places and fate a step leaves alone.
LEMMA PlaceStays ==
    ASSUME NEW e, Delivery!OneAt(e), ended'[e] = ended[e],
           \A q \in Delivery!Queues : e \in Delivery!Queued'[q] <=> e \in Delivery!Queued[q],
           \A s \in Sockets : e \in Delivery!Buffered'[s] <=> e \in Delivery!Buffered[s]
    PROVE  Delivery!OneAt(e)'
BY DEF Delivery!OneAt

\* An event that has no place any more and ended.
LEMMA PlaceEnds ==
    ASSUME NEW e, ended'[e] # "no",
           \A q \in Delivery!Queues : e \notin Delivery!Queued'[q],
           \A s \in Sockets : e \notin Delivery!Buffered'[s]
    PROVE  Delivery!OneAt(e)'
BY DEF Delivery!OneAt

LEMMA PlacedInQueue ==
    ASSUME NEW e, ended'[e] = "no", NEW p \in Delivery!Queues,
           \A q \in Delivery!Queues : e \in Delivery!Queued'[q] <=> q = p,
           \A s \in Sockets : e \notin Delivery!Buffered'[s]
    PROVE  Delivery!OneAt(e)'
BY DEF Delivery!OneAt

LEMMA PlacedInBuffer ==
    ASSUME NEW e, ended'[e] = "no", NEW p \in Sockets,
           \A q \in Delivery!Queues : e \notin Delivery!Queued'[q],
           \A s \in Sockets : e \in Delivery!Buffered'[s] <=> s = p
    PROVE  Delivery!OneAt(e)'
BY DEF Delivery!OneAt

\* A step that leaves queues, events and buffers alone.
LEMMA QuietStep ==
    ASSUME Delivery!DeliveryInv, UNCHANGED <<kind, queue, ended>>,
           socket' \in [Sockets -> Delivery!SocketRecords],
           \A s \in Sockets : /\ socket'[s].buffer = socket[s].buffer
                              /\ socket'[s].state = "new" => socket[s].state = "new",
           registered' \in Sockets \cup {Delivery!NoSocket}, session' \in BOOLEAN,
           waiting' \subseteq {"legacy", "fast"}, Delivery!NothingStranded'
    PROVE  Delivery!DeliveryInv'
<1>1. Delivery!Events' = Delivery!Events /\ Delivery!SocketRecords' = Delivery!SocketRecords
  BY DEF Delivery!Events, Delivery!SocketRecords
<1>2. Delivery!DeliveryTypeOK'
  BY <1>1 DEF Delivery!DeliveryInv, Delivery!DeliveryTypeOK
<1>3. Delivery!Queued' = Delivery!Queued /\ Delivery!Buffered' = Delivery!Buffered
  BY DEF Delivery!Queued, Delivery!Buffered
<1>4. ASSUME NEW e \in Delivery!Events PROVE Delivery!OneAt(e)'
  BY <1>3, PlaceStays DEF Delivery!DeliveryInv
<1> QED
  BY <1>1, <1>2, <1>3, <1>4 DEF Delivery!DeliveryInv

\* A new event goes out on the socket.
LEMMA SendStep ==
    ASSUME Delivery!DeliveryAssumption, Delivery!DeliveryInv, Len(kind) < MaxEvents, NEW k \in Delivery!Kinds, Delivery!Connected,
           Delivery!SendSocketEvent(Delivery!New), Delivery!Produce(k, "no"), UNCHANGED <<queue, registered, waiting, session>>
    PROVE  Delivery!DeliveryInv'
<1>0. Delivery!DeliveryTypeOK
  BY DEF Delivery!DeliveryInv
<1>1. /\ kind' \in Seq(Delivery!Kinds) /\ Len(kind') <= MaxEvents /\ Delivery!New \notin Delivery!Events
      /\ Delivery!Events' = Delivery!Events \cup {Delivery!New} /\ Delivery!Events' = 1..Delivery!New /\ \A e \in Delivery!Events : kind'[e] = kind[e]
  BY <1>0, PlacesTyped, Produced DEF Delivery!Produce
<1>2. ended' \in [Delivery!Events' -> Delivery!Fates] /\ (\A e \in Delivery!Events : ended'[e] = ended[e]) /\ ended'[Delivery!New] = "no"
  BY <1>0, <1>1, FateProduced DEF Delivery!Produce, Delivery!Fates
<1>3. registered \in Sockets
  BY <1>0 DEF Delivery!Connected, Delivery!DeliveryTypeOK
<1>4. /\ \A q \in Delivery!Queues : queue[q] \in Seq(Delivery!Events')
      /\ queue \in [Delivery!Queues -> Seq(Delivery!Events')] /\ socket \in [Sockets -> Delivery!SocketRecords']
  BY <1>0, <1>1, StillTyped
<1> DEFINE r == registered
           b == socket[r].buffer
<1>5. b \in Seq(Delivery!Events') /\ Delivery!New \notin Delivery!ToSet(b) /\ Delivery!IsInjective(b) /\ socket[r].state # "new"
  <2>1. Delivery!ToSet(b) \subseteq Delivery!Events
    BY <1>0, <1>3, PlacesTyped
  <2>2. b \in Seq(Delivery!Events')
    BY <1>3, <1>4 DEF Delivery!SocketRecords
  <2> QED
    BY <1>1, <1>3, <2>1, <2>2 DEF Delivery!DeliveryInv, Delivery!Connected
<1>6. /\ Append(b, Delivery!New) \in Seq(Delivery!Events') /\ Delivery!ToSet(Append(b, Delivery!New)) = Delivery!ToSet(b) \cup {Delivery!New}
      /\ Delivery!IsInjective(Append(b, Delivery!New))
  BY <1>1, <1>5, AppendSet
<1>7. /\ socket' \in [Sockets -> Delivery!SocketRecords'] /\ socket'[r].buffer = Append(b, Delivery!New)
      /\ socket'[r].state = socket[r].state
      /\ \A s \in Sockets \ {r} : socket'[s] = socket[s]
  BY <1>3, <1>4, <1>6 DEF Delivery!SendSocketEvent, Delivery!SocketRecords
<1> HIDE DEF r, b
<1>8. Delivery!Queued' = Delivery!Queued
  BY DEF Delivery!Queued
<1>9. /\ Delivery!Buffered'[r] = Delivery!Buffered[r] \cup {Delivery!New}
      /\ \A s \in Sockets \ {r} : Delivery!Buffered'[s] = Delivery!Buffered[s]
  BY <1>3, <1>6, <1>7 DEF Delivery!Buffered, r, b
<1>10. /\ \A q \in Delivery!Queues : Delivery!Queued[q] \subseteq Delivery!Events
       /\ \A s \in Sockets : Delivery!Buffered[s] \subseteq Delivery!Events
  BY <1>0, PlacesTyped
<1>11. ASSUME NEW e \in Delivery!Events' PROVE Delivery!OneAt(e)'
  <2>1. CASE e \in Delivery!Events
    <3>1. \A s \in Sockets : e \in Delivery!Buffered'[s] <=> e \in Delivery!Buffered[s]
      BY <1>1, <1>9, <2>1
    <3> QED
      BY <1>2, <1>8, <2>1, <3>1, PlaceStays DEF Delivery!DeliveryInv
  <2>2. CASE e = Delivery!New
    <3>1. \A s \in Sockets : e \in Delivery!Buffered'[s] <=> s = r
      BY <1>1, <1>9, <1>10, <2>2
    <3>2. \A q \in Delivery!Queues : e \notin Delivery!Queued'[q]
      BY <1>1, <1>8, <1>10, <2>2
    <3> QED
      BY <1>2, <1>3, <2>2, <3>1, <3>2, PlacedInBuffer DEF r
  <2> QED
    BY <1>1, <2>1, <2>2
<1>12. Delivery!DeliveryTypeOK'
  BY <1>0, <1>1, <1>2, <1>4, <1>7 DEF Delivery!DeliveryTypeOK
<1>13. Delivery!NothingStranded'
  <2>1. Delivery!Connected' => Delivery!Connected
    OBVIOUS
  <2> QED
    BY <2>1 DEF Delivery!NothingStranded, Delivery!DeliveryInv
<1>14. \A s \in Sockets : /\ Delivery!IsInjective(socket'[s].buffer)
                          /\ socket'[s].state = "new" => socket'[s].buffer = <<>>
  BY <1>5, <1>6, <1>7 DEF Delivery!DeliveryInv, b, r
<1>15. \A e \in Delivery!Events' : ended'[e] = "dropped" => kind'[e] # "terminal"
  BY <1>1, <1>2 DEF Delivery!DeliveryInv
<1>16. \A q \in {"legacy", "fast"} : \A e \in Delivery!Queued'[q] : kind'[e] # "terminal"
  <2>1. \A q \in {"legacy", "fast"} : \A e \in Delivery!Queued[q] : e \in Delivery!Events /\ kind[e] # "terminal"
    BY <1>10 DEF Delivery!DeliveryInv, Delivery!Queues
  <2> QED
    BY <1>1, <1>8, <2>1
<1> QED
  BY <1>11, <1>12, <1>13, <1>14, <1>15, <1>16 DEF Delivery!DeliveryInv

\* A new event ends at once: refused, or the answer to a long poll.
LEMMA EventEnds ==
    ASSUME Delivery!DeliveryAssumption, Delivery!DeliveryInv, Len(kind) < MaxEvents, NEW k \in Delivery!Kinds,
           NEW fate \in {"received", "lost", "refused"}, Delivery!Produce(k, fate),
           UNCHANGED <<queue, session>>,
           socket' \in [Sockets -> Delivery!SocketRecords],
           \A s \in Sockets : /\ socket'[s].buffer = socket[s].buffer
                              /\ socket'[s].state = "new" => socket[s].state = "new",
           registered' \in Sockets \cup {Delivery!NoSocket}, waiting' \subseteq waiting,
           Delivery!Connected' => Delivery!Connected
    PROVE  Delivery!DeliveryInv'
<1>0. Delivery!DeliveryTypeOK
  BY DEF Delivery!DeliveryInv
<1>1. /\ kind' \in Seq(Delivery!Kinds) /\ Len(kind') <= MaxEvents /\ Delivery!New \notin Delivery!Events
      /\ Delivery!Events' = Delivery!Events \cup {Delivery!New} /\ Delivery!Events' = 1..Delivery!New /\ \A e \in Delivery!Events : kind'[e] = kind[e]
  BY <1>0, PlacesTyped, Produced DEF Delivery!Produce
<1>2. ended' \in [Delivery!Events' -> Delivery!Fates] /\ (\A e \in Delivery!Events : ended'[e] = ended[e]) /\ ended'[Delivery!New] = fate
  BY <1>0, <1>1, FateProduced DEF Delivery!Produce, Delivery!Fates
<1>4. queue \in [Delivery!Queues -> Seq(Delivery!Events')]
  BY <1>0, <1>1, StillTyped
<1>5. socket' \in [Sockets -> Delivery!SocketRecords']
  <2>1. ASSUME NEW s \in Sockets PROVE socket'[s] \in Delivery!SocketRecords'
    <3>1. socket'[s] \in Delivery!SocketRecords /\ socket'[s].buffer \in Seq(Delivery!Events)
      BY DEF Delivery!SocketRecords
    <3>2. socket'[s].buffer \in Seq(Delivery!Events')
      BY <1>1, <3>1, WiderSeq
    <3> QED
      BY <3>1, <3>2 DEF Delivery!SocketRecords
  <2> QED
    BY <2>1
<1>8. Delivery!Queued' = Delivery!Queued /\ Delivery!Buffered' = Delivery!Buffered
  BY DEF Delivery!Queued, Delivery!Buffered
<1>10. /\ \A q \in Delivery!Queues : Delivery!Queued[q] \subseteq Delivery!Events
       /\ \A s \in Sockets : Delivery!Buffered[s] \subseteq Delivery!Events
  BY <1>0, PlacesTyped
<1>11. ASSUME NEW e \in Delivery!Events' PROVE Delivery!OneAt(e)'
  <2>1. CASE e \in Delivery!Events
    BY <1>2, <1>8, <2>1, PlaceStays DEF Delivery!DeliveryInv
  <2>2. CASE e = Delivery!New
    <3>1. /\ \A s \in Sockets : e \notin Delivery!Buffered'[s]
          /\ \A q \in Delivery!Queues : e \notin Delivery!Queued'[q]
      BY <1>1, <1>8, <1>10, <2>2
    <3> QED
      BY <1>2, <2>2, <3>1, PlaceEnds
  <2> QED
    BY <1>1, <2>1, <2>2
<1>12. Delivery!DeliveryTypeOK'
  BY <1>0, <1>1, <1>2, <1>4, <1>5 DEF Delivery!DeliveryTypeOK
<1>13. Delivery!NothingStranded'
  BY DEF Delivery!NothingStranded, Delivery!DeliveryInv
<1>15. \A e \in Delivery!Events' : ended'[e] = "dropped" => kind'[e] # "terminal"
  BY <1>1, <1>2 DEF Delivery!DeliveryInv
<1>16. \A q \in {"legacy", "fast"} : \A e \in Delivery!Queued'[q] : kind'[e] # "terminal"
  <2>1. \A q \in {"legacy", "fast"} : \A e \in Delivery!Queued[q] : e \in Delivery!Events /\ kind[e] # "terminal"
    BY <1>10 DEF Delivery!DeliveryInv, Delivery!Queues
  <2> QED
    BY <1>1, <1>8, <2>1
<1> QED
  BY <1>11, <1>12, <1>13, <1>15, <1>16 DEF Delivery!DeliveryInv

\* boundedQueue: the queue afterwards, and what was dropped.
LEMMA BoundedForm ==
    ASSUME Delivery!DeliveryAssumption, Delivery!DeliveryInv, NEW q \in {"legacy", "fast"}, NEW k, Delivery!BoundedQueue(q, k),
           Delivery!Events' = Delivery!Events \cup {Delivery!New}
    PROVE  \E D \in SUBSET (Delivery!Queued[q] \cup {Delivery!New}), new \in Seq(Delivery!Events') :
              /\ Delivery!IsInjective(new) /\ Len(new) <= MaxQueued
              /\ Delivery!ToSet(new) = (Delivery!Queued[q] \cup {Delivery!New}) \ D
              /\ queue' = [queue EXCEPT ![q] = new]
              /\ ended' = [e \in 1..Delivery!New |-> IF e \in D THEN "dropped"
                                            ELSE IF e = Delivery!New THEN "no" ELSE ended[e]]
<1> DEFINE long == Append(queue[q], Delivery!New)
           D == IF Len(long) > MaxQueued THEN {long[1]} ELSE {}
           new == IF D = {} THEN long ELSE Tail(long)
<1>0. Delivery!DeliveryTypeOK /\ q \in Delivery!Queues
  BY DEF Delivery!DeliveryInv, Delivery!Queues
<1>1. queue' = [queue EXCEPT ![q] = new]
  BY Zenon DEF Delivery!BoundedQueue
<1>2. ended' = [e \in 1..Delivery!New |-> IF e \in D THEN "dropped" ELSE IF e = Delivery!New THEN "no" ELSE ended[e]]
  BY Zenon DEF Delivery!BoundedQueue
<1>3. /\ queue[q] \in Seq(Delivery!Events') /\ Delivery!New \notin Delivery!ToSet(queue[q]) /\ Delivery!IsInjective(queue[q])
      /\ Delivery!Queued[q] = Delivery!ToSet(queue[q]) /\ Delivery!New \in Delivery!Events'
      /\ Len(queue[q]) \in Nat /\ Len(queue[q]) <= MaxQueued /\ MaxQueued \in Nat
  <2>1. /\ queue[q] \in Seq(Delivery!Events) /\ Delivery!Queued[q] = Delivery!ToSet(queue[q]) /\ Delivery!Queued[q] \subseteq Delivery!Events
        /\ Delivery!New \notin Delivery!Events
    BY <1>0, PlacesTyped
  <2>2. queue[q] \in Seq(Delivery!Events')
    BY <1>0, StillTyped
  <2>3. Len(queue[q]) \in Nat
    BY <2>1
  <2> QED
    BY <1>0, <2>1, <2>2, <2>3 DEF Delivery!DeliveryInv, Delivery!DeliveryAssumption
<1>4. /\ long \in Seq(Delivery!Events') /\ Len(long) = Len(queue[q]) + 1
      /\ Delivery!ToSet(long) = Delivery!Queued[q] \cup {Delivery!New} /\ Delivery!IsInjective(long)
  BY <1>3, AppendSet
<1>5. CASE Len(long) > MaxQueued
  <2> HIDE DEF long
  <2>1. long # <<>>
    BY <1>3, <1>4, <1>5
  <2>2. /\ Tail(long) \in Seq(Delivery!Events') /\ Len(Tail(long)) = Len(long) - 1
        /\ long[1] \in Delivery!ToSet(long) /\ Delivery!ToSet(Tail(long)) = Delivery!ToSet(long) \ {long[1]}
        /\ Delivery!IsInjective(Tail(long))
    BY <1>4, <2>1, TailSet
  <2>3. D = {long[1]} /\ new = Tail(long)
    BY <1>5
  <2>4. Len(new) <= MaxQueued
    BY SMTT(60), <1>3, <1>4, <2>2, <2>3
  <2> HIDE DEF D, new
  <2> QED
    BY <1>1, <1>2, <1>4, <2>2, <2>3, <2>4
<1>6. CASE ~(Len(long) > MaxQueued)
  <2> HIDE DEF long
  <2>1. D = {} /\ new = long
    BY <1>6
  <2>2. Len(new) <= MaxQueued
    BY <1>3, <1>4, <1>6, <2>1
  <2> HIDE DEF D, new
  <2> QED
    BY <1>1, <1>2, <1>4, <2>1, <2>2
<1> QED
  BY <1>5, <1>6

\* A new event goes into a bounded queue, which may drop its oldest.
LEMMA QueueStep ==
    ASSUME Delivery!DeliveryAssumption, Delivery!DeliveryInv, Len(kind) < MaxEvents,
           NEW q \in {"legacy", "fast"}, NEW k \in Delivery!Kinds \ {"terminal"}, Delivery!BoundedQueue(q, k),
           q \notin waiting, q = "fast" => ~Delivery!Connected,
           UNCHANGED <<socket, registered, waiting, session>>
    PROVE  Delivery!DeliveryInv'
<1>0. Delivery!DeliveryTypeOK /\ q \in Delivery!Queues
  BY DEF Delivery!DeliveryInv, Delivery!Queues
<1>1. /\ kind' \in Seq(Delivery!Kinds) /\ Len(kind') <= MaxEvents /\ Delivery!New \notin Delivery!Events /\ kind'[Delivery!New] = k
      /\ Delivery!Events' = Delivery!Events \cup {Delivery!New} /\ Delivery!Events' = 1..Delivery!New /\ \A e \in Delivery!Events : kind'[e] = kind[e]
  BY <1>0, PlacesTyped, Produced DEF Delivery!BoundedQueue
<1>2. PICK D \in SUBSET (Delivery!Queued[q] \cup {Delivery!New}), new \in Seq(Delivery!Events') :
              /\ Delivery!IsInjective(new) /\ Len(new) <= MaxQueued
              /\ Delivery!ToSet(new) = (Delivery!Queued[q] \cup {Delivery!New}) \ D
              /\ queue' = [queue EXCEPT ![q] = new]
              /\ ended' = [e \in 1..Delivery!New |-> IF e \in D THEN "dropped"
                                            ELSE IF e = Delivery!New THEN "no" ELSE ended[e]]
  BY <1>1, BoundedForm
<1>3. ended' \in [Delivery!Events' -> Delivery!Fates]
  BY <1>0, <1>1, <1>2 DEF Delivery!DeliveryTypeOK, Delivery!Fates
<1>4. /\ queue \in [Delivery!Queues -> Seq(Delivery!Events')] /\ socket \in [Sockets -> Delivery!SocketRecords']
  BY <1>0, <1>1, StillTyped
<1>5. /\ queue' \in [Delivery!Queues -> Seq(Delivery!Events')] /\ queue'[q] = new
      /\ \A r \in Delivery!Queues \ {q} : queue'[r] = queue[r]
  BY <1>0, <1>2, <1>4
<1>6. /\ Delivery!Queued'[q] = (Delivery!Queued[q] \cup {Delivery!New}) \ D
      /\ \A r \in Delivery!Queues \ {q} : Delivery!Queued'[r] = Delivery!Queued[r]
  BY <1>0, <1>2, <1>5 DEF Delivery!Queued
<1>7. Delivery!Buffered' = Delivery!Buffered
  BY DEF Delivery!Buffered
<1>8. /\ \A r \in Delivery!Queues : Delivery!Queued[r] \subseteq Delivery!Events
      /\ \A s \in Sockets : Delivery!Buffered[s] \subseteq Delivery!Events
  BY <1>0, PlacesTyped
<1>9. ASSUME NEW e \in Delivery!Events' PROVE Delivery!OneAt(e)'
  <2>1. CASE e \in D
    <3>1. /\ \A r \in Delivery!Queues : e \notin Delivery!Queued'[r]
          /\ \A s \in Sockets : e \notin Delivery!Buffered'[s]
      <4>1. CASE e = Delivery!New
        BY <1>0, <1>1, <1>6, <1>7, <1>8, <2>1, <4>1
      <4>2. CASE e \in Delivery!Events
        <5>1. Delivery!OneAt(e) /\ e \in Delivery!Queued[q]
          BY <1>1, <1>2, <2>1, <4>2 DEF Delivery!DeliveryInv
        <5>2. /\ \A r \in Delivery!Queues \ {q} : e \notin Delivery!Queued[r]
              /\ \A s \in Sockets : e \notin Delivery!Buffered[s]
          BY <1>0, <5>1 DEF Delivery!OneAt
        <5> QED
          BY <1>6, <1>7, <2>1, <5>2
      <4> QED
        BY <1>1, <4>1, <4>2
    <3>2. ended'[e] = "dropped"
      BY <1>1, <1>2, <2>1
    <3> QED
      BY <3>1, <3>2, PlaceEnds
  <2>2. CASE e = Delivery!New /\ e \notin D
    <3>1. /\ \A r \in Delivery!Queues : e \in Delivery!Queued'[r] <=> r = q
          /\ \A s \in Sockets : e \notin Delivery!Buffered'[s]
      BY <1>0, <1>1, <1>6, <1>7, <1>8, <2>2
    <3>2. ended'[e] = "no"
      BY <1>1, <1>2, <2>2
    <3> QED
      BY <1>0, <3>1, <3>2, PlacedInQueue
  <2>3. CASE e \in Delivery!Events /\ e \notin D
    <3>1. /\ \A r \in Delivery!Queues : e \in Delivery!Queued'[r] <=> e \in Delivery!Queued[r]
          /\ \A s \in Sockets : e \in Delivery!Buffered'[s] <=> e \in Delivery!Buffered[s]
      BY <1>1, <1>6, <1>7, <2>3
    <3>2. ended'[e] = ended[e]
      BY <1>1, <1>2, <2>3
    <3>3. Delivery!OneAt(e)
      BY <2>3 DEF Delivery!DeliveryInv
    <3> QED
      BY <3>1, <3>2, <3>3, PlaceStays
  <2> QED
    BY <1>1, <2>1, <2>2, <2>3
<1>10. Delivery!DeliveryTypeOK'
  BY <1>0, <1>1, <1>3, <1>4, <1>5 DEF Delivery!DeliveryTypeOK
<1>11. Delivery!NothingStranded'
  BY <1>5 DEF Delivery!NothingStranded, Delivery!DeliveryInv, Delivery!Connected, Delivery!Queues
<1>12. \A p \in {"legacy", "fast"} : \A e \in Delivery!Queued[p] : e \in Delivery!Events /\ kind[e] # "terminal"
  BY <1>8 DEF Delivery!DeliveryInv, Delivery!Queues
<1>13. \A e \in Delivery!Events' : ended'[e] = "dropped" => kind'[e] # "terminal"
  BY <1>1, <1>2, <1>12 DEF Delivery!DeliveryInv
<1>14. \A p \in {"legacy", "fast"} : \A e \in Delivery!Queued'[p] : kind'[e] # "terminal"
  BY <1>1, <1>6, <1>12 DEF Delivery!Queues
<1>15. \A r \in Delivery!Queues : Delivery!IsInjective(queue'[r])
  BY <1>2, <1>5 DEF Delivery!DeliveryInv
<1>16. /\ \A p \in {"legacy", "fast"} : Len(queue'[p]) <= MaxQueued
       /\ Len(queue'["terminal"]) <= MaxTerminals
  BY <1>2, <1>5 DEF Delivery!DeliveryInv, Delivery!Queues
<1> QED
  BY <1>9, <1>10, <1>11, <1>13, <1>14, <1>15, <1>16 DEF Delivery!DeliveryInv

\* A terminal event goes into its queue, which never drops one.
LEMMA TerminalStep ==
    ASSUME Delivery!DeliveryAssumption, Delivery!DeliveryInv, Len(kind) < MaxEvents,
           queue' = [queue EXCEPT !["terminal"] = Append(@, Delivery!New)], Delivery!Produce("terminal", "no"),
           Len(queue["terminal"]) < MaxTerminals, "fast" \notin waiting, ~Delivery!Connected',
           UNCHANGED <<waiting, session>>,
           socket' \in [Sockets -> Delivery!SocketRecords],
           \A s \in Sockets : /\ socket'[s].buffer = socket[s].buffer
                              /\ socket'[s].state = "new" => socket[s].state = "new",
           registered' \in Sockets \cup {Delivery!NoSocket}
    PROVE  Delivery!DeliveryInv'
<1> DEFINE q == "terminal"
           new == Append(queue[q], Delivery!New)
<1>0. Delivery!DeliveryTypeOK /\ q \in Delivery!Queues /\ q \in Delivery!Kinds
  BY DEF Delivery!DeliveryInv, Delivery!Queues, Delivery!Kinds
<1>1. /\ kind' \in Seq(Delivery!Kinds) /\ Len(kind') <= MaxEvents /\ Delivery!New \notin Delivery!Events
      /\ Delivery!Events' = Delivery!Events \cup {Delivery!New} /\ Delivery!Events' = 1..Delivery!New /\ \A e \in Delivery!Events : kind'[e] = kind[e]
  BY <1>0, PlacesTyped, Produced DEF Delivery!Produce
<1>2. ended' \in [Delivery!Events' -> Delivery!Fates] /\ (\A e \in Delivery!Events : ended'[e] = ended[e]) /\ ended'[Delivery!New] = "no"
  BY <1>0, <1>1, FateProduced DEF Delivery!Produce, Delivery!Fates
<1>3. /\ queue \in [Delivery!Queues -> Seq(Delivery!Events')] /\ socket \in [Sockets -> Delivery!SocketRecords']
      /\ queue[q] \in Seq(Delivery!Events')
  BY <1>0, <1>1, StillTyped
<1>4. /\ \A r \in Delivery!Queues : Delivery!Queued[r] \subseteq Delivery!Events /\ Delivery!Queued[r] = Delivery!ToSet(queue[r])
      /\ \A s \in Sockets : Delivery!Buffered[s] \subseteq Delivery!Events
  BY <1>0, PlacesTyped
<1>5. /\ new \in Seq(Delivery!Events') /\ Len(new) = Len(queue[q]) + 1
      /\ Delivery!ToSet(new) = Delivery!Queued[q] \cup {Delivery!New} /\ Delivery!IsInjective(new)
  <2>1. Delivery!New \in Delivery!Events' /\ Delivery!New \notin Delivery!ToSet(queue[q]) /\ Delivery!IsInjective(queue[q])
    BY <1>0, <1>1, <1>4 DEF Delivery!DeliveryInv
  <2> QED
    BY <1>0, <1>3, <1>4, <2>1, AppendSet
<1>6. /\ queue' \in [Delivery!Queues -> Seq(Delivery!Events')] /\ queue'[q] = new
      /\ \A r \in Delivery!Queues \ {q} : queue'[r] = queue[r]
  BY <1>0, <1>3, <1>5
<1> HIDE DEF new
<1>7. /\ Delivery!Queued'[q] = Delivery!Queued[q] \cup {Delivery!New}
      /\ \A r \in Delivery!Queues \ {q} : Delivery!Queued'[r] = Delivery!Queued[r]
  BY <1>0, <1>5, <1>6 DEF Delivery!Queued
<1>8. Delivery!Buffered' = Delivery!Buffered
  BY DEF Delivery!Buffered
<1>9. socket' \in [Sockets -> Delivery!SocketRecords']
  <2>1. ASSUME NEW s \in Sockets PROVE socket'[s] \in Delivery!SocketRecords'
    <3>1. socket'[s] \in Delivery!SocketRecords /\ socket'[s].buffer \in Seq(Delivery!Events)
      BY DEF Delivery!SocketRecords
    <3>2. socket'[s].buffer \in Seq(Delivery!Events')
      BY <1>1, <3>1, WiderSeq
    <3> QED
      BY <3>1, <3>2 DEF Delivery!SocketRecords
  <2> QED
    BY <2>1
<1>10. ASSUME NEW e \in Delivery!Events' PROVE Delivery!OneAt(e)'
  <2>1. CASE e \in Delivery!Events
    <3>1. /\ \A r \in Delivery!Queues : e \in Delivery!Queued'[r] <=> e \in Delivery!Queued[r]
          /\ \A s \in Sockets : e \in Delivery!Buffered'[s] <=> e \in Delivery!Buffered[s]
      BY <1>1, <1>7, <1>8, <2>1
    <3> QED
      BY <1>2, <2>1, <3>1, PlaceStays DEF Delivery!DeliveryInv
  <2>2. CASE e = Delivery!New
    <3>1. /\ \A r \in Delivery!Queues : e \in Delivery!Queued'[r] <=> r = q
          /\ \A s \in Sockets : e \notin Delivery!Buffered'[s]
      BY <1>0, <1>1, <1>4, <1>7, <1>8, <2>2
    <3> QED
      BY <1>0, <1>2, <2>2, <3>1, PlacedInQueue
  <2> QED
    BY <1>1, <2>1, <2>2
<1>11. Delivery!DeliveryTypeOK'
  BY <1>0, <1>1, <1>2, <1>6, <1>9 DEF Delivery!DeliveryTypeOK
<1>12. Delivery!NothingStranded'
  BY <1>6 DEF Delivery!NothingStranded, Delivery!DeliveryInv, Delivery!Queues
<1>13. \A e \in Delivery!Events' : ended'[e] = "dropped" => kind'[e] # "terminal"
  BY <1>1, <1>2 DEF Delivery!DeliveryInv
<1>14. \A p \in {"legacy", "fast"} : \A e \in Delivery!Queued'[p] : kind'[e] # "terminal"
  <2>1. \A p \in {"legacy", "fast"} : \A e \in Delivery!Queued[p] : e \in Delivery!Events /\ kind[e] # "terminal"
    BY <1>4 DEF Delivery!DeliveryInv, Delivery!Queues
  <2> QED
    BY ZenonT(60), <1>1, <1>7, <2>1 DEF Delivery!Queues
<1>15. \A r \in Delivery!Queues : Delivery!IsInjective(queue'[r])
  BY <1>5, <1>6 DEF Delivery!DeliveryInv
<1>16. \A p \in {"legacy", "fast"} : Len(queue'[p]) <= MaxQueued
  BY <1>6 DEF Delivery!DeliveryInv, Delivery!Queues
<1>17. Len(queue'["terminal"]) <= MaxTerminals
  <2>1. Len(queue[q]) \in Nat
    BY <1>0, <1>3
  <2> QED
    BY <1>5, <1>6, <2>1 DEF Delivery!DeliveryAssumption
<1> QED
  BY <1>10, <1>11, <1>12, <1>13, <1>14, <1>15, <1>16, <1>17 DEF Delivery!DeliveryInv

\* Events that end are taken out of their places, and no others.
LEMMA RemoveStep ==
    ASSUME Delivery!DeliveryInv, NEW X \in SUBSET Delivery!Events, NEW fate \in Delivery!Fates \ {"no", "dropped"}, UNCHANGED kind,
           ended' = [e \in Delivery!Events |-> IF e \in X THEN fate ELSE ended[e]],
           queue' \in [Delivery!Queues -> Seq(Delivery!Events)], socket' \in [Sockets -> Delivery!SocketRecords],
           \A q \in Delivery!Queues : /\ Delivery!IsInjective(queue'[q]) /\ Len(queue'[q]) <= Len(queue[q])
                                      /\ Delivery!Queued'[q] = Delivery!Queued[q] \ X,
           \A s \in Sockets : /\ Delivery!IsInjective(socket'[s].buffer) /\ Delivery!Buffered'[s] = Delivery!Buffered[s] \ X
                              /\ socket'[s].state = "new" => socket'[s].buffer = <<>>,
           registered' \in Sockets \cup {Delivery!NoSocket}, session' \in BOOLEAN,
           waiting' \subseteq {"legacy", "fast"}, Delivery!NothingStranded', Delivery!DeliveryAssumption
    PROVE  Delivery!DeliveryInv'
<1>0. Delivery!DeliveryTypeOK
  BY DEF Delivery!DeliveryInv
<1>1. Delivery!Events' = Delivery!Events /\ Delivery!SocketRecords' = Delivery!SocketRecords
  BY DEF Delivery!Events, Delivery!SocketRecords
<1>2. Delivery!DeliveryTypeOK'
  BY <1>0, <1>1 DEF Delivery!DeliveryTypeOK
<1>3. ASSUME NEW e \in Delivery!Events' PROVE Delivery!OneAt(e)'
  <2>1. CASE e \in X
    BY <1>1, <2>1, PlaceEnds
  <2>2. CASE e \notin X
    <3>1. Delivery!OneAt(e) /\ ended'[e] = ended[e]
      BY <1>1, <2>2 DEF Delivery!DeliveryInv
    <3> QED
      BY <2>2, <3>1, PlaceStays
  <2> QED
    BY <2>1, <2>2
<1>4. \A e \in Delivery!Events' : ended'[e] = "dropped" => kind'[e] # "terminal"
  BY <1>1 DEF Delivery!DeliveryInv
<1>5. \A q \in Delivery!Queues : Len(queue'[q]) \in Nat /\ Len(queue[q]) \in Nat
  BY <1>0 DEF Delivery!DeliveryTypeOK
<1>6. /\ \A q \in {"legacy", "fast"} : \A e \in Delivery!Queued'[q] : kind'[e] # "terminal"
      /\ \A q \in {"legacy", "fast"} : Len(queue'[q]) <= MaxQueued
  BY <1>5 DEF Delivery!DeliveryInv, Delivery!Queues, Delivery!DeliveryAssumption
<1>7. Len(queue'["terminal"]) <= MaxTerminals
  BY <1>5 DEF Delivery!DeliveryInv, Delivery!Queues, Delivery!DeliveryAssumption
<1>8. \A q \in Delivery!Queues : Delivery!IsInjective(queue'[q])
  OBVIOUS
<1>9. \A s \in Sockets : /\ Delivery!IsInjective(socket'[s].buffer)
                         /\ socket'[s].state = "new" => socket'[s].buffer = <<>>
  OBVIOUS
<1> QED
  BY <1>2, <1>3, <1>4, <1>6, <1>7, <1>8, <1>9 DEF Delivery!DeliveryInv

LEMMA NoneInjective ==
    /\ Delivery!IsInjective(<<>>) /\ Delivery!ToSet(<<>>) = {} /\ Len(<<>>) = 0 /\ \A S : <<>> \in Seq(S)
BY DEF Delivery!IsInjective, Delivery!ToSet

\* A long poll takes what is queued for it.
LEMMA PollStep ==
    ASSUME Delivery!DeliveryAssumption, Delivery!DeliveryInv, NEW w \in {"legacy", "fast"}, Delivery!Poll(w)
    PROVE  Delivery!DeliveryInv'
<1>0. Delivery!DeliveryTypeOK
  BY DEF Delivery!DeliveryInv
<1>1. /\ \A q \in Delivery!Queues : /\ queue[q] \in Seq(Delivery!Events) /\ Delivery!Queued[q] = Delivery!ToSet(queue[q])
                                    /\ Delivery!Queued[q] \subseteq Delivery!Events
      /\ \A s \in Sockets : Delivery!Buffered[s] \subseteq Delivery!Events
      /\ \A q \in Delivery!Queues : Delivery!Queued[q] = {} <=> queue[q] = <<>>
  BY <1>0, PlacesTyped
<1>2. /\ Delivery!Taken(w) \in Seq(Delivery!Events)
      /\ Delivery!ToSet(Delivery!Taken(w)) = IF w = "fast" THEN Delivery!Queued["fast"] \cup Delivery!Queued["terminal"]
                           ELSE Delivery!Queued["legacy"]
  <2>1. CASE w = "fast"
    <3>1. Delivery!Taken(w) = queue["fast"] \o queue["terminal"]
      BY <2>1 DEF Delivery!Taken
    <3>2. /\ queue["fast"] \in Seq(Delivery!Events) /\ queue["terminal"] \in Seq(Delivery!Events)
          /\ Delivery!Queued["fast"] = Delivery!ToSet(queue["fast"]) /\ Delivery!Queued["terminal"] = Delivery!ToSet(queue["terminal"])
      BY <1>1 DEF Delivery!Queues
    <3>3. /\ queue["fast"] \o queue["terminal"] \in Seq(Delivery!Events)
          /\ Delivery!ToSet(queue["fast"] \o queue["terminal"])
               = Delivery!ToSet(queue["fast"]) \cup Delivery!ToSet(queue["terminal"])
      BY <3>2, ConcatSet
    <3> QED
      BY <2>1, <3>1, <3>2, <3>3
  <2>2. CASE w = "legacy"
    BY <1>1, <2>2 DEF Delivery!Taken, Delivery!Queues
  <2> QED
    BY <2>1, <2>2
<1>3. Delivery!ToSet(Delivery!Taken(w)) = {} <=> Delivery!Taken(w) = <<>>
  BY <1>2, SetOf
<1>4. CASE Delivery!Taken(w) = <<>>
  <2>1. /\ w = "fast" => queue["fast"] = <<>> /\ queue["terminal"] = <<>>
        /\ w = "legacy" => queue["legacy"] = <<>>
    BY <1>1, <1>2, <1>3, <1>4 DEF Delivery!Queues
  <2>2. /\ waiting' = waiting \cup {w}
        /\ UNCHANGED <<kind, queue, ended, socket, registered, session>>
    BY <1>4 DEF Delivery!Poll
  <2>3. Delivery!NothingStranded'
    BY <2>1, <2>2 DEF Delivery!NothingStranded, Delivery!DeliveryInv, Delivery!Connected
  <2> QED
    BY <1>0, <2>2, <2>3, QuietStep DEF Delivery!DeliveryTypeOK
<1>5. CASE Delivery!Taken(w) # <<>>
  <2> DEFINE X == Delivery!ToSet(Delivery!Taken(w))
  <2>1. PICK fate \in {"received", "lost"} : Delivery!End(Delivery!Taken(w), fate)
    BY <1>5 DEF Delivery!Poll
  <2>2. /\ queue' = [q \in Delivery!Queues |-> IF w = "fast" <=> q # "legacy" THEN <<>> ELSE queue[q]]
        /\ UNCHANGED <<waiting, kind, socket, registered, session>>
    BY <1>5 DEF Delivery!Poll
  <2>3. X \in SUBSET Delivery!Events /\ ended' = [e \in Delivery!Events |-> IF e \in X THEN fate ELSE ended[e]]
    BY <1>1, <1>2, <2>1 DEF Delivery!End, Delivery!Queues
  <2>4. queue' \in [Delivery!Queues -> Seq(Delivery!Events)] /\ socket' \in [Sockets -> Delivery!SocketRecords]
    BY <1>0, <2>2 DEF Delivery!DeliveryTypeOK
  <2> HIDE DEF X
  <2>5. ASSUME NEW q \in Delivery!Queues
        PROVE  /\ Delivery!IsInjective(queue'[q]) /\ Len(queue'[q]) <= Len(queue[q])
               /\ Delivery!Queued'[q] = Delivery!Queued[q] \ X
    <3>1. CASE w = "fast" <=> q # "legacy"
      <4>1. queue'[q] = <<>> /\ Delivery!Queued'[q] = {}
        BY <2>2, <3>1, NoneInjective DEF Delivery!Queued
      <4>2. Delivery!Queued[q] \subseteq X
        BY <1>2, <3>1 DEF X, Delivery!Queues
      <4>3. Len(queue[q]) >= 0
        BY <1>1
      <4> QED
        BY <4>1, <4>2, <4>3, NoneInjective
    <3>2. CASE ~(w = "fast" <=> q # "legacy")
      <4>1. queue'[q] = queue[q] /\ Delivery!Queued'[q] = Delivery!Queued[q]
        BY <2>2, <3>2 DEF Delivery!Queued
      <4>2. ASSUME NEW e \in Delivery!Queued[q] PROVE e \notin X
        <5>1. Delivery!OneAt(e)
          BY <1>1, <4>2 DEF Delivery!DeliveryInv
        <5> QED
          BY <1>2, <3>2, <4>2, <5>1 DEF X, Delivery!OneAt, Delivery!Queues
      <4>3. Delivery!IsInjective(queue[q]) /\ Len(queue[q]) <= Len(queue[q])
        BY <1>1 DEF Delivery!DeliveryInv
      <4> QED
        BY <4>1, <4>2, <4>3
    <3> QED
      BY <3>1, <3>2
  <2>6. ASSUME NEW s \in Sockets
        PROVE  /\ Delivery!IsInjective(socket'[s].buffer) /\ Delivery!Buffered'[s] = Delivery!Buffered[s] \ X
               /\ socket'[s].state = "new" => socket'[s].buffer = <<>>
    <3>1. Delivery!Buffered'[s] = Delivery!Buffered[s]
      BY <2>2 DEF Delivery!Buffered
    <3>2. ASSUME NEW e \in Delivery!Buffered[s] PROVE e \notin X
      <4>1. Delivery!OneAt(e)
        BY <1>1, <3>2 DEF Delivery!DeliveryInv
      <4> QED
        BY <1>2, <3>2, <4>1 DEF X, Delivery!OneAt, Delivery!Queues
    <3> QED
      BY <2>2, <3>1, <3>2 DEF Delivery!DeliveryInv
  <2>7. Delivery!NothingStranded'
    BY <2>2 DEF Delivery!NothingStranded, Delivery!DeliveryInv, Delivery!Connected, Delivery!Queues
  <2>8. fate \in Delivery!Fates \ {"no", "dropped"}
    BY <2>1 DEF Delivery!Fates
  <2>9. registered' \in Sockets \cup {Delivery!NoSocket} /\ session' \in BOOLEAN /\ waiting' \subseteq {"legacy", "fast"}
    BY <1>0, <2>2 DEF Delivery!DeliveryTypeOK
  <2> QED
    BY <2>2, <2>3, <2>4, <2>5, <2>6, <2>7, <2>8, <2>9, RemoveStep
<1> QED
  BY <1>4, <1>5

\* The node gets the oldest event of a buffer.
LEMMA ReceiveStep ==
    ASSUME Delivery!DeliveryAssumption, Delivery!DeliveryInv, NEW s \in Sockets, Delivery!Receive(s)
    PROVE  Delivery!DeliveryInv'
<1> DEFINE b == socket[s].buffer
           X == {b[1]}
<1>0. Delivery!DeliveryTypeOK
  BY DEF Delivery!DeliveryInv
<1>1. /\ \A q \in Delivery!Queues : Delivery!Queued[q] \subseteq Delivery!Events
      /\ \A t \in Sockets : Delivery!Buffered[t] \subseteq Delivery!Events
      /\ b \in Seq(Delivery!Events) /\ Delivery!Buffered[s] = Delivery!ToSet(b)
  BY <1>0, PlacesTyped
<1>2. /\ b # <<>> /\ Delivery!End(<<Head(b)>>, "received") /\ socket[s].state # "new"
      /\ socket' = [socket EXCEPT ![s].buffer = Tail(b)]
      /\ UNCHANGED <<kind, queue, registered, waiting, session>>
  BY <1>0 DEF Delivery!Receive, Delivery!DeliveryTypeOK
<1>3. /\ Tail(b) \in Seq(Delivery!Events) /\ b[1] = Head(b) /\ b[1] \in Delivery!ToSet(b) /\ b[1] \in Delivery!Events
      /\ Delivery!ToSet(Tail(b)) = Delivery!ToSet(b) \ {b[1]} /\ Delivery!IsInjective(Tail(b))
  <2>1. Delivery!IsInjective(b)
    BY DEF Delivery!DeliveryInv
  <2> QED
    BY <1>1, <1>2, <2>1, TailSet
<1> HIDE DEF b
<1>4. ended' = [e \in Delivery!Events |-> IF e \in X THEN "received" ELSE ended[e]]
  <2>1. Delivery!ToSet(<<Head(b)>>) = X
    BY <1>3 DEF Delivery!ToSet
  <2> QED
    BY <1>2, <2>1 DEF Delivery!End
<1>5. /\ socket' \in [Sockets -> Delivery!SocketRecords] /\ socket'[s].buffer = Tail(b)
      /\ socket'[s].state = socket[s].state
      /\ \A t \in Sockets \ {s} : socket'[t] = socket[t]
  BY ZenonT(60), <1>0, <1>2, <1>3 DEF Delivery!DeliveryTypeOK, Delivery!SocketRecords
<1>6. Delivery!OneAt(b[1]) /\ b[1] \in Delivery!Buffered[s]
  BY <1>1, <1>3 DEF Delivery!DeliveryInv
<1>7. ASSUME NEW q \in Delivery!Queues
      PROVE  /\ Delivery!IsInjective(queue'[q]) /\ Len(queue'[q]) <= Len(queue[q])
             /\ Delivery!Queued'[q] = Delivery!Queued[q] \ X
  <2>1. Delivery!Queued'[q] = Delivery!Queued[q] /\ b[1] \notin Delivery!Queued[q]
    BY <1>2, <1>6 DEF Delivery!Queued, Delivery!OneAt
  <2>2. Len(queue[q]) \in Nat
    BY <1>0 DEF Delivery!DeliveryTypeOK
  <2> QED
    BY <1>2, <2>1, <2>2 DEF Delivery!DeliveryInv
<1>8. ASSUME NEW t \in Sockets
      PROVE  /\ Delivery!IsInjective(socket'[t].buffer) /\ Delivery!Buffered'[t] = Delivery!Buffered[t] \ X
             /\ socket'[t].state = "new" => socket'[t].buffer = <<>>
  <2>1. CASE t = s
    BY <1>1, <1>2, <1>3, <1>5, <2>1 DEF Delivery!Buffered
  <2>2. CASE t # s
    <3>1. Delivery!Buffered'[t] = Delivery!Buffered[t] /\ b[1] \notin Delivery!Buffered[t]
      BY <1>5, <1>6, <2>2 DEF Delivery!Buffered, Delivery!OneAt
    <3> QED
      BY <1>5, <2>2, <3>1 DEF Delivery!DeliveryInv
  <2> QED
    BY <2>1, <2>2
<1>9. Delivery!NothingStranded'
  <2>1. Delivery!Connected' => Delivery!Connected
    BY <1>2, <1>5 DEF Delivery!Connected, Delivery!DeliveryInv, Delivery!DeliveryTypeOK
  <2> QED
    BY <1>2, <2>1 DEF Delivery!NothingStranded, Delivery!DeliveryInv
<1>10. /\ queue' \in [Delivery!Queues -> Seq(Delivery!Events)] /\ "received" \in Delivery!Fates \ {"no", "dropped"}
       /\ registered' \in Sockets \cup {Delivery!NoSocket} /\ session' \in BOOLEAN
       /\ waiting' \subseteq {"legacy", "fast"}
  BY <1>0, <1>2 DEF Delivery!DeliveryTypeOK, Delivery!Fates
<1>11. X \in SUBSET Delivery!Events
  BY <1>3
<1> HIDE DEF X
<1> QED
  BY <1>2, <1>4, <1>5, <1>7, <1>8, <1>9, <1>10, <1>11, RemoveStep

\* A socket is gone, and what was under way on it is lost.
LEMMA LostStep ==
    ASSUME Delivery!DeliveryAssumption, Delivery!DeliveryInv, NEW s \in Sockets,
           socket' = Delivery!Gone(s), Delivery!LoseBuffer(s),
           registered' = Delivery!NoSocket \/ (registered' = registered /\ registered # s),
           UNCHANGED <<kind, queue, waiting, session>>
    PROVE  Delivery!DeliveryInv'
<1> DEFINE X == Delivery!Buffered[s]
<1>0. Delivery!DeliveryTypeOK
  BY DEF Delivery!DeliveryInv
<1>1. /\ \A q \in Delivery!Queues : Delivery!Queued[q] \subseteq Delivery!Events
      /\ \A t \in Sockets : Delivery!Buffered[t] \subseteq Delivery!Events
      /\ X \in SUBSET Delivery!Events /\ X = Delivery!ToSet(socket[s].buffer)
  BY <1>0, PlacesTyped
<1>2. ended' = [e \in Delivery!Events |-> IF e \in X THEN "lost" ELSE ended[e]]
  BY <1>1 DEF Delivery!LoseBuffer, Delivery!End
<1>3. /\ socket' \in [Sockets -> Delivery!SocketRecords] /\ socket'[s].buffer = <<>>
      /\ socket'[s].state = "closed"
      /\ \A t \in Sockets \ {s} : socket'[t] = socket[t]
  BY <1>0, NoneInjective DEF Delivery!DeliveryTypeOK, Delivery!SocketRecords, Delivery!Gone
<1>4. ASSUME NEW q \in Delivery!Queues
      PROVE  /\ Delivery!IsInjective(queue'[q]) /\ Len(queue'[q]) <= Len(queue[q])
             /\ Delivery!Queued'[q] = Delivery!Queued[q] \ X
  <2>1. Delivery!Queued'[q] = Delivery!Queued[q]
    BY DEF Delivery!Queued
  <2>2. ASSUME NEW e \in Delivery!Queued[q] PROVE e \notin X
    <3>1. Delivery!OneAt(e)
      BY <1>1, <2>2 DEF Delivery!DeliveryInv
    <3> QED
      BY <2>2, <3>1 DEF Delivery!OneAt
  <2>3. Len(queue[q]) \in Nat
    BY <1>0 DEF Delivery!DeliveryTypeOK
  <2> QED
    BY <2>1, <2>2, <2>3 DEF Delivery!DeliveryInv
<1>5. ASSUME NEW t \in Sockets
      PROVE  /\ Delivery!IsInjective(socket'[t].buffer) /\ Delivery!Buffered'[t] = Delivery!Buffered[t] \ X
             /\ socket'[t].state = "new" => socket'[t].buffer = <<>>
  <2>1. CASE t = s
    BY <1>3, <2>1, NoneInjective DEF Delivery!Buffered
  <2>2. CASE t # s
    <3>1. Delivery!Buffered'[t] = Delivery!Buffered[t]
      BY <1>3, <2>2 DEF Delivery!Buffered
    <3>2. ASSUME NEW e \in Delivery!Buffered[t] PROVE e \notin X
      <4>1. Delivery!OneAt(e)
        BY <1>1, <3>2 DEF Delivery!DeliveryInv
      <4> QED
        BY <2>2, <3>2, <4>1 DEF Delivery!OneAt
    <3> QED
      BY <1>3, <2>2, <3>1, <3>2 DEF Delivery!DeliveryInv
  <2> QED
    BY <2>1, <2>2
<1>6. Delivery!NothingStranded'
  <2>1. Delivery!Connected' => Delivery!Connected
    BY <1>0, <1>3 DEF Delivery!Connected, Delivery!DeliveryTypeOK
  <2> QED
    BY <2>1 DEF Delivery!NothingStranded, Delivery!DeliveryInv
<1>7. /\ queue' \in [Delivery!Queues -> Seq(Delivery!Events)] /\ "lost" \in Delivery!Fates \ {"no", "dropped"}
      /\ registered' \in Sockets \cup {Delivery!NoSocket} /\ session' \in BOOLEAN
      /\ waiting' \subseteq {"legacy", "fast"}
  BY <1>0 DEF Delivery!DeliveryTypeOK, Delivery!Fates
<1>8. X \in SUBSET Delivery!Events /\ socket' \in [Sockets -> Delivery!SocketRecords] /\ UNCHANGED kind
  BY <1>1, <1>3
<1> HIDE DEF X
<1> QED
  BY <1>2, <1>4, <1>5, <1>6, <1>7, <1>8, RemoveStep

LEMMA EvictStep ==
    ASSUME Delivery!DeliveryAssumption, Delivery!DeliveryInv, Delivery!Evict
    PROVE  Delivery!DeliveryInv'
<1> DEFINE X == Delivery!Queued["legacy"] \cup Delivery!Queued["fast"] \cup Delivery!Queued["terminal"]
           all == queue["legacy"] \o queue["fast"] \o queue["terminal"]
<1>0. Delivery!DeliveryTypeOK
  BY DEF Delivery!DeliveryInv
<1>1. /\ \A q \in Delivery!Queues : /\ queue[q] \in Seq(Delivery!Events) /\ Delivery!Queued[q] = Delivery!ToSet(queue[q])
                                    /\ Delivery!Queued[q] \subseteq Delivery!Events
      /\ \A t \in Sockets : Delivery!Buffered[t] \subseteq Delivery!Events
  BY <1>0, PlacesTyped
<1>2. Delivery!ToSet(all) = X /\ X \in SUBSET Delivery!Events
  <2>1. /\ queue["legacy"] \o queue["fast"] \in Seq(Delivery!Events)
        /\ Delivery!ToSet(queue["legacy"] \o queue["fast"]) = Delivery!Queued["legacy"] \cup Delivery!Queued["fast"]
    BY <1>1, ConcatSet DEF Delivery!Queues
  <2>2. Delivery!ToSet(all) = Delivery!Queued["legacy"] \cup Delivery!Queued["fast"] \cup Delivery!Queued["terminal"]
    <3>1. queue["terminal"] \in Seq(Delivery!Events) /\ Delivery!Queued["terminal"] = Delivery!ToSet(queue["terminal"])
      BY <1>1 DEF Delivery!Queues
    <3>3. PICK both \in Seq(Delivery!Events) : both = queue["legacy"] \o queue["fast"]
      BY <2>1
    <3>4. Delivery!ToSet(both \o queue["terminal"]) = Delivery!ToSet(both) \cup Delivery!ToSet(queue["terminal"])
      BY <3>1, ConcatSet
    <3>2. Delivery!ToSet(all) = Delivery!ToSet(queue["legacy"] \o queue["fast"]) \cup Delivery!ToSet(queue["terminal"])
      BY <3>3, <3>4, Zenon
    <3> QED
      BY <2>1, <3>1, <3>2
  <2> QED
    BY <1>1, <2>2 DEF Delivery!Queues
<1>3. /\ queue' = [q \in Delivery!Queues |-> <<>>] /\ Delivery!End(all, "evicted") /\ session' = FALSE
      /\ UNCHANGED <<kind, socket, registered, waiting>>
  BY DEF Delivery!Evict
<1>4. ended' = [e \in Delivery!Events |-> IF e \in X THEN "evicted" ELSE ended[e]]
  BY <1>2, <1>3 DEF Delivery!End
<1>5. ASSUME NEW q \in Delivery!Queues
      PROVE  /\ Delivery!IsInjective(queue'[q]) /\ Len(queue'[q]) <= Len(queue[q])
             /\ Delivery!Queued'[q] = Delivery!Queued[q] \ X
  <2>1. queue'[q] = <<>> /\ Delivery!Queued'[q] = {}
    BY <1>3, NoneInjective DEF Delivery!Queued
  <2>2. Delivery!Queued[q] \subseteq X /\ Len(queue[q]) >= 0
    BY <1>1 DEF Delivery!Queues
  <2> QED
    BY <2>1, <2>2, NoneInjective
<1>6. ASSUME NEW t \in Sockets
      PROVE  /\ Delivery!IsInjective(socket'[t].buffer) /\ Delivery!Buffered'[t] = Delivery!Buffered[t] \ X
             /\ socket'[t].state = "new" => socket'[t].buffer = <<>>
  <2>1. Delivery!Buffered'[t] = Delivery!Buffered[t]
    BY <1>3 DEF Delivery!Buffered
  <2>2. ASSUME NEW e \in Delivery!Buffered[t] PROVE e \notin X
    <3>1. Delivery!OneAt(e)
      BY <1>1, <2>2 DEF Delivery!DeliveryInv
    <3> QED
      BY <2>2, <3>1 DEF Delivery!OneAt, Delivery!Queues
  <2> QED
    BY <1>3, <2>1, <2>2 DEF Delivery!DeliveryInv
<1>7. Delivery!NothingStranded'
  BY <1>3 DEF Delivery!NothingStranded, Delivery!Queues
<1>8. /\ queue' \in [Delivery!Queues -> Seq(Delivery!Events)] /\ "evicted" \in Delivery!Fates \ {"no", "dropped"}
      /\ socket' \in [Sockets -> Delivery!SocketRecords]
      /\ registered' \in Sockets \cup {Delivery!NoSocket} /\ session' \in BOOLEAN
      /\ waiting' \subseteq {"legacy", "fast"}
  BY <1>0, <1>3, NoneInjective DEF Delivery!DeliveryTypeOK, Delivery!Fates
<1> HIDE DEF X
<1> QED
  BY ZenonT(60), <1>2, <1>3, <1>4, <1>5, <1>6, <1>7, <1>8, RemoveStep

LEMMA FirstOf ==
    ASSUME NEW S, NEW all \in Seq(S), NEW n \in 0..Len(all), Delivery!IsInjective(all)
    PROVE  /\ SubSeq(all, 1, n) \in Seq(S) /\ Delivery!IsInjective(SubSeq(all, 1, n))
           /\ Delivery!ToSet(SubSeq(all, 1, n)) \subseteq Delivery!ToSet(all)
<1> DEFINE first == SubSeq(all, 1, n)
<1>1. Len(all) \in Nat /\ n \in Nat /\ n <= Len(all)
  OBVIOUS
<1>2. first \in Seq(S) /\ Len(first) = n /\ \A i \in 1..n : first[i] = all[i]
  <2>1. \A i \in 1..n : all[i] \in S
    BY <1>1
  <2>2. /\ first \in Seq(S) /\ Len(first) = IF 1 <= n THEN n - 1 + 1 ELSE 0
        /\ \A i \in 1..(n - 1 + 1) : first[i] = all[1 + i - 1]
    BY <1>1, <2>1, SubSeqProperties
  <2> QED
    BY <1>1, <2>2
<1> HIDE DEF first
<1>3. \A i \in 1..n : i \in 1..Len(all)
  BY <1>1
<1>4. Delivery!IsInjective(first)
  BY <1>2, <1>3 DEF Delivery!IsInjective
<1>5. ASSUME NEW x \in Delivery!ToSet(first) PROVE x \in Delivery!ToSet(all)
  <2>1. PICK i \in 1..n : x = first[i]
    BY <1>2, <1>5, SetOf
  <2> QED
    BY <1>2, <1>3, <2>1, SetOf
<1> QED
  BY <1>2, <1>4, <1>5 DEF first

\* The queues one after the other.
LEMMA AllQueued ==
    ASSUME NEW S, NEW a \in Seq(S), NEW b \in Seq(S), NEW c \in Seq(S),
           Delivery!IsInjective(a), Delivery!IsInjective(b), Delivery!IsInjective(c), Delivery!ToSet(a) \cap Delivery!ToSet(b) = {},
           Delivery!ToSet(a) \cap Delivery!ToSet(c) = {}, Delivery!ToSet(b) \cap Delivery!ToSet(c) = {}
    PROVE  /\ a \o b \o c \in Seq(S) /\ Delivery!IsInjective(a \o b \o c)
           /\ Len(a \o b \o c) = Len(a) + Len(b) + Len(c)
           /\ Delivery!ToSet(a \o b \o c) = Delivery!ToSet(a) \cup Delivery!ToSet(b) \cup Delivery!ToSet(c)
           /\ LiesIn(a, a \o b \o c, 0) /\ LiesIn(b, a \o b \o c, Len(a))
           /\ LiesIn(c, a \o b \o c, Len(a) + Len(b))
<1>0. Len(a) \in Nat /\ Len(b) \in Nat /\ Len(c) \in Nat
  OBVIOUS
<1>1. /\ a \o b \in Seq(S) /\ Len(a \o b) = Len(a) + Len(b) /\ Delivery!ToSet(a \o b) = Delivery!ToSet(a) \cup Delivery!ToSet(b)
      /\ Delivery!IsInjective(a \o b)
  BY ConcatSet, ConcatInjective
<1>2. /\ \A i \in 1..Len(a) : (a \o b)[i] = a[i]
      /\ \A i \in 1..Len(b) : (a \o b)[Len(a) + i] = b[i]
  OBVIOUS
<1>3. PICK ab \in Seq(S) : ab = a \o b
  BY <1>1
<1>4. Delivery!ToSet(ab) \cap Delivery!ToSet(c) = {} /\ Delivery!IsInjective(ab)
  BY <1>1, <1>3
<1>5. /\ ab \o c \in Seq(S) /\ Len(ab \o c) = Len(ab) + Len(c) /\ Delivery!ToSet(ab \o c) = Delivery!ToSet(ab) \cup Delivery!ToSet(c)
      /\ Delivery!IsInjective(ab \o c)
  BY <1>4, ConcatSet, ConcatInjective
<1>6. /\ \A i \in 1..Len(ab) : (ab \o c)[i] = ab[i]
      /\ \A i \in 1..Len(c) : (ab \o c)[Len(ab) + i] = c[i]
  OBVIOUS
<1>7. Len(ab) = Len(a) + Len(b)
  BY <1>1, <1>3
<1>8. \A i \in 1..Len(a) : (ab \o c)[0 + i] = a[i]
  <2>1. ASSUME NEW i \in 1..Len(a) PROVE (ab \o c)[0 + i] = a[i]
    <3>1. 0 + i = i /\ i \in 1..Len(ab)
      BY <1>0, <1>7
    <3> QED
      BY <1>2, <1>3, <1>6, <3>1
  <2> QED
    BY <2>1
<1>9. \A i \in 1..Len(b) : (ab \o c)[Len(a) + i] = b[i]
  <2>1. ASSUME NEW i \in 1..Len(b) PROVE (ab \o c)[Len(a) + i] = b[i]
    <3>1. Len(a) + i \in 1..Len(ab)
      BY <1>0, <1>7
    <3> QED
      BY <1>2, <1>3, <1>6, <3>1
  <2> QED
    BY <2>1
<1>10. \A i \in 1..Len(c) : (ab \o c)[Len(a) + Len(b) + i] = c[i]
  BY <1>6, <1>7
<1>11. Delivery!ToSet(ab \o c) = Delivery!ToSet(a) \cup Delivery!ToSet(b) \cup Delivery!ToSet(c)
  BY <1>1, <1>3, <1>5
<1>12. Len(ab \o c) = Len(a) + Len(b) + Len(c)
  BY <1>5, <1>7
<1>13. LiesIn(a, ab \o c, 0) /\ LiesIn(b, ab \o c, Len(a)) /\ LiesIn(c, ab \o c, Len(a) + Len(b))
  BY SMTT(60), <1>0, <1>8, <1>9, <1>10, <1>12 DEF LiesIn
<1> QED
  BY <1>3, <1>5, <1>11, <1>12, <1>13, Zenon

\* The connection handler: what is sent goes from the queues to the buffer.
LEMMA ConnectStep ==
    ASSUME Delivery!DeliveryAssumption, Delivery!DeliveryInv, NEW s \in Sockets, Delivery!Connect(s)
    PROVE  Delivery!DeliveryInv'
<1> DEFINE a == queue["legacy"]
           b == queue["fast"]
           c == queue["terminal"]
           all == a \o b \o c
           n == IF Len(all) < MaxBuffered THEN Len(all) ELSE MaxBuffered
           first == SubSeq(all, 1, n)
           la == LeftOf(a, n, 0)
           lb == LeftOf(b, n, Len(a))
           lc == LeftOf(c, n, Len(a) + Len(b))
           F == Delivery!ToSet(first)
           replaced == [p \in Sockets |-> IF p = registered /\ socket[p].state = "open"
                                          THEN [socket[p] EXCEPT !.state = "closing"]
                                          ELSE socket[p]]
<1>0. Delivery!DeliveryTypeOK
  BY DEF Delivery!DeliveryInv
<1>1. /\ socket[s].state = "new"
      /\ queue' = [legacy |-> la, fast |-> lb, terminal |-> lc]
      /\ socket' = [replaced EXCEPT ![s] = [state |-> IF n < Len(all) THEN "closing" ELSE "open",
                                            buffer |-> first, alive |-> TRUE]]
      /\ registered' = IF n < Len(all) THEN Delivery!NoSocket ELSE s
      /\ UNCHANGED <<kind, waiting, session, ended>>
  BY Zenon DEF Delivery!Connect, LeftOf
<1>2. /\ \A q \in Delivery!Queues : /\ queue[q] \in Seq(Delivery!Events) /\ Delivery!Queued[q] = Delivery!ToSet(queue[q])
                                    /\ Delivery!Queued[q] \subseteq Delivery!Events
      /\ \A t \in Sockets : Delivery!Buffered[t] \subseteq Delivery!Events
      /\ \A q \in Delivery!Queues : Delivery!Queued[q] = {} <=> queue[q] = <<>>
      /\ \A t \in Sockets : Delivery!Buffered[t] = {} <=> socket[t].buffer = <<>>
  BY <1>0, PlacesTyped
<1>3. /\ a \in Seq(Delivery!Events) /\ b \in Seq(Delivery!Events) /\ c \in Seq(Delivery!Events)
      /\ Delivery!Queued["legacy"] = Delivery!ToSet(a) /\ Delivery!Queued["fast"] = Delivery!ToSet(b) /\ Delivery!Queued["terminal"] = Delivery!ToSet(c)
      /\ Delivery!IsInjective(a) /\ Delivery!IsInjective(b) /\ Delivery!IsInjective(c)
      /\ Len(a) \in Nat /\ Len(b) \in Nat /\ Len(c) \in Nat
  BY <1>2 DEF Delivery!DeliveryInv, Delivery!Queues
<1>4. \A q, r \in Delivery!Queues : q # r => Delivery!Queued[q] \cap Delivery!Queued[r] = {}
  <2>1. ASSUME NEW q \in Delivery!Queues, NEW r \in Delivery!Queues, q # r, NEW e \in Delivery!Queued[q], e \in Delivery!Queued[r]
        PROVE  FALSE
    <3>1. Delivery!OneAt(e)
      BY <1>2, <2>1 DEF Delivery!DeliveryInv
    <3> QED
      BY <2>1, <3>1 DEF Delivery!OneAt
  <2> QED
    BY <2>1
<1>5. Delivery!ToSet(a) \cap Delivery!ToSet(b) = {} /\ Delivery!ToSet(a) \cap Delivery!ToSet(c) = {} /\ Delivery!ToSet(b) \cap Delivery!ToSet(c) = {}
  BY <1>3, <1>4 DEF Delivery!Queues
<1> HIDE DEF a, b, c
<1>6. /\ all \in Seq(Delivery!Events) /\ Delivery!IsInjective(all) /\ Len(all) = Len(a) + Len(b) + Len(c)
      /\ Delivery!ToSet(all) = Delivery!ToSet(a) \cup Delivery!ToSet(b) \cup Delivery!ToSet(c)
      /\ LiesIn(a, all, 0) /\ LiesIn(b, all, Len(a)) /\ LiesIn(c, all, Len(a) + Len(b))
  BY SMTT(60), <1>3, <1>5, AllQueued
<1> HIDE DEF all
<1>7. n \in 0..Len(all)
  BY <1>3, <1>6 DEF Delivery!DeliveryAssumption
<1>8. first \in Seq(Delivery!Events) /\ Delivery!IsInjective(first) /\ F \subseteq Delivery!ToSet(a) \cup Delivery!ToSet(b) \cup Delivery!ToSet(c)
  BY <1>6, <1>7, FirstOf
<1> HIDE DEF n
<1>9. ASSUME NEW t \in Seq(Delivery!Events), NEW k \in Nat, LiesIn(t, all, k)
      PROVE  /\ LeftOf(t, n, k) \in Seq(Delivery!Events) /\ Len(LeftOf(t, n, k)) <= Len(t)
             /\ Delivery!IsInjective(LeftOf(t, n, k)) /\ Delivery!ToSet(LeftOf(t, n, k)) = Delivery!ToSet(t) \ F
             /\ n = Len(all) => LeftOf(t, n, k) = <<>>
  BY <1>6, <1>7, <1>9, RestOf
<1>10. /\ la \in Seq(Delivery!Events) /\ Len(la) <= Len(a) /\ Delivery!IsInjective(la) /\ Delivery!ToSet(la) = Delivery!ToSet(a) \ F
       /\ n = Len(all) => la = <<>>
  BY <1>3, <1>6, <1>9
<1>11. /\ lb \in Seq(Delivery!Events) /\ Len(lb) <= Len(b) /\ Delivery!IsInjective(lb) /\ Delivery!ToSet(lb) = Delivery!ToSet(b) \ F
       /\ n = Len(all) => lb = <<>>
  BY <1>3, <1>6, <1>9
<1>12. /\ lc \in Seq(Delivery!Events) /\ Len(lc) <= Len(c) /\ Delivery!IsInjective(lc) /\ Delivery!ToSet(lc) = Delivery!ToSet(c) \ F
       /\ n = Len(all) => lc = <<>>
  <2>1. Len(a) + Len(b) \in Nat
    BY <1>3
  <2> QED
    BY <1>3, <1>6, <1>9, <2>1
<1> HIDE DEF F
<1> HIDE DEF la, lb, lc, first
<1>13. /\ queue' \in [Delivery!Queues -> Seq(Delivery!Events)]
       /\ queue'["legacy"] = la /\ queue'["fast"] = lb /\ queue'["terminal"] = lc
  BY <1>1, <1>10, <1>11, <1>12 DEF Delivery!Queues
<1>14. \A q \in Delivery!Queues : Delivery!Queued'[q] = Delivery!Queued[q] \ F /\ Delivery!IsInjective(queue'[q])
  BY <1>3, <1>10, <1>11, <1>12, <1>13 DEF Delivery!Queued, Delivery!Queues
<1>15. /\ replaced \in [Sockets -> Delivery!SocketRecords]
       /\ \A t \in Sockets : /\ replaced[t].buffer = socket[t].buffer
                             /\ replaced[t].state = "new" => socket[t].state = "new"
  BY ZenonT(60), <1>0 DEF Delivery!DeliveryTypeOK, Delivery!SocketRecords
<1> HIDE DEF replaced
<1>16. /\ socket' \in [Sockets -> Delivery!SocketRecords] /\ socket'[s].buffer = first
       /\ socket'[s].state # "new"
       /\ \A t \in Sockets \ {s} : socket'[t] = replaced[t]
  BY <1>1, <1>8, <1>15 DEF Delivery!SocketRecords
<1>17. /\ Delivery!Buffered[s] = {} /\ Delivery!Buffered'[s] = F
       /\ \A t \in Sockets \ {s} : Delivery!Buffered'[t] = Delivery!Buffered[t]
  <2>1. socket[s].buffer = <<>>
    BY <1>1 DEF Delivery!DeliveryInv
  <2> QED
    BY <1>2, <1>15, <1>16, <2>1 DEF Delivery!Buffered, F
<1>18. Delivery!Events' = Delivery!Events /\ Delivery!SocketRecords' = Delivery!SocketRecords
  BY <1>1 DEF Delivery!Events, Delivery!SocketRecords
<1>19. Delivery!DeliveryTypeOK'
  BY <1>0, <1>1, <1>13, <1>16, <1>18 DEF Delivery!DeliveryTypeOK
<1>20. F \subseteq Delivery!Queued["legacy"] \cup Delivery!Queued["fast"] \cup Delivery!Queued["terminal"]
  BY <1>3, <1>8
<1>21. ASSUME NEW e \in Delivery!Events' PROVE Delivery!OneAt(e)'
  <2>1. Delivery!OneAt(e) /\ ended'[e] = ended[e]
    BY <1>1, <1>18 DEF Delivery!DeliveryInv
  <2>2. CASE e \in F
    <3>1. PICK p \in Delivery!Queues : e \in Delivery!Queued[p]
      BY <1>20, <2>2 DEF Delivery!Queues
    <3>2. ended[e] = "no" /\ \A t \in Sockets : e \notin Delivery!Buffered[t]
      BY <2>1, <3>1 DEF Delivery!OneAt
    <3>3. /\ \A q \in Delivery!Queues : e \notin Delivery!Queued'[q]
          /\ \A t \in Sockets : e \in Delivery!Buffered'[t] <=> t = s
      BY <1>14, <1>17, <2>2, <3>2
    <3> QED
      BY <2>1, <3>2, <3>3, PlacedInBuffer
  <2>3. CASE e \notin F
    <3>1. /\ \A q \in Delivery!Queues : e \in Delivery!Queued'[q] <=> e \in Delivery!Queued[q]
          /\ \A t \in Sockets : e \in Delivery!Buffered'[t] <=> e \in Delivery!Buffered[t]
      BY <1>14, <1>17, <2>3
    <3> QED
      BY <2>1, <3>1, PlaceStays
  <2> QED
    BY <2>2, <2>3
<1>22. Delivery!NothingStranded'
  <2>1. Delivery!Connected' => queue'["fast"] = <<>> /\ queue'["terminal"] = <<>>
    <3>1. Delivery!Connected' => n = Len(all)
      BY <1>1, <1>7 DEF Delivery!Connected, Delivery!DeliveryAssumption, Delivery!NoSocket
    <3> QED
      BY <1>11, <1>12, <1>13, <3>1
  <2>2. \A q \in Delivery!Queues : queue[q] = <<>> => queue'[q] = <<>>
    <3>1. ASSUME NEW q \in Delivery!Queues, queue[q] = <<>> PROVE queue'[q] = <<>>
      <4>1. Delivery!Queued'[q] = {}
        BY <1>2, <1>14, <3>1
      <4>2. queue'[q] \in Seq(Delivery!Events) /\ Delivery!Queued'[q] = Delivery!ToSet(queue'[q])
        BY <1>13 DEF Delivery!Queued
      <4> QED
        BY <4>1, <4>2, SetOf
    <3> QED
      BY <3>1
  <2> QED
    BY <1>1, <2>1, <2>2 DEF Delivery!NothingStranded, Delivery!DeliveryInv, Delivery!Queues
<1>23. \A t \in Sockets : /\ Delivery!IsInjective(socket'[t].buffer)
                          /\ socket'[t].state = "new" => socket'[t].buffer = <<>>
  BY <1>8, <1>15, <1>16 DEF Delivery!DeliveryInv
<1>24. \A e \in Delivery!Events' : ended'[e] = "dropped" => kind'[e] # "terminal"
  BY <1>1, <1>18 DEF Delivery!DeliveryInv
<1>25. \A q \in {"legacy", "fast"} : \A e \in Delivery!Queued'[q] : kind'[e] # "terminal"
  BY <1>1, <1>14 DEF Delivery!DeliveryInv, Delivery!Queues
<1>26. /\ Len(queue'["legacy"]) <= MaxQueued /\ Len(queue'["fast"]) <= MaxQueued
       /\ Len(queue'["terminal"]) <= MaxTerminals
  <2>1. Len(a) <= MaxQueued /\ Len(b) <= MaxQueued /\ Len(c) <= MaxTerminals
    BY DEF Delivery!DeliveryInv, a, b, c
  <2>2. Len(la) \in Nat /\ Len(lb) \in Nat /\ Len(lc) \in Nat
    BY <1>10, <1>11, <1>12
  <2> QED
    BY <1>3, <1>10, <1>11, <1>12, <1>13, <2>1, <2>2 DEF Delivery!DeliveryAssumption
<1> QED
  BY <1>14, <1>19, <1>21, <1>22, <1>23, <1>24, <1>25, <1>26 DEF Delivery!DeliveryInv

LEMMA DeliveryInvInit ==
    ASSUME Delivery!DeliveryAssumption, Delivery!DeliveryInit
    PROVE  Delivery!DeliveryInv
<1>1. Delivery!Events = {} /\ Len(kind) = 0
  BY DEF Delivery!DeliveryInit, Delivery!Events
<1>2. Delivery!DeliveryTypeOK
  <2>1. kind \in Seq(Delivery!Kinds) /\ Len(kind) <= MaxEvents
    BY <1>1 DEF Delivery!DeliveryInit, Delivery!DeliveryAssumption
  <2>2. queue \in [Delivery!Queues -> Seq(Delivery!Events)]
    BY NoneInjective DEF Delivery!DeliveryInit
  <2>3. socket \in [Sockets -> Delivery!SocketRecords]
    BY NoneInjective DEF Delivery!DeliveryInit, Delivery!SocketRecords
  <2>4. ended \in [Delivery!Events -> Delivery!Fates]
    BY <1>1 DEF Delivery!DeliveryInit
  <2> QED
    BY <2>1, <2>2, <2>3, <2>4 DEF Delivery!DeliveryInit, Delivery!DeliveryTypeOK
<1>3. /\ \A q \in Delivery!Queues : queue[q] = <<>> /\ Delivery!Queued[q] = {}
      /\ \A s \in Sockets : socket[s].buffer = <<>>
  BY NoneInjective DEF Delivery!DeliveryInit, Delivery!Queued
<1>4. Delivery!NothingStranded
  BY <1>3 DEF Delivery!NothingStranded, Delivery!Queues
<1>5. \A q \in {"legacy", "fast", "terminal"} : Len(queue[q]) = 0
  BY <1>3 DEF Delivery!Queues
<1> QED
  BY <1>1, <1>2, <1>3, <1>4, <1>5, NoneInjective DEF Delivery!DeliveryInv, Delivery!Queues,
     Delivery!DeliveryAssumption

\* What the events are produced by.
LEMMA ProducingSteps ==
    ASSUME Delivery!DeliveryAssumption, Delivery!DeliveryInv, Len(kind) < MaxEvents,
           \/ Delivery!QueueLegacy \/ Delivery!QueueCritical \/ Delivery!QueueFastTerminal
           \/ \E k \in {"need", "partial"} : Delivery!QueueFast(k)
    PROVE  Delivery!DeliveryInv'
<1>0. Delivery!DeliveryTypeOK
  BY DEF Delivery!DeliveryInv
\* The socket takes the event.
<1>1. ASSUME NEW k \in Delivery!Kinds, NEW cap, Delivery!SocketTakes(cap), Delivery!SendSocketEvent(Delivery!New), Delivery!Produce(k, "no"),
             UNCHANGED <<queue, registered, waiting, session>>
      PROVE  Delivery!DeliveryInv'
  BY <1>1, SendStep DEF Delivery!SocketTakes
\* It ends, and the rest stays.
<1>2. ASSUME NEW k \in Delivery!Kinds, NEW fate \in {"received", "lost", "refused"}, Delivery!Produce(k, fate),
             waiting' \subseteq waiting, UNCHANGED <<queue, socket, registered, session>>
      PROVE  Delivery!DeliveryInv'
  <2>1. /\ socket' \in [Sockets -> Delivery!SocketRecords] /\ registered' \in Sockets \cup {Delivery!NoSocket}
        /\ \A s \in Sockets : socket'[s].buffer = socket[s].buffer /\ socket'[s].state = socket[s].state
    BY <1>0, <1>2 DEF Delivery!DeliveryTypeOK
  <2>2. Delivery!Connected' => Delivery!Connected
    BY <1>2 DEF Delivery!Connected
  <2> QED
    BY <1>2, <2>1, <2>2, EventEnds
<1>3. ASSUME NEW k \in Delivery!Kinds, NEW w, Delivery!AnswerWaiter(w, k), UNCHANGED <<queue, socket, registered, session>>
      PROVE  Delivery!DeliveryInv'
  <2>1. PICK fate \in {"received", "lost"} : Delivery!Produce(k, fate)
    BY <1>3 DEF Delivery!AnswerWaiter
  <2>2. waiting' \subseteq waiting
    BY <1>3 DEF Delivery!AnswerWaiter
  <2> QED
    BY <1>2, <1>3, <2>1, <2>2
<1>4. "legacy" \in Delivery!Kinds \ {"terminal"} /\ "critical" \in Delivery!Kinds \ {"terminal"}
      /\ "need" \in Delivery!Kinds \ {"terminal"} /\ "partial" \in Delivery!Kinds \ {"terminal"} /\ "terminal" \in Delivery!Kinds
  BY DEF Delivery!Kinds
<1>5. CASE Delivery!QueueLegacy
  <2>1. CASE /\ Delivery!SocketTakes(TRUE) /\ Delivery!SendSocketEvent(Delivery!New) /\ Delivery!Produce("legacy", "no")
             /\ UNCHANGED <<queue, registered, waiting, session>>
    BY <1>1, <1>4, <2>1
  <2>2. CASE Delivery!AnswerWaiter("legacy", "legacy") /\ UNCHANGED <<queue, socket, registered, session>>
    BY <1>3, <1>4, <2>2
  <2>3. CASE /\ "legacy" \notin waiting /\ Delivery!BoundedQueue("legacy", "legacy")
             /\ UNCHANGED <<socket, registered, waiting, session>>
    BY <1>4, <2>3, QueueStep
  <2> QED
    BY <1>5, <2>1, <2>2, <2>3 DEF Delivery!QueueLegacy
<1>6. CASE Delivery!QueueCritical
  <2>1. CASE /\ Delivery!SocketTakes(TRUE) /\ Delivery!SendSocketEvent(Delivery!New) /\ Delivery!Produce("critical", "no")
             /\ UNCHANGED <<queue, registered, waiting, session>>
    BY <1>1, <1>4, <2>1
  <2>2. CASE Delivery!AnswerWaiter("legacy", "critical") /\ UNCHANGED <<queue, socket, registered, session>>
    BY <1>3, <1>4, <2>2
  <2>3. CASE /\ "legacy" \notin waiting /\ Delivery!BoundedQueue("legacy", "critical")
             /\ UNCHANGED <<socket, registered, waiting, session>>
    BY <1>4, <2>3, QueueStep
  <2>4. CASE Delivery!Produce("critical", "refused") /\ UNCHANGED <<queue, socket, registered, waiting, session>>
    BY <1>2, <1>4, <2>4
  <2> QED
    BY <1>6, <2>1, <2>2, <2>3, <2>4 DEF Delivery!QueueCritical
<1>7. ASSUME NEW k \in {"need", "partial"}, Delivery!QueueFast(k) PROVE Delivery!DeliveryInv'
  <2>0. k \in Delivery!Kinds /\ k \in Delivery!Kinds \ {"terminal"}
    BY <1>4
  <2>1. CASE /\ Delivery!SocketTakes(k = "partial") /\ Delivery!SendSocketEvent(Delivery!New) /\ Delivery!Produce(k, "no")
             /\ UNCHANGED <<queue, registered, waiting, session>>
    BY <1>1, <2>0, <2>1
  <2>2. CASE Delivery!AnswerWaiter("fast", k) /\ UNCHANGED <<queue, socket, registered, session>>
    BY <1>3, <2>0, <2>2
  <2>3. CASE /\ ~Delivery!Connected /\ "fast" \notin waiting /\ Delivery!BoundedQueue("fast", k)
             /\ UNCHANGED <<socket, registered, waiting, session>>
    BY <2>0, <2>3, QueueStep
  <2>4. CASE Delivery!Produce(k, "refused") /\ UNCHANGED <<queue, socket, registered, waiting, session>>
    BY <1>2, <2>0, <2>4
  <2> QED
    BY <1>7, <2>1, <2>2, <2>3, <2>4 DEF Delivery!QueueFast
<1>8. CASE Delivery!QueueFastTerminal
  <2>1. CASE /\ Delivery!SocketTakes(TRUE) /\ Delivery!SendSocketEvent(Delivery!New) /\ Delivery!Produce("terminal", "no")
             /\ UNCHANGED <<queue, registered, waiting, session>>
    BY <1>1, <1>4, <2>1
  <2>2. CASE /\ registered' = IF Delivery!Connected THEN Delivery!NoSocket ELSE registered
             /\ socket' = IF Delivery!Connected THEN [socket EXCEPT ![registered].state = "closing"] ELSE socket
             /\ UNCHANGED session
             /\ \/ "fast" \in waiting /\ Delivery!AnswerWaiter("fast", "terminal") /\ UNCHANGED queue
                \/ /\ "fast" \notin waiting /\ UNCHANGED waiting
                   /\ IF Len(queue["terminal"]) >= MaxTerminals
                      THEN Delivery!Produce("terminal", "refused") /\ UNCHANGED queue
                      ELSE /\ queue' = [queue EXCEPT !["terminal"] = Append(@, Delivery!New)]
                           /\ Delivery!Produce("terminal", "no")
    <3>1. /\ socket' \in [Sockets -> Delivery!SocketRecords] /\ registered' \in Sockets \cup {Delivery!NoSocket}
          /\ \A s \in Sockets : /\ socket'[s].buffer = socket[s].buffer
                                /\ socket'[s].state = "new" => socket[s].state = "new"
      <4>1. CASE Delivery!Connected
        <5>1. PICK r \in Sockets : r = registered
          BY <1>0, <4>1 DEF Delivery!Connected, Delivery!DeliveryTypeOK
        <5>2. socket' = [socket EXCEPT ![r].state = "closing"] /\ registered' = Delivery!NoSocket
          BY <2>2, <4>1, <5>1
        <5>3. socket \in [Sockets -> Delivery!SocketRecords]
          BY <1>0 DEF Delivery!DeliveryTypeOK
        <5> QED
          BY <5>2, <5>3 DEF Delivery!SocketRecords
      <4>2. CASE ~Delivery!Connected
        BY <1>0, <2>2, <4>2 DEF Delivery!DeliveryTypeOK
      <4> QED
        BY <4>1, <4>2
    <3>2. ~Delivery!Connected'
      BY <2>2 DEF Delivery!Connected
    <3>3. CASE "fast" \in waiting /\ Delivery!AnswerWaiter("fast", "terminal") /\ UNCHANGED queue
      <4>1. PICK fate \in {"received", "lost"} : Delivery!Produce("terminal", fate)
        BY <3>3 DEF Delivery!AnswerWaiter
      <4>2. waiting' \subseteq waiting
        BY <3>3 DEF Delivery!AnswerWaiter
      <4> QED
        BY <1>4, <2>2, <3>1, <3>2, <3>3, <4>1, <4>2, EventEnds
    <3>4. CASE Delivery!Produce("terminal", "refused") /\ UNCHANGED <<queue, waiting>>
      BY <1>4, <2>2, <3>1, <3>2, <3>4, EventEnds
    <3>5. CASE /\ "fast" \notin waiting /\ UNCHANGED waiting
               /\ ~(Len(queue["terminal"]) >= MaxTerminals)
               /\ queue' = [queue EXCEPT !["terminal"] = Append(@, Delivery!New)] /\ Delivery!Produce("terminal", "no")
      <4>1. Len(queue["terminal"]) < MaxTerminals
        <5>1. Len(queue["terminal"]) \in Nat /\ MaxTerminals \in Nat
          BY <1>0 DEF Delivery!DeliveryTypeOK, Delivery!Queues, Delivery!DeliveryAssumption
        <5> QED
          BY <3>5, <5>1
      <4> QED
        BY <2>2, <3>1, <3>2, <3>5, <4>1, TerminalStep
    <3> QED
      BY <2>2, <3>3, <3>4, <3>5
  <2> QED
    BY <1>8, <2>1, <2>2 DEF Delivery!QueueFastTerminal
<1> QED
  BY <1>5, <1>6, <1>7, <1>8

\* The other steps of sockets, sessions and polls.
LEMMA SocketSteps ==
    ASSUME Delivery!DeliveryAssumption, Delivery!DeliveryInv,
           \/ \E w \in {"legacy", "fast"} : Delivery!PollEnds(w)
           \/ \E s \in Sockets : Delivery!SocketClosed(s) \/ Delivery!Pong(s) \/ Delivery!MessageWithoutSession(s)
           \/ Delivery!Heartbeat \/ Delivery!SessionExpires \/ Delivery!Register
    PROVE  Delivery!DeliveryInv'
<1>0. /\ Delivery!DeliveryTypeOK /\ Delivery!NothingStranded /\ "closing" # "new"
      /\ socket \in [Sockets -> Delivery!SocketRecords] /\ registered \in Sockets \cup {Delivery!NoSocket}
      /\ session \in BOOLEAN /\ waiting \subseteq {"legacy", "fast"}
  BY DEF Delivery!DeliveryInv, Delivery!DeliveryTypeOK
\* A step that sends, queues and connects nothing.
<1>1. ASSUME UNCHANGED <<kind, queue, ended>>, socket' \in [Sockets -> Delivery!SocketRecords],
             \A s \in Sockets : /\ socket'[s].buffer = socket[s].buffer
                                /\ socket'[s].state = socket[s].state \/ socket'[s].state = "closing",
             registered' = Delivery!NoSocket \/ registered' = registered,
             waiting' \subseteq waiting, session' \in BOOLEAN
      PROVE  Delivery!DeliveryInv'
  <2>1. Delivery!Connected' => Delivery!Connected
    BY <1>0, <1>1 DEF Delivery!Connected
  <2>2. Delivery!NothingStranded'
    BY <1>0, <1>1, <2>1 DEF Delivery!NothingStranded
  <2>3. registered' \in Sockets \cup {Delivery!NoSocket} /\ waiting' \subseteq {"legacy", "fast"}
    BY <1>0, <1>1
  <2> QED
    BY <1>1, <2>2, <2>3, QuietStep
<1>2. ASSUME NEW w \in {"legacy", "fast"}, Delivery!PollEnds(w) PROVE Delivery!DeliveryInv'
  BY <1>0, <1>1, <1>2 DEF Delivery!PollEnds
<1>3. ASSUME NEW s \in Sockets, Delivery!SocketClosed(s) PROVE Delivery!DeliveryInv'
  BY <1>3, LostStep DEF Delivery!SocketClosed
<1>4. ASSUME NEW s \in Sockets, Delivery!Pong(s) \/ Delivery!MessageWithoutSession(s) PROVE Delivery!DeliveryInv'
  <2>1. /\ socket' \in [Sockets -> Delivery!SocketRecords]
        /\ \A t \in Sockets : /\ socket'[t].buffer = socket[t].buffer
                              /\ socket'[t].state = socket[t].state \/ socket'[t].state = "closing"
    <3>1. CASE socket' = [socket EXCEPT ![s].alive = TRUE]
      BY ZenonT(60), <1>0, <3>1 DEF Delivery!SocketRecords
    <3>2. CASE socket' = [socket EXCEPT ![s].state = "closing"]
      BY <1>0, <3>2 DEF Delivery!SocketRecords
    <3> QED
      BY <1>4, <3>1, <3>2 DEF Delivery!Pong, Delivery!MessageWithoutSession
  <2> QED
    BY <1>0, <1>1, <1>4, <2>1 DEF Delivery!Pong, Delivery!MessageWithoutSession
<1>5. CASE Delivery!Heartbeat
  <2>0. registered \in Sockets
    BY <1>0, <1>5 DEF Delivery!Heartbeat
  <2>1. CASE /\ registered' = Delivery!NoSocket /\ UNCHANGED ended
             /\ socket' = [socket EXCEPT ![registered].state = IF @ = "open" THEN "closing" ELSE @]
    <3>1. /\ socket' \in [Sockets -> Delivery!SocketRecords]
          /\ \A t \in Sockets : /\ socket'[t].buffer = socket[t].buffer
                                /\ socket'[t].state = socket[t].state \/ socket'[t].state = "closing"
      BY <1>0, <2>0, <2>1 DEF Delivery!SocketRecords
    <3> QED
      BY <1>0, <1>1, <1>5, <2>1, <3>1 DEF Delivery!Heartbeat
  <2>2. CASE registered' = Delivery!NoSocket /\ socket' = Delivery!Gone(registered) /\ Delivery!LoseBuffer(registered)
    BY <1>5, <2>0, <2>2, LostStep DEF Delivery!Heartbeat
  <2>3. CASE socket' = [socket EXCEPT ![registered].alive = FALSE] /\ UNCHANGED <<registered, ended>>
    <3>1. /\ socket' \in [Sockets -> Delivery!SocketRecords]
          /\ \A t \in Sockets : /\ socket'[t].buffer = socket[t].buffer
                                /\ socket'[t].state = socket[t].state
      BY ZenonT(60), <1>0, <2>0, <2>3 DEF Delivery!SocketRecords
    <3> QED
      BY <1>0, <1>1, <1>5, <2>3, <3>1 DEF Delivery!Heartbeat
  <2> QED
    BY <1>5, <2>1, <2>2, <2>3 DEF Delivery!Heartbeat
<1>6. CASE Delivery!SessionExpires
  BY <1>0, <1>1, <1>6 DEF Delivery!SessionExpires
<1>7. CASE Delivery!Register
  <2>1. /\ socket' \in [Sockets -> Delivery!SocketRecords]
        /\ \A t \in Sockets : /\ socket'[t].buffer = socket[t].buffer
                              /\ socket'[t].state = socket[t].state \/ socket'[t].state = "closing"
    BY <1>0, <1>7 DEF Delivery!Register, Delivery!SocketRecords
  <2> QED
    BY <1>0, <1>1, <1>7, <2>1 DEF Delivery!Register
<1> QED
  BY <1>2, <1>3, <1>4, <1>5, <1>6, <1>7

LEMMA DeliveryInvNext ==
    ASSUME Delivery!DeliveryAssumption, Delivery!DeliveryInv, Delivery!DeliveryNext
    PROVE  Delivery!DeliveryInv'
<1>1. CASE /\ Len(kind) < MaxEvents
           /\ \/ Delivery!QueueLegacy \/ Delivery!QueueCritical \/ Delivery!QueueFastTerminal
              \/ \E k \in {"need", "partial"} : Delivery!QueueFast(k)
  BY <1>1, ProducingSteps
<1>2. ASSUME NEW w \in {"legacy", "fast"}, Delivery!Poll(w) PROVE Delivery!DeliveryInv'
  BY <1>2, PollStep
<1>3. ASSUME NEW s \in Sockets, Delivery!Connect(s) PROVE Delivery!DeliveryInv'
  BY <1>3, ConnectStep
<1>4. ASSUME NEW s \in Sockets, Delivery!Receive(s) PROVE Delivery!DeliveryInv'
  BY <1>4, ReceiveStep
<1>5. CASE Delivery!Evict
  BY <1>5, EvictStep
<1>6. CASE \/ \E w \in {"legacy", "fast"} : Delivery!PollEnds(w)
           \/ \E s \in Sockets : Delivery!SocketClosed(s) \/ Delivery!Pong(s) \/ Delivery!MessageWithoutSession(s)
           \/ Delivery!Heartbeat \/ Delivery!SessionExpires \/ Delivery!Register
  BY <1>6, SocketSteps
<1> QED
  BY <1>1, <1>2, <1>3, <1>4, <1>5, <1>6 DEF Delivery!DeliveryNext

LEMMA DeliveryInvSound ==
    ASSUME Delivery!DeliveryAssumption, Delivery!DeliveryInv
    PROVE  Delivery!NothingStranded /\ Delivery!OnePlace
<1>0. Delivery!DeliveryTypeOK
  BY DEF Delivery!DeliveryInv
<1>1. /\ \A q \in Delivery!Queues : Delivery!Queued[q] = Delivery!ToSet(queue[q])
      /\ \A s \in Sockets : Delivery!Buffered[s] = Delivery!ToSet(socket[s].buffer)
  BY <1>0, PlacesTyped
<1>2. ASSUME NEW e \in Delivery!Events
      PROVE  Cardinality({q \in Delivery!Queues : e \in Delivery!ToSet(queue[q])})
             + Cardinality({s \in Sockets : e \in Delivery!ToSet(socket[s].buffer)})
             + (IF ended[e] = "no" THEN 0 ELSE 1) = 1
  <2> DEFINE Q == {q \in Delivery!Queues : e \in Delivery!ToSet(queue[q])}
             B == {s \in Sockets : e \in Delivery!ToSet(socket[s].buffer)}
  <2>0. Delivery!OneAt(e)
    BY DEF Delivery!DeliveryInv
  <2>1. CASE ended[e] # "no"
    <3>1. Q = {} /\ B = {}
      BY <1>1, <2>0, <2>1 DEF Delivery!OneAt
    <3>2. Cardinality(Q) = 0 /\ Cardinality(B) = 0
      BY <3>1, FS_EmptySet
    <3> HIDE DEF Q, B
    <3> QED
      BY <2>1, <3>2 DEF Q, B
  <2>2. CASE ended[e] = "no" /\ \E q \in Delivery!Queues : e \in Delivery!Queued[q]
    <3>1. PICK p \in Delivery!Queues : e \in Delivery!Queued[p]
      BY <2>2
    <3>2. Q = {p} /\ B = {}
      BY <1>1, <2>0, <3>1 DEF Delivery!OneAt
    <3>3. Cardinality(Q) = 1 /\ Cardinality(B) = 0
      BY <3>2, FS_EmptySet, FS_Singleton
    <3> HIDE DEF Q, B
    <3> QED
      BY <2>2, <3>3 DEF Q, B
  <2>3. CASE ended[e] = "no" /\ \E s \in Sockets : e \in Delivery!Buffered[s]
    <3>1. PICK p \in Sockets : e \in Delivery!Buffered[p]
      BY <2>3
    <3>2. Q = {} /\ B = {p}
      BY <1>1, <2>0, <3>1 DEF Delivery!OneAt
    <3>3. Cardinality(Q) = 0 /\ Cardinality(B) = 1
      BY <3>2, FS_EmptySet, FS_Singleton
    <3> HIDE DEF Q, B
    <3> QED
      BY <2>3, <3>3 DEF Q, B
  <2> QED
    BY <2>0, <2>1, <2>2, <2>3 DEF Delivery!OneAt
<1>3. /\ \A e \in Delivery!Events : kind[e] = "terminal" => ended[e] # "dropped"
      /\ Len(queue["legacy"]) <= MaxQueued /\ Len(queue["fast"]) <= MaxQueued
      /\ Len(queue["terminal"]) <= MaxTerminals /\ Delivery!NothingStranded
  BY DEF Delivery!DeliveryInv
<1> QED
  BY <1>2, <1>3, DeliveryCount DEF Delivery!OnePlace

-----------------------------------------------------------------------------
\* The other parts, and their composition.

Race == INSTANCE RelayFastPath WITH
    Needs <- {RacedNeed}, Modes <- {"cosmos"}, Maintenance <- TRUE,
    MaxPartials <- 2, MaxRestarts <- 1

Tickets == INSTANCE CosmosLedger WITH
    Calls <- Calls \cup {Reserver},
    Offered <- [c \in Calls \cup {Reserver} |->
                 IF c = Reserver THEN {"reserve"}
                 ELSE {"reserve", "complete", "recover", "cancel"}],
    RecordCapacity <- 1, MaxCasAttempts <- 2, MaxDeliveries <- 3,
    op <- ledgerOp, pc <- ledgerPc

Compaction == INSTANCE CosmosLedger WITH
    Needs <- {RacedNeed}, Calls <- Calls \cup {Reserver, Compactor},
    Offered <- [c \in Calls \cup {Reserver, Compactor} |->
                 IF c = Reserver THEN {"reserve"}
                 ELSE IF c = Compactor THEN {"compact"} ELSE {"partial", "fail", "ack"}],
    RecordCapacity <- 1, MaxCasAttempts <- 1, MaxDeliveries <- 3,
    op <- ledgerOp, pc <- ledgerPc

Legacy == INSTANCE RelayLegacy WITH
    Relays <- {"a", "b"}, Needs <- {"n"}, Calls <- {"c1", "c2"}, Ledgers <- {"sqlite", "cosmos"},
    Colliding <- {}, MaxRequests <- 1, MaxRestarts <- 1,
    kind <- v1, ledger <- v2, request <- v3, reserved <- v4, inFlight <- v5, call <- v6,
    sent <- v7, told <- v8, restarts <- v9

Room == INSTANCE RelayLegacy WITH
    Relays <- {"a"}, Needs <- {"n", "m"}, Calls <- {"c1"}, Ledgers <- {"sqlite"},
    Colliding <- {"m"}, MaxRequests <- 1, MaxRestarts <- 0,
    kind <- v1, ledger <- v2, request <- v3, reserved <- v4, inFlight <- v5, call <- v6,
    sent <- v7, told <- v8, restarts <- v9

sharedVars == <<v1, v2, v3, v4, v5, v6, v7, v8, v9>>

cosmosVars == <<history, tickets, attempts, floor, wire, answer, ledgerOp, ledgerPc>>

ASSUME CosmosConstants == Tickets!CosmosAssumption /\ Compaction!CosmosAssumption

ASSUME TableConstants ==
    Chains!ChainsAssumption /\ Directory!DirectoryAssumption /\ Delivery!DeliveryAssumption

ASSUME RelayConstants ==
    /\ RelayAssumption /\ Race!RelayAssumption
    /\ Legacy!LegacyAssumption /\ Room!LegacyAssumption

\* The variables of the part that is not in focus have no meaning.
RelayUnused ==
    /\ ledger = 0 /\ ledgerPartials = 0 /\ request = 0 /\ holding = 0 /\ partials = 0
    /\ reserved = 0 /\ inFlight = 0 /\ terminals = 0 /\ waiters = 0 /\ seen = 0
    /\ dispatched = 0 /\ counted = 0 /\ told = 0 /\ op = 0 /\ pc = 0 /\ restarts = 0 /\ mode = 0

CosmosUnused ==
    /\ history = <<>> /\ tickets = 0 /\ attempts = 0 /\ floor = 0
    /\ wire = 0 /\ answer = 0 /\ ledgerOp = 0 /\ ledgerPc = 0

\* Of the shared variables a part uses the first ones; the rest stay 0.
UnusedFrom8 == v8 = 0 /\ v9 = 0
UnusedFrom5 == v5 = 0 /\ v6 = 0 /\ v7 = 0 /\ UnusedFrom8

SharedUnused == v1 = 0 /\ v2 = 0 /\ v3 = 0 /\ v4 = 0 /\ UnusedFrom5

NamedUnused == RelayUnused /\ CosmosUnused

MCInit ==
    \/ focus = "race" /\ Race!Init /\ CosmosUnused /\ SharedUnused
    \/ focus = "capacity" /\ Init /\ CosmosUnused /\ SharedUnused
    \/ focus = "tickets" /\ Tickets!Init /\ RelayUnused /\ SharedUnused
    \/ focus = "compaction" /\ Compaction!Init /\ RelayUnused /\ SharedUnused
    \/ focus = "chains" /\ Chains!ChainsInit /\ NamedUnused /\ UnusedFrom5
    \/ focus = "directory" /\ Directory!DirectoryInit /\ NamedUnused /\ UnusedFrom8
    \/ focus = "delivery" /\ Delivery!DeliveryInit /\ NamedUnused /\ UnusedFrom8
    \/ focus = "legacy" /\ Legacy!LegacyInit /\ NamedUnused
    \/ focus = "room" /\ Room!LegacyInit /\ NamedUnused

MCNext ==
    \/ focus = "race" /\ Race!Next /\ UNCHANGED <<focus, cosmosVars, sharedVars>>
    \/ focus = "capacity" /\ Next /\ UNCHANGED <<focus, cosmosVars, sharedVars>>
    \/ focus = "tickets" /\ Tickets!Next /\ UNCHANGED <<focus, vars, sharedVars>>
    \/ focus = "compaction" /\ Compaction!Next /\ UNCHANGED <<focus, vars, sharedVars>>
    \/ focus = "chains" /\ Chains!ChainsNext /\ UNCHANGED <<focus, vars, cosmosVars, v5, v6, v7, v8, v9>>
    \/ focus = "directory" /\ Directory!DirectoryNext /\ UNCHANGED <<focus, vars, cosmosVars, v8, v9>>
    \/ focus = "delivery" /\ Delivery!DeliveryNext /\ UNCHANGED <<focus, vars, cosmosVars, v8, v9>>
    \/ focus = "legacy" /\ Legacy!LegacyNext /\ UNCHANGED <<focus, vars, cosmosVars>>
    \/ focus = "room" /\ Room!LegacyNext /\ UNCHANGED <<focus, vars, cosmosVars>>

MCSpec == MCInit /\ [][MCNext]_<<focus, vars, cosmosVars, sharedVars>>

CallSymmetry == Permutations(Calls)

-----------------------------------------------------------------------------
\* DispatchedOnce, EndsAreCommitted, OneTerminal and PartialsInOrder of
\* RelayFastPath, and OneEndEverywhere and OutboxCarriesTheLife of RelayLegacy:
\* across handlers, lost replies, peers, pruning and restarts no identifier is
\* sent to a provider twice, the requester is sent PARTIALs in order, and is told
\* the end the ledger holds, once, which the outbox carries.
NeedsLiveOnce ==
    CASE focus = "race" -> /\ Race!TypeOK /\ Race!DispatchedOnce /\ Race!EndsAreCommitted
                           /\ Race!OneTerminal /\ Race!PartialsInOrder
      [] focus = "capacity" -> DispatchedOnce
      [] focus = "legacy" -> Legacy!LegacyTypeOK /\ Legacy!OneEndEverywhere /\ Legacy!OutboxCarriesTheLife
      [] focus = "room" -> Room!OneEndEverywhere /\ Room!OutboxCarriesTheLife
      [] OTHER -> TRUE

\* TerminalRoom, ReservationsCounted and InFlightExact, and InFlightCounts of
\* RelayLegacy: the reservations of a requester and the in-flight count of a
\* provider are exactly what the requests hold, so a RESULT that was promised
\* room finds it.
BooksBalance ==
    CASE focus = "capacity" -> TerminalRoom /\ ReservationsCounted /\ InFlightExact
      [] focus = "legacy" -> Legacy!InFlightCounts
      [] focus = "room" -> Room!InFlightCounts
      [] OTHER -> TRUE

\* CapacityHolds, and the types: a document has its ticket and the tickets
\* never exceed recordCapacity.
CapacityIsKept ==
    CASE focus = "tickets" -> Tickets!TypeOK /\ Tickets!CapacityHolds
      [] focus = "compaction" -> Compaction!CapacityHolds
      [] OTHER -> TRUE

\* AnswersStand, OneWinner and PendingPayloadsKept: what mutate() told a caller
\* stays true, of the calls that race to reserve or end a NEED one is told that
\* it did, and compactNeed drops no payload that is still to be recovered.
AnswersAreKept ==
    CASE focus = "tickets" -> Tickets!AnswersStand /\ Tickets!OneWinner
      [] focus = "compaction" -> Compaction!AnswersStand /\ Compaction!PendingPayloadsKept
      [] OTHER -> TRUE

\* ChainsSound of RelayChains; TablesKept, ScanFits and NoRevokedMatch of
\* RelayDirectory; NothingStranded and OnePlace of RelayDelivery: a stage of a
\* chain goes out after the one before it has a result, and only one that was
\* being matched when its chain was closed goes out after that, the tables of
\* nodes and OFFERs agree and stay within their limits, and a terminal is in
\* exactly one place, from which it will be sent.
TablesSound ==
    CASE focus = "chains" -> Chains!ChainsTypeOK /\ Chains!ChainsSound
      [] focus = "directory" -> /\ Directory!DirectoryTypeOK /\ Directory!TablesKept
                                /\ Directory!ScanFits /\ Directory!NoRevokedMatch
      [] focus = "delivery" -> Delivery!DeliveryTypeOK /\ Delivery!NothingStranded /\ Delivery!OnePlace
      [] OTHER -> TRUE

AllNeeds == Needs \cup {RacedNeed}

Document(n) == history[n][Len(history[n])]

Written(n) == n \in DOMAIN history /\ history[n] # <<>>

Life == INSTANCE NeedLifecycle WITH
    Needs <- AllNeeds,
    status <- [n \in AllNeeds |-> IF Written(n) THEN Document(n).status ELSE "absent"],
    events <- [n \in AllNeeds |-> IF Written(n) THEN {Document(n).deliveries[i] : i \in DOMAIN Document(n).deliveries} ELSE {}]

\* The distributed ledger implements NeedLifecycle, as the SQLite one does.
LedgerKeepsLifecycle == Life!Spec

-----------------------------------------------------------------------------
mcVars == <<focus, vars, cosmosVars, sharedVars>>

\* What holds of the instance in focus: the inductive invariants of the compact
\* and of the legacy path.
PathsInv ==
    /\ focus = "race" => Race!RelayInv /\ mode = "cosmos"
    /\ focus = "capacity" => RelayInv
    /\ focus = "legacy" => Legacy!LegacyInv
    /\ focus = "room" => Room!LegacyInv

\* The instance in focus takes its own steps, and the focus stays.
LEMMA FocusSteps ==
    ASSUME [MCNext]_mcVars
    PROVE  /\ focus' = focus
           /\ focus = "race" => [Race!Next]_vars
           /\ focus = "capacity" => [Next]_vars
           /\ focus = "legacy" => [Legacy!LegacyNext]_Legacy!legacyVars
           /\ focus = "room" => [Room!LegacyNext]_Room!legacyVars
<1>1. UNCHANGED mcVars \/ MCNext
  OBVIOUS
<1>2. CASE UNCHANGED mcVars
  BY <1>2 DEF mcVars, sharedVars, Legacy!legacyVars, Room!legacyVars
<1>3. CASE MCNext
  BY <1>3 DEF MCNext
<1> QED
  BY <1>1, <1>2, <1>3

LEMMA PathsInvInit == MCInit => PathsInv
<1> SUFFICES ASSUME MCInit PROVE PathsInv
  OBVIOUS
<1>1. focus = "race" => Race!RelayInv /\ mode = "cosmos"
  <2>1. ASSUME focus = "race" PROVE Race!Init
    BY <2>1 DEF MCInit
  <2>2. Race!Init => mode = "cosmos"
    BY DEF Race!Init
  <2> QED
    BY <2>1, <2>2, RelayConstants, Race!RelayInvInit
<1>2. focus = "capacity" => RelayInv
  <2>1. ASSUME focus = "capacity" PROVE Init
    BY <2>1 DEF MCInit
  <2> QED
    BY <2>1, RelayConstants, RelayInvInit
<1>3. focus = "legacy" => Legacy!LegacyInv
  <2>1. ASSUME focus = "legacy" PROVE Legacy!LegacyInit
    BY <2>1 DEF MCInit
  <2> QED
    BY <2>1, RelayConstants, Legacy!LegacyInvInit
<1>4. focus = "room" => Room!LegacyInv
  <2>1. ASSUME focus = "room" PROVE Room!LegacyInit
    BY <2>1 DEF MCInit
  <2> QED
    BY <2>1, RelayConstants, Room!LegacyInvInit
<1> QED
  BY <1>1, <1>2, <1>3, <1>4 DEF PathsInv

LEMMA PathsInvNext == ASSUME PathsInv, [MCNext]_mcVars PROVE PathsInv'
<1>1. focus' = focus
  BY FocusSteps
<1>2. ASSUME focus = "race" PROVE Race!RelayInv' /\ mode' = "cosmos"
  <2>1. Race!RelayInv /\ mode = "cosmos" /\ [Race!Next]_vars
    BY <1>2, FocusSteps DEF PathsInv
  <2>2. [Race!Next]_Race!vars
    BY <2>1 DEF Race!vars, vars
  <2>3. Race!RelayInv'
    BY <2>1, <2>2, RelayConstants, Race!RelayInvNext
  <2>4. mode' = mode
    BY <2>2, Race!ModeStands
  <2> QED
    BY <2>1, <2>3, <2>4
<1>3. focus = "capacity" => RelayInv'
  BY FocusSteps, RelayConstants, RelayInvNext DEF PathsInv
<1>4. focus = "legacy" => Legacy!LegacyInv'
  BY FocusSteps, RelayConstants, Legacy!LegacyInvNext DEF PathsInv
<1>5. focus = "room" => Room!LegacyInv'
  BY FocusSteps, RelayConstants, Room!LegacyInvNext DEF PathsInv
<1> QED
  BY <1>1, <1>2, <1>3, <1>4, <1>5 DEF PathsInv

\* On both paths of the relay a NEED is dispatched once, the requester is told
\* the end the ledger holds, once and after PARTIALs in order, and the outbox
\* carries that life (server.js, the compact and the legacy routes).
THEOREM LiveOnce == MCSpec => []NeedsLiveOnce
<1>1. MCInit => PathsInv
  BY PathsInvInit
<1>2. PathsInv /\ [MCNext]_mcVars => PathsInv'
  BY PathsInvNext
<1>3. PathsInv => NeedsLiveOnce
  <2> SUFFICES ASSUME PathsInv PROVE NeedsLiveOnce
    OBVIOUS
  <2>1. CASE focus = "race"
    <3>1. Race!RelayInv /\ Race!Durable
      BY <2>1 DEF PathsInv, Race!Durable
    <3>2. Race!TypeOK
      BY <3>1 DEF Race!RelayInv
    <3> QED
      BY <2>1, <3>1, <3>2, Race!RelayInvMeans DEF NeedsLiveOnce
  <2>2. CASE focus = "capacity"
    BY <2>2, RelayInvMeans DEF PathsInv, NeedsLiveOnce
  <2>3. CASE focus = "legacy"
    BY <2>3 DEF PathsInv, NeedsLiveOnce, Legacy!LegacyInv
  <2>4. CASE focus = "room"
    BY <2>4 DEF PathsInv, NeedsLiveOnce, Room!LegacyInv
  <2>5. CASE focus \notin {"race", "capacity", "legacy", "room"}
    BY <2>5 DEF NeedsLiveOnce
  <2> QED
    BY <2>1, <2>2, <2>3, <2>4, <2>5
<1> QED
  BY <1>1, <1>2, <1>3, PTL DEF MCSpec, mcVars

\* Where no registered node is evicted, what a relay counts for a requester and
\* for a provider is what its requests hold, and a RESULT finds its room
\* (reserveFastTerminal, releaseFastTerminal, markRequestStatus).
THEOREM RelayBooks ==
    ASSUME ~Maintenance
    PROVE  MCSpec => []BooksBalance
<1> DEFINE Inv == PathsInv /\ (focus = "capacity" => BooksInv)
<1>1. MCInit => Inv
  <2> SUFFICES ASSUME MCInit PROVE Inv
    OBVIOUS
  <2>1. ASSUME focus = "capacity" PROVE Init
    BY <2>1 DEF MCInit
  <2> QED
    BY <2>1, PathsInvInit, RelayConstants, BooksInvInit
<1>2. Inv /\ [MCNext]_mcVars => Inv'
  <2> SUFFICES ASSUME Inv, [MCNext]_mcVars PROVE Inv'
    OBVIOUS
  <2>1. PathsInv'
    BY PathsInvNext
  <2>2. focus' = focus
    BY FocusSteps
  <2>3. ASSUME focus = "capacity" PROVE BooksInv'
    <3>1. RelayInv /\ RelayInv' /\ [Next]_vars
      BY <2>1, <2>2, <2>3, FocusSteps DEF PathsInv
    <3> QED
      BY <2>3, <3>1, RelayConstants, BooksInvNext
  <2> QED
    BY <2>1, <2>2, <2>3
<1>3. Inv => BooksBalance
  <2> SUFFICES ASSUME Inv PROVE BooksBalance
    OBVIOUS
  <2>1. CASE focus = "capacity"
    BY <2>1 DEF PathsInv, BooksBalance, RelayInv, BooksInv, TerminalRoom
  <2>2. CASE focus = "legacy"
    BY <2>2 DEF PathsInv, BooksBalance, Legacy!LegacyInv
  <2>3. CASE focus = "room"
    BY <2>3 DEF PathsInv, BooksBalance, Room!LegacyInv
  <2>4. CASE focus \notin {"capacity", "legacy", "room"}
    BY <2>4 DEF BooksBalance
  <2> QED
    BY <2>1, <2>2, <2>3, <2>4
<1> QED
  BY <1>1, <1>2, <1>3, PTL DEF MCSpec, mcVars

-----------------------------------------------------------------------------
\* What holds of the distributed ledger.
LedgerInv ==
    /\ focus = "tickets" => Tickets!CosmosInv
    /\ focus = "compaction" => Compaction!CosmosInv
    /\ focus \notin {"tickets", "compaction"} => history = <<>>

LEMMA StoreSteps ==
    ASSUME [MCNext]_mcVars
    PROVE  /\ focus' = focus
           /\ focus = "tickets" => [Tickets!Next]_Tickets!vars
           /\ focus = "compaction" => [Compaction!Next]_Compaction!vars
           /\ focus \notin {"tickets", "compaction"} => history' = history
<1>1. UNCHANGED mcVars \/ MCNext
  OBVIOUS
<1>2. CASE UNCHANGED mcVars
  BY SMTT(60), <1>2 DEF mcVars, cosmosVars, Tickets!vars, Compaction!vars
<1>3. CASE MCNext
  BY <1>3 DEF MCNext, cosmosVars
<1> QED
  BY <1>1, <1>2, <1>3

LEMMA LedgerInvInit == ASSUME MCInit PROVE LedgerInv
<1>1. focus = "tickets" => Tickets!CosmosInv
  <2>1. ASSUME focus = "tickets" PROVE Tickets!Init
    BY <2>1 DEF MCInit
  <2> QED
    BY <2>1, CosmosConstants, Tickets!CosmosInvInit
<1>2. focus = "compaction" => Compaction!CosmosInv
  <2>1. ASSUME focus = "compaction" PROVE Compaction!Init
    BY <2>1 DEF MCInit
  <2> QED
    BY <2>1, CosmosConstants, Compaction!CosmosInvInit
<1>3. focus \notin {"tickets", "compaction"} => history = <<>>
  BY DEF MCInit, NamedUnused, CosmosUnused
<1> QED
  BY <1>1, <1>2, <1>3 DEF LedgerInv

LEMMA LedgerInvNext == ASSUME LedgerInv, [MCNext]_mcVars PROVE LedgerInv'
<1>1. focus' = focus
  BY StoreSteps
<1>2. focus = "tickets" => Tickets!CosmosInv'
  BY StoreSteps, CosmosConstants, Tickets!CosmosInvNext DEF LedgerInv
<1>3. focus = "compaction" => Compaction!CosmosInv'
  BY StoreSteps, CosmosConstants, Compaction!CosmosInvNext DEF LedgerInv
<1>4. focus \notin {"tickets", "compaction"} => history' = <<>>
  BY StoreSteps DEF LedgerInv
<1> QED
  BY <1>1, <1>2, <1>3, <1>4 DEF LedgerInv

\* A document of the distributed ledger has its ticket and the tickets stay
\* within recordCapacity, however many calls race for them
\* (reserveCreationCapacity).
THEOREM LedgerCapacity == MCSpec => []CapacityIsKept
<1>1. MCInit => LedgerInv
  BY LedgerInvInit
<1>2. LedgerInv /\ [MCNext]_mcVars => LedgerInv'
  BY LedgerInvNext
<1>3. LedgerInv => CapacityIsKept
  <2> SUFFICES ASSUME LedgerInv PROVE CapacityIsKept
    OBVIOUS
  <2>1. CASE focus = "tickets"
    BY <2>1, Tickets!CosmosInvMeans DEF LedgerInv, CapacityIsKept
  <2>2. CASE focus = "compaction"
    BY <2>2, Compaction!CosmosInvMeans DEF LedgerInv, CapacityIsKept
  <2> QED
    BY <2>1, <2>2 DEF CapacityIsKept
<1> QED
  BY <1>1, <1>2, <1>3, PTL DEF MCSpec, mcVars

\* What a caller of the distributed ledger was told stays true, one call is told
\* that it reserved or ended a NEED, and compactNeed drops no payload still to be
\* recovered (mutate, compactNeed).
THEOREM LedgerAnswers == MCSpec => []AnswersAreKept
<1>1. MCInit => LedgerInv
  BY LedgerInvInit
<1>2. LedgerInv /\ [MCNext]_mcVars => LedgerInv'
  BY LedgerInvNext
<1>3. LedgerInv => AnswersAreKept
  <2> SUFFICES ASSUME LedgerInv PROVE AnswersAreKept
    OBVIOUS
  <2>1. CASE focus = "tickets"
    BY <2>1, Tickets!CosmosInvMeans DEF LedgerInv, AnswersAreKept
  <2>2. CASE focus = "compaction"
    BY <2>2, Compaction!CosmosInvMeans DEF LedgerInv, AnswersAreKept
  <2> QED
    BY <2>1, <2>2 DEF AnswersAreKept
<1> QED
  BY <1>1, <1>2, <1>3, PTL DEF MCSpec, mcVars

-----------------------------------------------------------------------------
EventsIn(n) == {Document(n).deliveries[i] : i \in DOMAIN Document(n).deliveries}

LifeStatus == [n \in AllNeeds |-> IF Written(n) THEN Document(n).status ELSE "absent"]

LifeEvents == [n \in AllNeeds |-> IF Written(n) THEN EventsIn(n) ELSE {}]

LEMMA HistoryStays == ASSUME history' = history PROVE UNCHANGED <<LifeStatus, LifeEvents>>
BY DEF LifeStatus, LifeEvents, EventsIn, Document, Written

\* A step in the life of one NEED is a step of NeedLifecycle.
LEMMA LifeSteps ==
    ASSUME NEW n \in AllNeeds,
           \A m \in AllNeeds \ {n} : LifeStatus'[m] = LifeStatus[m] /\ LifeEvents'[m] = LifeEvents[m],
           Tickets!LifeStep(LifeStatus[n], LifeEvents[n], LifeStatus'[n], LifeEvents'[n])
    PROVE  Life!Next \/ UNCHANGED <<LifeStatus, LifeEvents>>
<1>1. /\ LifeStatus' = [LifeStatus EXCEPT ![n] = LifeStatus'[n]]
      /\ LifeEvents' = [LifeEvents EXCEPT ![n] = LifeEvents'[n]]
  BY DEF LifeStatus, LifeEvents
<1>2. CASE LifeStatus'[n] = LifeStatus[n] /\ LifeEvents'[n] = LifeEvents[n]
  BY <1>1, <1>2 DEF LifeStatus, LifeEvents
<1>3. CASE LifeStatus[n] = "absent" /\ LifeStatus'[n] = "matched" /\ LifeEvents'[n] = {<<"NEED", 0>>}
  <2>1. Life!Reserve(n)
    BY <1>1, <1>3 DEF Life!Reserve, LifeStatus, LifeEvents, EventsIn
  <2> QED
    BY <2>1 DEF Life!Next
<1>4. ASSUME LifeStatus[n] = "matched", LifeStatus'[n] = "matched", NEW p \in 0..(MaxPartials - 1),
             \A q \in 0..(MaxPartials - 1) : <<"PARTIAL", q>> \in LifeEvents[n] => q < p,
             LifeEvents'[n] = LifeEvents[n] \cup {<<"PARTIAL", p>>}
      PROVE  Life!Next
  <2>1. LifeStatus' = LifeStatus
    BY <1>1, <1>4 DEF LifeStatus
  <2>2. Life!Stream(n, p)
    BY <1>1, <1>4, <2>1 DEF Life!Stream, LifeStatus, LifeEvents, EventsIn
  <2> QED
    BY <1>4, <2>2 DEF Life!Next
<1>5. ASSUME NEW to \in Life!Terminal, NEW a \in SUBSET Life!Farewells(to), LifeStatus[n] = "matched",
             LifeStatus'[n] = to, LifeEvents'[n] = LifeEvents[n] \cup a
      PROVE  Life!Next
  <2>1. Life!Settle(n, to)
    BY ZenonT(60), <1>1, <1>5 DEF Life!Settle, LifeStatus, LifeEvents, EventsIn
  <2> QED
    BY <2>1 DEF Life!Next
<1> QED
  BY <1>2, <1>3, <1>4, <1>5 DEF Tickets!LifeStep, Life!Farewells, Life!Terminal

LEMMA TicketsLives ==
    ASSUME focus = "tickets", LedgerInv, [MCNext]_mcVars
    PROVE  Life!Next \/ UNCHANGED <<LifeStatus, LifeEvents>>
<1>1. /\ Tickets!CosmosInv /\ Tickets!CosmosInv' /\ [Tickets!Next]_Tickets!vars
  BY StoreSteps, LedgerInvNext DEF LedgerInv
<1>2. Tickets!TypeOK /\ Tickets!TypeOK'
  BY <1>1 DEF Tickets!CosmosInv
<1>3. DOMAIN history = Needs /\ DOMAIN history' = Needs
  BY <1>2 DEF Tickets!TypeOK
<1>4. ASSUME NEW n \in Needs
      PROVE  /\ LifeStatus[n] = Tickets!StatusOf(n) /\ LifeStatus'[n] = Tickets!StatusOf(n)'
             /\ LifeEvents[n] = Tickets!EventsOf(n) /\ LifeEvents'[n] = Tickets!EventsOf(n)'
  <2>1. n \in AllNeeds /\ Written(n) = Tickets!Exists(n) /\ Written(n)' = Tickets!Exists(n)'
    BY <1>3 DEF AllNeeds, Written, Tickets!Exists
  <2>2. Document(n) = Tickets!Doc(n) /\ Document(n)' = Tickets!Doc(n)'
    BY DEF Document, Tickets!Doc, Tickets!Last
  <2>3. ASSUME Tickets!Exists(n) PROVE EventsIn(n) = Tickets!Listed(Tickets!Doc(n))
    <3>1. Tickets!Doc(n) \in Tickets!Documents
      BY <1>1, <2>3, Tickets!Newest
    <3>2. Tickets!Doc(n).deliveries \in Seq(Tickets!Events)
      BY <3>1 DEF Tickets!Documents
    <3>3. DOMAIN Tickets!Doc(n).deliveries = 1..Len(Tickets!Doc(n).deliveries)
      BY <3>2, LenProperties
    <3> QED
      BY <2>2, <3>3 DEF EventsIn, Tickets!Listed
  <2>4. ASSUME Tickets!Exists(n)' PROVE EventsIn(n)' = Tickets!Listed(Tickets!Doc(n))'
    <3>1. Tickets!Doc(n)' \in Tickets!Documents
      <4>1. history'[n] \in Seq(Tickets!Documents) /\ history'[n] # <<>>
        BY <1>2, <2>4 DEF Tickets!TypeOK, Tickets!Exists
      <4>2. Len(history'[n]) \in 1..Len(history'[n])
        BY <4>1, LenProperties, EmptySeq
      <4> QED
        BY <4>1, <4>2 DEF Tickets!Doc, Tickets!Last
    <3>2. Tickets!Doc(n)'.deliveries \in Seq(Tickets!Events)
      BY <3>1 DEF Tickets!Documents
    <3>3. DOMAIN Tickets!Doc(n)'.deliveries = 1..Len(Tickets!Doc(n)'.deliveries)
      BY <3>2, LenProperties
    <3> QED
      BY <2>2, <3>3 DEF EventsIn, Tickets!Listed
  <2> QED
    BY <2>1, <2>2, <2>3, <2>4 DEF LifeStatus, LifeEvents, Tickets!StatusOf, Tickets!EventsOf
<1>5. ASSUME NEW n \in AllNeeds, n \notin Needs
      PROVE  LifeStatus'[n] = LifeStatus[n] /\ LifeEvents'[n] = LifeEvents[n]
  BY <1>3, <1>5 DEF LifeStatus, LifeEvents, Written
<1>6. CASE history' = history
  BY <1>6, HistoryStays
<1>7. ASSUME NEW n \in Needs, \A m \in Needs \ {n} : history'[m] = history[m],
             Tickets!LifeStep(Tickets!StatusOf(n), Tickets!EventsOf(n), Tickets!StatusOf(n)', Tickets!EventsOf(n)')
      PROVE  Life!Next \/ UNCHANGED <<LifeStatus, LifeEvents>>
  <2>1. n \in AllNeeds
    BY DEF AllNeeds
  <2>2. \A m \in AllNeeds \ {n} : LifeStatus'[m] = LifeStatus[m] /\ LifeEvents'[m] = LifeEvents[m]
    <3>1. \A m \in Needs \ {n} : Tickets!StatusOf(m)' = Tickets!StatusOf(m) /\ Tickets!EventsOf(m)' = Tickets!EventsOf(m)
      BY <1>7 DEF Tickets!StatusOf, Tickets!EventsOf, Tickets!Exists, Tickets!Doc
    <3> QED
      BY <1>4, <1>5, <3>1
  <2>3. Tickets!LifeStep(LifeStatus[n], LifeEvents[n], LifeStatus'[n], LifeEvents'[n])
    BY <1>4, <1>7 DEF Tickets!LifeStep, Tickets!LifeStep
  <2> QED
    BY <2>1, <2>2, <2>3, LifeSteps
<1> QED
  BY <1>1, <1>6, <1>7, CosmosConstants, Tickets!OneLives

LEMMA CompactionLives ==
    ASSUME focus = "compaction", LedgerInv, [MCNext]_mcVars
    PROVE  Life!Next \/ UNCHANGED <<LifeStatus, LifeEvents>>
<1>1. /\ Compaction!CosmosInv /\ Compaction!CosmosInv' /\ [Compaction!Next]_Compaction!vars
  BY StoreSteps, LedgerInvNext DEF LedgerInv
<1>2. Compaction!TypeOK /\ Compaction!TypeOK'
  BY <1>1 DEF Compaction!CosmosInv
<1>3. DOMAIN history = {RacedNeed} /\ DOMAIN history' = {RacedNeed}
  BY <1>2 DEF Compaction!TypeOK
<1>4. ASSUME NEW n \in {RacedNeed}
      PROVE  /\ LifeStatus[n] = Compaction!StatusOf(n) /\ LifeStatus'[n] = Compaction!StatusOf(n)'
             /\ LifeEvents[n] = Compaction!EventsOf(n) /\ LifeEvents'[n] = Compaction!EventsOf(n)'
  <2>1. n \in AllNeeds /\ Written(n) = Compaction!Exists(n) /\ Written(n)' = Compaction!Exists(n)'
    BY <1>3 DEF AllNeeds, Written, Compaction!Exists
  <2>2. Document(n) = Compaction!Doc(n) /\ Document(n)' = Compaction!Doc(n)'
    BY DEF Document, Compaction!Doc, Compaction!Last
  <2>3. ASSUME Compaction!Exists(n) PROVE EventsIn(n) = Compaction!Listed(Compaction!Doc(n))
    <3>1. Compaction!Doc(n) \in Compaction!Documents
      BY <1>1, <2>3, Compaction!Newest
    <3>2. Compaction!Doc(n).deliveries \in Seq(Compaction!Events)
      BY <3>1 DEF Compaction!Documents
    <3>3. DOMAIN Compaction!Doc(n).deliveries = 1..Len(Compaction!Doc(n).deliveries)
      BY <3>2, LenProperties
    <3> QED
      BY <2>2, <3>3 DEF EventsIn, Compaction!Listed
  <2>4. ASSUME Compaction!Exists(n)' PROVE EventsIn(n)' = Compaction!Listed(Compaction!Doc(n))'
    <3>1. Compaction!Doc(n)' \in Compaction!Documents
      <4>1. history'[n] \in Seq(Compaction!Documents) /\ history'[n] # <<>>
        BY <1>2, <2>4 DEF Compaction!TypeOK, Compaction!Exists
      <4>2. Len(history'[n]) \in 1..Len(history'[n])
        BY <4>1, LenProperties, EmptySeq
      <4> QED
        BY <4>1, <4>2 DEF Compaction!Doc, Compaction!Last
    <3>2. Compaction!Doc(n)'.deliveries \in Seq(Compaction!Events)
      BY <3>1 DEF Compaction!Documents
    <3>3. DOMAIN Compaction!Doc(n)'.deliveries = 1..Len(Compaction!Doc(n)'.deliveries)
      BY <3>2, LenProperties
    <3> QED
      BY <2>2, <3>3 DEF EventsIn, Compaction!Listed
  <2> QED
    BY <2>1, <2>2, <2>3, <2>4 DEF LifeStatus, LifeEvents, Compaction!StatusOf, Compaction!EventsOf
<1>5. ASSUME NEW n \in AllNeeds, n \notin {RacedNeed}
      PROVE  LifeStatus'[n] = LifeStatus[n] /\ LifeEvents'[n] = LifeEvents[n]
  BY <1>3, <1>5 DEF LifeStatus, LifeEvents, Written
<1>6. CASE history' = history
  BY <1>6, HistoryStays
<1>7. ASSUME NEW n \in {RacedNeed}, \A m \in {RacedNeed} \ {n} : history'[m] = history[m],
             Compaction!LifeStep(Compaction!StatusOf(n), Compaction!EventsOf(n), Compaction!StatusOf(n)', Compaction!EventsOf(n)')
      PROVE  Life!Next \/ UNCHANGED <<LifeStatus, LifeEvents>>
  <2>1. n \in AllNeeds
    BY DEF AllNeeds
  <2>2. \A m \in AllNeeds \ {n} : LifeStatus'[m] = LifeStatus[m] /\ LifeEvents'[m] = LifeEvents[m]
    <3>1. \A m \in {RacedNeed} \ {n} : Compaction!StatusOf(m)' = Compaction!StatusOf(m) /\ Compaction!EventsOf(m)' = Compaction!EventsOf(m)
      BY <1>7 DEF Compaction!StatusOf, Compaction!EventsOf, Compaction!Exists, Compaction!Doc
    <3> QED
      BY <1>4, <1>5, <3>1
  <2>3. Tickets!LifeStep(LifeStatus[n], LifeEvents[n], LifeStatus'[n], LifeEvents'[n])
    BY <1>4, <1>7 DEF Tickets!LifeStep, Compaction!LifeStep
  <2> QED
    BY <2>1, <2>2, <2>3, LifeSteps
<1> QED
  BY <1>1, <1>6, <1>7, CosmosConstants, Compaction!OneLives

\* Through its newest documents the distributed ledger is a NeedLifecycle, in
\* both instances of the run (cosmos-lifecycle-ledger.js).
THEOREM LedgerLifecycle == MCSpec => LedgerKeepsLifecycle
<1>1. MCInit => Life!Init
  <2> SUFFICES ASSUME MCInit PROVE Life!Init
    OBVIOUS
  <2>1. \A n \in AllNeeds : ~Written(n)
    BY DEF MCInit, NamedUnused, CosmosUnused, Tickets!Init, Compaction!Init, Written
  <2> QED
    BY <2>1 DEF Life!Init
<1>2. ASSUME LedgerInv, [MCNext]_mcVars PROVE [Life!Next]_(Life!lifecycle)
  <2>1. SUFFICES Life!Next \/ UNCHANGED <<LifeStatus, LifeEvents>>
    BY DEF Life!lifecycle, LifeStatus, LifeEvents, EventsIn
  <2>2. CASE focus = "tickets"
    BY <1>2, <2>2, TicketsLives
  <2>3. CASE focus = "compaction"
    BY <1>2, <2>3, CompactionLives
  <2>4. CASE focus \notin {"tickets", "compaction"}
    BY <1>2, <2>4, StoreSteps, HistoryStays
  <2> QED
    BY <2>2, <2>3, <2>4
<1>3. MCInit => LedgerInv
  BY LedgerInvInit
<1>4. LedgerInv /\ [MCNext]_mcVars => LedgerInv'
  BY LedgerInvNext
<1> QED
  BY <1>1, <1>2, <1>3, <1>4, PTL DEF MCSpec, mcVars, LedgerKeepsLifecycle, Life!Spec

-----------------------------------------------------------------------------
\* What holds of the three tables.
TablesInv ==
    /\ focus = "chains" => Chains!ChainsInv /\ Chains!TurnInv
    /\ focus = "directory" => Directory!DirectoryInv
    /\ focus = "delivery" => Delivery!DeliveryInv

LEMMA TableSteps ==
    ASSUME [MCNext]_mcVars
    PROVE  /\ focus' = focus
           /\ focus = "chains" => [Chains!ChainsNext]_(Chains!chainVars)
           /\ focus = "directory" => [Directory!DirectoryNext]_(Directory!directoryVars)
           /\ focus = "delivery" => [Delivery!DeliveryNext]_(Delivery!deliveryVars)
<1>1. UNCHANGED mcVars \/ MCNext
  OBVIOUS
<1>2. CASE UNCHANGED mcVars
  <2>1. UNCHANGED <<focus, v1, v2, v3, v4, v5, v6, v7>>
    BY <1>2 DEF mcVars, sharedVars
  <2>2. UNCHANGED Chains!chainVars
    BY <2>1 DEF Chains!chainVars, call, chains, stageRequest, stagesInFlight
  <2>3. UNCHANGED Directory!directoryVars
    BY <2>1 DEF Directory!directoryVars, node, dir, gone, handler, doc, slots, match
  <2>4. UNCHANGED Delivery!deliveryVars
    BY <2>1 DEF Delivery!deliveryVars, kind, queue, socket, registered, waiting, session, ended
  <2> QED
    BY <2>1, <2>2, <2>3, <2>4
<1>3. CASE MCNext
  BY <1>3 DEF MCNext
<1> QED
  BY <1>1, <1>2, <1>3

LEMMA TablesInvInit == ASSUME MCInit PROVE TablesInv
<1>1. ASSUME focus = "chains" PROVE Chains!ChainsInv /\ Chains!TurnInv
  <2>1. Chains!ChainsInit
    BY <1>1 DEF MCInit
  <2> QED
    BY <2>1, TableConstants, ChainsInvInit, TurnInvInit
<1>2. ASSUME focus = "directory" PROVE Directory!DirectoryInv
  <2>1. Directory!DirectoryInit
    BY <1>2 DEF MCInit
  <2> QED
    BY <2>1, TableConstants, DirectoryInvInit
<1>3. ASSUME focus = "delivery" PROVE Delivery!DeliveryInv
  <2>1. Delivery!DeliveryInit
    BY <1>3 DEF MCInit
  <2> QED
    BY <2>1, TableConstants, DeliveryInvInit
<1> QED
  BY <1>1, <1>2, <1>3 DEF TablesInv

LEMMA ChainsStand ==
    ASSUME UNCHANGED Chains!chainVars, Chains!ChainsInv, Chains!TurnInv
    PROVE  Chains!ChainsInv' /\ Chains!TurnInv'
<1>1. UNCHANGED <<call, chains, stageRequest, stagesInFlight>>
  BY DEF Chains!chainVars
<1>2. UNCHANGED <<Chains!Done, Chains!Known>>
  BY <1>1 DEF Chains!Done, Chains!Known
<1>3. Chains!ChainsTypeOK'
  BY <1>1 DEF Chains!ChainsInv, Chains!ChainsTypeOK
<1>4. Chains!TurnInv'
  BY <1>1, TurnStays DEF Chains!TurnInv, Chains!Same
<1> QED
  BY <1>1, <1>2, <1>3, <1>4 DEF Chains!ChainsInv

LEMMA DeliveryStands ==
    ASSUME UNCHANGED Delivery!deliveryVars, Delivery!DeliveryInv
    PROVE  Delivery!DeliveryInv'
<1>1. UNCHANGED <<kind, queue, socket, registered, waiting, session, ended>>
  BY DEF Delivery!deliveryVars
<1>2. UNCHANGED <<Delivery!Events, Delivery!Queued, Delivery!Buffered, Delivery!Connected>>
  BY <1>1 DEF Delivery!Events, Delivery!Queued, Delivery!Buffered, Delivery!Connected
<1>3. Delivery!DeliveryTypeOK' /\ Delivery!NothingStranded'
  BY <1>1, <1>2 DEF Delivery!DeliveryInv, Delivery!DeliveryTypeOK, Delivery!NothingStranded,
     Delivery!SocketRecords
<1>4. ASSUME NEW e \in Delivery!Events PROVE Delivery!OneAt(e)'
  BY <1>1, <1>2 DEF Delivery!DeliveryInv, Delivery!OneAt
<1> QED
  BY <1>1, <1>2, <1>3, <1>4 DEF Delivery!DeliveryInv

LEMMA TablesInvNext == ASSUME TablesInv, [MCNext]_mcVars PROVE TablesInv'
<1>1. focus' = focus
  BY TableSteps
<1>2. focus = "chains" => Chains!ChainsInv' /\ Chains!TurnInv'
  BY TableSteps, TableConstants, ChainsInvNext, TurnInvNext, ChainsStand DEF TablesInv
<1>3. focus = "directory" => Directory!DirectoryInv'
  BY TableSteps, TableConstants, DirectoryInvNext DEF TablesInv
<1>4. focus = "delivery" => Delivery!DeliveryInv'
  BY TableSteps, TableConstants, DeliveryInvNext, DeliveryStands DEF TablesInv
<1> QED
  BY <1>1, <1>2, <1>3, <1>4 DEF TablesInv

\* A stage of a chain goes out after the one before it has a result; a frame that
\* was sent once has one stage in flight at a time, each once, and after its chain
\* is closed only the one that was being matched then.  The tables of nodes and
\* OFFERs agree and stay within their limits, a revoked OFFER is not matched, and
\* a terminal event is in exactly one place, from which it will be sent
\* (dispatchChainStage, matchingOffers, sendSocketEvent).
THEOREM Tables == MCSpec => []TablesSound
<1>1. MCInit => TablesInv
  BY TablesInvInit
<1>2. TablesInv /\ [MCNext]_mcVars => TablesInv'
  BY TablesInvNext
<1>3. TablesInv => TablesSound
  <2> SUFFICES ASSUME TablesInv PROVE TablesSound
    OBVIOUS
  <2>1. CASE focus = "chains"
    BY <2>1, TableConstants, ChainsInvSound DEF TablesInv, TablesSound, Chains!ChainsInv
  <2>2. CASE focus = "directory"
    BY <2>2 DEF TablesInv, TablesSound, Directory!DirectoryInv, Directory!NoRevokedMatch
  <2>3. CASE focus = "delivery"
    BY <2>3, TableConstants, DeliveryInvSound DEF TablesInv, TablesSound, Delivery!DeliveryInv
  <2>4. CASE focus \notin {"chains", "directory", "delivery"}
    BY <2>4 DEF TablesSound
  <2> QED
    BY <2>1, <2>2, <2>3, <2>4
<1> QED
  BY <1>1, <1>2, <1>3, PTL DEF MCSpec, mcVars
=============================================================================
