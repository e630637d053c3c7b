------------------------- MODULE DistributedContext -------------------------
(***************************************************************************)
(* Holders of context partitions and the coordinator that asks one holder  *)
(* per partition through the relay (node/distributed-context.js,           *)
(* core/context/distributed-retrieval.js).  Several retrievals may be      *)
(* under way on one coordinator: they poll the same inbox.                 *)
(*                                                                         *)
(* A NEED is named by its retrieval and partition.  The relay, which is    *)
(* RelayDelivery's subject, keeps an inbox for every holder and one for    *)
(* the coordinator, and a poll takes all of it.                            *)
(***************************************************************************)
EXTENDS Naturals, Sequences, FiniteSets

CONSTANTS
    Retrievals, Holders,
    Partitions,     \* 0..n
    PartOf,         \* the partition each holder holds
    Rank,           \* the order of holders by trust, then node id
    MaxStarts       \* how often holders are started

Nobody == "nobody"
Needs == Retrievals \X Partitions
Loops == 1..MaxStarts
Elements(s) == {s[i] : i \in 1..Len(s)}

VARIABLES
    host,        \* of each holder: running, its loops that are alive, what it has offered
    starts,
    needInbox,   \* NEEDs for each holder at the relay
    batch,       \* NEEDs each loop of a holder has polled and not yet handled
    inbox,       \* RESULTs for the coordinator at the relay
    retrieval,   \* of each: pc, the holder of each NEED, the results it has
    unmatched,   \* unmatchedEvents
    lost         \* RESULTs of a poll that threw before it reached them

contextVars == <<host, starts, needInbox, batch, inbox, retrieval, unmatched, lost>>

ContextTypeOK ==
    /\ \A h \in Holders :
          /\ host[h].running \in BOOLEAN /\ host[h].alive \subseteq Loops
          /\ host[h].offered \in {"none", "discovery", "both"}
          /\ needInbox[h] \in Seq(Needs) /\ batch[h] \in [Loops -> Seq(Needs)]
    /\ \A r \in Retrievals :
          /\ retrieval[r].pc \in {"new", "assign", "wait", "verify", "done", "failed", "timeout"}
          /\ retrieval[r].of \in [Partitions -> Holders \cup {Nobody}]
    /\ starts \in 0..MaxStarts

ContextInit ==
    /\ host = [h \in Holders |-> [running |-> FALSE, alive |-> {}, offered |-> "none"]]
    /\ starts = 0 /\ unmatched = {} /\ lost = {} /\ inbox = <<>>
    /\ needInbox = [h \in Holders |-> <<>>] /\ batch = [h \in Holders |-> [l \in Loops |-> <<>>]]
    /\ retrieval = [r \in Retrievals |-> [pc |-> "new", of |-> [p \in Partitions |-> Nobody],
                                          sent |-> {}, results |-> {}, refused |-> FALSE]]

---------------------------------------------------------------------------

\* publish: the discovery OFFER first, then the request OFFER; the ids are kept only
\* when both are made.
OfferDiscovery(h) ==
    /\ ~host[h].running /\ host[h].offered = "none" /\ starts < MaxStarts
    /\ host' = [host EXCEPT ![h].offered = "discovery"]
    /\ UNCHANGED <<starts, needInbox, batch, inbox, retrieval, unmatched, lost>>

FreeLoop(h) == {l \in Loops : l \notin host[h].alive /\ 1..l-1 \subseteq host[h].alive}

\* The rest of start(): without effect on a holder that says it is running.  A loop
\* that stop() has not ended yet goes on beside the new one.
Start(h, l) ==
    /\ ~host[h].running /\ host[h].offered # "none" /\ starts < MaxStarts /\ l \in FreeLoop(h)
    /\ starts' = starts + 1
    /\ host' = [host EXCEPT ![h] = [running |-> TRUE, alive |-> @.alive \cup {l}, offered |-> "both"]]
    /\ UNCHANGED <<needInbox, batch, inbox, retrieval, unmatched, lost>>

\* stop: the loop ends after the poll it is in.
Stop(h) ==
    /\ host[h].running
    /\ host' = [host EXCEPT ![h].running = FALSE]
    /\ UNCHANGED <<starts, needInbox, batch, inbox, retrieval, unmatched, lost>>

LoopEnds(h, l) ==
    /\ l \in host[h].alive /\ ~host[h].running /\ batch[h][l] = <<>>
    /\ host' = [host EXCEPT ![h].alive = @ \ {l}]
    /\ UNCHANGED <<starts, needInbox, batch, inbox, retrieval, unmatched, lost>>

\* serveOnce: one poll takes all NEEDs.
ServeOnce(h, l) ==
    /\ l \in host[h].alive /\ host[h].running /\ batch[h][l] = <<>> /\ needInbox[h] # <<>>
    /\ batch' = [batch EXCEPT ![h][l] = needInbox[h]]
    /\ needInbox' = [needInbox EXCEPT ![h] = <<>>]
    /\ UNCHANGED <<host, starts, inbox, retrieval, unmatched, lost>>

Result(n, h, kind) == [need |-> n, from |-> h, kind |-> kind]

\* handleNeed: denied, invalid, or candidates with their receipts.
HandleNeed(h, l, kind) ==
    /\ l \in host[h].alive /\ batch[h][l] # <<>>
    /\ inbox' = Append(inbox, Result(Head(batch[h][l]), h, kind))
    /\ batch' = [batch EXCEPT ![h][l] = Tail(@)]
    /\ UNCHANGED <<host, starts, needInbox, retrieval, unmatched, lost>>

\* The retrieval function or the answer throws: the loop ends with the rest of what
\* it polled, and the holder goes on saying that it runs.
LoopThrows(h, l) ==
    /\ l \in host[h].alive /\ batch[h][l] # <<>>
    /\ host' = [host EXCEPT ![h].alive = @ \ {l}]
    /\ batch' = [batch EXCEPT ![h][l] = <<>>]
    /\ UNCHANGED <<starts, needInbox, inbox, retrieval, unmatched, lost>>

---------------------------------------------------------------------------

\* resolveDistributedCoverage: the preferred holder of every partition.
Offering(p) == {h \in Holders : PartOf[h] = p /\ host[h].offered # "none"}

Retrieve(r) ==
    /\ retrieval[r].pc = "new"
    /\ retrieval' = [retrieval EXCEPT ![r] =
          IF \E p \in Partitions : Offering(p) = {}
          THEN [@ EXCEPT !.pc = "failed"]
          ELSE [@ EXCEPT !.pc = "assign",
                         !.of = [p \in Partitions |-> CHOOSE h \in Offering(p) :
                                    \A g \in Offering(p) : Rank[h] <= Rank[g]]]]
    /\ UNCHANGED <<host, starts, needInbox, batch, inbox, unmatched, lost>>

\* The NEEDs go out side by side; one that is not routed to its holder fails the
\* retrieval, whatever becomes of the others.
SendNeed(r, p) ==
    LET h == retrieval[r].of[p]
        sent == retrieval[r].sent \cup {p}
    IN /\ retrieval[r].pc \in {"assign", "failed"} /\ p \notin retrieval[r].sent
       /\ h # Nobody /\ host[h].offered = "both"
       /\ needInbox' = [needInbox EXCEPT ![h] = Append(@, <<r, p>>)]
       /\ retrieval' = [retrieval EXCEPT ![r].sent = sent,
                           ![r].pc = IF @ = "assign" /\ sent = Partitions THEN "wait" ELSE @]
       /\ UNCHANGED <<host, starts, batch, inbox, unmatched, lost>>

NeedFails(r, p) ==
    /\ retrieval[r].pc = "assign" /\ p \notin retrieval[r].sent
    /\ retrieval' = [retrieval EXCEPT ![r].sent = @ \cup {p}, ![r].pc = "failed"]
    /\ UNCHANGED <<host, starts, needInbox, batch, inbox, unmatched, lost>>

\* waitForHolderResults: one poll takes the whole inbox.  What another retrieval
\* waits for goes to unmatchedEvents; a RESULT that does not verify or is of another
\* provider ends the retrieval in the middle of the events.
Pending(r, e) == e.need[1] = r /\ e.need[2] \notin retrieval[r].results

Good(r, e) == e.kind # "bad" /\ e.from = retrieval[r].of[e.need[2]]

Poll(r) ==
    LET bad == {i \in 1..Len(inbox) : Pending(r, inbox[i]) /\ ~Good(r, inbox[i])}
        stop == IF bad = {} THEN Len(inbox) + 1 ELSE CHOOSE i \in bad : \A j \in bad : i <= j
        read == {inbox[i] : i \in 1..stop - 1}
        mine == {e \in read : Pending(r, e)}
        got == retrieval[r].results \cup {e.need[2] : e \in mine}
        refused == \E e \in mine : e.kind = "refused"
    IN /\ retrieval[r].pc = "wait" /\ inbox # <<>>
       /\ inbox' = <<>>
       /\ unmatched' = unmatched \cup (read \ mine)
       /\ lost' = lost \cup {inbox[i] : i \in stop..Len(inbox)}
       /\ retrieval' = [retrieval EXCEPT
             ![r].results = got,
             ![r].refused = @ \/ refused,
             ![r].pc = IF bad # {} THEN "failed" ELSE IF got = Partitions THEN "verify" ELSE "wait"]
       /\ UNCHANGED <<host, starts, needInbox, batch>>

Timeout(r) ==
    /\ retrieval[r].pc = "wait"
    /\ retrieval' = [retrieval EXCEPT ![r].pc = "timeout"]
    /\ UNCHANGED <<host, starts, needInbox, batch, inbox, unmatched, lost>>

\* verifyDistributedCandidate over every candidate, then the selector.
Verify(r) ==
    /\ retrieval[r].pc = "verify"
    /\ \E pc \in {"done", "failed"} :
          /\ pc = "done" => ~retrieval[r].refused
          /\ retrieval' = [retrieval EXCEPT ![r].pc = pc]
    /\ UNCHANGED <<host, starts, needInbox, batch, inbox, unmatched, lost>>

ContextNext ==
    \/ \E h \in Holders :
          \/ OfferDiscovery(h) \/ Stop(h)
          \/ \E l \in Loops :
                \/ Start(h, l) \/ LoopEnds(h, l) \/ ServeOnce(h, l) \/ LoopThrows(h, l)
                \/ \E kind \in {"answer", "refused", "bad"} : HandleNeed(h, l, kind)
    \/ \E r \in Retrievals :
          \/ Retrieve(r) \/ Poll(r) \/ Timeout(r) \/ Verify(r)
          \/ \E p \in Partitions : SendNeed(r, p) \/ NeedFails(r, p)

ContextSpec == ContextInit /\ [][ContextNext]_contextVars

---------------------------------------------------------------------------

Answered(r, p) == \E e \in Elements(inbox) \cup unmatched \cup lost : e.need = <<r, p>>
AtHolder(h) == Elements(needInbox[h]) \cup UNION {Elements(batch[h][l]) : l \in Loops}
Alone(r) == \A s \in Retrievals \ {r} : retrieval[s].pc = "new"

(* A retrieval answers only from a RESULT to its own NEED for every        *)
(* partition, by the holder it chose, while late answers of retrievals     *)
(* that gave up and answers of others come in between; a RESULT is never   *)
(* used twice; and a retrieval that was alone misses none: when it times   *)
(* out, what it waits for has not been answered or is still at the relay   *)
(* (waitForHolderResults, retrieve).                                       *)
AnswersBelong ==
    \A r \in Retrievals :
        /\ retrieval[r].pc = "done" =>
              /\ retrieval[r].results = Partitions
              /\ \A p \in Partitions : PartOf[retrieval[r].of[p]] = p
        /\ \A p \in retrieval[r].results :
              ~Answered(r, p) /\ \A h \in Holders : <<r, p>> \notin AtHolder(h)
        /\ retrieval[r].pc \in {"wait", "timeout"} /\ Alone(r) =>
              \A p \in Partitions \ retrieval[r].results :
                  \A e \in unmatched \cup lost : e.need # <<r, p>>

=============================================================================
