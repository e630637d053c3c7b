---------------------------- MODULE RelayMailbox ----------------------------
(***************************************************************************)
(* The polling relay of the test network: network/testnet/relay-service.js *)
(* and both ends of network/transport/http-relay.js, for one recipient.    *)
(* Senders post envelopes and poll for results; the recipient long-polls,  *)
(* handles what it is given and reports the outcome.  Any request, and     *)
(* any response, may be lost; a message may expire at any time.            *)
(***************************************************************************)
EXTENDS Naturals, Sequences

CONSTANT Messages    \* the envelopes posted for the recipient

VARIABLES
    sender,    \* per message: how far HttpPollingRelayClient.fallback is
    item,      \* messages: the relay's entry for it
    queue,     \* queues: the ids that wait for the recipient
    waiter,    \* waiters: no long poll, the recipient's, or one it gave up
    receiver,  \* the recipient's loop: what it does, and with which message
    handled    \* per message: how often the handler ran, and how it ended

mailboxVars == <<sender, item, queue, waiter, receiver, handled>>

Nobody == [pc |-> "idle", msg |-> <<>>, out |-> "none"]

Entries ==
    [Messages -> [state : {"absent", "queued", "delivered", "completed", "gone"},
                  out : {"none", "result", "error"}]]

MailboxTypeOK ==
    /\ sender \in [Messages -> {"new", "waiting", "result", "error", "timeout"}]
    /\ item \in Entries
    /\ queue \in Seq(Messages)
    /\ waiter \in {"none", "live", "abandoned"}
    /\ receiver \in [pc : {"idle", "polling", "handling", "reporting", "stopped"},
                    msg : {<<>>} \cup {<<m>> : m \in Messages}, out : {"none", "result", "error"}]
    /\ handled \in [Messages -> [runs : Nat, out : {"none", "result", "error"}]]

MailboxInit ==
    /\ sender = [m \in Messages |-> "new"]
    /\ item = [m \in Messages |-> [state |-> "absent", out |-> "none"]]
    /\ queue = <<>>
    /\ waiter = "none"
    /\ receiver = Nobody
    /\ handled = [m \in Messages |-> [runs |-> 0, out |-> "none"]]

---------------------------------------------------------------------------
(* The relay.                                                              *)

NextKept(q, items) ==
    [queue |-> q, items |-> items, msg |-> IF q = <<>> THEN <<>> ELSE <<Head(q)>>]

\* nextFor: the first id still queued is marked delivered and leaves the queue,
\* with the dead ids before it.
NextFor(q, items) ==
    LET live == {i \in DOMAIN q : items[q[i]].state = "queued"}
        i == CHOOSE j \in live : \A k \in live : j <= k
    IN IF live = {} THEN [queue |-> <<>>, items |-> items, msg |-> <<>>]
       ELSE [queue |-> SubSeq(q, i + 1, Len(q)), msg |-> <<q[i]>>,
             items |-> [items EXCEPT ![q[i]].state = "delivered"]]

\* The queue without m, which is in it at most once.
Unqueued(q, m) ==
    LET places == {j \in DOMAIN q : q[j] = m}
        i == CHOOSE j \in places : TRUE
    IN IF places = {} THEN q ELSE SubSeq(q, 1, i - 1) \o SubSeq(q, i + 1, Len(q))

\* A response that carries a message reaches the recipient, or is lost.
Deliver(next) ==
    /\ item' = next.items
    /\ queue' = next.queue
    /\ receiver' \in {[pc |-> "handling", msg |-> next.msg, out |-> "none"], Nobody}

\* POST /v1/relay: the envelope is queued and a waiting poll is woken with the
\* oldest message, a poll that its client gave up included.
Post(m) ==
    LET next == NextFor(Append(queue, m), [item EXCEPT ![m].state = "queued"])
    IN /\ sender[m] = "new"
       /\ sender' \in {[sender EXCEPT ![m] = r] : r \in {"waiting", "error"}}
       /\ IF waiter = "none"
          THEN /\ item' = [item EXCEPT ![m].state = "queued"]
               /\ queue' = Append(queue, m)
               /\ UNCHANGED <<waiter, receiver>>
          ELSE /\ waiter' = "none"
               /\ IF waiter = "live" THEN Deliver(next)
                  ELSE item' = next.items /\ queue' = next.queue /\ UNCHANGED receiver
       /\ UNCHANGED handled

\* The post never arrives, or the relay is disabled.
PostLost(m) ==
    /\ sender[m] = "new"
    /\ sender' = [sender EXCEPT ![m] = "error"]
    /\ UNCHANGED <<item, queue, waiter, receiver, handled>>

\* GET /v1/poll: a queued message at once, else the poll waits in place of an
\* older one.
Poll ==
    LET next == NextFor(queue, item)
    IN /\ receiver.pc = "idle"
       /\ IF next.msg # <<>> THEN Deliver(next) /\ UNCHANGED waiter
          ELSE /\ queue' = next.queue /\ waiter' = "live"
               /\ receiver' = [receiver EXCEPT !.pc = "polling"]
               /\ UNCHANGED item
       /\ UNCHANGED <<sender, handled>>

\* The wait ends with 204, or the recipient gives its request up first.
PollEnds ==
    /\ receiver.pc = "polling"
    /\ waiter' \in IF waiter = "live" THEN {"none", "abandoned"} ELSE {waiter}
    /\ receiver' = Nobody
    /\ UNCHANGED <<sender, item, queue, handled>>

\* The close event of a request its client gave up.
WaiterCloses ==
    /\ waiter = "abandoned"
    /\ waiter' = "none"
    /\ UNCHANGED <<sender, item, queue, receiver, handled>>

\* expire: an entry past its time to live is dropped, and its id unqueued.
Expire(m) ==
    /\ item[m].state \in {"queued", "delivered", "completed"}
    /\ item' = [item EXCEPT ![m].state = "gone"]
    /\ queue' = Unqueued(queue, m)
    /\ UNCHANGED <<sender, waiter, receiver, handled>>

---------------------------------------------------------------------------
(* The recipient: #pollOnce.                                               *)

\* acceptRelayedEnvelope: the handler runs and succeeds or fails, or the
\* envelope is refused before it.
Handle ==
    LET m == receiver.msg[1]
    IN /\ receiver.pc = "handling"
       /\ \E out \in {"result", "error"}, runs \in {0, 1} :
            /\ out = "result" => runs = 1
            /\ handled' = [handled EXCEPT ![m] = [runs |-> @.runs + runs, out |-> out]]
            /\ receiver' = [receiver EXCEPT !.pc = "reporting", !.out = out]
       /\ UNCHANGED <<sender, item, queue, waiter>>

\* POST /v1/complete: applied when the entry is still there.  A result whose
\* report fails, or whose answer is lost, is reported again as an error.
Complete ==
    LET m == receiver.msg[1]
        done == [item EXCEPT ![m] = [state |-> "completed", out |-> receiver.out]]
    IN /\ receiver.pc = "reporting"
       /\ \/ /\ item[m].state # "gone" /\ item' = done
             /\ receiver' = Nobody
          \/ /\ \/ item[m].state # "gone" /\ item' = done
                \/ UNCHANGED item
             /\ receiver' = IF receiver.out = "result"
                            THEN [receiver EXCEPT !.out = "error"] ELSE Nobody
       /\ UNCHANGED <<sender, queue, waiter, handled>>

\* stopReceiver: the loop ends where it would poll again.
StopReceiver ==
    /\ receiver.pc = "idle"
    /\ receiver' = [receiver EXCEPT !.pc = "stopped"]
    /\ UNCHANGED <<sender, item, queue, waiter, handled>>

StartReceiver ==
    /\ receiver.pc = "stopped"
    /\ receiver' = Nobody
    /\ UNCHANGED <<sender, item, queue, waiter, handled>>

---------------------------------------------------------------------------
(* The sender: fallback after its post.                                    *)

\* GET /v1/result: an outcome is handed out once and its entry deleted; an
\* entry that is gone, and an answer that is lost, are errors.
FetchResult(m) ==
    /\ sender[m] = "waiting" /\ item[m].state \in {"completed", "gone"}
    /\ item' = [item EXCEPT ![m].state = "gone"]
    /\ \E lost \in BOOLEAN :
         sender' = [sender EXCEPT ![m] = IF lost \/ item[m].state = "gone" THEN "error"
                                         ELSE item[m].out]
    /\ UNCHANGED <<queue, waiter, receiver, handled>>

SenderTimesOut(m) ==
    /\ sender[m] = "waiting"
    /\ sender' = [sender EXCEPT ![m] = "timeout"]
    /\ UNCHANGED <<item, queue, waiter, receiver, handled>>

MailboxNext ==
    \/ \E m \in Messages :
         Post(m) \/ PostLost(m) \/ Expire(m) \/ FetchResult(m) \/ SenderTimesOut(m)
    \/ Poll \/ PollEnds \/ WaiterCloses
    \/ Handle \/ Complete \/ StopReceiver \/ StartReceiver

MailboxSpec == MailboxInit /\ [][MailboxNext]_mailboxVars

---------------------------------------------------------------------------

(* A relayed envelope is handled at most once, whatever is lost, given up, *)
(* expired or reported again (nextFor, #pollOnce).                         *)
RelayedOnce == \A m \in Messages : handled[m].runs <= 1

(* A sender that is given a result is given the handler's: the handler ran *)
(* for this envelope and succeeded (fallback, /v1/complete, /v1/result).   *)
ResultIsTheHandlers ==
    \A m \in Messages :
        sender[m] = "result" => handled[m] = [runs |-> 1, out |-> "result"]

(* A poll waits only while there is nothing to deliver: a post that comes  *)
(* between a poll's look at the queue and its wait cannot be overlooked    *)
(* (wake, /v1/poll).                                                       *)
WaitsOnlyForNothing ==
    waiter # "none" => \A i \in DOMAIN queue : item[queue[i]].state # "queued"

---------------------------------------------------------------------------
(* The inductive invariant: what the recipient holds left the queue for    *)
(* good, and an outcome that says result is the handler's.                 *)

\* The recipient works on m.
Holds(m) == receiver.pc \in {"handling", "reporting"} /\ receiver.msg = <<m>>

\* An envelope that was not handed to the recipient yet has no outcome.
Untouched ==
    \A m \in Messages :
        /\ sender[m] = "new" => item[m].state = "absent"
        /\ item[m].state \in {"absent", "queued"} =>
              ~Holds(m) /\ item[m].out = "none" /\ handled[m].runs = 0

\* The recipient works on a message, which it has not handled before.
Working ==
    /\ receiver.pc \in {"handling", "reporting"} => receiver.msg # <<>>
    /\ receiver.pc = "reporting" => receiver.out # "none"
    /\ receiver.pc \notin {"handling", "reporting"} => receiver.msg = <<>> /\ receiver.out = "none"
    /\ \A m \in Messages :
          Holds(m) /\ receiver.pc = "handling" => handled[m].runs = 0 /\ item[m].out = "none"

\* The recipient reports that m succeeded.
Reports(m) == Holds(m) /\ receiver.pc = "reporting" /\ receiver.out = "result"

\* A result that is reported, kept or fetched is the one the handler returned.
ResultsAreReal ==
    \A m \in Messages :
        /\ (item[m].out = "result" \/ Reports(m)) => handled[m] = [runs |-> 1, out |-> "result"]
        /\ item[m].state = "completed" => item[m].out # "none"
        /\ sender[m] = "result" => item[m] = [state |-> "gone", out |-> "result"]

MailboxInv ==
    /\ MailboxTypeOK /\ Untouched /\ Working /\ ResultsAreReal
    /\ RelayedOnce /\ WaitsOnlyForNothing
=============================================================================
