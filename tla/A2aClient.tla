----------------------------- MODULE A2aClient -----------------------------
(***************************************************************************)
(* The A2A client side: adapters/a2a/client.js (discovery, execute with    *)
(* polling) and adapters/a2a/lifecycle-client.js (streams).  Calls of one  *)
(* client share the discovered card and interleave at every request; the   *)
(* remote agent is not trusted: it may answer with any task, context,      *)
(* state and artifacts.                                                    *)
(***************************************************************************)
EXTENDS Naturals, Sequences, SequencesExt, FiniteSets

CONSTANTS
    AgentCalls,  \* calls of execute
    Discoveries, \* calls of discover
    Streams,     \* calls of sendStreamingMessage and subscribeToTask
    Cards,       \* Agent Cards the remote may serve, each with its interface
    TaskIds, Contexts,
    Parts,       \* sequences of artifacts or parts the remote may answer with
    MaxBytes,    \* maxArtifactBytes
    MaxParts,    \* MAX_REMOTE_ARTIFACT_PARTS
    MaxPolls     \* bound on GetTask calls of one execution

VARIABLES
    discovery,  \* the card in use, 0 before the first
    fetch,      \* per discover call: the card it fetched
    exec,       \* per execution: where it is, and what it knows of its task
    stream      \* per stream: correlation, and the task ids it has yielded

clientVars == <<discovery, fetch, exec, stream>>

States == {"submitted", "working", "completed", "failed", "input_required"}
SettledStates == {"completed", "failed", "input_required"}
Answers == [id : TaskIds, context : Contexts \cup {"none"}, state : States]
NotExecuted == [pc |-> "idle", card |-> 0, sentTo |-> 0, sends |-> 0, id |-> "none",
                mine |-> "none", context |-> "none",
                state |-> "submitted", polls |-> 0, output |-> <<>>]

NoStream == [pc |-> "idle", asked |-> "none", task |-> "none", context |-> "none", yielded |-> {}]

\* A task has a name, a part has an id and a size, and the limits are counts.
ASSUME ClientAssumption ==
    /\ "none" \notin TaskIds
    /\ Parts \subseteq Seq([id : Nat, bytes : Nat])
    /\ {MaxBytes, MaxPolls} \subseteq Nat

ClientTypeOK ==
    /\ discovery \in Cards \cup {0}
    /\ fetch \in [Discoveries -> Cards \cup {0}]
    /\ exec \in [AgentCalls ->
                    [pc : {"idle", "discovered", "polling", "verifying", "output", "error"},
                     card : Cards \cup {0}, sentTo : Cards \cup {0}, sends : 0..1,
                     id : TaskIds \cup {"none"}, mine : TaskIds \cup {"none"},
                     context : Contexts \cup {"none"}, state : States, polls : 0..MaxPolls,
                     output : Parts \cup {<<>>}]]
    /\ stream \in [Streams ->
                    [pc : {"idle", "open", "error", "ended"}, asked : TaskIds \cup {"none"},
                     task : TaskIds \cup {"none"}, context : Contexts \cup {"none"},
                     yielded : SUBSET TaskIds]]

ClientInit ==
    /\ discovery = 0
    /\ fetch = [d \in Discoveries |-> 0]
    /\ exec = [e \in AgentCalls |-> NotExecuted]
    /\ stream = [s \in Streams |-> NoStream]

---------------------------------------------------------------------------
\* discover(): the card is fetched and validated (a public one, or the extended one
\* behind it), and takes effect when the call ends, whatever order they started in.
FetchCard(d, card) ==
    /\ fetch[d] = 0
    /\ fetch' = [fetch EXCEPT ![d] = card]
    /\ UNCHANGED <<discovery, exec, stream>>

Discovered(d) ==
    /\ fetch[d] # 0 /\ discovery # fetch[d]
    /\ discovery' = fetch[d]
    /\ UNCHANGED <<fetch, exec, stream>>

\* execute(): the card its metadata will name.
Execute(e) ==
    /\ exec[e].pc = "idle" /\ discovery # 0
    /\ exec' = [exec EXCEPT ![e].pc = "discovered", ![e].card = discovery]
    /\ UNCHANGED <<discovery, fetch, stream>>

\* An execution whose message went to the card's interface of that moment.
Sent(e, pc, id, context, state) ==
    [pc |-> pc, card |-> exec[e].card, sentTo |-> discovery, sends |-> exec[e].sends + 1,
     id |-> id, mine |-> id, context |-> context, state |-> state, polls |-> 0,
     output |-> <<>>]

\* sendMessage(): the answer is a task, and anything malformed or of unknown state
\* is an error.  A message is never resent.
SendMessage(e) ==
    /\ exec[e].pc = "discovered"
    /\ \/ \E a \in Answers :
            exec' = [exec EXCEPT ![e] = Sent(e, IF a.state \in SettledStates THEN "verifying" ELSE "polling",
                                             a.id, a.context, a.state)]
       \/ exec' = [exec EXCEPT ![e] = Sent(e, "error", "none", "none", "submitted")]
    /\ UNCHANGED <<discovery, fetch, stream>>

\* The answer is one message and no task: its parts are verified.
MessageAnswered(e) ==
    /\ exec[e].pc = "discovered"
    /\ exec' = [exec EXCEPT ![e] = Sent(e, "verifying", "none", "none", "completed")]
    /\ UNCHANGED <<discovery, fetch, stream>>

PollAnyTask(e, a) ==
    /\ exec[e].pc = "polling" /\ exec[e].polls < MaxPolls
    /\ exec' = [exec EXCEPT ![e].polls = @ + 1, ![e].state = a.state, ![e].id = a.id,
                            ![e].pc = IF a.state \in SettledStates THEN "verifying" ELSE @]
    /\ UNCHANGED <<discovery, fetch, stream>>

\* pollTask(), getTask(): the answer must name the task, and the context if both do.
PollTask(e, a) ==
    LET drifted == "none" \notin {exec[e].context, a.context} /\ a.context # exec[e].context IN
    /\ exec[e].pc = "polling" /\ exec[e].polls < MaxPolls
    /\ exec' = [exec EXCEPT ![e].polls = @ + 1,
                            ![e].state = IF a.id = exec[e].id /\ ~ drifted THEN a.state ELSE @,
                            ![e].pc = IF a.id # exec[e].id \/ drifted THEN "error"
                                      ELSE IF a.state \in SettledStates THEN "verifying" ELSE @]
    /\ UNCHANGED <<discovery, fetch, stream>>

\* taskTimeoutMs passes, or a GetTask fails.
PollFails(e) ==
    /\ exec[e].pc = "polling"
    /\ exec' = [exec EXCEPT ![e].pc = "error"]
    /\ UNCHANGED <<discovery, fetch, stream>>

\* verifiedOutputFromTask(), verifiedOutputFromParts(): the artifacts of a task or
\* the parts of a message one by one against what is left of the budget; a task
\* has some budget left before each of its artifacts, and each id once.
Spent(parts, i) == FoldSeq(LAMBDA a, sum : sum + a.bytes, 0, SubSeq(parts, 1, i))

Verify(parts, ofTask) ==
    /\ parts # <<>> /\ Len(parts) <= MaxParts
    /\ \A i \in 1..Len(parts) : Spent(parts, i) <= MaxBytes
    /\ ofTask => \A i \in 1..Len(parts) :
                    /\ Spent(parts, i - 1) < MaxBytes
                    /\ \A j \in 1..(i - 1) : parts[j].id # parts[i].id

Verified(e, parts) ==
    LET ok == exec[e].state = "completed" /\ Verify(parts, exec[e].mine # "none") IN
    /\ exec[e].pc = "verifying"
    /\ exec' = [exec EXCEPT ![e].pc = IF ok THEN "output" ELSE "error",
                            ![e].output = IF ok THEN parts ELSE <<>>]
    /\ UNCHANGED <<discovery, fetch, stream>>

\* sendStreamingMessage (no task yet) or subscribeToTask(id).
OpenStream(s, id) ==
    /\ stream[s].pc = "idle" /\ discovery # 0
    /\ stream' = [stream EXCEPT ![s].pc = "open", ![s].asked = id, ![s].task = id]
    /\ UNCHANGED <<discovery, fetch, exec>>

\* correlateStreamEvent(): an id, once known, may not change.
StreamEvent(s, id, context) ==
    LET c == stream[s]
        wrong == \/ "none" \notin {c.task, id} /\ c.task # id
                 \/ "none" \notin {c.context, context} /\ c.context # context
        known(old, new) == IF old = "none" THEN new ELSE old
    IN /\ c.pc = "open"
       /\ stream' = IF wrong THEN [stream EXCEPT ![s].pc = "error"]
                    ELSE [stream EXCEPT ![s].task = known(@, id), ![s].context = known(@, context),
                                        ![s].yielded = @ \cup ({id} \ {"none"})]
       /\ UNCHANGED <<discovery, fetch, exec>>

\* The body ends; a frame cut short, or too many bytes, is an error.
StreamEnds(s) ==
    /\ stream[s].pc = "open"
    /\ \E pc \in {"ended", "error"} : stream' = [stream EXCEPT ![s].pc = pc]
    /\ UNCHANGED <<discovery, fetch, exec>>

ClientNext ==
    \/ \E d \in Discoveries : Discovered(d) \/ \E card \in Cards : FetchCard(d, card)
    \/ \E e \in AgentCalls : \/ Execute(e) \/ SendMessage(e) \/ MessageAnswered(e) \/ PollFails(e)
                             \/ \E a \in Answers : PollTask(e, a)
                             \/ \E parts \in Parts : Verified(e, parts)
    \/ \E s \in Streams : \/ StreamEnds(s)
                          \/ \E id \in TaskIds \cup {"none"} : OpenStream(s, id)
                          \/ \E id \in TaskIds \cup {"none"}, c \in Contexts \cup {"none"} : StreamEvent(s, id, c)

ClientSpec == ClientInit /\ [][ClientNext]_clientVars

---------------------------------------------------------------------------
\* An execution that has an output asked the remote once, and its output is of the
\* task that answer named, completed, within maxArtifactBytes; a stream yields
\* events of one task, the one subscribed to if it was.  This holds although the
\* remote may answer anything and the card may change between two requests.
TaskStaysItsOwn ==
    /\ \A e \in AgentCalls : exec[e].sends <= 1 /\ exec[e].id = exec[e].mine
    /\ \A e \in AgentCalls :
        exec[e].pc = "output" => /\ exec[e].state = "completed" /\ exec[e].sends = 1
                                 /\ Spent(exec[e].output, Len(exec[e].output)) <= MaxBytes
    /\ \A s \in Streams : /\ Cardinality(stream[s].yielded) <= 1
                          /\ stream[s].asked # "none" => stream[s].yielded \subseteq {stream[s].asked}

\* What is inductive: a call sends on its way out of "discovered" and not again,
\* and a stream has yielded at most the task it is correlated with.
CallsSent ==
    \A e \in AgentCalls :
        /\ exec[e].id = exec[e].mine
        /\ exec[e].pc \in {"idle", "discovered"} => exec[e].sends = 0
        /\ exec[e].pc \in {"polling", "verifying", "output"} => exec[e].sends = 1
        /\ exec[e].pc = "output" => /\ exec[e].state = "completed"
                                    /\ Spent(exec[e].output, Len(exec[e].output)) <= MaxBytes

StreamsCorrelated ==
    \A s \in Streams :
        /\ stream[s].yielded \subseteq {stream[s].task} \ {"none"}
        /\ stream[s].asked # "none" => stream[s].task = stream[s].asked
        /\ stream[s].pc = "idle" => stream[s].task = "none"

ClientInv == ClientTypeOK /\ CallsSent /\ StreamsCorrelated
===============================================================================
