----------------------------- MODULE A2aServer -----------------------------
(***************************************************************************)
(* The A2A facade: adapters/a2a/server.js, task-store.js and               *)
(* push-notification-store.js.  Requests of one owner create tasks,        *)
(* dispatch them as NEEDs and wait, stream, poll or cancel; every request  *)
(* drains the same two event queues of the relay, so any of them may       *)
(* record the events of any task.  A task is named by the request that     *)
(* creates it.  Time appears as expiries and deadlines that may strike.    *)
(***************************************************************************)
EXTENDS Naturals, Sequences, SequencesExt, FiniteSets

CONSTANTS
    Requests,     \* SendMessage and SendStreamingMessage calls
    MessageOf,    \* the messageId of each request
    MaxTasks,     \* maxTasks
    MaxMarkers,   \* maxReplayMarkers
    MaxPartials,  \* how many partials a provider sends for a NEED
    MaxExpiries   \* how many tasks outlive taskTtlMs

VARIABLES
    req,      \* per request: how far it is; of its stream, the cursor it opened with,
              \* the cursor, the status its snapshot showed and the events it carried
    task,     \* per request: the task object, with its stream events
    tasks,    \* store.tasks, in insertion order
    started,  \* byTruynRequestId: the tasks known by their NEED
    marker,   \* byMessageCorrelation: message -> task
    marked,   \* messageCorrelationByTaskId
    need,     \* the relay's view of the NEED of each task; external
    queue,    \* the relay's event queues, plain and compact; external
    batch,    \* per queue: the events polled and not yet recorded
    cancel,   \* per task: how far a CancelTask is
    push,     \* per task: the push configuration, and what it was sent
    expiries

a2aVars == <<req, task, tasks, started, marker, marked, need, queue, batch, cancel, push, expiries>>

Messages == {MessageOf[r] : r \in Requests}
Terminal == {"completed", "failed", "rejected", "canceled"}
Queues == {"plain", "compact"}
Stored == Range(tasks)

IsTerminal(r) == task[r].state \in Terminal
NoTask == [state |-> "none", seq |-> 0, events |-> <<>>]
Status(s) == [status |-> s, n |-> 0]
Artifact(n) == [status |-> "artifact", n |-> n]

A2aTypeOK ==
    /\ \A r \in Requests :
        /\ req[r].pc \in {"idle", "preparing", "dispatched", "waiting", "opening", "opened",
                         "streaming", "short", "done", "error", "gone"}
        /\ req[r].kind \in {"blocking", "immediate", "compact"}
        /\ task[r].state \in Terminal \cup {"none", "submitted", "working"}
        /\ need[r] \in {"none", "open", "resulted", "revoked"}
        /\ cancel[r] \in {"none", "revoking", "done"}
        /\ push[r].sent \in 0..Len(task[r].events)
    /\ Stored \cup started \cup marked \subseteq Requests
    /\ marker \in [Messages -> Requests \cup {"none"}]
    /\ expiries \in 0..MaxExpiries

\* A request without a stream; gone says that its client left.
NoStream == [pc |-> "gone", kind |-> "blocking", from |-> 0, cursor |-> 0, shown |-> "none", got |-> <<>>]

A2aInit ==
    /\ req = [r \in Requests |-> [NoStream EXCEPT !.pc = "idle"]]
    /\ task = [r \in Requests |-> NoTask]
    /\ tasks = <<>>
    /\ started = {}
    /\ marker = [m \in Messages |-> "none"]
    /\ marked = {}
    /\ need = [r \in Requests |-> "none"]
    /\ queue = [q \in Queues |-> <<>>]
    /\ batch = [q \in Queues |-> <<>>]
    /\ cancel = [r \in Requests |-> "none"]
    /\ push = [r \in Requests |-> [on |-> FALSE, since |-> 0, sent |-> 0]]
    /\ expiries = 0

---------------------------------------------------------------------------
(* A2aTaskStore.                                                           *)

\* The maps of the store, as one value that prune and delete rewrite.
Store == [tasks |-> tasks, started |-> started, marker |-> marker, marked |-> marked]

SetStore(s) ==
    /\ tasks' = s.tasks /\ started' = s.started
    /\ marker' = s.marker /\ marked' = s.marked

\* delete(): the replay marker goes only when the caller says so.
Delete(s, r, forget) ==
    [tasks |-> SelectSeq(s.tasks, LAMBDA x : x # r), started |-> s.started \ {r},
     marked |-> s.marked \ {r},
     marker |-> IF forget /\ r \in s.marked THEN [s.marker EXCEPT ![MessageOf[r]] = "none"] ELSE s.marker]

\* prune() at a full store removes the oldest terminal task, or throws.  It runs
\* in create and in every get.
TerminalStored == SelectSeq(tasks, LAMBDA r : IsTerminal(r))
PruneThrows == Len(tasks) >= MaxTasks /\ TerminalStored = <<>>
Pruned == IF Len(tasks) < MaxTasks THEN Store ELSE Delete(Store, TerminalStored[1], FALSE)

\* getAccessible(): the task is found after the prune.
Access(r) == ~ PruneThrows /\ r \in Range(Pruned.tasks) /\ SetStore(Pruned)

\* prune() finds a task older than taskTtlMs; its marker is as old.
Expire(r) ==
    /\ r \in Stored
    /\ expiries < MaxExpiries
    /\ expiries' = expiries + 1
    /\ SetStore(Delete(Store, r, TRUE))
    /\ UNCHANGED <<req, task, need, queue, batch, cancel, push>>

\* The marker of a task removed to make room expires later.
MarkerExpires(m) ==
    /\ marker[m] # "none" /\ marker[m] \notin marked
    /\ expiries < MaxExpiries
    /\ expiries' = expiries + 1
    /\ marker' = [marker EXCEPT ![m] = "none"]
    /\ UNCHANGED <<req, task, tasks, started, marked, need, queue, batch, cancel, push>>

\* A status or an artifact enters the task's stream, and deliverPendingPushEvents
\* hands what the cursor has not covered to the task's configurations.
Record(r, t) ==
    /\ task' = [task EXCEPT ![r] = t]
    /\ push' = IF push[r].on THEN [push EXCEPT ![r].sent = Len(t.events) - push[r].since] ELSE push

Ended(r, s) == [task[r] EXCEPT !.state = s, !.events = Append(@, Status(s))]

\* completeResult(): a task that has ended keeps its end.  The provider may have
\* failed, or its output may fail artifact validation.
CompleteResult(r) ==
    IF IsTerminal(r) THEN UNCHANGED <<task, push>>
    ELSE \E s \in {"completed", "failed"} : Record(r, Ended(r, s))

\* recordCompactEvent(), a PARTIAL: out of sequence, or not mappable, fails the task.
RecordPartial(r, n) ==
    IF IsTerminal(r) THEN UNCHANGED <<task, push>>
    ELSE IF n # task[r].seq THEN Record(r, Ended(r, "failed"))
    ELSE \/ Record(r, [task[r] EXCEPT !.seq = @ + 1, !.events = Append(@, Artifact(n))])
         \/ Record(r, Ended(r, "failed"))

---------------------------------------------------------------------------
(* SendMessage and SendStreamingMessage.                                   *)

\* Refused before a task exists: authentication, version, parameters, skill
\* selection, output modes, anonymous non-blocking, a continuation.
Refuse(r) ==
    /\ req[r].pc = "idle"
    /\ req' = [req EXCEPT ![r].pc = "error"]
    /\ UNCHANGED <<task, tasks, started, marker, marked, need, queue, batch, cancel, push, expiries>>

\* store.create(): prune, then the replay checks, then the task with its marker.
\* An invalid push configuration deletes the task again.
Create(r, kind, config) ==
    LET m == MessageOf[r]
        s == Pruned
        replayed == s.marker[m] # "none"
        full == Cardinality({x \in Messages : s.marker[x] # "none"}) >= MaxMarkers
    IN /\ req[r].pc = "idle"
       /\ IF PruneThrows
          THEN /\ req' = [req EXCEPT ![r].pc = "error"]
               /\ UNCHANGED <<task, tasks, started, marker, marked, push>>
          ELSE IF replayed \/ full \/ config = "invalid"
          THEN /\ req' = [req EXCEPT ![r].pc = "error"]
               /\ SetStore(s)
               /\ UNCHANGED <<task, push>>
          ELSE /\ req' = [req EXCEPT ![r].pc = "preparing", ![r].kind = kind]
               /\ task' = [task EXCEPT ![r].state = "submitted"]
               /\ SetStore([s EXCEPT !.tasks = Append(@, r), !.marker[m] = r, !.marked = @ \cup {r}])
               /\ push' = [push EXCEPT ![r].on = config = "valid"]
       /\ UNCHANGED <<need, queue, batch, cancel, expiries>>

\* Input mapping or buildPolicy throws: the request fails and its task stays.
PrepareFails(r) ==
    /\ req[r].pc = "preparing"
    /\ req' = [req EXCEPT ![r].pc = "error"]
    /\ UNCHANGED <<task, tasks, started, marker, marked, need, queue, batch, cancel, push, expiries>>

\* node.need or node.compactNeed reaches the relay, which opens the NEED.
Dispatch(r) ==
    /\ req[r].pc = "preparing"
    /\ need' = [need EXCEPT ![r] = "open"]
    /\ req' = [req EXCEPT ![r].pc = "dispatched"]
    /\ UNCHANGED <<task, tasks, started, marker, marked, queue, batch, cancel, push, expiries>>

After(r) == CASE req[r].kind = "compact" -> "opening" [] req[r].kind = "immediate" -> "done" [] OTHER -> "waiting"

\* The dispatch fails, the relay's reply to it is lost, or start() finds the task
\* gone: reject() ends the task if the store still has it, whatever the relay opened.
Reject(r) ==
    /\ req[r].pc \in {"preparing", "dispatched"}
    /\ IF r \in Stored THEN Record(r, Ended(r, "rejected")) ELSE UNCHANGED <<task, push>>
    /\ req' = [req EXCEPT ![r].pc = After(r)]
    /\ UNCHANGED <<tasks, started, marker, marked, need, queue, batch, cancel, expiries>>

\* store.start(): only now can an event of the NEED find its task.
Start(r) ==
    /\ req[r].pc = "dispatched"
    /\ r \in Stored
    /\ task' = [task EXCEPT ![r].state = "working"]
    /\ started' = started \cup {r}
    /\ req' = [req EXCEPT ![r].pc = After(r)]
    /\ UNCHANGED <<tasks, marker, marked, need, queue, batch, cancel, push, expiries>>

\* waitForTerminal(), and its deadline.
Waited(r) ==
    /\ req[r].pc = "waiting"
    /\ \/ IsTerminal(r) /\ req' = [req EXCEPT ![r].pc = "done"]
       \/ ~ IsTerminal(r) /\ req' = [req EXCEPT ![r].pc = "error"]
    /\ UNCHANGED <<task, tasks, started, marker, marked, need, queue, batch, cancel, push, expiries>>

\* streamTask() begins with a snapshot of the task, which has its status and, of one
\* that completed, its artifacts, but none of its partials.
OpenStream(r) ==
    /\ req[r].pc = "opening"
    /\ req' = [req EXCEPT ![r].pc = "opened", ![r].shown = task[r].state]
    /\ UNCHANGED <<task, tasks, started, marker, marked, need, queue, batch, cancel, push, expiries>>

\* Once the snapshot is written the stream of a task that has ended ends, even if the
\* snapshot did not show the end.
SnapshotWritten(r) ==
    LET after == IF ~ IsTerminal(r) THEN "streaming"
                 ELSE IF req[r].shown \in Terminal THEN "done" ELSE "short"
    IN /\ req[r].pc = "opened"
       /\ req' = [req EXCEPT ![r].pc = after]
       /\ UNCHANGED <<task, tasks, started, marker, marked, need, queue, batch, cancel, push, expiries>>

StreamStopsEarly(r) ==
    /\ req[r].pc = "streaming"
    /\ IF IsTerminal(r) THEN req' = [req EXCEPT ![r].pc = "done"]
       ELSE req' = [req EXCEPT ![r].cursor = Len(task[r].events),
                ![r].got = @ \o SubSeq(task[r].events, req[r].cursor + 1, Len(task[r].events))]
    /\ UNCHANGED <<task, tasks, started, marker, marked, need, queue, batch, cancel, push, expiries>>

\* What is new since the cursor is written; the stream of a task that has ended
\* writes the rest and ends.
Stream(r) ==
    /\ req[r].pc = "streaming"
    /\ req' = [req EXCEPT ![r].got = @ \o SubSeq(task[r].events, req[r].cursor + 1, Len(task[r].events)),
                          ![r].cursor = Len(task[r].events),
                          ![r].pc = IF IsTerminal(r) THEN "done" ELSE @]
    /\ UNCHANGED <<task, tasks, started, marker, marked, need, queue, batch, cancel, push, expiries>>

\* The client goes away (onStreamClose aborts), or the stream's deadline passes.
StreamGone(r) ==
    /\ req[r].pc \in {"opening", "opened", "streaming"}
    /\ req' = [req EXCEPT ![r] = [NoStream EXCEPT !.kind = req[r].kind]]
    /\ UNCHANGED <<task, tasks, started, marker, marked, need, queue, batch, cancel, push, expiries>>

\* SubscribeToTask after a lost stream: the new one carries what comes from now on.
Subscribe(r) ==
    LET from == Len(task[r].events)
    IN /\ req[r].pc = "gone"
       /\ ~ PruneThrows
       /\ SetStore(Pruned)
       /\ IF r \in Range(Pruned.tasks) /\ ~ IsTerminal(r)
          THEN req' = [req EXCEPT ![r].pc = "opening", ![r].from = from, ![r].cursor = from]
          ELSE req' = [req EXCEPT ![r].pc = "error"]
       /\ UNCHANGED <<task, need, queue, batch, cancel, push, expiries>>

---------------------------------------------------------------------------
(* The drains, and the other requests.                                     *)

\* drainTruynEvents and drainCompactEvents are serialised by pollTail and
\* compactPollTail: a poll starts when the batch before it is recorded.
Poll(q) ==
    /\ batch[q] = <<>> /\ queue[q] # <<>>
    /\ batch' = [batch EXCEPT ![q] = queue[q]]
    /\ queue' = [queue EXCEPT ![q] = <<>>]
    /\ UNCHANGED <<req, task, tasks, started, marker, marked, need, cancel, push, expiries>>

\* An event whose NEED no task is known by is dropped.
RecordEvent(q) ==
    /\ batch[q] # <<>>
    /\ batch' = [batch EXCEPT ![q] = Tail(@)]
    /\ LET e == Head(batch[q]) IN
       IF e.task \notin started THEN UNCHANGED <<task, push>>
       ELSE IF e.kind = "RESULT" THEN CompleteResult(e.task)
       ELSE RecordPartial(e.task, e.n)
    /\ UNCHANGED <<req, tasks, started, marker, marked, need, queue, cancel, expiries>>

\* GetTask, after its drains: store.get prunes.
GetTask ==
    /\ Len(tasks) >= MaxTasks /\ ~ PruneThrows
    /\ SetStore(Pruned)
    /\ UNCHANGED <<req, task, need, queue, batch, cancel, push, expiries>>

\* CancelTask of a running task asks the relay to revoke its NEED.
CancelTask(r) ==
    /\ cancel[r] = "none"
    /\ r \in started /\ task[r].state = "working" /\ Access(r)
    /\ cancel' = [cancel EXCEPT ![r] = "revoking"]
    /\ UNCHANGED <<req, task, need, queue, batch, push, expiries>>

\* The relay revokes an open NEED and answers 409 for any other.  A task that ended
\* or left the store meanwhile is not canceled.
Revoked(r) ==
    /\ cancel[r] = "revoking"
    /\ cancel' = [cancel EXCEPT ![r] = "done"]
    /\ IF need[r] = "open"
       THEN /\ need' = [need EXCEPT ![r] = "revoked"]
            /\ IF r \in Stored /\ ~ IsTerminal(r) THEN Record(r, Ended(r, "canceled")) ELSE UNCHANGED <<task, push>>
       ELSE UNCHANGED <<need, task, push>>
    /\ UNCHANGED <<req, tasks, started, marker, marked, queue, batch, expiries>>

\* CreateTaskPushNotificationConfig moves the cursor past the events so far.
CreatePushConfig(r) ==
    /\ ~ push[r].on /\ Access(r)
    /\ push' = [push EXCEPT ![r] = [on |-> TRUE, since |-> Len(task[r].events), sent |-> 0]]
    /\ UNCHANGED <<req, task, need, queue, batch, cancel, expiries>>

DeletePushConfig(r) ==
    /\ push[r].on /\ Access(r)
    /\ push' = [push EXCEPT ![r] = [on |-> FALSE, since |-> 0, sent |-> 0]]
    /\ UNCHANGED <<req, task, need, queue, batch, cancel, expiries>>

\* The provider, through the relay: external.
ProviderSends(r) ==
    LET q == IF req[r].kind = "compact" THEN "compact" ELSE "plain"
        sent == Len(SelectSeq(queue[q] \o batch[q], LAMBDA e : e.task = r)) + task[r].seq
    IN /\ need[r] = "open"
       /\ \/ /\ queue' = [queue EXCEPT ![q] = Append(@, [task |-> r, kind |-> "RESULT", n |-> 0])]
             /\ need' = [need EXCEPT ![r] = "resulted"]
          \/ /\ q = "compact" /\ sent < MaxPartials
             /\ queue' = [queue EXCEPT ![q] = Append(@, [task |-> r, kind |-> "PARTIAL", n |-> sent])]
             /\ UNCHANGED need
    /\ UNCHANGED <<req, task, tasks, started, marker, marked, batch, cancel, push, expiries>>

A2aNext ==
    \/ \E r \in Requests, kind \in {"blocking", "immediate", "compact"}, config \in {"none", "valid", "invalid"} :
        Create(r, kind, config)
    \/ \E r \in Requests : \/ Refuse(r) \/ PrepareFails(r) \/ Dispatch(r) \/ Reject(r) \/ Start(r) \/ Waited(r)
                           \/ OpenStream(r) \/ SnapshotWritten(r) \/ Stream(r) \/ StreamGone(r)
                           \/ Subscribe(r)
                           \/ CancelTask(r) \/ Revoked(r) \/ CreatePushConfig(r) \/ DeletePushConfig(r)
                           \/ ProviderSends(r) \/ Expire(r)
    \/ \E q \in Queues : Poll(q) \/ RecordEvent(q)
    \/ \E m \in Messages : MarkerExpires(m)
    \/ GetTask

A2aSpec == A2aInit /\ [][A2aNext]_a2aVars

---------------------------------------------------------------------------
(* Properties.                                                             *)

\* A task ends once: its stream holds one final status, the last event, and it is
\* the task's state, whichever of a result, a failed partial, a cancellation and a
\* rejection came first.
EndsOnce ==
    \A r \in Requests : \A i \in DOMAIN task[r].events :
        task[r].events[i].status # "artifact" =>
            i = Len(task[r].events) /\ task[r].state = task[r].events[i].status

\* A stream that ends by itself has carried every event its task had since the stream
\* was asked for, in order and once, although any request may have drained the queue
\* the events came from; or the snapshot it began with showed the end of the task.
\* Not said of a stream that is short: its task ended after the snapshot was taken and
\* before it was written, and the stream ends without the end of the task.
StreamsWhole ==
    \A r \in Requests : req[r].kind = "compact" /\ req[r].pc = "done" =>
        \/ req[r].got = SubSeq(task[r].events, req[r].from + 1, Len(task[r].events))
        \/ req[r].shown = task[r].state /\ IsTerminal(r) /\ req[r].got = <<>>

\* Two requests with one messageId dispatch one NEED as long as neither task nor
\* marker expires: making room for a task does not forget the message.
MessageDispatchedOnce ==
    expiries = 0 => \A r, x \in Requests :
        MessageOf[r] = MessageOf[x] /\ need[r] # "none" /\ need[x] # "none" => r = x

\* A push configuration is sent every event recorded since it was created.
PushComplete == \A r \in Requests : push[r].on => push[r].sent = Len(task[r].events) - push[r].since

A2aTasksSound == EndsOnce /\ StreamsWhole /\ MessageDispatchedOnce /\ PushComplete
===============================================================================
