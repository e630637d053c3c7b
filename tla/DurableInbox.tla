---------------------------- MODULE DurableInbox ----------------------------
(***************************************************************************)
(* network/admission/durable-inbox.js: accepted work that survives a crash *)
(* of the node.  run() writes an entry before the handler runs and again   *)
(* with its outcome; after a restart recover() runs what is still pending. *)
(*                                                                         *)
(* Entries live in memory.  #persist() lists them and appends a write to   *)
(* writeQueue; the file is rewritten when the write's turn comes, with the *)
(* contents the listed entries have by then.  A write that fails leaves    *)
(* writeQueue rejected: from then on every write is rejected.              *)
(*                                                                         *)
(* Each element of Calls is one run() of an incoming envelope; the same    *)
(* envelope may come twice (a retry, or QUIC and the relay fallback).  The *)
(* run() of recover() for identifier i is the call i itself.  A duplicate  *)
(* that joins the execution in flight changes nothing and is left out.     *)
(***************************************************************************)
EXTENDS Naturals, Sequences, FiniteSets

CONSTANTS
    Ids,            \* identifiers of envelopes
    Calls,          \* incoming envelopes
    MaxCompleted,   \* maxCompleted
    MaxFailures,    \* bound on writes that fail
    MaxCrashes      \* bound on crashes

InboxAssumption ==
    /\ MaxCompleted \in Nat \ {0}
    /\ MaxFailures \in Nat
    /\ MaxCrashes \in Nat

VARIABLES
    up,             \* the node runs
    entries,        \* this.entries: the status of each identifier, or "none"
    file,           \* what the file holds
    writes,         \* this.writeQueue: the writes that wait, oldest first
    broken,         \* this.writeQueue is rejected
    inFlight,       \* this.inFlight
    todo,           \* identifiers recover() has still to run
    id, pc,         \* each call: its identifier and where it stands
    outlived,       \* history: calls whose entry was trimmed while they were at work
    failures, crashes

vars == <<up, entries, file, writes, broken, inFlight, todo, id, pc, outlived, failures, crashes>>

Runs == Calls \cup Ids

Statuses == {"none", "pending", "completed", "failed"}

Init ==
    /\ up = TRUE
    /\ entries = [i \in Ids |-> "none"]
    /\ file = [i \in Ids |-> "none"]
    /\ writes = <<>>
    /\ broken = FALSE
    /\ inFlight = {}
    /\ todo = {}
    /\ id = [c \in Runs |-> CHOOSE i \in Ids : c \in Ids => i = c]
    /\ pc = [c \in Runs |-> "idle"]
    /\ outlived = {}
    /\ failures = 0
    /\ crashes = 0

\* #persist(): list the entries there are in `now` and queue a write for c.
Persist(c, queue, now) ==
    Append(queue, [by |-> c, live |-> {i \in Ids : now[i] # "none"}, trimmed |-> {}])

\* The entry objects of trimmed identifiers stay in the writes that list them.
Detach(queue, gone) ==
    [k \in 1..Len(queue) |->
        [queue[k] EXCEPT !.live = @ \ gone, !.trimmed = @ \cup (queue[k].live \cap gone)]]

-----------------------------------------------------------------------------
\* accept(): a new entry, written before anything else happens.
RunNew(c, i) ==
    /\ up
    /\ c \in Calls
    /\ pc[c] = "idle"
    /\ entries[i] = "none"
    /\ i \notin inFlight
    /\ id' = [id EXCEPT ![c] = i]
    /\ pc' = [pc EXCEPT ![c] = "accepting"]
    /\ entries' = [entries EXCEPT ![i] = "pending"]
    /\ writes' = Persist(c, writes, entries')
    /\ UNCHANGED <<up, file, broken, inFlight, todo, outlived, failures, crashes>>

\* The execution of a pending entry begins: count the attempt and write it.
Begin(c, i) ==
    /\ pc' = [pc EXCEPT ![c] = "starting"]
    /\ inFlight' = inFlight \cup {i}

\* recover() runs one entry at a time.
RecoverTurn(i) == i \in todo /\ \A j \in Ids : pc[j] \in {"idle", "done"}

\* Mutant: the attempt is not written before the handler runs.
RunPendingUnwritten(c, i) ==
    /\ up
    /\ entries[i] = "pending"
    /\ i \notin inFlight
    /\ pc[c] = "idle"
    /\ c \in Ids => c = i /\ RecoverTurn(i)
    /\ id' = [id EXCEPT ![c] = i]
    /\ todo' = IF c \in Ids THEN todo \ {i} ELSE todo
    /\ inFlight' = inFlight \cup {i}
    /\ pc' = [pc EXCEPT ![c] = "running"]
    /\ UNCHANGED <<up, entries, file, writes, broken, outlived, failures, crashes>>

\* run() of an entry that is pending and not in flight: one that recover()
\* takes up, or an envelope that comes again.
RunPending(c, i) ==
    /\ up
    /\ entries[i] = "pending"
    /\ i \notin inFlight
    /\ pc[c] = "idle"
    /\ c \in Ids => c = i /\ RecoverTurn(i)
    /\ id' = [id EXCEPT ![c] = i]
    /\ todo' = IF c \in Ids THEN todo \ {i} ELSE todo
    /\ Begin(c, i)
    /\ writes' = Persist(c, writes, entries)
    /\ UNCHANGED <<up, entries, file, broken, outlived, failures, crashes>>

\* run() of an entry whose outcome is known: the result again, or the error.
RunSettled(c, i) ==
    /\ up
    /\ c \in Calls
    /\ pc[c] = "idle"
    /\ entries[i] \in {"completed", "failed"}
    /\ id' = [id EXCEPT ![c] = i]
    /\ pc' = [pc EXCEPT ![c] = "done"]
    /\ UNCHANGED <<up, entries, file, writes, broken, inFlight, todo, outlived, failures, crashes>>

\* recover() passes over an entry that somebody else has settled or runs.
RecoverSkips(i) ==
    /\ up
    /\ RecoverTurn(i)
    /\ entries[i] # "pending" \/ i \in inFlight
    /\ todo' = todo \ {i}
    /\ UNCHANGED <<up, entries, file, writes, broken, inFlight, id, pc, outlived, failures, crashes>>

-----------------------------------------------------------------------------
\* The file as write w makes it.
Written(w) ==
    [i \in Ids |-> IF i \in w.trimmed THEN "completed"
                   ELSE IF i \in w.live THEN entries[i] ELSE "none"]

\* The oldest write replaces the file; the call that waits for it goes on.
Write ==
    LET w == Head(writes)
        c == w.by
        i == id[c]
    IN  /\ up
        /\ ~broken
        /\ writes # <<>>
        /\ file' = Written(w)
        /\ \/ /\ pc[c] = "accepting"
              /\ Begin(c, i)
              /\ writes' = Persist(c, Tail(writes), entries)
           \/ /\ pc[c] = "starting"
              /\ pc' = [pc EXCEPT ![c] = "running"]
              /\ writes' = Tail(writes)
              /\ UNCHANGED inFlight
           \/ /\ pc[c] \in {"completing", "failing"}
              /\ pc' = [pc EXCEPT ![c] = "done"]
              /\ inFlight' = inFlight \ {i}
              /\ writes' = Tail(writes)
        /\ UNCHANGED <<up, entries, broken, todo, id, outlived, failures, crashes>>

\* The oldest write fails, or is rejected because an earlier one failed.  An
\* accepted entry stays pending; an execution that cannot write its attempt
\* never reaches its finally block and stays in flight; one that cannot write
\* its result goes on as if the handler had thrown, and ends if its entry is gone.
WriteRejected ==
    LET c == Head(writes).by
        i == id[c]
    IN  /\ up
        /\ writes # <<>>
        /\ broken \/ failures < MaxFailures
        /\ failures' = IF broken THEN failures ELSE failures + 1
        /\ broken' = TRUE
        /\ \/ /\ pc[c] \in {"accepting", "starting"}
              /\ pc' = [pc EXCEPT ![c] = "done"]
              /\ writes' = Tail(writes)
              /\ UNCHANGED <<entries, inFlight>>
           \/ /\ pc[c] = "completing" /\ entries[i] # "none"
              /\ pc' = [pc EXCEPT ![c] = "failing"]
              /\ entries' = [entries EXCEPT ![i] = "failed"]
              /\ writes' = Persist(c, Tail(writes), entries')
              /\ UNCHANGED inFlight
           \/ /\ pc[c] = "failing" \/ (pc[c] = "completing" /\ entries[i] = "none")
              /\ pc' = [pc EXCEPT ![c] = "done"]
              /\ inFlight' = inFlight \ {i}
              /\ writes' = Tail(writes)
              /\ UNCHANGED entries
        /\ UNCHANGED <<up, file, todo, id, outlived, crashes>>

-----------------------------------------------------------------------------
\* #trimCompleted: when there are more than maxCompleted, the oldest goes.
Trimmed(now) ==
    LET completed == {i \in Ids : now[i] = "completed"}
    IN  {gone \in SUBSET completed :
            Cardinality(completed \ gone) =
                IF Cardinality(completed) > MaxCompleted THEN MaxCompleted
                ELSE Cardinality(completed)}

\* The handler returns and #complete() records the result.
HandlerReturns(c) ==
    LET i == id[c]
        marked == [entries EXCEPT ![i] = "completed"]
    IN  /\ up
        /\ pc[c] = "running"
        /\ entries[i] # "none"
        /\ pc' = [pc EXCEPT ![c] = "completing"]
        /\ \E gone \in Trimmed(marked) :
            /\ entries' = [j \in Ids |-> IF j \in gone THEN "none" ELSE marked[j]]
            /\ writes' = Persist(c, Detach(writes, gone), entries')
            /\ outlived' = outlived \cup {d \in Runs : pc[d] \notin {"idle", "done"} /\ id[d] \in gone}
        /\ UNCHANGED <<up, file, broken, inFlight, todo, id, failures, crashes>>

\* The handler throws and #fail() records the error.
HandlerThrows(c) ==
    LET i == id[c]
    IN  /\ up
        /\ pc[c] = "running"
        /\ entries[i] # "none"
        /\ pc' = [pc EXCEPT ![c] = "failing"]
        /\ entries' = [entries EXCEPT ![i] = "failed"]
        /\ writes' = Persist(c, writes, entries')
        /\ UNCHANGED <<up, file, broken, inFlight, todo, id, outlived, failures, crashes>>

\* The entry was trimmed meanwhile: #complete() and #fail() both throw.
EntryMissing(c) ==
    /\ up
    /\ pc[c] = "running"
    /\ entries[id[c]] = "none"
    /\ pc' = [pc EXCEPT ![c] = "done"]
    /\ inFlight' = inFlight \ {id[c]}
    /\ UNCHANGED <<up, entries, file, writes, broken, todo, id, outlived, failures, crashes>>

-----------------------------------------------------------------------------
\* The node dies; the file is what the last finished write made it.
Crash ==
    /\ up
    /\ crashes < MaxCrashes
    /\ crashes' = crashes + 1
    /\ up' = FALSE
    /\ entries' = [i \in Ids |-> "none"]
    /\ writes' = <<>>
    /\ broken' = FALSE
    /\ inFlight' = {}
    /\ todo' = {}
    /\ outlived' = {}
    /\ pc' = [c \in Runs |-> IF c \in Ids \/ pc[c] = "idle" THEN "idle" ELSE "done"]
    /\ UNCHANGED <<file, id, failures>>

\* Mutant: pending work is loaded and not run.
RestartWithoutRecovery ==
    /\ ~up
    /\ up' = TRUE
    /\ entries' = file
    /\ UNCHANGED <<file, writes, broken, inFlight, todo, id, pc, outlived, failures, crashes>>

\* start(): load() and recover().
Restart ==
    /\ ~up
    /\ up' = TRUE
    /\ entries' = file
    /\ todo' = {i \in Ids : file[i] = "pending"}
    /\ UNCHANGED <<file, writes, broken, inFlight, id, pc, outlived, failures, crashes>>

Next ==
    \/ \E c \in Runs, i \in Ids :
        \/ RunNew(c, i)
        \/ RunPending(c, i)
        \/ RunSettled(c, i)
    \/ \E i \in Ids : RecoverSkips(i)
    \/ Write
    \/ WriteRejected
    \/ \E c \in Runs :
        \/ HandlerReturns(c)
        \/ HandlerThrows(c)
        \/ EntryMissing(c)
    \/ Crash
    \/ Restart

Spec == Init /\ [][Next]_vars

\* Writes finish, handlers end, a node that died is started again, and
\* recover() goes through its list.
Fairness ==
    /\ WF_vars(Write)
    /\ WF_vars(Restart)
    /\ \A c \in Runs : WF_vars(HandlerReturns(c) \/ HandlerThrows(c) \/ EntryMissing(c))
    /\ \A i \in Ids : WF_vars(RunPending(i, i) \/ RecoverSkips(i))

FairSpec == Spec /\ Fairness

-----------------------------------------------------------------------------
Steps == {"idle", "accepting", "starting", "running", "completing", "failing", "done"}

\* A write: whose it is, and the entries it lists.
Writes == [by : Runs, live : SUBSET Ids, trimmed : SUBSET Ids]

\* Every variable has its type.
TypeOK ==
    /\ up \in BOOLEAN
    /\ entries \in [Ids -> Statuses]
    /\ file \in [Ids -> Statuses]
    /\ writes \in Seq(Writes)
    /\ broken \in BOOLEAN
    /\ inFlight \in SUBSET Ids
    /\ todo \in SUBSET Ids
    /\ id \in [Runs -> Ids]
    /\ pc \in [Runs -> Steps]
    /\ outlived \in SUBSET Runs

\* A handler runs only for work the file knows, so that a crash cannot lose it,
\* unless another run of the same envelope completed the entry and it was trimmed
\* meanwhile.
HandlersRunDurableWork ==
    \A c \in Runs \ outlived : pc[c] = "running" => file[id[c]] # "none"

\* "completed envelope must replay its durable result": a completed result in
\* the file is never replaced by an error or taken for pending work again,
\* until trimming forgets it.
CompletedStands ==
    [][\A i \in Ids : file[i] = "completed" => file'[i] \in {"completed", "none"}]_vars

\* "at-least-once-recovery": what the file holds as pending is run to an
\* outcome, whatever crashes come in between, unless a write failed: then
\* nothing is written any more until the node is started again.
PendingWorkIsRecovered(i) == file[i] = "pending" ~> (file[i] # "pending" \/ broken)
-----------------------------------------------------------------------------
(***************************************************************************)
(* Proofs.  The file is rewritten by whole-file writes that are taken in   *)
(* order, so what matters of a run is where its own write stands in the    *)
(* queue: from there on every write lists its entry, as long as the entry  *)
(* is not trimmed.                                                         *)
(***************************************************************************)

Waiting == {"accepting", "starting", "completing", "failing"}

\* Each write is waited for by one call, and a call waits for one write.
OneWriteEach ==
    /\ \A k \in 1..Len(writes) : pc[writes[k].by] \in Waiting
    /\ \A k, m \in 1..Len(writes) : writes[k].by = writes[m].by => k = m

\* A call before its outcome, whose entry was never trimmed.
AtWork(c) == c \notin outlived /\ pc[c] \in {"accepting", "starting", "running"}

\* Its entry is there, its own write and those after it list the entry, and so
\* does the file once the handler runs.
Listed(c) ==
    AtWork(c) =>
        /\ entries[id[c]] # "none"
        /\ \A k, m \in 1..Len(writes) : writes[k].by = c /\ m >= k => id[c] \in writes[m].live
        /\ pc[c] = "running" =>
            /\ file[id[c]] # "none"
            /\ \A m \in 1..Len(writes) : id[c] \in writes[m].live

\* Between a crash and the restart nothing runs; a call that has not begun, or
\* has begun anew, has no past.
Quiet ==
    /\ ~up => \A c \in Runs : pc[c] \in {"idle", "done"}
    /\ \A c \in outlived : pc[c] # "idle"

InboxInv == TypeOK /\ OneWriteEach /\ Quiet /\ \A c \in Runs : Listed(c)
=============================================================================
