-------------------------- MODULE DurableJsonStore --------------------------
(***************************************************************************)
(* The durable JSON store (core/security/durable-json-store.js):           *)
(* transactions of several processes on one file, serialised by a lock     *)
(* file that a waiter may take over once it is old and its owner is gone.  *)
(*                                                                         *)
(* One action is one file-system call.  The state in the file is its       *)
(* revision; the temporary file is written and synced before the rename,   *)
(* so a crash leaves the old or the new state, never a part of one.        *)
(***************************************************************************)
EXTENDS Naturals, FiniteSets

CONSTANTS
    Processes,
    MaxTransactions,  \* bound: transactions begun
    MaxCrashes        \* bound

VARIABLES
    proc,             \* of each process: pc, pid, lock id of its own, its copy
    lock,             \* the lock file: id of the inode, owner, whether it is old
    locks,            \* lock files created so far
    revision,         \* in the file
    committed,        \* renames done
    begun, crashes,
    mistaken          \* history: a lock that is held was judged without a record, or removed
                      \* by one who had judged another

storeVars == <<proc, lock, locks, revision, committed, begun, crashes, mistaken>>

NoLock == [id |-> 0, owner |-> 0, of |-> 0, old |-> FALSE]
Exists == lock.id # 0
\* Written: a created lock holds no record until its creator writes it.
Written == lock.owner # 0

JsonInit ==
    /\ proc = [p \in Processes |-> [pc |-> "idle", pid |-> 1, own |-> 0, copy |-> 0, saw |-> 0]]
    /\ lock = NoLock /\ locks = 0
    /\ revision = 0 /\ committed = 0 /\ begun = 0 /\ crashes = 0
    /\ mistaken = FALSE

Goto(p, pc) == proc' = [proc EXCEPT ![p].pc = pc]
Data == <<revision, committed>>
Counters == <<begun, crashes>>

-----------------------------------------------------------------------------
Transaction(p) ==
    /\ proc[p].pc = "idle" /\ begun < MaxTransactions
    /\ begun' = begun + 1
    /\ Goto(p, "open")
    /\ UNCHANGED <<lock, locks, Data, crashes, mistaken>>

\* openSync(lockPath, 'wx'): creates the lock, or fails with EEXIST.
Open(p) ==
    /\ proc[p].pc = "open"
    /\ \/ /\ ~Exists
          /\ locks' = locks + 1
          /\ lock' = [NoLock EXCEPT !.id = locks + 1]
          /\ proc' = [proc EXCEPT ![p].pc = "write", ![p].own = locks + 1]
       \/ /\ Exists
          /\ Goto(p, "stat")
          /\ UNCHANGED <<lock, locks>>
    /\ UNCHANGED <<Data, Counters, mistaken>>

\* The record goes to the inode that was opened, on the path or not.
WriteRecord(p) ==
    /\ proc[p].pc = "write"
    /\ lock' = IF lock.id = proc[p].own
               THEN [lock EXCEPT !.owner = proc[p].pid, !.of = p, !.old = FALSE] ELSE lock
    /\ Goto(p, "inside")
    /\ UNCHANGED <<locks, Data, Counters, mistaken>>

\* The write or its fsync fails, durable_lock_unavailable: the lock stays behind, with
\* its record or without.
WriteRecordFails(p) ==
    /\ proc[p].pc = "write"
    /\ \/ UNCHANGED lock
       \/ /\ lock.id = proc[p].own
          /\ lock' = [lock EXCEPT !.owner = proc[p].pid, !.of = p, !.old = FALSE]
    /\ proc' = [proc EXCEPT ![p].pc = "idle", ![p].own = 0]
    /\ UNCHANGED <<locks, Data, Counters, mistaken>>

Stat(p) ==
    /\ proc[p].pc = "stat"
    /\ Goto(p, IF ~Exists THEN "open" ELSE IF lock.old THEN "judge" ELSE "pause")
    /\ UNCHANGED <<lock, locks, Data, Counters, mistaken>>

\* A process that created the lock goes on with its transaction.
Held == \E q \in Processes : proc[q].own = lock.id

OwnerAlive == proc[lock.of].pc # "dead" /\ proc[lock.of].pid = lock.owner

\* readLockRecord, then processAlive: no record counts as stale.
Judge(p) ==
    /\ proc[p].pc = "judge"
    /\ IF Exists /\ Written /\ OwnerAlive
       THEN Goto(p, "pause")
       ELSE proc' = [proc EXCEPT ![p].pc = "takeover", ![p].saw = lock.id]
    /\ mistaken' = (mistaken \/ (Exists /\ ~Written /\ Held))
    /\ UNCHANGED <<lock, locks, Data, Counters>>

Removed == lock' = NoLock

\* unlinkSync by path, whatever file is there by now.
TakeOver(p) ==
    /\ proc[p].pc = "takeover"
    /\ Removed
    /\ mistaken' = (mistaken \/ (Exists /\ lock.id # proc[p].saw /\ Held))
    /\ proc' = [proc EXCEPT ![p].pc = "open", ![p].saw = 0]
    /\ UNCHANGED <<locks, Data, Counters>>

\* sleepSync and the next turn, or durable_lock_timeout.
Pause(p) ==
    /\ proc[p].pc = "pause"
    /\ \/ Goto(p, "open") \/ Goto(p, "idle")
    /\ UNCHANGED <<lock, locks, Data, Counters, mistaken>>

-----------------------------------------------------------------------------
\* readUnlocked, and the mutator on the draft; it may throw.
ReadState(p) ==
    /\ proc[p].pc = "inside"
    /\ \/ proc' = [proc EXCEPT ![p].pc = "persist", ![p].copy = revision]
       \/ Goto(p, "check")
    /\ UNCHANGED <<lock, locks, Data, Counters, mistaken>>

\* persistUnlocked: the rename, or durable_write_failed before it.  The caller may be
\* told so after the rename too, when the directory cannot be synced.
Persist(p) ==
    /\ proc[p].pc = "persist"
    /\ \/ revision' = proc[p].copy + 1 /\ committed' = committed + 1
       \/ UNCHANGED Data
    /\ proc' = [proc EXCEPT ![p].pc = "check", ![p].copy = 0]
    /\ UNCHANGED <<lock, locks, Counters, mistaken>>

\* releaseLock: the record first, then the unlink.
CheckOwner(p) ==
    /\ proc[p].pc = "check"
    /\ IF Exists /\ Written /\ lock.id = proc[p].own
       THEN Goto(p, "release")
       ELSE proc' = [proc EXCEPT ![p].pc = "idle", ![p].own = 0]
    /\ UNCHANGED <<lock, locks, Data, Counters, mistaken>>

Release(p) ==
    /\ proc[p].pc = "release"
    /\ Removed
    /\ proc' = [proc EXCEPT ![p].pc = "idle", ![p].own = 0]
    /\ UNCHANGED <<locks, Data, Counters, mistaken>>

-----------------------------------------------------------------------------
\* The lock on disk gets older than staleLockMs.
GrowOld ==
    /\ Exists /\ ~lock.old
    /\ lock' = [lock EXCEPT !.old = TRUE]
    /\ UNCHANGED <<proc, locks, Data, Counters, mistaken>>

\* A process dies between any two calls; its successor has another pid.
Crash(p) ==
    /\ proc[p].pc # "dead" /\ crashes < MaxCrashes
    /\ crashes' = crashes + 1
    /\ proc' = [proc EXCEPT ![p] = [pc |-> "dead", pid |-> @.pid, own |-> 0, copy |-> 0, saw |-> 0]]
    /\ UNCHANGED <<lock, locks, Data, begun, mistaken>>

Restart(p) ==
    /\ proc[p].pc = "dead"
    /\ proc' = [proc EXCEPT ![p].pc = "idle", ![p].pid = @ + 1]
    /\ UNCHANGED <<lock, locks, Data, Counters, mistaken>>

JsonNext ==
    \/ GrowOld
    \/ \E p \in Processes :
         \/ Transaction(p) \/ Open(p) \/ WriteRecord(p) \/ WriteRecordFails(p) \/ Stat(p) \/ Judge(p) \/ TakeOver(p)
         \/ Pause(p) \/ ReadState(p) \/ Persist(p) \/ CheckOwner(p) \/ Release(p)
         \/ Crash(p) \/ Restart(p)

JsonSpec == JsonInit /\ [][JsonNext]_storeVars

-----------------------------------------------------------------------------
\* The shape of the store's state.
JsonTypeOK ==
    /\ \A p \in Processes :
         /\ proc[p].pc \in {"idle", "open", "write", "stat", "judge", "takeover", "pause", "inside",
                            "persist", "check", "release", "dead"}
         /\ {proc[p].own, proc[p].saw} \subseteq 0..locks
    /\ lock.id \in 0..locks /\ lock.old \in BOOLEAN
    /\ revision \in 0..committed /\ committed \in 0..begun

Inside == {p \in Processes : proc[p].pc \in {"inside", "persist"}}

\* Transactions of different processes are serialised and none is lost (every
\* rename adds one to the revision), also when owners die inside, waiters take
\* their lock over and locks are left without a record; the one way out of it is
\* a waiter that judges a lock before its holder has written the record, or that
\* removes a lock somebody holds for the one it judged (mistaken).
Serialised == mistaken \/ (Cardinality(Inside) <= 1 /\ revision = committed)
=============================================================================
