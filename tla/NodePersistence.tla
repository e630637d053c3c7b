-------------------------- MODULE NodePersistence --------------------------
(***************************************************************************)
(* The durable state of network/runtime.js, and the file that              *)
(* network/state/persistent-state.js writes: changes are counted as        *)
(* generations, a debounced checkpoint or an explicit barrier flushes      *)
(* them, and one flush runs at a time.                                     *)
(*                                                                         *)
(* The state itself is its version: the number of changes made to it.      *)
(***************************************************************************)
EXTENDS Naturals

CONSTANTS
    Barriers,     \* callers of persistState
    MaxVersion,   \* bound on the changes
    MaxFailures,  \* bound on failed writes
    MaxCrashes

PersistAssumption == MaxVersion \in Nat /\ MaxFailures \in Nat /\ MaxCrashes \in Nat

VARIABLES
    version,    \* of the state in memory
    disk,       \* version in the state file
    partial,    \* whether a temporary file was left behind
    requested,  \* persistRequestedGeneration
    persisted,  \* persistedGeneration
    timer,      \* persistTimer is set
    flush,      \* persistFlushPromise: its phase, generation and snapshot
    barrier,    \* per barrier: its phase, generation and the version it covers
    node,       \* stateReady and closing, as a phase
    failures, crashes

persistVars == <<version, disk, partial, requested, persisted, timer, flush, barrier, node,
                 failures, crashes>>

NoFlush == [pc |-> "none", gen |-> 0, snap |-> 0]
PendingFlush == [pc |-> "pending", gen |-> 0, snap |-> 0]
NoBarrier == [pc |-> "new", gen |-> 0, covers |-> 0]

PersistTypeOK ==
    /\ version \in 0..MaxVersion /\ disk \in 0..MaxVersion
    /\ requested \in Nat /\ persisted \in 0..requested
    /\ timer \in BOOLEAN /\ partial \in BOOLEAN
    /\ flush \in [pc : {"none", "pending", "saving"}, gen : Nat, snap : 0..MaxVersion]
    /\ barrier \in [Barriers -> [pc : {"new", "waiting", "returned", "failed"},
                                 gen : Nat, covers : 0..MaxVersion]]
    /\ node \in {"loading", "ready", "closing", "closed"}
    /\ failures \in 0..MaxFailures /\ crashes \in 0..MaxCrashes

PersistInit ==
    /\ version = 0 /\ disk = 0 /\ partial = FALSE
    /\ requested = 0 /\ persisted = 0 /\ timer = FALSE
    /\ flush = NoFlush
    /\ barrier = [b \in Barriers |-> NoBarrier]
    /\ node = "loading"
    /\ failures = 0 /\ crashes = 0

---------------------------------------------------------------------------

\* hydrateState: the file is the state; an unreadable one would stop the node.
Hydrate ==
    /\ node = "loading"
    /\ version' = disk
    /\ node' = "ready"
    /\ UNCHANGED <<disk, partial, requested, persisted, timer, flush, barrier, failures, crashes>>

\* #schedulePersistCheckpoint: while something is pending and no flush runs.
Checkpoint(req, per) == req > per /\ node = "ready" /\ flush.pc = "none"

\* schedulePersist: a change asks for a generation and sets the timer, which a
\* running flush sets again when it ends.
Change ==
    /\ node = "ready" /\ version < MaxVersion
    /\ version' = version + 1
    /\ requested' = requested + 1
    /\ timer' = (timer \/ Checkpoint(requested + 1, persisted))
    /\ UNCHANGED <<disk, partial, persisted, flush, barrier, node, failures, crashes>>

\* #ensurePersistFlush: join the flush that runs, else start one.
EnsureFlush == flush' = IF flush.pc = "none" THEN PendingFlush ELSE flush

TimerFires ==
    /\ timer
    /\ timer' = FALSE
    /\ EnsureFlush
    /\ UNCHANGED <<version, disk, partial, requested, persisted, barrier, node, failures, crashes>>

\* persistState, up to its first wait.  close asks for a last one.
Barrier(b) ==
    /\ node = "ready" /\ barrier[b].pc = "new"
    /\ requested' = requested + 1
    /\ timer' = FALSE
    /\ barrier' = [barrier EXCEPT ![b] = [pc |-> "waiting", gen |-> requested + 1,
                                          covers |-> version]]
    /\ EnsureFlush
    /\ node' \in {"ready", "closing"}
    /\ UNCHANGED <<version, disk, partial, persisted, failures, crashes>>

\* The flush takes its generation, then its snapshot, in one turn.
TakeSnapshot ==
    /\ flush.pc = "pending"
    /\ flush' = IF persisted >= requested THEN NoFlush
                ELSE [pc |-> "saving", gen |-> requested, snap |-> version]
    /\ UNCHANGED <<version, disk, partial, requested, persisted, timer, barrier, node,
                   failures, crashes>>

\* A barrier that the flush answers: done when its own generation is durable,
\* else round again.
WakeJoined(bs, per) ==
    [b \in Barriers |->
        IF bs[b].pc # "waiting" THEN bs[b] ELSE [bs[b] EXCEPT !.pc = "returned"]]

Wake(bs, per) ==
    [b \in Barriers |->
        IF bs[b].pc = "waiting" /\ bs[b].gen <= per THEN [bs[b] EXCEPT !.pc = "returned"]
        ELSE bs[b]]

\* save is done: written, synced and renamed.  What was asked for meanwhile
\* gets a checkpoint; a barrier that still waits starts the next flush.
Saved ==
    LET woken == Wake(barrier, flush.gen)
        again == \E b \in Barriers : woken[b].pc = "waiting"
    IN /\ flush.pc = "saving"
       /\ disk' = flush.snap
       /\ persisted' = flush.gen
       /\ barrier' = woken
       /\ flush' = IF again THEN PendingFlush ELSE NoFlush
       /\ timer' = (~again /\ requested > flush.gen /\ node = "ready")
       /\ node' = IF node = "closing" /\ ~again THEN "closed" ELSE node
       /\ UNCHANGED <<version, partial, requested, failures, crashes>>

\* save fails: every barrier that waits for this flush fails with it.
SaveFails ==
    /\ flush.pc = "saving" /\ failures < MaxFailures
    /\ failures' = failures + 1
    /\ partial' = TRUE
    /\ barrier' = [b \in Barriers |-> IF barrier[b].pc = "waiting"
                                      THEN [barrier[b] EXCEPT !.pc = "failed"] ELSE barrier[b]]
    /\ flush' = NoFlush
    /\ timer' = (node = "ready")
    /\ node' = IF node = "closing" THEN "closed" ELSE node
    /\ UNCHANGED <<version, disk, requested, persisted, crashes>>

\* The process dies, perhaps between the write and the rename of a save.
Crash ==
    /\ crashes < MaxCrashes /\ node # "loading"
    /\ crashes' = crashes + 1
    /\ partial' = (partial \/ flush.pc = "saving")
    /\ disk' \in IF flush.pc = "saving" THEN {disk, flush.snap} ELSE {disk}
    /\ version' = 0 /\ requested' = 0 /\ persisted' = 0 /\ timer' = FALSE
    /\ flush' = NoFlush /\ node' = "loading"
    /\ barrier' = [b \in Barriers |-> IF barrier[b].pc = "waiting"
                                      THEN [barrier[b] EXCEPT !.pc = "failed"] ELSE barrier[b]]
    /\ UNCHANGED failures

PersistNext ==
    \/ Hydrate \/ Change \/ TimerFires \/ TakeSnapshot \/ Saved \/ SaveFails \/ Crash
    \/ \E b \in Barriers : Barrier(b)

PersistSpec == PersistInit /\ [][PersistNext]_persistVars

---------------------------------------------------------------------------

(* What a barrier returned for is on disk, and stays there over a crash:   *)
(* a flush it joined may have taken its snapshot too early                 *)
(* (persistState, #ensurePersistFlush).                                    *)
BarrierIsDurable ==
    \A b \in Barriers : barrier[b].pc = "returned" => disk >= barrier[b].covers

(* A change that is not on disk has a timer or a flush that will write it, *)
(* a failed write included (#schedulePersistCheckpoint).                   *)
NoChangeForgotten ==
    node = "ready" /\ requested > persisted => timer \/ flush.pc # "none"

-----------------------------------------------------------------------------

(* The inductive invariant.                                                *)
(*                                                                         *)
(* BarrierIsDurable is not inductive: that a flush answers only barriers   *)
(* its snapshot covers rests on the order in which generations and         *)
(* versions were handed out, which SnapshotCovers and WaitersKnown state.  *)
(* DiskBehind and LoadingIsQuiet carry that order over a crash, after      *)
(* which both counters start again.                                        *)

\* A barrier waits for a generation that was asked for and a version that exists.
WaitersKnown ==
    \A b \in Barriers : barrier[b].pc = "waiting" =>
        barrier[b].gen <= requested /\ barrier[b].covers <= version

\* A save writes a version that covers every barrier of its generation.
SnapshotCovers ==
    flush.pc = "saving" =>
        /\ flush.gen <= requested /\ disk <= flush.snap /\ flush.snap <= version
        /\ \A b \in Barriers : barrier[b].pc = "waiting" /\ barrier[b].gen <= flush.gen =>
                                   barrier[b].covers <= flush.snap

\* The file is never ahead of a memory that was hydrated from it.
DiskBehind == node # "loading" => disk <= version

\* Before the state is read nothing waits, is pending or is being written.
LoadingIsQuiet ==
    node = "loading" => /\ flush.pc = "none" /\ timer = FALSE /\ requested = persisted
                        /\ \A b \in Barriers : barrier[b].pc # "waiting"

PersistInv ==
    /\ PersistTypeOK /\ WaitersKnown /\ SnapshotCovers /\ DiskBehind /\ LoadingIsQuiet
    /\ BarrierIsDurable /\ NoChangeForgotten
=============================================================================
