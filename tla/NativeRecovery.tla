--------------------------- MODULE NativeRecovery ---------------------------
(***************************************************************************)
(* The native client (clients/native/src-tauri/src/lib.rs), its files:     *)
(* several processes of one user share the identity, the record of the     *)
(* active NEED with its backup, and the lock that claims active work.      *)
(*                                                                         *)
(* Two commands of a process run at the same time: submit_need, and a poll *)
(* (request_status or cancel_need).  One action is one file operation or   *)
(* one await; a process may die between any two.  Sessions are the subject *)
(* of NativeSession.                                                       *)
(***************************************************************************)
EXTENDS Naturals, FiniteSets

CONSTANTS
    Processes,
    MaxNeeds,         \* bound: NEEDs signed
    MaxPolls,         \* bound: status and cancel commands
    MaxCrashes        \* bound

Needs == 1..MaxNeeds
Workers == {"submit", "poll"}
Nobody == "nobody"
NoNeed == [need |-> 0, known |-> FALSE]
Idle == [pc |-> "idle", need |-> 0, known |-> FALSE, then |-> "none"]

VARIABLES
    proc,             \* of each process: pc of its setup, identity, active NEED
    job,              \* job[p][w]: the command of worker w
    guard,            \* guard[p]: worker that holds active_need for writing
    idFile, created,  \* identity on disk, identities generated
    path, backup,     \* active-need.json and its .bak
    claim,            \* process that holds the lock of active-need.lock
    need,             \* need[n]: what the relay knows of the NEED
    signed, polls, crashes,
    early,            \* history: NEEDs forgotten while their POST was under way
    unguarded           \* history: submit_need wrote a NEED that is not active any more

recoveryVars == <<proc, job, guard, idFile, created, path, backup, claim, need, signed, polls, crashes, early, unguarded>>

Files == <<path, backup, claim>>
Identity == <<idFile, created>>
History == <<early, unguarded>>
Polls == <<polls, crashes>>
Off == [pc |-> "off", id |-> 0, active |-> NoNeed]

RecoveryInit ==
    /\ proc = [p \in Processes |-> Off]
    /\ job = [p \in Processes |-> [w \in Workers |-> Idle]]
    /\ guard = [p \in Processes |-> Nobody]
    /\ idFile = 0 /\ created = 0
    /\ path = NoNeed /\ backup = NoNeed /\ claim = Nobody
    /\ need = [n \in Needs |-> "unknown"] /\ signed = 0 /\ polls = 0 /\ crashes = 0
    /\ early = {} /\ unguarded = FALSE

-----------------------------------------------------------------------------
\* load_or_create_identity: the staged file is linked to the final name, and
\* whoever finds that name taken uses the identity that is there.
SetupIdentity(p) ==
    /\ proc[p].pc = "off"
    /\ \/ idFile # 0 /\ proc' = [proc EXCEPT ![p] = [@ EXCEPT !.pc = "load", !.id = idFile]] /\ UNCHANGED created
       \/ /\ idFile = 0
          /\ created' = created + 1
          /\ proc' = [proc EXCEPT ![p] = [@ EXCEPT !.pc = "link", !.id = created + 1]]
    /\ UNCHANGED <<job, guard, idFile, Files, need, signed, Polls, History>>

LinkIdentity(p) ==
    /\ proc[p].pc = "link"
    /\ idFile' = IF idFile = 0 THEN proc[p].id ELSE idFile
    /\ proc' = [proc EXCEPT ![p] = [@ EXCEPT !.pc = "load", !.id = idFile']]
    /\ UNCHANGED <<job, guard, created, Files, need, signed, Polls, History>>

\* load_active_need
Loaded == IF path # NoNeed THEN path ELSE backup

\* run(): a recorded NEED is claimed, and without the claim the setup fails.
\* The record is read first, and may be another one by the time of the claim.
SetupLoad(p) ==
    /\ proc[p].pc = "load"
    /\ proc' = [proc EXCEPT ![p] = [@ EXCEPT !.active = Loaded,
                                             !.pc = IF Loaded = NoNeed THEN "up" ELSE "claim"]]
    /\ UNCHANGED <<job, guard, Identity, Files, need, signed, Polls, History>>

SetupClaim(p) ==
    /\ proc[p].pc = "claim"
    /\ \/ /\ claim = Nobody /\ claim' = p
          /\ proc' = [proc EXCEPT ![p].pc = "up"]
          /\ unguarded' = (unguarded \/ Loaded # proc[p].active)
       \/ /\ claim # Nobody
          /\ proc' = [proc EXCEPT ![p] = Off]
          /\ UNCHANGED <<claim, unguarded>>
    /\ UNCHANGED <<job, guard, Identity, path, backup, need, signed, Polls, early>>

\* The operating system frees the lock of a process that dies.
Crash(p) ==
    /\ proc[p].pc # "off" /\ crashes < MaxCrashes
    /\ crashes' = crashes + 1
    /\ proc' = [proc EXCEPT ![p] = Off]
    /\ job' = [job EXCEPT ![p] = [w \in Workers |-> Idle]]
    /\ guard' = [guard EXCEPT ![p] = Nobody]
    /\ claim' = IF claim = p THEN Nobody ELSE claim
    /\ UNCHANGED <<Identity, path, backup, need, signed, polls, History>>

-----------------------------------------------------------------------------
Do(p, w, j) == job' = [job EXCEPT ![p][w] = j]
Goto(p, w, pc) == job' = [job EXCEPT ![p][w].pc = pc]

\* submit_need, up to claim_active_work, which adopts the NEED a dead process
\* left and reports an error then.
SubmitNeed(p) ==
    /\ proc[p].pc = "up" /\ job[p]["submit"].pc = "idle" /\ proc[p].active = NoNeed /\ guard[p] = Nobody
    /\ ~(job[p]["poll"].pc # "idle" /\ job[p]["poll"].then = "cancel")
    /\ claim = Nobody
    /\ claim' = p
    /\ \/ /\ Loaded # NoNeed
          /\ proc' = [proc EXCEPT ![p].active = Loaded]
          /\ UNCHANGED <<job, signed>>
       \/ /\ Loaded = NoNeed /\ signed < MaxNeeds
          /\ signed' = signed + 1
          /\ Do(p, "submit", [pc |-> "stage", need |-> signed + 1, known |-> FALSE, then |-> "post"])
          /\ UNCHANGED proc
    /\ UNCHANGED <<guard, Identity, path, backup, need, Polls, History>>

-----------------------------------------------------------------------------
\* persist_active_need, one file operation at a time.  Polls hold active_need
\* meanwhile, and submit_need does not.
Midway(j) == j.pc \in {"rotate", "commit", "drop"}
Noted(p, w) ==
    LET j == job[p]["submit"]
        cleared == w = "submit" /\ j.then # "post" /\ proc[p].active.need # j.need
    IN unguarded' = (unguarded \/ cleared \/ \E v \in Workers \ {w} : Midway(job[p][v]))

Stage(p, w) ==
    /\ job[p][w].pc = "stage"
    /\ \/ path # NoNeed /\ backup' = NoNeed /\ Goto(p, w, "rotate")
       \/ path = NoNeed /\ UNCHANGED backup /\ Goto(p, w, "commit")
    /\ Noted(p, w)
    /\ UNCHANGED <<proc, guard, Identity, path, claim, need, signed, Polls, early>>

Rotate(p, w) ==
    /\ job[p][w].pc = "rotate" /\ path # NoNeed
    /\ backup' = path /\ path' = NoNeed
    /\ Goto(p, w, "commit")
    /\ Noted(p, w)
    /\ UNCHANGED <<proc, guard, Identity, claim, need, signed, Polls, early>>

Commit(p, w) ==
    /\ job[p][w].pc = "commit"
    /\ path' = [need |-> job[p][w].need, known |-> job[p][w].known]
    /\ Goto(p, w, "drop")
    /\ Noted(p, w)
    /\ UNCHANGED <<proc, guard, Identity, backup, claim, need, signed, Polls, early>>

DropBackup(p, w) ==
    /\ job[p][w].pc = "drop"
    /\ backup' = NoNeed
    /\ Goto(p, w, "memory")
    /\ Noted(p, w)
    /\ UNCHANGED <<proc, guard, Identity, path, claim, need, signed, Polls, early>>

\* A file operation failed, or the file to rotate is gone.  When the record
\* cannot be put in place the backup is put back, unless that fails too, and
\* the record stays when its permissions cannot be set.  Only the first write
\* of a submission gives the claim back.
PersistFails(p, w) ==
    /\ \/ job[p][w].pc \in {"stage", "rotate", "drop"} /\ UNCHANGED <<path, backup, unguarded>>
       \/ /\ job[p][w].pc = "commit"
          /\ \/ UNCHANGED <<path, backup>>
             \/ path = NoNeed /\ path' = backup /\ backup' = NoNeed
          /\ Noted(p, w)
    /\ Do(p, w, Idle)
    /\ claim' = IF job[p][w].then = "post" /\ claim = p THEN Nobody ELSE claim
    /\ guard' = [guard EXCEPT ![p] = IF w = "poll" THEN Nobody ELSE @]
    /\ UNCHANGED <<proc, Identity, need, signed, Polls, early>>

\* The record is in memory too, and the POST goes out when there is one.
Remember(p, w) ==
    LET j == job[p][w]
        after == CASE j.then \in {"post", "repost"} -> "posting" [] j.then = "clear" -> "clear" [] OTHER -> "idle"
    IN /\ j.pc = "memory"
       /\ guard[p] = IF w = "poll" THEN "poll" ELSE Nobody
       /\ proc' = [proc EXCEPT ![p].active = [need |-> j.need, known |-> j.known]]
       /\ guard' = [guard EXCEPT ![p] = Nobody]
       /\ need' = IF after = "posting" THEN [need EXCEPT ![j.need] = "posted"] ELSE need
       /\ IF after = "idle" THEN Do(p, w, Idle) ELSE Goto(p, w, after)
       /\ Noted(p, w)
       /\ UNCHANGED <<Identity, Files, signed, Polls, early>>

\* clear_active_need, for a NEED that is still the active one.
ClearNeed(p, w) ==
    LET n == job[p][w].need IN
    /\ job[p][w].pc = "clear" /\ guard[p] = Nobody
    /\ \/ /\ proc[p].active.need = n
          /\ proc' = [proc EXCEPT ![p].active = NoNeed]
          /\ guard' = [guard EXCEPT ![p] = w]
          /\ Goto(p, w, "unlink")
       \/ /\ proc[p].active.need # n
          /\ Do(p, w, Idle)
          /\ UNCHANGED <<proc, guard>>
    /\ UNCHANGED <<Identity, Files, need, signed, Polls, History>>

\* A file that cannot be removed stays.
Unlink(p, w) ==
    /\ job[p][w].pc = "unlink"
    /\ path' \in {path, NoNeed}
    /\ Goto(p, w, "release")
    /\ UNCHANGED <<proc, guard, Identity, backup, claim, need, signed, Polls, History>>

ReleaseWork(p, w) ==
    /\ job[p][w].pc = "release"
    /\ backup' = NoNeed
    /\ claim' = IF claim = p THEN Nobody ELSE claim
    /\ guard' = [guard EXCEPT ![p] = Nobody]
    /\ Do(p, w, Idle)
    /\ UNCHANGED <<proc, Identity, path, need, signed, Polls, History>>

-----------------------------------------------------------------------------
\* The relay: a POST arrives, is refused, or is lost; a NEED is worked on.
RelayTakes(n) ==
    /\ need[n] = "posted"
    /\ need' = [need EXCEPT ![n] = "open"]
    /\ UNCHANGED <<proc, job, guard, Identity, Files, signed, Polls, History>>

RelayRefuses(n, how) ==
    /\ need[n] = "posted"
    /\ need' = [need EXCEPT ![n] = how]
    /\ UNCHANGED <<proc, job, guard, Identity, Files, signed, Polls, History>>

RelayEnds(n) ==
    /\ need[n] = "open"
    /\ need' = [need EXCEPT ![n] = "done"]
    /\ UNCHANGED <<proc, job, guard, Identity, Files, signed, Polls, History>>

Writes(p, w, known, then) ==
    Do(p, w, [job[p][w] EXCEPT !.pc = "stage", !.known = known, !.then = then])

\* The answer to the POST.  A receipt that does not match is an error that
\* leaves the NEED active; a 401 is repeated once, with another session.
SubmitAnswered(p) ==
    LET j == job[p]["submit"] IN
    /\ j.pc = "posting"
    /\ \/ need[j.need] \in {"open", "done"} /\ Writes(p, "submit", TRUE, "end")
       \/ need[j.need] = "refused" /\ Goto(p, "submit", "clear")
       \/ need[j.need] = "unauthorized" /\ j.then = "post" /\ Writes(p, "submit", FALSE, "repost")
       \/ need[j.need] = "unauthorized" /\ j.then = "repost" /\ Goto(p, "submit", "clear")
       \/ Do(p, "submit", Idle)
    /\ UNCHANGED <<proc, guard, Identity, Files, need, signed, Polls, History>>

\* request_status and cancel_need begin with a copy of the active NEED;
\* cancel_need waits for a submission to end.
Poll(p, kind) ==
    /\ proc[p].pc = "up" /\ job[p]["poll"].pc = "idle" /\ guard[p] = Nobody
    /\ proc[p].active # NoNeed
    /\ polls < MaxPolls /\ polls' = polls + 1
    /\ kind = "cancel" => job[p]["submit"].pc = "idle"
    /\ Do(p, "poll", [pc |-> "asking", need |-> proc[p].active.need, known |-> proc[p].active.known, then |-> kind])
    /\ UNCHANGED <<proc, guard, Identity, Files, need, signed, crashes, History>>

\* The relay has not heard of the NEED; its POST may be under way, or repeated.
NotFound(n) ==
    /\ need[n] \notin {"open", "done"}
    /\ early' = IF need[n] \in {"posted", "unauthorized"} THEN early \cup {n} ELSE early

\* The provider becomes known while the NEED is still active, or that is an
\* error; a terminal status clears; "not found" clears a NEED that was never
\* confirmed, once it is ten seconds old.
StatusAnswered(p) ==
    LET j == job[p]["poll"]
        after == IF need[j.need] = "done" THEN "clear" ELSE "end"
    IN /\ j.pc = "asking" /\ j.then = "status"
       /\ \/ /\ need[j.need] \in {"open", "done"} /\ ~j.known /\ guard[p] = Nobody
             /\ proc[p].active.need = j.need
             /\ Writes(p, "poll", TRUE, after)
             /\ guard' = [guard EXCEPT ![p] = "poll"]
             /\ UNCHANGED early
          \/ /\ need[j.need] = "done" /\ j.known
             /\ Goto(p, "poll", "clear")
             /\ UNCHANGED <<guard, early>>
          \/ /\ NotFound(j.need) /\ ~j.known
             /\ Goto(p, "poll", "clear")
             /\ UNCHANGED guard
          \/ Do(p, "poll", Idle) /\ UNCHANGED <<guard, early>>
       /\ UNCHANGED <<proc, Identity, Files, need, signed, Polls, unguarded>>

\* A completed NEED stays active until its status is read.
CancelAnswered(p) ==
    LET j == job[p]["poll"] IN
    /\ j.pc = "asking" /\ j.then = "cancel"
    /\ \/ /\ need[j.need] = "open"
          /\ need' = [need EXCEPT ![j.need] = "done"]
          /\ Goto(p, "poll", "clear") \/ Do(p, "poll", Idle)
          /\ UNCHANGED early
       \/ need[j.need] = "done" /\ Goto(p, "poll", "clear") /\ UNCHANGED <<need, early>>
       \/ NotFound(j.need) /\ Goto(p, "poll", "clear") /\ UNCHANGED need
       \/ UNCHANGED <<need, early>> /\ Do(p, "poll", Idle)
    /\ UNCHANGED <<proc, guard, Identity, Files, signed, Polls, unguarded>>

RecoveryNext ==
    \/ \E p \in Processes :
         \/ SetupIdentity(p) \/ LinkIdentity(p) \/ SetupLoad(p) \/ SetupClaim(p) \/ Crash(p)
         \/ SubmitNeed(p) \/ SubmitAnswered(p)
         \/ Poll(p, "status") \/ Poll(p, "cancel") \/ StatusAnswered(p) \/ CancelAnswered(p)
         \/ \E w \in Workers :
              \/ Stage(p, w) \/ Rotate(p, w) \/ Commit(p, w) \/ DropBackup(p, w) \/ PersistFails(p, w)
              \/ Remember(p, w) \/ ClearNeed(p, w) \/ Unlink(p, w) \/ ReleaseWork(p, w)
    \/ \E n \in Needs :
         \/ RelayTakes(n) \/ RelayEnds(n)
         \/ \E how \in {"refused", "unauthorized", "lost"} : RelayRefuses(n, how)

RecoverySpec == RecoveryInit /\ [][RecoveryNext]_recoveryVars

-----------------------------------------------------------------------------
\* The shape of the client's files and commands.
RecoveryTypeOK ==
    /\ \A p \in Processes :
         /\ proc[p].pc \in {"off", "link", "load", "claim", "up"} /\ proc[p].id \in 0..created
         /\ proc[p].active.need \in 0..signed
         /\ guard[p] \in Workers \cup {Nobody}
         /\ \A w \in Workers : job[p][w].need \in 0..signed
    /\ claim \in Processes \cup {Nobody} /\ idFile \in 0..created
    /\ {path.need, backup.need} \subseteq 0..signed

\* Whatever crashes or fails, and however two processes and their commands interleave:
\* all processes use the identity on disk; a process that has an active NEED
\* holds the claim; and a NEED the relay has, or may still get, is in a file
\* a restart will read.  Excepted are NEEDs forgotten while their POST was on
\* its way, and everything after a submission wrote its NEED while a poll wrote
\* it too or after a poll had cleared it, or after a setup claimed the work
\* with a record that was replaced since it read it.
RecoverySound ==
    /\ \A p \in Processes :
         /\ proc[p].pc = "up" => proc[p].id = idFile
         /\ proc[p].pc = "up" /\ proc[p].active # NoNeed /\ ~unguarded => claim = p
    /\ \A n \in Needs : need[n] \in {"posted", "open"} /\ n \notin early /\ ~unguarded => Loaded.need = n
=============================================================================
