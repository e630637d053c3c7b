--------------------------- MODULE NativeSession ----------------------------
(***************************************************************************)
(* The native client (clients/native/src-tauri/src/lib.rs), its sessions:  *)
(* which relay and which token the commands of one process use while other *)
(* commands connect, refresh an expired session or replace a refused one.  *)
(*                                                                         *)
(* connect, disconnect, submit_need and cancel_need hold mutation_lock; a  *)
(* refresh holds refresh_lock; discover and request_status take neither    *)
(* before they need a refresh.  A token is its number; it may expire, and  *)
(* the relay may refuse it, at any time.  What the active NEED leaves on   *)
(* disk is the subject of NativeRecovery.                                  *)
(***************************************************************************)
EXTENDS Naturals, FiniteSets

CONSTANTS
    Relays,
    Commands,
    MaxTokens,        \* bound: registrations the relays answer
    MaxNeeds,         \* bound: of this process, and those another process left
    MaxRestarts       \* bound

Nobody == "nobody"
NoRelay == "none"
NoSession == [relay |-> NoRelay, token |-> 0]
NoNeed == [id |-> 0, relay |-> NoRelay, session |-> NoSession]
NewCommand == [pc |-> "new", kind |-> "none", id |-> 0, relay |-> NoRelay, sess |-> NoSession,
               got |-> NoSession, how |-> "none", retried |-> FALSE]

VARIABLES
    session,          \* state.session
    active,           \* state.active_need: id, relay and session
    cmd,              \* of each command: pc, kind, NEED and relay, the session it uses or got
    mutation, refresh,  \* holders of the two locks
    tokens, expired,  \* tokens issued; those no longer fresh
    needs, restarts,
    wanted,           \* history: relays the client may be connected to: the user's, and those of NEEDs taken over
    late              \* history: active_session connected for a NEED that is not active any more

sessionVars == <<session, active, cmd, mutation, refresh, tokens, expired, needs, restarts, wanted, late>>

Fresh(s) == s.token \notin expired
Locks == <<mutation, refresh>>
Chosen == <<wanted, late>>
Counters == <<tokens, expired, needs, restarts>>

SessionInit ==
    /\ session = NoSession /\ active = NoNeed
    /\ cmd = [c \in Commands |-> NewCommand]
    /\ mutation = Nobody /\ refresh = Nobody
    /\ tokens = 0 /\ expired = {} /\ needs = 0 /\ restarts = 0
    /\ wanted = {} /\ late = FALSE

Unlocked(lock, c) == IF lock = c THEN Nobody ELSE lock
Ends(c) ==
    /\ cmd' = [cmd EXCEPT ![c] = NewCommand]
    /\ mutation' = Unlocked(mutation, c) /\ refresh' = Unlocked(refresh, c)

-----------------------------------------------------------------------------
\* connect and disconnect refuse while a NEED is active.
Connect(c, r) ==
    /\ cmd[c].pc = "new" /\ mutation = Nobody /\ active = NoNeed
    /\ mutation' = c
    /\ cmd' = [cmd EXCEPT ![c] = [NewCommand EXCEPT !.pc = "register", !.kind = "connect", !.how = "connect",
                                                    !.relay = r, !.sess = [relay |-> r, token |-> 0]]]
    /\ UNCHANGED <<session, active, refresh, Counters, Chosen>>

Disconnect(c) ==
    /\ cmd[c].pc = "new" /\ mutation = Nobody /\ active = NoNeed
    /\ session' = NoSession /\ wanted' = {}
    /\ UNCHANGED <<cmd, active, Locks, Counters, late>>

\* ensure_session: a fresh candidate is used as it is.
Using(kind, id, r, s) ==
    [NewCommand EXCEPT !.kind = kind, !.id = id, !.relay = r, !.sess = s, !.how = "ensure",
                       !.pc = IF ~Fresh(s) THEN "want" ELSE IF kind = "submit" THEN "activate" ELSE "send"]

Discover(c) ==
    /\ cmd[c].pc = "new" /\ session # NoSession
    /\ cmd' = [cmd EXCEPT ![c] = Using("discover", 0, session.relay, session)]
    /\ UNCHANGED <<session, active, Locks, Counters, Chosen>>

SubmitNeed(c) ==
    /\ cmd[c].pc = "new" /\ mutation = Nobody /\ active = NoNeed /\ session # NoSession
    /\ needs < MaxNeeds /\ needs' = needs + 1
    /\ mutation' = c
    /\ cmd' = [cmd EXCEPT ![c] = Using("submit", needs + 1, session.relay, session)]
    /\ UNCHANGED <<session, active, refresh, tokens, expired, restarts, Chosen>>

\* active_session: a recovered NEED has no session yet.
Poll(c, kind) ==
    /\ cmd[c].pc = "new" /\ active # NoNeed
    /\ kind = "cancel" => mutation = Nobody
    /\ mutation' = IF kind = "cancel" THEN c ELSE mutation
    /\ cmd' = [cmd EXCEPT ![c] =
                 IF active.session # NoSession THEN Using(kind, active.id, active.relay, active.session)
                 ELSE [NewCommand EXCEPT !.pc = "want", !.kind = kind, !.id = active.id, !.relay = active.relay,
                                         !.sess = [relay |-> active.relay, token |-> 0], !.how = "active"]]
    /\ UNCHANGED <<session, active, refresh, Counters, Chosen>>

-----------------------------------------------------------------------------
Ready(c, s) ==
    cmd' = [cmd EXCEPT ![c] = [@ EXCEPT !.sess = s, !.got = NoSession,
                                        !.pc = IF cmd[c].kind = "submit" THEN "activate" ELSE "send"]]
GiveActive(s, if) == active' = IF if THEN [active EXCEPT !.session = s] ELSE active

\* refresh_lock is held: another command may have refreshed meanwhile.
FoundFresh(c) ==
    /\ cmd[c].pc = "want" /\ refresh = Nobody /\ cmd[c].how \in {"ensure", "active"}
    /\ session.relay = cmd[c].sess.relay /\ Fresh(session)
    /\ Ready(c, session)
    /\ UNCHANGED <<session, active, Locks, Counters, Chosen>>

Refresh(c) ==
    /\ cmd[c].pc = "want" /\ refresh = Nobody /\ cmd[c].how \in {"ensure", "active"}
    /\ ~(session.relay = cmd[c].sess.relay /\ Fresh(session))
    /\ refresh' = c
    /\ cmd' = [cmd EXCEPT ![c].pc = "register"]
    /\ UNCHANGED <<session, active, mutation, Counters, Chosen>>

\* Mutant: any other session that is fresh will do.
ReplacedByAny(c) ==
    /\ session # NoSession /\ session.token # cmd[c].sess.token /\ Fresh(session)

\* force_refresh_session, after a 401 or a transport failure.
Replaced(c) ==
    /\ session # NoSession /\ session.relay = cmd[c].sess.relay
    /\ session.token # cmd[c].sess.token /\ Fresh(session)

ForceFound(c) ==
    /\ cmd[c].pc = "want" /\ cmd[c].how = "force" /\ refresh = Nobody
    /\ Replaced(c)
    /\ GiveActive(session, /\ active.relay = cmd[c].sess.relay
                           /\ active.session.token \in {0, cmd[c].sess.token})
    /\ Ready(c, session)
    /\ UNCHANGED <<session, Locks, Counters, Chosen>>

ForceChanged(c) ==
    /\ cmd[c].pc = "want" /\ cmd[c].how = "force" /\ refresh = Nobody
    /\ ~Replaced(c) /\ session # cmd[c].sess
    /\ Ends(c)
    /\ UNCHANGED <<session, active, Counters, Chosen>>

ForceRefresh(c) ==
    /\ cmd[c].pc = "want" /\ cmd[c].how = "force" /\ refresh = Nobody
    /\ session = cmd[c].sess
    /\ refresh' = c
    /\ cmd' = [cmd EXCEPT ![c].pc = "register"]
    /\ UNCHANGED <<session, active, mutation, Counters, Chosen>>

-----------------------------------------------------------------------------
RegisterFails(c) ==
    /\ cmd[c].pc = "register"
    /\ Ends(c)
    /\ UNCHANGED <<session, active, Counters, Chosen>>

\* register_session returned: state.session first, the active NEED after it.
Registered(c) ==
    LET new == [relay |-> cmd[c].sess.relay, token |-> tokens + 1]
        how == cmd[c].how
        store == \/ how \in {"connect", "active"}
                 \/ how = "ensure" /\ session.relay = new.relay
                 \/ how = "force" /\ session = cmd[c].sess
    IN /\ cmd[c].pc = "register" /\ tokens < MaxTokens
       /\ tokens' = tokens + 1
       /\ session' = IF store THEN new ELSE session
       /\ wanted' = IF how = "connect" THEN {new.relay} ELSE wanted
       /\ late' = (late \/ (how = "active" /\ active.id # cmd[c].id))
       /\ \/ how = "connect" /\ Ends(c)
          \/ /\ how # "connect" /\ (store \/ how = "ensure")
             /\ cmd' = [cmd EXCEPT ![c] = [@ EXCEPT !.pc = "store", !.got = new]]
             /\ UNCHANGED Locks
          \/ /\ how = "force" /\ ~store /\ session.relay = new.relay /\ Fresh(session)
             /\ Ready(c, session)
             /\ refresh' = Nobody /\ UNCHANGED mutation
          \/ /\ how = "force" /\ ~store /\ ~(session.relay = new.relay /\ Fresh(session))
             /\ Ends(c)
       /\ UNCHANGED <<active, expired, needs, restarts>>

\* A forced refresh replaces the session of the NEED only where it is still
\* the refused one.
StoreActive(c) ==
    LET how == cmd[c].how
        same == \/ how = "active" /\ active.id = cmd[c].id
                \/ how # "active" /\ active.relay = cmd[c].sess.relay
    IN /\ cmd[c].pc = "store"
       /\ GiveActive(cmd[c].got, active # NoNeed /\ same /\ (how = "force" => active.session.token = cmd[c].sess.token))
       /\ Ready(c, cmd[c].got)
       /\ refresh' = Nobody
       /\ UNCHANGED <<session, mutation, Counters, Chosen>>

-----------------------------------------------------------------------------
\* submit_need records its NEED before each POST.
Activate(c) ==
    /\ cmd[c].pc = "activate"
    /\ active' = [id |-> cmd[c].id, relay |-> cmd[c].relay, session |-> cmd[c].sess]
    /\ cmd' = [cmd EXCEPT ![c].pc = "send"]
    /\ UNCHANGED <<session, Locks, Counters, Chosen>>

\* claim_active_work, before the first POST: the claim fails, or what it finds
\* is the record of a NEED that another process submitted, to any relay, and
\* that NEED becomes the active one.  The record may not be written either.
ActivateFails(c) ==
    /\ cmd[c].pc = "activate"
    /\ Ends(c)
    /\ UNCHANGED <<session, active, Counters, Chosen>>

Adopt(c, r) ==
    /\ cmd[c].pc = "activate" /\ ~cmd[c].retried /\ active = NoNeed
    /\ needs < MaxNeeds /\ needs' = needs + 1
    /\ active' = [id |-> needs + 1, relay |-> r, session |-> NoSession]
    /\ wanted' = wanted \cup {r}
    /\ Ends(c)
    /\ UNCHANGED <<session, tokens, expired, restarts, late>>

\* The first answer was a 401, or for a request that changes nothing none.
Refused(c) ==
    /\ cmd[c].pc = "send" /\ ~cmd[c].retried
    /\ cmd' = [cmd EXCEPT ![c] = [@ EXCEPT !.pc = "want", !.how = "force", !.retried = TRUE]]
    /\ UNCHANGED <<session, active, Locks, Counters, Chosen>>

\* The command ends; a terminal answer clears its NEED, an accepted NEED is
\* written once more, and a status that names the provider updates it.
Answered(c) ==
    LET k == cmd[c].kind
        own == active # NoNeed /\ active.id = cmd[c].id
    IN /\ cmd[c].pc = "send"
       /\ \/ UNCHANGED active
          \/ k \in {"submit", "status", "cancel"} /\ own /\ active' = NoNeed
          \/ /\ k = "submit" \/ (k = "status" /\ own)
             /\ active' = [id |-> cmd[c].id, relay |-> cmd[c].relay, session |-> cmd[c].sess]
       /\ Ends(c)
       /\ UNCHANGED <<session, Counters, Chosen>>

Expire(t) ==
    /\ t \in 1..tokens /\ t \notin expired
    /\ expired' = expired \cup {t}
    /\ UNCHANGED <<session, active, cmd, Locks, tokens, needs, restarts, Chosen>>

\* The process starts again; its NEED comes back from disk without a session.
Restart ==
    /\ restarts < MaxRestarts /\ restarts' = restarts + 1
    /\ session' = NoSession /\ active' = [active EXCEPT !.session = NoSession]
    /\ wanted' = {active.relay}
    /\ cmd' = [c \in Commands |-> NewCommand]
    /\ mutation' = Nobody /\ refresh' = Nobody
    /\ UNCHANGED <<tokens, expired, needs, late>>

SessionNext ==
    \/ Restart
    \/ \E t \in 1..MaxTokens : Expire(t)
    \/ \E c \in Commands :
         \/ Disconnect(c) \/ Discover(c) \/ SubmitNeed(c) \/ Poll(c, "status") \/ Poll(c, "cancel")
         \/ FoundFresh(c) \/ Refresh(c) \/ ForceFound(c) \/ ForceChanged(c) \/ ForceRefresh(c)
         \/ RegisterFails(c) \/ Registered(c) \/ StoreActive(c) \/ Activate(c) \/ ActivateFails(c)
         \/ Refused(c) \/ Answered(c)
         \/ \E r \in Relays : Connect(c, r) \/ Adopt(c, r)

SessionSpec == SessionInit /\ [][SessionNext]_sessionVars

-----------------------------------------------------------------------------
\* The shape of the sessions and commands.
SessionTypeOK ==
    /\ session.relay \in Relays \cup {NoRelay} /\ session.token \in 0..tokens
    /\ active.id \in 0..needs /\ active.session.token \in 0..tokens
    /\ {mutation, refresh} \subseteq Commands \cup {Nobody}
    /\ \A c \in Commands :
         /\ cmd[c].pc \in {"new", "want", "register", "store", "activate", "send"}
         /\ cmd[c].kind \in {"none", "connect", "discover", "submit", "status", "cancel"}
         /\ cmd[c].sess.token \in 0..tokens

\* However commands, refreshes and restarts interleave, a request about a NEED
\* goes to the relay it was submitted to, and the session kept with the NEED is
\* one of that relay.  The client is connected to the relay the user chose, to
\* that of a NEED it took over from its former run or from another process since
\* then, or to none, until a poll connects again for a NEED that was cleared
\* meanwhile.
SessionsSound ==
    /\ active.session.relay \in {NoRelay, active.relay}
    /\ \A c \in Commands : cmd[c].pc = "send" => cmd[c].sess.relay = cmd[c].relay
    /\ ~late => session.relay \in {NoRelay} \cup wanted
=============================================================================
