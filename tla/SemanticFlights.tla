-------------------------- MODULE SemanticFlights --------------------------
(***************************************************************************)
(* The coordinator of concurrent retrievals in front of the semantic       *)
(* router (core/context/singleflight-semantic-router.js): one warm-up per  *)
(* cold root, one retrieval per root and query, and one lane per query     *)
(* across roots.  The router behind it answers or fails.                   *)
(***************************************************************************)
EXTENDS Naturals, FiniteSets

CONSTANTS
    Calls,    \* calls of retrieve and warmContext
    Roots, Queries,
    MaxInvalidations

Nobody == "nobody"
Keys == Roots \X Queries

VARIABLES
    call,          \* of each call: pc, root and query, the call ahead of it in its lane,
                   \* the call whose flight it follows
    warmed,        \* warmedRoots
    warmFlight,    \* rootWarmFlights: per root the call that warms it
    flight,        \* retrievalFlights: per root and query the leading call
    tail,          \* queryTails: per query the last call of its lane
    invalidations

flightVars == <<call, warmed, warmFlight, flight, tail, invalidations>>

Idle == [pc |-> "new", root |-> Nobody, query |-> Nobody, ahead |-> Nobody, leader |-> Nobody]

FlightsTypeOK ==
    /\ \A c \in Calls :
          /\ call[c].pc \in {"new", "following", "warm", "warming", "warmFollow", "warmed", "cold",
                             "lane", "running", "done", "failed"}
          /\ call[c].root \in Roots \cup {Nobody} /\ call[c].query \in Queries \cup {Nobody}
          /\ call[c].ahead \in Calls \cup {Nobody} /\ call[c].leader \in Calls \cup {Nobody}
    /\ warmed \subseteq Roots
    /\ warmFlight \in [Roots -> Calls \cup {Nobody}] /\ flight \in [Keys -> Calls \cup {Nobody}]
    /\ tail \in [Queries -> Calls \cup {Nobody}]

FlightsInit ==
    /\ call = [c \in Calls |-> Idle]
    /\ warmed = {} /\ warmFlight = [r \in Roots |-> Nobody]
    /\ flight = [k \in Keys |-> Nobody] /\ tail = [q \in Queries |-> Nobody]
    /\ invalidations = 0

---------------------------------------------------------------------------

At(c, pc) == call[c].pc = pc
Key(c) == <<call[c].root, call[c].query>>
Ended == {"done", "failed"}

\* Mutant: the flight of a call that failed stays, as cleanup outside finally leaves it.
SettleKeepsFailed(c, outcome) ==
    /\ call' = [d \in Calls |-> IF d = c \/ (At(d, "following") /\ call[d].leader = c)
                                THEN [call[d] EXCEPT !.pc = outcome] ELSE call[d]]
    /\ flight' = [k \in Keys |-> IF flight[k] = c /\ outcome = "done" THEN Nobody ELSE flight[k]]

\* The flight of c ends with an outcome, and so do the calls that follow it: their
\* awaits are of the same promise.
Settle(c, outcome) ==
    /\ call' = [d \in Calls |-> IF d = c \/ (At(d, "following") /\ call[d].leader = c)
                                THEN [call[d] EXCEPT !.pc = outcome] ELSE call[d]]
    /\ flight' = [k \in Keys |-> IF flight[k] = c THEN Nobody ELSE flight[k]]

\* retrieve: follow the flight of the same root and query, or lead one.
Retrieve(c, r, q) ==
    /\ At(c, "new")
    /\ IF flight[<<r, q>>] # Nobody
       THEN /\ call' = [call EXCEPT ![c] = [@ EXCEPT !.pc = "following", !.root = r, !.query = q,
                                                     !.leader = flight[<<r, q>>]]]
            /\ UNCHANGED flight
       ELSE /\ call' = [call EXCEPT ![c] = [@ EXCEPT !.pc = "warm", !.root = r, !.query = q]]
            /\ flight' = [flight EXCEPT ![<<r, q>>] = c]
    /\ UNCHANGED <<warmed, warmFlight, tail, invalidations>>

WarmContext(c, r) ==
    /\ At(c, "new")
    /\ call' = [call EXCEPT ![c] = [@ EXCEPT !.pc = "warm", !.root = r]]
    /\ UNCHANGED <<warmed, warmFlight, flight, tail, invalidations>>

\* ensureRootWarm: already warm, being warmed, or to be warmed by this call.
EnsureRootWarm(c) ==
    LET r == call[c].root
    IN /\ At(c, "warm")
       /\ call' = [call EXCEPT ![c].pc = IF r \in warmed THEN "warmed"
                                         ELSE IF warmFlight[r] # Nobody THEN "warmFollow"
                                         ELSE "warming"]
       /\ warmFlight' = IF call'[c].pc = "warming" THEN [warmFlight EXCEPT ![r] = c] ELSE warmFlight
       /\ UNCHANGED <<warmed, flight, tail, invalidations>>

\* router.warmContext answered or failed, for its caller and for who awaits it.  The
\* root counts as warm even if it was invalidated meanwhile.
WarmAnswers(c, ok) ==
    LET r == call[c].root
        cs == {d \in Calls : d = c \/ (At(d, "warmFollow") /\ call[d].root = r)}
    IN /\ At(c, "warming")
       /\ warmed' = IF ok THEN warmed \cup {r} ELSE warmed
       /\ warmFlight' = [warmFlight EXCEPT ![r] = Nobody]
       /\ call' = [d \in Calls |-> IF d \in cs
                                   THEN [call[d] EXCEPT !.pc = IF ok THEN "warmed" ELSE "cold"]
                                   ELSE call[d]]
       /\ UNCHANGED <<flight, tail, invalidations>>

\* A call that only warms is over, and so is a retrieval that could not.
WarmEnds(c) ==
    /\ \/ At(c, "warmed") /\ call[c].query = Nobody /\ Settle(c, "done")
       \/ At(c, "cold") /\ Settle(c, "failed")
    /\ UNCHANGED <<warmed, warmFlight, tail, invalidations>>

\* inQueryLane: behind the last call of the lane, if there is one.
EnterLane(c) ==
    LET q == call[c].query
    IN /\ At(c, "warmed") /\ q # Nobody
       /\ call' = [call EXCEPT ![c].pc = "lane", ![c].ahead = tail[q]]
       /\ tail' = [tail EXCEPT ![q] = c]
       /\ UNCHANGED <<warmed, warmFlight, flight, invalidations>>

\* The turn of a call comes when the one ahead of it has released the lane.
ItsTurn(c) == call[c].ahead # Nobody => call[call[c].ahead].pc \in Ended

TakeTurn(c) ==
    /\ At(c, "lane")
    /\ ItsTurn(c)
    /\ call' = [call EXCEPT ![c].pc = "running"]
    /\ UNCHANGED <<warmed, warmFlight, flight, tail, invalidations>>

\* router.retrieve returned or threw; finally releases the lane.
Retrieved(c) ==
    /\ At(c, "running")
    /\ tail' = [q \in Queries |-> IF tail[q] = c THEN Nobody ELSE tail[q]]
    /\ \E outcome \in Ended : Settle(c, outcome)
    /\ UNCHANGED <<warmed, warmFlight, invalidations>>

\* publishContext and prepareContext leave their root warm.
Published(r) ==
    /\ r \notin warmed
    /\ warmed' = warmed \cup {r}
    /\ UNCHANGED <<call, warmFlight, flight, tail, invalidations>>

\* invalidateContext: later retrievals do not join the flights of the root.
Invalidate(r) ==
    /\ invalidations < MaxInvalidations
    /\ invalidations' = invalidations + 1
    /\ warmed' = warmed \ {r}
    /\ flight' = [k \in Keys |-> IF k[1] = r THEN Nobody ELSE flight[k]]
    /\ UNCHANGED <<call, warmFlight, tail>>

FlightsNext ==
    \/ \E c \in Calls :
          \/ \E r \in Roots : WarmContext(c, r) \/ \E q \in Queries : Retrieve(c, r, q)
          \/ EnsureRootWarm(c) \/ \E ok \in BOOLEAN : WarmAnswers(c, ok)
          \/ WarmEnds(c) \/ EnterLane(c) \/ TakeTurn(c) \/ Retrieved(c)
    \/ \E r \in Roots : Published(r) \/ Invalidate(r)

FlightsSpec == FlightsInit /\ [][FlightsNext]_flightVars

---------------------------------------------------------------------------

Live(c) == call[c].pc \in {"warm", "warming", "warmFollow", "warmed", "cold", "lane", "running"}

(* The same query never runs twice at a time, and every lane goes on: from *)
(* a waiting call the calls ahead lead to one whose turn it is.  Without   *)
(* invalidations only one call per root and query works, and whoever       *)
(* follows a flight follows one that is still under way, also when warm-up *)
(* or retrieval failed (retrieve, ensureRootWarm, inQueryLane).            *)
LanesSound ==
    /\ \A c, d \in Calls : c # d /\ At(c, "running") /\ At(d, "running") =>
                               call[c].query # call[d].query
    /\ \A q \in Queries :
          LET lane == {c \in Calls : call[c].query = q /\ At(c, "lane")}
          IN lane # {} =>
                \/ \E c \in Calls : call[c].query = q /\ At(c, "running")
                \/ \E c \in lane : ItsTurn(c)
    /\ \A c \in Calls : At(c, "following") => Live(call[c].leader)
    /\ \A k \in Keys : flight[k] # Nobody => Live(flight[k])
    /\ \A r \in Roots : warmFlight[r] # Nobody => At(warmFlight[r], "warming")
    /\ invalidations = 0 =>
          \A c, d \in Calls : c # d /\ Live(c) /\ Live(d) /\ Nobody \notin {call[c].query, call[d].query}
                                  => Key(c) # Key(d)

=============================================================================
