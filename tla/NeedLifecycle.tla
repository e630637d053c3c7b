--------------------------- MODULE NeedLifecycle ---------------------------
(***************************************************************************)
(* What a lifecycle ledger promises the relays, providers and requesters   *)
(* that share it, whatever store keeps it.                                 *)
(*                                                                         *)
(* A NEED is reserved at most once.  While it is matched, its provider may *)
(* announce numbered PARTIAL events, each beyond all the earlier ones.  It *)
(* ends at most once, as completed, cancelled or failed, and the event     *)
(* that announces the end (RESULT to the requester, REVOKE to the          *)
(* provider) is committed in the same step as the end itself.  Nothing     *)
(* happens to a NEED after its end, and no announced event is withdrawn.   *)
(***************************************************************************)
EXTENDS Naturals

CONSTANTS
    Needs,          \* identifiers of NEEDs
    MaxPartials     \* bound on the number of PARTIAL events of one NEED

VARIABLES
    status,     \* where each NEED stands
    events      \* the events announced for each NEED, as <<kind, sequence>>

lifecycle == <<status, events>>

Terminal == {"completed", "cancelled", "failed"}

Statuses == {"absent", "matched"} \cup Terminal

\* The events that may announce an end.
Farewells(to) ==
    IF to = "completed" THEN {<<"RESULT", 0>>}
    ELSE IF to = "cancelled" THEN {<<"REVOKE", 0>>} ELSE {}

Init ==
    /\ status = [n \in Needs |-> "absent"]
    /\ events = [n \in Needs |-> {}]

\* A relay admits the NEED, with or without a durable event for its provider.
Reserve(n) ==
    /\ status[n] = "absent"
    /\ status' = [status EXCEPT ![n] = "matched"]
    /\ \E announced \in SUBSET {<<"NEED", 0>>} :
        events' = [events EXCEPT ![n] = announced]

\* PARTIAL number s, beyond every PARTIAL announced before.
Stream(n, s) ==
    /\ status[n] = "matched"
    /\ \A t \in 0..(MaxPartials - 1) : <<"PARTIAL", t>> \in events[n] => t < s
    /\ events' = [events EXCEPT ![n] = @ \cup {<<"PARTIAL", s>>}]
    /\ UNCHANGED status

\* The NEED ends.
Settle(n, to) ==
    /\ status[n] = "matched"
    /\ status' = [status EXCEPT ![n] = to]
    /\ \E announced \in SUBSET Farewells(to) :
        events' = [events EXCEPT ![n] = @ \cup announced]

Next ==
    \E n \in Needs :
        \/ Reserve(n)
        \/ \E s \in 0..(MaxPartials - 1) : Stream(n, s)
        \/ \E to \in Terminal : Settle(n, to)

Spec == Init /\ [][Next]_lifecycle
=============================================================================
