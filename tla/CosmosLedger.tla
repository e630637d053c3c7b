---------------------------- MODULE CosmosLedger ----------------------------
(***************************************************************************)
(* network/relay/cosmos-lifecycle-ledger.js: the distributed lifecycle     *)
(* ledger.  Every NEED is one document.  Relays on different hosts create  *)
(* it with POST, which fails when it exists, and change it by reading it   *)
(* and writing it back with PUT If-Match, which fails with 412 when        *)
(* anybody wrote it meanwhile.  A capacity document, changed the same way, *)
(* holds a ticket for every document that may be created.                  *)
(*                                                                         *)
(* The store has session consistency: a read may return an older version,  *)
(* but none older than a reply the caller has had.  A caller that times    *)
(* out, or crashes, does not know the fate of its request: the request may *)
(* still be served, at any later time.  Nothing is retried then.           *)
(*                                                                         *)
(* Each element of Calls is one call of the ledger's interface.  Callers   *)
(* that are not authorised are refused before anything changes; they are   *)
(* left out.  So are digests: a PARTIAL that repeats a number with another *)
(* digest is refused like any other wrong number.                          *)
(***************************************************************************)
EXTENDS Naturals, Sequences, FiniteSets, FiniteSetTheorems, SequenceTheorems, TLAPS

CONSTANTS
    Needs,              \* identifiers of NEEDs
    Calls,              \* calls of the interface
    Offered,            \* the operations each call may ask for
    RecordCapacity,     \* recordCapacity
    MaxCasAttempts,     \* maxCasAttempts
    MaxDeliveries,      \* maxDeliveriesPerNeed
    MaxPartials         \* bound on PARTIAL sequence numbers

CosmosAssumption ==
    /\ RecordCapacity \in Nat \ {0}
    /\ MaxCasAttempts \in Nat \ {0}
    /\ MaxDeliveries \in Nat \ {0}
    /\ MaxPartials \in Nat

VARIABLES
    history,    \* every version of each NEED document; the ETag is the index
    tickets,    \* every version of the capacity document
    op,         \* what each call is asked to do
    pc,         \* where each call stands
    attempts,   \* CAS attempts of its current mutate()
    floor,      \* the oldest version the call may read when it tries again
    wire,       \* its request on the way to the store, if any
    answer      \* how it ended

vars == <<history, tickets, op, pc, attempts, floor, wire, answer>>

Terminal == {"completed", "cancelled", "failed"}

Events ==
    ({"NEED", "RESULT", "REVOKE"} \X {0}) \cup ({"PARTIAL"} \X (0..(MaxPartials - 1)))

\* reserveNeed, acceptPartial, transitionNeed, commitRecoveredResult,
\* acknowledgeDelivery and compactNeed, with the event each commits or
\* acknowledges (the event of "fail" and "compact" means nothing).
Operations ==
    [type : {"reserve"}, need : Needs, event : {<<"NEED", 0>>}]
        \cup [type : {"partial"}, need : Needs, event : {"PARTIAL"} \X (0..(MaxPartials - 1))]
        \cup [type : {"complete", "recover"}, need : Needs, event : {<<"RESULT", 0>>}]
        \cup [type : {"cancel"}, need : Needs, event : {<<"REVOKE", 0>>}]
        \cup [type : {"fail", "compact"}, need : Needs, event : {<<"NEED", 0>>}]
        \cup [type : {"ack"}, need : Needs, event : Events]

NoOperation == [type |-> "none", need |-> CHOOSE n \in Needs : TRUE, event |-> <<"NEED", 0>>]

\* A request: its kind, the version it is conditional on, what it writes.
NoRequest == [kind |-> "none"]

Init ==
    /\ history = [n \in Needs |-> <<>>]
    /\ tickets = <<{}>>
    /\ op = [c \in Calls |-> NoOperation]
    /\ pc = [c \in Calls |-> "idle"]
    /\ attempts = [c \in Calls |-> 0]
    /\ floor = [c \in Calls |-> 0]
    /\ wire = [c \in Calls |-> NoRequest]
    /\ answer = [c \in Calls |-> "none"]

Last(s) == s[Len(s)]

Exists(n) == history[n] # <<>>

Doc(n) == Last(history[n])

\* The versions a GET by call c may return.
Readable(c, versions) == {v \in 1..Len(versions) : v >= floor[c]}

Listed(doc) == {doc.deliveries[i] : i \in 1..Len(doc.deliveries)}

-----------------------------------------------------------------------------
\* The callbacks given to mutate(): when the document is left as it is, when
\* it is changed, and to what.  In every other case the callback throws.
Unchanged(o, doc) ==
    CASE o.type = "cancel"  -> doc.status = "cancelled"
      [] o.type = "partial" -> doc.status = "matched" /\ o.event[2] + 1 = doc.partialSequence
      [] o.type = "recover" -> doc.status = "completed" /\ doc.recovered
      [] o.type = "ack"     -> o.event \in doc.acked
      [] o.type = "compact" ->
            /\ doc.status \in Terminal
            /\ {e \in doc.acked : e[1] = "PARTIAL"} \subseteq doc.compacted
      [] OTHER -> FALSE

Room(doc) == Len(doc.deliveries) < MaxDeliveries

Changed(o, doc) ==
    CASE o.type = "partial" ->
            doc.status = "matched" /\ o.event[2] = doc.partialSequence /\ Room(doc)
      [] o.type \in {"complete", "recover", "cancel"} -> doc.status = "matched" /\ Room(doc)
      [] o.type = "fail"    -> doc.status = "matched"
      [] o.type = "ack"     -> o.event \in Listed(doc) \ doc.acked
      [] o.type = "compact" -> doc.status \in Terminal /\ ~Unchanged(o, doc)
      [] OTHER -> FALSE

Edited(o, doc) ==
    LET delivered == [doc EXCEPT !.deliveries = Append(@, o.event)]
    IN  CASE o.type = "partial"  -> [delivered EXCEPT !.partialSequence = @ + 1]
          [] o.type = "complete" -> [delivered EXCEPT !.status = "completed"]
          [] o.type = "recover"  -> [delivered EXCEPT !.status = "completed", !.recovered = TRUE]
          [] o.type = "cancel"   -> [delivered EXCEPT !.status = "cancelled"]
          [] o.type = "fail"     -> [doc EXCEPT !.status = "failed"]
          [] o.type = "ack"      -> [doc EXCEPT !.acked = @ \cup {o.event}]
          [] OTHER -> [doc EXCEPT !.compacted = {e \in doc.acked : e[1] = "PARTIAL"}]

\* The document reserveNeed creates on behalf of call c.
FreshDocument(c) ==
    [author |-> c, status |-> "matched", partialSequence |-> 0, recovered |-> FALSE,
     deliveries |-> <<op[c].event>>, acked |-> {}, compacted |-> {}]

-----------------------------------------------------------------------------
\* Mutants.  A PUT without If-Match; a contended ticket taken for granted; a
\* timed-out write reported as committed.
ServeUnconditionalPut(c) ==
    /\ wire[c].kind = "put"
    /\ wire' = [wire EXCEPT ![c] = NoRequest]
    /\ history' = [history EXCEPT ![op[c].need] = Append(@, wire[c].doc)]
    /\ floor' = [floor EXCEPT ![c] = Len(history'[op[c].need])]
    /\ IF pc[c] = "writing"
         THEN /\ pc' = [pc EXCEPT ![c] = "done"]
              /\ answer' = [answer EXCEPT ![c] = "changed"]
         ELSE UNCHANGED <<pc, answer>>
    /\ UNCHANGED <<tickets, op, attempts>>

ServeContendedTicket(c) ==
    /\ wire[c].kind = "ticket"
    /\ IF wire[c].etag = Len(tickets)
         THEN tickets' = Append(tickets, wire[c].held)
         ELSE UNCHANGED tickets
    /\ IF pc[c] = "allocating"
         THEN /\ pc' = [pc EXCEPT ![c] = "creating"]
              /\ wire' = [wire EXCEPT ![c] = [kind |-> "post", doc |-> FreshDocument(c)]]
         ELSE /\ wire' = [wire EXCEPT ![c] = NoRequest]
              /\ UNCHANGED pc
    /\ UNCHANGED <<history, op, attempts, floor, answer>>

-----------------------------------------------------------------------------
\* A caller enters the interface.
Begin(c, o) ==
    /\ pc[c] = "idle"
    /\ op' = [op EXCEPT ![c] = o]
    /\ pc' = [pc EXCEPT ![c] = IF o.type = "reserve" THEN "allocate" ELSE "reading"]
    /\ UNCHANGED <<history, tickets, attempts, floor, wire, answer>>

End(c, a) ==
    /\ pc' = [pc EXCEPT ![c] = "done"]
    /\ answer' = [answer EXCEPT ![c] = a]

\* mutate(): GET some version of the document, run the callback on it, and
\* send what the callback returns, if anything, conditional on the version.
Read(c) ==
    /\ pc[c] = "reading"
    /\ \E v \in Readable(c, history[op[c].need]) :
        LET doc == history[op[c].need][v]
        IN  \/ /\ Changed(op[c], doc)
               /\ pc' = [pc EXCEPT ![c] = "writing"]
               /\ wire' = [wire EXCEPT ![c] =
                    [kind |-> "put", etag |-> v, doc |-> Edited(op[c], doc)]]
               /\ UNCHANGED answer
            \/ /\ Unchanged(op[c], doc)
               /\ End(c, "unchanged")
               /\ UNCHANGED wire
            \/ /\ ~Changed(op[c], doc) /\ ~Unchanged(op[c], doc)
               /\ End(c, "refused")
               /\ UNCHANGED wire
    /\ UNCHANGED <<history, tickets, op, attempts, floor>>

\* mutate(): the GET finds no document, perhaps because the store has not
\* caught up with its creation.
ReadNothing(c) ==
    /\ pc[c] = "reading"
    /\ floor[c] = 0
    /\ End(c, "refused")
    /\ UNCHANGED <<history, tickets, op, attempts, floor, wire>>

\* reserveCreationCapacity(): GET the capacity document; a document with a
\* ticket may be created, otherwise take a ticket while there are any.
ReadTickets(c) ==
    /\ pc[c] = "allocate"
    /\ \E v \in Readable(c, tickets) :
        \/ /\ op[c].need \in tickets[v]
           /\ pc' = [pc EXCEPT ![c] = "creating"]
           /\ wire' = [wire EXCEPT ![c] = [kind |-> "post", doc |-> FreshDocument(c)]]
           /\ UNCHANGED answer
        \/ /\ op[c].need \notin tickets[v]
           /\ Cardinality(tickets[v]) < RecordCapacity
           /\ pc' = [pc EXCEPT ![c] = "allocating"]
           /\ wire' = [wire EXCEPT ![c] =
                [kind |-> "ticket", etag |-> v, held |-> tickets[v] \cup {op[c].need}]]
           /\ UNCHANGED answer
        \/ /\ op[c].need \notin tickets[v]
           /\ Cardinality(tickets[v]) >= RecordCapacity
           /\ End(c, "refused")
           /\ UNCHANGED wire
    /\ UNCHANGED <<history, tickets, op, attempts, floor>>

\* The caller learns of a 412: try again from the read, or give up.
Retry(c, from) ==
    /\ attempts' = [attempts EXCEPT ![c] = @ + 1]
    /\ IF attempts[c] + 1 < MaxCasAttempts
         THEN pc' = [pc EXCEPT ![c] = from] /\ UNCHANGED answer
         ELSE End(c, "refused")

\* The store serves a PUT of a NEED document; the caller, when it still
\* waits, learns the outcome.
ServePut(c) ==
    /\ wire[c].kind = "put"
    /\ wire' = [wire EXCEPT ![c] = NoRequest]
    /\ \/ /\ wire[c].etag = Len(history[op[c].need])
          /\ history' = [history EXCEPT ![op[c].need] = Append(@, wire[c].doc)]
          /\ IF pc[c] = "writing" THEN End(c, "changed") ELSE UNCHANGED <<pc, answer>>
          /\ UNCHANGED attempts
       \/ /\ wire[c].etag # Len(history[op[c].need])
          /\ IF pc[c] = "writing" THEN Retry(c, "reading") ELSE UNCHANGED <<pc, answer, attempts>>
          /\ UNCHANGED history
    /\ floor' = [floor EXCEPT ![c] = IF pc'[c] = "reading" THEN Len(history'[op[c].need]) ELSE 0]
    /\ UNCHANGED <<tickets, op>>

\* The same for the capacity document; the caller goes on to create.
ServeTicket(c) ==
    /\ wire[c].kind = "ticket"
    /\ \/ /\ wire[c].etag = Len(tickets)
          /\ tickets' = Append(tickets, wire[c].held)
          /\ IF pc[c] = "allocating"
               THEN /\ pc' = [pc EXCEPT ![c] = "creating"]
                    /\ wire' = [wire EXCEPT ![c] = [kind |-> "post", doc |-> FreshDocument(c)]]
               ELSE /\ wire' = [wire EXCEPT ![c] = NoRequest]
                    /\ UNCHANGED pc
          /\ UNCHANGED <<attempts, answer>>
       \/ /\ wire[c].etag # Len(tickets)
          /\ wire' = [wire EXCEPT ![c] = NoRequest]
          /\ IF pc[c] = "allocating" THEN Retry(c, "allocate") ELSE UNCHANGED <<pc, answer, attempts>>
          /\ UNCHANGED tickets
    /\ floor' = [floor EXCEPT ![c] = IF pc'[c] = "allocate" THEN Len(tickets') ELSE 0]
    /\ UNCHANGED <<history, op>>

\* The store serves the POST that creates a document.
ServePost(c) ==
    /\ wire[c].kind = "post"
    /\ wire' = [wire EXCEPT ![c] = NoRequest]
    /\ \/ /\ ~Exists(op[c].need)
          /\ history' = [history EXCEPT ![op[c].need] = <<wire[c].doc>>]
          /\ IF pc[c] = "creating" THEN End(c, "changed") ELSE UNCHANGED <<pc, answer>>
       \/ /\ Exists(op[c].need)
          /\ IF pc[c] = "creating" THEN End(c, "refused") ELSE UNCHANGED <<pc, answer>>
          /\ UNCHANGED history
    /\ UNCHANGED <<tickets, op, attempts, floor>>

\* The deadline passes, or the caller crashes, before the reply to a write
\* arrives: the outcome is unknown, and the request is still on the way.  (A
\* caller that gives up while it reads leaves no trace.)
GiveUp(c) ==
    /\ pc[c] \in {"allocating", "creating", "writing"}
    /\ End(c, "unknown")
    /\ UNCHANGED <<history, tickets, op, attempts, floor, wire>>

Next ==
    \E c \in Calls :
        \/ \E o \in Operations : o.type \in Offered[c] /\ Begin(c, o)
        \/ Read(c)
        \/ ReadNothing(c)
        \/ ReadTickets(c)
        \/ ServePut(c)
        \/ ServeTicket(c)
        \/ ServePost(c)
        \/ GiveUp(c)

Spec == Init /\ [][Next]_vars

-----------------------------------------------------------------------------
Documents ==
    [author : Calls, status : {"matched"} \cup Terminal, partialSequence : Nat,
     recovered : BOOLEAN, deliveries : Seq(Events), acked : SUBSET Events,
     compacted : SUBSET Events]

Requests ==
    {NoRequest}
        \cup [kind : {"put"}, etag : Nat, doc : Documents]
        \cup [kind : {"ticket"}, etag : Nat, held : SUBSET Needs]
        \cup [kind : {"post"}, doc : Documents]

\* Every variable has its type.
TypeOK ==
    /\ history \in [Needs -> Seq(Documents)]
    /\ tickets \in Seq(SUBSET Needs)
    /\ op \in [Calls -> Operations \cup {NoOperation}]
    /\ pc \in [Calls -> {"idle", "reading", "writing", "allocate", "allocating", "creating", "done"}]
    /\ attempts \in [Calls -> 0..MaxCasAttempts]
    /\ floor \in [Calls -> Nat]
    /\ wire \in [Calls -> Requests]
    /\ answer \in [Calls -> {"none", "changed", "unchanged", "refused", "unknown"}]

\* "Allocation precedes entity creation": every document has its ticket and
\* the tickets never exceed the capacity, even when replies are lost and
\* requests of callers that gave up are served late.
CapacityHolds ==
    /\ Cardinality(Last(tickets)) <= RecordCapacity
    /\ \A n \in Needs : Exists(n) => n \in Last(tickets)

\* Of the calls racing to reserve a NEED, or to end it, at most one is told
\* that it did, and it tells the truth: its document, or its end, stands.
OneWinner ==
    \A c \in Calls : answer[c] = "changed" =>
        /\ Exists(op[c].need)
        /\ op[c].type = "reserve" => Doc(op[c].need).author = c
        /\ op[c].type \in {"complete", "recover", "cancel", "fail"} =>
            /\ Doc(op[c].need).status =
                CASE op[c].type = "cancel" -> "cancelled"
                  [] op[c].type = "fail" -> "failed"
                  [] OTHER -> "completed"
            /\ \A d \in Calls \ {c} :
                ~(/\ answer[d] = "changed"
                  /\ op[d].need = op[c].need
                  /\ op[d].type \in {"complete", "recover", "cancel", "fail"})

\* What a caller was told is committed stays committed, whoever writes the
\* document later from whatever stale copy: its event is still in the outbox
\* exactly once, and an acknowledged event is never un-acknowledged.
AnswersStand ==
    \A c \in Calls : answer[c] \in {"changed", "unchanged"} =>
        LET doc == Doc(op[c].need)
        IN  /\ Exists(op[c].need)
            /\ op[c].type \in {"reserve", "partial", "complete", "recover"} =>
                Cardinality({i \in 1..Len(doc.deliveries) : doc.deliveries[i] = op[c].event}) = 1
            /\ op[c].type = "ack" => op[c].event \in doc.acked

\* Compaction never drops the payload of an event that is still to be
\* recovered: only acknowledged PARTIALs of a NEED that has ended lose it.
PendingPayloadsKept ==
    \A n \in Needs : Exists(n) =>
        /\ Doc(n).compacted \subseteq {e \in Doc(n).acked : e[1] = "PARTIAL"}
        /\ Doc(n).compacted # {} => Doc(n).status \in Terminal

Abstract == INSTANCE NeedLifecycle WITH
    status <- [n \in Needs |-> IF Exists(n) THEN Doc(n).status ELSE "absent"],
    events <- [n \in Needs |-> IF Exists(n) THEN Listed(Doc(n)) ELSE {}]

\* The distributed ledger keeps the same promise as the SQLite one.
KeepsLifecycle == Abstract!Spec

-----------------------------------------------------------------------------
(***************************************************************************)
(* Proofs, for any NEEDs, calls and bounds.  A version of a document is    *)
(* the edit of the version before it, because a PUT is conditional on the  *)
(* version it was computed from; so what one version says is still said by *)
(* the newest, however late a request is served and however old the        *)
(* version that a caller was shown.                                        *)
(***************************************************************************)

Enders == {"complete", "recover", "cancel", "fail"}

EndOf(type) == CASE type = "cancel" -> "cancelled" [] type = "fail" -> "failed" [] OTHER -> "completed"

\* What each version of a document says is consistent: no event is listed
\* twice, the PARTIALs listed are those counted, and an end is listed when it
\* has come and only then.
Lawful(doc) ==
    /\ \A i, j \in 1..Len(doc.deliveries) : doc.deliveries[i] = doc.deliveries[j] => i = j
    /\ \A t \in 0..(MaxPartials - 1) : <<"PARTIAL", t>> \in Listed(doc) <=> t < doc.partialSequence
    /\ doc.status = "matched" => <<"RESULT", 0>> \notin Listed(doc) /\ <<"REVOKE", 0>> \notin Listed(doc)
    /\ doc.status = "completed" => <<"RESULT", 0>> \in Listed(doc)
    /\ doc.compacted \subseteq {e \in doc.acked : e[1] = "PARTIAL"}
    /\ doc.compacted # {} => doc.status \in Terminal

\* Nothing that document d says is taken back by document e.
Continues(d, e) ==
    /\ e.author = d.author
    /\ Listed(d) \subseteq Listed(e)
    /\ d.acked \subseteq e.acked
    /\ d.status # "matched" => e.status = d.status

VersionsContinue ==
    \A n \in Needs : \A v \in 1..Len(history[n]) :
        Lawful(history[n][v]) /\ Continues(history[n][v], Doc(n))

TicketsContinue ==
    /\ tickets # <<>>
    /\ \A v \in 1..Len(tickets) :
        /\ tickets[v] \subseteq Last(tickets)
        /\ IsFiniteSet(tickets[v]) /\ Cardinality(tickets[v]) <= RecordCapacity

\* Where a call stands, what it does and what it has on the wire fit together.
CallFits(c) ==
    /\ pc[c] # "idle" => op[c] \in Operations
    /\ pc[c] \in {"idle", "reading", "allocate"} => wire[c].kind = "none"
    /\ pc[c] = "allocating" => wire[c].kind = "ticket"
    /\ pc[c] = "creating" => wire[c].kind = "post"
    /\ pc[c] = "done" /\ wire[c].kind # "none" => answer[c] = "unknown"
    /\ pc[c] # "done" => answer[c] = "none" /\ attempts[c] < MaxCasAttempts
    /\ pc[c] \in {"allocate", "allocating", "creating"} => op[c].type = "reserve"
    /\ pc[c] \in {"reading", "writing"} => op[c].type # "reserve"

\* A request on the wire was computed from the version it is conditional on; a
\* document is posted only with its ticket.
RequestFits(c) ==
    /\ wire[c].kind = "put" =>
        /\ op[c].type # "reserve"
        /\ wire[c].etag \in 1..Len(history[op[c].need])
        /\ Changed(op[c], history[op[c].need][wire[c].etag])
        /\ wire[c].doc = Edited(op[c], history[op[c].need][wire[c].etag])
    /\ wire[c].kind = "ticket" =>
        /\ op[c].type = "reserve"
        /\ wire[c].etag \in 1..Len(tickets)
        /\ wire[c].held = tickets[wire[c].etag] \cup {op[c].need}
        /\ Cardinality(tickets[wire[c].etag]) < RecordCapacity
    /\ wire[c].kind = "post" =>
        /\ op[c].type = "reserve"
        /\ wire[c].doc = FreshDocument(c)
        /\ op[c].need \in Last(tickets)

\* What document doc has to say of operation o when call c was told a.
Tells(c, o, a, doc) ==
    /\ o.type \in {"reserve", "partial", "complete", "recover"} => o.event \in Listed(doc)
    /\ o.type = "ack" => o.event \in doc.acked
    /\ a = "changed" =>
        /\ o.type = "reserve" => doc.author = c
        /\ o.type \in Enders => doc.status = EndOf(o.type)

AnswerFits(c) ==
    answer[c] \in {"changed", "unchanged"} =>
        Exists(op[c].need) /\ Tells(c, op[c], answer[c], Doc(op[c].need))

OneEnder ==
    \A c, d \in Calls :
        /\ answer[c] = "changed" /\ op[c].type \in Enders
        /\ answer[d] = "changed" /\ op[d].type \in Enders
        /\ op[c].need = op[d].need
        => c = d

CosmosInv ==
    /\ TypeOK /\ VersionsContinue /\ TicketsContinue
    /\ \A n \in Needs : Exists(n) => n \in Last(tickets)
    /\ \A c \in Calls : CallFits(c) /\ RequestFits(c) /\ AnswerFits(c)
    /\ OneEnder

-----------------------------------------------------------------------------
LEMMA OperationTyped ==
    ASSUME NEW o \in Operations
    PROVE  /\ o.need \in Needs /\ o.event \in Events
           /\ o.type \in {"reserve", "partial", "complete", "recover", "cancel", "fail", "compact", "ack"}
           /\ o.type = "reserve" => o.event = <<"NEED", 0>>
           /\ o.type = "partial" => o.event[2] \in 0..(MaxPartials - 1) /\ o.event = <<"PARTIAL", o.event[2]>>
           /\ o.type \in {"complete", "recover"} => o.event = <<"RESULT", 0>>
           /\ o.type = "cancel" => o.event = <<"REVOKE", 0>>
BY DEF Operations, Events

LEMMA EventForms ==
    /\ <<"NEED", 0>> \in Events /\ <<"RESULT", 0>> \in Events /\ <<"REVOKE", 0>> \in Events
    /\ \A t \in 0..(MaxPartials - 1) : <<"PARTIAL", t>> \in Events
BY DEF Events

\* The fields of an edited document.
LEMMA EditedFields ==
    ASSUME NEW o \in Operations, NEW doc \in Documents, Changed(o, doc)
    PROVE  LET e == Edited(o, doc)
               delivers == o.type \in {"partial", "complete", "recover", "cancel"}
           IN  /\ e \in Documents
               /\ e.author = doc.author
               /\ e.deliveries = IF delivers THEN Append(doc.deliveries, o.event) ELSE doc.deliveries
               /\ e.partialSequence = IF o.type = "partial" THEN doc.partialSequence + 1
                                      ELSE doc.partialSequence
               /\ e.status = IF o.type \in Enders THEN EndOf(o.type) ELSE doc.status
               /\ e.acked = IF o.type = "ack" THEN doc.acked \cup {o.event} ELSE doc.acked
               /\ e.compacted = IF o.type = "compact" THEN {x \in doc.acked : x[1] = "PARTIAL"}
                                ELSE doc.compacted
<1>1. o.event \in Events /\ o.type # "reserve"
  BY OperationTyped DEF Changed
<1>2. Append(doc.deliveries, o.event) \in Seq(Events)
  BY <1>1 DEF Documents
<1> DEFINE delivered == [doc EXCEPT !.deliveries = Append(@, o.event)]
<1>3. /\ delivered \in Documents /\ delivered.deliveries = Append(doc.deliveries, o.event)
      /\ delivered.author = doc.author /\ delivered.status = doc.status
      /\ delivered.partialSequence = doc.partialSequence /\ delivered.recovered = doc.recovered
      /\ delivered.acked = doc.acked /\ delivered.compacted = doc.compacted
  BY <1>2 DEF Documents
<1> HIDE DEF delivered
<1>4. CASE o.type = "partial"
  <2>1. Edited(o, doc) = [delivered EXCEPT !.partialSequence = @ + 1]
    BY <1>4 DEF Edited, delivered
  <2> QED
    BY <1>3, <1>4, <2>1 DEF Documents, Enders
<1>5. CASE o.type = "complete"
  <2>1. Edited(o, doc) = [delivered EXCEPT !.status = "completed"]
    BY <1>5 DEF Edited, delivered
  <2> QED
    BY <1>3, <1>5, <2>1 DEF Documents, Enders, EndOf, Terminal
<1>6. CASE o.type = "recover"
  <2>1. Edited(o, doc) = [delivered EXCEPT !.status = "completed", !.recovered = TRUE]
    BY <1>6 DEF Edited, delivered
  <2> QED
    BY ZenonT(60), <1>3, <1>6, <2>1 DEF Documents, Enders, EndOf, Terminal
<1>7. CASE o.type = "cancel"
  <2>1. Edited(o, doc) = [delivered EXCEPT !.status = "cancelled"]
    BY <1>7 DEF Edited, delivered
  <2> QED
    BY <1>3, <1>7, <2>1 DEF Documents, Enders, EndOf, Terminal
<1>8. CASE o.type = "fail"
  <2>1. Edited(o, doc) = [doc EXCEPT !.status = "failed"]
    BY <1>8 DEF Edited
  <2> QED
    BY <1>8, <2>1 DEF Documents, Enders, EndOf, Terminal
<1>9. CASE o.type = "ack"
  <2>1. Edited(o, doc) = [doc EXCEPT !.acked = @ \cup {o.event}]
    BY <1>9 DEF Edited
  <2> QED
    BY <1>1, <1>9, <2>1 DEF Documents, Enders
<1>10. CASE o.type = "compact"
  <2>1. Edited(o, doc) = [doc EXCEPT !.compacted = {e \in doc.acked : e[1] = "PARTIAL"}]
    BY <1>10 DEF Edited
  <2> QED
    BY <1>10, <2>1 DEF Documents, Enders
<1> QED
  BY <1>1, <1>4, <1>5, <1>6, <1>7, <1>8, <1>9, <1>10, OperationTyped

LEMMA AppendLists ==
    ASSUME NEW s \in Seq(Events), NEW e \in Events
    PROVE  /\ {Append(s, e)[i] : i \in 1..Len(Append(s, e))} = {s[i] : i \in 1..Len(s)} \cup {e}
           /\ (/\ e \notin {s[i] : i \in 1..Len(s)}
               /\ \A i, j \in 1..Len(s) : s[i] = s[j] => i = j)
              => \A i, j \in 1..Len(Append(s, e)) : Append(s, e)[i] = Append(s, e)[j] => i = j
<1>1. /\ Len(Append(s, e)) = Len(s) + 1 /\ Len(s) \in Nat
      /\ \A i \in 1..Len(s) : Append(s, e)[i] = s[i]
      /\ Append(s, e)[Len(s) + 1] = e
  BY AppendProperties, LenProperties
<1>2. \A i \in 1..(Len(s) + 1) : i \in 1..Len(s) \/ i = Len(s) + 1
  BY <1>1
<1>3. 1..Len(s) \subseteq 1..(Len(s) + 1) /\ Len(s) + 1 \in 1..(Len(s) + 1)
  BY <1>1
<1> HIDE DEF Events
<1> DEFINE more == Append(s, e)
<1> HIDE DEF more
<1>4. {more[i] : i \in 1..(Len(s) + 1)} = {s[i] : i \in 1..Len(s)} \cup {e}
  BY <1>1, <1>2, <1>3 DEF more
<1>5. ASSUME e \notin {s[i] : i \in 1..Len(s)}, \A i, j \in 1..Len(s) : s[i] = s[j] => i = j,
             NEW i \in 1..(Len(s) + 1), NEW j \in 1..(Len(s) + 1), more[i] = more[j]
      PROVE  i = j
  BY <1>1, <1>2, <1>5 DEF more
<1> QED
  BY <1>1, <1>4, <1>5 DEF more

\* An edit is lawful, and takes nothing back.
LEMMA EditContinues ==
    ASSUME NEW o \in Operations, NEW doc \in Documents, Lawful(doc), Changed(o, doc),
           CosmosAssumption
    PROVE  Lawful(Edited(o, doc)) /\ Continues(doc, Edited(o, doc))
<1> DEFINE e == Edited(o, doc)
           delivers == o.type \in {"partial", "complete", "recover", "cancel"}
<1>1. /\ e \in Documents
      /\ e.author = doc.author
      /\ e.deliveries = IF delivers THEN Append(doc.deliveries, o.event) ELSE doc.deliveries
      /\ e.partialSequence = IF o.type = "partial" THEN doc.partialSequence + 1
                             ELSE doc.partialSequence
      /\ e.status = IF o.type \in Enders THEN EndOf(o.type) ELSE doc.status
      /\ e.acked = IF o.type = "ack" THEN doc.acked \cup {o.event} ELSE doc.acked
      /\ e.compacted = IF o.type = "compact" THEN {x \in doc.acked : x[1] = "PARTIAL"}
                       ELSE doc.compacted
  BY EditedFields
<1>2. o.event \in Events /\ doc.deliveries \in Seq(Events) /\ doc.partialSequence \in Nat
  BY OperationTyped DEF Documents
<1>3. /\ o.type \in Enders \cup {"partial"} => doc.status = "matched"
      /\ o.type = "partial" => o.event[2] = doc.partialSequence
      /\ o.type = "compact" => doc.status \in Terminal
  BY DEF Changed, Enders
<1> HIDE DEF e
<1>4. ~delivers => Listed(e) = Listed(doc)
  BY <1>1 DEF Listed
<1>5. delivers => Listed(e) = Listed(doc) \cup {o.event}
  <2> SUFFICES ASSUME delivers PROVE Listed(e) = Listed(doc) \cup {o.event}
    OBVIOUS
  <2>1. e.deliveries = Append(doc.deliveries, o.event)
    BY <1>1
  <2> QED
    BY <1>2, <2>1, AppendLists DEF Listed
<1>6. delivers => o.event \notin Listed(doc)
  <2>1. CASE o.type = "partial"
    BY <1>2, <1>3, <2>1, OperationTyped DEF Lawful
  <2>2. CASE o.type \in {"complete", "recover", "cancel"}
    BY <1>3, <2>2, OperationTyped DEF Lawful, Enders
  <2> QED
    BY <2>1, <2>2
<1>7. \A i, j \in 1..Len(e.deliveries) : e.deliveries[i] = e.deliveries[j] => i = j
  <2>0. \A i, j \in 1..Len(doc.deliveries) : doc.deliveries[i] = doc.deliveries[j] => i = j
    BY DEF Lawful
  <2>1. CASE delivers
    <3>1. e.deliveries = Append(doc.deliveries, o.event)
      BY <1>1, <2>1
    <3>2. o.event \notin {doc.deliveries[i] : i \in 1..Len(doc.deliveries)}
      BY <1>6, <2>1 DEF Listed
    <3> QED
      BY <1>2, <2>0, <3>1, <3>2, AppendLists
  <2>2. CASE ~delivers
    BY <1>1, <2>0, <2>2
  <2> QED
    BY <2>1, <2>2
<1>8. \A t \in 0..(MaxPartials - 1) : <<"PARTIAL", t>> \in Listed(e) <=> t < e.partialSequence
  <2>0. \A t \in 0..(MaxPartials - 1) : <<"PARTIAL", t>> \in Listed(doc) <=> t < doc.partialSequence
    BY DEF Lawful
  <2>1. CASE o.type = "partial"
    <3>1. /\ o.event = <<"PARTIAL", doc.partialSequence>> /\ e.partialSequence = doc.partialSequence + 1
          /\ Listed(e) = Listed(doc) \cup {o.event}
      BY <1>1, <1>3, <1>5, <2>1, OperationTyped
    <3> TAKE t \in 0..(MaxPartials - 1)
    <3>2. t < e.partialSequence <=> t < doc.partialSequence \/ t = doc.partialSequence
      BY <1>2, <3>1 DEF CosmosAssumption
    <3>3. <<"PARTIAL", t>> = o.event <=> t = doc.partialSequence
      BY <3>1
    <3> QED
      BY <2>0, <3>1, <3>2, <3>3
  <2>2. CASE o.type # "partial"
    <3>1. \A t \in 0..(MaxPartials - 1) : delivers => o.event # <<"PARTIAL", t>>
      BY <2>2, OperationTyped
    <3>2. e.partialSequence = doc.partialSequence
      BY <1>1, <2>2
    <3> QED
      BY <1>4, <1>5, <2>0, <3>1, <3>2
  <2> QED
    BY <2>1, <2>2
<1>9. /\ e.status = "matched" => <<"RESULT", 0>> \notin Listed(e) /\ <<"REVOKE", 0>> \notin Listed(e)
      /\ e.status = "completed" => <<"RESULT", 0>> \in Listed(e)
  <2>1. CASE o.type \in {"complete", "recover"}
    BY <1>1, <1>5, <2>1, OperationTyped DEF Enders, EndOf
  <2>2. CASE o.type \in {"cancel", "fail"}
    BY <1>1, <2>2 DEF Enders, EndOf
  <2>3. CASE o.type = "partial"
    BY <1>1, <1>5, <2>3, OperationTyped DEF Enders, Lawful
  <2>4. CASE o.type \in {"ack", "compact"}
    BY <1>1, <1>4, <2>4 DEF Enders, Lawful
  <2> QED
    BY <2>1, <2>2, <2>3, <2>4, OperationTyped DEF Changed
<1>10. e.compacted \subseteq {x \in e.acked : x[1] = "PARTIAL"} /\ (e.compacted # {} => e.status \in Terminal)
  BY <1>1, <1>3 DEF Lawful, Enders, EndOf, Terminal
<1>11. Continues(doc, e)
  BY <1>1, <1>3, <1>4, <1>5 DEF Continues
<1> QED
  BY <1>7, <1>8, <1>9, <1>10, <1>11 DEF Lawful, e

LEMMA Transitive ==
    ASSUME NEW d, NEW e, NEW f, Continues(d, e), Continues(e, f)
    PROVE  Continues(d, f)
BY DEF Continues

\* What a call was told is still told by a document that continues the old one.
LEMMA StillTells ==
    ASSUME NEW c, NEW o, NEW a, NEW d, NEW e, Tells(c, o, a, d), Continues(d, e)
    PROVE  Tells(c, o, a, e)
BY DEF Tells, Continues, EndOf

LEMMA CallTyped ==
    ASSUME CosmosInv, NEW c \in Calls, pc[c] # "idle" \/ wire[c].kind # "none"
    PROVE  op[c] \in Operations /\ op[c].need \in Needs /\ op[c].event \in Events /\ pc[c] # "idle"
<1>1. CallFits(c)
  BY DEF CosmosInv
<1>2. op[c] \in Operations /\ pc[c] # "idle"
  BY <1>1 DEF CallFits
<1> QED
  BY <1>2, OperationTyped

\* The newest version of a document.
LEMMA Newest ==
    ASSUME CosmosInv, NEW n \in Needs, Exists(n)
    PROVE  /\ Len(history[n]) \in 1..Len(history[n])
           /\ Doc(n) = history[n][Len(history[n])] /\ Doc(n) \in Documents /\ Lawful(Doc(n))
<1>1. history[n] \in Seq(Documents) /\ history[n] # <<>>
  BY DEF CosmosInv, TypeOK, Exists
<1>2. Len(history[n]) \in 1..Len(history[n])
  BY <1>1, LenProperties, EmptySeq
<1> QED
  BY <1>1, <1>2 DEF CosmosInv, VersionsContinue, Doc, Last

\* Only call c moves.
Moves(c) ==
    \A d \in Calls \ {c} :
        /\ op'[d] = op[d] /\ pc'[d] = pc[d] /\ attempts'[d] = attempts[d]
        /\ wire'[d] = wire[d] /\ answer'[d] = answer[d]

\* A call that is not told of a change does not disturb the count of ends.
LEMMA NoNewEnder ==
    ASSUME CosmosInv, NEW c \in Calls, Moves(c), answer'[c] # "changed" \/ op'[c].type \notin Enders
    PROVE  OneEnder'
<1>1. \A d \in Calls : answer'[d] = "changed" /\ op'[d].type \in Enders =>
        d # c /\ answer[d] = "changed" /\ op'[d] = op[d]
  BY DEF Moves
<1> QED
  BY <1>1 DEF CosmosInv, OneEnder

\* The store is left alone.
LEMMA CallKeeps ==
    ASSUME CosmosInv, NEW c \in Calls, TypeOK', Moves(c), UNCHANGED <<history, tickets>>,
           CallFits(c)', RequestFits(c)', AnswerFits(c)', OneEnder'
    PROVE  CosmosInv'
<1>1. ASSUME NEW d \in Calls \ {c} PROVE CallFits(d)' /\ RequestFits(d)' /\ AnswerFits(d)'
  <2>1. /\ op'[d] = op[d] /\ pc'[d] = pc[d] /\ attempts'[d] = attempts[d]
        /\ wire'[d] = wire[d] /\ answer'[d] = answer[d]
    BY <1>1 DEF Moves
  <2>2. CallFits(d) /\ RequestFits(d) /\ AnswerFits(d)
    BY <1>1 DEF CosmosInv
  <2>3. CallFits(d)'
    BY <2>1, <2>2 DEF CallFits
  <2>4. RequestFits(d)'
    BY <2>1, <2>2 DEF RequestFits, FreshDocument
  <2>5. AnswerFits(d)'
    BY <2>1, <2>2 DEF AnswerFits, Exists, Doc
  <2> QED
    BY <2>3, <2>4, <2>5
<1>2. VersionsContinue' /\ TicketsContinue' /\ \A n \in Needs : Exists(n)' => n \in Last(tickets)'
  BY DEF CosmosInv, VersionsContinue, TicketsContinue, Exists, Doc
<1> QED
  BY <1>1, <1>2 DEF CosmosInv

\* A new version of a document, or its first one, is written.
LEMMA DocumentKeeps ==
    ASSUME CosmosInv, NEW c \in Calls, NEW n \in Needs, NEW doc \in Documents,
           TypeOK', Moves(c), UNCHANGED tickets,
           history' = [history EXCEPT ![n] = Append(@, doc)],
           Lawful(doc), Exists(n) => Continues(Doc(n), doc), n \in Last(tickets),
           CallFits(c)', RequestFits(c)', AnswerFits(c)', OneEnder'
    PROVE  CosmosInv'
<1>0. history \in [Needs -> Seq(Documents)] /\ VersionsContinue /\ TicketsContinue
  BY DEF CosmosInv, TypeOK
<1>1. /\ \A m \in Needs \ {n} : history'[m] = history[m]
      /\ history'[n] = Append(history[n], doc)
      /\ Len(history'[n]) = Len(history[n]) + 1 /\ Len(history[n]) \in Nat
      /\ \A v \in 1..Len(history[n]) : history'[n][v] = history[n][v]
      /\ history'[n][Len(history'[n])] = doc
  BY <1>0, AppendProperties, LenProperties
<1>2. Doc(n)' = doc /\ Exists(n)'
  <2>1. Doc(n)' = history'[n][Len(history'[n])]
    BY DEF Doc, Last
  <2>2. history'[n] # <<>>
    BY <1>1
  <2> QED
    BY <1>1, <2>1, <2>2 DEF Exists
<1>3. \A m \in Needs \ {n} : Doc(m)' = Doc(m) /\ (Exists(m)' <=> Exists(m))
  BY <1>1 DEF Doc, Exists, Last
<1>4. \A m \in Needs : Exists(m) => Exists(m)' /\ Continues(Doc(m), Doc(m)')
  <2>1. \A m \in Needs \ {n} : Exists(m) => Continues(Doc(m), Doc(m)')
    BY <1>3 DEF Continues
  <2> QED
    BY <1>2, <1>3, <2>1
<1>5. VersionsContinue'
  <2> SUFFICES ASSUME NEW m \in Needs, NEW v \in 1..Len(history'[m])
               PROVE  Lawful(history'[m][v]) /\ Continues(history'[m][v], Doc(m)')
    BY DEF VersionsContinue, Lawful, Continues, Listed
  <2>1. CASE m # n
    BY <1>0, <1>1, <1>3, <2>1 DEF VersionsContinue
  <2>2. CASE m = n /\ v \in 1..Len(history[n])
    <3>1. Lawful(history[n][v]) /\ Continues(history[n][v], Doc(n)) /\ Exists(n)
      BY <1>0, <2>2 DEF VersionsContinue, Exists
    <3> QED
      BY <1>1, <1>2, <2>2, <3>1, Transitive
  <2>3. CASE m = n /\ v = Len(history[n]) + 1
    BY <1>1, <1>2, <2>3 DEF Continues
  <2> QED
    BY SMTT(60), <1>1, <2>1, <2>2, <2>3
<1>6. \A m \in Needs : Exists(m)' => m \in Last(tickets)'
  BY <1>3 DEF CosmosInv
<1>7. TicketsContinue'
  BY <1>0 DEF TicketsContinue
<1>8. ASSUME NEW d \in Calls \ {c} PROVE CallFits(d)' /\ RequestFits(d)' /\ AnswerFits(d)'
  <2>1. /\ op'[d] = op[d] /\ pc'[d] = pc[d] /\ attempts'[d] = attempts[d]
        /\ wire'[d] = wire[d] /\ answer'[d] = answer[d]
    BY <1>8 DEF Moves
  <2>2. CallFits(d) /\ RequestFits(d) /\ AnswerFits(d)
    BY <1>8 DEF CosmosInv
  <2>3. CallFits(d)'
    BY <2>1, <2>2 DEF CallFits
  <2>4. RequestFits(d)'
    <3>1. ASSUME wire[d].kind = "put"
          PROVE  /\ wire[d].etag \in 1..Len(history'[op[d].need])
                 /\ history'[op[d].need][wire[d].etag] = history[op[d].need][wire[d].etag]
      <4>1. op[d].need \in Needs /\ wire[d].etag \in 1..Len(history[op[d].need])
        BY <1>8, <2>2, <3>1, CallTyped DEF RequestFits
      <4> QED
        BY <1>1, <4>1
    <3> QED
      BY <2>1, <2>2, <3>1 DEF RequestFits, FreshDocument
  <2>5. AnswerFits(d)'
    <3> SUFFICES ASSUME answer[d] \in {"changed", "unchanged"}
                 PROVE  AnswerFits(d)'
      BY <2>1 DEF AnswerFits
    <3>1. pc[d] # "idle"
      BY <1>8, <2>2 DEF CallFits
    <3>2. op[d].need \in Needs /\ Exists(op[d].need) /\ Tells(d, op[d], answer[d], Doc(op[d].need))
      BY <1>8, <2>2, <3>1, CallTyped DEF AnswerFits
    <3>3. PICK m \in Needs : m = op[d].need
      BY <3>2
    <3>4. Exists(m)' /\ Tells(d, op[d], answer[d], Doc(m)')
      BY <1>4, <3>2, <3>3, StillTells
    <3>5. m = op'[d].need
      BY <2>1, <3>3
    <3> QED
      BY <2>1, <3>4, <3>5 DEF AnswerFits, Tells, Listed
  <2> QED
    BY <2>3, <2>4, <2>5
<1> QED
  BY <1>5, <1>6, <1>7, <1>8 DEF CosmosInv

\* A ticket is taken.
LEMMA TicketKeeps ==
    ASSUME CosmosInv, CosmosAssumption, NEW c \in Calls, NEW n \in Needs,
           TypeOK', Moves(c), UNCHANGED history,
           tickets' = Append(tickets, Last(tickets) \cup {n}),
           Cardinality(Last(tickets)) < RecordCapacity,
           CallFits(c)', RequestFits(c)', AnswerFits(c)', OneEnder'
    PROVE  CosmosInv'
<1>0. tickets \in Seq(SUBSET Needs) /\ TicketsContinue /\ RecordCapacity \in Nat
  BY DEF CosmosInv, TypeOK, CosmosAssumption
<1>1. /\ Len(tickets) \in Nat \ {0} /\ Last(tickets) = tickets[Len(tickets)]
      /\ Last(tickets) \in SUBSET Needs /\ Len(tickets) \in 1..Len(tickets)
  BY <1>0, LenProperties, EmptySeq DEF TicketsContinue, Last
<1> DEFINE held == Last(tickets) \cup {n}
<1>2. held \in SUBSET Needs
  BY <1>1
<1>3. /\ Len(tickets') = Len(tickets) + 1
      /\ \A v \in 1..Len(tickets) : tickets'[v] = tickets[v]
      /\ tickets'[Len(tickets) + 1] = held
  BY <1>0, <1>1, <1>2, AppendProperties
<1>4. Last(tickets)' = held
  BY <1>3 DEF Last
<1>5. IsFiniteSet(held) /\ Cardinality(held) <= RecordCapacity
  <2>1. IsFiniteSet(Last(tickets))
    BY <1>0, <1>1 DEF TicketsContinue
  <2>2. IsFiniteSet(held) /\ Cardinality(held) = IF n \in Last(tickets) THEN Cardinality(Last(tickets))
                                                 ELSE Cardinality(Last(tickets)) + 1
    BY <2>1, FS_AddElement
  <2>3. Cardinality(Last(tickets)) \in Nat
    BY <2>1, FS_CardinalityType
  <2> QED
    BY <1>0, <2>2, <2>3
<1> HIDE DEF held
<1>6. Last(tickets) \subseteq held
  BY DEF held
<1>7. TicketsContinue'
  <2>1. tickets' # <<>>
    BY <1>1, <1>3
  <2>2. ASSUME NEW v \in 1..Len(tickets')
        PROVE  /\ tickets'[v] \subseteq held
               /\ IsFiniteSet(tickets'[v]) /\ Cardinality(tickets'[v]) <= RecordCapacity
    <3>1. CASE v \in 1..Len(tickets)
      BY <1>0, <1>3, <1>6, <3>1 DEF TicketsContinue
    <3>2. CASE v = Len(tickets) + 1
      BY <1>3, <1>5, <3>2
    <3> QED
      BY <1>1, <1>3, <3>1, <3>2
  <2> QED
    BY <1>4, <2>1, <2>2 DEF TicketsContinue
<1>8. VersionsContinue' /\ \A m \in Needs : Exists(m)' => m \in Last(tickets)'
  BY <1>4, <1>6 DEF CosmosInv, VersionsContinue, Exists, Doc
<1>9. ASSUME NEW d \in Calls \ {c} PROVE CallFits(d)' /\ RequestFits(d)' /\ AnswerFits(d)'
  <2>1. /\ op'[d] = op[d] /\ pc'[d] = pc[d] /\ attempts'[d] = attempts[d]
        /\ wire'[d] = wire[d] /\ answer'[d] = answer[d]
    BY <1>9 DEF Moves
  <2>2. CallFits(d) /\ RequestFits(d) /\ AnswerFits(d)
    BY <1>9 DEF CosmosInv
  <2>3. CallFits(d)'
    BY <2>1, <2>2 DEF CallFits
  <2>4. ASSUME wire[d].kind = "ticket"
        PROVE  wire[d].etag \in 1..Len(tickets') /\ tickets'[wire[d].etag] = tickets[wire[d].etag]
    <3>1. wire[d].etag \in 1..Len(tickets)
      BY <2>2, <2>4 DEF RequestFits
    <3> QED
      BY <1>1, <1>3, <3>1
  <2>5. RequestFits(d)'
    BY <1>4, <1>6, <2>1, <2>2, <2>4 DEF RequestFits, FreshDocument
  <2>6. AnswerFits(d)'
    BY <2>1, <2>2 DEF AnswerFits, Exists, Doc
  <2> QED
    BY <2>3, <2>5, <2>6
<1> QED
  BY <1>7, <1>8, <1>9 DEF CosmosInv

-----------------------------------------------------------------------------
LEMMA RequestForms ==
    /\ NoRequest \in Requests /\ NoRequest.kind = "none"
    /\ \A v \in Nat, doc \in Documents : [kind |-> "put", etag |-> v, doc |-> doc] \in Requests
    /\ \A v \in Nat, held \in SUBSET Needs : [kind |-> "ticket", etag |-> v, held |-> held] \in Requests
    /\ \A doc \in Documents : [kind |-> "post", doc |-> doc] \in Requests
BY DEF Requests, NoRequest

\* The document a reservation creates.
LEMMA FreshFields ==
    ASSUME NEW c \in Calls, op[c] \in Operations, op[c].type = "reserve", CosmosAssumption
    PROVE  /\ FreshDocument(c) \in Documents /\ Lawful(FreshDocument(c))
           /\ Tells(c, op[c], "changed", FreshDocument(c))
           /\ FreshDocument(c).status = "matched" /\ Listed(FreshDocument(c)) = {<<"NEED", 0>>}
<1> DEFINE f == FreshDocument(c)
<1>1. op[c].event = <<"NEED", 0>> /\ op[c].event \in Events
  BY OperationTyped
<1>2. <<op[c].event>> \in Seq(Events) /\ Len(<<op[c].event>>) = 1 /\ <<op[c].event>>[1] = <<"NEED", 0>>
  BY <1>1
<1>3. /\ f.author = c /\ f.status = "matched" /\ f.partialSequence = 0 /\ f.deliveries = <<op[c].event>>
      /\ f.compacted = {} /\ f \in Documents
  BY <1>2 DEF FreshDocument, Documents
<1> HIDE DEF f
<1>4. Listed(f) = {<<"NEED", 0>>}
  BY <1>2, <1>3 DEF Listed
<1>5. Lawful(f)
  <2>1. \A i, j \in 1..Len(f.deliveries) : i = j
    BY <1>2, <1>3
  <2>2. \A t \in 0..(MaxPartials - 1) : <<"PARTIAL", t>> \notin Listed(f) /\ ~(t < f.partialSequence)
    BY <1>3, <1>4 DEF CosmosAssumption
  <2>3. <<"RESULT", 0>> \notin Listed(f) /\ <<"REVOKE", 0>> \notin Listed(f)
    BY <1>4
  <2> QED
    BY <1>3, <2>1, <2>2, <2>3 DEF Lawful
<1>6. Tells(c, op[c], "changed", f)
  BY <1>1, <1>3, <1>4 DEF Tells, Enders
<1> QED
  BY <1>3, <1>4, <1>5, <1>6 DEF f

\* A document that is left as it is already says what the call asked for.
LEMMA UnchangedTells ==
    ASSUME NEW c, NEW o \in Operations, NEW doc \in Documents, Lawful(doc), Unchanged(o, doc),
           CosmosAssumption
    PROVE  Tells(c, o, "unchanged", doc)
<1>1. CASE o.type = "partial"
  <2>1. o.event = <<"PARTIAL", o.event[2]>> /\ o.event[2] \in 0..(MaxPartials - 1)
    BY <1>1, OperationTyped
  <2>2. o.event[2] + 1 = doc.partialSequence /\ doc.partialSequence \in Nat
    BY <1>1 DEF Unchanged, Documents
  <2>3. o.event[2] < doc.partialSequence
    BY <2>1, <2>2
  <2>4. o.event \in Listed(doc)
    BY <2>1, <2>3 DEF Lawful
  <2> QED
    BY <1>1, <2>4 DEF Tells
<1>2. CASE o.type \in {"recover", "ack", "cancel", "compact"}
  BY <1>2, OperationTyped DEF Unchanged, Lawful, Tells
<1>3. o.type \in {"partial", "recover", "ack", "cancel", "compact"}
  BY OperationTyped DEF Unchanged
<1> QED
  BY <1>1, <1>2, <1>3

\* A document that was edited says what the call asked for.
LEMMA EditTells ==
    ASSUME NEW c, NEW o \in Operations, NEW doc \in Documents, Changed(o, doc)
    PROVE  Tells(c, o, "changed", Edited(o, doc))
<1> DEFINE e == Edited(o, doc)
<1>0. o.type # "reserve"
  BY OperationTyped DEF Changed
<1>1. /\ e.status = IF o.type \in Enders THEN EndOf(o.type) ELSE doc.status
      /\ e.acked = IF o.type = "ack" THEN doc.acked \cup {o.event} ELSE doc.acked
      /\ o.type \in {"partial", "complete", "recover", "cancel"}
            => e.deliveries = Append(doc.deliveries, o.event)
  BY EditedFields
<1>2. doc.deliveries \in Seq(Events) /\ o.event \in Events
  BY OperationTyped DEF Documents
<1> HIDE DEF e
<1>3. o.type \in {"partial", "complete", "recover", "cancel"} => o.event \in Listed(e)
  <2> SUFFICES ASSUME o.type \in {"partial", "complete", "recover", "cancel"} PROVE o.event \in Listed(e)
    OBVIOUS
  <2>1. e.deliveries = Append(doc.deliveries, o.event)
    BY <1>1
  <2> QED
    BY <1>2, <2>1, AppendLists DEF Listed
<1>4. Tells(c, o, "changed", e)
  BY <1>0, <1>1, <1>3 DEF Tells
<1> QED
  BY <1>4 DEF e

LEMMA CosmosInvInit == ASSUME CosmosAssumption, Init PROVE CosmosInv
<1>1. TypeOK
  <2>1. history \in [Needs -> Seq(Documents)] /\ tickets \in Seq(SUBSET Needs)
    BY DEF Init
  <2>2. attempts \in [Calls -> 0..MaxCasAttempts] /\ floor \in [Calls -> Nat]
    BY DEF Init, CosmosAssumption
  <2>3. op \in [Calls -> Operations \cup {NoOperation}]
    BY DEF Init
  <2>4. wire \in [Calls -> Requests]
    BY RequestForms DEF Init
  <2>5. /\ pc \in [Calls -> {"idle", "reading", "writing", "allocate", "allocating", "creating", "done"}]
        /\ answer \in [Calls -> {"none", "changed", "unchanged", "refused", "unknown"}]
    BY DEF Init
  <2> QED
    BY <2>1, <2>2, <2>3, <2>4, <2>5 DEF TypeOK
<1>2. \A n \in Needs : history[n] = <<>> /\ ~Exists(n)
  BY DEF Init, Exists
<1>3. VersionsContinue
  BY <1>2 DEF VersionsContinue
<1>4. TicketsContinue
  <2>1. Len(tickets) = 1 /\ tickets[1] = {} /\ tickets # <<>>
    BY DEF Init
  <2>2. IsFiniteSet({}) /\ Cardinality({}) = 0
    BY FS_EmptySet
  <2>3. Cardinality({}) <= RecordCapacity
    BY <2>2 DEF CosmosAssumption
  <2>4. \A v \in 1..Len(tickets) : tickets[v] = {}
    BY <2>1
  <2> QED
    BY <2>1, <2>2, <2>3, <2>4, Zenon DEF TicketsContinue
<1>5. ASSUME NEW c \in Calls PROVE CallFits(c) /\ RequestFits(c) /\ AnswerFits(c)
  <2>1. pc[c] = "idle" /\ answer[c] = "none" /\ attempts[c] = 0 /\ wire[c].kind = "none"
    BY RequestForms DEF Init
  <2> QED
    BY <2>1 DEF CallFits, RequestFits, AnswerFits, CosmosAssumption
<1>6. OneEnder
  BY DEF Init, OneEnder
<1> QED
  BY <1>1, <1>2, <1>3, <1>4, <1>5, <1>6 DEF CosmosInv

LEMMA BeginKeeps ==
    ASSUME CosmosInv, NEW c \in Calls, NEW o \in Operations, Begin(c, o)
    PROVE  CosmosInv'
<1>1. TypeOK /\ CallFits(c)
  BY DEF CosmosInv
<1>2. TypeOK'
  BY <1>1 DEF Begin, TypeOK
<1>3. Moves(c) /\ op'[c] = o /\ pc'[c] \in {"allocate", "reading"} /\ answer'[c] = "none"
  BY <1>1 DEF Begin, TypeOK, Moves, CallFits
<1>4. pc'[c] = IF o.type = "reserve" THEN "allocate" ELSE "reading"
  BY <1>1 DEF Begin, TypeOK
<1>5. wire'[c].kind = "none" /\ attempts'[c] < MaxCasAttempts
  BY <1>1 DEF Begin, CallFits
<1>6. CallFits(c)' /\ RequestFits(c)' /\ AnswerFits(c)'
  BY <1>3, <1>4, <1>5 DEF CallFits, RequestFits, AnswerFits
<1>7. OneEnder'
  BY <1>3, NoNewEnder
<1> QED
  BY <1>2, <1>3, <1>6, <1>7, CallKeeps DEF Begin

\* A call ends without having written, with whatever it has on the wire.
LEMMA EndKeeps ==
    ASSUME CosmosInv, NEW c \in Calls, NEW a \in {"unchanged", "refused", "unknown"}, pc[c] # "idle",
           End(c, a), UNCHANGED <<history, tickets, op, attempts, floor, wire>>,
           wire[c].kind # "none" => a = "unknown",
           a = "unchanged" => Exists(op[c].need) /\ Tells(c, op[c], "unchanged", Doc(op[c].need))
    PROVE  CosmosInv'
<1>1. TypeOK /\ CallFits(c) /\ RequestFits(c)
  BY DEF CosmosInv
<1>2. TypeOK'
  BY <1>1 DEF End, TypeOK
<1>3. Moves(c) /\ pc'[c] = "done" /\ answer'[c] = a
  BY <1>1 DEF End, TypeOK, Moves
<1>4. CallFits(c)'
  BY <1>1, <1>3 DEF CallFits
<1>5. RequestFits(c)'
  BY <1>1 DEF RequestFits, FreshDocument
<1>6. AnswerFits(c)'
  BY <1>3 DEF AnswerFits, Exists, Doc
<1>7. OneEnder'
  BY <1>3, NoNewEnder
<1> QED
  BY <1>2, <1>3, <1>4, <1>5, <1>6, <1>7, CallKeeps

LEMMA ReadKeeps == ASSUME CosmosInv, CosmosAssumption, NEW c \in Calls, Read(c) PROVE CosmosInv'
<1> DEFINE n == op[c].need
<1>1. TypeOK /\ CallFits(c) /\ pc[c] = "reading"
  BY DEF CosmosInv, Read
<1>2. op[c] \in Operations /\ n \in Needs /\ op[c].type # "reserve" /\ wire[c].kind = "none"
  BY <1>1, CallTyped DEF CallFits
<1>3. PICK v \in Readable(c, history[n]) :
        \/ /\ Changed(op[c], history[n][v])
           /\ pc' = [pc EXCEPT ![c] = "writing"]
           /\ wire' = [wire EXCEPT ![c] =
                [kind |-> "put", etag |-> v, doc |-> Edited(op[c], history[n][v])]]
           /\ UNCHANGED answer
        \/ Unchanged(op[c], history[n][v]) /\ End(c, "unchanged") /\ UNCHANGED wire
        \/ End(c, "refused") /\ UNCHANGED wire
  BY DEF Read
<1>4. v \in 1..Len(history[n]) /\ v \in Nat /\ history[n] \in Seq(Documents)
  BY <1>1, <1>2 DEF Readable, TypeOK
<1>5. /\ history[n][v] \in Documents /\ Exists(n)
      /\ Lawful(history[n][v]) /\ Continues(history[n][v], Doc(n))
  BY <1>2, <1>4 DEF CosmosInv, VersionsContinue, Exists
<1>6. UNCHANGED <<history, tickets, op, attempts, floor>>
  BY DEF Read
<1>7. CASE /\ Changed(op[c], history[n][v])
           /\ pc' = [pc EXCEPT ![c] = "writing"]
           /\ wire' = [wire EXCEPT ![c] =
                [kind |-> "put", etag |-> v, doc |-> Edited(op[c], history[n][v])]]
           /\ UNCHANGED answer
  <2> DEFINE e == Edited(op[c], history[n][v])
  <2>1. e \in Documents
    BY <1>2, <1>5, <1>7, EditedFields
  <2> HIDE DEF e
  <2>2. [kind |-> "put", etag |-> v, doc |-> e] \in Requests
    BY <1>4, <2>1, RequestForms
  <2>3. wire' = [wire EXCEPT ![c] = [kind |-> "put", etag |-> v, doc |-> e]]
    BY <1>7 DEF e
  <2>4. TypeOK'
    BY <1>1, <1>6, <1>7, <2>2, <2>3 DEF TypeOK
  <2>5. /\ Moves(c) /\ pc'[c] = "writing" /\ answer'[c] = "none" /\ wire'[c].kind = "put"
        /\ wire'[c].etag = v /\ wire'[c].doc = e
    BY <1>1, <1>6, <1>7, <2>3 DEF TypeOK, Moves, CallFits
  <2>6. CallFits(c)'
    BY <1>1, <1>2, <1>6, <2>5 DEF CallFits
  <2>7. RequestFits(c)'
    BY <1>2, <1>4, <1>6, <1>7, <2>5 DEF RequestFits, e
  <2>8. AnswerFits(c)'
    BY <2>5 DEF AnswerFits
  <2>9. OneEnder'
    BY <2>5, NoNewEnder
  <2> QED
    BY <1>6, <2>4, <2>5, <2>6, <2>7, <2>8, <2>9, CallKeeps
<1>8. CASE Unchanged(op[c], history[n][v]) /\ End(c, "unchanged") /\ UNCHANGED wire
  <2>1. Tells(c, op[c], "unchanged", Doc(n))
    BY <1>2, <1>5, <1>8, UnchangedTells, StillTells
  <2> QED
    BY <1>1, <1>2, <1>5, <1>6, <1>8, <2>1, EndKeeps
<1>9. CASE End(c, "refused") /\ UNCHANGED wire
  BY <1>1, <1>2, <1>6, <1>9, EndKeeps
<1> QED
  BY <1>3, <1>7, <1>8, <1>9

LEMMA ReadNothingKeeps == ASSUME CosmosInv, NEW c \in Calls, ReadNothing(c) PROVE CosmosInv'
<1>1. pc[c] = "reading" /\ wire[c].kind = "none"
  BY DEF CosmosInv, CallFits, ReadNothing
<1> QED
  BY <1>1, EndKeeps DEF ReadNothing

LEMMA GiveUpKeeps == ASSUME CosmosInv, NEW c \in Calls, GiveUp(c) PROVE CosmosInv'
BY EndKeeps DEF GiveUp

LEMMA ReadTicketsKeeps ==
    ASSUME CosmosInv, CosmosAssumption, NEW c \in Calls, ReadTickets(c)
    PROVE  CosmosInv'
<1> DEFINE n == op[c].need
<1>1. TypeOK /\ CallFits(c) /\ TicketsContinue /\ pc[c] = "allocate"
  BY DEF CosmosInv, ReadTickets
<1>2. op[c] \in Operations /\ n \in Needs /\ op[c].type = "reserve" /\ wire[c].kind = "none"
  BY <1>1, CallTyped DEF CallFits
<1>3. PICK v \in Readable(c, tickets) :
        \/ /\ n \in tickets[v]
           /\ pc' = [pc EXCEPT ![c] = "creating"]
           /\ wire' = [wire EXCEPT ![c] = [kind |-> "post", doc |-> FreshDocument(c)]]
           /\ UNCHANGED answer
        \/ /\ Cardinality(tickets[v]) < RecordCapacity
           /\ pc' = [pc EXCEPT ![c] = "allocating"]
           /\ wire' = [wire EXCEPT ![c] = [kind |-> "ticket", etag |-> v, held |-> tickets[v] \cup {n}]]
           /\ UNCHANGED answer
        \/ End(c, "refused") /\ UNCHANGED wire
  BY DEF ReadTickets
<1>4. /\ v \in 1..Len(tickets) /\ v \in Nat
      /\ tickets[v] \in SUBSET Needs /\ tickets[v] \subseteq Last(tickets)
  BY <1>1 DEF Readable, TypeOK, TicketsContinue
<1>5. UNCHANGED <<history, tickets, op, attempts, floor>>
  BY DEF ReadTickets
<1>6. CASE /\ n \in tickets[v]
           /\ pc' = [pc EXCEPT ![c] = "creating"]
           /\ wire' = [wire EXCEPT ![c] = [kind |-> "post", doc |-> FreshDocument(c)]]
           /\ UNCHANGED answer
  <2>1. FreshDocument(c) \in Documents /\ FreshDocument(c)' = FreshDocument(c)
    BY <1>2, <1>5, FreshFields DEF FreshDocument
  <2>2. [kind |-> "post", doc |-> FreshDocument(c)] \in Requests
    BY <2>1, RequestForms
  <2>3. TypeOK'
    BY <1>1, <1>5, <1>6, <2>2 DEF TypeOK
  <2>4. /\ Moves(c) /\ pc'[c] = "creating" /\ answer'[c] = "none"
        /\ wire'[c].kind = "post" /\ wire'[c].doc = FreshDocument(c)
    BY <1>1, <1>5, <1>6 DEF TypeOK, Moves, CallFits
  <2>5. CallFits(c)' /\ AnswerFits(c)'
    BY <1>1, <1>2, <1>5, <2>4 DEF CallFits, AnswerFits
  <2>6. RequestFits(c)'
    BY <1>2, <1>4, <1>5, <1>6, <2>1, <2>4 DEF RequestFits
  <2>7. OneEnder'
    BY <2>4, NoNewEnder
  <2> QED
    BY <1>5, <2>3, <2>4, <2>5, <2>6, <2>7, CallKeeps
<1>7. CASE /\ Cardinality(tickets[v]) < RecordCapacity
           /\ pc' = [pc EXCEPT ![c] = "allocating"]
           /\ wire' = [wire EXCEPT ![c] = [kind |-> "ticket", etag |-> v, held |-> tickets[v] \cup {n}]]
           /\ UNCHANGED answer
  <2>1. tickets[v] \cup {n} \in SUBSET Needs
    BY <1>2, <1>4
  <2>2. [kind |-> "ticket", etag |-> v, held |-> tickets[v] \cup {n}] \in Requests
    BY <1>4, <2>1, RequestForms
  <2>3. TypeOK'
    BY <1>1, <1>5, <1>7, <2>2 DEF TypeOK
  <2>4. /\ Moves(c) /\ pc'[c] = "allocating" /\ answer'[c] = "none" /\ wire'[c].kind = "ticket"
        /\ wire'[c].etag = v /\ wire'[c].held = tickets[v] \cup {n}
    BY <1>1, <1>5, <1>7 DEF TypeOK, Moves, CallFits
  <2>5. CallFits(c)' /\ AnswerFits(c)'
    BY <1>1, <1>2, <1>5, <2>4 DEF CallFits, AnswerFits
  <2>6. RequestFits(c)'
    BY <1>2, <1>4, <1>5, <1>7, <2>4 DEF RequestFits
  <2>7. OneEnder'
    BY <2>4, NoNewEnder
  <2> QED
    BY <1>5, <2>3, <2>4, <2>5, <2>6, <2>7, CallKeeps
<1>8. CASE End(c, "refused") /\ UNCHANGED wire
  BY <1>1, <1>2, <1>5, <1>8, EndKeeps
<1> QED
  BY <1>3, <1>6, <1>7, <1>8

\* The request of c leaves the wire without effect: c tries again from a read,
\* is refused, or has given up before.
LEMMA RefusedKeeps ==
    ASSUME CosmosInv, NEW c \in Calls, NEW from \in {"reading", "allocate"}, wire[c].kind # "none",
           UNCHANGED <<history, tickets, op>>, floor' \in [Calls -> Nat],
           wire' = [wire EXCEPT ![c] = NoRequest],
           \/ UNCHANGED <<pc, answer, attempts>> /\ pc[c] = "done"
           \/ pc[c] # "done" /\ Retry(c, from)
           \/ pc[c] # "done" /\ End(c, "refused") /\ UNCHANGED attempts,
           from = "allocate" <=> op[c].type = "reserve",
           CosmosAssumption
    PROVE  CosmosInv'
<1>1. TypeOK /\ CallFits(c) /\ op[c] \in Operations /\ pc[c] # "idle" /\ MaxCasAttempts \in Nat
  BY CallTyped DEF CosmosInv, CosmosAssumption
<1>2. wire' \in [Calls -> Requests] /\ wire'[c].kind = "none" /\ \A d \in Calls \ {c} : wire'[d] = wire[d]
  BY <1>1, RequestForms DEF TypeOK
<1>3. CASE UNCHANGED <<pc, answer, attempts>> /\ pc[c] = "done"
  <2>1. TypeOK' /\ Moves(c)
    BY <1>1, <1>2, <1>3 DEF TypeOK, Moves
  <2>2. CallFits(c)' /\ RequestFits(c)' /\ AnswerFits(c)'
    BY <1>1, <1>2, <1>3 DEF CosmosInv, CallFits, RequestFits, AnswerFits, Exists, Doc
  <2>3. answer[c] = "unknown"
    BY <1>1, <1>3 DEF CallFits
  <2>4. OneEnder'
    BY <1>3, <2>1, <2>3, NoNewEnder
  <2> QED
    BY <2>1, <2>2, <2>4, CallKeeps
<1>4. CASE pc[c] # "done" /\ Retry(c, from)
  <2>1. answer[c] = "none" /\ attempts[c] < MaxCasAttempts /\ attempts[c] \in Nat
    BY <1>1, <1>4 DEF CallFits, TypeOK
  <2>2. attempts' \in [Calls -> 0..MaxCasAttempts] /\ \A d \in Calls \ {c} : attempts'[d] = attempts[d]
    BY <1>1, <1>4, <2>1 DEF Retry, TypeOK
  <2>3. attempts'[c] = attempts[c] + 1
    BY <1>1, <1>4 DEF Retry, TypeOK
  <2>4. CASE attempts[c] + 1 < MaxCasAttempts
    <3>1. pc' = [pc EXCEPT ![c] = from] /\ answer' = answer
      BY <1>4, <2>4 DEF Retry
    <3>2. TypeOK' /\ Moves(c) /\ pc'[c] = from
      BY <1>1, <1>2, <2>2, <3>1 DEF TypeOK, Moves
    <3>3. CallFits(c)' /\ RequestFits(c)' /\ AnswerFits(c)'
      BY <1>1, <1>2, <2>1, <2>3, <2>4, <3>1, <3>2 DEF CallFits, RequestFits, AnswerFits
    <3>4. OneEnder'
      BY <2>1, <3>1, <3>2, NoNewEnder
    <3> QED
      BY <3>2, <3>3, <3>4, CallKeeps
  <2>5. CASE ~(attempts[c] + 1 < MaxCasAttempts)
    <3>1. End(c, "refused")
      BY <1>4, <2>5 DEF Retry
    <3>2. TypeOK' /\ Moves(c) /\ pc'[c] = "done" /\ answer'[c] = "refused"
      BY <1>1, <1>2, <2>2, <3>1 DEF TypeOK, Moves, End
    <3>3. CallFits(c)' /\ RequestFits(c)' /\ AnswerFits(c)'
      BY <1>1, <1>2, <3>2 DEF CallFits, RequestFits, AnswerFits
    <3>4. OneEnder'
      BY <3>2, NoNewEnder
    <3> QED
      BY <3>2, <3>3, <3>4, CallKeeps
  <2> QED
    BY <2>4, <2>5
<1>5. CASE pc[c] # "done" /\ End(c, "refused") /\ UNCHANGED attempts
  <2>1. TypeOK' /\ Moves(c) /\ pc'[c] = "done" /\ answer'[c] = "refused"
    BY <1>1, <1>2, <1>5 DEF TypeOK, Moves, End
  <2>2. CallFits(c)' /\ RequestFits(c)' /\ AnswerFits(c)'
    BY <1>1, <1>2, <2>1 DEF CallFits, RequestFits, AnswerFits
  <2>3. OneEnder'
    BY <2>1, NoNewEnder
  <2> QED
    BY <2>1, <2>2, <2>3, CallKeeps
<1> QED
  BY <1>3, <1>4, <1>5

\* The request of c writes doc, the next version of its document, and c is told
\* so unless it has given up.
LEMMA WriteKeeps ==
    ASSUME CosmosInv, NEW c \in Calls, NEW doc \in Documents, wire[c].kind # "none",
           UNCHANGED <<tickets, op, attempts>>, floor' \in [Calls -> Nat],
           wire' = [wire EXCEPT ![c] = NoRequest],
           history' = [history EXCEPT ![op[c].need] = Append(@, doc)],
           IF pc[c] # "done" THEN End(c, "changed") ELSE UNCHANGED <<pc, answer>>,
           Lawful(doc), Exists(op[c].need) => Continues(Doc(op[c].need), doc),
           op[c].need \in Last(tickets), Tells(c, op[c], "changed", doc),
           op[c].type \in Enders => Exists(op[c].need) /\ Doc(op[c].need).status = "matched"
    PROVE  CosmosInv'
<1>1. TypeOK /\ CallFits(c) /\ op[c] \in Operations /\ pc[c] # "idle" /\ op[c].need \in Needs
  BY CallTyped DEF CosmosInv
<1>2. PICK n \in Needs : n = op[c].need
  BY <1>1
<1>3. wire' \in [Calls -> Requests] /\ wire'[c].kind = "none" /\ \A d \in Calls \ {c} : wire'[d] = wire[d]
  BY <1>1, RequestForms DEF TypeOK
<1>4. history' \in [Needs -> Seq(Documents)] /\ history'[n] = Append(history[n], doc)
  BY <1>1, <1>2 DEF TypeOK
<1>5. Exists(n)' /\ Doc(n)' = doc
  <2>1. history[n] \in Seq(Documents)
    BY <1>1 DEF TypeOK
  <2>2. /\ Append(history[n], doc) # <<>>
        /\ Append(history[n], doc)[Len(Append(history[n], doc))] = doc
    BY <2>1, AppendProperties, LenProperties
  <2> QED
    BY <1>4, <2>2 DEF Exists, Doc, Last
<1>6. op'[c].need = n /\ op' = op
  BY <1>2
<1>7. TypeOK' /\ Moves(c) /\ pc'[c] = "done" /\ answer'[c] \in {"changed", "unknown"}
  <2>1. CASE pc[c] = "done"
    BY <1>1, <1>3, <1>4, <2>1 DEF TypeOK, Moves, CallFits
  <2>2. CASE pc[c] # "done"
    BY ZenonT(60), <1>1, <1>3, <1>4, <2>2 DEF TypeOK, Moves, End
  <2> QED
    BY <2>1, <2>2
<1>8. CallFits(c)' /\ RequestFits(c)'
  BY <1>1, <1>3, <1>7 DEF CallFits, RequestFits
<1>9. AnswerFits(c)'
  <2>1. Tells(c, op'[c], answer'[c], doc) \/ answer'[c] = "unknown"
    BY <1>7
  <2> QED
    BY <1>5, <1>6, <1>7, <2>1 DEF AnswerFits, Tells, Listed
<1>10. OneEnder'
  <2>1. ASSUME NEW d \in Calls \ {c}, answer[d] = "changed", op[d].type \in Enders,
               op[c].type \in Enders, op[d].need = n
        PROVE  FALSE
    <3>1. AnswerFits(d)
      BY <2>1 DEF CosmosInv
    <3>2. Doc(n).status = EndOf(op[d].type)
      BY <2>1, <3>1 DEF AnswerFits, Tells
    <3> QED
      BY <1>2, <2>1, <3>2 DEF EndOf
  <2>2. \A d \in Calls \ {c} : answer'[d] = answer[d]
    BY <1>7 DEF Moves
  <2> QED
    BY <1>2, <1>6, <2>1, <2>2 DEF CosmosInv, OneEnder
<1> QED
  BY <1>2, <1>7, <1>8, <1>9, <1>10, DocumentKeeps

LEMMA ServePutKeeps ==
    ASSUME CosmosInv, CosmosAssumption, NEW c \in Calls, ServePut(c)
    PROVE  CosmosInv'
<1> DEFINE n == op[c].need
<1>1. TypeOK /\ CallFits(c) /\ RequestFits(c) /\ wire[c].kind = "put"
  BY DEF CosmosInv, ServePut
<1>2. op[c] \in Operations /\ n \in Needs /\ pc[c] # "idle"
  BY <1>1, CallTyped
<1>3. /\ op[c].type # "reserve" /\ wire[c].etag \in 1..Len(history[n])
      /\ Changed(op[c], history[n][wire[c].etag])
      /\ wire[c].doc = Edited(op[c], history[n][wire[c].etag])
  BY <1>1 DEF RequestFits
<1>4. pc[c] \in {"writing", "done"}
  BY <1>1, <1>2, <1>3 DEF CallFits, TypeOK
<1>5. UNCHANGED <<tickets, op>> /\ wire' = [wire EXCEPT ![c] = NoRequest]
  BY DEF ServePut
<1>6. floor' \in [Calls -> Nat]
  <2>1. history' \in [Needs -> Seq(Documents)]
    <3>1. wire[c].doc \in Documents
      <4>1. history[n][wire[c].etag] \in Documents
        BY <1>1, <1>2, <1>3 DEF TypeOK
      <4> QED
        BY <1>2, <1>3, <4>1, EditedFields
    <3>2. history[n] \in Seq(Documents)
      BY <1>1, <1>2 DEF TypeOK
    <3>3. Append(history[n], wire[c].doc) \in Seq(Documents)
      BY <3>1, <3>2, AppendProperties
    <3>4. history' = history \/ history' = [history EXCEPT ![n] = Append(history[n], wire[c].doc)]
      BY DEF ServePut
    <3> QED
      BY <1>1, <1>2, <3>3, <3>4 DEF TypeOK
  <2>2. Len(history'[n]) \in Nat
    BY SMTT(60), <1>2, <2>1, LenProperties
  <2> QED
    BY <1>1, <1>5, <2>2 DEF ServePut, TypeOK
<1>7. CASE /\ wire[c].etag = Len(history[n])
           /\ history' = [history EXCEPT ![n] = Append(@, wire[c].doc)]
           /\ IF pc[c] = "writing" THEN End(c, "changed") ELSE UNCHANGED <<pc, answer>>
           /\ UNCHANGED attempts
  <2>1. Exists(n) /\ Doc(n) = history[n][wire[c].etag] /\ Doc(n) \in Documents /\ Lawful(Doc(n))
    <3>1. Exists(n)
      BY <1>3 DEF Exists
    <3> QED
      BY <1>2, <1>7, <3>1, Newest
  <2>2. /\ wire[c].doc \in Documents /\ Lawful(wire[c].doc) /\ Continues(Doc(n), wire[c].doc)
        /\ Tells(c, op[c], "changed", wire[c].doc)
    <3>1. Changed(op[c], Doc(n)) /\ wire[c].doc = Edited(op[c], Doc(n))
      BY <1>3, <2>1
    <3>2. Edited(op[c], Doc(n)) \in Documents
      BY <1>2, <2>1, <3>1, EditedFields
    <3>3. Lawful(Edited(op[c], Doc(n))) /\ Continues(Doc(n), Edited(op[c], Doc(n)))
      BY <1>2, <2>1, <3>1, EditContinues
    <3>4. Tells(c, op[c], "changed", Edited(op[c], Doc(n)))
      BY SMTT(60), <1>2, <2>1, <3>1, EditTells
    <3> QED
      BY <3>1, <3>2, <3>3, <3>4
  <2>3. op[c].type \in Enders => Doc(n).status = "matched"
    BY <1>3, <2>1 DEF Changed, Enders
  <2>4. n \in Last(tickets)
    BY <1>2, <2>1 DEF CosmosInv
  <2>5. IF pc[c] # "done" THEN End(c, "changed") ELSE UNCHANGED <<pc, answer>>
    BY <1>4, <1>7
  <2> QED
    BY <1>1, <1>5, <1>6, <1>7, <2>1, <2>2, <2>3, <2>4, <2>5, WriteKeeps
<1>8. CASE /\ IF pc[c] = "writing" THEN Retry(c, "reading") ELSE UNCHANGED <<pc, answer, attempts>>
           /\ UNCHANGED history
  BY <1>1, <1>3, <1>4, <1>5, <1>6, <1>8, RefusedKeeps
<1> QED
  BY <1>7, <1>8 DEF ServePut

LEMMA ServePostKeeps ==
    ASSUME CosmosInv, CosmosAssumption, NEW c \in Calls, ServePost(c)
    PROVE  CosmosInv'
<1> DEFINE n == op[c].need
<1>1. TypeOK /\ CallFits(c) /\ RequestFits(c) /\ wire[c].kind = "post"
  BY DEF CosmosInv, ServePost
<1>2. op[c] \in Operations /\ n \in Needs /\ pc[c] # "idle"
  BY <1>1, CallTyped
<1>3. op[c].type = "reserve" /\ wire[c].doc = FreshDocument(c) /\ n \in Last(tickets)
  BY <1>1 DEF RequestFits
<1>4. UNCHANGED <<tickets, op, attempts>> /\ floor' \in [Calls -> Nat] /\ wire' = [wire EXCEPT ![c] = NoRequest]
  BY <1>1 DEF ServePost, TypeOK
<1>5. pc[c] \in {"creating", "done"}
  BY <1>1, <1>2, <1>3 DEF CallFits, TypeOK
<1>6. CASE /\ ~Exists(n)
           /\ history' = [history EXCEPT ![n] = <<wire[c].doc>>]
           /\ IF pc[c] = "creating" THEN End(c, "changed") ELSE UNCHANGED <<pc, answer>>
  <2>1. history' = [history EXCEPT ![n] = Append(@, wire[c].doc)]
    <3>1. history[n] = <<>>
      BY <1>6 DEF Exists
    <3>2. Append(<<>>, wire[c].doc) = <<wire[c].doc>>
      OBVIOUS
    <3> QED
      BY <1>6, <3>1, <3>2
  <2>2. /\ wire[c].doc \in Documents /\ Lawful(wire[c].doc)
        /\ Tells(c, op[c], "changed", wire[c].doc)
    BY <1>2, <1>3, FreshFields
  <2>3. op[c].type \notin Enders
    BY <1>3 DEF Enders
  <2> QED
    BY <1>1, <1>3, <1>4, <1>5, <1>6, <2>1, <2>2, <2>3, WriteKeeps
<1>7. CASE /\ IF pc[c] = "creating" THEN End(c, "refused") ELSE UNCHANGED <<pc, answer>>
           /\ UNCHANGED history
  BY <1>1, <1>3, <1>4, <1>5, <1>7, RefusedKeeps
<1> QED
  BY <1>6, <1>7 DEF ServePost

LEMMA ServeTicketKeeps ==
    ASSUME CosmosInv, CosmosAssumption, NEW c \in Calls, ServeTicket(c)
    PROVE  CosmosInv'
<1> DEFINE n == op[c].need
<1>1. TypeOK /\ TicketsContinue /\ CallFits(c) /\ RequestFits(c) /\ wire[c].kind = "ticket"
  BY DEF CosmosInv, ServeTicket
<1>2. op[c] \in Operations /\ n \in Needs /\ pc[c] # "idle"
  BY <1>1, CallTyped
<1>3. /\ op[c].type = "reserve" /\ wire[c].etag \in 1..Len(tickets)
      /\ wire[c].held = tickets[wire[c].etag] \cup {n}
      /\ Cardinality(tickets[wire[c].etag]) < RecordCapacity
  BY <1>1 DEF RequestFits
<1>4. pc[c] \in {"allocating", "done"}
  BY <1>1, <1>2, <1>3 DEF CallFits, TypeOK
<1>5. UNCHANGED <<history, op>>
  BY DEF ServeTicket
<1>6. CASE /\ wire[c].etag = Len(tickets)
           /\ tickets' = Append(tickets, wire[c].held)
           /\ IF pc[c] = "allocating"
                THEN /\ pc' = [pc EXCEPT ![c] = "creating"]
                     /\ wire' = [wire EXCEPT ![c] = [kind |-> "post", doc |-> FreshDocument(c)]]
                ELSE /\ wire' = [wire EXCEPT ![c] = NoRequest]
                     /\ UNCHANGED pc
           /\ UNCHANGED <<attempts, answer>>
  <2>1. wire[c].held = Last(tickets) \cup {n} /\ Cardinality(Last(tickets)) < RecordCapacity
    BY <1>3, <1>6 DEF Last
  <2>2. tickets \in Seq(SUBSET Needs) /\ Last(tickets) \in SUBSET Needs
    <3>1. tickets \in Seq(SUBSET Needs)
      BY <1>1 DEF TypeOK
    <3>2. tickets[wire[c].etag] \in SUBSET Needs
      BY <1>3, <3>1
    <3> QED
      BY <1>6, <3>1, <3>2 DEF Last
  <2>3. Last(tickets) \cup {n} \in SUBSET Needs
    BY <1>2, <2>2
  <2>4. /\ tickets' = Append(tickets, Last(tickets) \cup {n})
        /\ tickets' \in Seq(SUBSET Needs)
        /\ Len(tickets') \in Nat /\ n \in Last(tickets)'
    BY <1>6, <2>1, <2>2, <2>3, AppendProperties, LenProperties DEF Last
  <2>5. floor' \in [Calls -> Nat]
    BY <1>1, <2>4 DEF ServeTicket, TypeOK
  <2>6. FreshDocument(c) \in Documents /\ FreshDocument(c)' = FreshDocument(c)
    BY <1>2, <1>3, <1>5, FreshFields DEF FreshDocument
  <2>7. [kind |-> "post", doc |-> FreshDocument(c)] \in Requests
    BY <2>6, RequestForms
  <2>8. CASE pc[c] = "allocating"
    <3>1. TypeOK'
      BY ZenonT(60), <1>1, <1>5, <1>6, <2>4, <2>5, <2>7, <2>8 DEF TypeOK
    <3>2. /\ Moves(c) /\ pc'[c] = "creating" /\ answer'[c] = "none"
          /\ wire'[c].kind = "post" /\ wire'[c].doc = FreshDocument(c)
      BY <1>1, <1>5, <1>6, <2>8 DEF TypeOK, Moves, CallFits
    <3>3. CallFits(c)' /\ AnswerFits(c)'
      BY <1>1, <1>2, <1>3, <1>5, <1>6, <2>8, <3>2 DEF CallFits, AnswerFits
    <3>4. RequestFits(c)'
      BY <1>3, <1>5, <2>4, <2>6, <3>2 DEF RequestFits
    <3>5. OneEnder'
      BY <3>2, NoNewEnder
    <3> QED
      BY <1>2, <1>5, <2>1, <2>4, <3>1, <3>2, <3>3, <3>4, <3>5, TicketKeeps
  <2>9. CASE pc[c] = "done"
    <3>1. TypeOK'
      BY <1>1, <1>5, <1>6, <2>4, <2>5, <2>9, RequestForms DEF TypeOK
    <3>2. Moves(c) /\ pc'[c] = "done" /\ answer'[c] = "unknown" /\ wire'[c].kind = "none"
      BY <1>1, <1>5, <1>6, <2>9, RequestForms DEF TypeOK, Moves, CallFits
    <3>3. CallFits(c)' /\ AnswerFits(c)' /\ RequestFits(c)'
      BY <1>1, <1>2, <1>5, <1>6, <3>2 DEF CallFits, AnswerFits, RequestFits
    <3>4. OneEnder'
      BY <3>2, NoNewEnder
    <3> QED
      BY <1>2, <1>5, <2>1, <2>4, <3>1, <3>2, <3>3, <3>4, TicketKeeps
  <2> QED
    BY <1>4, <2>8, <2>9
<1>7. CASE /\ wire' = [wire EXCEPT ![c] = NoRequest]
           /\ IF pc[c] = "allocating" THEN Retry(c, "allocate") ELSE UNCHANGED <<pc, answer, attempts>>
           /\ UNCHANGED tickets
  <2>1. floor' \in [Calls -> Nat]
    <3>1. Len(tickets) \in Nat
      BY <1>1, LenProperties DEF TypeOK
    <3> QED
      BY <1>1, <1>7, <3>1 DEF ServeTicket, TypeOK
  <2> QED
    BY <1>1, <1>3, <1>4, <1>5, <1>7, <2>1, RefusedKeeps
<1> QED
  BY <1>6, <1>7 DEF ServeTicket

LEMMA CosmosInvNext == ASSUME CosmosInv, CosmosAssumption, [Next]_vars PROVE CosmosInv'
<1>1. CASE UNCHANGED vars
  <2>1. UNCHANGED <<history, tickets, op, pc, attempts, floor, wire, answer>>
    BY <1>1 DEF vars
  <2>2. TypeOK' /\ VersionsContinue' /\ TicketsContinue' /\ OneEnder'
    BY <2>1 DEF CosmosInv, TypeOK, VersionsContinue, TicketsContinue, OneEnder, Doc
  <2>3. \A n \in Needs : Exists(n)' => n \in Last(tickets)'
    BY <2>1 DEF CosmosInv, Exists
  <2>4. ASSUME NEW c \in Calls PROVE CallFits(c)' /\ RequestFits(c)' /\ AnswerFits(c)'
    <3>1. CallFits(c) /\ RequestFits(c) /\ AnswerFits(c)
      BY DEF CosmosInv
    <3>2. CallFits(c)'
      BY <2>1, <3>1 DEF CallFits
    <3>3. RequestFits(c)'
      BY <2>1, <3>1 DEF RequestFits, FreshDocument
    <3>4. AnswerFits(c)'
      BY <2>1, <3>1 DEF AnswerFits, Exists, Doc
    <3> QED
      BY <3>2, <3>3, <3>4
  <2> QED
    BY <2>2, <2>3, <2>4 DEF CosmosInv
<1>2. CASE Next
  BY <1>2, BeginKeeps, ReadKeeps, ReadNothingKeeps, ReadTicketsKeeps, ServePutKeeps,
     ServeTicketKeeps, ServePostKeeps, GiveUpKeeps DEF Next
<1> QED
  BY <1>1, <1>2

\* The properties that the runs check follow from the invariant.
LEMMA CosmosInvMeans ==
    ASSUME CosmosInv
    PROVE  TypeOK /\ CapacityHolds /\ OneWinner /\ AnswersStand /\ PendingPayloadsKept
<1>1. CapacityHolds
  <2>1. tickets \in Seq(SUBSET Needs) /\ tickets # <<>>
    BY DEF CosmosInv, TypeOK, TicketsContinue
  <2>2. Len(tickets) \in 1..Len(tickets)
    BY <2>1, LenProperties, EmptySeq
  <2>3. Cardinality(Last(tickets)) <= RecordCapacity
    BY <2>2 DEF CosmosInv, TicketsContinue, Last
  <2> QED
    BY <2>3 DEF CosmosInv, CapacityHolds
<1>2. \A c \in Calls : answer[c] \in {"changed", "unchanged"} =>
        /\ op[c].need \in Needs /\ Exists(op[c].need)
        /\ Tells(c, op[c], answer[c], Doc(op[c].need)) /\ op[c] \in Operations
  <2> TAKE c \in Calls
  <2> HAVE answer[c] \in {"changed", "unchanged"}
  <2>1. CallFits(c) /\ AnswerFits(c)
    BY DEF CosmosInv
  <2>2. pc[c] # "idle"
    BY <2>1 DEF CallFits
  <2> QED
    BY <2>1, <2>2, CallTyped DEF AnswerFits
<1>3. OneWinner
  <2>1. ASSUME NEW c \in Calls, answer[c] = "changed", op[c].type \in Enders,
               NEW d \in Calls \ {c}, answer[d] = "changed", op[d].need = op[c].need,
               op[d].type \in Enders
        PROVE  FALSE
    BY <2>1 DEF CosmosInv, OneEnder
  <2> QED
    BY <1>2, <2>1 DEF OneWinner, Tells, Enders, EndOf
<1>4. AnswersStand
  <2> SUFFICES ASSUME NEW c \in Calls, answer[c] \in {"changed", "unchanged"}
               PROVE  /\ Exists(op[c].need)
                      /\ op[c].type \in {"reserve", "partial", "complete", "recover"} =>
                            Cardinality({i \in 1..Len(Doc(op[c].need).deliveries) :
                                            Doc(op[c].need).deliveries[i] = op[c].event}) = 1
                      /\ op[c].type = "ack" => op[c].event \in Doc(op[c].need).acked
    BY DEF AnswersStand
  <2> DEFINE doc == Doc(op[c].need)
             at == {i \in 1..Len(doc.deliveries) : doc.deliveries[i] = op[c].event}
  <2>1. op[c].need \in Needs /\ Exists(op[c].need) /\ Tells(c, op[c], answer[c], doc)
    BY <1>2
  <2>2. ASSUME op[c].type \in {"reserve", "partial", "complete", "recover"} PROVE Cardinality(at) = 1
    <3>1. op[c].event \in Listed(doc) /\ Lawful(doc)
      BY <2>1, <2>2, Newest DEF Tells
    <3>2. PICK i \in 1..Len(doc.deliveries) : doc.deliveries[i] = op[c].event
      BY <3>1 DEF Listed
    <3>3. at = {i}
      BY <3>1, <3>2 DEF Lawful
    <3> QED
      BY <3>3, FS_Singleton
  <2> QED
    BY <2>1, <2>2 DEF Tells
<1>5. PendingPayloadsKept
  BY Newest DEF PendingPayloadsKept, Lawful
<1>6. TypeOK
  BY DEF CosmosInv
<1> QED
  BY <1>1, <1>3, <1>4, <1>5, <1>6

\* Every document has its ticket, the tickets stay within recordCapacity, what
\* mutate() told a caller stays true and one call at most is told that it
\* created or ended a NEED: for any number of calls, lost replies and requests
\* served late (cosmos-lifecycle-ledger.js).
THEOREM LedgerSafe ==
    ASSUME CosmosAssumption
    PROVE  Spec => [](TypeOK /\ CapacityHolds /\ OneWinner /\ AnswersStand /\ PendingPayloadsKept)
<1>1. Init => CosmosInv
  BY CosmosInvInit
<1>2. CosmosInv /\ [Next]_vars => CosmosInv'
  BY CosmosInvNext
<1>3. CosmosInv => TypeOK /\ CapacityHolds /\ OneWinner /\ AnswersStand /\ PendingPayloadsKept
  BY CosmosInvMeans
<1> QED
  BY <1>1, <1>2, <1>3, PTL DEF Spec

-----------------------------------------------------------------------------
\* What NeedLifecycle sees of a document.
StatusOf(n) == IF Exists(n) THEN Doc(n).status ELSE "absent"

EventsOf(n) == IF Exists(n) THEN Listed(Doc(n)) ELSE {}

\* How the status and the events of one NEED may go from s and l to t and m.
LifeStep(s, l, t, m) ==
    \/ t = s /\ m = l
    \/ s = "absent" /\ t = "matched" /\ m = {<<"NEED", 0>>}
    \/ /\ s = "matched" /\ t = "matched"
       /\ \E p \in 0..(MaxPartials - 1) :
            /\ \A q \in 0..(MaxPartials - 1) : <<"PARTIAL", q>> \in l => q < p
            /\ m = l \cup {<<"PARTIAL", p>>}
    \/ s = "matched" /\ t = "completed" /\ m = l \cup {<<"RESULT", 0>>}
    \/ s = "matched" /\ t = "cancelled" /\ m = l \cup {<<"REVOKE", 0>>}
    \/ s = "matched" /\ t = "failed" /\ m = l

\* An edit is a step in the life of its NEED.
LEMMA EditLives ==
    ASSUME NEW o \in Operations, NEW doc \in Documents, Lawful(doc), Changed(o, doc),
           CosmosAssumption
    PROVE  LifeStep(doc.status, Listed(doc), Edited(o, doc).status, Listed(Edited(o, doc)))
<1> DEFINE e == Edited(o, doc)
           delivers == o.type \in {"partial", "complete", "recover", "cancel"}
<1>1. /\ e.deliveries = IF delivers THEN Append(doc.deliveries, o.event) ELSE doc.deliveries
      /\ e.status = IF o.type \in Enders THEN EndOf(o.type) ELSE doc.status
  BY EditedFields
<1>2. o.event \in Events /\ doc.deliveries \in Seq(Events) /\ doc.partialSequence \in Nat
  BY OperationTyped DEF Documents
<1> HIDE DEF e
<1>3. ~delivers => Listed(e) = Listed(doc)
  BY <1>1 DEF Listed
<1>4. delivers => Listed(e) = Listed(doc) \cup {o.event}
  <2> SUFFICES ASSUME delivers PROVE Listed(e) = Listed(doc) \cup {o.event}
    OBVIOUS
  <2>1. e.deliveries = Append(doc.deliveries, o.event)
    BY <1>1
  <2> QED
    BY <1>2, <2>1, AppendLists DEF Listed
<1>5. CASE o.type = "partial"
  <2>1. doc.status = "matched" /\ o.event[2] = doc.partialSequence /\ e.status = "matched"
    BY <1>1, <1>5 DEF Changed, Enders
  <2>2. /\ doc.partialSequence \in 0..(MaxPartials - 1)
        /\ Listed(e) = Listed(doc) \cup {<<"PARTIAL", doc.partialSequence>>}
    BY <1>4, <1>5, <2>1, OperationTyped
  <2>3. \A q \in 0..(MaxPartials - 1) : <<"PARTIAL", q>> \in Listed(doc) => q < doc.partialSequence
    BY DEF Lawful
  <2> QED
    BY <2>1, <2>2, <2>3 DEF LifeStep, e
<1>6. CASE o.type \in Enders
  <2>1. doc.status = "matched" /\ e.status = EndOf(o.type)
    BY <1>1, <1>6 DEF Changed, Enders
  <2>2. CASE o.type \in {"complete", "recover"}
    BY <1>4, <2>1, <2>2, OperationTyped DEF LifeStep, EndOf, e
  <2>3. CASE o.type = "cancel"
    BY <1>4, <2>1, <2>3, OperationTyped DEF LifeStep, EndOf, e
  <2>4. CASE o.type = "fail"
    BY <1>3, <2>1, <2>4 DEF LifeStep, EndOf, e
  <2> QED
    BY <1>6, <2>2, <2>3, <2>4 DEF Enders
<1>7. CASE o.type \in {"ack", "compact"}
  BY <1>1, <1>3, <1>7 DEF LifeStep, Enders, e
<1> QED
  BY <1>5, <1>6, <1>7, OperationTyped DEF Changed, Enders

\* A step of the ledger is a step in the life of one NEED.
LEMMA OneLives ==
    ASSUME CosmosInv, CosmosAssumption, [Next]_vars
    PROVE  \/ history' = history
           \/ \E n \in Needs :
                /\ \A m \in Needs \ {n} : history'[m] = history[m]
                /\ LifeStep(StatusOf(n), EventsOf(n), StatusOf(n)', EventsOf(n)')
<1>1. ASSUME NEW c \in Calls, ServePut(c)
      PROVE  \/ history' = history
             \/ \E n \in Needs :
                  /\ \A m \in Needs \ {n} : history'[m] = history[m]
                  /\ LifeStep(StatusOf(n), EventsOf(n), StatusOf(n)', EventsOf(n)')
  <2> SUFFICES ASSUME history' # history
               PROVE  \E n \in Needs :
                        /\ \A m \in Needs \ {n} : history'[m] = history[m]
                        /\ LifeStep(StatusOf(n), EventsOf(n), StatusOf(n)', EventsOf(n)')
    OBVIOUS
  <2>1. /\ wire[c].kind = "put" /\ wire[c].etag = Len(history[op[c].need])
        /\ history' = [history EXCEPT ![op[c].need] = Append(@, wire[c].doc)]
    BY <1>1 DEF ServePut
  <2>2. TypeOK /\ RequestFits(c) /\ op[c] \in Operations /\ op[c].need \in Needs
    BY <2>1, CallTyped DEF CosmosInv
  <2>3. PICK n \in Needs : n = op[c].need
    BY <2>2
  <2>4. /\ wire[c].etag \in 1..Len(history[n]) /\ Changed(op[c], history[n][wire[c].etag])
        /\ wire[c].doc = Edited(op[c], history[n][wire[c].etag])
    BY <2>1, <2>2, <2>3 DEF RequestFits
  <2>5. Exists(n) /\ Doc(n) = history[n][wire[c].etag] /\ Doc(n) \in Documents /\ Lawful(Doc(n))
    <3>1. Exists(n)
      BY SMTT(60), <2>4 DEF Exists
    <3> QED
      BY <2>1, <2>3, <3>1, Newest
  <2>6. history'[n] = Append(history[n], Edited(op[c], Doc(n)))
    BY <2>1, <2>2, <2>3, <2>4, <2>5 DEF TypeOK
  <2>7. Exists(n)' /\ Doc(n)' = Edited(op[c], Doc(n))
    <3>1. history[n] \in Seq(Documents) /\ Edited(op[c], Doc(n)) \in Documents
      BY ZenonT(60), <2>2, <2>4, <2>5, EditedFields DEF TypeOK
    <3> QED
      BY <2>6, <3>1, AppendProperties, LenProperties DEF Exists, Doc, Last
  <2>8. LifeStep(Doc(n).status, Listed(Doc(n)), Edited(op[c], Doc(n)).status, Listed(Edited(op[c], Doc(n))))
    BY <2>2, <2>4, <2>5, EditLives
  <2>9. /\ StatusOf(n) = Doc(n).status /\ EventsOf(n) = Listed(Doc(n))
        /\ StatusOf(n)' = Edited(op[c], Doc(n)).status
        /\ EventsOf(n)' = Listed(Edited(op[c], Doc(n)))
    BY <2>5, <2>7 DEF StatusOf, EventsOf, Listed
  <2>10. \A m \in Needs \ {n} : history'[m] = history[m]
    BY <2>1, <2>2, <2>3 DEF TypeOK
  <2> QED
    BY <2>8, <2>9, <2>10
<1>2. ASSUME NEW c \in Calls, ServePost(c)
      PROVE  \/ history' = history
             \/ \E n \in Needs :
                  /\ \A m \in Needs \ {n} : history'[m] = history[m]
                  /\ LifeStep(StatusOf(n), EventsOf(n), StatusOf(n)', EventsOf(n)')
  <2> SUFFICES ASSUME history' # history
               PROVE  \E n \in Needs :
                        /\ \A m \in Needs \ {n} : history'[m] = history[m]
                        /\ LifeStep(StatusOf(n), EventsOf(n), StatusOf(n)', EventsOf(n)')
    OBVIOUS
  <2>1. /\ wire[c].kind = "post" /\ ~Exists(op[c].need)
        /\ history' = [history EXCEPT ![op[c].need] = <<wire[c].doc>>]
    BY <1>2 DEF ServePost
  <2>2. TypeOK /\ RequestFits(c) /\ op[c] \in Operations /\ op[c].need \in Needs
    BY <2>1, CallTyped DEF CosmosInv
  <2>3. PICK n \in Needs : n = op[c].need
    BY <2>2
  <2>4. op[c].type = "reserve" /\ wire[c].doc = FreshDocument(c)
    BY <2>1, <2>2 DEF RequestFits
  <2>5. FreshDocument(c).status = "matched" /\ Listed(FreshDocument(c)) = {<<"NEED", 0>>}
    BY <2>2, <2>4, FreshFields
  <2>6. PICK f : f = FreshDocument(c)
    OBVIOUS
  <2>7. history'[n] = <<f>> /\ \A m \in Needs \ {n} : history'[m] = history[m]
    BY <2>1, <2>2, <2>3, <2>4, <2>6 DEF TypeOK
  <2>8. Exists(n)' /\ Doc(n)' = f
    BY <2>7 DEF Exists, Doc, Last
  <2>9. StatusOf(n)' = "matched" /\ EventsOf(n)' = {<<"NEED", 0>>}
    BY <2>5, <2>6, <2>8 DEF StatusOf, EventsOf, Listed
  <2>10. StatusOf(n) = "absent"
    BY <2>1, <2>3 DEF StatusOf
  <2> QED
    BY <2>7, <2>9, <2>10 DEF LifeStep
<1>3. CASE UNCHANGED vars
  BY <1>3 DEF vars
<1>4. ASSUME NEW c \in Calls,
             \/ \E o \in Operations : Begin(c, o)
             \/ Read(c) \/ ReadNothing(c) \/ ReadTickets(c) \/ ServeTicket(c) \/ GiveUp(c)
      PROVE  history' = history
  BY <1>4 DEF Begin, Read, ReadNothing, ReadTickets, ServeTicket, GiveUp
<1>5. CASE Next
  <2>1. PICK c \in Calls :
          \/ ServePut(c) \/ ServePost(c)
          \/ \E o \in Operations : Begin(c, o)
          \/ Read(c) \/ ReadNothing(c) \/ ReadTickets(c) \/ ServeTicket(c) \/ GiveUp(c)
    BY <1>5 DEF Next
  <2> QED
    BY <1>1, <1>2, <1>4, <2>1
<1> QED
  BY <1>3, <1>5

AbstractStatus == [n \in Needs |-> StatusOf(n)]

AbstractEvents == [n \in Needs |-> EventsOf(n)]

\* Every step of the store and of its callers, seen through the newest versions
\* of the documents, is a step of NeedLifecycle: lost replies and stale reads
\* cannot make a NEED live, stream or end otherwise than the SQLite ledger lets
\* it (mutate, reserveNeed, acceptPartial, transitionNeed).
THEOREM Refinement ==
    ASSUME CosmosAssumption
    PROVE  Spec => KeepsLifecycle
<1>1. Init => Abstract!Init
  BY DEF Init, Exists, Abstract!Init
<1>2. ASSUME CosmosInv, [Next]_vars PROVE [Abstract!Next]_(Abstract!lifecycle)
  <2>1. SUFFICES Abstract!Next \/ UNCHANGED <<AbstractStatus, AbstractEvents>>
    BY DEF Abstract!lifecycle, AbstractStatus, AbstractEvents, StatusOf, EventsOf
  <2>2. CASE history' = history
    BY <2>2 DEF AbstractStatus, AbstractEvents, StatusOf, EventsOf, Exists, Doc
  <2>3. ASSUME NEW n \in Needs, \A m \in Needs \ {n} : history'[m] = history[m],
               LifeStep(StatusOf(n), EventsOf(n), StatusOf(n)', EventsOf(n)')
        PROVE  Abstract!Next \/ UNCHANGED <<AbstractStatus, AbstractEvents>>
    <3>1. \A m \in Needs \ {n} : StatusOf(m)' = StatusOf(m) /\ EventsOf(m)' = EventsOf(m)
      BY <2>3 DEF StatusOf, EventsOf, Exists, Doc
    <3>2. /\ AbstractStatus' = [AbstractStatus EXCEPT ![n] = StatusOf(n)']
          /\ AbstractEvents' = [AbstractEvents EXCEPT ![n] = EventsOf(n)']
          /\ AbstractStatus[n] = StatusOf(n) /\ AbstractEvents[n] = EventsOf(n)
      BY <3>1 DEF AbstractStatus, AbstractEvents
    <3>3. CASE StatusOf(n)' = StatusOf(n) /\ EventsOf(n)' = EventsOf(n)
      BY <3>2, <3>3 DEF AbstractStatus, AbstractEvents
    <3>4. CASE StatusOf(n) = "absent" /\ StatusOf(n)' = "matched" /\ EventsOf(n)' = {<<"NEED", 0>>}
      <4>1. Abstract!Reserve(n)
        BY <3>2, <3>4 DEF Abstract!Reserve, AbstractStatus, AbstractEvents, StatusOf, EventsOf
      <4> QED
        BY <4>1 DEF Abstract!Next
    <3>5. CASE /\ StatusOf(n) = "matched" /\ StatusOf(n)' = "matched"
               /\ \E p \in 0..(MaxPartials - 1) :
                    /\ \A q \in 0..(MaxPartials - 1) : <<"PARTIAL", q>> \in EventsOf(n) => q < p
                    /\ EventsOf(n)' = EventsOf(n) \cup {<<"PARTIAL", p>>}
      <4>1. PICK p \in 0..(MaxPartials - 1) :
              /\ \A q \in 0..(MaxPartials - 1) : <<"PARTIAL", q>> \in EventsOf(n) => q < p
              /\ EventsOf(n)' = EventsOf(n) \cup {<<"PARTIAL", p>>}
        BY <3>5
      <4>2. AbstractStatus' = AbstractStatus
        BY <3>2, <3>5 DEF AbstractStatus
      <4>3. Abstract!Stream(n, p)
        BY <3>2, <3>5, <4>1, <4>2 DEF Abstract!Stream, AbstractStatus, AbstractEvents, StatusOf, EventsOf
      <4> QED
        BY <4>1, <4>3 DEF Abstract!Next
    <3>6. CASE /\ StatusOf(n) = "matched" /\ StatusOf(n)' \in Terminal
               /\ \E a \in SUBSET Abstract!Farewells(StatusOf(n)') : EventsOf(n)' = EventsOf(n) \cup a
      <4>1. Abstract!Settle(n, StatusOf(n)')
        BY <3>2, <3>6 DEF Abstract!Settle, AbstractStatus, AbstractEvents, StatusOf, EventsOf
      <4> QED
        BY <3>6, <4>1 DEF Abstract!Next, Abstract!Terminal, Terminal
    <3> QED
      BY <2>3, <3>3, <3>4, <3>5, <3>6 DEF LifeStep, Abstract!Farewells, Terminal
  <2> QED
    BY <1>2, <2>2, <2>3, OneLives
<1>3. Init => CosmosInv
  BY CosmosInvInit
<1>4. CosmosInv /\ [Next]_vars => CosmosInv'
  BY CosmosInvNext
<1> QED
  BY <1>1, <1>2, <1>3, <1>4, PTL DEF Spec, KeepsLifecycle, Abstract!Spec
=============================================================================
