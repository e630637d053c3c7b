----------------------------- MODULE McpImports -----------------------------
(***************************************************************************)
(* Importing MCP resources and prompts: adapters/mcp/resource-runtime.js   *)
(* and prompt-runtime.js over resources-client.js and prompts-client.js.   *)
(* Reads, list walks and one subscription of an importer are in flight     *)
(* together; the server may change an item between taking a read and the   *)
(* read's arrival, and may send any page and any subscription message.     *)
(* An item's content is the number of its edition; the lastModified of a   *)
(* dated one tells editions apart only every PerDate of them.              *)
(***************************************************************************)
EXTENDS Naturals, FiniteSets

CONSTANTS
    Resources,   \* URIs imported as OBJECT and STATE
    Prompts,     \* prompt name and arguments, imported as snapshots
    Dated,       \* the resources whose contents carry lastModified
    Reads,       \* calls of read, refresh and get
    MaxEdition,  \* how often the server edits an item
    PerDate,     \* editions that share a lastModified
    MaxSubs,     \* how many times subscriptions/listen is called
    Cursors,     \* cursors the server may answer with
    MaxPages, MaxListed  \* maxPages, maxResources

VARIABLES
    server,    \* per item: the edition the server holds; external
    read,      \* per read: the item, and the edition in the answer
    state,     \* McpResourceStateStore.states, McpPromptSnapshotStore.snapshots
    invalid,   \* invalidated resources; "catalog" for catalogInvalidated
    noted,     \* per item: the server's edition when its update was noted
    sub,       \* the listening call: its number, whether it is acknowledged, what for
    past,      \* history: what each call asked for, what the server's messages granted
               \* it, which call the last update noted of an item was for, and the
               \* newest edition of each item that was materialized
    walk       \* listAll: the pages so far

mcpVars == <<server, read, state, invalid, noted, sub, past, walk>>

Items == Resources \cup Prompts
NoState == [version |-> 0, edition |-> 0]
NoWalk == [pc |-> "idle", of |-> "resources", names |-> {}, listed |-> 0, cursors |-> {}, pages |-> 0]

McpTypeOK ==
    /\ server \in [Items -> 1..MaxEdition]
    /\ \A r \in Reads : read[r].pc \in {"idle", "taken", "done"} /\ read[r].edition \in 0..MaxEdition
    /\ \A i \in Items : state[i].version \in 0..MaxEdition /\ state[i].edition \in 0..MaxEdition
    /\ invalid \subseteq Resources \cup {"catalog"}
    /\ sub.n \in 0..MaxSubs /\ sub.pc \in {"off", "listening", "open"} /\ sub.honored \subseteq Resources \cup {"catalog"}
    /\ walk.pc \in {"idle", "walking", "listed", "error"} /\ walk.pages \in 0..MaxPages

McpInit ==
    /\ server = [i \in Items |-> 1]
    /\ read = [r \in Reads |-> [pc |-> "idle", item |-> "none", edition |-> 0]]
    /\ state = [i \in Items |-> NoState]
    /\ invalid = {}
    /\ noted = [i \in Items |-> 0]
    /\ past = [asked |-> {}, granted |-> {}, by |-> [i \in Resources \cup {"catalog"} |-> 0],
               newest |-> [i \in Items |-> 0]]
    /\ sub = [n |-> 0, pc |-> "off", asked |-> {}, honored |-> {}]
    /\ walk = NoWalk

---------------------------------------------------------------------------
\* The server edits an item; external.
Edit(i) ==
    /\ server[i] < MaxEdition
    /\ server' = [server EXCEPT ![i] = @ + 1]
    /\ UNCHANGED <<read, state, invalid, noted, sub, past, walk>>

Take(r, i) ==
    /\ read[r].pc = "idle"
    /\ read' = [read EXCEPT ![r] = [pc |-> "taken", item |-> i, edition |-> server[i]]]
    /\ UNCHANGED <<server, state, invalid, noted, sub, past, walk>>

\* resources/read: the server takes the edition of that moment.
Read(r, i) == i \in Resources /\ Take(r, i)

\* prompts/get and its continuation with the inputs the server asked for.
GetPrompt(r, i) == i \in Prompts /\ Take(r, i)

NeverStale(i, edition) == FALSE

LastModified(edition) == edition \div PerDate

\* snapshotState(): of dated contents an older lastModified fails, and so does another
\* content of the same one.
Stale(i, edition) ==
    /\ i \in Dated /\ state[i].version > 0
    /\ \/ LastModified(edition) < LastModified(state[i].edition)
       \/ LastModified(edition) = LastModified(state[i].edition) /\ edition # state[i].edition

\* A changed digest is the next version, the same one keeps it.
Snapshot(r) ==
    LET i == read[r].item
        old == state[i]
        version == IF old.edition = read[r].edition THEN old.version ELSE old.version + 1
    IN /\ state' = [state EXCEPT ![i] = [version |-> version, edition |-> read[r].edition]]
       /\ past' = IF past.newest[i] < read[r].edition
                  THEN [past EXCEPT !.newest[i] = read[r].edition] ELSE past

\* McpResourceStateStore.materialize(): the resource is no longer invalidated.
Materialized(r) ==
    LET i == read[r].item
    IN /\ read[r].pc = "taken" /\ i \in Resources
       /\ read' = [read EXCEPT ![r].pc = "done"]
       /\ IF Stale(i, read[r].edition) THEN UNCHANGED <<state, invalid, past>>
          ELSE Snapshot(r) /\ invalid' = invalid \ {i}
       /\ UNCHANGED <<server, noted, sub, walk>>

\* McpPromptSnapshotStore.materialize(): the catalog stays invalidated.
PromptMaterialized(r) ==
    /\ read[r].pc = "taken" /\ read[r].item \in Prompts
    /\ read' = [read EXCEPT ![r].pc = "done"]
    /\ Snapshot(r)
    /\ UNCHANGED <<server, invalid, noted, sub, walk>>

Unmaterialized(r, items) ==
    /\ read[r].pc = "taken" /\ read[r].item \in items
    /\ read' = [read EXCEPT ![r].pc = "done"]
    /\ UNCHANGED <<server, state, invalid, noted, sub, past, walk>>

\* The read fails, times out, or its contents are malformed, too large or of
\* another URI: nothing is materialized.
ReadFails(r) == Unmaterialized(r, Resources)

\* So for a prompt, also when the server asks for more input first.
PromptFails(r) == Unmaterialized(r, Prompts)

---------------------------------------------------------------------------
\* subscriptions/listen: every call has an id of its own.
Listens(asked) ==
    /\ sub.pc = "off" /\ sub.n < MaxSubs
    /\ sub' = [n |-> sub.n + 1, pc |-> "listening", asked |-> asked, honored |-> {}]
    /\ past' = [past EXCEPT !.asked = @ \cup ({sub.n + 1} \X asked)]
    /\ UNCHANGED <<server, read, state, invalid, noted, walk>>

\* listenResourceUpdates and listenPromptListChanges.
Listen(asked) == asked # {} /\ asked \subseteq Resources /\ Listens(asked)
ListenPrompts == Listens({"catalog"})

\* What a listener makes of a message: accepted, or the end of the subscription.
Heard(accepted, next) ==
    /\ sub.pc # "off"
    /\ sub' = IF accepted THEN next ELSE [sub EXCEPT !.pc = "off"]
    /\ UNCHANGED <<server, read, state, walk>>

\* The acknowledgement: once, of this id, and for no more than was asked.
Acknowledge(n, honored) ==
    /\ sub.asked \subseteq Resources
    /\ Heard(sub.pc = "listening" /\ n = sub.n /\ honored \subseteq sub.asked,
             [sub EXCEPT !.pc = "open", !.honored = honored])
    /\ past' = [past EXCEPT !.granted = @ \cup ({n} \X honored)]
    /\ UNCHANGED <<invalid, noted>>

\* A prompt subscription must be honored.
AcknowledgePrompts(n, honored) ==
    /\ sub.asked = {"catalog"}
    /\ Heard(sub.pc = "listening" /\ n = sub.n /\ honored,
             [sub EXCEPT !.pc = "open", !.honored = {"catalog"}])
    /\ past' = IF honored THEN [past EXCEPT !.granted = @ \cup {<<n, "catalog">>}] ELSE past
    /\ UNCHANGED <<invalid, noted>>

\* An update is yielded, and noted by the importer, only of an acknowledged
\* subscription, of its id and for what it honored; it changes no state.
Update(n, i) ==
    LET accepted == sub.pc = "open" /\ n = sub.n /\ i \in sub.honored
    IN /\ sub.asked \subseteq Resources /\ i \in Resources
       /\ Heard(accepted, sub)
       /\ invalid' = IF accepted THEN invalid \cup {i} ELSE invalid
       /\ noted' = IF accepted THEN [noted EXCEPT ![i] = server[i]] ELSE noted
       /\ past' = IF accepted THEN [past EXCEPT !.by[i] = n] ELSE past

\* notifications/prompts/list_changed, noted by noteListChanged.
ListChanged(n) ==
    LET accepted == sub.pc = "open" /\ n = sub.n
    IN /\ sub.asked = {"catalog"}
       /\ Heard(accepted, sub)
       /\ invalid' = IF accepted THEN invalid \cup {"catalog"} ELSE invalid
       /\ past' = IF accepted THEN [past EXCEPT !.by["catalog"] = n] ELSE past
       /\ UNCHANGED noted

\* The stream ends, breaks or exceeds its bounds.
Disconnect ==
    /\ sub.pc # "off"
    /\ sub' = [sub EXCEPT !.pc = "off"]
    /\ UNCHANGED <<server, read, state, invalid, noted, past, walk>>

---------------------------------------------------------------------------
\* listAllResources or listAllPrompts: page by page.
StartWalk(of) ==
    /\ walk.pc \in {"idle", "listed", "error"} /\ walk.pages < MaxPages
    /\ walk' = [NoWalk EXCEPT !.pc = "walking", !.of = of]
    /\ UNCHANGED <<server, read, state, invalid, noted, sub, past>>

\* A name or a cursor seen before, too many names or too many pages fail the walk.
AddPage(names, next) ==
    LET wrong == \/ walk.pages >= MaxPages
                 \/ walk.names \cap names # {}
                 \/ walk.listed + Cardinality(names) > MaxListed
                 \/ next \in walk.cursors
    IN walk' = [walk EXCEPT
                  !.pc = IF wrong THEN "error" ELSE IF next = 0 THEN "listed" ELSE "walking",
                  !.names = @ \cup names, !.listed = @ + Cardinality(names),
                  !.cursors = @ \cup ({next} \ {0}),
                  !.pages = IF @ < MaxPages THEN @ + 1 ELSE @]

Page(names, next) ==
    /\ walk.pc = "walking" /\ walk.of = "resources"
    /\ AddPage(names, next)
    /\ UNCHANGED <<server, read, state, invalid, noted, sub, past>>

\* A finished walk of the prompts clears catalogInvalidated.
PromptPage(names, next) ==
    /\ walk.pc = "walking" /\ walk.of = "prompts"
    /\ AddPage(names, next)
    /\ invalid' = IF walk'.pc = "listed" THEN invalid \ {"catalog"} ELSE invalid
    /\ UNCHANGED <<server, read, state, noted, sub, past>>

\* list() of the prompt importer, a single page of whatever the catalog holds,
\* clears catalogInvalidated too.
ListPrompts ==
    /\ invalid' = invalid \ {"catalog"}
    /\ UNCHANGED <<server, read, state, noted, sub, past, walk>>

McpNext ==
    \/ \E i \in Items : Edit(i) \/ \E r \in Reads : Read(r, i) \/ GetPrompt(r, i)
    \/ \E r \in Reads : Materialized(r) \/ PromptMaterialized(r) \/ ReadFails(r) \/ PromptFails(r)
    \/ \E asked \in SUBSET Resources : Listen(asked)
    \/ ListenPrompts \/ ListPrompts
    \/ \E n \in 1..MaxSubs, honored \in SUBSET Resources : Acknowledge(n, honored)
    \/ \E n \in 1..MaxSubs, honored \in BOOLEAN : AcknowledgePrompts(n, honored)
    \/ \E n \in 1..MaxSubs, i \in Resources : Update(n, i)
    \/ \E n \in 1..MaxSubs : ListChanged(n)
    \/ Disconnect
    \/ \E of \in {"resources", "prompts"} : StartWalk(of)
    \/ \E names \in SUBSET Resources, next \in Cursors \cup {0} : Page(names, next)
    \/ \E names \in SUBSET Prompts, next \in Cursors \cup {0} : PromptPage(names, next)

McpSpec == McpInit /\ [][McpNext]_mcpVars

---------------------------------------------------------------------------
\* A dated resource never goes back to an older edition than one it has been given,
\* whatever order its reads end in and however coarse its dates are; no item is given
\* an edition the server has not held, and no version number is handed out without
\* another edition.
NoRegression ==
    \A i \in Items :
        /\ state[i].edition <= server[i]
        /\ i \in Dated => state[i].edition = past.newest[i] /\ state[i].version <= state[i].edition

\* A finished list walk names every item once, within its bounds, although the
\* server may repeat names and cursors for ever.
WalksAreBounded ==
    walk.pc = "listed" => /\ walk.listed = Cardinality(walk.names)
                          /\ walk.listed <= MaxListed
                          /\ walk.pages <= MaxPages

\* Only what a subscription asked for and was granted invalidates an item, and by
\* messages of that very call, whatever the server sends under the ids of earlier
\* calls, acknowledges without being asked, or says after the stream broke.
OnlyGrantedInvalidates ==
    \A i \in invalid : <<past.by[i], i>> \in past.asked \cap past.granted

McpImportsSound == NoRegression /\ WalksAreBounded /\ OnlyGrantedInvalidates

\* "A notification only marks the local snapshot stale; an explicit verified reread
\* is still required": an item that is no longer invalidated has been read since.
StaleUntilReread ==
    \A i \in Resources : i \notin invalid => noted[i] = 0 \/ state[i].edition >= noted[i]
===============================================================================
