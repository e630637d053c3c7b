------------------------------ MODULE MCAgents ------------------------------
(*******************************************************************************)
(* What a node shares with the agents and peers around it, in one run: each    *)
(* behaviour is one of one part, and focus tells which.                        *)
(*   tasks    two messages, room for two A2A tasks                             *)
(*   full     two requests with the same message, room for one task            *)
(*   streamed one task with numbered partials, opened streams and late ones    *)
(*   mcp      two reads of a resource and a prompt the server edits            *)
(*   listening two subscriptions to two resources or to the prompt catalog     *)
(*   tools    two calls of tools imported from an MCP server that lists a name *)
(*            twice, an app-only tool, colliding headers and one not allowed   *)
(*   relayed  two registrations and two readers of the node client             *)
(*   store    a context store and a reader of selections, one source lying     *)
(*   local    two callers of the in-process node of the SDK                    *)
(*   paced    two calls through the rate governor of a provider, one of them   *)
(*            larger than its bucket                                           *)
(*   json     three processes on one locked file, a crash                      *)
(*   service  two operators and a refresh of the node service, a crash         *)
(*   native   two processes of the desktop client and its recovery record      *)
(*   session  two commands of the desktop client on two relays                 *)
(*   effects  two hosts and two recoverers of one paid effect                  *)
(* The members of Pair, of Twins and of Couple are interchangeable.            *)
(*******************************************************************************)
EXTENDS Naturals, TLC

CONSTANTS Pair, Twins, Couple, Third

VARIABLES
    focus,
    req, task, tasks, started, marker, marked, need, queue, batch, cancel, push, expiries,
    server, read, state, invalid, noted, sub, past, walk,
    v1, v2, v3, v4, v5, v6, v7, v8, v9, v10, v11, v12, v13, v14  \* shared by the other parts

\* Of the tools the MCP server may list, a is listed twice, the headers of b
\* collide, c belongs to the app, and d is not allowed.
ToolDef(n, ui, uri, notes) == [name |-> n, ui |-> ui, uri |-> uri, notes |-> notes]
Note(header) == [at |-> "property", header |-> header, type |-> "string"]
ListedTools == {ToolDef("a", "both", "./x", <<Note("h")>>), ToolDef("a", "none", "none", <<>>),
                ToolDef("b", "none", "none", <<Note("h"), Note("H")>>),
                ToolDef("c", "app", "y", <<>>), ToolDef("d", "both", "x", <<>>)}
Page(uri) == [uri |-> uri, html |-> TRUE, value |-> "page", size |-> 1]

Tasks == INSTANCE A2aServer WITH
    Requests <- Pair, MessageOf <- [r \in Pair |-> r], MaxTasks <- 2, MaxMarkers <- 2,
    MaxPartials <- 0, MaxExpiries <- 0

Full == INSTANCE A2aServer WITH
    Requests <- Pair, MessageOf <- [r \in Pair |-> 1], MaxTasks <- 1, MaxMarkers <- 2,
    MaxPartials <- 0, MaxExpiries <- 1

Streamed == INSTANCE A2aServer WITH
    Requests <- {Third}, MessageOf <- [r \in {Third} |-> 1], MaxTasks <- 2, MaxMarkers <- 1,
    MaxPartials <- 2, MaxExpiries <- 1

Mcp == INSTANCE McpImports WITH
    Resources <- {"x"}, Prompts <- {"p"}, Dated <- {"x"}, Reads <- Pair, MaxEdition <- 3,
    PerDate <- 2, MaxSubs <- 0, Cursors <- {1}, MaxPages <- 2, MaxListed <- 2

Listening == INSTANCE McpImports WITH
    Resources <- {"x", "z"}, Prompts <- {"p"}, Dated <- {}, Reads <- {}, MaxEdition <- 1,
    PerDate <- 1, MaxSubs <- 2, Cursors <- {}, MaxPages <- 0, MaxListed <- 0

Relayed == INSTANCE NodeClient WITH
    Registrations <- {"g1", "g2"}, Readers <- Pair, Chains <- {"c1"}, MaxSockets <- 2,
    MaxEvents <- 2, reg <- v1, relaySession <- v2, sessionToken <- v3, socket <- v4,
    fastSocket <- v5, connecting <- v6, queue <- v7, waiters <- v8, reader <- v9,
    chainWaiters <- v10, chain <- v11, arrived <- v12

Imported == INSTANCE McpTools WITH
    Calls <- Pair, Importer <- Third, Tools <- ListedTools, Allowed <- {"a", "b", "c"},
    Capability <- [n \in {"a", "b", "c", "d"} |-> IF n = "c" THEN "a" ELSE n],
    Fold <- [h \in {"h", "H"} |-> "h"],
    Normal <- [u \in {"./x", "x", "y"} |-> IF u = "y" THEN u ELSE "x"],
    Reads <- {<<>>, <<Page("x")>>, <<Page("./x")>>, <<Page("x"), Page("x")>>}, Cursors <- {1},
    MaxPages <- 2, MaxTools <- 2, MaxBytes <- 1, MaxContents <- 2, MaxContentBytes <- 2,
    phase <- v1, offered <- v2, walk <- v3, imported <- v4, call <- v5, called <- v6,
    resolved <- v7

Store == INSTANCE ContextStore WITH
    Nodes <- {"n1", "n2"}, Reader <- "n1", Ids <- {"i", "j"}, Texts <- {"x"},
    Lie <- [i \in {"i"} |-> "y"], MaxContexts <- 2, TopK <- 1, contexts <- v1, cache <- v2,
    call <- v3

Local == INSTANCE SdkLocalNode WITH
    Callers <- Pair, Kinds <- {"NEED", "RESULT"}, MaxEvents <- 3, MaxWaits <- 4,
    HasSocket <- TRUE, waiters <- v1, wants <- v2, pending <- v3, pump <- v4, closed <- v5,
    incoming <- v6, arrived <- v7, waits <- v8, handed <- v9

Governor == INSTANCE ProviderGovernor WITH
    Callers <- {"small", "big"}, Capacity <- [b \in {"rpm", "tpm"} |-> 2],
    Rate <- [b \in {"rpm", "tpm"} |-> 1], TokensOf <- [small |-> 1, big |-> 3],
    Reports <- {[tokens |-> 100, requests |-> 100, reset |-> 0], [tokens |-> 2, requests |-> 0, reset |-> 1]},
    Hints <- {0, 2}, HeaderReserve <- 1, MaxRetries <- 1, MaxWait <- 2, MaxLate <- 1, MaxTime <- 2,
    now <- v1, shared <- v2, bucket <- v3, cooldown <- v4, header <- v5, call <- v6

Json == INSTANCE DurableJsonStore WITH
    Processes <- Pair \cup {Third}, MaxTransactions <- 3, MaxCrashes <- 1, proc <- v1,
    lock <- v2, locks <- v3, revision <- v4, committed <- v5, begun <- v6, crashes <- v7,
    mistaken <- v8

Service == INSTANCE NodeService WITH
    Requests <- Pair \cup {Third}, Operators <- Pair, Keys <- {"x", "y"}, MaxCrashes <- 1,
    service <- v1, identity <- v2, idFile <- v3, created <- v4, req <- v5, flight <- v6,
    refresh <- v7, held <- v8, disk <- v9, crashes <- v10

Recovery == INSTANCE NativeRecovery WITH
    Processes <- Pair, MaxNeeds <- 2, MaxPolls <- 1, MaxCrashes <- 1, proc <- v1, job <- v2,
    guard <- v3, idFile <- v4, created <- v5, path <- v6, backup <- v7, claim <- v8,
    need <- v9, signed <- v10, polls <- v11, crashes <- v12, early <- v13, unguarded <- v14

Session == INSTANCE NativeSession WITH
    Relays <- Twins, Commands <- Pair, MaxTokens <- 3, MaxNeeds <- 2, MaxRestarts <- 1,
    session <- v1, active <- v2, cmd <- v3, mutation <- v4, refresh <- v5, tokens <- v6,
    expired <- v7, needs <- v8, restarts <- v9, wanted <- v10, late <- v11

Receipts == INSTANCE EffectReceipts WITH
    Hosts <- Pair \cup Twins, Recoverers <- Twins, Responses <- Couple, doc <- v1, need <- v2,
    job <- v3, vendor <- v4, witnessed <- v5, posts <- v6

a2aVars == <<req, task, tasks, started, marker, marked, need, queue, batch, cancel, push,
             expiries>>
mcpVars == <<server, read, state, invalid, noted, sub, past, walk>>

\* The variables of a part that is not in focus have no meaning.
A2aUnused ==
    /\ req = 0 /\ task = 0 /\ tasks = 0 /\ started = 0 /\ marker = 0 /\ marked = 0
    /\ need = 0 /\ queue = 0 /\ batch = 0 /\ cancel = 0 /\ push = 0 /\ expiries = 0

McpUnused ==
    /\ server = 0 /\ read = 0 /\ state = 0 /\ invalid = 0 /\ noted = 0 /\ sub = 0
    /\ past = 0 /\ walk = 0

\* Of the shared variables a part uses the first ones; the rest stay 0.
UnusedFrom13 == v13 = 0 /\ v14 = 0
UnusedFrom12 == v12 = 0 /\ UnusedFrom13
UnusedFrom11 == v11 = 0 /\ UnusedFrom12
UnusedFrom10 == v10 = 0 /\ UnusedFrom11
UnusedFrom9 == v9 = 0 /\ UnusedFrom10
UnusedFrom8 == v8 = 0 /\ UnusedFrom9
UnusedFrom7 == v7 = 0 /\ UnusedFrom8
UnusedFrom4 == v4 = 0 /\ v5 = 0 /\ v6 = 0 /\ UnusedFrom7
UnusedFrom1 == v1 = 0 /\ v2 = 0 /\ v3 = 0 /\ UnusedFrom4
from13 == <<v13, v14>>
from12 == <<v12, from13>>
from11 == <<v11, from12>>
from10 == <<v10, from11>>
from9 == <<v9, from10>>
from8 == <<v8, from9>>
from7 == <<v7, from8>>
from4 == <<v4, v5, v6, from7>>
from1 == <<v1, v2, v3, from4>>

NamedUnused == A2aUnused /\ McpUnused

namedVars == <<a2aVars, mcpVars>>

MCInit ==
    \/ focus = "tasks" /\ Tasks!A2aInit /\ McpUnused /\ UnusedFrom1
    \/ focus = "full" /\ Full!A2aInit /\ McpUnused /\ UnusedFrom1
    \/ focus = "streamed" /\ Streamed!A2aInit /\ McpUnused /\ UnusedFrom1
    \/ focus = "mcp" /\ Mcp!McpInit /\ A2aUnused /\ UnusedFrom1
    \/ focus = "listening" /\ Listening!McpInit /\ A2aUnused /\ UnusedFrom1
    \/ focus = "relayed" /\ Relayed!ClientInit /\ NamedUnused /\ UnusedFrom13
    \/ focus = "tools" /\ Imported!ToolsInit /\ NamedUnused /\ UnusedFrom8
    \/ focus = "store" /\ Store!StoreInit /\ NamedUnused /\ UnusedFrom4
    \/ focus = "local" /\ Local!LocalInit /\ NamedUnused /\ UnusedFrom10
    \/ focus = "paced" /\ Governor!GovernorInit /\ NamedUnused /\ UnusedFrom7
    \/ focus = "json" /\ Json!JsonInit /\ NamedUnused /\ UnusedFrom9
    \/ focus = "service" /\ Service!ServiceInit /\ NamedUnused /\ UnusedFrom11
    \/ focus = "native" /\ Recovery!RecoveryInit /\ NamedUnused
    \/ focus = "session" /\ Session!SessionInit /\ NamedUnused /\ UnusedFrom12
    \/ focus = "effects" /\ Receipts!ReceiptsInit /\ NamedUnused /\ UnusedFrom7

MCNext ==
    \/ focus = "tasks" /\ Tasks!A2aNext /\ UNCHANGED <<focus, mcpVars, from1>>
    \/ focus = "full" /\ Full!A2aNext /\ UNCHANGED <<focus, mcpVars, from1>>
    \/ focus = "streamed" /\ Streamed!A2aNext /\ UNCHANGED <<focus, mcpVars, from1>>
    \/ focus = "mcp" /\ Mcp!McpNext /\ UNCHANGED <<focus, a2aVars, from1>>
    \/ focus = "listening" /\ Listening!McpNext /\ UNCHANGED <<focus, a2aVars, from1>>
    \/ focus = "relayed" /\ Relayed!ClientNext /\ UNCHANGED <<focus, namedVars, from13>>
    \/ focus = "tools" /\ Imported!ToolsNext /\ UNCHANGED <<focus, namedVars, from8>>
    \/ focus = "store" /\ Store!StoreNext /\ UNCHANGED <<focus, namedVars, from4>>
    \/ focus = "local" /\ Local!LocalNext /\ UNCHANGED <<focus, namedVars, from10>>
    \/ focus = "paced" /\ Governor!GovernorNext /\ UNCHANGED <<focus, namedVars, from7>>
    \/ focus = "json" /\ Json!JsonNext /\ UNCHANGED <<focus, namedVars, from9>>
    \/ focus = "service" /\ Service!ServiceNext /\ UNCHANGED <<focus, namedVars, from11>>
    \/ focus = "native" /\ Recovery!RecoveryNext /\ UNCHANGED <<focus, namedVars>>
    \/ focus = "session" /\ Session!SessionNext /\ UNCHANGED <<focus, namedVars, from12>>
    \/ focus = "effects" /\ Receipts!ReceiptsNext /\ UNCHANGED <<focus, namedVars, from7>>

MCSpec == MCInit /\ [][MCNext]_<<focus, namedVars, from1>>

AgentSymmetry == Permutations(Pair) \cup Permutations(Twins) \cup Permutations(Couple)

-----------------------------------------------------------------------------
\* A2aTasksSound in its instances: a task ends once, a stream carries all that
\* happens from when it was asked for, its message is dispatched once and its push webhook gets every update.
TasksSound ==
    CASE focus = "tasks" -> Tasks!A2aTypeOK /\ Tasks!A2aTasksSound
      [] focus = "full" -> Full!A2aTypeOK /\ Full!A2aTasksSound
      [] focus = "streamed" -> Streamed!A2aTypeOK /\ Streamed!A2aTasksSound
      [] OTHER -> TRUE

\* McpImportsSound and ToolsSound: an import never regresses, listing pages is
\* bounded, a call returns the answer to itself and none that came too late, only
\* imported tools are called and only the UI resources they declare are read.
ImportsSound ==
    CASE focus = "mcp" -> Mcp!McpTypeOK /\ Mcp!McpImportsSound
      [] focus = "listening" -> Listening!McpTypeOK /\ Listening!McpImportsSound
      [] focus = "tools" -> Imported!ToolsSound
      [] OTHER -> TRUE

\* EventsHandedOnce of NodeClient, BlocksAreGenuine of ContextStore and
\* EventsFindTheirCaller of SdkLocalNode: an event reaches one reader once, even
\* when sockets, registrations and timeouts race; a block a caller is given is
\* the one its root commits to; a caller of the SDK gets the event it waits for.
ClientSound ==
    CASE focus = "relayed" -> Relayed!ClientTypeOK /\ Relayed!EventsHandedOnce
      [] focus = "store" -> Store!StoreTypeOK /\ Store!BlocksAreGenuine
      [] focus = "local" -> Local!LocalTypeOK /\ Local!EventsFindTheirCaller
      [] OTHER -> TRUE

\* PacedAndBounded of ProviderGovernor, Serialised of DurableJsonStore,
\* ServiceKeepsItsWord of NodeService and PaidOnceAndBound of EffectReceipts.
ServiceSound ==
    CASE focus = "paced" -> Governor!GovernorTypeOK /\ Governor!PacedAndBounded
      [] focus = "json" -> Json!JsonTypeOK /\ Json!Serialised
      [] focus = "service" -> Service!ServiceTypeOK /\ Service!ServiceKeepsItsWord
      [] focus = "effects" -> Receipts!ReceiptsTypeOK /\ Receipts!PaidOnceAndBound
      [] OTHER -> TRUE

\* RecoverySound of NativeRecovery and SessionsSound of NativeSession: the
\* desktop client recovers a NEED under the identity that signed it, and asks
\* about it only at its relay; it is connected where the user or a NEED it took
\* over wants it.
NativeSound ==
    /\ focus = "native" => Recovery!RecoveryTypeOK /\ Recovery!RecoverySound
    /\ focus = "session" => Session!SessionTypeOK /\ Session!SessionsSound
=============================================================================
