------------------------------ MODULE McpTools ------------------------------
(***************************************************************************)
(* Importing the tools of an MCP server as TRUYN capabilities:             *)
(* adapters/providers/mcp-discovery.js over adapters/mcp/client.js, with   *)
(* the MCP Apps metadata and UI resources of apps-metadata.js and          *)
(* apps-resource.js.  The server may answer anything, in any order, with   *)
(* the id of any request, and after a request has timed out.               *)
(*                                                                         *)
(* A definition lists the x-mcp-header annotations of its inputSchema      *)
(* (where each stands, its header and the type it annotates) and what its  *)
(* _meta says of a UI.  Normal is the spelling the URL parser gives a URI. *)
(***************************************************************************)
EXTENDS Naturals, Sequences, FiniteSets, FiniteSetsExt, SequencesExt

CONSTANTS
    Calls,           \* calls of execute, resolveAppResource, resolveToolResultAppResource
    Importer,        \* createMcpDiscoveryProvider itself
    Tools,           \* definitions the server may list: [name, notes, ui, uri]
    Allowed,         \* names that allowTools and filter let pass
    Capability,      \* mapCapability, or the prefixed name
    Fold,            \* per header token: its name without case
    Normal,          \* per valid ui:// URI: its normal spelling
    Reads,           \* contents the server may answer resources/read with
    Cursors, MaxPages, MaxTools, MaxBytes, MaxContents, MaxContentBytes

NoUri == "none"
HeaderTypes == {"string", "integer", "boolean"}
Requests == Calls \cup {Importer}

VARIABLES
    phase,     \* of the import
    offered,   \* what server/discover declared: "ui", "resources"
    walk,      \* listAllTools
    imported,  \* byCapability, and the declared tool-resource bindings
    call,      \* each request: its operation, its answer and how its race ended
    called,    \* history: definitions whose tool was called
    resolved   \* history: UI resources read, by whom they were asked for

toolVars == <<phase, offered, walk, imported, call, called, resolved>>

Idle == [pc |-> "idle", method |-> "none", on |-> NoUri, bytes |-> 0, outcome |-> "none",
         late |-> FALSE, from |-> "none", link |-> NoUri]

ToolsTypeOK ==
    /\ phase \in {"new", "discovering", "listing", "ready", "failed"}
    /\ offered \subseteq {"ui", "resources"} /\ called \subseteq Tools
    /\ walk.tools \subseteq Tools /\ walk.pages \in 0..MaxPages /\ walk.cursors \subseteq Cursors
    /\ \A c \in Requests : /\ call[c].pc \in {"idle", "fetching", "reading", "over"}
                           /\ call[c].bytes \in 0..(MaxBytes + 1)
                           /\ call[c].outcome \in {"none", "ok", "error", "timeout"}

ToolsInit ==
    /\ phase = "new" /\ offered = {}
    /\ walk = [tools |-> {}, listed |-> 0, cursors |-> {}, pages |-> 0]
    /\ imported = [selected |-> {}, resources |-> {}]
    /\ call = [c \in Requests |-> Idle]
    /\ called = {} /\ resolved = {}

-----------------------------------------------------------------------------
\* request(): sent with an id of its own; the timer starts with it.
Sent(c, method, on) ==
    call' = [call EXCEPT ![c] = [Idle EXCEPT !.pc = "fetching", !.method = method, !.on = on]]

\* Promise.race: how the operation ends is what the caller is told, unless its
\* timer fired first.
Ended(c, end) ==
    call' = [call EXCEPT ![c] = IF @.outcome = "none" THEN end ELSE [@ EXCEPT !.pc = "over"]]

Failed(c) == [call[c] EXCEPT !.pc = "over", !.outcome = "error"]
Returned(c, from, link) ==
    [call[c] EXCEPT !.pc = "over", !.outcome = "ok", !.from = from, !.link = link]

\* A request of the import that fails, fails the import.
Ends(c, outcome) == IF c = Importer /\ outcome # "ok" THEN "failed" ELSE phase

\* The fetch is refused, redirected or aborted, the body breaks off, or it is
\* neither JSON nor an event stream.
Breaks(c) ==
    /\ call[c].pc \in {"fetching", "reading"}
    /\ Ended(c, Failed(c))
    /\ phase' = Ends(c, "error")
    /\ UNCHANGED <<offered, walk, imported, called, resolved>>

\* The timer: the fetch is aborted, and the caller told; the operation may still
\* be under way.
TimesOut(c) ==
    /\ call[c].pc \in {"fetching", "reading"} /\ call[c].outcome = "none"
    /\ call' = [call EXCEPT ![c].outcome = "timeout", ![c].late = TRUE]
    /\ phase' = Ends(c, "timeout")
    /\ UNCHANGED <<offered, walk, imported, called, resolved>>

\* The response begins; readBoundedText looks at the length it declares, if any.
Responds(c, declared) ==
    /\ call[c].pc = "fetching"
    /\ IF declared > MaxBytes THEN Ended(c, Failed(c)) /\ phase' = Ends(c, "error")
       ELSE call' = [call EXCEPT ![c].pc = "reading"] /\ UNCHANGED phase
    /\ UNCHANGED <<offered, walk, imported, called, resolved>>

\* A chunk beyond the bound cancels the body.
Chunk(c) ==
    /\ call[c].pc = "reading"
    /\ IF call[c].bytes + 1 > MaxBytes THEN Ended(c, Failed(c)) /\ phase' = Ends(c, "error")
       ELSE call' = [call EXCEPT ![c].bytes = @ + 1] /\ UNCHANGED phase
    /\ UNCHANGED <<offered, walk, imported, called, resolved>>

\* readRpcResponse and parseSseJsonRpc: the messages of the body that may answer c.
Matching(c, ids, stream) == IF stream \/ ids = {c} THEN ids \cap {c} ELSE {}

\* The body ends: it holds messages with these ids, as one JSON document or as
\* a stream.  sound: no JSON-RPC error, and the result has the form its method
\* requires.
Answered(c, ids, stream, sound) ==
    /\ call[c].pc = "reading"
    /\ stream \/ Cardinality(ids) = 1
    /\ sound => Matching(c, ids, stream) # {}

-----------------------------------------------------------------------------
\* createMcpDiscoveryProvider: server/discover, then page after page.
Discover ==
    /\ phase = "new"
    /\ Sent(Importer, "discover", NoUri)
    /\ phase' = "discovering"
    /\ UNCHANGED <<offered, walk, imported, called, resolved>>

\* The answer of the importer's request; a late one changes nothing.
Current(method) == call[Importer].method = method /\ call[Importer].outcome = "none"

Discovered(ids, stream, declared) ==
    /\ Answered(Importer, ids, stream, TRUE) /\ Current("discover")
    /\ offered' = declared
    /\ phase' = "listing"
    /\ Sent(Importer, "list", NoUri)
    /\ UNCHANGED <<walk, imported, called, resolved>>

\* analyzeMcpToolDefinition: every annotation stands at a property, has a header
\* token and a plain type, and no two have the same name.
AnalyzeMcpToolDefinition(t) ==
    LET bound == {i \in DOMAIN t.notes : t.notes[i].at = "property"}
    IN /\ \A i \in DOMAIN t.notes : t.notes[i].at # "elsewhere"
       /\ \A i \in bound : t.notes[i].header \in DOMAIN Fold /\ t.notes[i].type \in HeaderTypes
       /\ \A i, j \in bound : Fold[t.notes[i].header] = Fold[t.notes[j].header] => i = j

\* analyzeImportableTool: nor one at the root of the schema.
AnalyzeImportableTool(t) ==
    (\A i \in DOMAIN t.notes : t.notes[i].at # "root") /\ AnalyzeMcpToolDefinition(t)

\* parseMcpAppsToolMetadata: the visibility and the ui:// URI must be valid.
ParsedMetadata(t) == t.ui # "malformed" /\ (t.uri # NoUri => t.uri \in DOMAIN Normal)

\* analyzeAppsToolMetadata: the server must have declared the extension.
AnalyzeAppsToolMetadata(t, ui) ==
    t.ui # "legacy" /\ (t.ui # "none" => ui /\ ParsedMetadata(t))

IsAppOnlyTool(t) == t.ui = "app"

\* What the catalog gives: tools to call, the resources they and the app-only
\* tools declare, and whether two tools claim one capability.
Selection(listed) ==
    LET chosen == {t \in listed : /\ AnalyzeImportableTool(t)
                                  /\ AnalyzeAppsToolMetadata(t, "ui" \in offered)
                                  /\ t.name \in Allowed}
        linked == {t \in chosen : t.ui # "none" /\ t.uri # NoUri}
    IN [selected |-> {t \in chosen : ~IsAppOnlyTool(t)},
        resources |-> {[tool |-> t.name, uri |-> Normal[t.uri]] : t \in linked}]

Usable(s) ==
    /\ s.selected # {}
    /\ \A t, u \in s.selected : Capability[t.name] = Capability[u.name] => t = u

\* listAllTools: a name or a cursor seen before, too many tools or one page too
\* many fail the import; the last page ends it.
AddPage(page, next) ==
    LET names == {t.name : t \in walk.tools}
        wrong == \/ \E t \in page : t.name \in names
                 \/ \E t, u \in page : t # u /\ t.name = u.name
                 \/ walk.listed + Cardinality(page) > MaxTools
                 \/ next \in walk.cursors
                 \/ next # 0 /\ walk.pages + 1 >= MaxPages
        listed == walk.tools \cup page
        made == Selection(listed)
    IN /\ walk' = [tools |-> listed, listed |-> walk.listed + Cardinality(page),
                   cursors |-> walk.cursors \cup ({next} \ {0}), pages |-> walk.pages + 1]
       /\ IF wrong \/ (next = 0 /\ ~Usable(made))
          THEN phase' = "failed" /\ Ended(Importer, Failed(Importer)) /\ UNCHANGED imported
          ELSE IF next # 0
          THEN Sent(Importer, "list", NoUri) /\ UNCHANGED <<phase, imported>>
          ELSE /\ phase' = "ready" /\ imported' = made
               /\ Ended(Importer, Returned(Importer, Importer, NoUri))

Listed(ids, stream) ==
    /\ Answered(Importer, ids, stream, TRUE) /\ Current("list")
    /\ \E page \in SUBSET Tools, next \in Cursors \cup {0} : AddPage(page, next)
    /\ UNCHANGED <<offered, called, resolved>>

-----------------------------------------------------------------------------
\* A call that throws before it sends anything.
Throws(c) ==
    /\ call' = [call EXCEPT ![c].pc = "over", ![c].outcome = "error"]
    /\ UNCHANGED <<called, resolved>>

Begins(c) == phase = "ready" /\ call[c].pc = "idle" /\ UNCHANGED <<phase, offered, walk, imported>>

\* execute(): an imported capability; the arguments must fit the annotated types,
\* or mcpParamHeaders throws.
Execute(c, name, fits) ==
    LET entry == {t \in imported.selected : t.name = name}
    IN /\ Begins(c)
       /\ IF entry = {} \/ ~fits THEN Throws(c)
          ELSE \E t \in entry : /\ Sent(c, "call", name)
                                /\ called' = called \cup {t}
                                /\ UNCHANGED resolved

\* normalizeBoundResourceReference: a URI, or a reference that names this provider.
NormalizeBoundResourceReference(uri, ours) == ours /\ uri \in DOMAIN Normal

\* resolveAppResource: of a resource that a tool declared.
ResolveAppResource(c, uri, ours) ==
    /\ Begins(c)
    /\ IF /\ NormalizeBoundResourceReference(uri, ours) /\ "resources" \in offered
          /\ \E b \in imported.resources : b.uri = Normal[uri]
       THEN /\ Sent(c, "read", Normal[uri])
            /\ resolved' = resolved \cup {[by |-> "reference", uri |-> Normal[uri]]}
            /\ UNCHANGED called
       ELSE Throws(c)

\* resolveToolResultAppResource: the result of call d, if execute() issued it
\* with a link.
ResolveToolResult(c, d) ==
    /\ Begins(c) /\ call[d].pc = "over"
    /\ IF /\ call[d].link # NoUri /\ "resources" \in offered
          /\ [tool |-> call[d].on, uri |-> call[d].link] \in imported.resources
       THEN /\ Sent(c, "read", call[d].link)
            /\ resolved' = resolved \cup {[by |-> call[d].on, uri |-> call[d].link]}
            /\ UNCHANGED called
       ELSE Throws(c)

\* The link that execute() puts on a result.
LinkOf(name) ==
    LET linked == {t \in imported.selected : t.name = name /\ t.ui # "none" /\ t.uri # NoUri}
    IN IF linked = {} THEN NoUri ELSE Normal[(CHOOSE t \in linked : TRUE).uri]

\* callTool: complete, with content, and no error of the tool.
ToolReturns(c, ids, stream) ==
    /\ call[c].method = "call"
    /\ Answered(c, ids, stream, TRUE)
    /\ \E id \in Matching(c, ids, stream) : Ended(c, Returned(c, id, LinkOf(call[c].on)))
    /\ UNCHANGED <<phase, offered, walk, imported, called, resolved>>

\* validateMcpAppsResourceReadResult: each of the contents has the URI that was
\* read and is HTML, no two are equal, and together they fit.
ValidRead(uri, contents) ==
    /\ Len(contents) \in 1..MaxContents
    /\ \A i \in DOMAIN contents : contents[i].uri = uri /\ contents[i].html
    /\ \A i, j \in DOMAIN contents : contents[i].value = contents[j].value => i = j
    /\ MapThenSumSet(LAMBDA i : contents[i].size, DOMAIN contents) <= MaxContentBytes

\* resources-client.js takes no event stream.
ResourceReturns(c, ids, contents) ==
    /\ call[c].method = "read"
    /\ Answered(c, ids, FALSE, TRUE)
    /\ \E id \in Matching(c, ids, FALSE) :
        Ended(c, IF ValidRead(call[c].on, contents) THEN Returned(c, id, NoUri) ELSE Failed(c))
    /\ UNCHANGED <<phase, offered, walk, imported, called, resolved>>

\* An error, a result without its form, or no message with the id.
Refused(c, ids, stream) ==
    /\ Answered(c, ids, stream, FALSE)
    /\ Ended(c, Failed(c))
    /\ phase' = Ends(c, "error")
    /\ UNCHANGED <<offered, walk, imported, called, resolved>>

Bodies == {b \in [ids : SUBSET Requests, stream : BOOLEAN] : b.stream \/ Cardinality(b.ids) = 1}

ToolsNext ==
    \/ Discover
    \/ \E c \in Requests :
        \/ Breaks(c) \/ TimesOut(c) \/ Chunk(c)
        \/ \E declared \in 0..(MaxBytes + 1) : Responds(c, declared)
        \/ \E b \in Bodies : Refused(c, b.ids, b.stream)
    \/ \E b \in Bodies :
        \/ \E declared \in SUBSET {"ui", "resources"} : Discovered(b.ids, b.stream, declared)
        \/ Listed(b.ids, b.stream)
    \/ \E c \in Calls :
        \/ \E name \in {t.name : t \in Tools}, fits \in BOOLEAN : Execute(c, name, fits)
        \/ \E uri \in {t.uri : t \in Tools}, ours \in BOOLEAN : ResolveAppResource(c, uri, ours)
        \/ \E d \in Calls : ResolveToolResult(c, d)
        \/ \E b \in Bodies : ToolReturns(c, b.ids, b.stream)
        \/ \E id \in Requests, contents \in Reads : ResourceReturns(c, {id}, contents)

ToolsSpec == ToolsInit /\ [][ToolsNext]_toolVars

-----------------------------------------------------------------------------
\* A call that returns does so with the answer to its own id, within the size
\* bound, whatever the server sends to whom and however late.
OwnAnswers ==
    \A c \in Requests : call[c].outcome = "ok" => call[c].from = c /\ call[c].bytes <= MaxBytes

\* A tool is called only after an import that let it pass, was told of no other
\* tool of that name, found it callable by a model, and can tell the headers of
\* its parameters apart.
OnlyImportedToolsRun ==
    \A t \in called :
        /\ phase = "ready" /\ t \in walk.tools /\ t.name \in Allowed /\ t.ui # "app"
        /\ \A u \in walk.tools : u.name = t.name => u = t
        /\ \A i, j \in DOMAIN t.notes : Fold[t.notes[i].header] = Fold[t.notes[j].header] => i = j

\* A UI resource is read only if a tool that the import let pass declares it, of
\* a server that declared both capabilities; and for a result, that result's tool.
OnlyDeclaredUiIsRead ==
    \A r \in resolved :
        /\ offered = {"ui", "resources"}
        /\ \E t \in walk.tools : /\ t.name \in Allowed /\ t.uri \in DOMAIN Normal /\ Normal[t.uri] = r.uri
                                 /\ r.by \in {"reference", t.name}

\* An answer that comes after the timeout is never taken for the call's result,
\* nor does it link a UI resource.
TimeoutsStand == \A c \in Requests : call[c].late => call[c].outcome = "timeout" /\ call[c].link = NoUri

ToolsSound ==
    /\ ToolsTypeOK /\ OwnAnswers /\ OnlyImportedToolsRun /\ OnlyDeclaredUiIsRead /\ TimeoutsStand
    /\ phase = "ready" => walk.listed = Cardinality({t.name : t \in walk.tools}) /\ walk.listed <= MaxTools
=============================================================================
