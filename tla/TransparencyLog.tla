--------------------------- MODULE TransparencyLog ---------------------------
(***************************************************************************)
(* The replicated transparency log of one source owner:                    *)
(* core/trust/transparency-log.js and                                      *)
(* network/replication/transparency-replication.js.  An entry carries the  *)
(* hash of its predecessor, so an entry is modelled by the whole chain of  *)
(* events it commits to: its sequence is the chain's length, its previous  *)
(* hash the chain without the last event.  Appends, pushes and pulls of    *)
(* one node run concurrently and interleave while an entry is written.     *)
(***************************************************************************)
EXTENDS Naturals, Sequences, SequencesExt

CONSTANTS
    Nodes,        \* the replicas
    Events,       \* what is appended; each event once
    Syncs,        \* the calls of syncWithPeer
    MaxLogFaults  \* how many writes fail and crashes happen, together

VARIABLES
    up,        \* per node: whether the log is open, closed or cannot be opened
    log,       \* _entries, as the chain of its last entry
    file,      \* the lines of the log's file, in the order they were written
    unsaved,   \* per node: entries whose write failed
    ingest,    \* per call of ingest (an append's or a sync's): where it stands
    sync,      \* per call of syncWithPeer: where it stands
    advertised,\* advertisingEnabled
    logFaults  \* failures and crashes so far

logVars == <<up, log, file, unsaved, ingest, sync, advertised, logFaults>>

Calls == Events \cup Syncs
Chains == Seq(Events)
NoIngest == [pc |-> "none", at |-> "", rest |-> <<>>, entry |-> <<>>]
\* A sync that has not begun, or that is over and has nothing to show.
SyncAt(pc) == [pc |-> pc, from |-> "", to |-> "", head |-> <<>>, local |-> <<>>, entries |-> <<>>]
NoSync == SyncAt("none")

IngestStates ==
    [pc : {"none", "persisting", "ok", "error"}, at : Nodes \cup {""}, rest : Seq(Chains), entry : Chains]

SyncStates ==
    [pc : {"none", "heading", "pulling", "pulled", "ingesting", "pushing", "remote", "ok",
           "error", "lapsed"},
     from : Nodes \cup {""}, to : Nodes \cup {""}, head : Chains, local : Chains,
     entries : Seq(Chains)]

ASSUME LogAssumption ==
    Events \cap Syncs = {} /\ MaxLogFaults \in Nat

LogTypeOK ==
    /\ up \in [Nodes -> {"up", "down", "broken"}]
    /\ log \in [Nodes -> Chains]
    /\ file \in [Nodes -> Seq(Chains)]
    /\ unsaved \in [Nodes -> SUBSET Chains]
    /\ ingest \in [Calls -> IngestStates]
    /\ sync \in [Syncs -> SyncStates]
    /\ advertised \subseteq Nodes
    /\ logFaults \in 0..MaxLogFaults

LogInit ==
    /\ up = [n \in Nodes |-> "up"]
    /\ log = [n \in Nodes |-> <<>>]
    /\ file = [n \in Nodes |-> <<>>]
    /\ unsaved = [n \in Nodes |-> {}]
    /\ ingest = [c \in Calls |-> NoIngest]
    /\ sync = [s \in Syncs |-> NoSync]
    /\ advertised = {}
    /\ logFaults = 0

---------------------------------------------------------------------------
(* DurableTransparencyLog.                                                 *)

\* entries(): the entries of a chain from a sequence on, each a chain itself.
EntriesFrom(chain, fromSequence) ==
    [i \in 1..(IF fromSequence > Len(chain) THEN 0 ELSE Len(chain) - fromSequence + 1) |->
        SubSeq(chain, 1, fromSequence + i - 1)]

\* ingest() up to its next await: what is held already is skipped, another entry
\* at a held sequence is a fork, one that does not extend the last is a gap.
IngestFrom(chain, rest) ==
    LET held(e) == IsPrefix(e, chain)
        new == {i \in DOMAIN rest : ~ held(rest[i])}
        i == CHOOSE j \in new : \A k \in new : j <= k
    IN IF new = {} THEN [result |-> "ok", rest |-> <<>>, entry |-> <<>>]
       ELSE IF Len(rest[i]) <= Len(chain) THEN [result |-> "fork", rest |-> <<>>, entry |-> <<>>]
       ELSE IF Front(rest[i]) # chain THEN [result |-> "gap", rest |-> <<>>, entry |-> <<>>]
       ELSE [result |-> "push", rest |-> SubSeq(rest, i + 1, Len(rest)), entry |-> rest[i]]

\* The entry is in memory before the write that makes it durable is awaited.
Ingest(c, n, entries) ==
    LET step == IngestFrom(log[n], entries)
        pc == CASE step.result = "push" -> "persisting" [] step.result = "ok" -> "ok" [] OTHER -> "error"
    IN /\ log' = IF step.result = "push" THEN [log EXCEPT ![n] = step.entry] ELSE log
       /\ ingest' = [ingest EXCEPT ![c] = [pc |-> pc, at |-> n, rest |-> step.rest, entry |-> step.entry]]

\* append(): signs the entry that follows the last and ingests it.
AppendEvent(n, e) ==
    /\ up[n] = "up"
    /\ ingest[e].pc = "none"
    /\ Ingest(e, n, <<Append(log[n], e)>>)
    /\ UNCHANGED <<up, file, unsaved, sync, advertised, logFaults>>

\* #persist() ends: the line is at the end of the file, the loop goes on.
Persisted(c) ==
    /\ ingest[c].pc = "persisting"
    /\ file' = [file EXCEPT ![ingest[c].at] = Append(@, ingest[c].entry)]
    /\ Ingest(c, ingest[c].at, ingest[c].rest)
    /\ UNCHANGED <<up, unsaved, sync, advertised, logFaults>>

\* #persist() throws: the call fails, the entry stays in memory.
PersistFails(c) ==
    /\ ingest[c].pc = "persisting"
    /\ logFaults < MaxLogFaults
    /\ logFaults' = logFaults + 1
    /\ unsaved' = [unsaved EXCEPT ![ingest[c].at] = @ \cup {ingest[c].entry}]
    /\ ingest' = [ingest EXCEPT ![c].pc = "error"]
    /\ UNCHANGED <<up, log, file, sync, advertised>>

\* What was in memory is gone; an acknowledgement of the crashed peer lapses.
CrashReplica(n) ==
    /\ up[n] = "up"
    /\ logFaults < MaxLogFaults
    /\ logFaults' = logFaults + 1
    /\ up' = [up EXCEPT ![n] = "down"]
    /\ log' = [log EXCEPT ![n] = <<>>]
    /\ unsaved' = [unsaved EXCEPT ![n] = {}]
    /\ ingest' = [c \in Calls |-> IF ingest[c].at = n /\ ingest[c].pc = "persisting"
                                  THEN [ingest[c] EXCEPT !.pc = "error"] ELSE ingest[c]]
    /\ sync' = [s \in Syncs |->
                  IF sync[s].pc = "ok" /\ sync[s].to = n THEN SyncAt("lapsed")
                  ELSE IF sync[s].pc # "ok" /\ n \in {sync[s].from, sync[s].to}
                       THEN SyncAt("error") ELSE sync[s]]
    /\ advertised' = advertised \ {n}
    /\ UNCHANGED file

\* open(): every line is verified against the lines before it.  The chain that
\* the first i lines make is the longest of them.
ReadUpTo(lines, i) ==
    CHOOSE chain \in {<<>>} \cup {lines[j] : j \in 1..i} :
        \A j \in 1..i : Len(lines[j]) <= Len(chain)

Follows(e, chain) == IsPrefix(e, chain) \/ Front(e) = chain

Reload(lines) ==
    [ok |-> \A i \in 1..Len(lines) : Follows(lines[i], ReadUpTo(lines, i - 1)),
     chain |-> ReadUpTo(lines, Len(lines))]

Open(n) ==
    LET loaded == Reload(file[n]) IN
    /\ up[n] = "down"
    /\ up' = [up EXCEPT ![n] = IF loaded.ok THEN "up" ELSE "broken"]
    /\ log' = IF loaded.ok THEN [log EXCEPT ![n] = loaded.chain] ELSE log
    /\ UNCHANGED <<file, unsaved, ingest, sync, advertised, logFaults>>

---------------------------------------------------------------------------
(* ReplicatedTransparencyService: the handlers of HEAD, PULL and PUSH, and *)
(* syncWithPeer.  A request or its answer may be lost at any point.        *)

Advance(s, pc) == sync' = [sync EXCEPT ![s].pc = pc]

\* start(), advertise(): provide() may fail; an empty newcomer goes on without.
Advertise(n) ==
    /\ up[n] = "up" /\ n \notin advertised
    /\ advertised' = advertised \cup {n}
    /\ UNCHANGED <<up, log, file, unsaved, ingest, sync, logFaults>>

\* #headFor: the peer answers with its head.
HeadFor(s, n, peer) ==
    /\ sync[s].pc = "none"
    /\ n # peer /\ up[n] = "up" /\ up[peer] = "up"
    /\ sync' = [sync EXCEPT ![s] = [pc |-> "heading", from |-> n, to |-> peer, head |-> log[peer],
                                    local |-> <<>>, entries |-> <<>>]]
    /\ UNCHANGED <<up, log, file, unsaved, ingest, advertised, logFaults>>

CompareLengths(s) ==
    LET local == log[sync[s].from]
        remote == sync[s].head
    IN /\ sync[s].pc = "heading"
       /\ sync' = [sync EXCEPT ![s].local = local,
                   ![s].pc = IF Len(remote) = Len(local) THEN "ok"
                             ELSE IF Len(remote) > Len(local) THEN "pulling" ELSE "pushing"]
       /\ UNCHANGED <<up, log, file, unsaved, ingest, advertised, logFaults>>

\* The answer arrives and is compared with what the log holds by then.
Compare(s) ==
    LET local == log[sync[s].from]
        remote == sync[s].head
    IN /\ sync[s].pc = "heading"
       /\ sync' = [sync EXCEPT ![s].local = local,
                   ![s].pc = CASE remote = local -> "ok"
                               [] Len(remote) = Len(local) /\ remote # local -> "error"
                               [] Len(remote) > Len(local) -> "pulling"
                               [] OTHER -> "pushing"]
       /\ UNCHANGED <<up, log, file, unsaved, ingest, advertised, logFaults>>

\* PULL at the peer: its entries after the local head, and its head.
Pull(s) ==
    /\ sync[s].pc = "pulling"
    /\ sync' = [sync EXCEPT ![s].pc = "pulled", ![s].head = log[sync[s].to],
                            ![s].entries = EntriesFrom(log[sync[s].to], Len(sync[s].local) + 1)]
    /\ UNCHANGED <<up, log, file, unsaved, ingest, advertised, logFaults>>

PullArrives(s) ==
    /\ sync[s].pc = "pulled"
    /\ Ingest(s, sync[s].from, sync[s].entries)
    /\ Advance(s, "ingesting")
    /\ UNCHANGED <<up, file, unsaved, advertised, logFaults>>

\* The head must be the one the peer answered with.  The first pull that brings
\* entries advertises, and fails if that fails.
Pulled(s) ==
    /\ sync[s].pc = "ingesting"
    /\ ingest[s].pc \in {"ok", "error"}
    /\ LET n == sync[s].from
           same == ingest[s].pc = "ok" /\ log[n] = sync[s].head
       IN \E provided \in BOOLEAN :
            /\ advertised' = IF same /\ provided /\ log[n] # <<>> THEN advertised \cup {n} ELSE advertised
            /\ sync' = [sync EXCEPT ![s] = IF same /\ (n \in advertised' \/ log[n] = <<>>)
                                             THEN [@ EXCEPT !.pc = "ok", !.local = log[n]] ELSE SyncAt("error")]
    /\ UNCHANGED <<up, log, file, unsaved, ingest, logFaults>>

\* PUSH: the entries the peer was missing, as the log holds them when it sends.
PushArrives(s) ==
    /\ sync[s].pc = "pushing"
    /\ Ingest(s, sync[s].to, EntriesFrom(sync[s].local, Len(sync[s].head) + 1))
    /\ Advance(s, "remote")
    /\ UNCHANGED <<up, file, unsaved, advertised, logFaults>>

\* The peer's head after its ingest must be the local head that was pushed.
Pushed(s) ==
    /\ sync[s].pc = "remote"
    /\ ingest[s].pc \in {"ok", "error"}
    /\ sync' = [sync EXCEPT ![s] = IF ingest[s].pc = "ok" /\ log[sync[s].to] = sync[s].local
                                   THEN [@ EXCEPT !.pc = "ok"] ELSE SyncAt("error")]
    /\ UNCHANGED <<up, log, file, unsaved, ingest, advertised, logFaults>>

\* The request times out; what it started at the peer goes on.
SyncTimeout(s) ==
    /\ sync[s].pc \in {"heading", "pulling", "pulled", "pushing", "remote"}
    /\ sync' = [sync EXCEPT ![s] = SyncAt("error")]
    /\ UNCHANGED <<up, log, file, unsaved, ingest, advertised, logFaults>>

LogNext ==
    \/ \E n \in Nodes : CrashReplica(n) \/ Open(n) \/ Advertise(n)
    \/ \E n \in Nodes, e \in Events : AppendEvent(n, e)
    \/ \E c \in Calls : Persisted(c) \/ PersistFails(c)
    \/ \E s \in Syncs, n, peer \in Nodes : HeadFor(s, n, peer)
    \/ \E s \in Syncs : \/ Compare(s) \/ Pull(s) \/ PullArrives(s) \/ Pulled(s)
                        \/ PushArrives(s) \/ Pushed(s) \/ SyncTimeout(s)

LogSpec == LogInit /\ [][LogNext]_logVars

---------------------------------------------------------------------------
(* Properties.                                                             *)

\* A successful syncWithPeer is an acknowledgement replicate() counts: the peer
\* holds every entry of the head the call returned, whatever appends, pushes and
\* pulls ran meanwhile, until it crashes; a fork is never acknowledged.
AckMeansHeld ==
    \A s \in Syncs : sync[s].pc = "ok" => IsPrefix(sync[s].local, log[sync[s].to])

\* The entry is in the file of the node, is being written or could not be.
Backed(n, chain) ==
    \/ chain \in Range(file[n]) \cup unsaved[n]
    \/ \E c \in Calls : ingest[c].pc = "persisting" /\ ingest[c].at = n /\ ingest[c].entry = chain

\* Every entry a node holds in memory, and so serves and acknowledges, is in its
\* file, is being written, or is one whose write failed.
EntriesBacked ==
    \A n \in Nodes : \A i \in 1..Len(log[n]) :
        Backed(n, SubSeq(log[n], 1, i))

\* "A restarted node reloads and revalidates the chain before serving it": the
\* file of a node can always be opened again.
Reloads == \A n \in Nodes : up[n] # "broken"

---------------------------------------------------------------------------
(* Why they hold: a log only grows while its node is up, so a head that the *)
(* peer once had stays a prefix of what it has for as long as a sync counts *)
(* on it, and only a call that wrote nothing yet starts to ingest.          *)

SyncFits(x, started, chains, open) ==
    /\ x.pc \in {"heading", "pulling", "pulled", "ingesting", "pushing", "remote", "ok"} =>
         x.from \in Nodes /\ x.to \in Nodes /\ open[x.to] = "up"
    /\ x.pc \in {"heading", "pulling", "pulled", "ingesting"} => IsPrefix(x.head, chains[x.to])
    /\ x.pc = "ok" => IsPrefix(x.local, chains[x.to])
    /\ x.pc \in {"none", "heading", "pulling", "pulled", "pushing"} => ~started

SyncsTrue == \A s \in Syncs : SyncFits(sync[s], ingest[s].pc # "none", log, up)

IngestsTrue == \A c \in Calls : ingest[c].pc = "persisting" => ingest[c].at \in Nodes

LogInv == LogTypeOK /\ SyncsTrue /\ IngestsTrue /\ EntriesBacked
===============================================================================
