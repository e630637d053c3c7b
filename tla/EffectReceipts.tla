--------------------------- MODULE EffectReceipts ---------------------------
(***************************************************************************)
(* Durable receipts of paid provider calls (runtime/g5-durable-response-   *)
(* receipt.js, g5-independent-response-witness.js, g5-recovered-result-    *)
(* finality.js): hosts share the effect document of one NEED.  One claims  *)
(* it and makes the paid call; any may recover its response later, from    *)
(* the receipt or from a witness, and complete the NEED with it.           *)
(*                                                                         *)
(* The document is replaced with if-match on its version.  A write whose   *)
(* answer is lost is an error for the caller, committed or not.  A host    *)
(* may die at any await.                                                   *)
(***************************************************************************)
EXTENDS Naturals, FiniteSets

CONSTANTS
    Hosts,
    Responses,        \* what the provider can answer; one call may make several
    Recoverers        \* hosts that recover, the others execute

NoHost == "nobody"
NoResponse == "none"
Recoverable == {"started", "unknown", "completed"}

VARIABLES
    doc,              \* the effect document: version, status, claim, receipt
    need,             \* the NEED: status, result, whether a recovery completed it
    job,              \* of each host: pc, kind, its copy of the document, claim and response
    vendor,           \* responses the provider stores for the claim that made them
    witnessed,        \* responses the witness has exported
    posts             \* paid calls

receiptVars == <<doc, need, job, vendor, witnessed, posts>>

NewJob == [pc |-> "new", kind |-> "none", seen |-> 0, claim |-> NoHost, resp |-> NoResponse]

ReceiptsInit ==
    /\ doc = [version |-> 1, status |-> "started", claim |-> NoHost, receipt |-> NoResponse]
    /\ need = [status |-> "matched", result |-> NoResponse, recovered |-> FALSE]
    /\ job = [h \in Hosts |-> NewJob]
    /\ vendor = [r \in Responses |-> NoHost]
    /\ witnessed = {} /\ posts = 0

At(h, pc) == job[h].pc = pc
Goto(h, pc) == job' = [job EXCEPT ![h].pc = pc]
World == <<need, vendor, witnessed, posts>>

\* A fault of the caller: a check that fails, an abort, a deadline, a crash.
Fails(h) ==
    /\ job[h].pc \notin {"new", "done", "failed"}
    /\ Goto(h, "failed")
    /\ UNCHANGED <<doc, World>>

\* mutate: the document is replaced if nobody replaced it since it was read;
\* else it is read again.  The answer may be lost.
Put(h, new, ok, again) ==
    \/ /\ doc.version = job[h].seen
       /\ doc' = [new EXCEPT !.version = doc.version + 1]
       /\ Goto(h, ok) \/ Goto(h, "failed")
    \/ /\ doc.version # job[h].seen
       /\ Goto(h, again)
       /\ UNCHANGED doc

-----------------------------------------------------------------------------
Execute(h) ==
    /\ At(h, "new") /\ h \notin Recoverers
    /\ job' = [job EXCEPT ![h] = [@ EXCEPT !.pc = "claimRead", !.kind = "execute"]]
    /\ UNCHANGED <<doc, World>>

\* claimReceiptExecution
ClaimRead(h) ==
    /\ At(h, "claimRead")
    /\ doc.status = "started" /\ doc.claim = NoHost /\ doc.receipt = NoResponse
    /\ job' = [job EXCEPT ![h] = [@ EXCEPT !.pc = "claimPut", !.seen = doc.version, !.claim = h]]
    /\ UNCHANGED <<doc, World>>

ClaimPut(h) ==
    /\ At(h, "claimPut")
    /\ Put(h, [doc EXCEPT !.claim = h], "post", "claimRead")
    /\ UNCHANGED World

\* The paid call.  A transport that repeats it makes the provider store more
\* than one response; the adapter sees one of them, or none.
Post(h) ==
    /\ At(h, "post")
    /\ posts' = posts + 1
    /\ \E made \in SUBSET {r \in Responses : vendor[r] = NoHost} \ {{}} :
         /\ vendor' = [r \in Responses |-> IF r \in made THEN h ELSE vendor[r]]
         /\ \/ \E r \in made : job' = [job EXCEPT ![h] = [@ EXCEPT !.pc = "captureRead", !.resp = r]]
            \/ Goto(h, "failed")
    /\ UNCHANGED <<doc, need, witnessed>>

\* Mutant: the receipt at hand replaces the one in the document.
CaptureAnyway(h) ==
    /\ At(h, "captureRead")
    /\ doc.claim = job[h].claim /\ doc.status \in Recoverable
    /\ job' = [job EXCEPT ![h] = [@ EXCEPT !.pc = "capturePut", !.seen = doc.version]]
    /\ UNCHANGED <<doc, World>>

Captured(h) == IF job[h].kind = "execute" THEN "done" ELSE "confirm"

\* captureEffectReceipt: the same receipt again changes nothing, another one
\* is a conflict.
CaptureRead(h) ==
    /\ At(h, "captureRead")
    /\ doc.claim = job[h].claim /\ doc.status \in Recoverable
    /\ \/ /\ doc.receipt = NoResponse
          /\ job' = [job EXCEPT ![h] = [@ EXCEPT !.pc = "capturePut", !.seen = doc.version]]
       \/ /\ doc.receipt = job[h].resp
          /\ Goto(h, Captured(h))
    /\ UNCHANGED <<doc, World>>

CapturePut(h) ==
    /\ At(h, "capturePut")
    /\ Put(h, [doc EXCEPT !.receipt = job[h].resp], Captured(h), "captureRead")
    /\ UNCHANGED World

\* finishEffect of the host that executes, or of one that finds the effect
\* left over: the first outcome stands.
Finish(outcome) ==
    /\ doc.status = "started" /\ \E h \in Hosts : job[h].kind = "execute"
    /\ doc' = [doc EXCEPT !.status = outcome, !.version = @ + 1]
    /\ UNCHANGED <<job, World>>

-----------------------------------------------------------------------------
\* recoverUnknownEffect: the claim of the document, its one witnessed response,
\* the provider's copy of it, and the document again.
RecoverUnknown(h) ==
    /\ At(h, "new") /\ h \in Recoverers
    /\ doc.status \in Recoverable /\ doc.claim # NoHost /\ doc.receipt = NoResponse
    /\ job' = [job EXCEPT ![h] = [@ EXCEPT !.pc = "lookup", !.kind = "unknown", !.claim = doc.claim]]
    /\ UNCHANGED <<doc, World>>

Export(r) ==
    /\ vendor[r] # NoHost /\ r \notin witnessed
    /\ witnessed' = witnessed \cup {r}
    /\ UNCHANGED <<doc, need, job, vendor, posts>>

Lookup(h) ==
    LET found == {r \in witnessed : vendor[r] = job[h].claim} IN
    /\ At(h, "lookup") /\ Cardinality(found) = 1
    /\ job' = [job EXCEPT ![h] = [@ EXCEPT !.pc = "get", !.resp = CHOOSE r \in found : TRUE]]
    /\ UNCHANGED <<doc, World>>

RecheckUnknown(h) ==
    /\ At(h, "get") /\ job[h].kind = "unknown"
    /\ doc.status \in Recoverable /\ doc.claim = job[h].claim
    /\ Goto(h, "captureRead")
    /\ UNCHANGED <<doc, World>>

Confirm(h) ==
    /\ At(h, "confirm") /\ doc.status \in Recoverable /\ doc.receipt = job[h].resp
    /\ Goto(h, "done")
    /\ UNCHANGED <<doc, World>>

\* recoverStoredEffect: the receipt, the provider's copy, the document again.
ReadStored(h) ==
    /\ \/ At(h, "new") /\ h \in Recoverers
       \/ At(h, "stored")
    /\ doc.receipt # NoResponse /\ doc.status \in Recoverable
    /\ job' = [job EXCEPT ![h] = [@ EXCEPT !.pc = "get", !.kind = IF At(h, "new") THEN "stored" ELSE @,
                                           !.resp = doc.receipt]]
    /\ UNCHANGED <<doc, World>>

RecheckStored(h) ==
    /\ At(h, "get") /\ job[h].kind \in {"stored", "finalize"}
    /\ doc.status \in Recoverable /\ doc.receipt = job[h].resp
    /\ Goto(h, IF job[h].kind = "stored" THEN "done" ELSE "commit")
    /\ UNCHANGED <<doc, World>>

-----------------------------------------------------------------------------
\* finalize: a NEED a recovery completed is committed again from its own
\* RESULT, an open one with the recovered response.
Finalize(h) ==
    /\ At(h, "new") /\ h \in Recoverers
    /\ \/ /\ need.status = "matched"
          /\ job' = [job EXCEPT ![h] = [@ EXCEPT !.pc = "stored", !.kind = "finalize"]]
       \/ /\ need.status = "completed" /\ need.recovered
          /\ job' = [job EXCEPT ![h] = [@ EXCEPT !.pc = "commit", !.kind = "finalize", !.resp = need.result]]
    /\ UNCHANGED <<doc, World>>

\* commitRecoveredResult: the receipt of the effect, then the NEED's document.
CommitRead(h) ==
    /\ At(h, "commit")
    /\ doc.status \in Recoverable /\ doc.receipt = job[h].resp
    /\ Goto(h, "commitPut")
    /\ UNCHANGED <<doc, World>>

CommitPut(h) ==
    /\ At(h, "commitPut")
    /\ \/ /\ need.status = "matched"
          /\ need' = [status |-> "completed", result |-> job[h].resp, recovered |-> TRUE]
          /\ Goto(h, "done") \/ Goto(h, "failed")
       \/ /\ need.status = "completed" /\ need.recovered /\ need.result = job[h].resp
          /\ Goto(h, "done")
          /\ UNCHANGED need
    /\ UNCHANGED <<doc, vendor, witnessed, posts>>

\* The requester cancels, or the host that executed delivers its RESULT.
Cancel ==
    /\ need.status = "matched"
    /\ need' = [need EXCEPT !.status = "cancelled"]
    /\ UNCHANGED <<doc, job, vendor, witnessed, posts>>

Deliver(h) ==
    /\ At(h, "done") /\ job[h].kind = "execute" /\ need.status = "matched"
    /\ need' = [need EXCEPT !.status = "completed", !.result = job[h].resp]
    /\ UNCHANGED <<doc, job, vendor, witnessed, posts>>

ReceiptsNext ==
    \/ \E h \in Hosts :
         \/ Fails(h) \/ Execute(h) \/ ClaimRead(h) \/ ClaimPut(h) \/ Post(h) \/ CaptureRead(h) \/ CapturePut(h)
         \/ RecoverUnknown(h) \/ Lookup(h) \/ RecheckUnknown(h) \/ Confirm(h)
         \/ ReadStored(h) \/ RecheckStored(h) \/ Finalize(h) \/ CommitRead(h) \/ CommitPut(h) \/ Deliver(h)
    \/ \E r \in Responses : Export(r)
    \/ \E o \in {"completed", "failed", "unknown"} : Finish(o)
    \/ Cancel

ReceiptsSpec == ReceiptsInit /\ [][ReceiptsNext]_receiptVars

-----------------------------------------------------------------------------
\* The shape of the documents and jobs.
ReceiptsTypeOK ==
    /\ doc.version \in 1..4 /\ doc.status \in Recoverable \cup {"failed"}
    /\ doc.claim \in Hosts \cup {NoHost} /\ doc.receipt \in Responses \cup {NoResponse}
    /\ need.status \in {"matched", "completed", "cancelled"}
    /\ witnessed \subseteq Responses
    /\ \A h \in Hosts : job[h].seen \in 0..4 /\ job[h].resp \in Responses \cup {NoResponse}

\* Whatever hosts claim, lose answers, die and recover side by side: the NEED
\* is paid for once; the receipt is a response to that call; and everyone who
\* was given a response, the requester whose NEED was completed included, was
\* given the one the receipt names, then and ever after.
PaidOnceAndBound ==
    /\ posts <= 1
    /\ doc.receipt # NoResponse => vendor[doc.receipt] = doc.claim
    /\ \A h \in Hosts : At(h, "done") => job[h].resp = doc.receipt
    /\ need.status = "completed" => need.result = doc.receipt
=============================================================================
