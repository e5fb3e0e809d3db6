--------------------------- MODULE AssetMetadata ----------------------------
(***************************************************************************)
(* The metadata of one asset, a JSON blob in its row, and everybody who      *)
(* writes it: the ticket of a finding (ticketing_service.push_finding and    *)
(* sync_ticket_statuses), its closing (findings_service), the tests of a     *)
(* control (control_test_service), the bulk edits of a register and of the   *)
(* risks, the edit form, the API and the connectors.                         *)
(*                                                                           *)
(* There are three ways to write.  Some statements merge a few keys into     *)
(* what is there (||); some post a blob of their own; and some read the      *)
(* blob, change a few keys in Python and write the whole of it back without  *)
(* a lock, which brings back what others have changed in between.            *)
(***************************************************************************)
EXTENDS Integers, Sequences, FiniteSets

CONSTANTS
    Keys,       \* of the blob; those below are the ones the code names
    Editable,   \* the keys that forms and bulk edits set
    Blobs,      \* what the API and the connectors post: functions on Keys
    Kinds,      \* the requests that arrive
    Handlers,   \* the requests in progress
    MaxSteps,   \* bound of the writes
    MaxCrash,
    None

VARIABLES
    meta,       \* the blob: key |-> value, None when absent
    exists,     \* the row is there
    req,        \* handler |-> its request
    tickets,    \* the tickets created in the other system
    runs,       \* control_test_runs: began, ended and result, in commit order
    writes,     \* writes and test runs so far; the clock
    crashes,
    ideal,      \* ghost: key |-> what was last written to it on purpose
    stale,      \* ghost: the keys that a whole blob may have put back
    unheard,    \* ghost: tickets created whose answer was lost
    erased      \* ghost: times somebody else's write removed a ticket or a claim

vars == <<meta, exists, req, tickets, runs, writes, crashes, ideal, stale, unheard, erased>>

TicketKeys == {"external_ticket", "external_ticket_status"} \cap Keys
Idle == [kind |-> None]

Init ==
    /\ meta = [k \in Keys |-> None] /\ ideal = meta
    /\ exists = TRUE
    /\ req = [h \in Handlers |-> Idle]
    /\ tickets = 0 /\ runs = <<>> /\ writes = 0 /\ crashes = 0
    /\ stale = {} /\ unheard = 0 /\ erased = 0

Arrived(h, kind) == kind \in Kinds /\ req[h] = Idle
At(h, kind, pc) == req[h].kind = kind /\ req[h].pc = pc

\* Reads the blob; `touched` gathers the keys others write after that.
Begin(h, kind) ==
    /\ Arrived(h, kind) /\ exists
    /\ req' = [req EXCEPT ![h] = [kind |-> kind, pc |-> "read", read |-> meta,
                                  touched |-> {}, began |-> writes]]
Done(h) == [req EXCEPT ![h] = Idle]

Linked(blob) == "external_ticket" \in Keys /\ blob["external_ticket"] # None
Claimed(blob) == "external_ticket_status" \in Keys /\ blob["external_ticket_status"] = "creating"

\* One UPDATE that leaves the blob `new`, meant for `keys`: what a request that
\* comes back to `then` writes.  Of an asset that is gone it updates no row.
Write(h, keys, new, then) ==
    /\ writes < MaxSteps
    /\ writes' = writes + 1
    /\ meta' = IF exists THEN new ELSE meta
    /\ ideal' = [k \in Keys |-> IF exists /\ k \in keys THEN new[k] ELSE ideal[k]]
    /\ req' = [g \in Handlers |-> IF g = h THEN then
                                  ELSE IF req[g] = Idle THEN Idle
                                  ELSE [req[g] EXCEPT !.touched = @ \cup keys]]

\* ... SET metadata = metadata || the keys: nothing else can change
Merge(h, keys, value, then) ==
    /\ Write(h, keys, [k \in Keys |-> IF k \in keys THEN value[k] ELSE meta[k]], then)
    /\ stale' = stale \ keys

\* ... SET metadata = the blob read, with the keys changed
WriteBack(h, keys, value) ==
    /\ Write(h, keys, [k \in Keys |-> IF k \in keys THEN value[k] ELSE req[h].read[k]], Idle)
    /\ stale' = (stale \cup req[h].touched) \ keys
    /\ erased' = erased + IF exists /\ ((Linked(meta) /\ ~Linked(meta')) \/
                                        (Claimed(meta) /\ ~Claimed(meta') /\ ~Linked(meta')))
                          THEN 1 ELSE 0

Refuse(h) ==
    /\ req' = Done(h)
    /\ UNCHANGED <<meta, exists, tickets, runs, writes, crashes, ideal, stale, unheard, erased>>

Rest == UNCHANGED <<exists, tickets, runs, crashes, unheard>>

-----------------------------------------------------------------------------
(* push_finding *)

PushRead(h) ==
    /\ Begin(h, "push") /\ ~Linked(meta)
    /\ UNCHANGED <<meta, exists, tickets, runs, writes, crashes, ideal, stale, unheard, erased>>

\* mutant: the claim asks only whether there is a ticket
Claim_Unclaimed(h) ==
    /\ At(h, "push", "read") /\ exists /\ ~Linked(meta)
    /\ Merge(h, {"external_ticket_status"}, [k \in Keys |-> "creating"], [req[h] EXCEPT !.pc = "claimed"])
    /\ Rest /\ UNCHANGED erased

\* The conditional UPDATE: no ticket, and nobody creating one.
Claim(h) ==
    /\ At(h, "push", "read") /\ exists /\ ~Linked(meta) /\ ~Claimed(meta)
    /\ Merge(h, {"external_ticket_status"}, [k \in Keys |-> "creating"], [req[h] EXCEPT !.pc = "claimed"])
    /\ Rest /\ UNCHANGED erased

ClaimRefused(h) ==
    /\ At(h, "push", "read") /\ (~exists \/ Linked(meta) \/ Claimed(meta))
    /\ Refuse(h)

\* client.post: created and heard, created and not heard (a timeout, a body
\* without the key), or not created.
Post(h) ==
    /\ At(h, "push", "claimed")
    /\ \E made, heard \in BOOLEAN :
         /\ heard => made
         /\ tickets' = tickets + IF made THEN 1 ELSE 0
         /\ unheard' = unheard + IF made /\ ~heard THEN 1 ELSE 0
         /\ req' = [req EXCEPT ![h].pc = IF heard THEN "created" ELSE "failed"]
    /\ UNCHANGED <<meta, exists, runs, writes, crashes, ideal, stale, erased>>

Stamped(blob) == [k \in Keys |-> IF k = "external_ticket" THEN "T"
                                 ELSE IF k = "external_ticket_status" THEN "created" ELSE blob[k]]

\* mutant: the stamp goes into the blob that was read before the call
Stamp_IntoRead(h) ==
    /\ At(h, "push", "created")
    /\ Write(h, TicketKeys, Stamped(req[h].read), Idle)
    /\ stale' = stale \ TicketKeys
    /\ Rest /\ UNCHANGED erased

Stamp(h) ==
    /\ At(h, "push", "created")
    /\ Merge(h, TicketKeys, Stamped(meta), Idle)
    /\ Rest /\ UNCHANGED erased

\* _release: metadata - 'external_ticket_status', while there is no ticket
Release(h) ==
    /\ At(h, "push", "failed")
    /\ IF ~Linked(meta)
       THEN Merge(h, {"external_ticket_status"}, [k \in Keys |-> None], Idle) /\ Rest /\ UNCHANGED erased
       ELSE Refuse(h)

-----------------------------------------------------------------------------
(* Those who write the whole blob back *)

ReadBlob(h, kind) ==
    /\ Begin(h, kind)
    /\ UNCHANGED <<meta, exists, tickets, runs, writes, crashes, ideal, stale, unheard, erased>>

\* sync_ticket_statuses: of each finding linked to the ticket; only a status
\* that _STATUS_MAP knows moves finding_status
TicketsRead(h) == Linked(meta) /\ ReadBlob(h, "tickets")
TicketsWrite(h) ==
    /\ At(h, "tickets", "read")
    /\ \/ WriteBack(h, {"external_ticket_status", "finding_status"},
                    [k \in Keys |-> IF k = "finding_status" THEN "remediated" ELSE "Done"])
       \/ WriteBack(h, {"external_ticket_status"}, [k \in Keys |-> "Triage"])
    /\ Rest

\* close_finding, which wants a corrective action plan (the verifier is a name
\* that is not the owner's)
CloseRead(h) == Arrived(h, "close") /\ meta["corrective_action_plan"] # None /\ ReadBlob(h, "close")
CloseWrite(h) ==
    /\ At(h, "close", "read")
    /\ WriteBack(h, {"finding_status", "verified_by"}, [k \in Keys |-> "closed"])
    /\ Rest

\* bulk_update_assets; the page's gated path reads and merges just so, and an
\* approver applies the blob later
BulkRead(h) == ReadBlob(h, "bulk")
BulkWrite(h) ==
    /\ At(h, "bulk", "read")
    /\ \E k \in Editable : WriteBack(h, {k}, [j \in Keys |-> "bulk"])
    /\ Rest

\* The edit form: the page is rendered, then all the fields it declares are
\* posted and replace the blob.
FormRead(h) == ReadBlob(h, "form")
FormWrite(h) ==
    /\ At(h, "form", "read")
    /\ \E k \in Editable : WriteBack(h, {k}, [j \in Keys |-> "form"])
    /\ Rest

\* record_test_run, in one transaction: run_at is the time it began.
\* mutant: only a failure lowers the effectiveness
RecordTest_FailuresOnly(h) ==
    /\ At(h, "test", "read")
    /\ \E result \in {"pass", "fail"} :
         /\ IF result = "fail" THEN WriteBack(h, {"effectiveness"}, [k \in Keys |-> result])
            ELSE WriteBack(h, {}, [k \in Keys |-> result])
         /\ runs' = IF exists THEN Append(runs, [began |-> req[h].began, ended |-> writes, result |-> result])
                    ELSE runs
    /\ UNCHANGED <<exists, tickets, crashes, unheard>>

TestRead(h) == ReadBlob(h, "test")
RecordTest(h) ==
    /\ At(h, "test", "read")
    /\ \E result \in {"pass", "fail"} :
         /\ WriteBack(h, {"effectiveness"}, [k \in Keys |-> result])
         /\ runs' = IF exists THEN Append(runs, [began |-> req[h].began, ended |-> writes, result |-> result])
                    ELSE runs
    /\ UNCHANGED <<exists, tickets, crashes, unheard>>

-----------------------------------------------------------------------------
(* Those who merge, and those who post a blob of their own *)

\* bulk_update_risks: a server-side merge
BulkRisks(h) ==
    /\ Arrived(h, "risks") /\ exists
    /\ \E k \in Editable : Merge(h, {k}, [j \in Keys |-> "risks"], Idle)
    /\ Rest /\ UNCHANGED erased

\* PUT /api/assets with metadata, or a connector's upsert: the blob is theirs.
Replace(h) ==
    /\ Arrived(h, "replace") /\ exists
    /\ \E blob \in Blobs :
         /\ Write(h, Keys, blob, Idle)
         /\ erased' = erased + IF (Linked(meta) /\ ~Linked(blob)) \/ (Claimed(meta) /\ ~Claimed(blob))
                               THEN 1 ELSE 0
    /\ stale' = {}
    /\ Rest

Delete(h) ==
    /\ Arrived(h, "delete") /\ exists
    /\ exists' = FALSE
    /\ UNCHANGED <<meta, req, tickets, runs, writes, crashes, ideal, stale, unheard, erased>>

\* The worker dies.  A claim it held stays.
Crash(h) ==
    /\ crashes < MaxCrash /\ req[h] # Idle
    /\ crashes' = crashes + 1
    /\ req' = Done(h)
    /\ unheard' = unheard + IF At(h, "push", "created") THEN 1 ELSE 0
    /\ UNCHANGED <<meta, exists, tickets, runs, writes, ideal, stale, erased>>

Next == \E h \in Handlers :
    \/ PushRead(h) \/ Claim(h) \/ ClaimRefused(h) \/ Post(h) \/ Stamp(h) \/ Release(h)
    \/ TicketsRead(h) \/ TicketsWrite(h) \/ CloseRead(h) \/ CloseWrite(h)
    \/ BulkRead(h) \/ BulkWrite(h) \/ FormRead(h) \/ FormWrite(h)
    \/ TestRead(h) \/ RecordTest(h)
    \/ BulkRisks(h) \/ Replace(h) \/ Delete(h) \/ Crash(h)

Spec == Init /\ [][Next]_vars

-----------------------------------------------------------------------------
(* Properties *)

TypeOK ==
    /\ DOMAIN meta = Keys /\ DOMAIN ideal = Keys /\ stale \subseteq Keys
    /\ exists \in BOOLEAN /\ tickets \in Nat /\ unheard \in 0..tickets /\ erased \in Nat
    /\ writes \in 0..MaxSteps /\ crashes \in 0..MaxCrash
    /\ \A h \in Handlers : req[h] = Idle \/ req[h].pc \in {"read", "claimed", "created", "failed"}

\* However many ask at once and whatever else is written, a finding has a second
\* ticket only where an answer was lost or somebody's blob removed the first.
TicketOnce == tickets <= 1 + unheard + erased

\* A claim is that of a push in progress, unless its worker died, an old blob put
\* back what there was or somebody posted it: every way out of the call gives it up.
ClaimHeld ==
    exists /\ Claimed(meta) /\ ~Linked(meta) =>
        \/ \E h \in Handlers : req[h].kind = "push" /\ req[h].pc \in {"claimed", "created", "failed"}
        \/ crashes > 0 \/ TicketKeys \cap stale # {} \/ \E b \in Blobs : Claimed(b)

\* A key has the value that was last written to it on purpose, but for those that
\* a blob read before that and written after it has put back: neither a claim,
\* a stamp, a release nor a bulk edit of risks reverts anything.
EditsKept == exists => \A k \in Keys \ stale : meta[k] = ideal[k]

\* The effectiveness of a control is the result of a test that none followed:
\* "the latest run", where that is the only order there is.  Or it was posted.
LatestTest ==
    exists /\ "effectiveness" \in Keys \ (stale \cup Editable) /\ runs # <<>> =>
        \/ \E i \in DOMAIN runs : /\ meta["effectiveness"] = runs[i].result
                                 /\ \A j \in DOMAIN runs : runs[j].began <= runs[i].ended
        \/ \E b \in Blobs : meta["effectiveness"] = b["effectiveness"]

TicketsHold == TypeOK /\ TicketOnce /\ ClaimHeld
BlobHolds == EditsKept /\ LatestTest
=============================================================================
