--------------------------- MODULE MetadataParts ---------------------------
(***************************************************************************)
(* Requests that rewrite the blob of one asset (AssetMetadata), with every *)
(* constant left open.  A behaviour belongs to one part, chosen by its     *)
(* first state: an instance of AssetMetadata with the constants that       *)
(* BlobParts has for the part.                                             *)
(***************************************************************************)
EXTENDS Integers, Sequences, FiniteSets

CONSTANTS BlobParts,   \* part |-> the constants of AssetMetadata
          None

VARIABLES part, meta, exists, req, tickets, runs, writes, crashes, ideal, stale, unheard, erased

\* The keys that a kind of request writes or asks for by name.
Named == [push |-> {"external_ticket", "external_ticket_status"},
          tickets |-> {"external_ticket_status", "finding_status"},
          close |-> {"corrective_action_plan", "finding_status", "verified_by"},
          test |-> {"effectiveness"}]

\* Any blob may have them; bulk_update_risks sets fields of a risk, which no
\* ticket is about.
BlobAssumption(c) ==
    /\ IsFiniteSet(c.handlers) /\ c.steps \in Nat /\ c.deaths \in Nat
    /\ c.editable \subseteq c.keys
    /\ \A kind \in c.kinds \cap DOMAIN Named : Named[kind] \subseteq c.keys
    /\ \A b \in c.blobs : b \in [c.keys -> {b[k] : k \in c.keys}]
    /\ "risks" \in c.kinds => "external_ticket_status" \notin c.editable

\* What requests put into a blob, and the kinds of those that read one first.
Texts == {"T", "creating", "created", "remediated", "Done", "Triage", "closed",
          "bulk", "form", "pass", "fail", "risks"}
Rewriters == {"push", "tickets", "close", "bulk", "form", "test"}

ASSUME MetadataAssumption ==
    /\ None \notin Texts \cup Rewriters
    /\ \A p \in DOMAIN BlobParts : BlobAssumption(BlobParts[p])

Blob(p) == INSTANCE AssetMetadata WITH
  Keys <- BlobParts[p].keys, Editable <- BlobParts[p].editable, Blobs <- BlobParts[p].blobs,
  Kinds <- BlobParts[p].kinds, Handlers <- BlobParts[p].handlers,
  MaxSteps <- BlobParts[p].steps, MaxCrash <- BlobParts[p].deaths

BlobVars == <<meta, exists, req, tickets, runs, writes, crashes, ideal, stale, unheard, erased>>

BlobInit == \E p \in DOMAIN BlobParts : part = p /\ Blob(p)!Init
BlobNext == UNCHANGED part /\ \E p \in DOMAIN BlobParts : part = p /\ Blob(p)!Next
BlobSpec == BlobInit /\ [][BlobNext]_<<part, BlobVars>>

-----------------------------------------------------------------------------
\* One ticket for a finding, the edits that must stay, the latest test
\* (AssetMetadata).
BlobsHold == \A p \in DOMAIN BlobParts : part = p => Blob(p)!TicketsHold /\ Blob(p)!BlobHolds
=============================================================================
