--------------------------- MODULE EvidenceParts ---------------------------
(***************************************************************************)
(* The files of the evidence (Attachments), with every constant left open. *)
(* A behaviour belongs to one part, chosen by its first state: an instance *)
(* of Attachments with the constants that FileParts has for the part.      *)
(***************************************************************************)
EXTENDS Integers, FiniteSets

CONSTANTS FileParts,   \* part |-> the constants of Attachments
          Void         \* no row, no file and no id

VARIABLES shelf,       \* the part
          owners, docs, disk, uploads, deletes, reads, work, sealing, known, audited, served, times

FileAssumption(c) ==
    /\ IsFiniteSet(c.items) /\ Void \notin c.items
    /\ Void \notin [owner : c.assets \cup c.relationships, kind : {"file", "link"}, encrypted : BOOLEAN]

ASSUME EvidenceAssumption ==
    /\ Void \notin [whole : BOOLEAN, depth : Nat]
    /\ \A p \in DOMAIN FileParts : FileAssumption(FileParts[p])

Shelf(p) == INSTANCE Attachments WITH
  Items <- FileParts[p].items, Assets <- FileParts[p].assets,
  Relationships <- FileParts[p].relationships, Ends <- FileParts[p].ends,
  Readers <- FileParts[p].readers, Deleters <- FileParts[p].deleters, Workers <- FileParts[p].workers,
  MaxDeletes <- FileParts[p].most[1], MaxChanges <- FileParts[p].most[2],
  MaxRotations <- FileParts[p].most[3], MaxCrashes <- FileParts[p].most[4],
  None <- Void, rows <- docs, jobs <- work, posture <- sealing, count <- times

FileVars == <<owners, docs, disk, uploads, deletes, reads, work, sealing, known, audited, served, times>>

FileInit == \E p \in DOMAIN FileParts : shelf = p /\ Shelf(p)!Init
FileNext == UNCHANGED shelf /\ \E p \in DOMAIN FileParts : shelf = p /\ Shelf(p)!Next
FileSpec == FileInit /\ [][FileNext]_<<shelf, FileVars>>

-----------------------------------------------------------------------------
\* Files and rows that agree, downloads that are whole, and what the log has of
\* them (Attachments).
FilesHold == \A p \in DOMAIN FileParts : shelf = p => Shelf(p)!AttachmentsHold
=============================================================================
