---------------------------- MODULE Attachments ----------------------------
(***************************************************************************)
(* Evidence files: an upload writes the file and then the row that points  *)
(* at it (routers/attachments.py, relationship_pages.py, attachment.py); a *)
(* change of the posture and a key rotation rewrite the files in place,    *)
(* each in a process of its own (encryption_migrate.py); downloads read    *)
(* the row, then the file.  Nothing ties the two stores together.          *)
(***************************************************************************)
EXTENDS Integers, FiniteSets

CONSTANTS
    Items,        \* attachments: the id of the row and the name of its file
    Assets, Relationships,
    Ends,         \* relationship |-> the assets it joins
    Readers, Deleters, Workers,
    MaxDeletes, MaxChanges, MaxRotations, MaxCrashes,   \* bounds
    None

VARIABLES
    owners,    \* the owners that exist
    rows,      \* the attachments table: item |-> [owner, kind, encrypted], or None
    disk,      \* item |-> its file [whole, depth], or None
    uploads,   \* item |-> the request that creates it
    deletes,   \* deleter |-> the request that removes an item
    reads,     \* reader |-> the download it answers
    jobs,      \* worker |-> the migration or the rotation it runs
    posture,   \* is the scope file_contents active
    known,     \* the postures some process still believes in
    audited,   \* audit_log: item |-> the entries of its creation and, by route, its deletion
    served,    \* history: what the downloads gave that no rewrite had overtaken
    count      \* how often each bounded thing has happened

vars == <<owners, rows, disk, uploads, deletes, reads, jobs, posture, known, audited, served, count>>

-----------------------------------------------------------------------------
\* The bytes of a file: all of them or none, encrypted so many times.
Plain == [whole |-> TRUE, depth |-> 0]
Empty == [whole |-> FALSE, depth |-> 0]
Encrypt(file) == [file EXCEPT !.depth = @ + 1]

\* decrypt_bytes raises for what is no ciphertext.
Deciphers(file) == file.depth > 0
Decrypt(file) == [file EXCEPT !.depth = @ - 1]

NoUpload == [pc |-> "none", owner |-> None, kind |-> None, route |-> None, encrypted |-> FALSE]
NoDelete == [pc |-> "idle", item |-> None, route |-> None]
NoRead == [pc |-> "idle", item |-> None, encrypted |-> FALSE, overtaken |-> FALSE]
NoJob == [pc |-> "idle", kind |-> None, todo |-> {}, item |-> None, data |-> None]

Init ==
    /\ owners = Assets \cup Relationships
    /\ rows = [i \in Items |-> None] /\ disk = [i \in Items |-> None]
    /\ uploads = [i \in Items |-> NoUpload]
    /\ deletes = [d \in Deleters |-> NoDelete]
    /\ reads = [r \in Readers |-> NoRead]
    /\ jobs = [w \in Workers |-> NoJob]
    /\ posture \in BOOLEAN /\ known = {posture}
    /\ audited = [i \in Items |-> [created |-> 0, api |-> 0, form |-> 0]]
    /\ served = {}
    /\ count = [deletes |-> 0, changes |-> 0, rotations |-> 0, crashes |-> 0, overlaps |-> 0]

Bounded(c, max) == count[c] < max /\ count' = [count EXCEPT ![c] = @ + 1]

-----------------------------------------------------------------------------
(* Uploads *)

NewUpload(o, kind, route, encrypted) ==
    [pc |-> "check", owner |-> o, kind |-> kind, route |-> route, encrypted |-> encrypted]

\* _read_upload, _write_upload: the bytes, encrypted as the posture of this
\* process asks, are on disk before there is a row.
Upload(i, o, route) ==
    /\ uploads[i].pc = "none"
    /\ \E encrypted \in known :
         /\ uploads' = [uploads EXCEPT ![i] = NewUpload(o, "file", route, encrypted)]
         /\ disk' = [disk EXCEPT ![i] = IF encrypted THEN Encrypt(Plain) ELSE Plain]
    /\ UNCHANGED <<owners, rows, deletes, reads, jobs, posture, known, audited, served, count>>

UploadFile(i) == \E o \in Assets : Upload(i, o, "api")
UploadRelFile(i) == \E o \in Relationships : Upload(i, o, "api")
EvidenceUpload(i) == \E o \in Relationships : Upload(i, o, "form")

\* A link has no file; _reject_file_kind leaves those to the uploads.
Post(i, o) ==
    /\ uploads[i].pc = "none"
    /\ uploads' = [uploads EXCEPT ![i] = NewUpload(o, "link", "api", FALSE)]
    /\ UNCHANGED <<owners, rows, disk, deletes, reads, jobs, posture, known, audited, served, count>>

CreateAttachment(i) == \E o \in Assets : Post(i, o)
CreateRelAttachment(i) == \E o \in Relationships : Post(i, o)

\* The API removes the file of an attachment it could not create; the form of
\* the evidence page has no such handler.
Refuse(i) ==
    /\ uploads' = [uploads EXCEPT ![i].pc = "failed"]
    /\ disk' = IF uploads[i].route = "api" THEN [disk EXCEPT ![i] = None] ELSE disk
    /\ UNCHANGED rows

\* create_attachment reads the organization of the owner.
CheckOwner(i) ==
    /\ uploads[i].pc = "check"
    /\ IF uploads[i].owner \in owners
       THEN uploads' = [uploads EXCEPT ![i].pc = "insert"] /\ UNCHANGED <<rows, disk>>
       ELSE Refuse(i)
    /\ UNCHANGED <<owners, deletes, reads, jobs, posture, known, audited, served, count>>

\* mutant: the row says what the posture is by now
InsertRow_Posture(i) ==
    LET u == uploads[i] IN
    /\ u.pc = "insert"
    /\ IF u.owner \in owners
       THEN /\ rows' = [rows EXCEPT ![i] =
                  [owner |-> u.owner, kind |-> u.kind, encrypted |-> u.kind = "file" /\ posture]]
            /\ uploads' = [uploads EXCEPT ![i].pc = "audit"]
            /\ UNCHANGED disk
       ELSE Refuse(i)
    /\ UNCHANGED <<owners, deletes, reads, jobs, posture, known, audited, served, count>>

\* The INSERT fails on its foreign key if the owner has been deleted since.
InsertRow(i) ==
    LET u == uploads[i] IN
    /\ u.pc = "insert"
    /\ IF u.owner \in owners
       THEN /\ rows' = [rows EXCEPT ![i] = [owner |-> u.owner, kind |-> u.kind, encrypted |-> u.encrypted]]
            /\ uploads' = [uploads EXCEPT ![i].pc = "audit"]
            /\ UNCHANGED disk
       ELSE Refuse(i)
    /\ UNCHANGED <<owners, deletes, reads, jobs, posture, known, audited, served, count>>

AuditCreate(i) ==
    /\ uploads[i].pc = "audit"
    /\ audited' = [audited EXCEPT ![i].created = @ + 1]
    /\ uploads' = [uploads EXCEPT ![i].pc = "done"]
    /\ UNCHANGED <<owners, rows, disk, deletes, reads, jobs, posture, known, served, count>>

-----------------------------------------------------------------------------
(* Deletions: of an owner, with its attachments, or of one attachment.  The  *)
(* file stays.                                                               *)

DeleteOwner(o) ==
    LET gone == {o} \cup {r \in Relationships : o \in Ends[r]} IN
    /\ o \in owners
    /\ owners' = owners \ gone
    /\ rows' = [i \in Items |-> IF rows[i] # None /\ (rows[i] # None => rows[i].owner \in gone)
                                THEN None ELSE rows[i]]
    /\ UNCHANGED <<disk, uploads, deletes, reads, jobs, posture, known, audited, served, count>>

\* The row is read by its id, and must hang off the owner in the path.
Find(d, under, route) ==
    /\ deletes[d].pc = "idle"
    /\ Bounded("deletes", MaxDeletes)
    /\ \E i \in Items :
         /\ rows[i] # None /\ (rows[i] # None => rows[i].owner \in under)
         /\ deletes' = [deletes EXCEPT ![d] = [pc |-> "found", item |-> i, route |-> route]]
    /\ UNCHANGED <<owners, rows, disk, uploads, reads, jobs, posture, known, audited, served>>

DeleteAttachment(d) == Find(d, Assets, "api")
DeleteRelAttachment(d) == Find(d, Relationships, "api")
EvidenceDelete(d) == Find(d, Relationships, "form")

\* mutant: two deletions of one row are both told
DeleteRow_Twice(d) ==
    /\ deletes[d].pc = "found"
    /\ rows' = [rows EXCEPT ![deletes[d].item] = None]
    /\ deletes' = [deletes EXCEPT ![d].pc = "audit"]
    /\ UNCHANGED <<owners, disk, uploads, reads, jobs, posture, known, audited, served, count>>

\* The API answers 404 when the row was gone; the form goes on.  The DELETE is
\* committed; the log is another statement.
DeleteRow(d) ==
    LET i == deletes[d].item IN
    /\ deletes[d].pc = "found"
    /\ rows' = [rows EXCEPT ![i] = None]
    /\ deletes' = [deletes EXCEPT ![d] =
           IF rows[i] = None /\ @.route = "api" THEN NoDelete ELSE [@ EXCEPT !.pc = "audit"]]
    /\ UNCHANGED <<owners, disk, uploads, reads, jobs, posture, known, audited, served, count>>

AuditDelete(d) ==
    /\ deletes[d].pc = "audit"
    /\ audited' = [audited EXCEPT ![deletes[d].item][deletes[d].route] = @ + 1]
    /\ deletes' = [deletes EXCEPT ![d] = NoDelete]
    /\ UNCHANGED <<owners, rows, disk, uploads, reads, jobs, posture, known, served, count>>

-----------------------------------------------------------------------------
(* Downloads *)

\* A job has touched the file and not yet the row.
Rewriting(i) == \E w \in Workers : jobs[w].item = i /\ jobs[w].pc \in {"write", "mark"}

\* get_attachment, under the owner in the path; a link is no file.
ReadRow(r, under) ==
    /\ reads[r].pc = "idle"
    /\ \E i \in Items :
         /\ rows[i] # None /\ (rows[i] # None => rows[i].kind = "file" /\ rows[i].owner \in under)
         /\ reads' = [reads EXCEPT ![r] =
                [pc |-> "open", item |-> i, encrypted |-> rows[i].encrypted, overtaken |-> Rewriting(i)]]
    /\ UNCHANGED <<owners, rows, disk, uploads, deletes, jobs, posture, known, audited, served, count>>

DownloadFile(r) == ReadRow(r, Assets)
DownloadRelFile(r) == ReadRow(r, Relationships)

\* _collect_evidence: each file of an asset as a download gives it.
CollectEvidence(r) == ReadRow(r, Assets)

\* What a download gives: the decrypted file, the file, or an error.
Served(file, encrypted) ==
    IF ~encrypted THEN file ELSE IF Deciphers(file) THEN Decrypt(file) ELSE None

\* The rest of a download has no await before the bytes are there.
ServeFile(r) ==
    LET read == reads[r] IN
    /\ read.pc = "open"
    /\ served' = IF read.overtaken THEN served
                 ELSE served \cup {<<read.item, Served(disk[read.item], read.encrypted)>>}
    /\ reads' = [reads EXCEPT ![r] = NoRead]
    /\ UNCHANGED <<owners, rows, disk, uploads, deletes, jobs, posture, known, audited, count>>

-----------------------------------------------------------------------------
(* Jobs over the files *)

\* The rows as they are now; a rotation takes those that are encrypted.
Start(w, kind) ==
    /\ jobs' = [jobs EXCEPT ![w] =
           [NoJob EXCEPT !.pc = "next", !.kind = kind,
                !.todo = {i \in Items : /\ rows[i] # None
                                        /\ rows[i] # None => /\ rows[i].kind = "file"
                                                             /\ rows[i].encrypted = (kind # "encrypt")}]]
    /\ UNCHANGED <<owners, rows, disk, uploads, deletes, reads, audited, served>>

Overlapping(w) == IF \E v \in Workers \ {w} : jobs[v].pc # "idle" THEN 1 ELSE 0

\* The form of the administrator; what changes is judged by a remembered posture.
Submit(w) ==
    /\ jobs[w].pc = "idle"
    /\ count["changes"] < MaxChanges
    /\ \E on \in BOOLEAN, seen \in known :
         /\ posture' = on /\ known' = known \cup {on}
         /\ IF on = seen
            THEN /\ count' = [count EXCEPT !.changes = @ + 1]
                 /\ UNCHANGED <<owners, rows, disk, uploads, deletes, reads, jobs, audited, served>>
            ELSE /\ count' = [count EXCEPT !.changes = @ + 1, !.overlaps = @ + Overlapping(w)]
                 /\ Start(w, IF on THEN "encrypt" ELSE "decrypt")

\* "grcen rotate-keys"
Rotate(w) ==
    /\ jobs[w].pc = "idle"
    /\ posture
    /\ count["rotations"] < MaxRotations
    /\ count' = [count EXCEPT !.rotations = @ + 1, !.overlaps = @ + Overlapping(w)]
    /\ Start(w, "rotate")
    /\ UNCHANGED <<posture, known>>

\* The caches of the posture run out.
Forget ==
    /\ known # {posture}
    /\ known' = {posture}
    /\ UNCHANGED <<owners, rows, disk, uploads, deletes, reads, jobs, posture, audited, served, count>>

End(w) == jobs' = [jobs EXCEPT ![w] = NoJob]

\* _migrate_files, _rotate_files: the next file is read and turned over in
\* memory, and opening it for writing empties it.  What does not decipher
\* ends the job.
Turned(kind, file) ==
    CASE kind = "encrypt" -> Encrypt(file)
      [] kind = "decrypt" -> Decrypt(file)
      [] kind = "rotate" -> Encrypt(Decrypt(file))

TakeFile(w) ==
    LET job == jobs[w] IN
    /\ job.pc = "next"
    /\ \E i \in job.todo :
         IF job.kind # "encrypt" /\ ~Deciphers(disk[i])
         THEN End(w) /\ UNCHANGED <<disk, reads>>
         ELSE /\ jobs' = [jobs EXCEPT ![w] = [job EXCEPT !.pc = "write", !.todo = @ \ {i}, !.item = i,
                                                         !.data = Turned(job.kind, disk[i])]]
              /\ disk' = [disk EXCEPT ![i] = Empty]
              /\ reads' = [r \in Readers |-> [reads[r] EXCEPT !.overtaken = @ \/ reads[r].item = i]]
    /\ UNCHANGED <<owners, rows, uploads, deletes, posture, known, audited, served, count>>

WriteFile(w) ==
    LET job == jobs[w] IN
    /\ job.pc = "write"
    /\ disk' = [disk EXCEPT ![job.item] = job.data]
    /\ jobs' = [jobs EXCEPT ![w] = [job EXCEPT !.pc = IF job.kind = "rotate" THEN "next" ELSE "mark",
                                               !.item = IF job.kind = "rotate" THEN None ELSE @,
                                               !.data = None]]
    /\ UNCHANGED <<owners, rows, uploads, deletes, reads, posture, known, audited, served, count>>

\* UPDATE attachments SET encrypted: nothing, if the row is gone.
MarkRow(w) ==
    LET job == jobs[w] IN
    /\ job.pc = "mark"
    /\ rows' = IF rows[job.item] = None THEN rows
               ELSE [rows EXCEPT ![job.item].encrypted = job.kind = "encrypt"]
    /\ jobs' = [jobs EXCEPT ![w].pc = "next", ![w].item = None]
    /\ UNCHANGED <<owners, disk, uploads, deletes, reads, posture, known, audited, served, count>>

EndJob(w) ==
    /\ jobs[w].pc = "next" /\ jobs[w].todo = {}
    /\ End(w)
    /\ UNCHANGED <<owners, rows, disk, uploads, deletes, reads, posture, known, audited, served, count>>

\* A process that dies leaves what it has written.
CrashJob(w) ==
    /\ jobs[w].pc \in {"write", "mark"}
    /\ Bounded("crashes", MaxCrashes)
    /\ End(w)
    /\ UNCHANGED <<owners, rows, disk, uploads, deletes, reads, posture, known, audited, served>>

CrashUpload(i) ==
    /\ uploads[i].pc \in {"check", "insert", "audit"}
    /\ Bounded("crashes", MaxCrashes)
    /\ uploads' = [uploads EXCEPT ![i].pc = "died"]
    /\ UNCHANGED <<owners, rows, disk, deletes, reads, jobs, posture, known, audited, served>>

\* The row is gone for good and nothing has told of it.  (One that dies before
\* its DELETE has done nothing.)
CrashDelete(d) ==
    /\ deletes[d].pc = "audit"
    /\ Bounded("crashes", MaxCrashes)
    /\ deletes' = [deletes EXCEPT ![d].pc = "died"]
    /\ UNCHANGED <<owners, rows, disk, uploads, reads, jobs, posture, known, audited, served>>

-----------------------------------------------------------------------------
Next ==
    \/ \E i \in Items : \/ UploadFile(i) \/ UploadRelFile(i) \/ EvidenceUpload(i)
                        \/ CreateAttachment(i) \/ CreateRelAttachment(i) \/ CheckOwner(i) \/ InsertRow(i)
                        \/ AuditCreate(i) \/ CrashUpload(i)
    \/ \E o \in Assets \cup Relationships : DeleteOwner(o)
    \/ \E d \in Deleters : \/ DeleteAttachment(d) \/ DeleteRelAttachment(d) \/ EvidenceDelete(d)
                           \/ DeleteRow(d) \/ AuditDelete(d) \/ CrashDelete(d)
    \/ \E r \in Readers : DownloadFile(r) \/ DownloadRelFile(r) \/ CollectEvidence(r) \/ ServeFile(r)
    \/ \E w \in Workers : \/ Submit(w) \/ Rotate(w) \/ TakeFile(w) \/ WriteFile(w) \/ MarkRow(w)
                          \/ EndJob(w) \/ CrashJob(w)
    \/ Forget

Spec == Init /\ [][Next]_vars

-----------------------------------------------------------------------------
(* Properties *)

IsFile(i) == rows[i] # None /\ (rows[i] # None => rows[i].kind = "file")

\* The file is what its row says it is.
Sound(i) == disk[i] = IF rows[i].encrypted THEN Encrypt(Plain) ELSE Plain

Damaged == {i \in Items : IsFile(i) /\ ~Rewriting(i) /\ (IsFile(i) => ~Sound(i))}

\* Every file row has its file, and unless two jobs have run at once, each
\* crash leaves at most one file that is not what its row says, whatever is
\* uploaded, deleted and changed meanwhile and whatever job comes after it.
FilesSound ==
    /\ \A i \in Items : IsFile(i) => disk[i] # None
    /\ count["overlaps"] = 0 => Cardinality(Damaged) <= count["crashes"]

\* A download that no job has overtaken gives the bytes that were uploaded.
DownloadsWhole ==
    count["overlaps"] = 0 /\ count["crashes"] = 0 => \A s \in served : s[2] = Plain

\* A file without a row was left by a deletion, by the form or by a crash, or
\* its upload is still under way.
Orphans ==
    \A i \in Items : disk[i] # None /\ rows[i] = None =>
        \/ uploads[i].pc \in {"check", "insert", "audit", "done", "died"}
        \/ uploads[i].pc = "failed" /\ uploads[i].route = "form"

\* A row has the entry of its creation, but for one being written or lost in
\* a crash; the API tells at most one deletion of it, whoever raced it; and a
\* row that is gone while its owner stays is told, or about to be, or whoever
\* deleted it was killed before the log: one entry lost for each deleter killed.
Trail ==
    \A i \in Items :
        /\ rows[i] # None => audited[i].created = 1 \/ uploads[i].pc \in {"audit", "died"}
        /\ audited[i].api <= 1
        /\ uploads[i].pc \in {"audit", "done"} /\ rows[i] = None /\ uploads[i].owner \in owners =>
               \/ audited[i].api + audited[i].form > 0
               \/ \E d \in Deleters : deletes[d].pc \in {"audit", "died"} /\ deletes[d].item = i

\* What an auditor may rely on: the files, the downloads and the trail.
AttachmentsHold == FilesSound /\ DownloadsWhole /\ Orphans /\ Trail
=============================================================================
