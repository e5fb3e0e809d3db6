------------------------ MODULE EncryptionMigration ------------------------
(***************************************************************************)
(* Encryption at rest of one column, webhooks.secret: the posture that     *)
(* every worker caches (encryption_config), the writers that follow it, the*)
(* batch job that encrypts or decrypts the column when an administrator    *)
(* changes the posture, and the rotation to a new key (encryption_migrate),*)
(* all while webhooks are created, edited and deleted.                     *)
(* A row has the key it is encrypted under: none, the active or the retired*)
(***************************************************************************)
EXTENDS Integers, FiniteSets

CONSTANTS
    Ids,         \* primary keys, in their order
    Stocks,      \* the sets of rows that the table may start with
    Workers,
    BatchSize,
    MaxWrites, MaxChanges, MaxRotations, MaxCrashes,
    Deletable,   \* the rows that may be deleted (bounds DeleteWebhook)
    Null

ASSUME EncryptionAssumption ==
    /\ Ids \subseteq Nat /\ IsFiniteSet(Ids) /\ Stocks \subseteq SUBSET Ids
    /\ BatchSize \in Nat \ {0}
    /\ MaxWrites \in Nat /\ MaxChanges \in Nat /\ MaxRotations \in Nat /\ MaxCrashes \in Nat
    /\ Deletable \subseteq Ids
    /\ Null \notin BOOLEAN /\ Null \notin Ids

VARIABLES
    posture,    \* encryption_config: is the scope enabled
    cache,      \* what each worker remembers of it, Null when older than the TTL
    rows,       \* the webhooks table
    writes,     \* the create or update each worker is busy with
    jobs,       \* the migration or rotation each worker is busy with
    done,       \* history: the kinds of job that ran to their end
    stray,      \* history: rows stored against the posture of that moment
    count       \* how often each bounded thing has happened

vars == <<posture, cache, rows, writes, jobs, done, stray, count>>

KeyNames == {"none", "active", "retired"}
RowType == [state : {"unborn", "live", "deleted"}, key : KeyNames]
WriteType == [pc : {"idle", "store"}, id : Ids \cup {Null},
              key : {"none", "active"}]
PageRow == [id : Ids, key : KeyNames]
JobType == [pc : {"idle", "fetch", "convert"}, kind : {"encrypt", "decrypt", "rotate", Null},
            offset : Nat, page : SUBSET PageRow]

TypeOK ==
    /\ posture \in BOOLEAN
    /\ cache \in [Workers -> BOOLEAN \cup {Null}]
    /\ rows \in [Ids -> RowType]
    /\ writes \in [Workers -> WriteType]
    /\ jobs \in [Workers -> JobType]
    /\ done \subseteq {"encrypt", "decrypt", "rotate"}
    /\ stray \subseteq Ids
    /\ count \in [{"writes", "changes", "rotations", "crashes"} -> Nat]

NoWrite == [pc |-> "idle", id |-> Null, key |-> "none"]
NoJob == [pc |-> "idle", kind |-> Null, offset |-> 0, page |-> {}]

\* The key has just been changed: what is encrypted is under the retired one.
Init ==
    /\ posture \in BOOLEAN
    /\ cache = [w \in Workers |-> Null]
    /\ \E live \in Stocks :
         rows = [i \in Ids |->
             IF i \in live
             THEN [state |-> "live", key |-> IF posture THEN "retired" ELSE "none"]
             ELSE [state |-> "unborn", key |-> "none"]]
    /\ writes = [w \in Workers |-> NoWrite]
    /\ jobs = [w \in Workers |-> NoJob]
    /\ done = {} /\ stray = {}
    /\ count = [c \in {"writes", "changes", "rotations", "crashes"} |-> 0]

Live(i) == rows[i].state = "live"
Bounded(c, max) == count[c] < max /\ count' = [count EXCEPT ![c] = @ + 1]

-----------------------------------------------------------------------------
(* The cached posture *)

\* get_active_scopes: the cache while it is fresh, else the table.
Active(w) == IF cache[w] = Null THEN posture ELSE cache[w]
Remember(w, on) == cache' = [cache EXCEPT ![w] = on]

\* _CACHE_TTL passes.
Expire(w) ==
    /\ cache[w] # Null
    /\ Remember(w, Null)
    /\ UNCHANGED <<posture, rows, writes, jobs, done, stray, count>>

-----------------------------------------------------------------------------
(* Writers *)

\* create_webhook and update_webhook look at the posture, encrypt, and then
\* wait for a connection to store what they have.
Prepare(w) ==
    /\ writes[w].pc = "idle"
    /\ Bounded("writes", MaxWrites)
    /\ \E i \in Ids :
         /\ rows[i].state # "deleted"
         /\ writes' = [writes EXCEPT ![w] =
                [pc |-> "store", id |-> i,
                 key |-> IF Active(w) THEN "active" ELSE "none"]]
    /\ Remember(w, Active(w))
    /\ UNCHANGED <<posture, rows, jobs, done, stray>>

Strays(id, key) == IF (key = "none") = posture THEN stray \cup {id} ELSE stray

\* An UPDATE of a row that is gone by now changes nothing.
Store(w) ==
    LET write == writes[w] IN
    /\ writes[w].pc = "store"
    /\ rows' = IF rows[write.id].state = "deleted" THEN rows
               ELSE [rows EXCEPT ![write.id] =
                        [state |-> "live", key |-> write.key]]
    /\ stray' = Strays(write.id, write.key)
    /\ writes' = [writes EXCEPT ![w] = NoWrite]
    /\ UNCHANGED <<posture, cache, jobs, done, count>>

DeleteWebhook(i) ==
    /\ i \in Deletable
    /\ Live(i)
    /\ rows' = [rows EXCEPT ![i].state = "deleted"]
    /\ UNCHANGED <<posture, cache, writes, jobs, done, stray, count>>

-----------------------------------------------------------------------------
(* Jobs *)

Start(w, kind) ==
    jobs' = [jobs EXCEPT ![w] = [pc |-> "fetch", kind |-> kind, offset |-> 0, page |-> {}]]

\* The admin form: what changed is judged by the posture this worker remembers.
Submit(w) ==
    /\ jobs[w].pc = "idle"
    /\ Bounded("changes", MaxChanges)
    /\ \E on \in BOOLEAN :
         /\ posture' = on
         /\ Remember(w, on)
         /\ IF on = Active(w) THEN jobs' = jobs
            ELSE Start(w, IF on THEN "encrypt" ELSE "decrypt")
    /\ UNCHANGED <<rows, writes, done, stray>>

\* "grcen rotate-keys": nothing to do unless the scope is active.
Rotate(w) ==
    /\ jobs[w].pc = "idle"
    /\ Active(w)
    /\ Bounded("rotations", MaxRotations)
    /\ Start(w, "rotate")
    /\ Remember(w, Active(w))
    /\ UNCHANGED <<posture, rows, writes, done, stray>>

\* SELECT ... ORDER BY id LIMIT size OFFSET offset: the rows before which there
\* are offset rows or up to a page more.
Rank(i) == Cardinality({k \in Ids : Live(k) /\ k < i})
Page(offset) ==
    {[id |-> i, key |-> rows[i].key] :
        i \in {k \in Ids : Live(k) /\ Rank(k) \in offset..(offset + BatchSize - 1)}}

\* mutant: a page that is not full is taken for the last one and left alone
FetchPage_Short(w) ==
    /\ jobs[w].pc = "fetch"
    /\ LET page == Page(jobs[w].offset) IN
       IF Cardinality(page) < BatchSize
       THEN /\ jobs' = [jobs EXCEPT ![w] = NoJob]
            /\ done' = done \cup {jobs[w].kind}
       ELSE /\ jobs' = [jobs EXCEPT ![w].pc = "convert", ![w].page = page]
            /\ UNCHANGED done
    /\ UNCHANGED <<posture, cache, rows, writes, stray, count>>

FetchPage(w) ==
    /\ jobs[w].pc = "fetch"
    /\ LET page == Page(jobs[w].offset) IN
       IF page = {}
       THEN /\ jobs' = [jobs EXCEPT ![w] = NoJob]
            /\ done' = done \cup {jobs[w].kind}
       ELSE /\ jobs' = [jobs EXCEPT ![w].pc = "convert", ![w].page = page]
            /\ UNCHANGED done
    /\ UNCHANGED <<posture, cache, rows, writes, stray, count>>

\* Encrypting skips what carries the prefix of ciphertext, the others what
\* does not; a rotation also rewrites what is under the active key.
Skips(kind, key) == (key = "none") = (kind # "encrypt")

NewKey(kind) == IF kind = "decrypt" THEN "none" ELSE "active"

Convert(kind, row) ==
    IF Skips(kind, row.key) \/ ~Live(row.id) THEN UNCHANGED <<rows, stray>>
    ELSE /\ rows' = [rows EXCEPT ![row.id].key = NewKey(kind)]
         /\ stray' = Strays(row.id, NewKey(kind))

\* The rows of a page in their order.
First(page) == {row \in page : \A other \in page : row.id <= other.id}

\* mutant: the offset is not advanced
ConvertRow_SamePage(w) == \E row \in First(jobs[w].page) :
    LET last == jobs[w].page = {row} IN
    /\ jobs[w].pc = "convert"
    /\ Convert(jobs[w].kind, row)
    /\ jobs' = [jobs EXCEPT ![w].page = @ \ {row}, ![w].pc = IF last THEN "fetch" ELSE "convert"]
    /\ UNCHANGED <<posture, cache, writes, done, count>>

\* UPDATE ... WHERE id: the value as the page has it, whatever the row holds.
ConvertRow(w) == \E row \in First(jobs[w].page) :
    LET last == jobs[w].page = {row} IN
    /\ jobs[w].pc = "convert"
    /\ Convert(jobs[w].kind, row)
    /\ jobs' = [jobs EXCEPT ![w].page = @ \ {row},
                            ![w].pc = IF last THEN "fetch" ELSE "convert",
                            ![w].offset = IF last THEN @ + BatchSize ELSE @]
    /\ UNCHANGED <<posture, cache, writes, done, count>>

Crash(w) ==
    /\ jobs[w].pc # "idle" \/ writes[w].pc # "idle"
    /\ Bounded("crashes", MaxCrashes)
    /\ Remember(w, Null)
    /\ writes' = [writes EXCEPT ![w] = NoWrite]
    /\ jobs' = [jobs EXCEPT ![w] = NoJob]
    /\ UNCHANGED <<posture, rows, done, stray>>

-----------------------------------------------------------------------------
Work(w) == FetchPage(w) \/ ConvertRow(w)

Next ==
    \/ \E w \in Workers : \/ Expire(w) \/ Prepare(w) \/ Store(w)
                          \/ Submit(w) \/ Rotate(w) \/ Work(w) \/ Crash(w)
    \/ \E i \in Ids : DeleteWebhook(i)

Spec == Init /\ [][Next]_vars

\* A job that was started keeps running.
FairSpec == Spec /\ \A w \in Workers : WF_vars(Work(w))

-----------------------------------------------------------------------------
(* Properties *)

Deleted == {i \in Ids : rows[i].state = "deleted"}
Retired == {i \in Ids : Live(i) /\ rows[i].key = "retired"}

\* "You may now remove ENCRYPTION_KEY_RETIRED": once a rotation has ended,
\* nothing needs the retired key any more.
RotationComplete == "rotate" \in done => Retired = {}

\* What a rotation does promise beside writers, migrations and crashes: it
\* overlooks at most one row for each row that was deleted.
RotationReach == "rotate" \in done => Cardinality(Retired) <= Cardinality(Deleted)

\* No job and no write is under way, and every cache is right or expired.
Settled ==
    /\ \A w \in Workers : jobs[w].pc = "idle" /\ writes[w].pc = "idle"
    /\ \A w \in Workers : cache[w] \in {posture, Null}

\* After one change of the posture and no crash, a live row is stored as the
\* posture asks, but for those that a writer or a job stored against it because
\* it did not know of it, and one for each row that was deleted.
MigrationReach ==
    Settled /\ count["changes"] = 1 /\ count["crashes"] = 0 =>
        Cardinality({i \in Ids : Live(i) /\ (rows[i].key = "none") = posture /\ i \notin stray})
          <= Cardinality(Deleted)

\* Nothing is left behind but what a deletion shifted or a stale posture stored.
Reach == TypeOK /\ RotationReach /\ MigrationReach

\* A job ends, whatever is inserted and deleted meanwhile.
JobsEnd == \A w \in Workers : (jobs[w].pc # "idle") ~> (jobs[w].pc = "idle")
=============================================================================
