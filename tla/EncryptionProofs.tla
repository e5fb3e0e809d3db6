-------------------------- MODULE EncryptionProofs ---------------------------
(***************************************************************************)
(* Jobs that take what is stored from one posture, or key, to another.     *)
(*                                                                         *)
(* Over the pages of a table that changes under them, EncryptionMigration: *)
(* for any number of rows, workers, writers, jobs and deletions, a         *)
(* rotation overlooks at most one row for each row deleted, and so does a  *)
(* migration, but for what was stored against the posture.  Both are told  *)
(* of a set of rows that only gets smaller, the rows under the retired key *)
(* or those stored wrongly: of these, the rows before the cursor that are  *)
(* not in the page any more are no more than the deleted ones.             *)
(*                                                                         *)
(* Over files, beside uploads, downloads and deletions (EvidenceParts):    *)
(* a crash costs one file at most, unless jobs or the posture overlapped,  *)
(* and the row says of every other what it is or what a job will make it.  *)
(***************************************************************************)
EXTENDS EncryptionMigration, EvidenceParts, FiniteSetTheorems, TLAPS

Kinds == {"encrypt", "decrypt", "rotate"}
Counters == {"writes", "changes", "rotations", "crashes"}

\* The page of a job that converts holds rows that were stored; no other has one.
JobOK(job) ==
    /\ job.pc # "idle" => job.kind \in Kinds
    /\ job.pc = "convert" <=> job.page # {}
    /\ \A row \in job.page : rows[row.id].state # "unborn"
    /\ \A r, s \in job.page : r.id = s.id => r = s

TypeInv ==
    /\ TypeOK
    /\ \A w \in Workers : writes[w].pc = "store" => writes[w].id \in Ids
    /\ \A w \in Workers : JobOK(jobs[w])

-----------------------------------------------------------------------------
(* Types *)

LEMMA InitType == Init => TypeInv
  <1> SUFFICES ASSUME Init PROVE TypeInv
    OBVIOUS
  <1> USE EncryptionAssumption
  <1>1. PICK live \in Stocks :
          rows = [i \in Ids |-> IF i \in live
                    THEN [state |-> "live", key |-> IF posture THEN "retired" ELSE "none"]
                    ELSE [state |-> "unborn", key |-> "none"]]
    BY DEF Init
  <1>2. rows \in [Ids -> RowType]
    BY <1>1 DEF Init, RowType, KeyNames
  <1>3. writes \in [Workers -> WriteType] /\ jobs \in [Workers -> JobType]
    BY DEF Init, NoWrite, NoJob, WriteType, JobType
  <1>4. count \in [Counters -> Nat]
    BY DEF Init, Counters
  <1>5. TypeOK
    BY <1>2, <1>3, <1>4 DEF Init, TypeOK, Counters
  <1> QED BY <1>5 DEF Init, TypeInv, JobOK, NoWrite, NoJob

LEMMA StartType ==
    ASSUME TypeInv, NEW w \in Workers, NEW kind \in Kinds, Start(w, kind)
    PROVE  jobs' \in [Workers -> JobType] /\ \A v \in Workers : JobOK(jobs'[v])
  <1> DEFINE job == [pc |-> "fetch", kind |-> kind, offset |-> 0, page |-> {}]
  <1>1. job \in JobType /\ JobOK(job)
    BY DEF JobType, JobOK, Kinds
  <1>2. jobs' = [jobs EXCEPT ![w] = job]
    BY DEF Start
  <1> HIDE DEF job
  <1> QED BY <1>1, <1>2 DEF TypeInv, TypeOK

LEMMA StopType ==
    ASSUME TypeInv, NEW w \in Workers, jobs' = [jobs EXCEPT ![w] = NoJob]
    PROVE  jobs' \in [Workers -> JobType] /\ \A v \in Workers : JobOK(jobs'[v])
  <1>1. NoJob \in JobType /\ JobOK(NoJob)
    BY DEF JobType, JobOK, NoJob
  <1> QED BY <1>1 DEF TypeInv, TypeOK

LEMMA NextType == TypeInv /\ [Next]_vars => TypeInv'
  <1> SUFFICES ASSUME TypeInv, [Next]_vars PROVE TypeInv'
    OBVIOUS
  <1> USE EncryptionAssumption
  <1>0. Counters = {"writes", "changes", "rotations", "crashes"}
    BY DEF Counters
  <1>1. CASE UNCHANGED vars
    BY <1>1 DEF vars, TypeInv, TypeOK, JobOK
  <1>2. ASSUME NEW w \in Workers, Expire(w) PROVE TypeInv'
    BY <1>2 DEF Expire, Remember, TypeInv, TypeOK, JobOK
  <1>3. ASSUME NEW w \in Workers, Prepare(w) PROVE TypeInv'
    <2>1. PICK i \in Ids : writes' = [writes EXCEPT ![w] = [pc |-> "store", id |-> i,
                                          key |-> IF Active(w) THEN "active" ELSE "none"]]
      BY <1>3 DEF Prepare
    <2>2. writes' \in [Workers -> WriteType] /\ \A v \in Workers : writes'[v].pc = "store" => writes'[v].id \in Ids
      BY <2>1 DEF TypeInv, TypeOK, WriteType
    <2>3. cache' \in [Workers -> BOOLEAN \cup {Null}]
      BY <1>3 DEF Prepare, Remember, Active, TypeInv, TypeOK
    <2>4. count' \in [Counters -> Nat]
      BY <1>0, <1>3 DEF Prepare, Bounded, TypeInv, TypeOK
    <2> QED BY <1>0, <1>3, <2>2, <2>3, <2>4 DEF Prepare, TypeInv, TypeOK, JobOK
  <1>4. ASSUME NEW w \in Workers, Store(w) PROVE TypeInv'
    <2>1. writes[w] \in WriteType /\ writes[w].id \in Ids
      BY <1>4 DEF Store, TypeInv, TypeOK
    <2>2. /\ rows' \in [Ids -> RowType]
          /\ \A i \in Ids : rows[i].state # "unborn" => rows'[i].state # "unborn"
      BY <1>4, <2>1 DEF Store, TypeInv, TypeOK, RowType, WriteType, KeyNames
    <2>3. writes' \in [Workers -> WriteType] /\ \A v \in Workers : writes'[v].pc = "store" => writes'[v].id \in Ids
      BY <1>4 DEF Store, NoWrite, TypeInv, TypeOK, WriteType
    <2>4. stray' \subseteq Ids
      BY <1>4, <2>1 DEF Store, Strays, TypeInv, TypeOK
    <2>5. \A v \in Workers : \A row \in jobs[v].page : row.id \in Ids
      BY DEF TypeInv, TypeOK, JobType, PageRow
    <2> QED BY <1>4, <2>2, <2>3, <2>4, <2>5 DEF Store, TypeInv, TypeOK, JobOK
  <1>5. ASSUME NEW w \in Workers, Submit(w) PROVE TypeInv'
    <2>1. PICK on \in BOOLEAN :
            /\ posture' = on /\ Remember(w, on)
            /\ jobs' = jobs \/ Start(w, IF on THEN "encrypt" ELSE "decrypt")
      BY <1>5 DEF Submit
    <2>2. jobs' \in [Workers -> JobType] /\ \A v \in Workers : JobOK(jobs'[v])
      <3>1. CASE jobs' = jobs
        BY <3>1 DEF TypeInv, TypeOK
      <3>2. CASE Start(w, IF on THEN "encrypt" ELSE "decrypt")
        BY <3>2, StartType DEF Kinds
      <3> QED BY <2>1, <3>1, <3>2
    <2>3. cache' \in [Workers -> BOOLEAN \cup {Null}] /\ posture' \in BOOLEAN
      BY <2>1 DEF Remember, TypeInv, TypeOK
    <2>4. count' \in [Counters -> Nat]
      BY <1>0, <1>5 DEF Submit, Bounded, TypeInv, TypeOK
    <2> QED BY <1>0, <1>5, <2>2, <2>3, <2>4 DEF Submit, TypeInv, TypeOK, JobOK
  <1>6. ASSUME NEW w \in Workers, Rotate(w) PROVE TypeInv'
    <2>1. jobs' \in [Workers -> JobType] /\ \A v \in Workers : JobOK(jobs'[v])
      BY <1>6, StartType DEF Rotate, Kinds
    <2>2. cache' \in [Workers -> BOOLEAN \cup {Null}]
      BY <1>6 DEF Rotate, Active, Remember, TypeInv, TypeOK
    <2>3. count' \in [Counters -> Nat]
      BY <1>0, <1>6 DEF Rotate, Bounded, TypeInv, TypeOK
    <2> QED BY <1>0, <1>6, <2>1, <2>2, <2>3 DEF Rotate, TypeInv, TypeOK, JobOK
  <1>7. ASSUME NEW w \in Workers, FetchPage(w) PROVE TypeInv'
    <2> DEFINE page == Page(jobs[w].offset)
    <2>1. jobs[w].pc = "fetch" /\ jobs[w].kind \in Kinds
      BY <1>7 DEF FetchPage, TypeInv, JobOK
    <2>2. page \subseteq PageRow /\ \A row \in page : rows[row.id].state # "unborn"
      <3>1. \A row \in page : \E i \in Ids : Live(i) /\ row = [id |-> i, key |-> rows[i].key]
        BY DEF Page
      <3>2. \A i \in Ids : rows[i].key \in KeyNames
        BY DEF TypeInv, TypeOK, RowType
      <3>3. \A i \in Ids : Live(i) => rows[i].state # "unborn"
        BY DEF Live
      <3> HIDE DEF page
      <3> QED BY <3>1, <3>2, <3>3 DEF PageRow
    <2>3. \A r, s \in page : r.id = s.id => r = s
      BY DEF Page
    <2>4. jobs' \in [Workers -> JobType] /\ \A v \in Workers : JobOK(jobs'[v])
      <3>1. CASE page = {}
        BY <1>7, <3>1, StopType DEF FetchPage
      <3>2. CASE page # {}
        <4>1. jobs' = [jobs EXCEPT ![w].pc = "convert", ![w].page = page]
          BY <1>7, <3>2 DEF FetchPage
        <4> DEFINE job == [jobs[w] EXCEPT !.pc = "convert", !.page = page]
        <4> HIDE DEF page
        <4>2. jobs[w] \in JobType
          BY DEF TypeInv, TypeOK
        <4>3. job \in JobType /\ job.pc = "convert" /\ job.page = page /\ job.kind = jobs[w].kind
          BY <2>2, <4>2 DEF JobType
        <4>4. JobOK(job)
          BY <2>1, <2>2, <2>3, <3>2, <4>3 DEF JobOK
        <4>5. jobs' = [jobs EXCEPT ![w] = job]
          BY ONLY <4>1 DEF job
        <4> HIDE DEF job
        <4> QED BY <4>3, <4>4, <4>5 DEF TypeInv, TypeOK
      <3> QED BY <3>1, <3>2
    <2>5. done' \subseteq Kinds
      BY <1>7, <2>1 DEF FetchPage, TypeInv, TypeOK, Kinds
    <2> QED BY <1>7, <2>4, <2>5 DEF FetchPage, TypeInv, TypeOK, JobOK, Kinds
  <1>8. ASSUME NEW w \in Workers, ConvertRow(w) PROVE TypeInv'
    <2>1. PICK row \in jobs[w].page :
            /\ jobs[w].pc = "convert" /\ Convert(jobs[w].kind, row)
            /\ jobs' = [jobs EXCEPT ![w].page = @ \ {row},
                           ![w].pc = IF jobs[w].page = {row} THEN "fetch" ELSE "convert",
                           ![w].offset = IF jobs[w].page = {row} THEN @ + BatchSize ELSE @]
            /\ UNCHANGED <<posture, cache, writes, done, count>>
      BY <1>8 DEF ConvertRow, First
    <2>2. \A v \in Workers : \A r \in jobs[v].page : r.id \in Ids
      BY DEF TypeInv, TypeOK, JobType, PageRow
    <2>3. /\ rows' \in [Ids -> RowType] /\ stray' \subseteq Ids
          /\ \A i \in Ids : rows'[i].state = rows[i].state
      <3>1. row.id \in Ids
        BY <2>1, <2>2
      <3>2. rows \in [Ids -> RowType] /\ stray \subseteq Ids
        BY DEF TypeInv, TypeOK
      <3> DEFINE k == NewKey(jobs[w].kind)
      <3>3. k \in KeyNames
        BY DEF NewKey, KeyNames
      <3> HIDE DEF k
      <3>4. CASE UNCHANGED <<rows, stray>>
        BY <3>2, <3>4
      <3>5. CASE rows' = [rows EXCEPT ![row.id].key = k] /\ stray' = Strays(row.id, k)
        BY <3>1, <3>2, <3>3, <3>5 DEF RowType, Strays
      <3> QED BY <2>1, <3>4, <3>5 DEF Convert, k
    <2>4. jobs[w] \in JobType /\ JobOK(jobs[w])
      BY DEF TypeInv, TypeOK
    <2> DEFINE pc == IF jobs[w].page = {row} THEN "fetch" ELSE "convert"
               offset == IF jobs[w].page = {row} THEN jobs[w].offset + BatchSize ELSE jobs[w].offset
               job == [jobs[w] EXCEPT !.page = @ \ {row}, !.pc = pc, !.offset = offset]
    <2>5. jobs' = [jobs EXCEPT ![w] = job]
      <3>1. jobs' = [jobs EXCEPT ![w].page = @ \ {row},
                        ![w].pc = IF jobs[w].page = {row} THEN "fetch" ELSE "convert",
                        ![w].offset = IF jobs[w].page = {row} THEN @ + BatchSize ELSE @]
        BY <2>1
      <3> QED BY ONLY <3>1 DEF job, pc, offset
    <2>6. pc \in {"fetch", "convert"} /\ offset \in Nat
      BY <2>4 DEF JobType
    <2>7. job \in JobType /\ job.kind = jobs[w].kind /\ job.page = jobs[w].page \ {row} /\ job.pc = pc
      BY <2>4, <2>6 DEF JobType
    <2>8. JobOK(job)
      <3>1. job.pc # "idle" => job.kind \in Kinds
        BY <2>1, <2>4, <2>7 DEF JobOK
      <3> DEFINE page == jobs[w].page
      <3>0. row \in page
        BY <2>1
      <3> HIDE DEF page
      <3>2. page = {row} <=> page \ {row} = {}
        BY <3>0
      <3>3. job.pc = "convert" <=> job.page # {}
        BY <2>7, <3>2 DEF page, pc
      <3>4. job.page \subseteq jobs[w].page
        BY <2>7
      <3> QED BY <2>4, <3>1, <3>3, <3>4 DEF JobOK
    <2> HIDE DEF job, pc, offset
    <2>9. jobs' \in [Workers -> JobType] /\ \A v \in Workers : JobOK(jobs'[v])
      BY <2>5, <2>7, <2>8 DEF TypeInv, TypeOK
    <2>10. \A v \in Workers : JobOK(jobs[v])'
      <3> SUFFICES ASSUME NEW v \in Workers PROVE JobOK(jobs[v])'
        OBVIOUS
      <3>1. jobs'[v] \in JobType /\ JobOK(jobs'[v])
        BY <2>9
      <3>2. \A r \in jobs'[v].page : r.id \in Ids
        BY <3>1 DEF JobType, PageRow
      <3> QED BY <2>3, <3>1, <3>2 DEF JobOK
    <2> QED BY <2>1, <2>3, <2>9, <2>10 DEF TypeInv, TypeOK
  <1>9. ASSUME NEW w \in Workers, Crash(w) PROVE TypeInv'
    <2>1. jobs' \in [Workers -> JobType] /\ \A v \in Workers : JobOK(jobs'[v])
      BY <1>9, StopType DEF Crash
    <2>2. writes' \in [Workers -> WriteType] /\ \A v \in Workers : writes'[v].pc = "store" => writes'[v].id \in Ids
      BY <1>9 DEF Crash, NoWrite, TypeInv, TypeOK, WriteType
    <2>3. count' \in [Counters -> Nat] /\ cache' \in [Workers -> BOOLEAN \cup {Null}]
      BY <1>0, <1>9 DEF Crash, Bounded, Remember, TypeInv, TypeOK
    <2> QED BY <1>0, <1>9, <2>1, <2>2, <2>3 DEF Crash, TypeInv, TypeOK, JobOK
  <1>10. ASSUME NEW i \in Ids, DeleteWebhook(i) PROVE TypeInv'
    <2>1. /\ rows' \in [Ids -> RowType]
          /\ \A k \in Ids : rows[k].state # "unborn" => rows'[k].state # "unborn"
      BY <1>10 DEF DeleteWebhook, TypeInv, TypeOK, RowType
    <2>2. \A v \in Workers : \A row \in jobs[v].page : row.id \in Ids
      BY DEF TypeInv, TypeOK, JobType, PageRow
    <2> QED BY <1>10, <2>1, <2>2 DEF DeleteWebhook, TypeInv, TypeOK, JobOK
  <1> QED BY <1>1, <1>2, <1>3, <1>4, <1>5, <1>6, <1>7, <1>8, <1>9, <1>10 DEF Next, Work

-----------------------------------------------------------------------------
(* The order of the rows: each is before as many rows as no other is, and the *)
(* ranks have no gap.                                                         *)

Rows == {i \in Ids : Live(i)}
Before(i) == {k \in Ids : Live(k) /\ k < i}

LEMMA RowsFinite ==
    /\ IsFiniteSet(Rows) /\ Cardinality(Rows) \in Nat
    /\ \A S \in SUBSET Ids : IsFiniteSet(S) /\ Cardinality(S) \in Nat
  BY EncryptionAssumption, FS_Subset, FS_CardinalityType DEF Rows

LEMMA OneMore ==
    ASSUME NEW S, NEW x, IsFiniteSet(S)
    PROVE  /\ IsFiniteSet(S \cup {x})
           /\ Cardinality(S \cup {x}) \in Nat /\ Cardinality(S \cup {x}) <= Cardinality(S) + 1
  <1>1. Cardinality(S) \in Nat
    BY FS_CardinalityType
  <1>2. /\ IsFiniteSet(S \cup {x})
        /\ Cardinality(S \cup {x}) = IF x \in S THEN Cardinality(S) ELSE Cardinality(S) + 1
    BY FS_AddElement
  <1> QED BY <1>1, <1>2

LEMMA RankType ==
    ASSUME NEW i \in Ids
    PROVE  /\ Rank(i) \in Nat /\ Rank(i) = Cardinality(Before(i))
           /\ Before(i) \subseteq Ids /\ IsFiniteSet(Before(i))
  BY RowsFinite DEF Rank, Before

LEMMA RankGrows ==
    ASSUME NEW i \in Rows, NEW k \in Rows, i < k
    PROVE  Rank(i) < Rank(k)
  <1>1. Before(i) \subseteq Before(k) /\ i \in Before(k) /\ i \notin Before(i)
    <2>1. i \in Nat /\ k \in Nat /\ \A j \in Ids : j \in Nat
      BY EncryptionAssumption DEF Rows
    <2>2. \A j \in Ids : j < i => j < k
      BY <2>1
    <2>3. ~(i < i)
      BY <2>1
    <2>4. Before(i) \subseteq Before(k)
      BY <2>2 DEF Before
    <2>5. i \in Before(k) /\ i \notin Before(i)
      BY <2>3 DEF Before, Rows
    <2> QED BY <2>4, <2>5
  <1>2. Rank(i) <= Rank(k) /\ Rank(i) # Rank(k)
    BY <1>1, RankType, FS_Subset DEF Rows
  <1> QED BY <1>2, RankType DEF Rows

LEMMA RankUnique ==
    ASSUME NEW i \in Rows, NEW k \in Rows, Rank(i) = Rank(k)
    PROVE  i = k
  <1>1. i \in Nat /\ k \in Nat /\ Rank(i) \in Nat
    BY EncryptionAssumption, RankType DEF Rows
  <1> QED BY <1>1, RankGrows

LEMMA RankHasNoGap ==
    ASSUME NEW i \in Rows, NEW o \in Nat, o <= Rank(i)
    PROVE  \E k \in Rows : Rank(k) = o
  <1> DEFINE n == Cardinality(Rows)
             f == [k \in Rows |-> Rank(k)]
  <1>1. n \in Nat /\ IsFiniteSet(Rows)
    BY RowsFinite
  <1>2. \A k \in Rows : Rank(k) \in 0..(n - 1)
    <2> SUFFICES ASSUME NEW k \in Rows PROVE Rank(k) \in 0..(n - 1)
      OBVIOUS
    <2>1. Before(k) \subseteq Rows \ {k}
      BY EncryptionAssumption DEF Before, Rows
    <2>2. IsFiniteSet(Rows \ {k}) /\ Cardinality(Rows \ {k}) = n - 1
      BY <1>1, FS_RemoveElement
    <2>3. Rank(k) \in Nat /\ Rank(k) <= n - 1
      BY <2>1, <2>2, RankType, FS_Subset DEF Rows
    <2> QED BY <1>1, <2>3
  <1>3. f \in Injection(Rows, 0..(n - 1))
    BY <1>2, RankUnique DEF Injection, IsInjective
  <1>4. IsFiniteSet(0..(n - 1)) /\ Cardinality(0..(n - 1)) = n
    <2>1. 0 \in Int /\ n - 1 \in Int
      BY <1>1
    <2>2. IsFiniteSet(0..(n - 1)) /\ Cardinality(0..(n - 1)) = IF 0 > n - 1 THEN 0 ELSE (n - 1) - 0 + 1
      BY <2>1, FS_Interval
    <2> QED BY <1>1, <2>2
  <1> HIDE DEF f
  <1>5. f \in Surjection(Rows, 0..(n - 1))
    BY <1>3, <1>4, FS_Injection
  <1>6. o \in 0..(n - 1)
    BY <1>1, <1>2, RankType DEF Rows
  <1>7. \E k \in Rows : f[k] = o
    BY <1>5, <1>6 DEF Surjection
  <1> QED BY <1>7 DEF f

-----------------------------------------------------------------------------
(* What a job has behind it.                                                  *)

Edge(w) == jobs[w].offset + (IF jobs[w].pc = "convert" THEN BatchSize ELSE 0)
Paged(w) == {row.id : row \in jobs[w].page}
Past(w) == {i \in Rows : Rank(i) < Edge(w)} \ Paged(w)

LEMMA PastFinite ==
    ASSUME NEW w, NEW S
    PROVE  IsFiniteSet(Past(w) \cap S) /\ Cardinality(Past(w) \cap S) \in Nat
  BY RowsFinite DEF Past, Rows

LEMMA DeletedFinite == Deleted \subseteq Ids /\ IsFiniteSet(Deleted) /\ Cardinality(Deleted) \in Nat
  BY RowsFinite DEF Deleted

LEMMA EdgeType == ASSUME TypeInv, NEW w \in Workers PROVE Edge(w) \in Nat
  BY EncryptionAssumption DEF TypeInv, TypeOK, JobType, Edge
\* Rows that are stored move others away from the cursor, not towards it.
LEMMA PastShrinks ==
    ASSUME TypeInv, NEW w \in Workers, NEW S, NEW T,
           jobs'[w] = jobs[w],
           \A i \in Ids : Live(i) => Live(i)',
           \A i \in Ids : Live(i)' /\ i \in T => Live(i) /\ i \in S
    PROVE  Cardinality(Past(w)' \cap T) <= Cardinality(Past(w) \cap S)
  <1>1. Edge(w)' = Edge(w) /\ Paged(w)' = Paged(w) /\ Edge(w) \in Nat
    BY EdgeType DEF Edge, Paged
  <1>2. ASSUME NEW i \in Ids PROVE Rank(i) \in Nat /\ Rank(i)' \in Nat /\ Rank(i) <= Rank(i)'
    <2> DEFINE B == {k \in Ids : Live(k) /\ k < i}
               C == {k \in Ids : Live(k)' /\ k < i}
    <2>1. B \subseteq C /\ IsFiniteSet(C) /\ C \subseteq Ids /\ B \subseteq Ids
      BY RowsFinite
    <2>2. Cardinality(B) <= Cardinality(C) /\ Cardinality(B) \in Nat /\ Cardinality(C) \in Nat
      BY <2>1, RowsFinite, FS_Subset
    <2>3. Rank(i) = Cardinality(B) /\ Rank(i)' = Cardinality(C)
      BY DEF Rank
    <2> QED BY <2>2, <2>3
  <1>3. Past(w)' \cap T \subseteq Past(w) \cap S
    <2> SUFFICES ASSUME NEW i \in Rows', i \in T, Rank(i)' < Edge(w), i \notin Paged(w)
                 PROVE  i \in Rows /\ i \in S /\ Rank(i) < Edge(w)
      BY <1>1 DEF Past
    <2>1. i \in Ids /\ Live(i)'
      BY DEF Rows
    <2> QED BY <1>1, <1>2, <2>1 DEF Rows
  <1> QED BY <1>3, PastFinite, FS_Subset

\* A deletion moves one row, at most, across the cursor.
LEMMA PastAfterDelete ==
    ASSUME TypeInv, NEW w \in Workers, NEW S, NEW T, NEW j \in Rows,
           jobs'[w] = jobs[w],
           \A i \in Ids : Live(i)' <=> Live(i) /\ i # j,
           T \subseteq S
    PROVE  Cardinality(Past(w)' \cap T) <= Cardinality(Past(w) \cap S) + 1
  <1>1. Edge(w)' = Edge(w) /\ Paged(w)' = Paged(w) /\ Edge(w) \in Nat
    BY EdgeType DEF Edge, Paged
  <1>2. ASSUME NEW i \in Ids PROVE Rank(i) \in Nat /\ Rank(i)' \in Nat /\ Rank(i) <= Rank(i)' + 1
    <2> DEFINE B == {k \in Ids : Live(k) /\ k < i}
               C == {k \in Ids : Live(k)' /\ k < i}
    <2>1. B \subseteq C \cup {j} /\ IsFiniteSet(C) /\ C \subseteq Ids /\ B \subseteq Ids
      BY RowsFinite
    <2>2. IsFiniteSet(C \cup {j}) /\ Cardinality(C \cup {j}) <= Cardinality(C) + 1
      BY <2>1, OneMore
    <2>3. /\ Cardinality(B) <= Cardinality(C \cup {j})
          /\ Cardinality(B) \in Nat /\ Cardinality(C) \in Nat /\ Cardinality(C \cup {j}) \in Nat
      BY <2>1, <2>2, RowsFinite, FS_Subset, FS_CardinalityType
    <2>4. Rank(i) = Cardinality(B) /\ Rank(i)' = Cardinality(C)
      BY DEF Rank
    <2> QED BY <2>2, <2>3, <2>4
  <1> DEFINE AtEdge == {i \in Rows : Rank(i) = Edge(w)}
  <1>3. Past(w)' \cap T \subseteq (Past(w) \cap S) \cup AtEdge
    <2> SUFFICES ASSUME NEW i \in Rows', i \in T, Rank(i)' < Edge(w), i \notin Paged(w)
                 PROVE  i \in Rows /\ i \in S /\ (Rank(i) < Edge(w) \/ Rank(i) = Edge(w))
      BY <1>1 DEF Past
    <2>1. i \in Ids /\ Live(i)'
      BY DEF Rows
    <2>2. i \in Rows
      BY <2>1 DEF Rows
    <2> QED BY <1>1, <1>2, <2>1, <2>2
  <1>4. \E x : AtEdge \subseteq {x}
    BY RankUnique
  <1>5. PICK x : Past(w)' \cap T \subseteq (Past(w) \cap S) \cup {x}
    BY <1>3, <1>4
  <1>6. IsFiniteSet((Past(w) \cap S) \cup {x}) /\ Cardinality((Past(w) \cap S) \cup {x}) <= Cardinality(Past(w) \cap S) + 1
    BY PastFinite, OneMore
  <1>7. Cardinality(Past(w)' \cap T) <= Cardinality((Past(w) \cap S) \cup {x})
    BY <1>5, <1>6, FS_Subset
  <1>8. Cardinality(Past(w)' \cap T) \in Nat /\ Cardinality((Past(w) \cap S) \cup {x}) \in Nat
    BY <1>5, <1>6, FS_Subset, FS_CardinalityType
  <1> QED BY <1>6, <1>7, <1>8, PastFinite

\* A page that is read is what follows the cursor; when there is none, nothing does.
LEMMA PageRead ==
    ASSUME TypeInv, NEW w \in Workers, jobs[w].pc = "fetch",
           NEW page, page = Page(jobs[w].offset)
    PROVE  /\ page \subseteq PageRow
           /\ {r.id : r \in page} = {i \in Rows : Rank(i) \in Edge(w)..(Edge(w) + BatchSize - 1)}
           /\ \A r \in page : Live(r.id) /\ r.key = rows[r.id].key
           /\ \A r, s \in page : r.id = s.id => r = s
           /\ page = {} => Rows \subseteq Past(w)
  <1> DEFINE o == jobs[w].offset
             Span == {i \in Rows : Rank(i) \in o..(o + BatchSize - 1)}
  <1>1. o \in Nat /\ Edge(w) = o /\ Paged(w) = {}
    BY DEF TypeInv, TypeOK, JobType, JobOK, Edge, Paged
  <1>2. page = {[id |-> i, key |-> rows[i].key] : i \in Span}
    BY DEF Page, Rows
  <1>3. \A i \in Span : i \in Ids /\ Live(i) /\ rows[i].key \in KeyNames
    BY DEF Rows, TypeInv, TypeOK, RowType
  <1>4. page \subseteq PageRow
    BY <1>2, <1>3 DEF PageRow
  <1>5. \A r \in page : \E i \in Span : r = [id |-> i, key |-> rows[i].key]
    BY <1>2
  <1>6. /\ {r.id : r \in page} = Span
        /\ \A r \in page : Live(r.id) /\ r.key = rows[r.id].key
        /\ \A r, s \in page : r.id = s.id => r = s
    <2>1. \A r \in page : r.id \in Span /\ r.key = rows[r.id].key /\ r = [id |-> r.id, key |-> rows[r.id].key]
      BY <1>5
    <2>2. ASSUME NEW i \in Span PROVE \E r \in page : r.id = i
      <3>1. [id |-> i, key |-> rows[i].key] \in page
        BY <1>2
      <3> QED BY <3>1
    <2> QED BY <1>3, <2>1, <2>2
  <1>7. page = {} => Rows \subseteq Past(w)
    <2> SUFFICES ASSUME page = {}, NEW i \in Rows PROVE Rank(i) < o
      BY <1>1 DEF Past
    <2>1. Span = {}
      BY <1>2
    <2>2. Rank(i) \in Nat
      BY RankType DEF Rows
    <2>3. CASE o <= Rank(i)
      <3>1. PICK k \in Rows : Rank(k) = o
        BY <1>1, <2>3, RankHasNoGap
      <3>2. Rank(k) \in o..(o + BatchSize - 1)
        BY <1>1, <3>1, EncryptionAssumption
      <3> QED BY <2>1, <3>2
    <2> QED BY <1>1, <2>2, <2>3
  <1> QED BY <1>1, <1>4, <1>6, <1>7

-----------------------------------------------------------------------------
(* The invariant.                                                             *)

\* Of the rows of S, a job overlooked no more than were deleted, and it will
\* skip none that it has in hand.
Skimmed(w, S) == \A row \in jobs[w].page : Skips(jobs[w].kind, row.key) => row.id \notin S
Reached(w, S) == Cardinality(Past(w) \cap S) <= Cardinality(Deleted) /\ Skimmed(w, S)

\* The rows stored against the posture that nobody is known to have strayed to.
Wrong == {i \in Ids : Live(i) /\ (rows[i].key = "none") = posture /\ i \notin stray}

RotationInv ==
    \A w \in Workers : jobs[w].pc # "idle" /\ jobs[w].kind = "rotate" => Reached(w, Retired)

Follows(w) == jobs[w].pc # "idle" /\ jobs[w].kind = IF posture THEN "encrypt" ELSE "decrypt"

MigrationInv ==
    /\ count["changes"] = 0 => Wrong = {} /\ \A w \in Workers : cache[w] \in {posture, Null}
    /\ count["changes"] = 1 /\ count["crashes"] = 0 =>
         \/ Cardinality(Wrong) <= Cardinality(Deleted)
         \/ \E w \in Workers : Follows(w) /\ Reached(w, Wrong)

IInv == TypeInv /\ RotationReach /\ RotationInv /\ MigrationInv
-----------------------------------------------------------------------------
(* What a step does to the rows.                                              *)

\* What is encrypted or stored is under the active key or in the clear, and
\* what is against the posture of that moment has strayed.
Written(i, key) ==
    /\ key \in {"none", "active"}
    /\ rows' = [rows EXCEPT ![i].key = key] \/ rows' = [rows EXCEPT ![i] = [state |-> "live", key |-> key]]
    /\ stray' = Strays(i, key)

Kept == UNCHANGED rows /\ stray \subseteq stray'

Removed(j) ==
    /\ Live(j) /\ rows' = [rows EXCEPT ![j].state = "deleted"]
    /\ UNCHANGED <<posture, cache, jobs, done, stray, count>>

LEMMA RowSteps ==
    ASSUME TypeInv, [Next]_vars
    PROVE  \/ Kept
           \/ \E i \in Ids, key \in KeyNames :
                rows[i].state # "deleted" /\ Written(i, key) /\ posture' = posture
           \/ \E j \in Ids : Removed(j)
  <1>1. CASE UNCHANGED vars
    BY <1>1 DEF vars, Kept
  <1>2. ASSUME NEW w \in Workers, Store(w) PROVE Kept \/ \E i \in Ids, key \in KeyNames :
                rows[i].state # "deleted" /\ Written(i, key) /\ posture' = posture
    <2>1. writes[w].id \in Ids /\ writes[w].key \in {"none", "active"}
      BY <1>2 DEF Store, TypeInv, TypeOK, WriteType
    <2>2. CASE rows[writes[w].id].state = "deleted"
      BY <1>2, <2>2 DEF Store, Strays, Kept
    <2>3. CASE rows[writes[w].id].state # "deleted"
      BY <1>2, <2>1, <2>3 DEF Store, Written, KeyNames
    <2> QED BY <2>2, <2>3
  <1>3. ASSUME NEW w \in Workers, ConvertRow(w) PROVE Kept \/ \E i \in Ids, key \in KeyNames :
                rows[i].state # "deleted" /\ Written(i, key) /\ posture' = posture
    <2>1. PICK row \in jobs[w].page : Convert(jobs[w].kind, row) /\ posture' = posture
      BY <1>3 DEF ConvertRow, First
    <2>2. row.id \in Ids
      BY <2>1 DEF TypeInv, TypeOK, JobType, PageRow
    <2>3. CASE UNCHANGED <<rows, stray>>
      BY <2>3 DEF Kept
    <2>4. CASE ~UNCHANGED <<rows, stray>>
      <3>1. /\ Live(row.id)
            /\ rows' = [rows EXCEPT ![row.id].key = NewKey(jobs[w].kind)]
            /\ stray' = Strays(row.id, NewKey(jobs[w].kind))
        BY <2>1, <2>4 DEF Convert
      <3>2. NewKey(jobs[w].kind) \in {"none", "active"}
        BY DEF NewKey
      <3> QED BY <2>1, <2>2, <3>1, <3>2 DEF Live, Written, KeyNames
    <2> QED BY <2>3, <2>4
  <1>4. ASSUME NEW w \in Workers, Expire(w) \/ Prepare(w) \/ Submit(w) \/ Rotate(w) \/ FetchPage(w) \/ Crash(w)
        PROVE  Kept
    BY <1>4 DEF Expire, Prepare, Submit, Rotate, FetchPage, Crash, Kept
  <1>5. ASSUME NEW j \in Ids, DeleteWebhook(j) PROVE Removed(j)
    BY <1>5 DEF DeleteWebhook, Removed
  <1> QED BY <1>1, <1>2, <1>3, <1>4, <1>5 DEF Next, Work

LEMMA LiveStays ==
    ASSUME TypeInv, [Next]_vars
    PROVE  \/ (\A i \in Ids : Live(i) => Live(i)') /\ Deleted' = Deleted
           \/ \E j \in Rows : Removed(j) /\ (\A i \in Ids : Live(i)' <=> Live(i) /\ i # j)
                              /\ Cardinality(Deleted') = Cardinality(Deleted) + 1
  <1> USE DEF Live, Deleted
  <1>0. rows \in [Ids -> RowType]
    BY DEF TypeInv, TypeOK
  <1>1. CASE Kept
    BY <1>1 DEF Kept
  <1>2. ASSUME NEW i \in Ids, NEW key \in KeyNames, rows[i].state # "deleted", Written(i, key)
        PROVE  (\A k \in Ids : Live(k) => Live(k)') /\ Deleted' = Deleted
    <2>1. \A k \in Ids : \/ rows'[k].state = rows[k].state
                         \/ rows'[k].state = "live" /\ rows[k].state # "deleted"
      <3>1. CASE rows' = [rows EXCEPT ![i].key = key]
        BY <1>0, <3>1 DEF RowType
      <3>2. CASE rows' = [rows EXCEPT ![i] = [state |-> "live", key |-> key]]
        BY <1>0, <1>2, <3>2 DEF RowType
      <3> QED BY <1>2, <3>1, <3>2 DEF Written
    <2> QED BY <2>1
  <1>3. ASSUME NEW j \in Ids, Removed(j)
        PROVE  /\ j \in Rows /\ \A i \in Ids : Live(i)' <=> Live(i) /\ i # j
               /\ Cardinality(Deleted') = Cardinality(Deleted) + 1
    <2>1. /\ Live(j) /\ rows'[j].state = "deleted"
          /\ \A i \in Ids \ {j} : rows'[i] = rows[i]
      BY <1>0, <1>3 DEF Removed, RowType
    <2>2. \A i \in Ids : Live(i)' <=> Live(i) /\ i # j
      BY <2>1
    <2>3. Deleted' = Deleted \cup {j} /\ j \notin Deleted
      BY <2>1
    <2>4. Cardinality(Deleted') = Cardinality(Deleted) + 1
      BY <2>3, DeletedFinite, FS_AddElement
    <2> QED BY <2>1, <2>2, <2>4 DEF Rows
  <1> QED BY <1>1, <1>2, <1>3, RowSteps

LEMMA DeletedGrows ==
    ASSUME TypeInv, [Next]_vars
    PROVE  /\ Cardinality(Deleted) \in Nat /\ Cardinality(Deleted') \in Nat
           /\ Cardinality(Deleted) <= Cardinality(Deleted')
  <1>1. Cardinality(Deleted) \in Nat
    BY DeletedFinite
  <1>2. Deleted' = Deleted \/ Cardinality(Deleted') = Cardinality(Deleted) + 1
    BY LiveStays
  <1> QED BY <1>1, <1>2

LEMMA RetiredShrinks ==
    ASSUME TypeInv, [Next]_vars
    PROVE  Retired' \subseteq Retired
  <1> USE DEF Live, Retired
  <1>0. rows \in [Ids -> RowType]
    BY DEF TypeInv, TypeOK
  <1>1. CASE Kept
    BY <1>1 DEF Kept
  <1>2. ASSUME NEW i \in Ids, NEW key \in KeyNames, Written(i, key)
        PROVE  Retired' \subseteq Retired
    <2>1. rows'[i].key = key /\ \A k \in Ids \ {i} : rows'[k] = rows[k]
      BY <1>0, <1>2 DEF Written, RowType
    <2> QED BY <1>2, <2>1 DEF Written
  <1>3. ASSUME NEW j \in Ids, Removed(j) PROVE Retired' \subseteq Retired
    BY <1>0, <1>3 DEF Removed, RowType
  <1> QED BY <1>1, <1>2, <1>3, RowSteps

LEMMA WrongShrinks ==
    ASSUME TypeInv, [Next]_vars, posture' = posture
    PROVE  Wrong' \subseteq Wrong
  <1> USE DEF Live, Wrong
  <1>0. rows \in [Ids -> RowType]
    BY DEF TypeInv, TypeOK
  <1>1. CASE Kept
    BY <1>1 DEF Kept
  <1>2. ASSUME NEW i \in Ids, NEW key \in KeyNames, Written(i, key)
        PROVE  Wrong' \subseteq Wrong
    <2>1. rows'[i].key = key /\ \A k \in Ids \ {i} : rows'[k] = rows[k]
      BY <1>0, <1>2 DEF Written, RowType
    <2>2. stray \subseteq stray' /\ ((key = "none") = posture => i \in stray')
      BY <1>2 DEF Written, Strays
    <2> QED BY <2>1, <2>2
  <1>3. ASSUME NEW j \in Ids, Removed(j) PROVE Wrong' \subseteq Wrong
    BY <1>0, <1>3 DEF Removed, RowType
  <1> QED BY <1>1, <1>2, <1>3, RowSteps
-----------------------------------------------------------------------------
(* A job overlooks no more than is deleted.                                   *)

\* S is what the job is about and T what the step leaves of it.
LEMMA StartReaches ==
    ASSUME NEW w \in Workers, NEW S, TypeInv',
           jobs'[w].pc = "fetch", jobs'[w].offset = 0
    PROVE  Cardinality(Past(w)' \cap S) = 0 /\ jobs'[w].page = {}
  <1>1. jobs'[w].page = {}
    BY DEF TypeInv, JobOK
  <1>2. Edge(w)' = 0
    BY DEF Edge
  <1>3. Past(w)' = {}
    <2>1. ASSUME NEW i \in Ids PROVE Rank(i)' \in Nat
      BY RowsFinite DEF Rank
    <2> QED BY <1>2, <2>1 DEF Past, Rows
  <1> QED BY <1>1, <1>3, FS_EmptySet

\* The job does not move.
LEMMA ReachedBeside ==
    ASSUME TypeInv, [Next]_vars, NEW w \in Workers, jobs'[w] = jobs[w],
           NEW S \in SUBSET Rows, NEW T \in SUBSET S, Reached(w, S)
    PROVE  /\ Cardinality(Past(w)' \cap T) <= Cardinality(Deleted')
           /\ \A row \in jobs'[w].page : Skips(jobs'[w].kind, row.key) => row.id \notin T
  <1>1. \A row \in jobs'[w].page : Skips(jobs'[w].kind, row.key) => row.id \notin T
    BY DEF Reached, Skimmed
  <1>2. /\ Cardinality(Past(w) \cap S) \in Nat /\ Cardinality(Deleted) \in Nat
        /\ Cardinality(Past(w) \cap S) <= Cardinality(Deleted)
    BY PastFinite, DeletedFinite DEF Reached
  <1>3. Cardinality(Past(w)' \cap T) \in Nat
    <2>1. Past(w)' \cap T \subseteq Ids
      BY DEF Past, Rows
    <2> QED BY <2>1, RowsFinite
  <1>4. CASE (\A i \in Ids : Live(i) => Live(i)') /\ Deleted' = Deleted
    <2>1. \A i \in Ids : Live(i)' /\ i \in T => Live(i) /\ i \in S
      BY DEF Rows
    <2>2. Cardinality(Past(w)' \cap T) <= Cardinality(Past(w) \cap S)
      BY <1>4, <2>1, PastShrinks
    <2> QED BY <1>1, <1>2, <1>3, <1>4, <2>2
  <1>5. ASSUME NEW j \in Rows, \A i \in Ids : Live(i)' <=> Live(i) /\ i # j,
               Cardinality(Deleted') = Cardinality(Deleted) + 1
        PROVE  Cardinality(Past(w)' \cap T) <= Cardinality(Deleted')
    <2>1. Cardinality(Past(w)' \cap T) <= Cardinality(Past(w) \cap S) + 1
      BY <1>5, PastAfterDelete
    <2> QED BY <1>2, <1>3, <1>5, <2>1
  <1> QED BY <1>1, <1>4, <1>5, LiveStays

\* A page is read: the rows of it are in hand and none is passed over.
LEMMA ReachedByFetch ==
    ASSUME TypeInv, NEW w \in Workers, FetchPage(w),
           NEW S \in SUBSET Rows, Reached(w, S),
           \A i \in S : ~Skips(jobs[w].kind, rows[i].key)
    PROVE  \/ /\ jobs' = [jobs EXCEPT ![w] = NoJob] /\ done' = done \cup {jobs[w].kind}
              /\ Cardinality(S) <= Cardinality(Deleted)
           \/ /\ done' = done /\ jobs'[w].kind = jobs[w].kind /\ jobs'[w].pc # "idle"
              /\ Past(w)' \cap S = Past(w) \cap S
              /\ \A row \in jobs'[w].page : Skips(jobs'[w].kind, row.key) => row.id \notin S
  <1> DEFINE page == Page(jobs[w].offset)
  <1>1. jobs[w].pc = "fetch" /\ UNCHANGED rows
    BY DEF FetchPage
  <1>2. /\ page \subseteq PageRow
        /\ {r.id : r \in page} = {i \in Rows : Rank(i) \in Edge(w)..(Edge(w) + BatchSize - 1)}
        /\ \A r \in page : Live(r.id) /\ r.key = rows[r.id].key
        /\ page = {} => Rows \subseteq Past(w)
    BY <1>1, PageRead
  <1> HIDE DEF page
  <1>3. CASE page = {}
    <2>1. jobs' = [jobs EXCEPT ![w] = NoJob] /\ done' = done \cup {jobs[w].kind}
      BY <1>3 DEF FetchPage, page
    <2>2. Past(w) \cap S = S
      BY <1>2, <1>3
    <2> QED BY <2>1, <2>2 DEF Reached
  <1>4. CASE page # {}
    <2>1. jobs' = [jobs EXCEPT ![w].pc = "convert", ![w].page = page] /\ done' = done
      BY <1>4 DEF FetchPage, page
    <2>2. jobs[w] \in JobType /\ jobs \in [Workers -> JobType]
      BY DEF TypeInv, TypeOK
    <2>3. /\ jobs'[w].pc = "convert" /\ jobs'[w].page = page
          /\ jobs'[w].kind = jobs[w].kind /\ jobs'[w].offset = jobs[w].offset
      BY <2>1, <2>2 DEF JobType
    <2>4. Edge(w) = jobs[w].offset /\ Edge(w)' = jobs[w].offset + BatchSize
      BY <1>1, <2>2, <2>3 DEF Edge, JobType
    <2>5. Paged(w) = {} /\ Paged(w)' = {r.id : r \in page}
      BY <1>1, <2>3 DEF Paged, TypeInv, JobOK
    <2>6. ASSUME NEW i \in Ids PROVE Rank(i)' = Rank(i) /\ Rank(i) \in Nat
      BY <1>1, RankType DEF Rank, Live
    <2>7. Rows' = Rows
      BY <1>1 DEF Rows, Live
    <2>8. Past(w)' = Past(w)
      <3>1. ASSUME NEW i \in Rows
            PROVE  (Rank(i)' < Edge(w)' /\ i \notin Paged(w)') <=> (Rank(i) < Edge(w) /\ i \notin Paged(w))
        <4>1. i \in Ids /\ Rank(i)' = Rank(i) /\ Rank(i) \in Nat
          BY <2>6 DEF Rows
        <4>2. jobs[w].offset \in Nat /\ BatchSize \in Nat
          BY <2>2, EncryptionAssumption DEF JobType
        <4>3. i \in Paged(w)' <=> Rank(i) \in Edge(w)..(Edge(w) + BatchSize - 1)
          BY <1>2, <2>5
        <4>4. i \in Paged(w)' <=> Edge(w) <= Rank(i) /\ Rank(i) <= Edge(w) + BatchSize - 1
          BY <2>4, <4>1, <4>2, <4>3
        <4> QED BY <2>4, <2>5, <4>1, <4>2, <4>4
      <3> QED BY <2>7, <3>1 DEF Past
    <2>9. \A row \in page : Skips(jobs[w].kind, row.key) => row.id \notin S
      BY <1>2
    <2> QED BY <2>1, <2>3, <2>8, <2>9
  <1> QED BY <1>3, <1>4

\* A row is done with: it is none of what the job is about, or it is no more.
LEMMA ReachedByConvert ==
    ASSUME TypeInv, NEW w \in Workers, ConvertRow(w),
           NEW S \in SUBSET Rows, NEW T \in SUBSET S, Reached(w, S),
           \A i \in T : rows'[i].key # NewKey(jobs[w].kind)
    PROVE  /\ jobs'[w].kind = jobs[w].kind /\ jobs'[w].pc # "idle" /\ done' = done
           /\ Past(w)' \cap T \subseteq Past(w) \cap S
           /\ \A row \in jobs'[w].page : Skips(jobs'[w].kind, row.key) => row.id \notin T
  <1>1. PICK row \in jobs[w].page :
            /\ jobs[w].pc = "convert" /\ Convert(jobs[w].kind, row)
            /\ jobs' = [jobs EXCEPT ![w].page = @ \ {row},
                           ![w].pc = IF jobs[w].page = {row} THEN "fetch" ELSE "convert",
                           ![w].offset = IF jobs[w].page = {row} THEN @ + BatchSize ELSE @]
            /\ done' = done
    BY DEF ConvertRow, First
  <1>2. jobs[w] \in JobType /\ jobs \in [Workers -> JobType] /\ rows \in [Ids -> RowType]
    BY DEF TypeInv, TypeOK
  <1>3. /\ jobs'[w].kind = jobs[w].kind /\ jobs'[w].page = jobs[w].page \ {row}
        /\ jobs'[w].pc = IF jobs[w].page = {row} THEN "fetch" ELSE "convert"
        /\ jobs'[w].offset = IF jobs[w].page = {row} THEN jobs[w].offset + BatchSize ELSE jobs[w].offset
    BY <1>1, <1>2 DEF JobType
  <1>4. row \in PageRow /\ row.id \in Ids
    BY <1>1, <1>2 DEF JobType, PageRow
  <1>5. \A i \in Ids : Live(i)' <=> Live(i)
    <2>1. CASE rows' = rows
      BY <2>1 DEF Live
    <2>2. CASE rows' = [rows EXCEPT ![row.id].key = NewKey(jobs[w].kind)]
      BY <1>2, <1>4, <2>2 DEF Live, RowType
    <2> QED BY <1>1, <2>1, <2>2 DEF Convert
  <1>6. \A i \in Ids : Rank(i)' = Rank(i)
    BY <1>5 DEF Rank
  <1>7. Rows' = Rows
    BY <1>5 DEF Rows
  <1>8. Edge(w)' = Edge(w)
    <2>1. jobs[w].offset \in Nat /\ BatchSize \in Nat
      BY <1>2, EncryptionAssumption DEF JobType
    <2>2. Edge(w) = jobs[w].offset + BatchSize
      BY <1>1 DEF Edge
    <2>3. CASE jobs[w].page = {row}
      BY <1>3, <2>1, <2>2, <2>3 DEF Edge
    <2>4. CASE jobs[w].page # {row}
      BY <1>3, <2>1, <2>2, <2>4 DEF Edge
    <2> QED BY <2>3, <2>4
  <1>9. Past(w)' \subseteq Past(w) \cup {row.id}
    <2>1. Paged(w) \subseteq Paged(w)' \cup {row.id}
      BY <1>3 DEF Paged
    <2> QED BY <1>6, <1>7, <1>8, <2>1 DEF Past, Rows
  <1>10. row.id \notin T
    <2>1. CASE Skips(jobs[w].kind, row.key)
      BY <1>1, <2>1 DEF Reached, Skimmed
    <2>2. CASE ~Live(row.id)
      BY <2>2 DEF Rows
    <2>3. CASE rows' = [rows EXCEPT ![row.id].key = NewKey(jobs[w].kind)]
      <3>1. rows'[row.id].key = NewKey(jobs[w].kind)
        BY <1>2, <1>4, <2>3 DEF RowType
      <3> QED BY <3>1
    <2> QED BY <1>1, <2>1, <2>2, <2>3 DEF Convert
  <1>11. \A r \in jobs'[w].page : Skips(jobs'[w].kind, r.key) => r.id \notin T
    BY <1>3 DEF Reached, Skimmed
  <1>12. Past(w)' \cap T \subseteq Past(w) \cap S
    BY <1>9, <1>10
  <1>13. jobs'[w].pc # "idle"
    BY <1>3
  <1> QED BY <1>1, <1>3, <1>11, <1>12, <1>13

LEMMA JobSteps ==
    ASSUME TypeInv, [Next]_vars, NEW w \in Workers, jobs[w].pc # "idle"
    PROVE  jobs'[w] = jobs[w] \/ FetchPage(w) \/ ConvertRow(w) \/ Crash(w)
  <1>0. jobs \in [Workers -> JobType]
    BY DEF TypeInv, TypeOK
  <1>1. CASE UNCHANGED vars
    BY <1>1 DEF vars
  <1>2. ASSUME NEW v \in Workers, Expire(v) \/ Prepare(v) \/ Store(v) PROVE jobs' = jobs
    BY <1>2 DEF Expire, Prepare, Store
  <1>3. ASSUME NEW v \in Workers, Submit(v) PROVE jobs'[w] = jobs[w]
    <2>1. v # w
      BY <1>3 DEF Submit
    <2>2. \E kind : jobs' = jobs \/ Start(v, kind)
      BY <1>3 DEF Submit
    <2> QED BY <1>0, <2>1, <2>2 DEF Start
  <1>4. ASSUME NEW v \in Workers, Rotate(v) PROVE jobs'[w] = jobs[w]
    BY <1>0, <1>4 DEF Rotate, Start
  <1>5. ASSUME NEW v \in Workers, v # w, FetchPage(v) PROVE jobs'[w] = jobs[w]
    <2>1. \E job : jobs' = [jobs EXCEPT ![v] = job]
      BY <1>5 DEF FetchPage
    <2> QED BY <1>0, <1>5, <2>1
  <1>6. ASSUME NEW v \in Workers, v # w, ConvertRow(v) PROVE jobs'[w] = jobs[w]
    <2>1. \E job : jobs' = [jobs EXCEPT ![v] = job]
      BY <1>6 DEF ConvertRow
    <2> QED BY <1>0, <1>6, <2>1
  <1>7. ASSUME NEW v \in Workers, v # w, Crash(v) PROVE jobs'[w] = jobs[w]
    BY <1>0, <1>7 DEF Crash
  <1>8. ASSUME NEW j \in Ids, DeleteWebhook(j) PROVE jobs' = jobs
    BY <1>8 DEF DeleteWebhook
  <1> QED BY <1>1, <1>2, <1>3, <1>4, <1>5, <1>6, <1>7, <1>8 DEF Next, Work

LEMMA ReachedNext ==
    ASSUME TypeInv, [Next]_vars, NEW w \in Workers, jobs[w].pc # "idle",
           NEW S \in SUBSET Rows, NEW T \in SUBSET S, Reached(w, S),
           \A i \in S : ~Skips(jobs[w].kind, rows[i].key),
           \A i \in T : rows'[i].key # NewKey(jobs[w].kind)
    PROVE  \/ Crash(w)
           \/ jobs'[w].pc = "idle" /\ Cardinality(T) <= Cardinality(Deleted')
           \/ /\ jobs'[w].pc # "idle" /\ jobs'[w].kind = jobs[w].kind
              /\ Cardinality(Past(w)' \cap T) <= Cardinality(Deleted')
              /\ \A row \in jobs'[w].page : Skips(jobs'[w].kind, row.key) => row.id \notin T
  <1>1. /\ Cardinality(Past(w) \cap S) \in Nat /\ IsFiniteSet(Past(w) \cap S)
        /\ Cardinality(Past(w) \cap S) <= Cardinality(Deleted)
    BY PastFinite DEF Reached
  <1>2. /\ Cardinality(Deleted) \in Nat /\ Cardinality(Deleted') \in Nat
        /\ Cardinality(Deleted) <= Cardinality(Deleted')
    BY DeletedGrows
  <1>3. CASE jobs'[w] = jobs[w]
    BY <1>3, ReachedBeside
  <1>4. CASE FetchPage(w)
    <2>1. CASE /\ jobs' = [jobs EXCEPT ![w] = NoJob] /\ done' = done \cup {jobs[w].kind}
               /\ Cardinality(S) <= Cardinality(Deleted)
      <3>1. jobs'[w].pc = "idle"
        BY <2>1 DEF NoJob, TypeInv, TypeOK
      <3>2. S \subseteq Ids
        BY DEF Rows
      <3>3. IsFiniteSet(S) /\ Cardinality(S) \in Nat /\ Cardinality(T) \in Nat
        BY <3>2, RowsFinite
      <3>4. Cardinality(T) <= Cardinality(S)
        BY <3>3, FS_Subset
      <3> QED BY <1>2, <2>1, <3>1, <3>3, <3>4
    <2>2. CASE /\ done' = done /\ jobs'[w].kind = jobs[w].kind /\ jobs'[w].pc # "idle"
               /\ Past(w)' \cap S = Past(w) \cap S
               /\ \A row \in jobs'[w].page : Skips(jobs'[w].kind, row.key) => row.id \notin S
      <3>1. Past(w)' \cap T \subseteq Past(w) \cap S
        BY <2>2
      <3>2. Cardinality(Past(w)' \cap T) \in Nat /\ Cardinality(Past(w)' \cap T) <= Cardinality(Past(w) \cap S)
        BY <1>1, <3>1, FS_Subset, FS_CardinalityType
      <3> QED BY <1>1, <1>2, <2>2, <3>2
    <2> QED BY <1>4, <2>1, <2>2, ReachedByFetch
  <1>5. CASE ConvertRow(w)
    <2>1. /\ jobs'[w].kind = jobs[w].kind /\ jobs'[w].pc # "idle"
          /\ Past(w)' \cap T \subseteq Past(w) \cap S
          /\ \A row \in jobs'[w].page : Skips(jobs'[w].kind, row.key) => row.id \notin T
      BY <1>5, ReachedByConvert
    <2>2. Cardinality(Past(w)' \cap T) \in Nat /\ Cardinality(Past(w)' \cap T) <= Cardinality(Past(w) \cap S)
      BY <1>1, <2>1, FS_Subset, FS_CardinalityType
    <2> QED BY <1>1, <1>2, <2>1, <2>2
  <1> QED BY <1>3, <1>4, <1>5, JobSteps
-----------------------------------------------------------------------------
(* The rotation.                                                              *)

LEMMA JobStarts ==
    ASSUME TypeInv, [Next]_vars, NEW w \in Workers, jobs[w].pc = "idle", jobs'[w].pc # "idle"
    PROVE  jobs'[w].pc = "fetch" /\ jobs'[w].offset = 0
  <1>0. jobs \in [Workers -> JobType]
    BY DEF TypeInv, TypeOK
  <1>1. jobs' # jobs
    OBVIOUS
  <1>2. ASSUME NEW v \in Workers, Submit(v) \/ Rotate(v)
        PROVE  jobs'[w].pc = "fetch" /\ jobs'[w].offset = 0
    <2>1. \E kind : Start(v, kind)
      BY <1>1, <1>2 DEF Submit, Rotate
    <2>2. jobs'[v].pc = "fetch" /\ jobs'[v].offset = 0 /\ \A u \in Workers : u # v => jobs'[u] = jobs[u]
      BY <1>0, <2>1 DEF Start
    <2> QED BY <2>2
  <1>3. ASSUME NEW v \in Workers, FetchPage(v) PROVE v # w /\ jobs'[w] = jobs[w]
    <2>1. v # w
      BY <1>3 DEF FetchPage
    <2>2. \E job : jobs' = [jobs EXCEPT ![v] = job]
      BY <1>3 DEF FetchPage
    <2> QED BY <1>0, <2>1, <2>2
  <1>4. ASSUME NEW v \in Workers, ConvertRow(v) PROVE v # w /\ jobs'[w] = jobs[w]
    <2>1. v # w
      BY <1>4 DEF ConvertRow
    <2>2. \E job : jobs' = [jobs EXCEPT ![v] = job]
      BY <1>4 DEF ConvertRow
    <2> QED BY <1>0, <2>1, <2>2
  <1>5. ASSUME NEW v \in Workers, Crash(v) PROVE jobs'[w].pc = "idle"
    BY <1>0, <1>5 DEF Crash, NoJob
  <1>6. ASSUME NEW v \in Workers, Expire(v) \/ Prepare(v) \/ Store(v) PROVE jobs' = jobs
    BY <1>6 DEF Expire, Prepare, Store
  <1>7. ASSUME NEW j \in Ids, DeleteWebhook(j) PROVE jobs' = jobs
    BY <1>7 DEF DeleteWebhook
  <1>8. ~UNCHANGED vars
    BY <1>1 DEF vars
  <1> QED BY <1>1, <1>2, <1>3, <1>4, <1>5, <1>6, <1>7, <1>8 DEF Next, Work

LEMMA KindStays ==
    ASSUME TypeInv, [Next]_vars, NEW w \in Workers, jobs[w].pc # "idle", jobs'[w].pc # "idle"
    PROVE  jobs'[w].kind = jobs[w].kind
  <1>0. jobs \in [Workers -> JobType] /\ jobs[w] \in JobType
    BY DEF TypeInv, TypeOK
  <1>1. CASE FetchPage(w)
    <2>1. \/ jobs' = [jobs EXCEPT ![w] = NoJob]
          \/ \E page : jobs' = [jobs EXCEPT ![w].pc = "convert", ![w].page = page]
      BY <1>1 DEF FetchPage
    <2> QED BY <1>0, <2>1 DEF NoJob, JobType
  <1>2. CASE ConvertRow(w)
    <2>1. PICK row \in First(jobs[w].page) :
            jobs' = [jobs EXCEPT ![w].page = @ \ {row},
                        ![w].pc = IF jobs[w].page = {row} THEN "fetch" ELSE "convert",
                        ![w].offset = IF jobs[w].page = {row} THEN @ + BatchSize ELSE @]
      BY <1>2 DEF ConvertRow
    <2> QED BY <1>0, <2>1 DEF JobType
  <1>3. CASE Crash(w)
    BY <1>0, <1>3 DEF Crash, NoJob
  <1> QED BY <1>1, <1>2, <1>3, JobSteps

LEMMA DoneSteps ==
    ASSUME TypeInv, [Next]_vars, "rotate" \in done', "rotate" \notin done
    PROVE  \E w \in Workers : FetchPage(w) /\ jobs[w].kind = "rotate"
  <1>1. done' # done
    OBVIOUS
  <1>2. PICK w \in Workers : FetchPage(w)
    BY <1>1 DEF Next, vars, Expire, Prepare, Store, Submit, Rotate, Work, ConvertRow, Crash, DeleteWebhook
  <1>3. done' = done \cup {jobs[w].kind}
    BY <1>1, <1>2 DEF FetchPage
  <1> QED BY <1>2, <1>3

LEMMA RetiredIsConverted ==
    /\ Retired \subseteq Rows
    /\ \A i \in Retired : ~Skips("rotate", rows[i].key)
    /\ \A i \in Retired' : rows'[i].key # NewKey("rotate")
  BY DEF Retired, Rows, Skips, NewKey

LEMMA RotationNext == TypeInv /\ TypeInv' /\ RotationInv /\ [Next]_vars => RotationInv'
  <1> SUFFICES ASSUME TypeInv, TypeInv', RotationInv, [Next]_vars, NEW w \in Workers,
                      jobs'[w].pc # "idle", jobs'[w].kind = "rotate"
               PROVE  /\ Cardinality(Past(w)' \cap Retired') <= Cardinality(Deleted')
                      /\ \A row \in jobs'[w].page : Skips(jobs'[w].kind, row.key) => row.id \notin Retired'
    BY DEF RotationInv, Reached, Skimmed
  <1>1. CASE jobs[w].pc = "idle"
    <2>1. Cardinality(Past(w)' \cap Retired') = 0 /\ jobs'[w].page = {}
      BY <1>1, JobStarts, StartReaches
    <2> QED BY <2>1, DeletedGrows
  <1>2. CASE jobs[w].pc # "idle"
    <2>1. jobs[w].kind = "rotate" /\ Reached(w, Retired)
      BY <1>2, KindStays DEF RotationInv
    <2>2. Retired' \in SUBSET Retired /\ Retired \in SUBSET Rows
      BY RetiredShrinks, RetiredIsConverted
    <2>3. ~Crash(w)
      BY DEF Crash, NoJob, TypeInv, TypeOK
    <2>4. PICK T \in SUBSET Retired : T = Retired'
      BY <2>2
    <2>5. /\ \A i \in Retired : ~Skips(jobs[w].kind, rows[i].key)
          /\ \A i \in T : rows'[i].key # NewKey(jobs[w].kind)
      BY <2>1, <2>4, RetiredIsConverted
    <2>6. /\ Cardinality(Past(w)' \cap T) <= Cardinality(Deleted')
          /\ \A row \in jobs'[w].page : Skips(jobs'[w].kind, row.key) => row.id \notin T
      BY <1>2, <2>1, <2>2, <2>3, <2>5, ReachedNext
    <2> QED BY <2>4, <2>6
  <1> QED BY <1>1, <1>2

LEMMA RotationReachNext == TypeInv /\ RotationInv /\ RotationReach /\ [Next]_vars => RotationReach'
  <1> SUFFICES ASSUME TypeInv, RotationInv, RotationReach, [Next]_vars, "rotate" \in done'
               PROVE  Cardinality(Retired') <= Cardinality(Deleted')
    BY DEF RotationReach
  <1>1. Retired' \subseteq Retired /\ Retired \subseteq Ids
    BY RetiredShrinks DEF Retired
  <1>2. Retired' \subseteq Ids /\ IsFiniteSet(Retired)
    BY <1>1, RowsFinite
  <1>3. /\ Cardinality(Retired') \in Nat /\ Cardinality(Retired) \in Nat
        /\ Cardinality(Retired') <= Cardinality(Retired)
    BY <1>1, <1>2, RowsFinite, FS_Subset
  <1>4. CASE "rotate" \in done
    BY <1>3, <1>4, DeletedGrows DEF RotationReach
  <1>5. CASE "rotate" \notin done
    <2>1. PICK w \in Workers : FetchPage(w) /\ jobs[w].kind = "rotate"
      BY <1>5, DoneSteps
    <2>2. jobs[w].pc # "idle" /\ Reached(w, Retired)
      BY <2>1 DEF FetchPage, RotationInv
    <2>3. done' # done
      BY <1>5
    <2>4. Cardinality(Retired) <= Cardinality(Deleted)
      BY <2>1, <2>2, <2>3, RetiredIsConverted, ReachedByFetch
    <2> QED BY <1>3, <2>4, DeletedGrows
  <1> QED BY <1>4, <1>5
-----------------------------------------------------------------------------
(* The migration.                                                             *)

LEMMA Counting ==
    ASSUME TypeInv, [Next]_vars
    PROVE  /\ count["changes"] \in Nat /\ count["crashes"] \in Nat
           /\ count'["crashes"] \in Nat /\ count["crashes"] <= count'["crashes"]
           /\ \/ posture' = posture /\ count'["changes"] = count["changes"]
              \/ \E w \in Workers : Submit(w) /\ count'["changes"] = count["changes"] + 1
  <1>0. count \in [Counters -> Nat] /\ count["changes"] \in Nat /\ count["crashes"] \in Nat
    BY DEF TypeInv, TypeOK, Counters
  <1>1. CASE UNCHANGED vars
    BY <1>0, <1>1 DEF vars
  <1>2. ASSUME NEW w \in Workers, Expire(w) \/ Store(w) \/ FetchPage(w) \/ ConvertRow(w)
        PROVE  count' = count /\ posture' = posture
    BY <1>2 DEF Expire, Store, FetchPage, ConvertRow
  <1>3. ASSUME NEW w \in Workers, Submit(w)
        PROVE  count'["changes"] = count["changes"] + 1 /\ count'["crashes"] = count["crashes"]
    BY <1>0, <1>3 DEF Submit, Bounded, Counters
  <1>4. ASSUME NEW w \in Workers, Prepare(w) \/ Rotate(w)
        PROVE  posture' = posture /\ count'["changes"] = count["changes"] /\ count'["crashes"] = count["crashes"]
    BY <1>0, <1>4 DEF Prepare, Rotate, Bounded, Counters
  <1>5. ASSUME NEW w \in Workers, Crash(w)
        PROVE  posture' = posture /\ count'["changes"] = count["changes"] /\ count'["crashes"] = count["crashes"] + 1
    BY <1>0, <1>5 DEF Crash, Bounded, Counters
  <1>6. ASSUME NEW j \in Ids, DeleteWebhook(j) PROVE count' = count /\ posture' = posture
    BY <1>6 DEF DeleteWebhook
  <1> QED BY <1>0, <1>1, <1>2, <1>3, <1>4, <1>5, <1>6 DEF Next, Work

LEMMA CrashCounted ==
    ASSUME TypeInv, NEW w \in Workers, Crash(w)
    PROVE  count'["crashes"] # 0
  BY DEF Crash, Bounded, TypeInv, TypeOK

\* As long as nothing was changed, whoever remembers a posture remembers this one.
LEMMA CachesKnow ==
    ASSUME TypeInv, [Next]_vars, posture' = posture,
           \A w \in Workers : cache[w] \in {posture, Null}
    PROVE  \/ \E w \in Workers : Submit(w)
           \/ \A w \in Workers : cache'[w] \in {posture, Null}
  <1>0. cache \in [Workers -> BOOLEAN \cup {Null}] /\ \A w \in Workers : Active(w) = posture
    BY DEF TypeInv, TypeOK, Active
  <1>1. CASE cache' = cache
    BY <1>1
  <1>2. ASSUME NEW w \in Workers, Remember(w, Null) \/ Remember(w, Active(w))
        PROVE  \A v \in Workers : cache'[v] \in {posture, Null}
    BY <1>0, <1>2 DEF Remember
  <1>3. ASSUME NEW w \in Workers, Expire(w) \/ Prepare(w) \/ Rotate(w) \/ Crash(w)
        PROVE  Remember(w, Null) \/ Remember(w, Active(w))
    BY <1>3 DEF Expire, Prepare, Rotate, Crash
  <1>4. ASSUME NEW w \in Workers, Store(w) \/ FetchPage(w) \/ ConvertRow(w) PROVE cache' = cache
    BY <1>4 DEF Store, FetchPage, ConvertRow
  <1>5. ASSUME NEW j \in Ids, DeleteWebhook(j) PROVE cache' = cache
    BY <1>5 DEF DeleteWebhook
  <1>6. UNCHANGED vars => cache' = cache
    BY DEF vars
  <1> QED BY <1>1, <1>2, <1>3, <1>4, <1>5, <1>6 DEF Next, Work

LEMMA WrongIsConverted ==
    ASSUME TypeInv, NEW w \in Workers, Follows(w), posture' = posture
    PROVE  /\ Wrong \subseteq Rows
           /\ \A i \in Wrong : ~Skips(jobs[w].kind, rows[i].key)
           /\ \A i \in Wrong' : rows'[i].key # NewKey(jobs[w].kind)
  <1>1. posture \in BOOLEAN
    BY DEF TypeInv, TypeOK
  <1>2. CASE posture = TRUE
    BY <1>2 DEF Follows, Wrong, Rows, Skips, NewKey
  <1>3. CASE posture = FALSE
    BY <1>3 DEF Follows, Wrong, Rows, Skips, NewKey
  <1> QED BY <1>1, <1>2, <1>3

\* The rows that are wrong are fewer than before, as are those who may be.
LEMMA FewerWrong ==
    ASSUME TypeInv, [Next]_vars, Wrong' \subseteq Wrong
    PROVE  /\ Cardinality(Wrong') \in Nat /\ Cardinality(Wrong) \in Nat
           /\ Cardinality(Wrong') <= Cardinality(Wrong)
  <1>1. Wrong \subseteq Ids /\ Wrong' \subseteq Ids
    BY DEF Wrong
  <1>2. IsFiniteSet(Wrong)
    BY <1>1, RowsFinite
  <1> QED BY <1>1, <1>2, RowsFinite, FS_Subset

\* The first change: either nothing is asked for, or the job that does it starts.
LEMMA FirstChange ==
    ASSUME TypeInv, TypeInv', [Next]_vars, NEW w \in Workers, Submit(w),
           Wrong = {}, \A v \in Workers : cache[v] \in {posture, Null}
    PROVE  \/ Cardinality(Wrong') <= Cardinality(Deleted')
           \/ Follows(w)' /\ Reached(w, Wrong)'
  <1>0. posture \in BOOLEAN /\ jobs \in [Workers -> JobType]
    BY DEF TypeInv, TypeOK
  <1>1. Active(w) = posture
    BY <1>0 DEF Active
  <1>2. PICK on \in BOOLEAN :
          /\ posture' = on
          /\ IF on = Active(w) THEN jobs' = jobs
             ELSE Start(w, IF on THEN "encrypt" ELSE "decrypt")
    BY DEF Submit
  <1>3. CASE on = posture
    <2>1. Wrong' = {}
      BY <1>2, <1>3, WrongShrinks
    <2> QED BY <2>1, FS_EmptySet, DeletedGrows
  <1>4. CASE on # posture
    <2>1. /\ jobs'[w].pc = "fetch" /\ jobs'[w].offset = 0
          /\ jobs'[w].kind = IF posture' THEN "encrypt" ELSE "decrypt"
      BY <1>0, <1>1, <1>2, <1>4 DEF Start
    <2>2. PICK T : T = Wrong'
      OBVIOUS
    <2>3. Cardinality(Past(w)' \cap T) = 0 /\ jobs'[w].page = {}
      BY <2>1, StartReaches
    <2>4. Reached(w, Wrong)'
      BY <2>2, <2>3, DeletedGrows DEF Reached, Skimmed
    <2> QED BY <2>1, <2>4 DEF Follows
  <1> QED BY <1>3, <1>4

LEMMA MigrationNext == TypeInv /\ TypeInv' /\ MigrationInv /\ [Next]_vars => MigrationInv'
  <1> SUFFICES ASSUME TypeInv, TypeInv', MigrationInv, [Next]_vars PROVE MigrationInv'
    OBVIOUS
  <1>1. ASSUME count'["changes"] = 0
        PROVE  Wrong' = {} /\ \A w \in Workers : cache'[w] \in {posture', Null}
    <2>1. count["changes"] = 0 /\ posture' = posture /\ ~\E w \in Workers : Submit(w)
      <3>1. ASSUME NEW w \in Workers, Submit(w) PROVE count'["changes"] = count["changes"] + 1
        BY <3>1 DEF Submit, Bounded, TypeInv, TypeOK
      <3>2. count["changes"] \in Nat
        BY Counting
      <3> QED BY <1>1, <3>1, <3>2, Counting
    <2>2. Wrong = {} /\ \A w \in Workers : cache[w] \in {posture, Null}
      BY <2>1 DEF MigrationInv
    <2>3. Wrong' = {}
      BY <2>1, <2>2, WrongShrinks
    <2> QED BY <2>1, <2>2, <2>3, CachesKnow
  <1>2. ASSUME count'["changes"] = 1, count'["crashes"] = 0
        PROVE  \/ Cardinality(Wrong') <= Cardinality(Deleted')
               \/ \E w \in Workers : Follows(w)' /\ Reached(w, Wrong)'
    <2>1. CASE \E w \in Workers : Submit(w) /\ count'["changes"] = count["changes"] + 1
      <3>1. PICK w \in Workers : Submit(w) /\ count'["changes"] = count["changes"] + 1
        BY <2>1
      <3>2. count["changes"] = 0
        BY <1>2, <3>1, Counting
      <3>3. Wrong = {} /\ \A v \in Workers : cache[v] \in {posture, Null}
        BY <3>2 DEF MigrationInv
      <3> QED BY <3>1, <3>3, FirstChange
    <2>2. CASE posture' = posture /\ count'["changes"] = count["changes"]
      <3>1. count["changes"] = 1 /\ count["crashes"] = 0
        BY <1>2, <2>2, Counting
      <3>2. Wrong' \subseteq Wrong
        BY <2>2, WrongShrinks
      <3>3. /\ Cardinality(Wrong') \in Nat /\ Cardinality(Wrong) \in Nat
            /\ Cardinality(Wrong') <= Cardinality(Wrong)
        BY <3>2, FewerWrong
      <3>4. CASE Cardinality(Wrong) <= Cardinality(Deleted)
        BY <3>3, <3>4, DeletedGrows
      <3>5. ASSUME NEW w \in Workers, Follows(w), Reached(w, Wrong)
            PROVE  \/ Cardinality(Wrong') <= Cardinality(Deleted')
                   \/ Follows(w)' /\ Reached(w, Wrong)'
        <4>1. jobs[w].pc # "idle" /\ ~Crash(w)
          BY <1>2, <3>5, CrashCounted DEF Follows
        <4>2. PICK T \in SUBSET Wrong : T = Wrong'
          BY <3>2
        <4>3. /\ Wrong \in SUBSET Rows
              /\ \A i \in Wrong : ~Skips(jobs[w].kind, rows[i].key)
              /\ \A i \in T : rows'[i].key # NewKey(jobs[w].kind)
          BY <2>2, <3>5, <4>2, WrongIsConverted
        <4>4. \/ jobs'[w].pc = "idle" /\ Cardinality(T) <= Cardinality(Deleted')
              \/ /\ jobs'[w].pc # "idle" /\ jobs'[w].kind = jobs[w].kind
                 /\ Cardinality(Past(w)' \cap T) <= Cardinality(Deleted')
                 /\ \A row \in jobs'[w].page : Skips(jobs'[w].kind, row.key) => row.id \notin T
          BY <3>5, <4>1, <4>3, ReachedNext
        <4>5. CASE jobs'[w].pc = "idle" /\ Cardinality(T) <= Cardinality(Deleted')
          BY <4>2, <4>5
        <4>6. CASE /\ jobs'[w].pc # "idle" /\ jobs'[w].kind = jobs[w].kind
                   /\ Cardinality(Past(w)' \cap T) <= Cardinality(Deleted')
                   /\ \A row \in jobs'[w].page : Skips(jobs'[w].kind, row.key) => row.id \notin T
          <5>1. Follows(w)'
            BY <2>2, <3>5, <4>6 DEF Follows
          <5>2. Reached(w, Wrong)'
            BY <4>2, <4>6 DEF Reached, Skimmed
          <5> QED BY <5>1, <5>2
        <4> QED BY <4>4, <4>5, <4>6
      <3> QED BY <3>1, <3>4, <3>5 DEF MigrationInv
    <2> QED BY <2>1, <2>2, Counting
  <1> QED BY <1>1, <1>2 DEF MigrationInv

-----------------------------------------------------------------------------

LEMMA InitIInv == Init => IInv
  <1> SUFFICES ASSUME Init PROVE IInv
    OBVIOUS
  <1>1. TypeInv
    BY InitType
  <1>2. RotationReach
    BY DEF Init, RotationReach
  <1>3. RotationInv
    BY DEF Init, NoJob, RotationInv
  <1>4. count["changes"] = 0 /\ \A w \in Workers : cache[w] \in {posture, Null}
    BY DEF Init
  <1>5. Wrong = {}
    <2>1. PICK live \in Stocks :
            rows = [i \in Ids |-> IF i \in live
                      THEN [state |-> "live", key |-> IF posture THEN "retired" ELSE "none"]
                      ELSE [state |-> "unborn", key |-> "none"]]
      BY DEF Init
    <2>2. \A i \in Ids : Live(i) => rows[i].key = IF posture THEN "retired" ELSE "none"
      BY <2>1 DEF Live
    <2>3. posture \in BOOLEAN
      BY DEF Init
    <2> QED BY <2>2, <2>3 DEF Wrong
  <1> QED BY <1>1, <1>2, <1>3, <1>4, <1>5 DEF IInv, MigrationInv

LEMMA NextIInv == IInv /\ [Next]_vars => IInv'
  BY NextType, RotationNext, RotationReachNext, MigrationNext DEF IInv

LEMMA IInvReach == IInv => Reach
  <1> SUFFICES ASSUME IInv PROVE Reach
    OBVIOUS
  <1>1. TypeOK /\ RotationReach
    BY DEF IInv, TypeInv
  <1>2. MigrationReach
    <2> SUFFICES ASSUME Settled, count["changes"] = 1, count["crashes"] = 0
                 PROVE  Cardinality(Wrong) <= Cardinality(Deleted)
      BY DEF MigrationReach, Wrong
    <2>1. \A w \in Workers : ~Follows(w)
      BY DEF Settled, Follows
    <2> QED BY <2>1 DEF IInv, MigrationInv
  <1> QED BY <1>1, <1>2 DEF Reach

\* Whatever is created, edited and deleted while a job goes over the table in
\* pages by offset, it overlooks no more rows than were deleted: so much is left
\* under the retired key when a rotation has ended (rotate_keys), and against the
\* posture after one change of it (encrypt_scope, decrypt_scope), but for the rows
\* stored by someone who did not know of the change.
THEOREM ReachHolds == Spec => []Reach
  <1>1. Spec => []IInv
    BY InitIInv, NextIInv, PTL DEF Spec
  <1> QED BY <1>1, IInvReach, PTL

-----------------------------------------------------------------------------
(* Files, the rows that point at them and everybody who touches either *)

Bytes == [whole : BOOLEAN, depth : Nat]
OwnersOf(c) == c.assets \cup c.relationships
FileRow(c) == [owner : OwnersOf(c), kind : {"file", "link"}, encrypted : BOOLEAN]

UploadType(c) ==
    [pc : {"none", "check", "insert", "audit", "done", "died", "failed"},
     owner : OwnersOf(c) \cup {Void}, kind : {"file", "link", Void},
     route : {"api", "form", Void}, encrypted : BOOLEAN]
DeleteType(c) == [pc : {"idle", "found", "audit", "died"}, item : c.items \cup {Void}, route : {"api", "form", Void}]
ReadType(c) == [pc : {"idle", "open"}, item : c.items \cup {Void}, encrypted : BOOLEAN, overtaken : BOOLEAN]
WorkType(c) ==
    [pc : {"idle", "next", "write", "mark"}, kind : {"encrypt", "decrypt", "rotate", Void},
     todo : SUBSET c.items, item : c.items \cup {Void}, data : Bytes \cup {Void}]

FileTyped(p) ==
    /\ owners \subseteq OwnersOf(FileParts[p]) /\ sealing \in BOOLEAN /\ known \subseteq BOOLEAN
    /\ docs \in [FileParts[p].items -> FileRow(FileParts[p]) \cup {Void}]
    /\ disk \in [FileParts[p].items -> Bytes \cup {Void}]
    /\ uploads \in [FileParts[p].items -> UploadType(FileParts[p])]
    /\ deletes \in [FileParts[p].deleters -> DeleteType(FileParts[p])]
    /\ reads \in [FileParts[p].readers -> ReadType(FileParts[p])]
    /\ work \in [FileParts[p].workers -> WorkType(FileParts[p])]
    /\ audited \in [FileParts[p].items -> [created : Nat, api : Nat, form : Nat]]
    /\ times \in [deletes : Nat, changes : Nat, rotations : Nat, crashes : Nat, overlaps : Nat]

\* The pcs of an upload that has had a row, or died; those of one that has not.
Landed == {"audit", "done", "died"}
Coming == {"none", "check", "insert", "failed"}

As(encrypted) == IF encrypted THEN [whole |-> TRUE, depth |-> 1] ELSE [whole |-> TRUE, depth |-> 0]

\* An upload, its file and its row.
UploadInv(p, i) ==
    /\ docs[i] # Void => /\ uploads[i].pc \in Landed
                         /\ docs[i].owner = uploads[i].owner /\ docs[i].kind = uploads[i].kind
    /\ uploads[i].pc \notin {"none", "failed"} =>
         /\ uploads[i].kind \in {"file", "link"} /\ uploads[i].route \in {"api", "form"}
         /\ uploads[i].owner \in OwnersOf(FileParts[p])
         /\ uploads[i].kind = "file" => disk[i] # Void
    /\ uploads[i].pc \in {"check", "insert"} /\ uploads[i].kind = "file" =>
         disk[i] = As(uploads[i].encrypted)
    /\ disk[i] # Void => /\ uploads[i].pc # "none"
                         /\ uploads[i].pc = "failed" => uploads[i].route = "form"
    /\ audited[i].created = IF uploads[i].pc = "done" THEN 1 ELSE 0

\* What a job has yet to do are files, and it holds one of them at a time.
Chores(j) == j.todo \cup ({j.item} \ {Void})
Sane(j) ==
    /\ j.pc # "idle" => j.kind \in {"encrypt", "decrypt", "rotate"}
    /\ j.pc \in {"write", "mark"} <=> j.item # Void
    /\ j.item \notin j.todo
    /\ j.pc = "idle" => j.todo = {}
    /\ j.pc = "write" => j.data # Void
    /\ j.pc = "mark" => j.kind # "rotate"
    /\ \A i \in Chores(j) : uploads[i].kind = "file" /\ uploads[i].pc \in Landed
Tasks(w) == Chores(work[w])
JobInv(p, w) == Sane(work[w])

\* Unless jobs have overlapped there is one, and its rows say what it wants them to.
LoneInv(p) ==
    times["overlaps"] = 0 => \A w \in FileParts[p].workers :
        /\ work[w].pc # "idle" => \A v \in FileParts[p].workers \ {w} : work[v].pc = "idle"
        /\ \A i \in Tasks(w) : docs[i] # Void => docs[i].encrypted = (work[w].kind # "encrypt")

\* What the file in hand has to become, and the files that are not, or will not
\* be, what their rows say.
Wanted(w) == As(work[w].kind # "decrypt")
Spoilt(w) == \/ work[w].pc = "write" /\ work[w].data # Wanted(w)
             \/ work[w].pc = "mark" /\ disk[work[w].item] # Wanted(w)
IsFault(p, i) ==
    /\ docs[i] # Void /\ docs[i].kind = "file"
    /\ \/ ~Shelf(p)!Rewriting(i) /\ disk[i] # As(docs[i].encrypted)
       \/ \E w \in FileParts[p].workers : work[w].item = i /\ Spoilt(w)
Faults(p) == {i \in FileParts[p].items : IsFault(p, i)}
FaultInv(p) == times["overlaps"] = 0 => Cardinality(Faults(p)) <= times["crashes"]

\* While nothing has crashed and no jobs have overlapped, a download that no job
\* has overtaken opens the file that its row told it of.
Calm == times["overlaps"] = 0 /\ times["crashes"] = 0
ReadInv(p, r) ==
    reads[r].pc = "open" =>
        /\ reads[r].item \in FileParts[p].items /\ uploads[reads[r].item].pc \in Landed
        /\ Calm /\ ~reads[r].overtaken =>
             ~Shelf(p)!Rewriting(reads[r].item) /\ disk[reads[r].item] = As(reads[r].encrypted)
ServedWhole == Calm => \A s \in served : s[2] = As(FALSE)

\* Who is about to tell that the API deleted an item: at most one, and no one once told.
Telling(p, i) == {d \in FileParts[p].deleters :
                    deletes[d].pc = "audit" /\ deletes[d].route = "api" /\ deletes[d].item = i}
TellInv(p, i) ==
    /\ audited[i].api <= 1
    /\ \A d, e \in Telling(p, i) : d = e
    /\ audited[i].api = 1 \/ docs[i] # Void \/ uploads[i].pc \in Coming => Telling(p, i) = {}
    /\ docs[i] # Void \/ uploads[i].pc \in Coming => audited[i].api = 0
    /\ uploads[i].pc \in {"audit", "done"} /\ docs[i] = Void /\ uploads[i].owner \in owners =>
         \/ audited[i].api + audited[i].form > 0
         \/ \E d \in FileParts[p].deleters : deletes[d].pc \in {"audit", "died"} /\ deletes[d].item = i
DeleteInv(p, d) ==
    deletes[d].pc # "idle" => deletes[d].item \in FileParts[p].items /\ deletes[d].route \in {"api", "form"}

FileInv(p) ==
    /\ FileTyped(p)
    /\ \A i \in FileParts[p].items : UploadInv(p, i) /\ TellInv(p, i)
    /\ \A w \in FileParts[p].workers : JobInv(p, w)
    /\ \A r \in FileParts[p].readers : ReadInv(p, r)
    /\ \A d \in FileParts[p].deleters : DeleteInv(p, d)
    /\ LoneInv(p) /\ FaultInv(p) /\ ServedWhole

LEMMA FileFacts ==
    ASSUME NEW p \in DOMAIN FileParts
    PROVE  /\ IsFiniteSet(FileParts[p].items) /\ Void \notin FileParts[p].items
           /\ Void \notin Bytes /\ Void \notin FileRow(FileParts[p])
  BY EvidenceAssumption DEF FileAssumption, Bytes, FileRow, OwnersOf

LEMMA BytesFacts ==
    ASSUME NEW p
    PROVE  /\ Shelf(p)!Plain = As(FALSE) /\ Shelf(p)!Encrypt(As(FALSE)) = As(TRUE)
           /\ Shelf(p)!Decrypt(As(TRUE)) = As(FALSE) /\ Shelf(p)!Deciphers(As(TRUE))
           /\ Shelf(p)!Empty \in Bytes
           /\ \A encrypted \in BOOLEAN : As(encrypted) \in Bytes
           /\ \A f \in Bytes : Shelf(p)!Encrypt(f) \in Bytes
           /\ \A f \in Bytes : Shelf(p)!Deciphers(f) => Shelf(p)!Decrypt(f) \in Bytes
  <1>1. /\ Shelf(p)!Plain = As(FALSE) /\ Shelf(p)!Deciphers(As(TRUE)) /\ Shelf(p)!Empty \in Bytes
        /\ \A encrypted \in BOOLEAN : As(encrypted) \in Bytes
    BY DEF As, Bytes, Shelf!Plain, Shelf!Deciphers, Shelf!Empty
  <1>2. \A f \in Bytes : /\ Shelf(p)!Encrypt(f) = [whole |-> f.whole, depth |-> f.depth + 1]
                         /\ Shelf(p)!Decrypt(f) = [whole |-> f.whole, depth |-> f.depth - 1]
    BY DEF Bytes, Shelf!Encrypt, Shelf!Decrypt
  <1>5. ASSUME NEW f \in Bytes PROVE Shelf(p)!Encrypt(f) \in Bytes
    <2>1. f.whole \in BOOLEAN /\ f.depth + 1 \in Nat BY DEF Bytes
    <2> QED BY <1>2, <2>1 DEF Bytes
  <1>6. ASSUME NEW f \in Bytes, Shelf(p)!Deciphers(f) PROVE Shelf(p)!Decrypt(f) \in Bytes
    <2>1. f.whole \in BOOLEAN /\ f.depth - 1 \in Nat BY <1>6 DEF Bytes, Shelf!Deciphers
    <2> QED BY <1>2, <2>1 DEF Bytes
  <1>4. Shelf(p)!Encrypt(As(FALSE)) = As(TRUE) /\ Shelf(p)!Decrypt(As(TRUE)) = As(FALSE)
    <2>1. As(FALSE) \in Bytes /\ As(TRUE) \in Bytes BY <1>1
    <2>2. As(FALSE).whole = As(TRUE).whole /\ As(FALSE).depth = 0 /\ As(TRUE).depth = 1 BY DEF As
    <2>3. ASSUME NEW f \in Bytes, NEW g \in Bytes, f.whole = g.whole, f.depth = 0, g.depth = 1
          PROVE  Shelf(p)!Encrypt(f) = g /\ Shelf(p)!Decrypt(g) = f
      <3>1. \A x, y \in Bytes : x.whole = y.whole /\ x.depth = y.depth => x = y BY DEF Bytes
      <3>2. g # f /\ Shelf(p)!Deciphers(g) BY <2>3 DEF Shelf!Deciphers
      <3>3. Shelf(p)!Encrypt(f) \in Bytes /\ Shelf(p)!Decrypt(g) \in Bytes BY <1>5, <1>6, <3>2
      <3>4. /\ Shelf(p)!Encrypt(f).whole = f.whole /\ Shelf(p)!Encrypt(f).depth = 1
            /\ Shelf(p)!Decrypt(g).whole = g.whole /\ Shelf(p)!Decrypt(g).depth = 0
        BY <1>2, <2>3
      <3> QED BY <2>3, <3>1, <3>3, <3>4
    <2> QED BY <2>1, <2>2, <2>3
  <1> QED BY <1>1, <1>4, <1>5, <1>6

-----------------------------------------------------------------------------
(* What a step does to the files. *)

FileCore(p) ==
    /\ FileTyped(p)
    /\ \A i \in FileParts[p].items : UploadInv(p, i)
    /\ \A w \in FileParts[p].workers : JobInv(p, w)

\* An upload under way: it may leave a file, and at last a row that is true of it.
Entered(p, i, u, f, r) ==
    /\ u \in UploadType(FileParts[p]) /\ f \in Bytes \cup {Void} /\ r \in FileRow(FileParts[p]) \cup {Void}
    /\ u.pc \in {"check", "insert", "audit", "failed"}
    /\ u.pc = "audit" <=> r # Void
    /\ r # Void => r.owner = u.owner /\ r.kind = u.kind /\ (r.kind = "file" => f = As(r.encrypted))
    /\ u.pc # "failed" =>
         /\ u.kind \in {"file", "link"} /\ u.route \in {"api", "form"} /\ u.owner \in OwnersOf(FileParts[p])
         /\ u.kind = "file" => f # Void
    /\ u.pc \in {"check", "insert"} /\ u.kind = "file" => f = As(u.encrypted)
    /\ f # Void => (u.pc = "failed" => u.route = "form")
    /\ uploads' = [uploads EXCEPT ![i] = u] /\ disk' = [disk EXCEPT ![i] = f] /\ docs' = [docs EXCEPT ![i] = r]

Entering(p, i) ==
    /\ i \in FileParts[p].items /\ uploads[i].pc \in Coming
    /\ UNCHANGED <<owners, deletes, reads, work, sealing, known, audited, served, times>>
    /\ \E u, f, r : Entered(p, i, u, f, r)

Settling(p, i) ==
    /\ i \in FileParts[p].items
    /\ UNCHANGED <<owners, docs, disk, deletes, reads, work, sealing, known, served>>
    /\ \/ /\ uploads[i].pc = "audit" /\ uploads' = [uploads EXCEPT ![i].pc = "done"]
          /\ audited' = [audited EXCEPT ![i].created = @ + 1] /\ times' = times
       \/ /\ uploads[i].pc \in {"check", "insert", "audit"} /\ uploads' = [uploads EXCEPT ![i].pc = "died"]
          /\ audited' = audited /\ times' = [times EXCEPT !.crashes = @ + 1]

LEMMA NoRowYet ==
    ASSUME NEW p \in DOMAIN FileParts, FileCore(p), NEW i \in FileParts[p].items, uploads[i].pc \in Coming
    PROVE  /\ docs[i] = Void /\ docs = [docs EXCEPT ![i] = Void]
           /\ uploads[i] \in UploadType(FileParts[p]) /\ disk[i] \in Bytes \cup {Void}
           /\ disk = [disk EXCEPT ![i] = disk[i]]
  <1>1. docs[i] = Void BY DEF FileCore, UploadInv, Landed, Coming
  <1> QED BY <1>1 DEF FileCore, FileTyped

LEMMA UploadEnters ==
    ASSUME NEW p \in DOMAIN FileParts, FileCore(p), NEW i \in FileParts[p].items,
           NEW o \in OwnersOf(FileParts[p]), NEW route \in {"api", "form"}, Shelf(p)!Upload(i, o, route)
    PROVE  Entering(p, i)
  <1>1. PICK encrypted \in known :
          /\ uploads' = [uploads EXCEPT ![i] = Shelf(p)!NewUpload(o, "file", route, encrypted)]
          /\ disk' = [disk EXCEPT ![i] = IF encrypted THEN Shelf(p)!Encrypt(Shelf(p)!Plain) ELSE Shelf(p)!Plain]
    BY DEF Shelf!Upload
  <1>2. uploads[i].pc = "none" /\ encrypted \in BOOLEAN
    BY DEF Shelf!Upload, FileCore, FileTyped
  <1> DEFINE u == [pc |-> "check", owner |-> o, kind |-> "file", route |-> route, encrypted |-> encrypted]
  <1>3. u \in UploadType(FileParts[p]) BY <1>2 DEF UploadType
  <1>4. uploads' = [uploads EXCEPT ![i] = u] /\ disk' = [disk EXCEPT ![i] = As(encrypted)]
    BY <1>1, <1>2, BytesFacts DEF Shelf!NewUpload
  <1>5. As(encrypted) \in Bytes /\ Void \notin Bytes BY <1>2, BytesFacts, FileFacts
  <1>6. Entered(p, i, u, As(encrypted), Void)
    BY <1>2, <1>3, <1>4, <1>5, NoRowYet DEF Entered, Shelf!Upload, Coming
  <1> QED BY <1>2, <1>6 DEF Entering, Shelf!Upload, Coming

LEMMA PostEnters ==
    ASSUME NEW p \in DOMAIN FileParts, FileCore(p), NEW i \in FileParts[p].items,
           NEW o \in OwnersOf(FileParts[p]), Shelf(p)!Post(i, o)
    PROVE  Entering(p, i)
  <1> DEFINE u == [pc |-> "check", owner |-> o, kind |-> "link", route |-> "api", encrypted |-> FALSE]
  <1>1. uploads[i].pc = "none" /\ uploads' = [uploads EXCEPT ![i] = u]
    BY DEF Shelf!Post, Shelf!NewUpload
  <1>2. u \in UploadType(FileParts[p]) BY DEF UploadType
  <1>3. disk[i] = Void BY <1>1 DEF FileCore, UploadInv
  <1>4. Entered(p, i, u, disk[i], Void)
    BY <1>1, <1>2, <1>3, NoRowYet DEF Entered, Shelf!Post, Coming
  <1> QED BY <1>1, <1>4 DEF Entering, Shelf!Post, Coming

LEMMA RefuseEnters ==
    ASSUME NEW p \in DOMAIN FileParts, FileCore(p), NEW i \in FileParts[p].items,
           uploads[i].pc \in {"check", "insert"}, Shelf(p)!Refuse(i),
           UNCHANGED <<owners, deletes, reads, work, sealing, known, audited, served, times>>
    PROVE  Entering(p, i)
  <1>0. uploads[i].pc \in Coming BY DEF Coming
  <1> DEFINE u == [uploads[i] EXCEPT !.pc = "failed"]
             f == IF uploads[i].route = "api" THEN Void ELSE disk[i]
  <1>1. uploads' = [uploads EXCEPT ![i] = u] /\ disk' = [disk EXCEPT ![i] = f] /\ docs' = [docs EXCEPT ![i] = Void]
    BY <1>0, NoRowYet DEF Shelf!Refuse
  <1>2. u \in UploadType(FileParts[p]) /\ u.pc = "failed" /\ u.route = uploads[i].route
    BY <1>0, NoRowYet DEF UploadType
  <1>3. f \in Bytes \cup {Void} BY <1>0, NoRowYet
  <1>4. uploads[i].route \in {"api", "form"}
    BY DEF FileCore, UploadInv
  <1>5. Entered(p, i, u, f, Void)
    BY <1>1, <1>2, <1>3, <1>4 DEF Entered
  <1> QED BY <1>0, <1>5 DEF Entering

LEMMA InsertEnters ==
    ASSUME NEW p \in DOMAIN FileParts, FileCore(p), NEW i \in FileParts[p].items,
           Shelf(p)!CheckOwner(i) \/ Shelf(p)!InsertRow(i)
    PROVE  Entering(p, i)
  <1>0. uploads[i].pc \in {"check", "insert"} /\ uploads[i].pc \in Coming
        /\ UNCHANGED <<owners, deletes, reads, work, sealing, known, audited, served, times>>
    BY DEF Coming, Shelf!CheckOwner, Shelf!InsertRow
  <1>1. /\ uploads[i] \in UploadType(FileParts[p])
        /\ uploads[i].kind \in {"file", "link"} /\ uploads[i].route \in {"api", "form"}
        /\ uploads[i].owner \in OwnersOf(FileParts[p])
        /\ uploads[i].kind = "file" => disk[i] = As(uploads[i].encrypted) /\ disk[i] # Void
    BY <1>0 DEF FileCore, FileTyped, UploadInv
  <1>2. CASE uploads[i].owner \notin owners
    BY <1>0, <1>2, RefuseEnters DEF Shelf!CheckOwner, Shelf!InsertRow
  <1>3. CASE uploads[i].owner \in owners /\ Shelf(p)!CheckOwner(i)
    <2> DEFINE u == [uploads[i] EXCEPT !.pc = "insert"]
    <2>1. uploads' = [uploads EXCEPT ![i] = u] /\ disk' = [disk EXCEPT ![i] = disk[i]] /\ docs' = [docs EXCEPT ![i] = Void]
      BY <1>0, <1>3, NoRowYet DEF Shelf!CheckOwner
    <2>2. /\ u \in UploadType(FileParts[p]) /\ u.pc = "insert" /\ u.kind = uploads[i].kind
          /\ u.route = uploads[i].route /\ u.owner = uploads[i].owner /\ u.encrypted = uploads[i].encrypted
      BY <1>1 DEF UploadType
    <2>3. Entered(p, i, u, disk[i], Void)
      BY <1>0, <1>1, <2>1, <2>2, NoRowYet DEF Entered
    <2> QED BY <1>0, <2>3 DEF Entering
  <1>4. CASE uploads[i].owner \in owners /\ Shelf(p)!InsertRow(i)
    <2> DEFINE u == [uploads[i] EXCEPT !.pc = "audit"]
               r == [owner |-> uploads[i].owner, kind |-> uploads[i].kind, encrypted |-> uploads[i].encrypted]
    <2>1. uploads' = [uploads EXCEPT ![i] = u] /\ disk' = [disk EXCEPT ![i] = disk[i]] /\ docs' = [docs EXCEPT ![i] = r]
      BY <1>0, <1>4, NoRowYet DEF Shelf!InsertRow
    <2>2. /\ u \in UploadType(FileParts[p]) /\ u.pc = "audit" /\ u.kind = uploads[i].kind
          /\ u.route = uploads[i].route /\ u.owner = uploads[i].owner /\ u.encrypted = uploads[i].encrypted
      BY <1>1 DEF UploadType
    <2>3. r \in FileRow(FileParts[p]) BY <1>1 DEF FileRow, UploadType
    <2>4. r # Void BY <2>3, FileFacts
    <2>5. Entered(p, i, u, disk[i], r)
      BY <1>0, <1>1, <2>1, <2>2, <2>3, <2>4, NoRowYet DEF Entered
    <2> QED BY <1>0, <2>5 DEF Entering
  <1> QED BY <1>2, <1>3, <1>4 DEF Shelf!CheckOwner, Shelf!InsertRow

LEMMA UploadsMove ==
    ASSUME NEW p \in DOMAIN FileParts, FileCore(p), NEW i \in FileParts[p].items,
           \/ Shelf(p)!UploadFile(i) \/ Shelf(p)!UploadRelFile(i) \/ Shelf(p)!EvidenceUpload(i)
           \/ Shelf(p)!CreateAttachment(i) \/ Shelf(p)!CreateRelAttachment(i) \/ Shelf(p)!CheckOwner(i)
           \/ Shelf(p)!InsertRow(i) \/ Shelf(p)!AuditCreate(i) \/ Shelf(p)!CrashUpload(i)
    PROVE  Entering(p, i) \/ Settling(p, i)
  <1>1. CASE Shelf(p)!UploadFile(i) \/ Shelf(p)!UploadRelFile(i) \/ Shelf(p)!EvidenceUpload(i)
    BY <1>1, UploadEnters DEF Shelf!UploadFile, Shelf!UploadRelFile, Shelf!EvidenceUpload, OwnersOf
  <1>2. CASE Shelf(p)!CreateAttachment(i) \/ Shelf(p)!CreateRelAttachment(i)
    BY <1>2, PostEnters DEF Shelf!CreateAttachment, Shelf!CreateRelAttachment, OwnersOf
  <1>3. CASE Shelf(p)!AuditCreate(i)
    BY <1>3 DEF Shelf!AuditCreate, Settling
  <1>4. CASE Shelf(p)!CrashUpload(i)
    <2>1. times' = [times EXCEPT !.crashes = @ + 1] BY <1>4 DEF Shelf!CrashUpload, Shelf!Bounded
    <2> QED BY <1>4, <2>1 DEF Shelf!CrashUpload, Settling
  <1> QED BY <1>1, <1>2, <1>3, <1>4, InsertEnters

\* A job, a row or a posture that changes while every upload stays where it is.
LEMMA EnteringCore ==
    ASSUME NEW p \in DOMAIN FileParts, FileCore(p), NEW i, Entering(p, i) PROVE FileCore(p)'
  <1>1. PICK u, f, r : Entered(p, i, u, f, r) BY DEF Entering
  <1>2. i \in FileParts[p].items /\ uploads[i].pc \in Coming
        /\ UNCHANGED <<owners, deletes, reads, work, sealing, known, audited, served, times>>
    BY DEF Entering
  <1>3. FileTyped(p)' BY <1>1, <1>2 DEF FileCore, FileTyped, Entered
  <1>4. /\ uploads'[i] = u /\ disk'[i] = f /\ docs'[i] = r
        /\ \A j \in FileParts[p].items \ {i} : uploads'[j] = uploads[j] /\ disk'[j] = disk[j] /\ docs'[j] = docs[j]
    BY <1>1, <1>2 DEF FileCore, FileTyped, Entered
  <1>5. ASSUME NEW j \in FileParts[p].items PROVE UploadInv(p, j)'
    <2>1. CASE j = i
      <3>1. audited'[i].created = 0 BY <1>2 DEF FileCore, UploadInv, Coming
      <3> QED BY <1>1, <1>4, <2>1, <3>1 DEF UploadInv, Entered, Landed
    <2>2. CASE j # i BY <1>2, <1>4, <2>2 DEF FileCore, UploadInv
    <2> QED BY <2>1, <2>2
  <1>6. ASSUME NEW w \in FileParts[p].workers PROVE JobInv(p, w)'
    <2>1. \A j \in Tasks(w) : j # i /\ j \in FileParts[p].items
      BY <1>2, FileFacts DEF FileCore, FileTyped, WorkType, JobInv, Sane, Tasks, Chores, Landed, Coming
    <2>2. Tasks(w)' = Tasks(w) BY <1>2 DEF Tasks, Chores
    <2> QED BY <1>2, <1>4, <2>1, <2>2 DEF FileCore, JobInv, Sane, Tasks
  <1> QED BY <1>3, <1>5, <1>6 DEF FileCore

LEMMA SettlingCore ==
    ASSUME NEW p \in DOMAIN FileParts, FileCore(p), NEW i, Settling(p, i) PROVE FileCore(p)'
  <1>1. i \in FileParts[p].items /\ UNCHANGED <<owners, docs, disk, deletes, reads, work, sealing, known, served>>
    BY DEF Settling
  <1>2. PICK pc \in {"done", "died"} :
          /\ uploads' = [uploads EXCEPT ![i] = [uploads[i] EXCEPT !.pc = pc]]
          /\ uploads[i].pc \in {"check", "insert", "audit"}
          /\ IF pc = "done" THEN audited' = [audited EXCEPT ![i].created = @ + 1] ELSE audited' = audited
    BY DEF Settling
  <1>3. /\ uploads[i] \in UploadType(FileParts[p]) /\ audited[i] \in [created : Nat, api : Nat, form : Nat]
        /\ uploads[i].pc # "done" /\ UploadInv(p, i)
    BY <1>1, <1>2 DEF FileCore, FileTyped
  <1> DEFINE u == [uploads[i] EXCEPT !.pc = pc]
  <1>4. /\ u \in UploadType(FileParts[p]) /\ u.pc = pc /\ u.kind = uploads[i].kind
        /\ u.route = uploads[i].route /\ u.owner = uploads[i].owner
    BY <1>3 DEF UploadType
  <1> HIDE DEF u
  <1>5. /\ uploads'[i] = u /\ \A j \in FileParts[p].items \ {i} : uploads'[j] = uploads[j] /\ audited'[j] = audited[j]
        /\ uploads' \in [FileParts[p].items -> UploadType(FileParts[p])]
    BY <1>1, <1>2, <1>4 DEF FileCore, FileTyped, u
  <1>6. /\ audited' \in [FileParts[p].items -> [created : Nat, api : Nat, form : Nat]]
        /\ audited'[i].created = IF pc = "done" THEN 1 ELSE 0
    <2>1. audited[i].created = 0 BY <1>3 DEF UploadInv
    <2>2. CASE pc = "done"
      <3>1. [audited[i] EXCEPT !.created = @ + 1] \in [created : Nat, api : Nat, form : Nat]
            /\ [audited[i] EXCEPT !.created = @ + 1].created = 1
        BY <1>3, <2>1
      <3>2. audited' = [audited EXCEPT ![i] = [audited[i] EXCEPT !.created = @ + 1]] BY <1>2, <2>2
      <3> QED BY <1>1, <2>2, <3>1, <3>2 DEF FileCore, FileTyped
    <2>3. CASE pc # "done" BY <1>2, <2>1, <2>3 DEF FileCore, FileTyped
    <2> QED BY <2>2, <2>3
  <1>7. times' \in [deletes : Nat, changes : Nat, rotations : Nat, crashes : Nat, overlaps : Nat]
    BY DEF Settling, FileCore, FileTyped
  <1>8. FileTyped(p)' BY <1>1, <1>5, <1>6, <1>7 DEF FileCore, FileTyped
  <1>9. ASSUME NEW j \in FileParts[p].items PROVE UploadInv(p, j)'
    <2>1. CASE j = i
      <3>1. docs[i] # Void => uploads[i].pc = "audit" BY <1>2, <1>3 DEF UploadInv, Landed
      <3> QED BY <1>1, <1>2, <1>3, <1>4, <1>5, <1>6, <2>1, <3>1 DEF UploadInv, Landed
    <2>2. CASE j # i BY <1>1, <1>5, <2>2 DEF FileCore, UploadInv
    <2> QED BY <2>1, <2>2
  <1>10. ASSUME NEW w \in FileParts[p].workers PROVE JobInv(p, w)'
    <2>1. \A j \in Tasks(w) : j \in FileParts[p].items /\ uploads[j].kind = "file" /\ uploads[j].pc \in Landed
      BY FileFacts DEF FileCore, FileTyped, WorkType, JobInv, Sane, Tasks, Chores
    <2>2. Tasks(w)' = Tasks(w) BY <1>1 DEF Tasks, Chores
    <2>3. \A j \in Tasks(w) : uploads'[j].kind = "file" /\ uploads'[j].pc \in Landed
      BY <1>2, <1>4, <1>5, <2>1 DEF Landed
    <2> QED BY <1>1, <2>2, <2>3 DEF FileCore, JobInv, Sane, Tasks
  <1> QED BY <1>8, <1>9, <1>10 DEF FileCore

-----------------------------------------------------------------------------
\* Rows go, are told of and are read: no file and no job changes.
Keeping(p) ==
    /\ UNCHANGED <<disk, uploads, work>>
    /\ owners' \subseteq owners /\ sealing' \in BOOLEAN /\ known' \subseteq BOOLEAN
    /\ docs' \in [FileParts[p].items -> FileRow(FileParts[p]) \cup {Void}]
    /\ \A i \in FileParts[p].items : docs'[i] \in {docs[i], Void}
    /\ deletes' \in [FileParts[p].deleters -> DeleteType(FileParts[p])]
    /\ reads' \in [FileParts[p].readers -> ReadType(FileParts[p])]
    /\ audited' \in [FileParts[p].items -> [created : Nat, api : Nat, form : Nat]]
    /\ \A i \in FileParts[p].items : audited'[i].created = audited[i].created
    /\ times' \in [deletes : Nat, changes : Nat, rotations : Nat, crashes : Nat, overlaps : Nat]
    /\ times'["crashes"] \in {times["crashes"], times["crashes"] + 1} /\ times'["overlaps"] = times["overlaps"]

LEMMA KeepingCore ==
    ASSUME NEW p \in DOMAIN FileParts, FileCore(p), Keeping(p) PROVE FileCore(p)'
  <1>1. FileTyped(p)' BY DEF FileCore, FileTyped, Keeping
  <1>2. ASSUME NEW i \in FileParts[p].items PROVE UploadInv(p, i)'
    BY DEF FileCore, UploadInv, Keeping
  <1>3. ASSUME NEW w \in FileParts[p].workers PROVE JobInv(p, w)'
    <2>1. Tasks(w)' = Tasks(w) BY DEF Tasks, Chores, Keeping
    <2> QED BY <2>1 DEF FileCore, JobInv, Sane, Tasks, Keeping
  <1> QED BY <1>1, <1>2, <1>3 DEF FileCore

LEMMA OwnersKeep ==
    ASSUME NEW p \in DOMAIN FileParts, FileCore(p), NEW o, Shelf(p)!DeleteOwner(o) PROVE Keeping(p)
  <1>1. docs' \in [FileParts[p].items -> FileRow(FileParts[p]) \cup {Void}]
        /\ \A i \in FileParts[p].items : docs'[i] \in {docs[i], Void}
    BY DEF Shelf!DeleteOwner, FileCore, FileTyped
  <1>2. owners' \subseteq owners BY DEF Shelf!DeleteOwner
  <1> QED BY <1>1, <1>2 DEF Shelf!DeleteOwner, Keeping, FileCore, FileTyped

LEMMA FindKeeps ==
    ASSUME NEW p \in DOMAIN FileParts, FileCore(p), NEW d \in FileParts[p].deleters, NEW under,
           NEW route \in {"api", "form"}, Shelf(p)!Find(d, under, route)
    PROVE  /\ Keeping(p) /\ UNCHANGED <<owners, docs, reads, audited, served>>
           /\ \E i \in FileParts[p].items :
                deletes' = [deletes EXCEPT ![d] = [pc |-> "found", item |-> i, route |-> route]]
  <1>1. PICK i \in FileParts[p].items :
          deletes' = [deletes EXCEPT ![d] = [pc |-> "found", item |-> i, route |-> route]]
    BY DEF Shelf!Find
  <1>2. [pc |-> "found", item |-> i, route |-> route] \in DeleteType(FileParts[p])
    BY DEF DeleteType
  <1>3. times' = [times EXCEPT !["deletes"] = @ + 1] BY DEF Shelf!Find, Shelf!Bounded
  <1>4. /\ times' \in [deletes : Nat, changes : Nat, rotations : Nat, crashes : Nat, overlaps : Nat]
        /\ times'["crashes"] = times["crashes"] /\ times'["overlaps"] = times["overlaps"]
    BY <1>3 DEF FileCore, FileTyped
  <1> QED BY <1>1, <1>2, <1>4 DEF Shelf!Find, Keeping, FileCore, FileTyped

LEMMA DeleteRowKeeps ==
    ASSUME NEW p \in DOMAIN FileParts, FileCore(p), NEW d \in FileParts[p].deleters, DeleteInv(p, d),
           Shelf(p)!DeleteRow(d)
    PROVE  Keeping(p) /\ UNCHANGED <<owners, reads, audited, served>>
  <1>1. deletes[d].item \in FileParts[p].items BY DEF DeleteInv, Shelf!DeleteRow
  <1>2. docs' = [docs EXCEPT ![deletes[d].item] = Void] BY DEF Shelf!DeleteRow
  <1>3. deletes[d] \in DeleteType(FileParts[p]) BY DEF FileCore, FileTyped
  <1>4. [deletes[d] EXCEPT !.pc = "audit"] \in DeleteType(FileParts[p]) /\ Shelf(p)!NoDelete \in DeleteType(FileParts[p])
    BY <1>3 DEF DeleteType, Shelf!NoDelete
  <1>5. deletes' \in [FileParts[p].deleters -> DeleteType(FileParts[p])]
    BY <1>4 DEF Shelf!DeleteRow, FileCore, FileTyped
  <1> QED BY <1>1, <1>2, <1>5 DEF Shelf!DeleteRow, Keeping, FileCore, FileTyped

LEMMA AuditDeleteKeeps ==
    ASSUME NEW p \in DOMAIN FileParts, FileCore(p), NEW d \in FileParts[p].deleters, DeleteInv(p, d),
           Shelf(p)!AuditDelete(d)
    PROVE  /\ Keeping(p) /\ UNCHANGED <<owners, docs, reads, served>>
           /\ deletes[d].item \in FileParts[p].items /\ deletes[d].route \in {"api", "form"}
           /\ \A i \in FileParts[p].items :
                /\ audited'[i].api = audited[i].api + IF i = deletes[d].item /\ deletes[d].route = "api" THEN 1 ELSE 0
                /\ audited'[i].form = audited[i].form + IF i = deletes[d].item /\ deletes[d].route = "form" THEN 1 ELSE 0
  <1>1. deletes[d].item \in FileParts[p].items /\ deletes[d].route \in {"api", "form"}
    BY DEF DeleteInv, Shelf!AuditDelete
  <1>2. audited' = [audited EXCEPT ![deletes[d].item] = [audited[deletes[d].item] EXCEPT ![deletes[d].route] = @ + 1]]
    BY DEF Shelf!AuditDelete
  <1>3. Shelf(p)!NoDelete \in DeleteType(FileParts[p]) BY DEF DeleteType, Shelf!NoDelete
  <1> DEFINE i == deletes[d].item
             a == [audited[i] EXCEPT ![deletes[d].route] = @ + 1]
  <1>4. audited[i] \in [created : Nat, api : Nat, form : Nat] BY <1>1 DEF FileCore, FileTyped
  <1>5. /\ a \in [created : Nat, api : Nat, form : Nat] /\ a.created = audited[i].created
        /\ a.api = audited[i].api + IF deletes[d].route = "api" THEN 1 ELSE 0
        /\ a.form = audited[i].form + IF deletes[d].route = "form" THEN 1 ELSE 0
    <2>1. CASE deletes[d].route = "api" BY <1>4, <2>1
    <2>2. CASE deletes[d].route = "form" BY <1>4, <2>2
    <2> QED BY <1>1, <2>1, <2>2
  <1> HIDE DEF a
  <1>6. /\ audited' \in [FileParts[p].items -> [created : Nat, api : Nat, form : Nat]]
        /\ audited'[i] = a /\ \A j \in FileParts[p].items \ {i} : audited'[j] = audited[j]
    BY <1>1, <1>2, <1>5 DEF FileCore, FileTyped, a
  <1>7. Keeping(p)
    BY <1>3, <1>5, <1>6 DEF Shelf!AuditDelete, Keeping, FileCore, FileTyped
  <1>8. \A j \in FileParts[p].items : audited[j].api \in Nat /\ audited[j].form \in Nat
    BY DEF FileCore, FileTyped
  <1>9. ASSUME NEW j \in FileParts[p].items
        PROVE  /\ audited'[j].api = audited[j].api + IF j = i /\ deletes[d].route = "api" THEN 1 ELSE 0
               /\ audited'[j].form = audited[j].form + IF j = i /\ deletes[d].route = "form" THEN 1 ELSE 0
    <2>1. CASE j = i BY <1>5, <1>6, <2>1
    <2>2. CASE j # i BY <1>6, <1>8, <2>2
    <2> QED BY <2>1, <2>2
  <1> QED BY <1>1, <1>7, <1>9 DEF Shelf!AuditDelete

LEMMA ReadRowKeeps ==
    ASSUME NEW p \in DOMAIN FileParts, FileCore(p), NEW r \in FileParts[p].readers, NEW under,
           Shelf(p)!ReadRow(r, under)
    PROVE  /\ Keeping(p) /\ UNCHANGED <<owners, docs, deletes, audited, served, times>>
           /\ \E i \in FileParts[p].items :
                /\ docs[i] # Void /\ docs[i].kind = "file"
                /\ reads' = [reads EXCEPT ![r] = [pc |-> "open", item |-> i, encrypted |-> docs[i].encrypted,
                                                  overtaken |-> Shelf(p)!Rewriting(i)]]
  <1>1. PICK i \in FileParts[p].items :
          /\ docs[i] # Void /\ docs[i].kind = "file"
          /\ reads' = [reads EXCEPT ![r] = [pc |-> "open", item |-> i, encrypted |-> docs[i].encrypted,
                                            overtaken |-> Shelf(p)!Rewriting(i)]]
    BY DEF Shelf!ReadRow
  <1>2. docs[i] \in FileRow(FileParts[p]) BY <1>1 DEF FileCore, FileTyped
  <1>3. Shelf(p)!Rewriting(i) \in BOOLEAN BY DEF Shelf!Rewriting
  <1>4. [pc |-> "open", item |-> i, encrypted |-> docs[i].encrypted, overtaken |-> Shelf(p)!Rewriting(i)]
        \in ReadType(FileParts[p])
    BY <1>2, <1>3 DEF FileRow, ReadType
  <1>5. reads' \in [FileParts[p].readers -> ReadType(FileParts[p])]
    BY <1>1, <1>4 DEF FileCore, FileTyped
  <1>6. Keeping(p) BY <1>5 DEF Shelf!ReadRow, Keeping, FileCore, FileTyped
  <1> QED BY <1>1, <1>6 DEF Shelf!ReadRow

LEMMA ServeKeeps ==
    ASSUME NEW p \in DOMAIN FileParts, FileCore(p), NEW r \in FileParts[p].readers, Shelf(p)!ServeFile(r)
    PROVE  Keeping(p) /\ UNCHANGED <<owners, docs, deletes, audited, times>>
  <1>1. Shelf(p)!NoRead \in ReadType(FileParts[p]) BY DEF ReadType, Shelf!NoRead
  <1> QED BY <1>1 DEF Shelf!ServeFile, Keeping, FileCore, FileTyped

-----------------------------------------------------------------------------
\* A job turns to a file, rewrites it or marks its row.
Working(p, w, j) ==
    /\ w \in FileParts[p].workers
    /\ j \in WorkType(FileParts[p]) /\ Sane(j) /\ work' = [work EXCEPT ![w] = j]
    /\ UNCHANGED <<owners, uploads, deletes, audited, served>>
    /\ disk' \in [FileParts[p].items -> Bytes \cup {Void}]
    /\ \A i \in FileParts[p].items : /\ disk'[i] = Void <=> disk[i] = Void
                                     /\ i \notin Tasks(w) => disk'[i] = disk[i]
    /\ docs' \in [FileParts[p].items -> FileRow(FileParts[p]) \cup {Void}]
    /\ \A i \in FileParts[p].items :
         /\ docs'[i] = Void <=> docs[i] = Void
         /\ docs[i] # Void => docs'[i].owner = docs[i].owner /\ docs'[i].kind = docs[i].kind
    /\ reads' \in [FileParts[p].readers -> ReadType(FileParts[p])]
    /\ sealing' \in BOOLEAN /\ known' \subseteq BOOLEAN
    /\ times' \in [deletes : Nat, changes : Nat, rotations : Nat, crashes : Nat, overlaps : Nat]

LEMMA TasksAreFiles ==
    ASSUME NEW p \in DOMAIN FileParts, FileCore(p), NEW w \in FileParts[p].workers, NEW i \in Tasks(w)
    PROVE  /\ i \in FileParts[p].items /\ uploads[i].kind = "file" /\ uploads[i].pc \in Landed
           /\ disk[i] \in Bytes /\ disk[i] # Void
           /\ docs[i] # Void => docs[i] \in FileRow(FileParts[p]) /\ docs[i].kind = "file"
  <1>1. i \in FileParts[p].items /\ uploads[i].kind = "file" /\ uploads[i].pc \in Landed
    BY FileFacts DEF FileCore, FileTyped, WorkType, JobInv, Sane, Tasks, Chores
  <1>2. UploadInv(p, i) BY <1>1 DEF FileCore
  <1> QED BY <1>1, <1>2 DEF FileCore, FileTyped, UploadInv, Landed

LEMMA WorkingCore ==
    ASSUME NEW p \in DOMAIN FileParts, FileCore(p), NEW w, NEW j, Working(p, w, j) PROVE FileCore(p)'
  <1>1. FileTyped(p)' BY DEF FileCore, FileTyped, Working
  <1>2. ASSUME NEW i \in FileParts[p].items PROVE UploadInv(p, i)'
    <2>1. w \in FileParts[p].workers BY DEF Working
    <2>2. i \in Tasks(w) => uploads[i].pc \in Landed BY <2>1, TasksAreFiles
    <2>3. UploadInv(p, i) BY DEF FileCore
    <2> QED BY <2>2, <2>3 DEF UploadInv, Working, Landed
  <1>3. ASSUME NEW v \in FileParts[p].workers PROVE JobInv(p, v)'
    <2>1. work'[v] = IF v = w THEN j ELSE work[v] BY DEF Working, FileCore, FileTyped
    <2>2. Sane(work[v]) /\ Sane(j) BY DEF Working, FileCore, JobInv
    <2>3. uploads' = uploads BY DEF Working
    <2>4. CASE v = w BY <2>1, <2>2, <2>3, <2>4 DEF JobInv, Sane, Chores
    <2>5. CASE v # w BY <2>1, <2>2, <2>3, <2>5 DEF JobInv, Sane, Chores
    <2> QED BY <2>4, <2>5
  <1> QED BY <1>1, <1>2, <1>3 DEF FileCore

LEMMA StartWorks ==
    ASSUME NEW p \in DOMAIN FileParts, FileCore(p), NEW w \in FileParts[p].workers,
           NEW kind \in {"encrypt", "decrypt", "rotate"}, Shelf(p)!Start(w, kind),
           sealing' \in BOOLEAN, known' \subseteq BOOLEAN,
           times' \in [deletes : Nat, changes : Nat, rotations : Nat, crashes : Nat, overlaps : Nat]
    PROVE  \E j : /\ Working(p, w, j) /\ UNCHANGED <<disk, docs, reads>>
                  /\ j.pc = "next" /\ j.kind = kind /\ j.item = Void
                  /\ \A i \in j.todo : docs[i] # Void /\ docs[i].encrypted = (kind # "encrypt")
  <1> DEFINE S == {i \in FileParts[p].items : /\ docs[i] # Void
                                              /\ docs[i] # Void => /\ docs[i].kind = "file"
                                                                   /\ docs[i].encrypted = (kind # "encrypt")}
             j == [Shelf(p)!NoJob EXCEPT !.pc = "next", !.kind = kind, !.todo = S]
  <1>1. work' = [work EXCEPT ![w] = j] BY DEF Shelf!Start
  <1>2. j \in WorkType(FileParts[p]) /\ j.pc = "next" /\ j.kind = kind /\ j.item = Void /\ j.todo = S
    <2>1. ASSUME NEW T
          PROVE  [Shelf(p)!NoJob EXCEPT !.pc = "next", !.kind = kind, !.todo = T]
                 \in [pc : {"next"}, kind : {kind}, todo : {T}, item : {Void}, data : {Void}]
      BY DEF Shelf!NoJob
    <2>2. j \in [pc : {"next"}, kind : {kind}, todo : {S}, item : {Void}, data : {Void}] BY <2>1
    <2>3. S \in SUBSET FileParts[p].items OBVIOUS
    <2> HIDE DEF j, S
    <2> QED BY <2>2, <2>3 DEF WorkType
  <1>3. \A i \in S : uploads[i].kind = "file" /\ uploads[i].pc \in Landed
    BY DEF FileCore, UploadInv
  <1>4. Chores(j) = S BY <1>2 DEF Chores
  <1>5. Void \notin S BY FileFacts
  <1>7. \A i \in S : docs[i] # Void /\ docs[i].encrypted = (kind # "encrypt")
    OBVIOUS
  <1> HIDE DEF j, S
  <1>8. Sane(j) BY <1>2, <1>3, <1>4, <1>5 DEF Sane
  <1>9. Working(p, w, j) /\ UNCHANGED <<disk, docs, reads>>
    BY <1>1, <1>2, <1>8 DEF Working, Shelf!Start, FileCore, FileTyped
  <1> QED BY <1>2, <1>7, <1>9

LEMMA EndWorks ==
    ASSUME NEW p \in DOMAIN FileParts, FileCore(p), NEW w \in FileParts[p].workers, Shelf(p)!End(w),
           UNCHANGED <<owners, docs, disk, uploads, deletes, reads, sealing, known, audited, served>>,
           times' \in [deletes : Nat, changes : Nat, rotations : Nat, crashes : Nat, overlaps : Nat]
    PROVE  Working(p, w, Shelf(p)!NoJob)
  <1>1. Shelf(p)!NoJob \in WorkType(FileParts[p]) BY DEF WorkType, Shelf!NoJob
  <1>2. Sane(Shelf(p)!NoJob) BY DEF Sane, Chores, Shelf!NoJob
  <1> QED BY <1>1, <1>2 DEF Working, Shelf!End, FileCore, FileTyped

\* What taking a file does: the job has what the file turns into, the file is
\* empty, and the downloads of it are overtaken.
TakenUp(p, w, i, j) ==
    /\ i \in work[w].todo /\ i \notin j.todo /\ j.todo \subseteq work[w].todo
    /\ j.pc = "write" /\ j.kind = work[w].kind /\ j.item = i /\ j.data = Shelf(p)!Turned(work[w].kind, disk[i])
    /\ j.kind # "encrypt" => Shelf(p)!Deciphers(disk[i])
    /\ disk' = [disk EXCEPT ![i] = Shelf(p)!Empty] /\ docs' = docs
    /\ \A r \in FileParts[p].readers :
         /\ reads'[r].pc = reads[r].pc /\ reads'[r].item = reads[r].item /\ reads'[r].encrypted = reads[r].encrypted
         /\ reads'[r].overtaken <=> reads[r].overtaken \/ reads[r].item = i

LEMMA TakeWorks ==
    ASSUME NEW p \in DOMAIN FileParts, FileCore(p), NEW w \in FileParts[p].workers, Shelf(p)!TakeFile(w)
    PROVE  /\ work[w].pc = "next" /\ times' = times
           /\ \/ Working(p, w, Shelf(p)!NoJob) /\ UNCHANGED <<disk, docs, reads>>
              \/ \E i, j : Working(p, w, j) /\ TakenUp(p, w, i, j)
  <1>1. work[w].pc = "next" /\ UNCHANGED <<owners, docs, uploads, deletes, sealing, known, audited, served, times>>
    BY DEF Shelf!TakeFile
  <1>2. PICK i \in work[w].todo :
          IF work[w].kind # "encrypt" /\ ~Shelf(p)!Deciphers(disk[i])
          THEN Shelf(p)!End(w) /\ UNCHANGED <<disk, reads>>
          ELSE /\ work' = [work EXCEPT ![w] = [work[w] EXCEPT !.pc = "write", !.todo = @ \ {i}, !.item = i,
                                                 !.data = Shelf(p)!Turned(work[w].kind, disk[i])]]
               /\ disk' = [disk EXCEPT ![i] = Shelf(p)!Empty]
               /\ reads' = [r \in FileParts[p].readers |->
                              [reads[r] EXCEPT !.overtaken = @ \/ reads[r].item = i]]
    BY DEF Shelf!TakeFile
  <1>3. CASE work[w].kind # "encrypt" /\ ~Shelf(p)!Deciphers(disk[i])
    <2>1. Working(p, w, Shelf(p)!NoJob) BY <1>1, <1>2, <1>3, EndWorks DEF FileCore, FileTyped
    <2> QED BY <1>1, <1>2, <1>3, <2>1
  <1>4. CASE ~(work[w].kind # "encrypt" /\ ~Shelf(p)!Deciphers(disk[i]))
    <2> DEFINE data == Shelf(p)!Turned(work[w].kind, disk[i])
               j == [work[w] EXCEPT !.pc = "write", !.todo = @ \ {i}, !.item = i, !.data = data]
    <2>1. work[w] \in WorkType(FileParts[p]) /\ Sane(work[w]) BY DEF FileCore, FileTyped, JobInv
    <2>2. work[w].kind \in {"encrypt", "decrypt", "rotate"} /\ work[w].item = Void
      BY <1>1, <2>1 DEF Sane
    <2>3. i \in FileParts[p].items /\ i # Void /\ disk[i] \in Bytes /\ disk[i] # Void /\ i \in Tasks(w)
      <3>1. i # Void BY <2>1, FileFacts DEF WorkType
      <3>2. i \in Tasks(w) BY DEF Tasks, Chores
      <3> QED BY <3>1, <3>2, TasksAreFiles
    <2>4. data \in Bytes
      <3>1. CASE work[w].kind = "encrypt" BY <2>3, <3>1, BytesFacts DEF Shelf!Turned
      <3>2. CASE work[w].kind = "decrypt" BY <1>4, <2>3, <3>2, BytesFacts DEF Shelf!Turned
      <3>3. CASE work[w].kind = "rotate" BY <1>4, <2>3, <3>3, BytesFacts DEF Shelf!Turned
      <3> QED BY <2>2, <3>1, <3>2, <3>3
    <2> HIDE DEF data
    <2>5. /\ j \in WorkType(FileParts[p])
          /\ j.pc = "write" /\ j.kind = work[w].kind /\ j.todo = work[w].todo \ {i} /\ j.item = i /\ j.data = data
      BY <2>1, <2>3, <2>4 DEF WorkType
    <2>6. work' = [work EXCEPT ![w] = j]
      <3>1. work' = [work EXCEPT ![w] = [work[w] EXCEPT !.pc = "write", !.todo = @ \ {i}, !.item = i,
                                           !.data = Shelf(p)!Turned(work[w].kind, disk[i])]]
        BY ONLY <1>2, <1>4
      <3> QED BY ONLY <3>1 DEF data
    <2> HIDE DEF j
    <2>7. Sane(j)
      <3>1. Chores(j) \subseteq Chores(work[w]) BY <2>5 DEF Chores
      <3>2. data # Void BY <2>4, FileFacts
      <3> QED BY <2>1, <2>2, <2>3, <2>5, <3>1, <3>2 DEF Sane
    <2>8. reads' \in [FileParts[p].readers -> ReadType(FileParts[p])]
          /\ \A r \in FileParts[p].readers :
               /\ reads'[r].pc = reads[r].pc /\ reads'[r].item = reads[r].item /\ reads'[r].encrypted = reads[r].encrypted
               /\ reads'[r].overtaken <=> reads[r].overtaken \/ reads[r].item = i
      <3>0. reads' = [r \in FileParts[p].readers |-> [reads[r] EXCEPT !.overtaken = @ \/ reads[r].item = i]]
        BY <1>2, <1>4
      <3>1. ASSUME NEW r \in FileParts[p].readers
            PROVE  /\ reads'[r] \in ReadType(FileParts[p])
                   /\ reads'[r].pc = reads[r].pc /\ reads'[r].item = reads[r].item
                   /\ reads'[r].encrypted = reads[r].encrypted
                   /\ reads'[r].overtaken <=> reads[r].overtaken \/ reads[r].item = i
        <4>1. reads[r] \in ReadType(FileParts[p]) BY DEF FileCore, FileTyped
        <4>2. reads'[r] = [reads[r] EXCEPT !.overtaken = @ \/ reads[r].item = i] BY <3>0
        <4> QED BY <4>1, <4>2 DEF ReadType
      <3> QED BY <3>0, <3>1
    <2>9. disk' = [disk EXCEPT ![i] = Shelf(p)!Empty] BY <1>2, <1>4
    <2>10. Shelf(p)!Empty \in Bytes /\ Void \notin Bytes BY BytesFacts, FileFacts
    <2>11. Working(p, w, j)
      BY <1>1, <2>3, <2>5, <2>6, <2>7, <2>8, <2>9, <2>10 DEF Working, FileCore, FileTyped
    <2>12. TakenUp(p, w, i, j)
      BY <1>1, <1>4, <2>5, <2>8, <2>9 DEF TakenUp, data
    <2> QED BY <1>1, <2>11, <2>12
  <1> QED BY <1>3, <1>4

LEMMA WriteWorks ==
    ASSUME NEW p \in DOMAIN FileParts, FileCore(p), NEW w \in FileParts[p].workers, Shelf(p)!WriteFile(w)
    PROVE  /\ UNCHANGED <<docs, reads, times>>
           /\ work[w].pc = "write" /\ work[w].item \in Tasks(w)
           /\ disk' = [disk EXCEPT ![work[w].item] = work[w].data]
           /\ \E j : /\ Working(p, w, j) /\ j.kind = work[w].kind /\ j.todo = work[w].todo
                     /\ j.pc = IF work[w].kind = "rotate" THEN "next" ELSE "mark"
                     /\ j.item = IF work[w].kind = "rotate" THEN Void ELSE work[w].item
  <1> DEFINE j == [work[w] EXCEPT !.pc = IF work[w].kind = "rotate" THEN "next" ELSE "mark",
                                  !.item = IF work[w].kind = "rotate" THEN Void ELSE work[w].item,
                                  !.data = Void]
  <1>1. /\ work[w].pc = "write" /\ work' = [work EXCEPT ![w] = j]
        /\ disk' = [disk EXCEPT ![work[w].item] = work[w].data]
        /\ UNCHANGED <<owners, docs, uploads, deletes, reads, sealing, known, audited, served, times>>
    BY DEF Shelf!WriteFile
  <1>2. work[w] \in WorkType(FileParts[p]) /\ Sane(work[w]) BY DEF FileCore, FileTyped, JobInv
  <1>3. work[w].item # Void /\ work[w].item \in Tasks(w) /\ work[w].data # Void /\ work[w].data \in Bytes
    BY <1>1, <1>2 DEF Sane, Tasks, Chores, WorkType
  <1>4. /\ j \in WorkType(FileParts[p]) /\ j.kind = work[w].kind /\ j.todo = work[w].todo
        /\ j.pc = (IF work[w].kind = "rotate" THEN "next" ELSE "mark")
        /\ j.item = IF work[w].kind = "rotate" THEN Void ELSE work[w].item
    BY <1>2 DEF WorkType
  <1> HIDE DEF j
  <1>5. Sane(j)
    <2>1. Chores(j) \subseteq Chores(work[w]) BY <1>4 DEF Chores
    <2>2. Void \notin work[w].todo BY <1>2, FileFacts DEF WorkType
    <2> QED BY <1>1, <1>2, <1>3, <1>4, <2>1, <2>2 DEF Sane
  <1>6. work[w].item \in FileParts[p].items /\ disk[work[w].item] # Void BY <1>3, TasksAreFiles
  <1>7. Working(p, w, j)
    BY <1>1, <1>3, <1>4, <1>5, <1>6 DEF Working, FileCore, FileTyped
  <1> QED BY <1>1, <1>3, <1>4, <1>7

LEMMA MarkWorks ==
    ASSUME NEW p \in DOMAIN FileParts, FileCore(p), NEW w \in FileParts[p].workers, Shelf(p)!MarkRow(w)
    PROVE  /\ UNCHANGED <<disk, reads, times>>
           /\ work[w].pc = "mark" /\ work[w].item \in Tasks(w)
           /\ \A i \in FileParts[p].items \ {work[w].item} : docs'[i] = docs[i]
           /\ docs[work[w].item] # Void => docs'[work[w].item].encrypted = (work[w].kind = "encrypt")
           /\ \E j : /\ Working(p, w, j) /\ j.kind = work[w].kind /\ j.todo = work[w].todo
                     /\ j.pc = "next" /\ j.item = Void
  <1> DEFINE j == [work[w] EXCEPT !.pc = "next", !.item = Void]
  <1>1. /\ work[w].pc = "mark"
        /\ docs' = IF docs[work[w].item] = Void THEN docs
                   ELSE [docs EXCEPT ![work[w].item].encrypted = work[w].kind = "encrypt"]
        /\ UNCHANGED <<owners, disk, uploads, deletes, reads, sealing, known, audited, served, times>>
        /\ work' = [work EXCEPT ![w].pc = "next", ![w].item = Void]
    BY DEF Shelf!MarkRow
  <1>2. work[w] \in WorkType(FileParts[p]) /\ Sane(work[w]) BY DEF FileCore, FileTyped, JobInv
  <1>3. work[w].item # Void /\ work[w].item \in Tasks(w)
    BY <1>1, <1>2 DEF Sane, Tasks, Chores
  <1>4. /\ j \in WorkType(FileParts[p]) /\ j.kind = work[w].kind /\ j.todo = work[w].todo
        /\ j.pc = "next" /\ j.item = Void
    BY <1>2 DEF WorkType
  <1>a. work' = [work EXCEPT ![w] = j] BY <1>1, <1>2 DEF FileCore, FileTyped
  <1> HIDE DEF j
  <1>5. Sane(j)
    <2>1. Chores(j) \subseteq Chores(work[w]) BY <1>4 DEF Chores
    <2>2. Void \notin work[w].todo BY <1>2, FileFacts DEF WorkType
    <2> QED BY <1>1, <1>2, <1>3, <1>4, <2>1, <2>2 DEF Sane
  <1> DEFINE i == work[w].item
             r == [docs[i] EXCEPT !.encrypted = work[w].kind = "encrypt"]
  <1>6. i \in FileParts[p].items BY <1>3, TasksAreFiles
  <1>7. ASSUME docs[i] # Void
        PROVE  /\ r \in FileRow(FileParts[p]) /\ r.owner = docs[i].owner /\ r.kind = docs[i].kind
               /\ r.encrypted = (work[w].kind = "encrypt") /\ docs' = [docs EXCEPT ![i] = r]
    <2>1. docs[i] \in FileRow(FileParts[p]) BY <1>6, <1>7 DEF FileCore, FileTyped
    <2> QED BY <1>1, <1>7, <2>1 DEF FileRow
  <1> HIDE DEF r
  <1>8. /\ docs' \in [FileParts[p].items -> FileRow(FileParts[p]) \cup {Void}]
        /\ \A k \in FileParts[p].items \ {i} : docs'[k] = docs[k]
        /\ docs[i] = Void => docs'[i] = Void
        /\ docs[i] # Void => /\ docs'[i] # Void /\ docs'[i].owner = docs[i].owner /\ docs'[i].kind = docs[i].kind
                             /\ docs'[i].encrypted = (work[w].kind = "encrypt")
    <2>1. CASE docs[i] = Void BY <1>1, <2>1 DEF FileCore, FileTyped
    <2>2. CASE docs[i] # Void
      <3>1. r # Void BY <1>7, <2>2, FileFacts
      <3> QED BY <1>6, <1>7, <2>2, <3>1 DEF FileCore, FileTyped
    <2> QED BY <2>1, <2>2
  <1>9. Working(p, w, j)
    BY <1>1, <1>a, <1>4, <1>5, <1>6, <1>8 DEF Working, FileCore, FileTyped
  <1> QED BY <1>1, <1>3, <1>4, <1>8, <1>9

LEMMA CountUp ==
    ASSUME NEW c \in [deletes : Nat, changes : Nat, rotations : Nat, crashes : Nat, overlaps : Nat],
           NEW n \in Nat, NEW d,
           \/ d = [c EXCEPT !.rotations = @ + 1, !.overlaps = @ + n]
           \/ d = [c EXCEPT !.changes = @ + 1, !.overlaps = @ + n]
    PROVE  /\ d \in [deletes : Nat, changes : Nat, rotations : Nat, crashes : Nat, overlaps : Nat]
           /\ d.crashes = c.crashes /\ d.overlaps = c.overlaps + n
  <1> DEFINE T == [deletes : Nat, changes : Nat, rotations : Nat, crashes : Nat, overlaps : Nat]
  <1>1. PICK e \in T : e.crashes = c.crashes /\ e.overlaps = c.overlaps /\ d = [e EXCEPT !.overlaps = @ + n]
    <2>1. CASE d = [c EXCEPT !.rotations = @ + 1, !.overlaps = @ + n]
      <3>1. [c EXCEPT !.rotations = @ + 1] \in T OBVIOUS
      <3> QED BY <2>1, <3>1
    <2>2. CASE d = [c EXCEPT !.changes = @ + 1, !.overlaps = @ + n]
      <3>1. [c EXCEPT !.changes = @ + 1] \in T OBVIOUS
      <3> QED BY <2>2, <3>1
    <2> QED BY <2>1, <2>2
  <1> QED BY <1>1

\* Jobs that start: one more when another is still there.
LEMMA SubmitWorks ==
    ASSUME NEW p \in DOMAIN FileParts, FileCore(p), NEW w \in FileParts[p].workers,
           Shelf(p)!Submit(w) \/ Shelf(p)!Rotate(w)
    PROVE  /\ work[w].pc = "idle" /\ times'["crashes"] = times["crashes"] /\ UNCHANGED <<disk, docs, reads>>
           /\ \/ Keeping(p) /\ UNCHANGED <<owners, deletes, audited, served>>
              \/ /\ times'["overlaps"] = times["overlaps"] + Shelf(p)!Overlapping(w)
                 /\ \E j : /\ Working(p, w, j) /\ j.pc = "next" /\ j.item = Void
                           /\ \A i \in j.todo : docs[i] # Void /\ docs[i].encrypted = (j.kind # "encrypt")
  <1>o. Shelf(p)!Overlapping(w) \in Nat BY DEF Shelf!Overlapping
  <1>t. times \in [deletes : Nat, changes : Nat, rotations : Nat, crashes : Nat, overlaps : Nat]
    BY DEF FileCore, FileTyped
  <1>1. CASE Shelf(p)!Rotate(w)
    <2>1. /\ times' = [times EXCEPT !.rotations = @ + 1, !.overlaps = @ + Shelf(p)!Overlapping(w)]
          /\ UNCHANGED <<sealing, known>> /\ Shelf(p)!Start(w, "rotate") /\ work[w].pc = "idle"
      BY <1>1 DEF Shelf!Rotate
    <2>2. /\ times' \in [deletes : Nat, changes : Nat, rotations : Nat, crashes : Nat, overlaps : Nat]
          /\ times'["crashes"] = times["crashes"] /\ times'["overlaps"] = times["overlaps"] + Shelf(p)!Overlapping(w)
      BY <1>o, <1>t, <2>1, CountUp
    <2>3. sealing' \in BOOLEAN /\ known' \subseteq BOOLEAN BY <2>1 DEF FileCore, FileTyped
    <2>4. PICK j : /\ Working(p, w, j) /\ UNCHANGED <<disk, docs, reads>>
                   /\ j.pc = "next" /\ j.kind = "rotate" /\ j.item = Void
                   /\ \A i \in j.todo : docs[i] # Void /\ docs[i].encrypted = ("rotate" # "encrypt")
      BY <2>1, <2>2, <2>3, StartWorks
    <2> QED BY <2>1, <2>2, <2>4
  <1>2. CASE Shelf(p)!Submit(w)
    <2>1. PICK on \in BOOLEAN, seen \in known :
            /\ sealing' = on /\ known' = known \cup {on}
            /\ IF on = seen
               THEN /\ times' = [times EXCEPT !.changes = @ + 1]
                    /\ UNCHANGED <<owners, docs, disk, uploads, deletes, reads, work, audited, served>>
               ELSE /\ times' = [times EXCEPT !.changes = @ + 1, !.overlaps = @ + Shelf(p)!Overlapping(w)]
                    /\ Shelf(p)!Start(w, IF on THEN "encrypt" ELSE "decrypt")
      BY <1>2 DEF Shelf!Submit
    <2>2. sealing' \in BOOLEAN /\ known' \subseteq BOOLEAN BY <2>1 DEF FileCore, FileTyped
    <2>3. work[w].pc = "idle" BY <1>2 DEF Shelf!Submit
    <2>4. CASE on = seen
      <3>1. /\ times' \in [deletes : Nat, changes : Nat, rotations : Nat, crashes : Nat, overlaps : Nat]
            /\ times'["crashes"] = times["crashes"] /\ times'["overlaps"] = times["overlaps"]
        BY <1>t, <2>1, <2>4
      <3>2. UNCHANGED <<owners, docs, disk, uploads, deletes, reads, work, audited, served>>
        BY <2>1, <2>4
      <3>3. Keeping(p) BY <2>2, <3>1, <3>2 DEF Keeping, FileCore, FileTyped
      <3> QED BY <2>3, <3>1, <3>2, <3>3
    <2>5. CASE on # seen
      <3>1. /\ times' = [times EXCEPT !.changes = @ + 1, !.overlaps = @ + Shelf(p)!Overlapping(w)]
            /\ Shelf(p)!Start(w, IF on THEN "encrypt" ELSE "decrypt")
        BY <2>1, <2>5
      <3>2. /\ times' \in [deletes : Nat, changes : Nat, rotations : Nat, crashes : Nat, overlaps : Nat]
            /\ times'["crashes"] = times["crashes"] /\ times'["overlaps"] = times["overlaps"] + Shelf(p)!Overlapping(w)
        BY <1>o, <1>t, <3>1, CountUp
      <3>3. PICK kind \in {"encrypt", "decrypt", "rotate"} : Shelf(p)!Start(w, kind) BY <3>1
      <3>4. PICK j : /\ Working(p, w, j) /\ UNCHANGED <<disk, docs, reads>>
                     /\ j.pc = "next" /\ j.kind = kind /\ j.item = Void
                     /\ \A i \in j.todo : docs[i] # Void /\ docs[i].encrypted = (kind # "encrypt")
        BY <2>2, <3>2, <3>3, StartWorks
      <3> QED BY <2>3, <3>2, <3>4
    <2> QED BY <2>4, <2>5
  <1> QED BY <1>1, <1>2

LEMMA ForgetKeeps ==
    ASSUME NEW p \in DOMAIN FileParts, FileCore(p), Shelf(p)!Forget
    PROVE  Keeping(p) /\ UNCHANGED <<owners, docs, deletes, reads, audited, served>>
  BY DEF Shelf!Forget, Keeping, FileCore, FileTyped

-----------------------------------------------------------------------------
(* One job at a time *)

LEMMA LoneEntering ==
    ASSUME NEW p \in DOMAIN FileParts, FileCore(p), LoneInv(p), NEW i, Entering(p, i) PROVE LoneInv(p)'
  <1>1. PICK u, f, r : Entered(p, i, u, f, r) BY DEF Entering
  <1>2. UNCHANGED <<work, times>> /\ uploads[i].pc \in Coming BY DEF Entering
  <1>3. ASSUME NEW w \in FileParts[p].workers, NEW k \in Tasks(w) PROVE docs'[k] = docs[k]
    <2>1. k \in FileParts[p].items /\ k # i BY <1>2, <1>3, TasksAreFiles DEF Landed, Coming
    <2> QED BY <1>1, <2>1 DEF Entered, FileCore, FileTyped
  <1>4. \A w \in FileParts[p].workers : Tasks(w)' = Tasks(w) BY <1>2 DEF Tasks, Chores
  <1> QED BY <1>2, <1>3, <1>4 DEF LoneInv

LEMMA LoneSettling ==
    ASSUME NEW p \in DOMAIN FileParts, FileCore(p), LoneInv(p), NEW i, Settling(p, i) PROVE LoneInv(p)'
  <1>1. UNCHANGED <<docs, work>> /\ times'["overlaps"] = times["overlaps"] BY DEF Settling, FileCore, FileTyped
  <1>2. \A w \in FileParts[p].workers : Tasks(w)' = Tasks(w) BY <1>1 DEF Tasks, Chores
  <1> QED BY <1>1, <1>2 DEF LoneInv

LEMMA LoneKeeping ==
    ASSUME NEW p \in DOMAIN FileParts, FileCore(p), LoneInv(p), Keeping(p) PROVE LoneInv(p)'
  <1>1. work' = work /\ times'["overlaps"] = times["overlaps"] BY DEF Keeping
  <1>2. \A w \in FileParts[p].workers : Tasks(w)' = Tasks(w) BY <1>1 DEF Tasks, Chores
  <1>3. ASSUME NEW w \in FileParts[p].workers, NEW k \in Tasks(w) PROVE docs'[k] \in {docs[k], Void}
    BY <1>3, TasksAreFiles DEF Keeping
  <1> QED BY <1>1, <1>2, <1>3 DEF LoneInv

\* The job of w becomes j, and what w does to rows is its own affair.
LEMMA LoneWorking ==
    ASSUME NEW p \in DOMAIN FileParts, FileCore(p), LoneInv(p), NEW w, NEW j, Working(p, w, j),
           docs' = docs \/ work[w].pc # "idle",
           times'["overlaps"] = 0 =>
             /\ times["overlaps"] = 0
             /\ j.pc # "idle" => \A v \in FileParts[p].workers \ {w} : work[v].pc = "idle"
             /\ \A i \in Chores(j) : docs'[i] # Void => docs'[i].encrypted = (j.kind # "encrypt")
    PROVE  LoneInv(p)'
  <1> SUFFICES ASSUME times'["overlaps"] = 0, NEW v \in FileParts[p].workers
               PROVE  /\ work'[v].pc # "idle" => \A x \in FileParts[p].workers \ {v} : work'[x].pc = "idle"
                      /\ \A i \in Tasks(v)' : docs'[i] # Void => docs'[i].encrypted = (work'[v].kind # "encrypt")
    BY DEF LoneInv
  <1>1. w \in FileParts[p].workers /\ \A x \in FileParts[p].workers : work'[x] = IF x = w THEN j ELSE work[x]
    BY DEF Working, FileCore, FileTyped
  <1>2. CASE v = w
    <2>1. Tasks(v)' = Chores(j) BY <1>1, <1>2 DEF Tasks, Chores
    <2> QED BY <1>1, <1>2, <2>1
  <1>3. CASE v # w
    <2>1. work'[v] = work[v] /\ work'[w] = j BY <1>1, <1>3
    <2>2. Tasks(v)' = Tasks(v) BY <2>1 DEF Tasks, Chores
    <2>3. work[v].pc # "idle" => j.pc = "idle" BY <1>3
    <2>4. work[v].pc # "idle" => \A x \in FileParts[p].workers \ {v} : work[x].pc = "idle"
      BY DEF LoneInv
    <2>5. \A i \in Tasks(v) : docs' = docs
      <3>1. CASE work[w].pc # "idle"
        <4>1. work[v].pc = "idle" BY <1>1, <1>3, <3>1 DEF LoneInv
        <4>2. Sane(work[v]) BY DEF FileCore, JobInv
        <4>3. Tasks(v) = {} BY <4>1, <4>2 DEF Sane, Tasks, Chores
        <4> QED BY <4>3
      <3> QED BY <3>1
    <2>6. \A i \in Tasks(v) : docs[i] # Void => docs[i].encrypted = (work[v].kind # "encrypt")
      BY DEF LoneInv
    <2> QED BY <1>1, <2>1, <2>2, <2>3, <2>4, <2>5, <2>6
  <1> QED BY <1>2, <1>3

LEMMA LoneStart ==
    ASSUME NEW p \in DOMAIN FileParts, FileCore(p), LoneInv(p), NEW w \in FileParts[p].workers,
           Shelf(p)!Submit(w) \/ Shelf(p)!Rotate(w)
    PROVE  LoneInv(p)'
  <1>1. CASE Keeping(p) BY <1>1, LoneKeeping
  <1>2. ASSUME times'["overlaps"] = times["overlaps"] + Shelf(p)!Overlapping(w), docs' = docs,
               NEW j, Working(p, w, j), j.pc = "next", j.item = Void,
               \A i \in j.todo : docs[i] # Void /\ docs[i].encrypted = (j.kind # "encrypt")
        PROVE  LoneInv(p)'
    <2>1. times["overlaps"] \in Nat BY DEF FileCore, FileTyped
    <2>2. times'["overlaps"] = 0 =>
            times["overlaps"] = 0 /\ \A v \in FileParts[p].workers \ {w} : work[v].pc = "idle"
      BY <1>2, <2>1 DEF Shelf!Overlapping
    <2>3. Chores(j) = j.todo BY <1>2 DEF Chores
    <2> QED BY <1>2, <2>2, <2>3, LoneWorking
  <1>3. UNCHANGED <<disk, docs, reads>> BY SubmitWorks
  <1>4. \/ Keeping(p)
        \/ /\ times'["overlaps"] = times["overlaps"] + Shelf(p)!Overlapping(w)
           /\ \E j : /\ Working(p, w, j) /\ j.pc = "next" /\ j.item = Void
                     /\ \A i \in j.todo : docs[i] # Void /\ docs[i].encrypted = (j.kind # "encrypt")
    BY SubmitWorks
  <1> QED BY <1>1, <1>2, <1>3, <1>4

\* A job that goes on has nothing to do that it had not before.
LEMMA LoneOnward ==
    ASSUME NEW p \in DOMAIN FileParts, FileCore(p), LoneInv(p), NEW w, NEW j, Working(p, w, j),
           work[w].pc # "idle", j.kind = work[w].kind \/ Chores(j) = {}, Chores(j) \subseteq Tasks(w),
           times'["overlaps"] = times["overlaps"], \A i \in Chores(j) : docs'[i] = docs[i]
    PROVE  LoneInv(p)'
  <1>1. w \in FileParts[p].workers BY DEF Working
  <1>2. times["overlaps"] = 0 =>
          /\ \A v \in FileParts[p].workers \ {w} : work[v].pc = "idle"
          /\ \A i \in Tasks(w) : docs[i] # Void => docs[i].encrypted = (work[w].kind # "encrypt")
    BY <1>1 DEF LoneInv
  <1>3. \A i \in Chores(j) : i \in Tasks(w) /\ j.kind = work[w].kind OBVIOUS
  <1> QED BY <1>2, <1>3, LoneWorking

LEMMA LoneJobs ==
    ASSUME NEW p \in DOMAIN FileParts, FileCore(p), LoneInv(p), NEW w \in FileParts[p].workers,
           Shelf(p)!TakeFile(w) \/ Shelf(p)!WriteFile(w) \/ Shelf(p)!MarkRow(w)
           \/ Shelf(p)!EndJob(w) \/ Shelf(p)!CrashJob(w)
    PROVE  LoneInv(p)'
  <1>n. Chores(Shelf(p)!NoJob) = {} BY DEF Chores, Shelf!NoJob
  <1>s. Sane(work[w]) /\ work[w] \in WorkType(FileParts[p]) BY DEF FileCore, FileTyped, JobInv
  <1>1. CASE Shelf(p)!TakeFile(w)
    <2>1. work[w].pc = "next" /\ times' = times BY <1>1, TakeWorks
    <2>2. CASE Working(p, w, Shelf(p)!NoJob) /\ UNCHANGED <<disk, docs, reads>>
      BY <1>n, <2>1, <2>2, LoneOnward
    <2>3. ASSUME NEW i, NEW j, Working(p, w, j), TakenUp(p, w, i, j) PROVE LoneInv(p)'
      <3>1. Chores(j) \subseteq Tasks(w) BY <2>3 DEF TakenUp, Tasks, Chores
      <3>2. j.kind = work[w].kind /\ docs' = docs BY <2>3 DEF TakenUp
      <3> QED BY <2>1, <2>3, <3>1, <3>2, LoneOnward
    <2> QED BY <1>1, <2>2, <2>3, TakeWorks
  <1>2. CASE Shelf(p)!WriteFile(w)
    <2>1. /\ UNCHANGED <<docs, reads, times>> /\ work[w].pc = "write"
      BY <1>2, WriteWorks
    <2>2. PICK j : /\ Working(p, w, j) /\ j.kind = work[w].kind /\ j.todo = work[w].todo
                   /\ j.item = IF work[w].kind = "rotate" THEN Void ELSE work[w].item
      BY <1>2, WriteWorks
    <2>3. Chores(j) \subseteq Tasks(w) BY <2>2 DEF Tasks, Chores
    <2> QED BY <2>1, <2>2, <2>3, LoneOnward
  <1>3. CASE Shelf(p)!MarkRow(w)
    <2>1. /\ UNCHANGED <<disk, reads, times>> /\ work[w].pc = "mark"
          /\ \A i \in FileParts[p].items \ {work[w].item} : docs'[i] = docs[i]
      BY <1>3, MarkWorks
    <2>2. PICK j : /\ Working(p, w, j) /\ j.kind = work[w].kind /\ j.todo = work[w].todo /\ j.item = Void
      BY <1>3, MarkWorks
    <2>3. Chores(j) = work[w].todo /\ Chores(j) \subseteq Tasks(w) BY <2>2 DEF Tasks, Chores
    <2>4. \A i \in Chores(j) : docs'[i] = docs[i] BY <1>s, <2>1, <2>3 DEF Sane, WorkType
    <2> QED BY <2>1, <2>2, <2>3, <2>4, LoneOnward
  <1>4. CASE Shelf(p)!EndJob(w) \/ Shelf(p)!CrashJob(w)
    <2>1. /\ Shelf(p)!End(w) /\ work[w].pc # "idle"
          /\ UNCHANGED <<owners, docs, disk, uploads, deletes, reads, sealing, known, audited, served>>
          /\ times' = times \/ times' = [times EXCEPT !["crashes"] = @ + 1]
      BY <1>4 DEF Shelf!EndJob, Shelf!CrashJob, Shelf!Bounded
    <2>2. /\ times' \in [deletes : Nat, changes : Nat, rotations : Nat, crashes : Nat, overlaps : Nat]
          /\ times'["overlaps"] = times["overlaps"]
      BY <2>1 DEF FileCore, FileTyped
    <2>3. Working(p, w, Shelf(p)!NoJob) BY <2>1, <2>2, EndWorks
    <2> QED BY <1>n, <2>1, <2>2, <2>3, LoneOnward
  <1> QED BY <1>1, <1>2, <1>3, <1>4

-----------------------------------------------------------------------------
(* Files that are not what their rows say *)

LEMMA FaultsFinite ==
    ASSUME NEW p \in DOMAIN FileParts PROVE IsFiniteSet(Faults(p)) /\ Cardinality(Faults(p)) \in Nat
  <1>1. Faults(p) \subseteq FileParts[p].items BY DEF Faults
  <1> QED BY <1>1, FileFacts, FS_Subset, FS_CardinalityType

LEMMA FewerFaults ==
    ASSUME NEW p \in DOMAIN FileParts, FaultInv(p), times["crashes"] \in Nat, times'["crashes"] \in Nat,
           times["crashes"] <= times'["crashes"],
           times'["overlaps"] = 0 => times["overlaps"] = 0 /\ Faults(p)' \subseteq Faults(p)
    PROVE  FaultInv(p)'
  <1> SUFFICES ASSUME times'["overlaps"] = 0 PROVE Cardinality(Faults(p)') <= times'["crashes"]
    BY DEF FaultInv
  <1> HIDE DEF Faults
  <1>1. IsFiniteSet(Faults(p)) /\ Cardinality(Faults(p)) \in Nat /\ Cardinality(Faults(p)) <= times["crashes"]
    BY FaultsFinite DEF FaultInv
  <1>2. Cardinality(Faults(p)') \in Nat /\ Cardinality(Faults(p)') <= Cardinality(Faults(p))
    BY <1>1, FS_Subset, FS_CardinalityType
  <1> QED BY <1>1, <1>2

LEMMA OneMoreFault ==
    ASSUME NEW p \in DOMAIN FileParts, FaultInv(p), times["crashes"] \in Nat,
           times'["crashes"] = times["crashes"] + 1, NEW x,
           times'["overlaps"] = 0 => times["overlaps"] = 0 /\ Faults(p)' \subseteq Faults(p) \cup {x}
    PROVE  FaultInv(p)'
  <1> SUFFICES ASSUME times'["overlaps"] = 0 PROVE Cardinality(Faults(p)') <= times'["crashes"]
    BY DEF FaultInv
  <1> HIDE DEF Faults
  <1>1. IsFiniteSet(Faults(p)) /\ Cardinality(Faults(p)) \in Nat /\ Cardinality(Faults(p)) <= times["crashes"]
    BY FaultsFinite DEF FaultInv
  <1>2. /\ IsFiniteSet(Faults(p) \cup {x}) /\ Cardinality(Faults(p) \cup {x}) \in Nat
        /\ Cardinality(Faults(p) \cup {x}) <= Cardinality(Faults(p)) + 1
    <2>1. /\ IsFiniteSet(Faults(p) \cup {x})
          /\ Cardinality(Faults(p) \cup {x}) = IF x \in Faults(p) THEN Cardinality(Faults(p)) ELSE Cardinality(Faults(p)) + 1
      BY <1>1, FS_AddElement
    <2> QED BY <1>1, <2>1
  <1>3. Cardinality(Faults(p)') \in Nat /\ Cardinality(Faults(p)') <= Cardinality(Faults(p) \cup {x})
    BY <1>2, FS_Subset, FS_CardinalityType
  <1> QED BY <1>1, <1>2, <1>3

\* Only a task can be in hand.
LEMMA InHand ==
    ASSUME NEW p \in DOMAIN FileParts, FileCore(p), NEW w \in FileParts[p].workers,
           NEW i \in FileParts[p].items, work[w].item = i
    PROVE  /\ work[w].pc \in {"write", "mark"} /\ i \in Tasks(w) /\ uploads[i].pc \in Landed
           /\ Shelf(p)!Rewriting(i)
  <1>1. i # Void /\ Sane(work[w]) BY FileFacts DEF FileCore, JobInv
  <1> QED BY <1>1 DEF Sane, Tasks, Chores, Shelf!Rewriting

LEMMA FaultsEntering ==
    ASSUME NEW p \in DOMAIN FileParts, FileCore(p), FaultInv(p), NEW i, Entering(p, i) PROVE FaultInv(p)'
  <1>1. PICK u, f, r : Entered(p, i, u, f, r) BY DEF Entering
  <1>2. i \in FileParts[p].items /\ UNCHANGED <<work, times>> /\ uploads[i].pc \in Coming BY DEF Entering
  <1>3. /\ disk'[i] = f /\ docs'[i] = r
        /\ \A k \in FileParts[p].items \ {i} : disk'[k] = disk[k] /\ docs'[k] = docs[k]
    BY <1>1, <1>2 DEF FileCore, FileTyped, Entered
  <1>4. ASSUME NEW k \in FileParts[p].items, IsFault(p, k)' PROVE IsFault(p, k)
    <2>1. docs'[k] # Void /\ docs'[k].kind = "file" BY <1>4 DEF IsFault
    <2>2. CASE ~Shelf(p)!Rewriting(k)' /\ disk'[k] # As(docs'[k].encrypted)
      <3>1. k # i BY <1>1, <1>3, <2>1, <2>2 DEF Entered
      <3>2. ~Shelf(p)!Rewriting(k) BY <1>2, <2>2 DEF Shelf!Rewriting
      <3> QED BY <1>3, <2>1, <2>2, <3>1, <3>2 DEF IsFault
    <2>3. ASSUME NEW w \in FileParts[p].workers, work'[w].item = k, Spoilt(w)' PROVE IsFault(p, k)
      <3>1. work[w].item = k BY <1>2, <2>3
      <3>2. k # i BY <1>2, <3>1, InHand DEF Landed, Coming
      <3>3. Spoilt(w) BY <1>2, <1>3, <2>3, <3>1, <3>2 DEF Spoilt, Wanted
      <3> QED BY <1>3, <2>1, <3>1, <3>2, <3>3 DEF IsFault
    <2> QED BY <1>4, <2>2, <2>3 DEF IsFault
  <1>5. Faults(p)' \subseteq Faults(p) BY <1>4 DEF Faults
  <1>6. times["crashes"] \in Nat BY DEF FileCore, FileTyped
  <1> QED BY <1>2, <1>5, <1>6, FewerFaults

LEMMA FaultsSame ==
    ASSUME NEW p \in DOMAIN FileParts, FileCore(p), FaultInv(p), UNCHANGED <<disk, work>>,
           \A k \in FileParts[p].items : docs'[k] \in {docs[k], Void},
           times' \in [deletes : Nat, changes : Nat, rotations : Nat, crashes : Nat, overlaps : Nat],
           times'["overlaps"] = times["overlaps"], times["crashes"] <= times'["crashes"]
    PROVE  FaultInv(p)'
  <1>1. ASSUME NEW k \in FileParts[p].items, IsFault(p, k)' PROVE IsFault(p, k)
    <2>1. docs'[k] = docs[k] BY <1>1 DEF IsFault
    <2>2. Shelf(p)!Rewriting(k)' = Shelf(p)!Rewriting(k) BY DEF Shelf!Rewriting
    <2>3. \A w \in FileParts[p].workers : Spoilt(w)' = Spoilt(w) BY DEF Spoilt, Wanted
    <2> QED BY <1>1, <2>1, <2>2, <2>3 DEF IsFault
  <1>2. Faults(p)' \subseteq Faults(p) BY <1>1 DEF Faults
  <1>3. times["crashes"] \in Nat BY DEF FileCore, FileTyped
  <1> QED BY <1>2, <1>3, FewerFaults

\* A step of a job that has nothing in hand, before and after.
LEMMA FaultsIdle ==
    ASSUME NEW p \in DOMAIN FileParts, FileCore(p), FaultInv(p), NEW w, NEW j, Working(p, w, j),
           UNCHANGED <<disk, docs>>, work[w].pc \notin {"write", "mark"}, j.pc \notin {"write", "mark"},
           times'["crashes"] = times["crashes"], times'["overlaps"] = 0 => times["overlaps"] = 0
    PROVE  FaultInv(p)'
  <1>1. w \in FileParts[p].workers /\ \A v \in FileParts[p].workers : work'[v] = IF v = w THEN j ELSE work[v]
    BY DEF Working, FileCore, FileTyped
  <1>2. ASSUME NEW k \in FileParts[p].items, IsFault(p, k)' PROVE IsFault(p, k)
    <2>1. Shelf(p)!Rewriting(k)' <=> Shelf(p)!Rewriting(k) BY <1>1 DEF Shelf!Rewriting
    <2>2. ASSUME NEW v \in FileParts[p].workers, work'[v].item = k, Spoilt(v)' PROVE work[v].item = k /\ Spoilt(v)
      <3>1. v # w BY <1>1, <2>2 DEF Spoilt
      <3> QED BY <1>1, <2>2, <3>1 DEF Spoilt, Wanted
    <2> QED BY <1>2, <2>1, <2>2 DEF IsFault
  <1>3. Faults(p)' \subseteq Faults(p) BY <1>2 DEF Faults
  <1>4. times["crashes"] \in Nat BY DEF FileCore, FileTyped
  <1> QED BY <1>3, <1>4, FewerFaults

\* While one job is at work no other has anything in hand.
LEMMA AloneAtWork ==
    ASSUME NEW p \in DOMAIN FileParts, FileCore(p), LoneInv(p), times["overlaps"] = 0,
           NEW w \in FileParts[p].workers, work[w].pc # "idle"
    PROVE  /\ \A v \in FileParts[p].workers \ {w} : work[v].pc = "idle" /\ work[v].item = Void
           /\ \A i \in Tasks(w) : docs[i] # Void => docs[i].encrypted = (work[w].kind # "encrypt")
  <1>1. ASSUME NEW v \in FileParts[p].workers \ {w} PROVE work[v].pc = "idle" /\ work[v].item = Void
    <2>1. work[v].pc = "idle" BY DEF LoneInv
    <2>2. Sane(work[v]) BY DEF FileCore, JobInv
    <2> QED BY <2>1, <2>2 DEF Sane
  <1> QED BY <1>1 DEF LoneInv

\* A file that is what its row says turns into what the job wants.
LEMMA TurnsWell ==
    ASSUME NEW p \in DOMAIN FileParts, NEW kind \in {"encrypt", "decrypt", "rotate"}
    PROVE  Shelf(p)!Turned(kind, As(kind # "encrypt")) = As(kind # "decrypt")
  <1>1. CASE kind = "encrypt"
    <2>1. As(kind # "encrypt") = As(FALSE) /\ As(kind # "decrypt") = As(TRUE) BY <1>1
    <2> QED BY <1>1, <2>1, BytesFacts DEF Shelf!Turned
  <1>2. CASE kind = "decrypt"
    <2>1. As(kind # "encrypt") = As(TRUE) /\ As(kind # "decrypt") = As(FALSE) BY <1>2
    <2> QED BY <1>2, <2>1, BytesFacts DEF Shelf!Turned
  <1>3. CASE kind = "rotate"
    <2>1. As(kind # "encrypt") = As(TRUE) /\ As(kind # "decrypt") = As(TRUE) BY <1>3
    <2> QED BY <1>3, <2>1, BytesFacts DEF Shelf!Turned
  <1> QED BY <1>1, <1>2, <1>3

LEMMA FaultsTake ==
    ASSUME NEW p \in DOMAIN FileParts, FileCore(p), LoneInv(p), FaultInv(p), NEW w, work[w].pc = "next",
           NEW j, Working(p, w, j), NEW i, TakenUp(p, w, i, j), times' = times
    PROVE  FaultInv(p)'
  <1>1. w \in FileParts[p].workers /\ \A v \in FileParts[p].workers : work'[v] = IF v = w THEN j ELSE work[v]
    BY DEF Working, FileCore, FileTyped
  <1>2. /\ j.pc = "write" /\ j.kind = work[w].kind /\ j.item = i /\ j.data = Shelf(p)!Turned(work[w].kind, disk[i])
        /\ disk' = [disk EXCEPT ![i] = Shelf(p)!Empty] /\ docs' = docs /\ i \in Tasks(w)
    BY DEF TakenUp, Tasks, Chores
  <1>3. Sane(work[w]) /\ work[w].kind \in {"encrypt", "decrypt", "rotate"}
    BY <1>1 DEF FileCore, JobInv, Sane
  <1>4. work'[w] = j /\ i \in FileParts[p].items BY <1>1, <1>2, TasksAreFiles
  <1>5. ASSUME times["overlaps"] = 0, NEW k \in FileParts[p].items, IsFault(p, k)' PROVE IsFault(p, k)
    <2>1. /\ \A v \in FileParts[p].workers \ {w} : work[v].pc = "idle" /\ work[v].item = Void
          /\ docs[i] # Void => docs[i].encrypted = (work[w].kind # "encrypt")
      BY <1>1, <1>2, <1>5, AloneAtWork
    <2>2. ~Shelf(p)!Rewriting(k) BY <1>1, <2>1 DEF Shelf!Rewriting
    <2>3. docs[k] # Void /\ docs[k].kind = "file" BY <1>2, <1>5 DEF IsFault
    <2>4. CASE k = i
      <3>1. Shelf(p)!Rewriting(k)' BY <1>1, <1>2, <1>4, <2>4 DEF Shelf!Rewriting
      <3>2. PICK v \in FileParts[p].workers : work'[v].item = k /\ Spoilt(v)'
        BY <1>5, <3>1 DEF IsFault
      <3>3. v = w
        <4>1. k # Void BY FileFacts
        <4> QED BY <1>1, <2>1, <3>2, <4>1
      <3>4. j.data # As(j.kind # "decrypt") BY <1>2, <1>4, <3>2, <3>3 DEF Spoilt, Wanted
      <3>5. disk[k] # As(docs[k].encrypted)
        <4>1. docs[k].encrypted = (work[w].kind # "encrypt") BY <2>1, <2>3, <2>4
        <4> QED BY <1>2, <1>3, <2>4, <3>4, <4>1, TurnsWell
      <3> QED BY <2>2, <2>3, <3>5 DEF IsFault
    <2>5. CASE k # i
      <3>1. disk'[k] = disk[k] BY <1>2, <2>5 DEF FileCore, FileTyped
      <3>2. \A v \in FileParts[p].workers : work'[v].item # k
        <4>1. k # Void BY FileFacts
        <4> QED BY <1>1, <1>2, <2>1, <2>5, <4>1
      <3>3. disk'[k] # As(docs'[k].encrypted) BY <1>5, <3>2 DEF IsFault
      <3> QED BY <1>2, <2>2, <2>3, <3>1, <3>3 DEF IsFault
    <2> QED BY <2>4, <2>5
  <1>6. times["overlaps"] = 0 => Faults(p)' \subseteq Faults(p) BY <1>5 DEF Faults
  <1>7. times["crashes"] \in Nat BY DEF FileCore, FileTyped
  <1> QED BY <1>6, <1>7, FewerFaults

\* A file that nobody has in hand stays what it was.
LEMMA FaultsElsewhere ==
    ASSUME NEW p \in DOMAIN FileParts, FileCore(p), LoneInv(p), times["overlaps"] = 0,
           NEW w, work[w].pc # "idle", NEW j, Working(p, w, j), NEW k \in FileParts[p].items,
           work[w].item # k, j.item # k, disk'[k] = disk[k], docs'[k] = docs[k], IsFault(p, k)'
    PROVE  IsFault(p, k)
  <1>1. w \in FileParts[p].workers /\ \A v \in FileParts[p].workers : work'[v] = IF v = w THEN j ELSE work[v]
    BY DEF Working, FileCore, FileTyped
  <1>2. \A v \in FileParts[p].workers : work[v].item # k /\ work'[v].item # k
    BY <1>1, AloneAtWork, FileFacts
  <1>3. ~Shelf(p)!Rewriting(k) BY <1>2 DEF Shelf!Rewriting
  <1>4. docs[k] # Void /\ docs[k].kind = "file" /\ disk[k] # As(docs[k].encrypted) BY <1>2 DEF IsFault
  <1> QED BY <1>3, <1>4 DEF IsFault

LEMMA FaultsWrite ==
    ASSUME NEW p \in DOMAIN FileParts, FileCore(p), LoneInv(p), FaultInv(p),
           NEW w \in FileParts[p].workers, Shelf(p)!WriteFile(w)
    PROVE  FaultInv(p)'
  <1> DEFINE i == work[w].item
  <1>1. /\ UNCHANGED <<docs, reads, times>> /\ work[w].pc = "write" /\ i \in Tasks(w)
        /\ disk' = [disk EXCEPT ![i] = work[w].data]
    BY WriteWorks
  <1>2. PICK j : /\ Working(p, w, j) /\ j.kind = work[w].kind
                 /\ j.pc = IF work[w].kind = "rotate" THEN "next" ELSE "mark"
                 /\ j.item = IF work[w].kind = "rotate" THEN Void ELSE i
    BY WriteWorks
  <1>3. PICK x : x = i OBVIOUS
  <1> HIDE DEF i
  <1>4. x \in FileParts[p].items /\ x # Void BY <1>1, <1>3, TasksAreFiles, FileFacts
  <1>5. work[w].item = x BY <1>3 DEF i
  <1>6. /\ disk'[x] = work[w].data
        /\ \A k \in FileParts[p].items \ {x} : disk'[k] = disk[k]
    BY <1>1, <1>3, <1>4 DEF FileCore, FileTyped
  <1>7. work'[w] = j /\ \A v \in FileParts[p].workers \ {w} : work'[v] = work[v]
    BY <1>2 DEF Working, FileCore, FileTyped
  <1>8. ASSUME times["overlaps"] = 0, NEW k \in FileParts[p].items, IsFault(p, k)' PROVE IsFault(p, k)
    <2>1. CASE k # x
      <3>1. j.item # k BY <1>2, <1>3, <1>8, <2>1, FileFacts
      <3> QED BY <1>1, <1>2, <1>5, <1>6, <1>8, <2>1, <3>1, FaultsElsewhere
    <2>2. CASE k = x
      <3>1. /\ \A v \in FileParts[p].workers \ {w} : work'[v].item = Void
            /\ docs[x] # Void => docs[x].encrypted = (work[w].kind # "encrypt")
        BY <1>1, <1>3, <1>7, <1>8, AloneAtWork
      <3>2. docs[x] # Void /\ docs[x].kind = "file" BY <1>1, <1>8, <2>2 DEF IsFault
      <3>3. work[w].data # Wanted(w)
        <4>1. CASE work[w].kind = "rotate"
          <5>1. \A v \in FileParts[p].workers : work'[v].item # x BY <1>2, <1>4, <1>7, <3>1, <4>1
          <5>2. disk'[x] # As(docs'[x].encrypted) BY <1>8, <2>2, <5>1 DEF IsFault
          <5>3. docs[x].encrypted = (work[w].kind # "decrypt") BY <3>1, <3>2, <4>1
          <5> QED BY <1>1, <1>6, <5>2, <5>3 DEF Wanted
        <4>2. CASE work[w].kind # "rotate"
          <5>1. j.pc = "mark" /\ j.item = x BY <1>2, <1>3, <4>2
          <5>2. Shelf(p)!Rewriting(x)' BY <1>7, <5>1 DEF Shelf!Rewriting
          <5>3. PICK v \in FileParts[p].workers : work'[v].item = x /\ Spoilt(v)'
            BY <1>8, <2>2, <5>2 DEF IsFault
          <5>4. v = w BY <1>4, <3>1, <5>3
          <5>5. disk'[x] # As(j.kind # "decrypt") BY <1>7, <5>1, <5>3, <5>4 DEF Spoilt, Wanted
          <5> QED BY <1>2, <1>6, <5>5 DEF Wanted
        <4> QED BY <4>1, <4>2
      <3>4. Spoilt(w) BY <1>1, <3>3 DEF Spoilt
      <3> QED BY <1>5, <2>2, <3>2, <3>4 DEF IsFault
    <2> QED BY <2>1, <2>2
  <1>9. times["overlaps"] = 0 => Faults(p)' \subseteq Faults(p) BY <1>8 DEF Faults
  <1>10. times["crashes"] \in Nat BY DEF FileCore, FileTyped
  <1> QED BY <1>1, <1>9, <1>10, FewerFaults

LEMMA FaultsMark ==
    ASSUME NEW p \in DOMAIN FileParts, FileCore(p), LoneInv(p), FaultInv(p),
           NEW w \in FileParts[p].workers, Shelf(p)!MarkRow(w)
    PROVE  FaultInv(p)'
  <1>1. /\ UNCHANGED <<disk, reads, times>> /\ work[w].pc = "mark" /\ work[w].item \in Tasks(w)
        /\ \A k \in FileParts[p].items \ {work[w].item} : docs'[k] = docs[k]
        /\ docs[work[w].item] # Void => docs'[work[w].item].encrypted = (work[w].kind = "encrypt")
    BY MarkWorks
  <1>2. PICK j : Working(p, w, j) /\ j.pc = "next" /\ j.item = Void BY MarkWorks
  <1>3. PICK x : x = work[w].item OBVIOUS
  <1>4. x \in FileParts[p].items /\ x # Void BY <1>1, <1>3, TasksAreFiles, FileFacts
  <1>5. work'[w] = j /\ \A v \in FileParts[p].workers \ {w} : work'[v] = work[v]
    BY <1>2 DEF Working, FileCore, FileTyped
  <1>6. work[w].kind \in {"encrypt", "decrypt"} BY <1>1 DEF FileCore, JobInv, Sane
  <1>7. ASSUME times["overlaps"] = 0, NEW k \in FileParts[p].items, IsFault(p, k)' PROVE IsFault(p, k)
    <2>1. CASE k # x
      <3>1. j.item # k BY <1>2, <1>7, FileFacts
      <3> QED BY <1>1, <1>2, <1>3, <1>7, <2>1, <3>1, FaultsElsewhere
    <2>2. CASE k = x
      <3>1. \A v \in FileParts[p].workers \ {w} : work'[v].item = Void
        BY <1>1, <1>5, <1>7, AloneAtWork
      <3>2. \A v \in FileParts[p].workers : work'[v].item # x BY <1>2, <1>4, <1>5, <3>1
      <3>3. docs'[x] # Void /\ docs'[x].kind = "file" /\ disk'[x] # As(docs'[x].encrypted)
        BY <1>7, <2>2, <3>2 DEF IsFault
      <3>4. docs[x] # Void /\ docs[x].kind = "file" BY <1>2, <1>4, <3>3 DEF Working
      <3>5. docs'[x].encrypted = (work[w].kind # "decrypt") BY <1>1, <1>3, <1>6, <3>4
      <3>6. disk[x] # Wanted(w) BY <1>1, <3>3, <3>5 DEF Wanted
      <3>7. Spoilt(w) BY <1>1, <1>3, <3>6 DEF Spoilt
      <3> QED BY <1>3, <2>2, <3>4, <3>7 DEF IsFault
    <2> QED BY <2>1, <2>2
  <1>8. times["overlaps"] = 0 => Faults(p)' \subseteq Faults(p) BY <1>7 DEF Faults
  <1>9. times["crashes"] \in Nat BY DEF FileCore, FileTyped
  <1> QED BY <1>1, <1>8, <1>9, FewerFaults

LEMMA FaultsJobs ==
    ASSUME NEW p \in DOMAIN FileParts, FileCore(p), LoneInv(p), FaultInv(p), NEW w \in FileParts[p].workers,
           Shelf(p)!TakeFile(w) \/ Shelf(p)!WriteFile(w) \/ Shelf(p)!MarkRow(w)
           \/ Shelf(p)!EndJob(w) \/ Shelf(p)!CrashJob(w)
    PROVE  FaultInv(p)'
  <1>n. Shelf(p)!NoJob.pc = "idle" /\ Shelf(p)!NoJob.item = Void BY DEF Shelf!NoJob
  <1>1. CASE Shelf(p)!TakeFile(w)
    <2>1. work[w].pc = "next" /\ times' = times BY <1>1, TakeWorks
    <2>2. CASE Working(p, w, Shelf(p)!NoJob) /\ UNCHANGED <<disk, docs, reads>>
      BY <1>n, <2>1, <2>2, FaultsIdle
    <2>3. ASSUME NEW i, NEW j, Working(p, w, j), TakenUp(p, w, i, j) PROVE FaultInv(p)'
      BY <2>1, <2>3, FaultsTake
    <2> QED BY <1>1, <2>2, <2>3, TakeWorks
  <1>2. CASE Shelf(p)!WriteFile(w) BY <1>2, FaultsWrite
  <1>3. CASE Shelf(p)!MarkRow(w) BY <1>3, FaultsMark
  <1>4. CASE Shelf(p)!EndJob(w)
    <2>1. /\ Shelf(p)!End(w) /\ work[w].pc = "next"
          /\ UNCHANGED <<owners, docs, disk, uploads, deletes, reads, sealing, known, audited, served, times>>
      BY <1>4 DEF Shelf!EndJob
    <2>2. times' \in [deletes : Nat, changes : Nat, rotations : Nat, crashes : Nat, overlaps : Nat]
      BY <2>1 DEF FileCore, FileTyped
    <2>3. Working(p, w, Shelf(p)!NoJob) BY <2>1, <2>2, EndWorks
    <2> QED BY <1>n, <2>1, <2>3, FaultsIdle
  <1>5. CASE Shelf(p)!CrashJob(w)
    <2>1. /\ Shelf(p)!End(w) /\ work[w].pc # "idle"
          /\ UNCHANGED <<owners, docs, disk, uploads, deletes, reads, sealing, known, audited, served>>
          /\ times' = [times EXCEPT !["crashes"] = @ + 1]
      BY <1>5 DEF Shelf!CrashJob, Shelf!Bounded
    <2>2. /\ times' \in [deletes : Nat, changes : Nat, rotations : Nat, crashes : Nat, overlaps : Nat]
          /\ times'["overlaps"] = times["overlaps"] /\ times'["crashes"] = times["crashes"] + 1
          /\ times["crashes"] \in Nat
      BY <2>1 DEF FileCore, FileTyped
    <2>3. Working(p, w, Shelf(p)!NoJob) BY <2>1, <2>2, EndWorks
    <2>4. ASSUME times["overlaps"] = 0, NEW k \in FileParts[p].items, IsFault(p, k)', k # work[w].item
          PROVE  IsFault(p, k)
      <3>1. Shelf(p)!NoJob.item # k BY <1>n, FileFacts
      <3> QED BY <2>1, <2>3, <2>4, <3>1, FaultsElsewhere
    <2>5. PICK x : x = work[w].item OBVIOUS
    <2>6. times["overlaps"] = 0 => Faults(p)' \subseteq Faults(p) \cup {x} BY <2>4, <2>5 DEF Faults
    <2> QED BY <2>2, <2>6, OneMoreFault
  <1> QED BY <1>1, <1>2, <1>3, <1>4, <1>5

LEMMA FaultsStart ==
    ASSUME NEW p \in DOMAIN FileParts, FileCore(p), FaultInv(p), NEW w \in FileParts[p].workers,
           Shelf(p)!Submit(w) \/ Shelf(p)!Rotate(w)
    PROVE  FaultInv(p)'
  <1>1. /\ work[w].pc = "idle" /\ times'["crashes"] = times["crashes"] /\ UNCHANGED <<disk, docs, reads>>
        /\ times["crashes"] \in Nat /\ times["overlaps"] \in Nat
    BY SubmitWorks DEF FileCore, FileTyped
  <1>2. CASE Keeping(p) BY <1>1, <1>2, FaultsSame DEF Keeping
  <1>3. ASSUME times'["overlaps"] = times["overlaps"] + Shelf(p)!Overlapping(w),
               NEW j, Working(p, w, j), j.pc = "next"
        PROVE  FaultInv(p)'
    <2>1. times'["overlaps"] = 0 => times["overlaps"] = 0 BY <1>1, <1>3 DEF Shelf!Overlapping
    <2> QED BY <1>1, <1>3, <2>1, FaultsIdle
  <1>4. \/ Keeping(p)
        \/ /\ times'["overlaps"] = times["overlaps"] + Shelf(p)!Overlapping(w)
           /\ \E j : Working(p, w, j) /\ j.pc = "next"
    BY SubmitWorks
  <1> QED BY <1>2, <1>3, <1>4

-----------------------------------------------------------------------------
(* Downloads *)

LEMMA CalmFiles ==
    ASSUME NEW p \in DOMAIN FileParts, FaultInv(p), Calm, NEW i \in FileParts[p].items,
           docs[i] # Void, docs[i].kind = "file", ~Shelf(p)!Rewriting(i)
    PROVE  disk[i] = As(docs[i].encrypted)
  <1>1. Cardinality(Faults(p)) = 0
    <2> HIDE DEF Faults
    <2> QED BY FaultsFinite DEF FaultInv, Calm
  <1>2. Faults(p) = {}
    <2> HIDE DEF Faults
    <2> QED BY <1>1, FaultsFinite, FS_EmptySet
  <1> QED BY <1>2 DEF Faults, IsFault

\* What leaves a download, its file and its upload alone leaves it right.
LEMMA ReadStays ==
    ASSUME NEW p \in DOMAIN FileParts, NEW r \in FileParts[p].readers, ReadInv(p, r), Calm' => Calm,
           NEW k, reads[r].item = k,
           /\ reads'[r].pc = reads[r].pc /\ reads'[r].item = k /\ reads'[r].encrypted = reads[r].encrypted
           /\ reads[r].overtaken => reads'[r].overtaken,
           k \in FileParts[p].items /\ uploads[k].pc \in Landed => uploads'[k].pc \in Landed,
           k \in FileParts[p].items /\ uploads[k].pc \in Landed /\ ~Shelf(p)!Rewriting(k) /\ ~reads'[r].overtaken =>
               disk'[k] = disk[k] /\ ~Shelf(p)!Rewriting(k)'
    PROVE  ReadInv(p, r)'
  <1> SUFFICES ASSUME reads'[r].pc = "open"
               PROVE  /\ k \in FileParts[p].items /\ uploads'[k].pc \in Landed
                      /\ Calm' /\ ~reads'[r].overtaken =>
                           ~Shelf(p)!Rewriting(k)' /\ disk'[k] = As(reads'[r].encrypted)
    BY DEF ReadInv, Shelf!Rewriting
  <1>1. k \in FileParts[p].items /\ uploads[k].pc \in Landed BY DEF ReadInv
  <1>2. Calm /\ ~reads[r].overtaken =>
          ~(\E w \in FileParts[p].workers : work[w].item = k /\ work[w].pc \in {"write", "mark"})
          /\ disk[k] = As(reads[r].encrypted)
    BY DEF ReadInv, Shelf!Rewriting
  <1>3. Calm /\ ~reads[r].overtaken => ~Shelf(p)!Rewriting(k) /\ disk[k] = As(reads[r].encrypted)
    BY <1>2 DEF Shelf!Rewriting
  <1> QED BY <1>1, <1>3

LEMMA ReadsEntering ==
    ASSUME NEW p \in DOMAIN FileParts, FileCore(p), NEW i, Entering(p, i),
           NEW r \in FileParts[p].readers, ReadInv(p, r)
    PROVE  ReadInv(p, r)'
  <1>1. PICK u, f, q : Entered(p, i, u, f, q) BY DEF Entering
  <1>2. i \in FileParts[p].items /\ UNCHANGED <<reads, work, times>> /\ uploads[i].pc \in Coming BY DEF Entering
  <1>3. \A k \in FileParts[p].items \ {i} : disk'[k] = disk[k] /\ uploads'[k] = uploads[k]
    BY <1>1, <1>2 DEF FileCore, FileTyped, Entered
  <1>4. PICK k : k = reads[r].item OBVIOUS
  <1>5. k \in FileParts[p].items /\ uploads[k].pc \in Landed => disk'[k] = disk[k] /\ uploads'[k] = uploads[k]
    BY <1>2, <1>3 DEF Landed, Coming
  <1>6. Shelf(p)!Rewriting(k)' <=> Shelf(p)!Rewriting(k) BY <1>2 DEF Shelf!Rewriting
  <1>7. Calm' <=> Calm BY <1>2 DEF Calm
  <1> QED BY <1>2, <1>4, <1>5, <1>6, <1>7, ReadStays

LEMMA ReadsSettling ==
    ASSUME NEW p \in DOMAIN FileParts, FileCore(p), NEW i, Settling(p, i),
           NEW r \in FileParts[p].readers, ReadInv(p, r)
    PROVE  ReadInv(p, r)' /\ (Calm' => Calm)
  <1>1. i \in FileParts[p].items /\ UNCHANGED <<reads, work, disk>> BY DEF Settling
  <1>2. PICK k : k = reads[r].item OBVIOUS
  <1>3. k \in FileParts[p].items /\ uploads[k].pc \in Landed => uploads'[k].pc \in Landed
    <2>1. uploads \in [FileParts[p].items -> UploadType(FileParts[p])] BY DEF FileCore, FileTyped
    <2>2. uploads' = [uploads EXCEPT ![i].pc = "done"] \/ uploads' = [uploads EXCEPT ![i].pc = "died"]
      BY DEF Settling
    <2>3. k \in FileParts[p].items => uploads'[k].pc \in {uploads[k].pc, "done", "died"}
      BY <1>1, <2>1, <2>2 DEF UploadType
    <2> QED BY <2>3 DEF Landed
  <1>4. Shelf(p)!Rewriting(k)' <=> Shelf(p)!Rewriting(k) BY <1>1 DEF Shelf!Rewriting
  <1>5. Calm' => Calm BY DEF Settling, Calm, FileCore, FileTyped
  <1> QED BY <1>1, <1>2, <1>3, <1>4, <1>5, ReadStays

LEMMA ReadsKeeping ==
    ASSUME NEW p \in DOMAIN FileParts, FileCore(p), Keeping(p),
           NEW r \in FileParts[p].readers, ReadInv(p, r), reads'[r] = reads[r]
    PROVE  ReadInv(p, r)'
  <1>1. UNCHANGED <<disk, uploads, work>> BY DEF Keeping
  <1>2. PICK k : k = reads[r].item OBVIOUS
  <1>3. Shelf(p)!Rewriting(k)' <=> Shelf(p)!Rewriting(k) BY <1>1 DEF Shelf!Rewriting
  <1>4. Calm' => Calm
    <2>1. times["crashes"] \in Nat BY DEF FileCore, FileTyped
    <2> QED BY <2>1 DEF Keeping, Calm
  <1> QED BY <1>1, <1>2, <1>3, <1>4, ReadStays

\* A job that goes on overtakes the downloads of what it takes up.
LEMMA ReadsWorking ==
    ASSUME NEW p \in DOMAIN FileParts, FileCore(p), NEW w, NEW j, Working(p, w, j), Calm' => Calm,
           NEW r \in FileParts[p].readers, ReadInv(p, r),
           reads'[r].pc = reads[r].pc, reads'[r].item = reads[r].item, reads'[r].encrypted = reads[r].encrypted,
           reads[r].overtaken => reads'[r].overtaken,
           reads[r].item = work[w].item \/ reads'[r].overtaken \/
             (disk'[reads[r].item] = disk[reads[r].item] /\ (j.pc \in {"write", "mark"} => j.item # reads[r].item))
    PROVE  ReadInv(p, r)'
  <1>1. PICK k : k = reads[r].item OBVIOUS
  <1>2. w \in FileParts[p].workers /\ uploads' = uploads BY DEF Working
  <1>3. \A v \in FileParts[p].workers : work'[v] = IF v = w THEN j ELSE work[v]
    BY <1>2 DEF Working, FileCore, FileTyped
  <1>4. ASSUME k \in FileParts[p].items, ~Shelf(p)!Rewriting(k), ~reads'[r].overtaken
        PROVE  disk'[k] = disk[k] /\ ~Shelf(p)!Rewriting(k)'
    <2>1. work[w].item # k BY <1>2, <1>4, InHand
    <2>2. disk'[k] = disk[k] /\ (j.pc \in {"write", "mark"} => j.item # k) BY <1>1, <1>4, <2>1
    <2> QED BY <1>3, <1>4, <2>2 DEF Shelf!Rewriting
  <1> QED BY <1>1, <1>2, <1>4, ReadStays

LEMMA ReadsJobs ==
    ASSUME NEW p \in DOMAIN FileParts, FileCore(p), NEW w \in FileParts[p].workers,
           Shelf(p)!TakeFile(w) \/ Shelf(p)!WriteFile(w) \/ Shelf(p)!MarkRow(w)
           \/ Shelf(p)!EndJob(w) \/ Shelf(p)!CrashJob(w),
           NEW r \in FileParts[p].readers, ReadInv(p, r)
    PROVE  ReadInv(p, r)'
  <1>n. Shelf(p)!NoJob.pc = "idle" BY DEF Shelf!NoJob
  <1>1. CASE Shelf(p)!TakeFile(w)
    <2>1. Calm' <=> Calm BY <1>1, TakeWorks DEF Calm
    <2>2. CASE Working(p, w, Shelf(p)!NoJob) /\ UNCHANGED <<disk, docs, reads>>
      BY <1>n, <2>1, <2>2, ReadsWorking
    <2>3. ASSUME NEW i, NEW j, Working(p, w, j), TakenUp(p, w, i, j) PROVE ReadInv(p, r)'
      <3>1. /\ j.item = i /\ disk' = [disk EXCEPT ![i] = Shelf(p)!Empty]
            /\ reads'[r].pc = reads[r].pc /\ reads'[r].item = reads[r].item
            /\ reads'[r].encrypted = reads[r].encrypted
            /\ reads'[r].overtaken <=> reads[r].overtaken \/ reads[r].item = i
        BY <2>3 DEF TakenUp
      <3>2. CASE reads[r].item = i BY <2>1, <2>3, <3>1, <3>2, ReadsWorking
      <3>3. CASE reads[r].item # i
        <4>1. disk'[reads[r].item] = disk[reads[r].item]
          <5>1. PICK k : k = reads[r].item OBVIOUS
          <5> QED BY <3>1, <3>3, <5>1 DEF FileCore, FileTyped
        <4> QED BY <2>1, <2>3, <3>1, <3>3, <4>1, ReadsWorking
      <3> QED BY <3>2, <3>3
    <2> QED BY <1>1, <2>2, <2>3, TakeWorks
  <1>2. CASE Shelf(p)!WriteFile(w)
    <2>1. UNCHANGED <<docs, reads, times>> /\ disk' = [disk EXCEPT ![work[w].item] = work[w].data]
      BY <1>2, WriteWorks
    <2>2. PICK j : /\ Working(p, w, j)
                   /\ j.pc = IF work[w].kind = "rotate" THEN "next" ELSE "mark"
                   /\ j.item = IF work[w].kind = "rotate" THEN Void ELSE work[w].item
      BY <1>2, WriteWorks
    <2>3. Calm' <=> Calm BY <2>1 DEF Calm
    <2>4. reads[r].item # work[w].item => disk'[reads[r].item] = disk[reads[r].item]
      <3>1. PICK k, x : k = reads[r].item /\ x = work[w].item OBVIOUS
      <3> QED BY <2>1, <3>1 DEF FileCore, FileTyped
    <2>5. j.pc \in {"write", "mark"} => j.item = work[w].item BY <2>2
    <2> QED BY <2>1, <2>2, <2>3, <2>4, <2>5, ReadsWorking
  <1>3. CASE Shelf(p)!MarkRow(w)
    <2>1. UNCHANGED <<disk, reads, times>> BY <1>3, MarkWorks
    <2>2. PICK j : Working(p, w, j) /\ j.pc = "next" BY <1>3, MarkWorks
    <2>3. Calm' <=> Calm BY <2>1 DEF Calm
    <2> QED BY <2>1, <2>2, <2>3, ReadsWorking
  <1>4. CASE Shelf(p)!EndJob(w) \/ Shelf(p)!CrashJob(w)
    <2>1. /\ Shelf(p)!End(w) /\ work[w].pc # "idle"
          /\ UNCHANGED <<owners, docs, disk, uploads, deletes, reads, sealing, known, audited, served>>
          /\ times' = times \/ times' = [times EXCEPT !["crashes"] = @ + 1]
      BY <1>4 DEF Shelf!EndJob, Shelf!CrashJob, Shelf!Bounded
    <2>2. /\ times' \in [deletes : Nat, changes : Nat, rotations : Nat, crashes : Nat, overlaps : Nat]
          /\ Calm' => Calm
      BY <2>1 DEF FileCore, FileTyped, Calm
    <2>3. Working(p, w, Shelf(p)!NoJob) BY <2>1, <2>2, EndWorks
    <2> QED BY <1>n, <2>1, <2>2, <2>3, ReadsWorking
  <1> QED BY <1>1, <1>2, <1>3, <1>4

LEMMA ReadsStart ==
    ASSUME NEW p \in DOMAIN FileParts, FileCore(p), NEW w \in FileParts[p].workers,
           Shelf(p)!Submit(w) \/ Shelf(p)!Rotate(w), NEW r \in FileParts[p].readers, ReadInv(p, r)
    PROVE  ReadInv(p, r)' /\ (Calm' => Calm)
  <1>1. times'["crashes"] = times["crashes"] /\ UNCHANGED <<disk, docs, reads>> /\ times["overlaps"] \in Nat
    BY SubmitWorks DEF FileCore, FileTyped
  <1>2. \/ Keeping(p)
        \/ /\ times'["overlaps"] = times["overlaps"] + Shelf(p)!Overlapping(w)
           /\ \E j : Working(p, w, j) /\ j.pc = "next"
    BY SubmitWorks
  <1>3. Calm' => Calm BY <1>1, <1>2 DEF Calm, Keeping, Shelf!Overlapping
  <1>4. CASE Keeping(p) BY <1>1, <1>3, <1>4, ReadsKeeping
  <1>5. ASSUME NEW j, Working(p, w, j), j.pc = "next" PROVE ReadInv(p, r)'
    BY <1>1, <1>3, <1>5, ReadsWorking
  <1> QED BY <1>2, <1>3, <1>4, <1>5

LEMMA ReadsReading ==
    ASSUME NEW p \in DOMAIN FileParts, FileCore(p), FaultInv(p), NEW r \in FileParts[p].readers, NEW under,
           Shelf(p)!ReadRow(r, under), \A q \in FileParts[p].readers : ReadInv(p, q)
    PROVE  \A q \in FileParts[p].readers : ReadInv(p, q)'
  <1>1. Keeping(p) /\ UNCHANGED <<owners, docs, deletes, audited, served, times>> BY ReadRowKeeps
  <1>2. PICK i \in FileParts[p].items :
          /\ docs[i] # Void /\ docs[i].kind = "file"
          /\ reads' = [reads EXCEPT ![r] = [pc |-> "open", item |-> i, encrypted |-> docs[i].encrypted,
                                            overtaken |-> Shelf(p)!Rewriting(i)]]
    BY ReadRowKeeps
  <1>3. ASSUME NEW q \in FileParts[p].readers, q # r PROVE ReadInv(p, q)'
    <2>1. reads'[q] = reads[q] BY <1>2, <1>3 DEF FileCore, FileTyped
    <2> QED BY <1>1, <2>1, ReadsKeeping
  <1>4. ReadInv(p, r)'
    <2>1. /\ reads'[r].pc = "open" /\ reads'[r].item = i /\ reads'[r].encrypted = docs[i].encrypted
          /\ reads'[r].overtaken = Shelf(p)!Rewriting(i)
      BY <1>2 DEF FileCore, FileTyped
    <2>2. UNCHANGED <<disk, uploads, work, times>> BY <1>1 DEF Keeping
    <2>3. uploads[i].pc \in Landed BY <1>2 DEF FileCore, UploadInv
    <2>4. Shelf(p)!Rewriting(i)' <=> Shelf(p)!Rewriting(i) BY <2>2 DEF Shelf!Rewriting
    <2>5. Calm' <=> Calm BY <2>2 DEF Calm
    <2>6. Calm' /\ ~reads'[r].overtaken =>
            ~Shelf(p)!Rewriting(i)' /\ disk'[i] = As(reads'[r].encrypted)
      BY <1>2, <2>1, <2>2, <2>4, <2>5, CalmFiles
    <2>7. Calm' /\ ~reads'[r].overtaken =>
            ~(\E w \in FileParts[p].workers : work'[w].item = i /\ work'[w].pc \in {"write", "mark"})
            /\ disk'[i] = As(reads'[r].encrypted)
      BY <2>6 DEF Shelf!Rewriting
    <2> QED BY <2>1, <2>2, <2>3, <2>7 DEF ReadInv, Shelf!Rewriting
  <1> QED BY <1>3, <1>4

LEMMA ServeWhole ==
    ASSUME NEW p \in DOMAIN FileParts, FileCore(p), NEW r \in FileParts[p].readers, Shelf(p)!ServeFile(r),
           \A q \in FileParts[p].readers : ReadInv(p, q), ServedWhole
    PROVE  (\A q \in FileParts[p].readers : ReadInv(p, q)') /\ ServedWhole'
  <1>1. Keeping(p) /\ UNCHANGED <<owners, docs, deletes, audited, times>> BY ServeKeeps
  <1>2. /\ reads[r].pc = "open" /\ reads' = [reads EXCEPT ![r] = Shelf(p)!NoRead]
        /\ served' = IF reads[r].overtaken THEN served
                     ELSE served \cup {<<reads[r].item, Shelf(p)!Served(disk[reads[r].item], reads[r].encrypted)>>}
    BY DEF Shelf!ServeFile
  <1>3. ASSUME NEW q \in FileParts[p].readers, q # r PROVE ReadInv(p, q)'
    <2>1. reads'[q] = reads[q] BY <1>2, <1>3 DEF FileCore, FileTyped
    <2> QED BY <1>1, <2>1, ReadsKeeping
  <1>4. ReadInv(p, r)'
    <2>1. reads'[r].pc = "idle" BY <1>2 DEF FileCore, FileTyped, Shelf!NoRead
    <2> QED BY <2>1 DEF ReadInv
  <1>5. ServedWhole'
    <2>1. Calm' <=> Calm BY <1>1 DEF Calm
    <2>2. CASE Calm /\ ~reads[r].overtaken
      <3>1. disk[reads[r].item] = As(reads[r].encrypted) BY <1>2, <2>2 DEF ReadInv
      <3>2. reads[r].encrypted \in BOOLEAN BY DEF FileCore, FileTyped, ReadType
      <3>3. ASSUME NEW e \in BOOLEAN PROVE Shelf(p)!Served(As(e), e) = As(FALSE)
        <4>1. CASE e = TRUE BY <4>1, BytesFacts DEF Shelf!Served
        <4>2. CASE e = FALSE BY <4>2, BytesFacts DEF Shelf!Served
        <4> QED BY <4>1, <4>2
      <3>4. PICK s : s = <<reads[r].item, Shelf(p)!Served(disk[reads[r].item], reads[r].encrypted)>> OBVIOUS
      <3>5. s[2] = As(FALSE) BY <3>1, <3>2, <3>3, <3>4
      <3>6. served' = served \cup {s} BY <1>2, <2>2, <3>4
      <3> QED BY <2>2, <3>5, <3>6 DEF ServedWhole
    <2>3. CASE ~Calm BY <2>1, <2>3 DEF ServedWhole
    <2>4. CASE reads[r].overtaken BY <1>2, <2>1, <2>4 DEF ServedWhole
    <2> QED BY <2>2, <2>3, <2>4
  <1> QED BY <1>3, <1>4, <1>5

-----------------------------------------------------------------------------
(* Deletions *)

\* Is d about to tell of i, or has it been killed before it could?
Tells(d, i) == deletes[d].pc \in {"audit", "died"} /\ deletes[d].item = i

LEMMA TellStays ==
    ASSUME NEW p \in DOMAIN FileParts, NEW i \in FileParts[p].items, TellInv(p, i),
           audited'[i].api = audited[i].api, audited'[i].form = audited[i].form,
           \A d \in FileParts[p].deleters :
              /\ Tells(d, i)' <=> Tells(d, i)
              /\ Tells(d, i) => deletes'[d].route = deletes[d].route /\ deletes'[d].pc = deletes[d].pc,
           docs'[i] # Void \/ uploads'[i].pc \in Coming => docs[i] # Void \/ uploads[i].pc \in Coming,
           uploads'[i].pc \in {"audit", "done"} /\ docs'[i] = Void /\ uploads'[i].owner \in owners' =>
             uploads[i].pc \in {"audit", "done"} /\ docs[i] = Void /\ uploads[i].owner \in owners
    PROVE  TellInv(p, i)'
  <1>1. Telling(p, i)' = Telling(p, i) BY DEF Telling, Tells
  <1>2. (\E d \in FileParts[p].deleters : deletes'[d].pc \in {"audit", "died"} /\ deletes'[d].item = i) <=>
        (\E d \in FileParts[p].deleters : deletes[d].pc \in {"audit", "died"} /\ deletes[d].item = i)
    BY DEF Tells
  <1> QED BY <1>1, <1>2 DEF TellInv

LEMMA TellEntering ==
    ASSUME NEW p \in DOMAIN FileParts, FileCore(p), NEW x, Entering(p, x),
           NEW i \in FileParts[p].items, TellInv(p, i)
    PROVE  TellInv(p, i)'
  <1>1. PICK u, f, r : Entered(p, x, u, f, r) BY DEF Entering
  <1>2. x \in FileParts[p].items /\ UNCHANGED <<owners, deletes, audited>> /\ uploads[x].pc \in Coming
    BY DEF Entering
  <1>3. \A d \in FileParts[p].deleters : Tells(d, i)' <=> Tells(d, i) BY <1>2 DEF Tells
  <1>4. /\ uploads'[x] = u /\ docs'[x] = r
        /\ \A k \in FileParts[p].items \ {x} : uploads'[k] = uploads[k] /\ docs'[k] = docs[k]
    BY <1>1, <1>2 DEF FileCore, FileTyped, Entered
  <1>5. u.pc \in {"check", "insert", "audit", "failed"} /\ (u.pc = "audit" <=> r # Void) BY <1>1 DEF Entered
  <1>6. CASE i = x BY <1>2, <1>3, <1>4, <1>5, <1>6, TellStays
  <1>7. CASE i # x BY <1>2, <1>3, <1>4, <1>7, TellStays
  <1> QED BY <1>6, <1>7

LEMMA TellSettling ==
    ASSUME NEW p \in DOMAIN FileParts, FileCore(p), NEW x, Settling(p, x),
           NEW i \in FileParts[p].items, TellInv(p, i)
    PROVE  TellInv(p, i)'
  <1>1. x \in FileParts[p].items /\ UNCHANGED <<owners, docs, deletes>> BY DEF Settling
  <1>2. \A d \in FileParts[p].deleters : Tells(d, i)' <=> Tells(d, i) BY <1>1 DEF Tells
  <1>3. audited'[i].api = audited[i].api /\ audited'[i].form = audited[i].form
    BY <1>1 DEF FileCore, FileTyped, Settling
  <1>4. uploads \in [FileParts[p].items -> UploadType(FileParts[p])] BY DEF FileCore, FileTyped
  <1>5. CASE i # x
    <2>1. uploads'[i] = uploads[i] BY <1>4, <1>5 DEF Settling
    <2> QED BY <1>1, <1>2, <1>3, <2>1, TellStays
  <1>6. CASE i = x
    <2>1. /\ uploads'[i].owner = uploads[i].owner
          /\ \/ uploads[i].pc = "audit" /\ uploads'[i].pc = "done"
             \/ uploads'[i].pc = "died"
      BY <1>1, <1>4, <1>6 DEF Settling, UploadType
    <2> QED BY <1>1, <1>2, <1>3, <2>1, TellStays DEF Coming
  <1> QED BY <1>5, <1>6

\* Whoever takes a row away without telling has taken its owner away too.
LEMMA TellKeeping ==
    ASSUME NEW p \in DOMAIN FileParts, FileCore(p), Keeping(p), UNCHANGED <<deletes, audited>>,
           NEW i \in FileParts[p].items, TellInv(p, i), docs'[i] # docs[i] => docs[i].owner \notin owners'
    PROVE  TellInv(p, i)'
  <1>1. uploads' = uploads /\ owners' \subseteq owners /\ docs'[i] \in {docs[i], Void} BY DEF Keeping
  <1>2. \A d \in FileParts[p].deleters : Tells(d, i)' <=> Tells(d, i) BY DEF Tells
  <1>3. docs[i] # Void => docs[i].owner = uploads[i].owner BY DEF FileCore, UploadInv
  <1> QED BY <1>1, <1>2, <1>3, TellStays

LEMMA TellOwner ==
    ASSUME NEW p \in DOMAIN FileParts, FileCore(p), NEW o, Shelf(p)!DeleteOwner(o),
           NEW i \in FileParts[p].items, TellInv(p, i)
    PROVE  TellInv(p, i)'
  <1>1. Keeping(p) BY OwnersKeep
  <1>2. UNCHANGED <<deletes, audited>> BY DEF Shelf!DeleteOwner
  <1>3. docs'[i] # docs[i] => docs[i].owner \notin owners' BY DEF Shelf!DeleteOwner
  <1> QED BY <1>1, <1>2, <1>3, TellKeeping

LEMMA TellWorking ==
    ASSUME NEW p \in DOMAIN FileParts, NEW w, NEW j, Working(p, w, j),
           NEW i \in FileParts[p].items, TellInv(p, i)
    PROVE  TellInv(p, i)'
  <1>1. UNCHANGED <<owners, uploads, deletes, audited>> /\ (docs'[i] = Void <=> docs[i] = Void) BY DEF Working
  <1>2. \A d \in FileParts[p].deleters : Tells(d, i)' <=> Tells(d, i) BY <1>1 DEF Tells
  <1> QED BY <1>1, <1>2, TellStays

LEMMA TellFind ==
    ASSUME NEW p \in DOMAIN FileParts, FileCore(p), NEW d \in FileParts[p].deleters, NEW under,
           NEW route \in {"api", "form"}, Shelf(p)!Find(d, under, route),
           \A e \in FileParts[p].deleters : DeleteInv(p, e),
           \A i \in FileParts[p].items : TellInv(p, i)
    PROVE  /\ \A i \in FileParts[p].items : TellInv(p, i)'
           /\ \A e \in FileParts[p].deleters : DeleteInv(p, e)'
  <1>1. Keeping(p) /\ UNCHANGED <<owners, docs, reads, audited, served>> BY FindKeeps
  <1>2. PICK x \in FileParts[p].items :
          deletes' = [deletes EXCEPT ![d] = [pc |-> "found", item |-> x, route |-> route]]
    BY FindKeeps
  <1>3. deletes[d].pc = "idle" BY DEF Shelf!Find
  <1>4. /\ deletes'[d].pc = "found" /\ deletes'[d].item = x /\ deletes'[d].route = route
        /\ \A e \in FileParts[p].deleters \ {d} : deletes'[e] = deletes[e]
    BY <1>2 DEF FileCore, FileTyped
  <1>5. ASSUME NEW i \in FileParts[p].items PROVE TellInv(p, i)'
    <2>1. \A e \in FileParts[p].deleters :
            /\ Tells(e, i)' <=> Tells(e, i)
            /\ Tells(e, i) => deletes'[e].route = deletes[e].route /\ deletes'[e].pc = deletes[e].pc
      BY <1>3, <1>4 DEF Tells
    <2>2. uploads' = uploads BY <1>1 DEF Keeping
    <2> QED BY <1>1, <2>1, <2>2, TellStays
  <1>6. \A e \in FileParts[p].deleters : DeleteInv(p, e)' BY <1>4 DEF DeleteInv
  <1> QED BY <1>5, <1>6

LEMMA TellDelete ==
    ASSUME NEW p \in DOMAIN FileParts, FileCore(p), NEW d \in FileParts[p].deleters, Shelf(p)!DeleteRow(d),
           \A e \in FileParts[p].deleters : DeleteInv(p, e),
           \A i \in FileParts[p].items : TellInv(p, i)
    PROVE  /\ \A i \in FileParts[p].items : TellInv(p, i)'
           /\ \A e \in FileParts[p].deleters : DeleteInv(p, e)'
  <1>1. Keeping(p) /\ UNCHANGED <<owners, reads, audited, served>> BY DeleteRowKeeps
  <1>2. uploads' = uploads BY <1>1 DEF Keeping
  <1>3. PICK x : x = deletes[d].item OBVIOUS
  <1>4. /\ deletes[d].pc = "found" /\ docs' = [docs EXCEPT ![x] = Void]
        /\ deletes' = [deletes EXCEPT ![d] =
               IF docs[x] = Void /\ @.route = "api" THEN Shelf(p)!NoDelete ELSE [@ EXCEPT !.pc = "audit"]]
    BY <1>3 DEF Shelf!DeleteRow
  <1>5. x \in FileParts[p].items /\ deletes[d].route \in {"api", "form"} BY <1>3, <1>4 DEF DeleteInv
  <1>6. /\ \A e \in FileParts[p].deleters \ {d} : deletes'[e] = deletes[e]
        /\ docs'[x] = Void /\ \A i \in FileParts[p].items \ {x} : docs'[i] = docs[i]
    BY <1>4, <1>5 DEF FileCore, FileTyped
  <1>7. \/ deletes'[d].pc = "idle" /\ docs[x] = Void /\ deletes[d].route = "api"
        \/ /\ deletes'[d].pc = "audit" /\ deletes'[d].item = x /\ deletes'[d].route = deletes[d].route
           /\ docs[x] # Void \/ deletes[d].route = "form"
    <2>1. deletes \in [FileParts[p].deleters -> DeleteType(FileParts[p])] BY DEF FileCore, FileTyped
    <2>2. CASE docs[x] = Void /\ deletes[d].route = "api"
      <3>1. deletes'[d] = Shelf(p)!NoDelete BY <1>4, <2>1, <2>2
      <3> QED BY <2>2, <3>1 DEF Shelf!NoDelete
    <2>3. CASE ~(docs[x] = Void /\ deletes[d].route = "api")
      <3>1. deletes'[d] = [deletes[d] EXCEPT !.pc = "audit"] BY <1>4, <2>1, <2>3
      <3> QED BY <1>3, <1>5, <2>1, <2>3, <3>1 DEF DeleteType
    <2> QED BY <2>2, <2>3
  <1>8. ASSUME NEW i \in FileParts[p].items, i # x PROVE TellInv(p, i)'
    <2>1. \A e \in FileParts[p].deleters :
            /\ Tells(e, i)' <=> Tells(e, i)
            /\ Tells(e, i) => deletes'[e].route = deletes[e].route /\ deletes'[e].pc = deletes[e].pc
      BY <1>3, <1>4, <1>6, <1>7, <1>8 DEF Tells
    <2> QED BY <1>1, <1>2, <1>6, <1>8, <2>1, TellStays
  <1>9. TellInv(p, x)'
    <2>1. TellInv(p, x) BY <1>5
    <2>2. CASE docs[x] = Void
      <3>1. docs' = docs BY <1>4, <1>5, <2>2 DEF FileCore, FileTyped
      <3>2. CASE deletes'[d].pc = "idle"
        <4>1. \A e \in FileParts[p].deleters :
                /\ Tells(e, x)' <=> Tells(e, x)
                /\ Tells(e, x) => deletes'[e].route = deletes[e].route /\ deletes'[e].pc = deletes[e].pc
          BY <1>4, <1>6, <3>2 DEF Tells
        <4> QED BY <1>1, <1>2, <1>5, <2>1, <3>1, <4>1, TellStays
      <3>3. CASE deletes'[d].pc = "audit"
        <4>1. deletes[d].route = "form" /\ deletes'[d].route = "form" /\ deletes'[d].item = x BY <1>7, <2>2, <3>3
        <4>2. Telling(p, x)' = Telling(p, x) BY <1>4, <1>6, <4>1 DEF Telling
        <4>3. \E e \in FileParts[p].deleters : deletes'[e].pc \in {"audit", "died"} /\ deletes'[e].item = x
          BY <3>3, <4>1
        <4> QED BY <1>1, <1>2, <2>1, <3>1, <4>2, <4>3 DEF TellInv
      <3> QED BY <1>7, <3>2, <3>3
    <2>3. CASE docs[x] # Void
      <3>1. deletes'[d].pc = "audit" /\ deletes'[d].item = x BY <1>7, <2>3
      <3>2. Telling(p, x) = {} /\ audited[x].api = 0 BY <2>1, <2>3 DEF TellInv
      <3>3. Telling(p, x)' \subseteq {d} BY <1>6, <3>2 DEF Telling
      <3>4. uploads[x].pc \notin Coming BY <1>5, <2>3 DEF FileCore, UploadInv, Landed, Coming
      <3>5. \E e \in FileParts[p].deleters : deletes'[e].pc \in {"audit", "died"} /\ deletes'[e].item = x BY <3>1
      <3> QED BY <1>1, <1>2, <1>6, <3>2, <3>3, <3>4, <3>5 DEF TellInv
    <2> QED BY <2>2, <2>3
  <1>10. \A e \in FileParts[p].deleters : DeleteInv(p, e)' BY <1>5, <1>6, <1>7 DEF DeleteInv
  <1> QED BY <1>8, <1>9, <1>10

LEMMA TellAudit ==
    ASSUME NEW p \in DOMAIN FileParts, FileCore(p), NEW d \in FileParts[p].deleters, Shelf(p)!AuditDelete(d),
           \A e \in FileParts[p].deleters : DeleteInv(p, e),
           \A i \in FileParts[p].items : TellInv(p, i)
    PROVE  /\ \A i \in FileParts[p].items : TellInv(p, i)'
           /\ \A e \in FileParts[p].deleters : DeleteInv(p, e)'
  <1>1. /\ Keeping(p) /\ UNCHANGED <<owners, docs, reads, served>>
        /\ deletes[d].item \in FileParts[p].items /\ deletes[d].route \in {"api", "form"}
        /\ \A i \in FileParts[p].items :
             /\ audited'[i].api = audited[i].api + IF i = deletes[d].item /\ deletes[d].route = "api" THEN 1 ELSE 0
             /\ audited'[i].form = audited[i].form + IF i = deletes[d].item /\ deletes[d].route = "form" THEN 1 ELSE 0
    BY AuditDeleteKeeps
  <1>2. uploads' = uploads BY <1>1 DEF Keeping
  <1>3. PICK x : x = deletes[d].item OBVIOUS
  <1>4. deletes[d].pc = "audit" /\ deletes' = [deletes EXCEPT ![d] = Shelf(p)!NoDelete]
    BY DEF Shelf!AuditDelete
  <1>5. deletes'[d].pc = "idle" /\ \A e \in FileParts[p].deleters \ {d} : deletes'[e] = deletes[e]
    BY <1>4 DEF FileCore, FileTyped, Shelf!NoDelete
  <1>6. \A i \in FileParts[p].items : audited[i].api \in Nat /\ audited[i].form \in Nat BY DEF FileCore, FileTyped
  <1>7. ASSUME NEW i \in FileParts[p].items, i # x PROVE TellInv(p, i)'
    <2>1. \A e \in FileParts[p].deleters :
            /\ Tells(e, i)' <=> Tells(e, i)
            /\ Tells(e, i) => deletes'[e].route = deletes[e].route /\ deletes'[e].pc = deletes[e].pc
      BY <1>3, <1>5, <1>7 DEF Tells
    <2>2. audited'[i].api = audited[i].api /\ audited'[i].form = audited[i].form BY <1>1, <1>3, <1>6, <1>7
    <2> QED BY <1>1, <1>2, <2>1, <2>2, TellStays
  <1>8. TellInv(p, x)'
    <2>1. TellInv(p, x) /\ x \in FileParts[p].items /\ audited[x].api \in Nat /\ audited[x].form \in Nat
      BY <1>1, <1>3, <1>6
    <2>2. CASE deletes[d].route = "api"
      <3>1. d \in Telling(p, x) BY <1>3, <1>4, <2>2 DEF Telling
      <3>2. docs[x] = Void /\ uploads[x].pc \notin Coming /\ audited[x].api = 0 /\ \A e \in Telling(p, x) : e = d
        BY <2>1, <3>1 DEF TellInv
      <3>3. Telling(p, x)' = {} BY <1>5, <3>2 DEF Telling
      <3>4. audited'[x].api = 1 /\ audited'[x].form = audited[x].form BY <1>1, <1>3, <2>1, <2>2, <3>2
      <3> QED BY <1>1, <1>2, <2>1, <3>2, <3>3, <3>4 DEF TellInv
    <2>3. CASE deletes[d].route = "form"
      <3>1. Telling(p, x)' = Telling(p, x) BY <1>3, <1>5, <2>3 DEF Telling
      <3>2. audited'[x].api = audited[x].api /\ audited'[x].form = audited[x].form + 1 BY <1>1, <1>3, <2>1, <2>3
      <3> QED BY <1>1, <1>2, <2>1, <3>1, <3>2 DEF TellInv
    <2> QED BY <1>1, <2>2, <2>3
  <1>9. \A e \in FileParts[p].deleters : DeleteInv(p, e)' BY <1>5 DEF DeleteInv
  <1> QED BY <1>7, <1>8, <1>9

LEMMA CrashDeleteKeeps ==
    ASSUME NEW p \in DOMAIN FileParts, FileCore(p), NEW d \in FileParts[p].deleters, Shelf(p)!CrashDelete(d)
    PROVE  Keeping(p) /\ UNCHANGED <<owners, docs, reads, audited, served>>
  <1>1. deletes[d] \in DeleteType(FileParts[p]) BY DEF FileCore, FileTyped
  <1>2. [deletes[d] EXCEPT !.pc = "died"] \in DeleteType(FileParts[p]) BY <1>1 DEF DeleteType
  <1>3. deletes' \in [FileParts[p].deleters -> DeleteType(FileParts[p])]
    BY <1>2 DEF Shelf!CrashDelete, FileCore, FileTyped
  <1>4. times' = [times EXCEPT !["crashes"] = @ + 1] BY DEF Shelf!CrashDelete, Shelf!Bounded
  <1>5. /\ times' \in [deletes : Nat, changes : Nat, rotations : Nat, crashes : Nat, overlaps : Nat]
        /\ times'["crashes"] = times["crashes"] + 1 /\ times'["overlaps"] = times["overlaps"]
    BY <1>4 DEF FileCore, FileTyped
  <1> QED BY <1>3, <1>5 DEF Shelf!CrashDelete, Keeping, FileCore, FileTyped

\* The killed request owes the entry for ever; no one else comes to tell of the row.
LEMMA TellCrash ==
    ASSUME NEW p \in DOMAIN FileParts, FileCore(p), NEW d \in FileParts[p].deleters, Shelf(p)!CrashDelete(d),
           \A e \in FileParts[p].deleters : DeleteInv(p, e),
           \A i \in FileParts[p].items : TellInv(p, i)
    PROVE  /\ \A i \in FileParts[p].items : TellInv(p, i)'
           /\ \A e \in FileParts[p].deleters : DeleteInv(p, e)'
  <1>1. Keeping(p) /\ UNCHANGED <<owners, docs, reads, audited, served>> BY CrashDeleteKeeps
  <1>2. uploads' = uploads BY <1>1 DEF Keeping
  <1>3. /\ deletes[d].pc = "audit" /\ deletes'[d].pc = "died"
        /\ deletes'[d].item = deletes[d].item /\ deletes'[d].route = deletes[d].route
        /\ \A e \in FileParts[p].deleters \ {d} : deletes'[e] = deletes[e]
    BY DEF Shelf!CrashDelete, FileCore, FileTyped, DeleteType
  <1>4. ASSUME NEW i \in FileParts[p].items PROVE TellInv(p, i)'
    <2>1. Telling(p, i)' \subseteq Telling(p, i) BY <1>3 DEF Telling
    <2>2. \A e \in FileParts[p].deleters :
            deletes[e].pc \in {"audit", "died"} /\ deletes[e].item = i =>
            deletes'[e].pc \in {"audit", "died"} /\ deletes'[e].item = i
      BY <1>3
    <2> QED BY <1>1, <1>2, <2>1, <2>2 DEF TellInv
  <1>5. \A e \in FileParts[p].deleters : DeleteInv(p, e)' BY <1>3 DEF DeleteInv
  <1> QED BY <1>4, <1>5

-----------------------------------------------------------------------------
(* The invariant *)

LEMMA InvParts ==
    ASSUME NEW p \in DOMAIN FileParts
    PROVE  FileInv(p) <=>
             /\ FileCore(p) /\ LoneInv(p) /\ FaultInv(p) /\ ServedWhole
             /\ \A i \in FileParts[p].items : TellInv(p, i)
             /\ \A r \in FileParts[p].readers : ReadInv(p, r)
             /\ \A d \in FileParts[p].deleters : DeleteInv(p, d)
  BY DEF FileInv, FileCore

LEMMA ServedKept ==
    ASSUME ServedWhole, served' = served, Calm' => Calm PROVE ServedWhole'
  BY DEF ServedWhole

LEMMA DeletesKept ==
    ASSUME NEW p \in DOMAIN FileParts, \A d \in FileParts[p].deleters : DeleteInv(p, d), deletes' = deletes
    PROVE  \A d \in FileParts[p].deleters : DeleteInv(p, d)'
  BY DEF DeleteInv

LEMMA InvUploads ==
    ASSUME NEW p \in DOMAIN FileParts, FileInv(p), NEW x, Entering(p, x) \/ Settling(p, x)
    PROVE  FileInv(p)'
  <1> USE InvParts
  <1>1. CASE Entering(p, x)
    <2>1. UNCHANGED <<deletes, served, times>> BY <1>1 DEF Entering
    <2>2. Calm' <=> Calm BY <2>1 DEF Calm
    <2>3. ServedWhole' BY <2>1, <2>2, ServedKept
    <2>4. \A d \in FileParts[p].deleters : DeleteInv(p, d)' BY <2>1, DeletesKept
    <2>5. FileCore(p)' /\ LoneInv(p)' /\ FaultInv(p)' BY <1>1, EnteringCore, LoneEntering, FaultsEntering
    <2>6. \A i \in FileParts[p].items : TellInv(p, i)' BY <1>1, TellEntering
    <2>7. \A r \in FileParts[p].readers : ReadInv(p, r)' BY <1>1, ReadsEntering
    <2> QED BY <2>3, <2>4, <2>5, <2>6, <2>7 DEF FileInv, FileCore
  <1>2. CASE Settling(p, x)
    <2>1. /\ UNCHANGED <<disk, docs, work, deletes, served>>
          /\ times' = times \/ times' = [times EXCEPT !.crashes = @ + 1]
      BY <1>2 DEF Settling
    <2>2. /\ times' \in [deletes : Nat, changes : Nat, rotations : Nat, crashes : Nat, overlaps : Nat]
          /\ times'["overlaps"] = times["overlaps"] /\ times["crashes"] <= times'["crashes"]
          /\ Calm' => Calm
      BY SMTT(30), <2>1 DEF FileCore, FileTyped, Calm
    <2>3. ServedWhole' BY <2>1, <2>2, ServedKept
    <2>4. \A d \in FileParts[p].deleters : DeleteInv(p, d)' BY <2>1, DeletesKept
    <2>5. FileCore(p)' /\ LoneInv(p)' BY <1>2, SettlingCore, LoneSettling
    <2>6. FaultInv(p)' BY <2>1, <2>2, FaultsSame
    <2>7. \A i \in FileParts[p].items : TellInv(p, i)' BY <1>2, TellSettling
    <2>8. \A r \in FileParts[p].readers : ReadInv(p, r)' BY <1>2, ReadsSettling
    <2> QED BY <2>3, <2>4, <2>5, <2>6, <2>7, <2>8 DEF FileInv, FileCore
  <1> QED BY <1>1, <1>2

\* What a step that keeps files and jobs leaves to show.
LEMMA InvKeeping ==
    ASSUME NEW p \in DOMAIN FileParts, FileInv(p), Keeping(p)
    PROVE  /\ FileCore(p)' /\ LoneInv(p)' /\ FaultInv(p)' /\ (Calm' => Calm)
           /\ served' = served => ServedWhole'
           /\ reads' = reads => \A r \in FileParts[p].readers : ReadInv(p, r)'
  <1>0. FileCore(p) BY InvParts
  <1>1. FileCore(p)' /\ LoneInv(p)' BY <1>0, InvParts, KeepingCore, LoneKeeping
  <1>2. FaultInv(p)'
    <2>1. times["crashes"] \in Nat BY <1>0 DEF FileCore, FileTyped
    <2>2. /\ UNCHANGED <<disk, work>> /\ \A k \in FileParts[p].items : docs'[k] \in {docs[k], Void}
          /\ times' \in [deletes : Nat, changes : Nat, rotations : Nat, crashes : Nat, overlaps : Nat]
          /\ times'["overlaps"] = times["overlaps"]
          /\ times'["crashes"] \in {times["crashes"], times["crashes"] + 1}
      BY DEF Keeping
    <2>3. times["crashes"] <= times'["crashes"] BY <2>1, <2>2
    <2> QED BY <1>0, <2>2, <2>3, InvParts, FaultsSame
  <1>3. Calm' => Calm
    <2>1. times["crashes"] \in Nat BY <1>0 DEF FileCore, FileTyped
    <2> QED BY <2>1 DEF Calm, Keeping
  <1>4. served' = served => ServedWhole' BY <1>3, InvParts, ServedKept
  <1>5. reads' = reads => \A r \in FileParts[p].readers : ReadInv(p, r)' BY <1>0, InvParts, ReadsKeeping
  <1> QED BY <1>1, <1>2, <1>3, <1>4, <1>5

LEMMA InvDeletes ==
    ASSUME NEW p \in DOMAIN FileParts, FileInv(p),
           \/ \E o \in OwnersOf(FileParts[p]) : Shelf(p)!DeleteOwner(o)
           \/ \E d \in FileParts[p].deleters :
                \/ Shelf(p)!DeleteAttachment(d) \/ Shelf(p)!DeleteRelAttachment(d) \/ Shelf(p)!EvidenceDelete(d)
                \/ Shelf(p)!DeleteRow(d) \/ Shelf(p)!AuditDelete(d) \/ Shelf(p)!CrashDelete(d)
    PROVE  FileInv(p)'
  <1>0. /\ FileCore(p) /\ \A e \in FileParts[p].deleters : DeleteInv(p, e)
        /\ \A i \in FileParts[p].items : TellInv(p, i)
    BY InvParts
  <1> SUFFICES /\ Keeping(p) /\ UNCHANGED <<reads, served>>
               /\ \A i \in FileParts[p].items : TellInv(p, i)'
               /\ \A e \in FileParts[p].deleters : DeleteInv(p, e)'
    BY InvKeeping DEF FileInv, FileCore
  <1>1. ASSUME NEW o \in OwnersOf(FileParts[p]), Shelf(p)!DeleteOwner(o)
        PROVE  /\ Keeping(p) /\ UNCHANGED <<reads, served>>
               /\ \A i \in FileParts[p].items : TellInv(p, i)'
               /\ \A e \in FileParts[p].deleters : DeleteInv(p, e)'
    <2>1. UNCHANGED <<deletes, reads, served>> BY <1>1 DEF Shelf!DeleteOwner
    <2>2. \A e \in FileParts[p].deleters : DeleteInv(p, e)' BY <1>0, <2>1, DeletesKept
    <2> QED BY <1>0, <1>1, <2>1, <2>2, OwnersKeep, TellOwner
  <1>2. ASSUME NEW d \in FileParts[p].deleters,
               \/ Shelf(p)!DeleteAttachment(d) \/ Shelf(p)!DeleteRelAttachment(d) \/ Shelf(p)!EvidenceDelete(d)
        PROVE  /\ Keeping(p) /\ UNCHANGED <<reads, served>>
               /\ \A i \in FileParts[p].items : TellInv(p, i)'
               /\ \A e \in FileParts[p].deleters : DeleteInv(p, e)'
    <2>1. ASSUME NEW under, NEW route \in {"api", "form"}, Shelf(p)!Find(d, under, route)
          PROVE  /\ Keeping(p) /\ UNCHANGED <<reads, served>>
                 /\ \A i \in FileParts[p].items : TellInv(p, i)'
                 /\ \A e \in FileParts[p].deleters : DeleteInv(p, e)'
      <3>1. Keeping(p) /\ UNCHANGED <<reads, served>> BY <1>0, <2>1, FindKeeps
      <3> QED BY <1>0, <2>1, <3>1, TellFind
    <2>2. \/ Shelf(p)!Find(d, FileParts[p].assets, "api") \/ Shelf(p)!Find(d, FileParts[p].relationships, "api")
          \/ Shelf(p)!Find(d, FileParts[p].relationships, "form")
      BY <1>2 DEF Shelf!DeleteAttachment, Shelf!DeleteRelAttachment, Shelf!EvidenceDelete
    <2> QED BY <2>1, <2>2
  <1>3. ASSUME NEW d \in FileParts[p].deleters, Shelf(p)!DeleteRow(d)
        PROVE  /\ Keeping(p) /\ UNCHANGED <<reads, served>>
               /\ \A i \in FileParts[p].items : TellInv(p, i)'
               /\ \A e \in FileParts[p].deleters : DeleteInv(p, e)'
    <2>1. Keeping(p) /\ UNCHANGED <<reads, served>> BY <1>0, <1>3, DeleteRowKeeps
    <2> QED BY <1>0, <1>3, <2>1, TellDelete
  <1>4. ASSUME NEW d \in FileParts[p].deleters, Shelf(p)!AuditDelete(d)
        PROVE  /\ Keeping(p) /\ UNCHANGED <<reads, served>>
               /\ \A i \in FileParts[p].items : TellInv(p, i)'
               /\ \A e \in FileParts[p].deleters : DeleteInv(p, e)'
    <2>1. Keeping(p) /\ UNCHANGED <<reads, served>> BY <1>0, <1>4, AuditDeleteKeeps
    <2> QED BY <1>0, <1>4, <2>1, TellAudit
  <1>5. ASSUME NEW d \in FileParts[p].deleters, Shelf(p)!CrashDelete(d)
        PROVE  /\ Keeping(p) /\ UNCHANGED <<reads, served>>
               /\ \A i \in FileParts[p].items : TellInv(p, i)'
               /\ \A e \in FileParts[p].deleters : DeleteInv(p, e)'
    <2>1. Keeping(p) /\ UNCHANGED <<reads, served>> BY <1>0, <1>5, CrashDeleteKeeps
    <2> QED BY <1>0, <1>5, <2>1, TellCrash
  <1> QED BY <1>1, <1>2, <1>3, <1>4, <1>5

LEMMA InvReads ==
    ASSUME NEW p \in DOMAIN FileParts, FileInv(p),
           NEW r \in FileParts[p].readers,
           \/ Shelf(p)!DownloadFile(r) \/ Shelf(p)!DownloadRelFile(r) \/ Shelf(p)!CollectEvidence(r)
           \/ Shelf(p)!ServeFile(r)
    PROVE  FileInv(p)'
  <1>0. /\ FileCore(p) /\ FaultInv(p) /\ ServedWhole
        /\ \A d \in FileParts[p].deleters : DeleteInv(p, d)
        /\ \A i \in FileParts[p].items : TellInv(p, i)
        /\ \A q \in FileParts[p].readers : ReadInv(p, q)
    BY InvParts
  <1>1. ASSUME Keeping(p), UNCHANGED <<docs, deletes, audited>>
        PROVE  /\ \A i \in FileParts[p].items : TellInv(p, i)'
               /\ \A d \in FileParts[p].deleters : DeleteInv(p, d)'
    BY <1>0, <1>1, TellKeeping, DeletesKept
  <1>2. ASSUME NEW under, Shelf(p)!ReadRow(r, under) PROVE FileInv(p)'
    <2>1. Keeping(p) /\ UNCHANGED <<docs, deletes, audited, served>> BY <1>0, <1>2, ReadRowKeeps
    <2>2. \A q \in FileParts[p].readers : ReadInv(p, q)' BY <1>0, <1>2, ReadsReading
    <2> QED BY <1>1, <2>1, <2>2, InvKeeping DEF FileInv, FileCore
  <1>3. ASSUME Shelf(p)!ServeFile(r) PROVE FileInv(p)'
    <2>1. Keeping(p) /\ UNCHANGED <<docs, deletes, audited>> BY <1>0, <1>3, ServeKeeps
    <2>2. (\A q \in FileParts[p].readers : ReadInv(p, q)') /\ ServedWhole' BY <1>0, <1>3, ServeWhole
    <2> QED BY <1>1, <2>1, <2>2, InvKeeping DEF FileInv, FileCore
  <1> QED BY <1>2, <1>3 DEF Shelf!DownloadFile, Shelf!DownloadRelFile, Shelf!CollectEvidence

LEMMA InvJobs ==
    ASSUME NEW p \in DOMAIN FileParts, FileInv(p), NEW w \in FileParts[p].workers,
           \/ Shelf(p)!Submit(w) \/ Shelf(p)!Rotate(w) \/ Shelf(p)!TakeFile(w) \/ Shelf(p)!WriteFile(w)
           \/ Shelf(p)!MarkRow(w) \/ Shelf(p)!EndJob(w) \/ Shelf(p)!CrashJob(w)
    PROVE  FileInv(p)'
  <1>0. /\ FileCore(p) /\ LoneInv(p) /\ FaultInv(p) /\ ServedWhole
        /\ \A d \in FileParts[p].deleters : DeleteInv(p, d)
        /\ \A i \in FileParts[p].items : TellInv(p, i)
        /\ \A q \in FileParts[p].readers : ReadInv(p, q)
    BY InvParts
  <1>1. ASSUME NEW j, Working(p, w, j), LoneInv(p)', FaultInv(p)', Calm' => Calm,
               \A q \in FileParts[p].readers : ReadInv(p, q)'
        PROVE  FileInv(p)'
    <2>1. FileCore(p)' BY <1>0, <1>1, WorkingCore
    <2>2. UNCHANGED <<deletes, served>> BY <1>1 DEF Working
    <2>3. ServedWhole' /\ \A d \in FileParts[p].deleters : DeleteInv(p, d)'
      BY <1>0, <1>1, <2>2, ServedKept, DeletesKept
    <2>4. \A i \in FileParts[p].items : TellInv(p, i)' BY <1>0, <1>1, TellWorking
    <2> QED BY <1>1, <2>1, <2>3, <2>4 DEF FileInv, FileCore
  <1>2. CASE Shelf(p)!Submit(w) \/ Shelf(p)!Rotate(w)
    <2>1. /\ LoneInv(p)' /\ FaultInv(p)' /\ \A q \in FileParts[p].readers : ReadInv(p, q)'
      BY <1>0, <1>2, LoneStart, FaultsStart, ReadsStart
    <2>2. \/ Keeping(p) /\ UNCHANGED <<owners, deletes, audited, served>>
          \/ \E j : Working(p, w, j)
      BY <1>0, <1>2, SubmitWorks
    <2>3. UNCHANGED <<docs, reads>> /\ times'["crashes"] = times["crashes"] BY <1>0, <1>2, SubmitWorks
    <2>4. ASSUME NEW j, Working(p, w, j) PROVE FileInv(p)'
      <3>1. Calm' => Calm
        <4>1. \/ Keeping(p)
              \/ times'["overlaps"] = times["overlaps"] + Shelf(p)!Overlapping(w)
          BY <1>0, <1>2, SubmitWorks
        <4>2. times["overlaps"] \in Nat BY <1>0 DEF FileCore, FileTyped
        <4> QED BY <2>3, <4>1, <4>2 DEF Calm, Keeping, Shelf!Overlapping
      <3> QED BY <1>1, <2>1, <2>4, <3>1
    <2>5. CASE Keeping(p) /\ UNCHANGED <<owners, deletes, audited, served>>
      <3>1. /\ \A i \in FileParts[p].items : TellInv(p, i)'
            /\ \A d \in FileParts[p].deleters : DeleteInv(p, d)'
        BY <1>0, <2>3, <2>5, TellKeeping, DeletesKept
      <3> QED BY <2>3, <2>5, <3>1, InvKeeping DEF FileInv, FileCore
    <2> QED BY <2>2, <2>4, <2>5
  <1>3. CASE Shelf(p)!TakeFile(w) \/ Shelf(p)!WriteFile(w) \/ Shelf(p)!MarkRow(w)
             \/ Shelf(p)!EndJob(w) \/ Shelf(p)!CrashJob(w)
    <2>1. LoneInv(p)' /\ FaultInv(p)' BY <1>0, <1>3, LoneJobs, FaultsJobs
    <2>2. \A q \in FileParts[p].readers : ReadInv(p, q)' BY <1>0, <1>3, ReadsJobs
    <2>3. \E j : Working(p, w, j) /\ (Calm' => Calm)
      <3>1. CASE Shelf(p)!TakeFile(w)
        <4>1. times' = times /\ \E j : Working(p, w, j) BY <1>0, <3>1, TakeWorks
        <4> QED BY <4>1 DEF Calm
      <3>2. CASE Shelf(p)!WriteFile(w)
        <4>1. times' = times /\ \E j : Working(p, w, j) BY <1>0, <3>2, WriteWorks
        <4> QED BY <4>1 DEF Calm
      <3>3. CASE Shelf(p)!MarkRow(w)
        <4>1. times' = times /\ \E j : Working(p, w, j) BY <1>0, <3>3, MarkWorks
        <4> QED BY <4>1 DEF Calm
      <3>4. CASE Shelf(p)!EndJob(w) \/ Shelf(p)!CrashJob(w)
        <4>1. /\ Shelf(p)!End(w)
              /\ UNCHANGED <<owners, docs, disk, uploads, deletes, reads, sealing, known, audited, served>>
              /\ times' = times \/ times' = [times EXCEPT !["crashes"] = @ + 1]
          BY <3>4 DEF Shelf!EndJob, Shelf!CrashJob, Shelf!Bounded
        <4>2. /\ times' \in [deletes : Nat, changes : Nat, rotations : Nat, crashes : Nat, overlaps : Nat]
              /\ Calm' => Calm
          BY <1>0, <4>1 DEF FileCore, FileTyped, Calm
        <4> QED BY <1>0, <4>1, <4>2, EndWorks
      <3> QED BY <1>3, <3>1, <3>2, <3>3, <3>4
    <2> QED BY <1>1, <2>1, <2>2, <2>3
  <1> QED BY <1>2, <1>3

LEMMA NextFileInv ==
    ASSUME NEW p \in DOMAIN FileParts, FileInv(p), [Shelf(p)!Next]_FileVars PROVE FileInv(p)'
  <1>0. FileCore(p) BY InvParts
  <1>1. ASSUME NEW i \in FileParts[p].items,
               \/ Shelf(p)!UploadFile(i) \/ Shelf(p)!UploadRelFile(i) \/ Shelf(p)!EvidenceUpload(i)
               \/ Shelf(p)!CreateAttachment(i) \/ Shelf(p)!CreateRelAttachment(i) \/ Shelf(p)!CheckOwner(i)
               \/ Shelf(p)!InsertRow(i) \/ Shelf(p)!AuditCreate(i) \/ Shelf(p)!CrashUpload(i)
        PROVE  FileInv(p)'
    BY <1>0, <1>1, UploadsMove, InvUploads
  <1>2. CASE Shelf(p)!Forget
    <2>1. Keeping(p) /\ UNCHANGED <<docs, deletes, reads, audited, served>> BY <1>0, <1>2, ForgetKeeps
    <2>2. /\ \A i \in FileParts[p].items : TellInv(p, i)'
          /\ \A d \in FileParts[p].deleters : DeleteInv(p, d)'
      BY <1>0, <2>1, InvParts, TellKeeping, DeletesKept
    <2> QED BY <2>1, <2>2, InvKeeping DEF FileInv, FileCore
  <1>3. CASE UNCHANGED FileVars
    <2>1. UNCHANGED <<disk, uploads, work, owners, sealing, known, docs, deletes, reads, audited, served, times>>
      BY <1>3 DEF FileVars
    <2>2. Keeping(p) BY <1>0, <2>1 DEF Keeping, FileCore, FileTyped
    <2>3. /\ \A i \in FileParts[p].items : TellInv(p, i)'
          /\ \A d \in FileParts[p].deleters : DeleteInv(p, d)'
      BY <1>0, <2>1, <2>2, InvParts, TellKeeping, DeletesKept
    <2> QED BY <2>1, <2>2, <2>3, InvKeeping DEF FileInv, FileCore
  <1>4. \/ \E o \in OwnersOf(FileParts[p]) : Shelf(p)!DeleteOwner(o)
        \/ \E d \in FileParts[p].deleters :
             \/ Shelf(p)!DeleteAttachment(d) \/ Shelf(p)!DeleteRelAttachment(d) \/ Shelf(p)!EvidenceDelete(d)
             \/ Shelf(p)!DeleteRow(d) \/ Shelf(p)!AuditDelete(d) \/ Shelf(p)!CrashDelete(d)
        => FileInv(p)'
    BY InvDeletes
  <1>5. \A r \in FileParts[p].readers :
          \/ Shelf(p)!DownloadFile(r) \/ Shelf(p)!DownloadRelFile(r) \/ Shelf(p)!CollectEvidence(r)
          \/ Shelf(p)!ServeFile(r)
          => FileInv(p)'
    BY InvReads
  <1>6. \A w \in FileParts[p].workers :
          \/ Shelf(p)!Submit(w) \/ Shelf(p)!Rotate(w) \/ Shelf(p)!TakeFile(w) \/ Shelf(p)!WriteFile(w)
          \/ Shelf(p)!MarkRow(w) \/ Shelf(p)!EndJob(w) \/ Shelf(p)!CrashJob(w)
          => FileInv(p)'
    BY InvJobs
  <1> QED BY <1>1, <1>2, <1>3, <1>4, <1>5, <1>6 DEF Shelf!Next, OwnersOf

LEMMA InitFileInv ==
    ASSUME NEW p \in DOMAIN FileParts, Shelf(p)!Init PROVE FileInv(p)
  <1>1. \A w \in FileParts[p].workers : work[w] = Shelf(p)!NoJob BY DEF Shelf!Init
  <1>2. /\ \A i \in FileParts[p].items : /\ docs[i] = Void /\ disk[i] = Void /\ uploads[i] = Shelf(p)!NoUpload
                                         /\ audited[i] = [created |-> 0, api |-> 0, form |-> 0]
        /\ \A d \in FileParts[p].deleters : deletes[d] = Shelf(p)!NoDelete
        /\ \A r \in FileParts[p].readers : reads[r] = Shelf(p)!NoRead
        /\ served = {} /\ times = [deletes |-> 0, changes |-> 0, rotations |-> 0, crashes |-> 0, overlaps |-> 0]
    BY DEF Shelf!Init
  <1>3. FileTyped(p)
    BY DEF FileTyped, Shelf!Init, Shelf!NoUpload, Shelf!NoDelete, Shelf!NoRead, Shelf!NoJob,
           OwnersOf, FileRow, UploadType, DeleteType, ReadType, WorkType
  <1>4. \A i \in FileParts[p].items : UploadInv(p, i) BY <1>2 DEF UploadInv, Shelf!NoUpload
  <1>5. \A i \in FileParts[p].items : TellInv(p, i)
    BY <1>2 DEF TellInv, Telling, Coming, Shelf!NoUpload, Shelf!NoDelete
  <1>6. \A w \in FileParts[p].workers : JobInv(p, w) /\ Tasks(w) = {}
    BY <1>1 DEF JobInv, Sane, Tasks, Chores, Shelf!NoJob
  <1>7. LoneInv(p) BY <1>1, <1>6 DEF LoneInv, Shelf!NoJob
  <1>8. FaultInv(p)
    <2>1. Faults(p) = {} BY <1>2 DEF Faults, IsFault
    <2> HIDE DEF Faults
    <2> QED BY <1>2, <2>1, FS_EmptySet DEF FaultInv
  <1>9. \A r \in FileParts[p].readers : ReadInv(p, r) BY <1>2 DEF ReadInv, Shelf!NoRead
  <1>10. \A d \in FileParts[p].deleters : DeleteInv(p, d) BY <1>2 DEF DeleteInv, Shelf!NoDelete
  <1>11. ServedWhole BY <1>2 DEF ServedWhole
  <1> QED BY <1>3, <1>4, <1>5, <1>6, <1>7, <1>8, <1>9, <1>10, <1>11 DEF FileInv

\* The instance counts as FiniteSets does.
LEMMA SameCount ==
    ASSUME NEW p, NEW S PROVE Shelf(p)!Cardinality(S) = Cardinality(S)
  BY DEF Shelf!Cardinality, Cardinality

LEMMA FileInvHolds ==
    ASSUME NEW p \in DOMAIN FileParts, FileInv(p) PROVE Shelf(p)!AttachmentsHold
  <1>0. FileCore(p) /\ FaultInv(p) /\ \A i \in FileParts[p].items : UploadInv(p, i) /\ TellInv(p, i)
    BY InvParts DEF FileInv
  <1>1. \A i \in FileParts[p].items : Shelf(p)!IsFile(i) =>
          disk[i] # Void /\ (Shelf(p)!Sound(i) <=> disk[i] = As(docs[i].encrypted))
    <2> SUFFICES ASSUME NEW i \in FileParts[p].items, docs[i] # Void, docs[i].kind = "file"
                 PROVE  disk[i] # Void /\ (Shelf(p)!Sound(i) <=> disk[i] = As(docs[i].encrypted))
      BY DEF Shelf!IsFile
    <2>1. disk[i] # Void BY <1>0 DEF UploadInv, Landed
    <2>2. As(docs[i].encrypted) = IF docs[i].encrypted THEN As(TRUE) ELSE As(FALSE) BY DEF As
    <2>3. As(TRUE) = Shelf(p)!Encrypt(Shelf(p)!Plain) /\ As(FALSE) = Shelf(p)!Plain BY BytesFacts
    <2> QED BY <2>1, <2>2, <2>3 DEF Shelf!Sound
  <1>2. Shelf(p)!FilesSound
    <2>1. Shelf(p)!Damaged \subseteq Faults(p)
      BY <1>1 DEF Shelf!Damaged, Faults, IsFault, Shelf!IsFile
    <2>2. Cardinality(Shelf(p)!Damaged) <= Cardinality(Faults(p)) /\ Cardinality(Shelf(p)!Damaged) \in Nat
      <3> HIDE DEF Faults
      <3>1. IsFiniteSet(Shelf(p)!Damaged) BY <2>1, FaultsFinite, FS_Subset
      <3> QED BY <2>1, <3>1, FaultsFinite, FS_Subset, FS_CardinalityType
    <2>3. times["crashes"] \in Nat BY <1>0 DEF FileCore, FileTyped
    <2>4. times["overlaps"] = 0 => Cardinality(Shelf(p)!Damaged) <= times["crashes"]
      <3> HIDE DEF Faults
      <3> QED BY <1>0, <2>2, <2>3, FaultsFinite DEF FaultInv
    <2>5. \A i \in FileParts[p].items : Shelf(p)!IsFile(i) => disk[i] # Void BY <1>1
    <2> QED BY <2>4, <2>5, SameCount DEF Shelf!FilesSound
  <1>3. Shelf(p)!DownloadsWhole
    <2>1. ServedWhole /\ Shelf(p)!Plain = As(FALSE) BY InvParts, BytesFacts
    <2> QED BY <2>1 DEF ServedWhole, Calm, Shelf!DownloadsWhole
  <1>4. Shelf(p)!Orphans
    <2>1. \A i \in FileParts[p].items : uploads[i] \in UploadType(FileParts[p]) BY <1>0 DEF FileCore, FileTyped
    <2>2. \A i \in FileParts[p].items :
            uploads[i].pc \in {"none", "check", "insert", "audit", "done", "died", "failed"}
      BY <2>1 DEF UploadType
    <2> QED BY <1>0, <2>2 DEF Shelf!Orphans, UploadInv
  <1>5. Shelf(p)!Trail BY <1>0 DEF Shelf!Trail, UploadInv, TellInv, Landed
  <1> QED BY <1>2, <1>3, <1>4, <1>5 DEF Shelf!AttachmentsHold

-----------------------------------------------------------------------------
(* The parts of the run *)

LEMMA FileStarts ==
    ASSUME FileInit, NEW p \in DOMAIN FileParts, shelf = p PROVE Shelf(p)!Init
  <1>1. PICK q \in DOMAIN FileParts : shelf = q /\ Shelf(q)!Init BY DEF FileInit
  <1> QED BY <1>1

LEMMA FileGoes ==
    ASSUME [FileNext]_<<shelf, FileVars>>, NEW p \in DOMAIN FileParts, shelf' = p
    PROVE  shelf = p /\ [Shelf(p)!Next]_FileVars
  <1>1. CASE UNCHANGED <<shelf, FileVars>> BY <1>1
  <1>2. CASE FileNext
    <2>1. shelf' = shelf BY <1>2 DEF FileNext
    <2>2. PICK q \in DOMAIN FileParts : shelf = q /\ Shelf(q)!Next BY <1>2 DEF FileNext
    <2> QED BY <2>1, <2>2
  <1> QED BY <1>1, <1>2

\* Rows have their files and each crash costs one, downloads are whole and the trail
\* is complete but for one entry per request killed before it logs, in every behaviour
\* of every part about evidence (FilesHold).
THEOREM FilesAlwaysHold == FileSpec => []FilesHold
  <1> DEFINE Inv == \A p \in DOMAIN FileParts : shelf = p => FileInv(p)
  <1>1. FileInit => Inv BY FileStarts, InitFileInv
  <1>2. Inv /\ [FileNext]_<<shelf, FileVars>> => Inv'
    <2> SUFFICES ASSUME Inv, [FileNext]_<<shelf, FileVars>>, NEW p \in DOMAIN FileParts, shelf' = p
                 PROVE  FileInv(p)'
      OBVIOUS
    <2>1. shelf = p /\ [Shelf(p)!Next]_FileVars BY FileGoes
    <2>2. FileInv(p) BY <2>1
    <2> QED BY <2>1, <2>2, NextFileInv
  <1>3. Inv => FilesHold BY FileInvHolds DEF FilesHold
  <1> QED BY <1>1, <1>2, <1>3, PTL DEF FileSpec
=============================================================================
