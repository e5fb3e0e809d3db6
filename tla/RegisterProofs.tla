--------------------------- MODULE RegisterProofs ----------------------------
(***************************************************************************)
(* Two ways into the register that do not lock what they read.             *)
(*                                                                         *)
(* Synchronisations (GenericSync): no id that was looked up before its     *)
(* asset went is ever committed, and no row of another source is touched,  *)
(* for any number of synchronisations, deletions, sources, payloads and    *)
(* rows, with crashes and rollbacks anywhere.  What a transaction sees is  *)
(* sound at all times but while the ON DELETE actions of its own DELETE    *)
(* are under way, and locks keep it so when another transaction commits.   *)
(*                                                                         *)
(* Requests that rewrite the blob of one asset (MetadataParts): a finding  *)
(* has one ticket, no edit is lost but where the code reads first, and the *)
(* latest test is the one that counts.  Each write is told apart by the    *)
(* keys it puts into the row and by the row its request had read.          *)
(***************************************************************************)
EXTENDS GenericSync, MetadataParts, WellFoundedInduction, FiniteSetTheorems, TLAPS

-----------------------------------------------------------------------------
(* Types *)

Partial(K, R) == UNION {[D -> R] : D \in SUBSET K}

TxnType == [assets : Partial(AssetKeys, AssetRow), edges : Partial(EdgeKeys, EdgeRow),
            shares : SUBSET AssetKeys]
RunType == [at : Pcs, post : Posts \cup {Null}, pos : Nat,
            cache : Partial(Ends, AssetIds \cup {Null}), owner : AssetIds \cup {Null},
            seen : SUBSET EdgeRefs, victims : SUBSET (AssetIds \cup (EdgeKeys \X Nat))]

Typed ==
    /\ assets \in [AssetKeys -> AssetRow]
    /\ edges \in [EdgeKeys -> EdgeRow]
    /\ txn \in [Procs -> TxnType]
    /\ run \in [Procs -> RunType]
    /\ overlap \subseteq Syncs

\* Where a request is in its loops, and on which record.
Placed(p, r) ==
    /\ r.at \in {"asset", "owner", "own", "pick", "edge", "pick_edges", "prune"} => p \in Syncs
    /\ r.at \notin {"idle", "done", "failed"} /\ p \in Syncs => r.post \in Posts
    /\ r.at \in {"asset", "owner", "own", "pick"} => r.pos \in DOMAIN r.post.assets
    /\ r.at \in {"sweep", "cascade"} /\ p \in Syncs => r.pos \in DOMAIN r.post.assets
    /\ r.at = "edge" => r.pos \in DOMAIN r.post.edges
    /\ r.at = "owner" => r.post.assets[r.pos].owner # Null
    /\ r.at = "own" => r.owner \in AssetIds

LEMMA PartialFacts ==
    ASSUME NEW K, NEW R, NEW f \in Partial(K, R)
    PROVE  /\ DOMAIN f \subseteq K /\ \A k \in DOMAIN f : f[k] \in R
           /\ f = [k \in DOMAIN f |-> f[k]]
  BY DEF Partial

LEMMA PartialIntro ==
    ASSUME NEW K, NEW R, NEW D \in SUBSET K, NEW f \in [D -> R]
    PROVE  f \in Partial(K, R)
  BY DEF Partial

\* Writing rows over rows.
LEMMA OverFacts ==
    ASSUME NEW K, NEW R, NEW new \in Partial(K, R), NEW old \in Partial(K, R)
    PROVE  /\ Over(new, old) \in Partial(K, R)
           /\ DOMAIN Over(new, old) = DOMAIN new \cup DOMAIN old
           /\ \A k \in DOMAIN new : Over(new, old)[k] = new[k]
           /\ \A k \in DOMAIN old \ DOMAIN new : Over(new, old)[k] = old[k]
  <1> DEFINE D == DOMAIN new \cup DOMAIN old
  <1>1. D \in SUBSET K
    BY PartialFacts
  <1>2. Over(new, old) \in [D -> R]
    BY PartialFacts DEF Over
  <1>3. Over(new, old) \in Partial(K, R)
    BY <1>1, <1>2, PartialIntro
  <1> QED BY <1>3 DEF Over

LEMMA SingleFacts ==
    ASSUME NEW K, NEW R, NEW k \in K, NEW row \in R
    PROVE  /\ Single(k, row) \in Partial(K, R)
           /\ DOMAIN Single(k, row) = {k} /\ Single(k, row)[k] = row
  <1>1. Single(k, row) \in [{k} -> R] /\ {k} \in SUBSET K
    BY DEF Single
  <1> QED BY <1>1, PartialIntro DEF Single

LEMMA EmptyFacts ==
    ASSUME NEW K, NEW R
    PROVE  << >> \in Partial(K, R) /\ DOMAIN << >> = {}
  <1>1. << >> \in [{} -> R] /\ DOMAIN << >> = {}
    OBVIOUS
  <1> QED BY <1>1, PartialIntro

\* What a transaction sees has the types of the tables.
LEMMA SeenTyped ==
    ASSUME Typed, NEW p \in Procs
    PROVE  /\ SeenAssets(p) \in [AssetKeys -> AssetRow]
           /\ SeenEdges(p) \in [EdgeKeys -> EdgeRow]
           /\ DOMAIN txn[p].assets \subseteq AssetKeys /\ DOMAIN txn[p].edges \subseteq EdgeKeys
           /\ txn[p].shares \subseteq AssetKeys
           /\ txn[p] \in TxnType /\ run[p] \in RunType
  <1>1. txn[p] \in TxnType /\ run[p] \in RunType
    BY DEF Typed
  <1>2. txn[p].assets \in Partial(AssetKeys, AssetRow) /\ txn[p].edges \in Partial(EdgeKeys, EdgeRow)
        /\ txn[p].shares \subseteq AssetKeys
    BY <1>1 DEF TxnType
  <1> QED BY <1>1, <1>2, PartialFacts DEF Typed, SeenAssets, SeenEdges

\* A payload's records and edges.
LEMMA PostFacts ==
    ASSUME NEW post \in Posts
    PROVE  /\ post # Null /\ post.source \in Sources
           /\ Len(post.assets) \in Nat /\ DOMAIN post.assets = 1 .. Len(post.assets)
           /\ Len(post.edges) \in Nat /\ DOMAIN post.edges = 1 .. Len(post.edges)
           /\ \A i \in DOMAIN post.assets : post.assets[i] \in RecordType
           /\ \A i \in DOMAIN post.edges : post.edges[i] \in EdgeType
  <1>1. post \in PostType /\ post # Null
    BY SyncAssumption
  <1> QED BY <1>1 DEF PostType

LEMMA NoTxnTyped == NoTxn \in TxnType
  BY EmptyFacts DEF NoTxn, TxnType

LEMMA NoRunTyped ==
    ASSUME NEW at \in {"idle", "done", "failed"}, NEW p
    PROVE  /\ [NoRun EXCEPT !.at = at] \in RunType /\ Placed(p, [NoRun EXCEPT !.at = at])
           /\ [NoRun EXCEPT !.at = at].at = at
  <1>1. NoRun \in RunType /\ at \in Pcs
    BY EmptyFacts DEF NoRun, RunType, Pcs
  <1>2. [NoRun EXCEPT !.at = at] \in RunType /\ [NoRun EXCEPT !.at = at].at = at
    BY <1>1 DEF RunType
  <1> QED BY <1>2 DEF Placed

\* A run that goes on keeps its payload and what it has looked up.
LEMMA GoFacts ==
    ASSUME NEW r \in RunType, NEW at \in Pcs
    PROVE  LET q == [r EXCEPT !.at = at] IN
           /\ q \in RunType /\ q.at = at /\ q.post = r.post /\ q.pos = r.pos
           /\ q.owner = r.owner /\ q.victims = r.victims
  BY DEF RunType

LEMMA LeastExists ==
    ASSUME NEW T, T \subseteq Nat, T # {}
    PROVE  \E j \in T : \A l \in T : j <= l
  <1> DEFINE R == OpToRel(<, Nat)
  <1>1. PICK j \in T : \A l \in T : <<l, j>> \notin R
    <2> HIDE DEF R
    <2>1. IsWellFoundedOn(R, Nat)
      BY NatLessThanWellFounded DEF R
    <2> QED BY <2>1, WFMin
  <1>2. \A l \in T : <<l, j>> \in Nat \X Nat /\ ~(l < j)
    BY <1>1 DEF OpToRel
  <1>3. j \in Nat /\ \A l \in T : l \in Nat /\ ~(l < j)
    BY <1>2
  <1> HIDE DEF R
  <1> QED BY <1>3

\* Where the loops of sync lead.
Onward(p, r, q) ==
    /\ q \in RunType /\ Placed(p, q) /\ q.post = r.post
    /\ q.at \in {"asset", "edge", "pick_edges", "pick", "commit"}

LEMMA NextRoundFacts ==
    ASSUME NEW p \in Syncs, NEW r \in RunType, r.post \in Posts, NEW i \in Nat \ {0}
    PROVE  Onward(p, r, NextRound(r, i)) /\ NextRound(r, i).at \in {"pick", "commit"}
  <1>1. CASE Rounds(r.post, i) = {}
    <2>1. NextRound(r, i) = [r EXCEPT !.at = "commit"]
      BY <1>1 DEF NextRound
    <2>2. "commit" \in Pcs
      BY DEF Pcs
    <2> QED BY <2>1, <2>2, GoFacts DEF Onward, Placed
  <1>2. CASE Rounds(r.post, i) # {}
    <2> DEFINE j == CHOOSE j \in Rounds(r.post, i) : \A l \in Rounds(r.post, i) : j <= l
               q == [r EXCEPT !.at = "pick", !.victims = {}, !.pos = j]
    <2>1. Rounds(r.post, i) \subseteq DOMAIN r.post.assets /\ DOMAIN r.post.assets \subseteq Nat
      BY PostFacts DEF Rounds
    <2>2. j \in Rounds(r.post, i)
      <3>1. \E m \in Rounds(r.post, i) : \A l \in Rounds(r.post, i) : m <= l
        BY <1>2, <2>1, LeastExists
      <3> QED BY <3>1
    <2>3. j \in DOMAIN r.post.assets /\ j \in Nat
      BY <2>1, <2>2
    <2> HIDE DEF j
    <2>4. q \in RunType /\ q.at = "pick" /\ q.pos = j /\ q.post = r.post
      BY <2>3 DEF RunType, Pcs
    <2>5. NextRound(r, i) = q
      BY <1>2 DEF NextRound, j
    <2> HIDE DEF q
    <2> QED BY <2>3, <2>4, <2>5 DEF Onward, Placed
  <1> QED BY <1>1, <1>2

LEMMA NextEdgeFacts ==
    ASSUME NEW p \in Syncs, NEW r \in RunType, r.post \in Posts
    PROVE  Onward(p, r, NextEdge(r)) /\ NextEdge(r).at # "asset"
  <1>1. CASE r.pos < Len(r.post.edges)
    <2> DEFINE q == [r EXCEPT !.at = "edge", !.pos = @ + 1]
    <2>1. r.pos \in Nat /\ r.pos + 1 \in Nat /\ r.pos + 1 \in DOMAIN r.post.edges
      BY <1>1, PostFacts DEF RunType
    <2>2. q \in RunType /\ q.at = "edge" /\ q.pos = r.pos + 1 /\ q.post = r.post
      BY <2>1 DEF RunType, Pcs
    <2>3. NextEdge(r) = q
      BY <1>1 DEF NextEdge
    <2> HIDE DEF q
    <2> QED BY <2>1, <2>2, <2>3 DEF Onward, Placed
  <1>2. CASE ~(r.pos < Len(r.post.edges))
    <2>1. NextEdge(r) = AfterEdges(r)
      BY <1>2 DEF NextEdge
    <2>2. CASE r.post.related
      <3>1. "pick_edges" \in Pcs /\ AfterEdges(r) = [r EXCEPT !.at = "pick_edges"]
        BY <2>2 DEF Pcs, AfterEdges
      <3> QED BY <2>1, <3>1, GoFacts DEF Onward, Placed
    <2>3. CASE ~r.post.related
      BY <2>1, <2>3, NextRoundFacts DEF AfterEdges
    <2> QED BY <2>2, <2>3
  <1> QED BY <1>1, <1>2

LEMMA NextRecordFacts ==
    ASSUME NEW p \in Syncs, NEW r \in RunType, r.post \in Posts
    PROVE  Onward(p, r, NextRecord(r))
  <1>1. CASE r.pos < Len(r.post.assets)
    <2> DEFINE q == [r EXCEPT !.at = "asset", !.pos = @ + 1]
    <2>1. r.pos \in Nat /\ r.pos + 1 \in Nat /\ r.pos + 1 \in DOMAIN r.post.assets
      BY <1>1, PostFacts DEF RunType
    <2>2. q \in RunType /\ q.at = "asset" /\ q.pos = r.pos + 1 /\ q.post = r.post
      BY <2>1 DEF RunType, Pcs
    <2>3. NextRecord(r) = q
      BY <1>1 DEF NextRecord
    <2> HIDE DEF q
    <2> QED BY <2>1, <2>2, <2>3 DEF Onward, Placed
  <1>2. CASE ~(r.pos < Len(r.post.assets))
    <2> DEFINE q == [r EXCEPT !.pos = 0]
    <2>1. q \in RunType /\ q.post = r.post
      BY DEF RunType
    <2>2. NextRecord(r) = NextEdge(q)
      BY <1>2 DEF NextRecord
    <2> HIDE DEF q
    <2> QED BY <2>1, <2>2, NextEdgeFacts DEF Onward
  <1> QED BY <1>1, <1>2

-----------------------------------------------------------------------------
(* The invariant *)

\* Edges and owners name rows that are there, or that are on their way out.
SoundBut(rows, links, gone) ==
    /\ \A k \in EdgeKeys : links[k].live => \A id \in {links[k].from, links[k].to} :
         id \in AssetIds /\ (Holds(rows, id) \/ id \in gone)
    /\ \A k \in AssetKeys : rows[k].live /\ rows[k].owner # Null =>
         Holds(rows, rows[k].owner) \/ rows[k].owner \in gone

\* What a DELETE has removed, while its ON DELETE actions are to come.
Gone(p) == IF run[p].at = "cascade" THEN run[p].victims ELSE {}

\* A row is written by one open transaction.
Exclusive ==
    \A p, q \in Procs : p # q =>
        /\ DOMAIN txn[p].assets \cap DOMAIN txn[q].assets = {}
        /\ DOMAIN txn[p].edges \cap DOMAIN txn[q].edges = {}

\* Nobody deletes a row that a foreign key of another transaction points to.
Shared ==
    \A p, q \in Procs : p # q =>
        \A k \in DOMAIN txn[p].assets \cap txn[q].shares : txn[p].assets[k].live

\* What a row names it named before, or its row is share-locked.
Backed(p) ==
    /\ \A k \in EdgeKeys : SeenEdges(p)[k].live =>
         \A id \in {SeenEdges(p)[k].from, SeenEdges(p)[k].to} :
             \/ id[1] \in txn[p].shares
             \/ edges[k].live /\ id \in {edges[k].from, edges[k].to}
    /\ \A k \in AssetKeys : SeenAssets(p)[k].live /\ SeenAssets(p)[k].owner # Null =>
         \/ SeenAssets(p)[k].owner[1] \in txn[p].shares
         \/ assets[k].live /\ assets[k].owner = SeenAssets(p)[k].owner

\* A row that is there keeps its id.
Numbered(p) ==
    \A k \in AssetKeys : SeenAssets(p)[k].live /\ assets[k].live => SeenAssets(p)[k].n = assets[k].n

Locks == Exclusive /\ Shared /\ \A p \in Procs : Backed(p) /\ Numbered(p)

\* While records come in, a transaction has deleted nothing.
Fresh(p) ==
    /\ run[p].at = "idle" => txn[p] = NoTxn
    /\ run[p].at \in {"asset", "owner", "own"} =>
         \A k \in DOMAIN txn[p].assets : txn[p].assets[k].live
    /\ run[p].at \in {"owner", "own"} => RecordKey(p) \in DOMAIN txn[p].assets

View(p) == SoundBut(SeenAssets(p), SeenEdges(p), Gone(p))

IInv ==
    /\ Typed /\ Locks /\ SoundBut(assets, edges, {})
    /\ \A p \in Procs : Placed(p, run[p]) /\ Fresh(p) /\ View(p)

-----------------------------------------------------------------------------
(* Frames *)

\* A step of p within its transaction.
Inside(p) ==
    /\ assets' = assets /\ edges' = edges /\ overlap' = overlap
    /\ txn' \in [Procs -> TxnType] /\ run' \in [Procs -> RunType]
    /\ \A q \in Procs \ {p} : txn'[q] = txn[q] /\ run'[q] = run[q]

LEMMA InsideFacts ==
    ASSUME NEW p \in Procs, Inside(p), NEW q \in Procs \ {p}
    PROVE  /\ SeenAssets(q)' = SeenAssets(q) /\ SeenEdges(q)' = SeenEdges(q)
           /\ Gone(q)' = Gone(q)
  BY DEF Inside, SeenAssets, SeenEdges, Gone

LEMMA InsideKeeps ==
    ASSUME IInv, NEW p \in Procs, Inside(p), Locks', Placed(p, run'[p]), Fresh(p)', View(p)'
    PROVE  IInv'
  <1>1. Typed'
    BY DEF IInv, Typed, Inside
  <1>2. SoundBut(assets, edges, {})'
    BY DEF IInv, Inside, SoundBut
  <1>3. ASSUME NEW q \in Procs \ {p} PROVE Placed(q, run'[q]) /\ Fresh(q)' /\ View(q)'
    <2>1. txn'[q] = txn[q] /\ run'[q] = run[q]
      BY DEF Inside
    <2>2. Placed(q, run'[q]) /\ Fresh(q)'
      BY <2>1 DEF IInv, Fresh, RecordKey, Post, Record
    <2>3. View(q)'
      BY InsideFacts DEF IInv, View, SoundBut
    <2> QED BY <2>2, <2>3
  <1> QED BY <1>1, <1>2, <1>3 DEF IInv

\* A step that writes nothing.
LEMMA MoveKeeps ==
    ASSUME IInv, NEW p \in Procs, NEW r \in RunType, Placed(p, r),
           run' = [run EXCEPT ![p] = r], UNCHANGED <<tables, txn, overlap>>,
           run[p].at # "cascade", r.at # "cascade", Fresh(p)'
    PROVE  IInv'
  <1>1. Inside(p) /\ run'[p] = r
    BY DEF IInv, Typed, Inside, tables
  <1>2. \A q \in Procs : SeenAssets(q)' = SeenAssets(q) /\ SeenEdges(q)' = SeenEdges(q)
    BY DEF SeenAssets, SeenEdges, tables
  <1>3. Locks'
    BY <1>2 DEF IInv, Locks, Exclusive, Shared, Backed, Numbered, tables
  <1>4. View(p)'
    BY <1>1, <1>2 DEF IInv, View, Gone, SoundBut
  <1> QED BY <1>1, <1>3, <1>4, InsideKeeps

\* The transaction is forgotten.
LEMMA RollBackKeeps ==
    ASSUME IInv, NEW p \in Procs, NEW at \in {"done", "failed"}, RollBack(p, at)
    PROVE  IInv'
  <1> DEFINE r == [NoRun EXCEPT !.at = at]
  <1>1. r \in RunType /\ Placed(p, r) /\ r.at = at
    BY NoRunTyped
  <1>2. /\ run' = [run EXCEPT ![p] = r] /\ txn' = [txn EXCEPT ![p] = NoTxn]
        /\ assets' = assets /\ edges' = edges /\ overlap' = overlap
    BY DEF RollBack, Move, tables
  <1> HIDE DEF r
  <1>3. Inside(p) /\ run'[p] = r /\ txn'[p] = NoTxn
    BY <1>1, <1>2, NoTxnTyped DEF IInv, Typed, Inside
  <1>4. DOMAIN txn'[p].assets = {} /\ DOMAIN txn'[p].edges = {} /\ txn'[p].shares = {}
    BY <1>3, EmptyFacts DEF NoTxn
  <1>5. SeenAssets(p)' = assets /\ SeenEdges(p)' = edges
    BY <1>2, <1>4 DEF SeenAssets, SeenEdges, IInv, Typed
  <1>6. Exclusive' /\ Shared'
    BY <1>3, <1>4 DEF Exclusive, Shared, IInv, Locks, Inside
  <1>7. ASSUME NEW q \in Procs PROVE Backed(q)' /\ Numbered(q)'
    <2>1. CASE q = p
      BY <1>2, <1>5, <2>1 DEF Backed, Numbered
    <2>2. CASE q # p
      <3>1. SeenAssets(q)' = SeenAssets(q) /\ SeenEdges(q)' = SeenEdges(q) /\ txn'[q] = txn[q]
        BY <1>3, <2>2, InsideFacts DEF Inside
      <3> QED BY <1>2, <3>1 DEF IInv, Locks, Backed, Numbered
    <2> QED BY <2>1, <2>2
  <1>8. View(p)'
    BY <1>1, <1>3, <1>5 DEF IInv, View, Gone, SoundBut
  <1>9. Fresh(p)'
    BY <1>1, <1>3 DEF Fresh
  <1> QED BY <1>1, <1>3, <1>6, <1>7, <1>8, <1>9, InsideKeeps DEF Locks

\* A statement of p writes the asset rows KA and the edge rows KE, and takes share
\* locks on the assets S, none of which another transaction holds against it.
Writes(p, KA, KE, S) ==
    /\ DOMAIN txn'[p].assets = DOMAIN txn[p].assets \cup KA
    /\ DOMAIN txn'[p].edges = DOMAIN txn[p].edges \cup KE
    /\ txn'[p].shares = txn[p].shares \cup S
    /\ \A k \in AssetKeys \ KA : SeenAssets(p)'[k] = SeenAssets(p)[k]
    /\ \A k \in EdgeKeys \ KE : SeenEdges(p)'[k] = SeenEdges(p)[k]
    /\ \A k \in KA : k \in DOMAIN txn[p].assets \/ AssetWriters(p, k) = {}
    /\ \A k \in KE : EdgeWriters(p, k) = {}
    /\ \A k \in S : Deleters(p, k) = {}
    /\ \A k \in KA : SeenAssets(p)'[k].live \/ Sharers(p, k) = {}

\* What it writes is numbered and backed.
Sourced(p, KA, KE, S) ==
    /\ \A k \in KA : SeenAssets(p)'[k].live =>
         /\ assets[k].live => SeenAssets(p)'[k].n = assets[k].n
         /\ SeenAssets(p)'[k].owner # Null =>
              \/ SeenAssets(p)'[k].owner[1] \in S
              \/ SeenAssets(p)[k].live /\ SeenAssets(p)[k].owner = SeenAssets(p)'[k].owner
    /\ \A k \in KE : SeenEdges(p)'[k].live =>
         \A id \in {SeenEdges(p)'[k].from, SeenEdges(p)'[k].to} :
             \/ id[1] \in S
             \/ SeenEdges(p)[k].live /\ id \in {SeenEdges(p)[k].from, SeenEdges(p)[k].to}

LEMMA WriteLocks ==
    ASSUME IInv, NEW p \in Procs, Inside(p),
           NEW KA \in SUBSET AssetKeys, NEW KE \in SUBSET EdgeKeys, NEW S \in SUBSET AssetKeys,
           Writes(p, KA, KE, S), Sourced(p, KA, KE, S)
    PROVE  Locks'
  <1>0. /\ Typed /\ Exclusive /\ Shared /\ Backed(p) /\ Numbered(p)
        /\ assets' = assets /\ edges' = edges
        /\ \A q \in Procs \ {p} : txn'[q] = txn[q]
    BY DEF IInv, Locks, Inside
  <1>1. Exclusive'
    <2>1. ASSUME NEW q \in Procs \ {p}
          PROVE  /\ DOMAIN txn'[p].assets \cap DOMAIN txn[q].assets = {}
                 /\ DOMAIN txn'[p].edges \cap DOMAIN txn[q].edges = {}
      BY <1>0 DEF Writes, Exclusive, AssetWriters, EdgeWriters
    <2> QED BY <1>0, <2>1 DEF Exclusive
  <1>2. Shared'
    <2>1. ASSUME NEW q \in Procs \ {p}, NEW k \in DOMAIN txn'[p].assets, k \in txn[q].shares
          PROVE  txn'[p].assets[k].live
      <3>1. k \in AssetKeys
        BY <1>0, SeenTyped DEF Writes
      <3>2. SeenAssets(p)'[k] = txn'[p].assets[k]
        BY <3>1 DEF SeenAssets
      <3>3. CASE k \in KA
        BY <2>1, <3>2, <3>3 DEF Writes, Sharers
      <3>4. CASE k \notin KA
        <4>1. k \in DOMAIN txn[p].assets /\ SeenAssets(p)[k] = txn[p].assets[k]
          BY <3>1, <3>4 DEF Writes, SeenAssets
        <4>2. txn[p].assets[k].live
          BY <1>0, <2>1, <4>1 DEF Shared
        <4> QED BY <3>1, <3>2, <3>4, <4>1, <4>2 DEF Writes
      <3> QED BY <3>3, <3>4
    <2>2. ASSUME NEW q \in Procs \ {p}, NEW k \in DOMAIN txn[q].assets, k \in txn'[p].shares
          PROVE  txn[q].assets[k].live
      BY <1>0, <2>2 DEF Writes, Deleters, AssetWriters, Shared
    <2> QED BY <1>0, <2>1, <2>2 DEF Shared
  <1>3. Backed(p)'
    <2>1. ASSUME NEW k \in EdgeKeys, SeenEdges(p)'[k].live,
                 NEW id \in {SeenEdges(p)'[k].from, SeenEdges(p)'[k].to}
          PROVE  \/ id[1] \in txn'[p].shares
                 \/ edges[k].live /\ id \in {edges[k].from, edges[k].to}
      <3>1. \/ id[1] \in S
            \/ SeenEdges(p)[k].live /\ id \in {SeenEdges(p)[k].from, SeenEdges(p)[k].to}
        <4>1. CASE k \in KE
          BY <2>1, <4>1 DEF Sourced
        <4>2. CASE k \notin KE
          <5>1. SeenEdges(p)'[k] = SeenEdges(p)[k]
            BY <4>2 DEF Writes
          <5> QED BY <2>1, <5>1
        <4> QED BY <4>1, <4>2
      <3>2. SeenEdges(p)[k].live /\ id \in {SeenEdges(p)[k].from, SeenEdges(p)[k].to} =>
              id[1] \in txn[p].shares \/ (edges[k].live /\ id \in {edges[k].from, edges[k].to})
        BY <1>0 DEF Backed
      <3>3. txn'[p].shares = txn[p].shares \cup S
        BY DEF Writes
      <3> QED BY <3>1, <3>2, <3>3
    <2>2. ASSUME NEW k \in AssetKeys, SeenAssets(p)'[k].live, SeenAssets(p)'[k].owner # Null
          PROVE  \/ SeenAssets(p)'[k].owner[1] \in txn'[p].shares
                 \/ assets[k].live /\ assets[k].owner = SeenAssets(p)'[k].owner
      <3> DEFINE id == SeenAssets(p)'[k].owner
      <3>1. id[1] \in S \/ (SeenAssets(p)[k].live /\ SeenAssets(p)[k].owner = id)
        <4>1. CASE k \in KA
          BY <2>2, <4>1 DEF Sourced
        <4>2. CASE k \notin KA
          <5>1. SeenAssets(p)'[k] = SeenAssets(p)[k]
            BY <4>2 DEF Writes
          <5> QED BY <2>2, <5>1
        <4> QED BY <4>1, <4>2
      <3>2. SeenAssets(p)[k].live /\ SeenAssets(p)[k].owner = id =>
              id[1] \in txn[p].shares \/ (assets[k].live /\ assets[k].owner = id)
        BY <1>0, <2>2 DEF Backed
      <3>3. txn'[p].shares = txn[p].shares \cup S
        BY DEF Writes
      <3> QED BY <3>1, <3>2, <3>3
    <2> QED BY <1>0, <2>1, <2>2 DEF Backed
  <1>4. Numbered(p)'
    BY <1>0 DEF Numbered, Writes, Sourced
  <1>5. ASSUME NEW q \in Procs \ {p} PROVE Backed(q)' /\ Numbered(q)'
    <2>1. SeenAssets(q)' = SeenAssets(q) /\ SeenEdges(q)' = SeenEdges(q) /\ txn'[q] = txn[q]
      BY <1>0, InsideFacts
    <2> QED BY <1>0, <2>1 DEF IInv, Locks, Backed, Numbered
  <1> QED BY <1>1, <1>2, <1>3, <1>4, <1>5 DEF Locks

-----------------------------------------------------------------------------
(* A commit *)

\* A row that q saw is there in what q sees when p has committed, and so is one
\* that p saw, if the one who names it has a lock on it or the other sees it too.
LEMMA Survives ==
    ASSUME IInv, NEW p \in Procs, NEW q \in Procs \ {p}, NEW id \in AssetIds, NEW seen,
           seen \in [AssetKeys -> AssetRow],
           \A k \in AssetKeys : seen[k] = IF k \in DOMAIN txn[q].assets THEN SeenAssets(q)[k]
                                          ELSE SeenAssets(p)[k],
           \/ Holds(SeenAssets(q), id) /\ (id[1] \in txn[q].shares \/ Holds(SeenAssets(p), id))
           \/ Holds(SeenAssets(p), id) /\ (id[1] \in txn[p].shares \/ Holds(SeenAssets(q), id))
    PROVE  Holds(seen, id)
  <1> DEFINE k == id[1]
  <1>1. k \in AssetKeys
    BY DEF AssetIds
  <1>2. /\ DOMAIN txn[p].assets \cap DOMAIN txn[q].assets = {}
        /\ k \in DOMAIN txn[p].assets \cap txn[q].shares => txn[p].assets[k].live
        /\ k \in DOMAIN txn[q].assets \cap txn[p].shares => txn[q].assets[k].live
        /\ SeenAssets(p)[k].live /\ assets[k].live => SeenAssets(p)[k].n = assets[k].n
        /\ SeenAssets(q)[k].live /\ assets[k].live => SeenAssets(q)[k].n = assets[k].n
    BY <1>1 DEF IInv, Locks, Exclusive, Shared, Numbered
  <1>3. /\ k \in DOMAIN txn[p].assets => SeenAssets(p)[k] = txn[p].assets[k]
        /\ k \notin DOMAIN txn[p].assets => SeenAssets(p)[k] = assets[k]
        /\ k \in DOMAIN txn[q].assets => SeenAssets(q)[k] = txn[q].assets[k]
        /\ k \notin DOMAIN txn[q].assets => SeenAssets(q)[k] = assets[k]
    BY <1>1 DEF SeenAssets
  <1> HIDE DEF k
  <1>4. /\ Holds(SeenAssets(p), id) <=> SeenAssets(p)[k].live /\ SeenAssets(p)[k].n = id[2]
        /\ Holds(SeenAssets(q), id) <=> SeenAssets(q)[k].live /\ SeenAssets(q)[k].n = id[2]
        /\ Holds(seen, id) <=> seen[k].live /\ seen[k].n = id[2]
    BY DEF Holds, k
  <1>5. CASE k \in DOMAIN txn[q].assets
    BY <1>1, <1>2, <1>3, <1>4, <1>5 DEF k
  <1>6. CASE k \notin DOMAIN txn[q].assets
    BY <1>1, <1>2, <1>3, <1>4, <1>6 DEF k
  <1> QED BY <1>5, <1>6

LEMMA CommitKeeps ==
    ASSUME IInv, NEW p \in Procs, Commit(p)
    PROVE  IInv'
  <1> DEFINE r == [NoRun EXCEPT !.at = "done"]
  <1>1. r \in RunType /\ Placed(p, r) /\ r.at = "done"
    BY NoRunTyped
  <1>2. /\ assets' = SeenAssets(p) /\ edges' = SeenEdges(p)
        /\ txn' = [txn EXCEPT ![p] = NoTxn] /\ run' = [run EXCEPT ![p] = r]
        /\ run[p].at = "commit" /\ overlap' \subseteq overlap \cup Syncs
    BY DEF Commit, Move
  <1> HIDE DEF r
  <1>3. /\ Typed /\ Exclusive /\ Shared /\ \A q \in Procs : Backed(q) /\ Numbered(q) /\ View(q)
    BY DEF IInv, Locks
  <1>4. Typed'
    BY <1>1, <1>2, <1>3, SeenTyped, NoTxnTyped DEF Typed
  <1>5. /\ txn'[p] = NoTxn /\ run'[p] = r
        /\ \A q \in Procs \ {p} : txn'[q] = txn[q] /\ run'[q] = run[q]
    BY <1>2, <1>3 DEF Typed
  <1>6. DOMAIN txn'[p].assets = {} /\ DOMAIN txn'[p].edges = {} /\ txn'[p].shares = {}
    BY <1>5, EmptyFacts DEF NoTxn
  <1>7. Exclusive' /\ Shared'
    BY <1>3, <1>5, <1>6 DEF Exclusive, Shared
  <1>8. SoundBut(SeenAssets(p), SeenEdges(p), {})
    BY <1>2, <1>3 DEF View, Gone
  <1>9. SoundBut(assets, edges, {})'
    BY <1>2, <1>8 DEF SoundBut
  <1>10. Backed(p)' /\ Numbered(p)' /\ Fresh(p)' /\ View(p)' /\ Placed(p, run'[p])
    <2>1. SeenAssets(p)' = assets' /\ SeenEdges(p)' = edges'
      BY <1>4, <1>6 DEF SeenAssets, SeenEdges, Typed
    <2> QED BY <1>1, <1>5, <1>9, <2>1 DEF Backed, Numbered, Fresh, View, Gone, SoundBut
  <1>11. ASSUME NEW q \in Procs \ {p}
         PROVE  Backed(q)' /\ Numbered(q)' /\ Fresh(q)' /\ View(q)' /\ Placed(q, run'[q])
    <2>1. txn'[q] = txn[q] /\ run'[q] = run[q] /\ Gone(q)' = Gone(q)
      BY <1>5 DEF Gone
    <2>2. \A k \in AssetKeys :
            /\ k \in DOMAIN txn[q].assets =>
                 SeenAssets(q)'[k] = SeenAssets(q)[k] /\ assets'[k] = assets[k]
            /\ k \notin DOMAIN txn[q].assets => SeenAssets(q)'[k] = SeenAssets(p)[k]
      BY <1>2, <1>3, <2>1 DEF SeenAssets, Exclusive
    <2>3. \A k \in EdgeKeys :
            /\ k \in DOMAIN txn[q].edges =>
                 /\ SeenEdges(q)'[k] = SeenEdges(q)[k] /\ edges'[k] = edges[k]
                 /\ SeenEdges(p)[k] = edges[k]
            /\ k \notin DOMAIN txn[q].edges =>
                 SeenEdges(q)'[k] = SeenEdges(p)[k] /\ SeenEdges(q)[k] = edges[k]
      BY <1>2, <1>3, <2>1 DEF SeenEdges, Exclusive
    <2>4. \A k \in AssetKeys :
            /\ k \in DOMAIN txn[q].assets => SeenAssets(p)[k] = assets[k]
            /\ k \notin DOMAIN txn[q].assets => SeenAssets(q)[k] = assets[k]
      BY <1>3 DEF SeenAssets, Exclusive
    <2>5. Backed(q)'
      BY <1>2, <1>3, <2>1, <2>2, <2>3 DEF Backed
    <2>6. Numbered(q)'
      BY <1>2, <1>3, <2>2 DEF Numbered
    <2>7. SeenAssets(q)' \in [AssetKeys -> AssetRow]
      <3>1. SeenAssets(p) \in [AssetKeys -> AssetRow] /\ SeenAssets(q) \in [AssetKeys -> AssetRow]
        BY <1>3, SeenTyped
      <3>2. \A k \in AssetKeys : SeenAssets(q)'[k] \in AssetRow
        BY <2>2, <3>1
      <3>3. SeenAssets(q)' = [k \in AssetKeys |-> SeenAssets(q)'[k]]
        BY DEF SeenAssets
      <3> QED BY <3>2, <3>3
    <2>8. ASSUME NEW id \in AssetIds,
                 \/ (Holds(SeenAssets(q), id) \/ id \in Gone(q))
                      /\ (id[1] \in txn[q].shares \/ Holds(SeenAssets(p), id))
                 \/ /\ Holds(SeenAssets(p), id)
                    /\ id[1] \in txn[p].shares \/ Holds(SeenAssets(q), id) \/ id \in Gone(q)
          PROVE  Holds(SeenAssets(q)', id) \/ id \in Gone(q)
      BY <2>2, <2>7, <2>8, Survives
    <2>9. View(q)'
      <3>1. ASSUME NEW k \in EdgeKeys, SeenEdges(q)'[k].live,
                   NEW id \in {SeenEdges(q)'[k].from, SeenEdges(q)'[k].to}
            PROVE  id \in AssetIds /\ (Holds(SeenAssets(q)', id) \/ id \in Gone(q))
        <4>1. CASE k \in DOMAIN txn[q].edges
          <5>1. id \in AssetIds /\ (Holds(SeenAssets(q), id) \/ id \in Gone(q))
            BY <1>3, <2>3, <3>1, <4>1 DEF View, SoundBut
          <5>2. id[1] \in txn[q].shares \/ (edges[k].live /\ id \in {edges[k].from, edges[k].to})
            BY <1>3, <2>3, <3>1, <4>1 DEF Backed
          <5>3. edges[k].live /\ id \in {edges[k].from, edges[k].to} => Holds(SeenAssets(p), id)
            BY <1>8, <2>3, <4>1 DEF SoundBut
          <5> QED BY <2>8, <5>1, <5>2, <5>3
        <4>2. CASE k \notin DOMAIN txn[q].edges
          <5>1. id \in AssetIds /\ Holds(SeenAssets(p), id)
            BY <1>8, <2>3, <3>1, <4>2 DEF SoundBut
          <5>2. id[1] \in txn[p].shares \/ (edges[k].live /\ id \in {edges[k].from, edges[k].to})
            BY <1>3, <2>3, <3>1, <4>2 DEF Backed
          <5>3. edges[k].live /\ id \in {edges[k].from, edges[k].to} =>
                  Holds(SeenAssets(q), id) \/ id \in Gone(q)
            BY <1>3, <2>3, <4>2 DEF View, SoundBut
          <5> QED BY <2>8, <5>1, <5>2, <5>3
        <4> QED BY <4>1, <4>2
      <3>2. ASSUME NEW k \in AssetKeys, SeenAssets(q)'[k].live, SeenAssets(q)'[k].owner # Null
            PROVE  \/ Holds(SeenAssets(q)', SeenAssets(q)'[k].owner)
                   \/ SeenAssets(q)'[k].owner \in Gone(q)
        <4> DEFINE id == SeenAssets(q)'[k].owner
        <4>1. id \in AssetIds
          BY <2>7, <3>2 DEF AssetRow
        <4>2. CASE k \in DOMAIN txn[q].assets
          <5>1. Holds(SeenAssets(q), id) \/ id \in Gone(q)
            BY <1>3, <2>2, <3>2, <4>2 DEF View, SoundBut
          <5>2. id[1] \in txn[q].shares \/ (assets[k].live /\ assets[k].owner = id)
            BY <1>3, <2>2, <3>2, <4>2 DEF Backed
          <5>3. assets[k].live /\ assets[k].owner = id => Holds(SeenAssets(p), id)
            BY <1>8, <2>4, <3>2, <4>2 DEF SoundBut
          <5> QED BY <2>8, <4>1, <5>1, <5>2, <5>3
        <4>3. CASE k \notin DOMAIN txn[q].assets
          <5>1. Holds(SeenAssets(p), id)
            BY <1>8, <2>2, <3>2, <4>3 DEF SoundBut
          <5>2. id[1] \in txn[p].shares \/ (assets[k].live /\ assets[k].owner = id)
            BY <1>3, <2>2, <3>2, <4>3 DEF Backed
          <5>3. assets[k].live /\ assets[k].owner = id =>
                  Holds(SeenAssets(q), id) \/ id \in Gone(q)
            BY <1>3, <2>4, <3>2, <4>3 DEF View, SoundBut
          <5> QED BY <2>8, <4>1, <5>1, <5>2, <5>3
        <4> QED BY <4>2, <4>3
      <3> QED BY <2>1, <3>1, <3>2 DEF View, SoundBut
    <2>10. Fresh(q)' /\ Placed(q, run'[q])
      BY <2>1 DEF IInv, Fresh, RecordKey, Post, Record
    <2> QED BY <2>5, <2>6, <2>9, <2>10
  <1> QED BY <1>4, <1>7, <1>9, <1>10, <1>11 DEF IInv, Locks

-----------------------------------------------------------------------------
(* A statement that writes rows *)

\* The statement waited for the locks, and keeps numbers and backing.
Lawful(p, AR, ER, S) ==
    /\ \A k \in DOMAIN AR :
         /\ k \in DOMAIN txn[p].assets \/ AssetWriters(p, k) = {}
         /\ AR[k].live \/ Sharers(p, k) = {}
         /\ AR[k].live /\ assets[k].live => AR[k].n = assets[k].n
         /\ AR[k].live /\ AR[k].owner # Null =>
              \/ AR[k].owner[1] \in S
              \/ SeenAssets(p)[k].live /\ SeenAssets(p)[k].owner = AR[k].owner
    /\ \A k \in DOMAIN ER :
         /\ EdgeWriters(p, k) = {}
         /\ ER[k].live => \A id \in {ER[k].from, ER[k].to} :
              \/ id[1] \in S
              \/ SeenEdges(p)[k].live /\ id \in {SeenEdges(p)[k].from, SeenEdges(p)[k].to}
    /\ \A k \in S : Deleters(p, k) = {}

LEMMA WriteKeeps ==
    ASSUME IInv, NEW p \in Procs, NEW r \in RunType, Placed(p, r),
           NEW AR \in Partial(AssetKeys, AssetRow), NEW ER \in Partial(EdgeKeys, EdgeRow),
           NEW S \in SUBSET AssetKeys, Lawful(p, AR, ER, S),
           run' = [run EXCEPT ![p] = r], txn' = [txn EXCEPT ![p] = Written(p, AR, ER, S)],
           UNCHANGED <<tables, overlap>>,
           r.at # "idle",
           r.at \in {"asset", "owner", "own"} =>
             run[p].at \in {"asset", "owner", "own"} /\ \A k \in DOMAIN AR : AR[k].live,
           r.at \in {"owner", "own"} =>
             <<r.post.source, r.post.assets[r.pos].ref>> \in DOMAIN AR,
           SoundBut(Over(AR, SeenAssets(p)), Over(ER, SeenEdges(p)),
                    IF r.at = "cascade" THEN r.victims ELSE {})
    PROVE  IInv'
  <1>1. /\ Typed /\ assets' = assets /\ edges' = edges /\ overlap' = overlap
        /\ txn[p] \in TxnType /\ Fresh(p)
        /\ txn[p].assets \in Partial(AssetKeys, AssetRow)
        /\ txn[p].edges \in Partial(EdgeKeys, EdgeRow)
        /\ txn[p].shares \in SUBSET AssetKeys
    BY DEF IInv, Typed, TxnType, tables
  <1>2. Written(p, AR, ER, S) \in TxnType
    BY <1>1, OverFacts DEF Written, TxnType
  <1>3. Inside(p) /\ run'[p] = r /\ txn'[p] = Written(p, AR, ER, S)
    BY <1>1, <1>2 DEF Inside, Typed
  <1>4. /\ DOMAIN txn'[p].assets = DOMAIN AR \cup DOMAIN txn[p].assets
        /\ DOMAIN txn'[p].edges = DOMAIN ER \cup DOMAIN txn[p].edges
        /\ txn'[p].shares = txn[p].shares \cup S
        /\ \A k \in DOMAIN AR : txn'[p].assets[k] = AR[k]
        /\ \A k \in DOMAIN ER : txn'[p].edges[k] = ER[k]
        /\ \A k \in DOMAIN txn[p].assets \ DOMAIN AR : txn'[p].assets[k] = txn[p].assets[k]
        /\ \A k \in DOMAIN txn[p].edges \ DOMAIN ER : txn'[p].edges[k] = txn[p].edges[k]
    <2>1. txn'[p].assets = Over(AR, txn[p].assets) /\ txn'[p].edges = Over(ER, txn[p].edges)
          /\ txn'[p].shares = txn[p].shares \cup S
      BY <1>3 DEF Written
    <2>2. /\ DOMAIN Over(AR, txn[p].assets) = DOMAIN AR \cup DOMAIN txn[p].assets
          /\ \A k \in DOMAIN AR : Over(AR, txn[p].assets)[k] = AR[k]
          /\ \A k \in DOMAIN txn[p].assets \ DOMAIN AR :
               Over(AR, txn[p].assets)[k] = txn[p].assets[k]
      BY DEF Over
    <2>3. /\ DOMAIN Over(ER, txn[p].edges) = DOMAIN ER \cup DOMAIN txn[p].edges
          /\ \A k \in DOMAIN ER : Over(ER, txn[p].edges)[k] = ER[k]
          /\ \A k \in DOMAIN txn[p].edges \ DOMAIN ER :
               Over(ER, txn[p].edges)[k] = txn[p].edges[k]
      BY DEF Over
    <2> QED BY <2>1, <2>2, <2>3
  <1>5. DOMAIN AR \subseteq AssetKeys /\ DOMAIN ER \subseteq EdgeKeys
    BY PartialFacts
  <1>6. /\ \A k \in DOMAIN AR : SeenAssets(p)'[k] = AR[k]
        /\ \A k \in DOMAIN ER : SeenEdges(p)'[k] = ER[k]
        /\ \A k \in AssetKeys \ DOMAIN AR : SeenAssets(p)'[k] = SeenAssets(p)[k]
        /\ \A k \in EdgeKeys \ DOMAIN ER : SeenEdges(p)'[k] = SeenEdges(p)[k]
    BY <1>1, <1>4, <1>5 DEF SeenAssets, SeenEdges
  <1>7. Locks'
    <2>1. Writes(p, DOMAIN AR, DOMAIN ER, S)
      BY <1>4, <1>6 DEF Writes, Lawful
    <2>2. Sourced(p, DOMAIN AR, DOMAIN ER, S)
      BY <1>6 DEF Sourced, Lawful
    <2> QED BY <1>3, <1>5, <2>1, <2>2, WriteLocks
  <1>8. View(p)'
    <2>1. /\ \A k \in AssetKeys : Over(AR, SeenAssets(p))[k] = SeenAssets(p)'[k]
          /\ \A k \in EdgeKeys : Over(ER, SeenEdges(p))[k] = SeenEdges(p)'[k]
      BY <1>1, <1>5, <1>6, SeenTyped DEF Over
    <2>2. Gone(p)' = IF r.at = "cascade" THEN r.victims ELSE {}
      BY <1>3 DEF Gone
    <2>3. \A id \in AssetIds : Holds(Over(AR, SeenAssets(p)), id) <=> Holds(SeenAssets(p)', id)
      BY <2>1 DEF Holds, AssetIds
    <2>4. SeenAssets(p)' \in [AssetKeys -> AssetRow]
      <3>1. \A k \in AssetKeys : SeenAssets(p)'[k] \in AssetRow
        BY <1>1, <1>6, SeenTyped, PartialFacts
      <3>2. SeenAssets(p)' = [k \in AssetKeys |-> SeenAssets(p)'[k]]
        BY DEF SeenAssets
      <3> QED BY <3>1, <3>2
    <2>5. \A k \in AssetKeys : SeenAssets(p)'[k].owner # Null => SeenAssets(p)'[k].owner \in AssetIds
      BY <2>4 DEF AssetRow
    <2> QED BY <2>1, <2>2, <2>3, <2>5 DEF View, SoundBut
  <1>9. Fresh(p)'
    <2>1. r.at \in {"asset", "owner", "own"} =>
            \A k \in DOMAIN txn'[p].assets : txn'[p].assets[k].live
      BY <1>1, <1>4 DEF Fresh
    <2>2. r.at \in {"owner", "own"} => RecordKey(p)' \in DOMAIN txn'[p].assets
      BY <1>3, <1>4 DEF RecordKey, Post, Record
    <2> QED BY <1>3, <2>1, <2>2 DEF Fresh
  <1> QED BY <1>3, <1>7, <1>8, <1>9, InsideKeeps

\* What a request does between its statements.
LEMMA GoOnKeeps ==
    ASSUME IInv, NEW p \in Procs, NEW r \in RunType, Placed(p, r),
           run' = [run EXCEPT ![p] = r], UNCHANGED <<tables, txn, overlap>>,
           run[p].at # "cascade", r.at \notin {"cascade", "idle"},
           r.at \in {"asset", "owner", "own"} => run[p].at \in {"idle", "asset", "owner", "own"},
           r.at \in {"owner", "own"} =>
             run[p].at \in {"owner", "own"} /\ r.post = run[p].post /\ r.pos = run[p].pos
    PROVE  IInv'
  <1>1. run'[p] = r /\ txn' = txn /\ Fresh(p)
    BY DEF IInv, Typed
  <1>2. Fresh(p)'
    <2>1. txn[p] = NoTxn => DOMAIN txn[p].assets = {}
      BY EmptyFacts DEF NoTxn
    <2> QED BY <1>1, <2>1 DEF Fresh, RecordKey, Post, Record
  <1> QED BY <1>2, MoveKeeps

-----------------------------------------------------------------------------
(* What the guards of a step say *)

\* A synchronisation at a record, and at an edge, of its payload.
LEMMA AtRecord ==
    ASSUME IInv, NEW p \in Procs, run[p].at \in {"asset", "owner", "own", "pick"}
    PROVE  /\ p \in Syncs /\ run[p] \in RunType /\ Post(p) \in Posts
           /\ Record(p) \in RecordType /\ RecordKey(p) \in AssetKeys
           /\ run[p].pos \in DOMAIN Post(p).assets
  <1>1. run[p] \in RunType /\ Placed(p, run[p])
    BY DEF IInv, Typed
  <1>2. p \in Syncs /\ Post(p) \in Posts /\ run[p].pos \in DOMAIN Post(p).assets
    BY <1>1 DEF Placed, Post
  <1>3. Record(p) \in RecordType /\ Post(p).source \in Sources
    BY <1>2, PostFacts DEF Record
  <1>4. RecordKey(p) \in AssetKeys
    BY <1>3 DEF RecordKey, AssetKeys, RecordType
  <1> QED BY <1>1, <1>2, <1>3, <1>4

LEMMA AtEdge ==
    ASSUME IInv, NEW p \in Procs, run[p].at = "edge"
    PROVE  /\ p \in Syncs /\ run[p] \in RunType /\ Post(p) \in Posts
           /\ Edge(p) \in EdgeType /\ EdgeKey(p) \in EdgeKeys /\ Post(p).source \in Sources
  <1>1. run[p] \in RunType /\ Placed(p, run[p])
    BY DEF IInv, Typed
  <1>2. p \in Syncs /\ Post(p) \in Posts /\ run[p].pos \in DOMAIN Post(p).edges
    BY <1>1 DEF Placed, Post
  <1>3. Edge(p) \in EdgeType /\ Post(p).source \in Sources
    BY <1>2, PostFacts DEF Edge
  <1>4. EdgeKey(p) \in EdgeKeys
    BY <1>3 DEF EdgeKey, EdgeKeys, EdgeType
  <1> QED BY <1>1, <1>2, <1>3, <1>4

LEMMA AtPrune ==
    ASSUME IInv, NEW p \in Procs, run[p].at \in {"pick_edges", "prune"}
    PROVE  p \in Syncs /\ run[p] \in RunType /\ run[p].post \in Posts
  BY DEF IInv, Typed, Placed

LEMMA AtSweep ==
    ASSUME IInv, NEW p \in Procs, run[p].at \in {"sweep", "cascade"}
    PROVE  /\ run[p] \in RunType /\ Placed(p, run[p])
           /\ p \in Syncs => /\ run[p].post \in Posts
                             /\ run[p].pos + 1 \in Nat \ {0}
  <1>1. run[p] \in RunType /\ Placed(p, run[p])
    BY DEF IInv, Typed
  <1>2. run[p].pos + 1 \in Nat \ {0}
    BY <1>1 DEF RunType
  <1> QED BY <1>1, <1>2 DEF Placed

\* What a statement has waited for.
LEMMA FreeFacts ==
    ASSUME NEW p
    PROVE  /\ Free(p, "asset") => AssetWriters(p, RecordKey(p)) = {}
           /\ Free(p, "own") => \A id \in NewOwner(p) : Deleters(p, id[1]) = {}
           /\ Free(p, "edge") /\ Linkable(p) =>
                /\ EdgeWriters(p, EdgeKey(p)) = {}
                /\ \A id \in NewEnds(p) : Deleters(p, id[1]) = {}
           /\ Free(p, "prune") => \A k \in VictimEdges(p) : EdgeWriters(p, k) = {}
           /\ Free(p, "sweep") => \A k \in Swept(p) :
                /\ AssetWriters(p, k) = {}
                /\ Archives(p) \/ Sharers(p, k) = {}
           /\ Free(p, "cascade") =>
                /\ \A k \in Orphans(p) : EdgeWriters(p, k) = {}
                /\ \A k \in Owned(p) : AssetWriters(p, k) = {}
  <1>1. Free(p, "asset") => AssetWriters(p, RecordKey(p)) = {}
    BY DEF Free, Blockers
  <1>2. Free(p, "own") => \A id \in NewOwner(p) : Deleters(p, id[1]) = {}
    BY DEF Free, Blockers
  <1>3. Free(p, "edge") /\ Linkable(p) =>
           /\ EdgeWriters(p, EdgeKey(p)) = {}
           /\ \A id \in NewEnds(p) : Deleters(p, id[1]) = {}
    BY DEF Free, Blockers
  <1>4. Free(p, "prune") => \A k \in VictimEdges(p) : EdgeWriters(p, k) = {}
    BY DEF Free, Blockers
  <1>5. Free(p, "sweep") => \A k \in Swept(p) :
           /\ AssetWriters(p, k) = {}
           /\ Archives(p) \/ Sharers(p, k) = {}
    BY DEF Free, Blockers
  <1>6. Free(p, "cascade") =>
           /\ \A k \in Orphans(p) : EdgeWriters(p, k) = {}
           /\ \A k \in Owned(p) : AssetWriters(p, k) = {}
    BY DEF Free, Blockers
  <1> QED BY <1>1, <1>2, <1>3, <1>4, <1>5, <1>6

\* Rows written over a sound view leave it sound, if they name rows that it holds.
LEMMA SoundOver ==
    ASSUME NEW rows \in [AssetKeys -> AssetRow], NEW links \in [EdgeKeys -> EdgeRow],
           NEW AR, NEW ER, NEW G, SoundBut(rows, links, {}),
           \A id \in AssetIds : Holds(rows, id) => Holds(Over(AR, rows), id) \/ id \in G,
           \A k \in DOMAIN ER : ER[k].live => \A id \in {ER[k].from, ER[k].to} :
              id \in AssetIds /\ Holds(rows, id),
           \A k \in DOMAIN AR : AR[k].live /\ AR[k].owner # Null =>
              AR[k].owner \in AssetIds /\ Holds(rows, AR[k].owner)
    PROVE  SoundBut(Over(AR, rows), Over(ER, links), G)
  <1>1. ASSUME NEW k \in EdgeKeys, Over(ER, links)[k].live,
               NEW id \in {Over(ER, links)[k].from, Over(ER, links)[k].to}
        PROVE  id \in AssetIds /\ (Holds(Over(AR, rows), id) \/ id \in G)
    <2>1. Over(ER, links)[k] = IF k \in DOMAIN ER THEN ER[k] ELSE links[k]
      BY DEF Over
    <2>2. id \in AssetIds /\ Holds(rows, id)
      BY <1>1, <2>1 DEF SoundBut
    <2> QED BY <2>2
  <1>2. ASSUME NEW k \in AssetKeys, Over(AR, rows)[k].live, Over(AR, rows)[k].owner # Null
        PROVE  Holds(Over(AR, rows), Over(AR, rows)[k].owner) \/ Over(AR, rows)[k].owner \in G
    <2>1. Over(AR, rows)[k] = IF k \in DOMAIN AR THEN AR[k] ELSE rows[k]
      BY DEF Over
    <2>2. CASE k \in DOMAIN AR
      BY <1>2, <2>1, <2>2
    <2>3. CASE k \notin DOMAIN AR
      <3>1. rows[k].owner \in AssetIds
        BY <1>2, <2>1, <2>3 DEF AssetRow
      <3>2. Holds(rows, rows[k].owner)
        BY <1>2, <2>1, <2>3 DEF SoundBut
      <3> QED BY <2>1, <2>3, <3>1, <3>2
    <2> QED BY <2>2, <2>3
  <1> QED BY <1>1, <1>2 DEF SoundBut

\* One that keeps the ids of the rows that are there.
LEMMA HoldsOver ==
    ASSUME NEW rows \in [AssetKeys -> AssetRow], NEW AR,
           \A k \in DOMAIN AR : rows[k].live => AR[k].live /\ AR[k].n = rows[k].n,
           NEW id \in AssetIds, Holds(rows, id)
    PROVE  Holds(Over(AR, rows), id)
  <1>1. id[1] \in AssetKeys
    BY DEF AssetIds
  <1>2. Over(AR, rows)[id[1]] = IF id[1] \in DOMAIN AR THEN AR[id[1]] ELSE rows[id[1]]
    BY <1>1 DEF Over
  <1> QED BY <1>2 DEF Holds

-----------------------------------------------------------------------------
(* The steps that only read *)

LEMMA BeginKeeps ==
    ASSUME IInv, NEW p \in Syncs, NEW post \in Posts, Begin(p, post)
    PROVE  IInv'
  <1> DEFINE q == [NoRun EXCEPT !.post = post, !.pos = 0]
  <1>1. q \in RunType /\ q.post = post
    BY EmptyFacts DEF NoRun, RunType, Pcs
  <1>2. run' = [run EXCEPT ![p] = NextRecord(q)] /\ UNCHANGED <<tables, txn, overlap>>
        /\ run[p].at = "idle"
    BY DEF Begin, Move
  <1> HIDE DEF q
  <1>3. Onward(p, q, NextRecord(q))
    BY <1>1, NextRecordFacts
  <1> QED BY <1>2, <1>3, GoOnKeeps DEF Onward, Procs

\* What is found for an end is the id of an asset.
LEMMA FoundTyped ==
    ASSUME IInv, NEW p \in Procs, NEW end \in Ends, Post(p).source \in Sources
    PROVE  Found(p, end) \subseteq AssetIds
  <1>1. KeysOf(Post(p), end) \subseteq AssetKeys
    BY SyncAssumption DEF KeysOf, Ends, AssetKeys
  <1>2. \A k \in AssetKeys : IdOf(SeenAssets(p), k) \in AssetIds
    BY SeenTyped DEF IInv, IdOf, AssetIds, AssetRow
  <1> QED BY <1>1, <1>2 DEF Found

LEMMA FindOwnerKeeps ==
    ASSUME IInv, NEW p \in Procs, FindOwner(p)
    PROVE  IInv'
  <1>1. run[p].at = "owner" /\ UNCHANGED <<tables, txn, overlap>>
    BY DEF FindOwner
  <1>2. /\ p \in Syncs /\ run[p] \in RunType /\ run[p].post \in Posts /\ Record(p) \in RecordType
        /\ run[p].pos \in DOMAIN run[p].post.assets
    BY <1>1, AtRecord DEF Post
  <1>3. ASSUME NEW id \in Found(p, Record(p).owner),
               Move(p, [run[p] EXCEPT !.at = "own", !.owner = id])
        PROVE  IInv'
    <2> DEFINE r == [run[p] EXCEPT !.at = "own", !.owner = id]
    <2>1. Record(p).owner # Null
      BY <1>1 DEF IInv, Placed, Record, Post
    <2>2. Record(p).owner \in Ends /\ Post(p).source \in Sources
      BY <1>2, <2>1, SyncAssumption DEF RecordType, Ends, Post, PostType
    <2>3. id \in AssetIds
      BY <2>2, FoundTyped
    <2>4. r \in RunType /\ r.at = "own" /\ r.post = run[p].post /\ r.pos = run[p].pos
          /\ r.owner \in AssetIds
      BY <1>2, <2>3 DEF RunType, Pcs
    <2>5. run' = [run EXCEPT ![p] = r]
      BY <1>3 DEF Move
    <2> HIDE DEF r
    <2>6. Placed(p, r)
      BY <1>2, <2>4 DEF Placed
    <2> QED BY <1>1, <2>4, <2>5, <2>6, GoOnKeeps
  <1>4. ASSUME Move(p, NextRecord(run[p]))
        PROVE  IInv'
    <2>1. run' = [run EXCEPT ![p] = NextRecord(run[p])]
      BY <1>4 DEF Move
    <2>2. Onward(p, run[p], NextRecord(run[p]))
      BY <1>2, NextRecordFacts
    <2> QED BY <1>1, <2>1, <2>2, GoOnKeeps DEF Onward
  <1> QED BY <1>3, <1>4 DEF FindOwner

LEMMA ResolveKeeps ==
    ASSUME IInv, NEW p \in Procs, Resolve(p)
    PROVE  IInv'
  <1> DEFINE end == IF Edge(p).from \in DOMAIN run[p].cache THEN Edge(p).to ELSE Edge(p).from
  <1>1. run[p].at = "edge" /\ UNCHANGED <<tables, txn, overlap>>
    BY DEF Resolve
  <1>2. p \in Syncs /\ run[p] \in RunType /\ Edge(p) \in EdgeType /\ Post(p).source \in Sources
    BY <1>1, AtEdge
  <1>3. end \in Ends
    BY <1>2 DEF EdgeType
  <1>4. PICK id \in IF Found(p, end) = {} THEN {Null} ELSE Found(p, end) :
          run' = [run EXCEPT ![p] = [run[p] EXCEPT !.cache = Over(Single(end, id), @)]]
    BY DEF Resolve, Move
  <1> HIDE DEF end
  <1> DEFINE r == [run[p] EXCEPT !.cache = Over(Single(end, id), @)]
  <1>5. run' = [run EXCEPT ![p] = r]
    BY <1>4
  <1>6. id \in AssetIds \cup {Null}
    BY <1>2, <1>3, FoundTyped
  <1>7. Over(Single(end, id), run[p].cache) \in Partial(Ends, AssetIds \cup {Null})
    <2>1. run[p].cache \in Partial(Ends, AssetIds \cup {Null})
      BY <1>2 DEF RunType
    <2> QED BY <1>3, <1>6, <2>1, SingleFacts, OverFacts
  <1>8. r \in RunType /\ r.at = "edge" /\ r.post = run[p].post /\ r.pos = run[p].pos
    BY <1>1, <1>2, <1>7 DEF RunType
  <1> HIDE DEF r
  <1>9. Placed(p, r)
    BY <1>1, <1>8 DEF IInv, Placed
  <1> QED BY <1>1, <1>5, <1>8, <1>9, GoOnKeeps

LEMMA SkipEdgeKeeps ==
    ASSUME IInv, NEW p \in Procs, SkipEdge(p)
    PROVE  IInv'
  <1>1. run[p].at = "edge" /\ UNCHANGED <<tables, txn, overlap>>
        /\ run' = [run EXCEPT ![p] = NextEdge(run[p])]
    BY DEF SkipEdge, Move
  <1>2. Onward(p, run[p], NextEdge(run[p])) /\ NextEdge(run[p]).at # "asset"
    BY <1>1, AtEdge, NextEdgeFacts DEF Post
  <1> QED BY <1>1, <1>2, GoOnKeeps DEF Onward

LEMMA PickEdgesKeeps ==
    ASSUME IInv, NEW p \in Procs, PickEdges(p)
    PROVE  IInv'
  <1> DEFINE V == {IdOf(SeenEdges(p), k) : k \in StaleEdges(p)}
             r == [run[p] EXCEPT !.at = "prune", !.victims = V]
  <1>1. run[p].at = "pick_edges" /\ UNCHANGED <<tables, txn, overlap>>
        /\ run' = [run EXCEPT ![p] = r]
    BY DEF PickEdges, Move
  <1>2. p \in Syncs /\ run[p] \in RunType /\ run[p].post \in Posts
    BY <1>1, AtPrune
  <1>3. V \subseteq EdgeKeys \X Nat
    BY SeenTyped DEF IInv, StaleEdges, IdOf, EdgeRow
  <1> HIDE DEF V
  <1>4. r \in RunType /\ r.at = "prune" /\ r.post = run[p].post
    BY <1>2, <1>3 DEF RunType, Pcs
  <1> HIDE DEF r
  <1>5. Placed(p, r)
    BY <1>2, <1>4 DEF Placed
  <1> QED BY <1>1, <1>4, <1>5, GoOnKeeps

LEMMA PickStaleKeeps ==
    ASSUME IInv, NEW p \in Procs, PickStale(p)
    PROVE  IInv'
  <1> DEFINE V == {IdOf(SeenAssets(p), k) : k \in StaleAssets(p)}
             r == [run[p] EXCEPT !.at = "sweep", !.victims = V]
             n == NextRound(run[p], run[p].pos + 1)
  <1>1. run[p].at = "pick" /\ UNCHANGED <<tables, txn, overlap>>
        /\ run' \in {[run EXCEPT ![p] = r], [run EXCEPT ![p] = n]}
    BY DEF PickStale, Move
  <1>2. p \in Syncs /\ run[p] \in RunType /\ run[p].post \in Posts
        /\ run[p].pos \in DOMAIN run[p].post.assets
    BY <1>1, AtRecord DEF Post
  <1>3. V \subseteq AssetIds
    BY SeenTyped DEF IInv, StaleAssets, IdOf, AssetRow, AssetIds
  <1> HIDE DEF V
  <1>4. r \in RunType /\ r.at = "sweep" /\ r.post = run[p].post /\ r.pos = run[p].pos
    BY <1>2, <1>3 DEF RunType, Pcs
  <1> HIDE DEF r
  <1>5. Placed(p, r)
    BY <1>2, <1>4 DEF Placed
  <1>6. Onward(p, run[p], n) /\ n.at \in {"pick", "commit"}
    <2>1. run[p].pos + 1 \in Nat \ {0}
      BY <1>2 DEF RunType
    <2> QED BY <1>2, <2>1, NextRoundFacts
  <1> HIDE DEF n
  <1>7. CASE run' = [run EXCEPT ![p] = r]
    BY <1>1, <1>4, <1>5, <1>7, GoOnKeeps
  <1>8. CASE run' = [run EXCEPT ![p] = n]
    BY <1>1, <1>6, <1>8, GoOnKeeps DEF Onward
  <1> QED BY <1>1, <1>7, <1>8

LEMMA OpenDeleteKeeps ==
    ASSUME IInv, NEW p \in Editors, NEW k \in AssetKeys, OpenDelete(p, k)
    PROVE  IInv'
  <1> DEFINE r == [NoRun EXCEPT !.at = "sweep", !.victims = {IdOf(assets, k)}]
  <1>1. run[p].at = "idle" /\ UNCHANGED <<tables, txn, overlap>>
        /\ run' = [run EXCEPT ![p] = r]
    BY DEF OpenDelete, Move
  <1>2. IdOf(assets, k) \in AssetIds
    BY DEF IInv, Typed, IdOf, AssetIds, AssetRow
  <1>3. r \in RunType /\ r.at = "sweep"
    BY <1>2, EmptyFacts DEF NoRun, RunType, Pcs
  <1> HIDE DEF r
  <1>4. p \in Procs /\ Placed(p, r)
    BY <1>3, SyncAssumption DEF Placed, Procs
  <1> QED BY <1>1, <1>3, <1>4, GoOnKeeps

-----------------------------------------------------------------------------
(* The steps that write *)

LEMMA UpsertAssetKeeps ==
    ASSUME IInv, NEW p \in Procs, UpsertAsset(p)
    PROVE  IInv'
  <1> DEFINE k == RecordKey(p)
             row == Upserted(p)
             AR == Single(k, row)
             q == [run[p] EXCEPT !.cache = Over(Single(Record(p).ref, <<k, row.n>>), @)]
             r == IF Record(p).owner = Null THEN NextRecord(q) ELSE [q EXCEPT !.at = "owner"]
  <1>1. /\ Free(p, "asset") /\ run[p].at = "asset" /\ UNCHANGED <<tables, overlap>>
        /\ txn' = [txn EXCEPT ![p] = Written(p, AR, << >>, {})] /\ run' = [run EXCEPT ![p] = r]
    BY DEF UpsertAsset, Free, Move, Write
  <1>2. /\ p \in Syncs /\ run[p] \in RunType /\ run[p].post \in Posts
        /\ Record(p) \in RecordType /\ k \in AssetKeys
        /\ run[p].pos \in DOMAIN run[p].post.assets
    BY <1>1, AtRecord DEF Post
  <1>3. /\ Typed /\ SeenAssets(p) \in [AssetKeys -> AssetRow]
        /\ SeenEdges(p) \in [EdgeKeys -> EdgeRow]
        /\ SoundBut(SeenAssets(p), SeenEdges(p), {}) /\ Fresh(p) /\ Numbered(p)
    BY <1>1, SeenTyped DEF IInv, Locks, View, Gone
  <1>4. /\ row \in AssetRow /\ row.live
        /\ SeenAssets(p)[k].live => row.n = SeenAssets(p)[k].n /\ row.owner = SeenAssets(p)[k].owner
        /\ ~SeenAssets(p)[k].live => row.owner = Null
    BY <1>2, <1>3 DEF Upserted, AssetRow, RecordType
  <1>5. assets[k].live => row.n = assets[k].n
    <2>1. assets[k].live => SeenAssets(p)[k].live
      BY <1>1, <1>2, <1>3 DEF Fresh, SeenAssets
    <2> QED BY <1>2, <1>3, <1>4, <2>1 DEF Numbered
  <1>6. q \in RunType /\ q.at = "asset" /\ q.post = run[p].post /\ q.pos = run[p].pos
    <2>1. run[p].cache \in Partial(Ends, AssetIds \cup {Null})
      BY <1>2 DEF RunType
    <2>2. Record(p).ref \in Ends /\ <<k, row.n>> \in AssetIds \cup {Null}
      BY <1>2, <1>4 DEF RecordType, Ends, AssetRow, AssetIds
    <2> HIDE DEF k, row
    <2>3. Over(Single(Record(p).ref, <<k, row.n>>), run[p].cache) \in Partial(Ends, AssetIds \cup {Null})
      BY <2>1, <2>2, SingleFacts, OverFacts
    <2> QED BY <1>1, <1>2, <2>3 DEF RunType
  <1> HIDE DEF row, q
  <1>7. /\ r \in RunType /\ Placed(p, r) /\ r.at \notin {"idle", "own", "cascade"}
        /\ r.at = "owner" => r.post = run[p].post /\ r.pos = run[p].pos
    <2>1. CASE Record(p).owner = Null
      BY <1>2, <1>6, <2>1, NextRecordFacts DEF Onward
    <2>2. CASE Record(p).owner # Null
      <3> DEFINE o == [q EXCEPT !.at = "owner"]
      <3>1. "owner" \in Pcs
        BY DEF Pcs
      <3>2. o \in RunType /\ o.at = "owner" /\ o.post = run[p].post /\ o.pos = run[p].pos
        BY <1>6, <3>1, GoFacts
      <3>3. r = o
        BY <2>2
      <3> HIDE DEF o
      <3>4. Placed(p, o)
        BY <1>2, <2>2, <3>2 DEF Placed, Record, Post
      <3> QED BY <3>2, <3>3, <3>4
    <2> QED BY <2>1, <2>2
  <1> HIDE DEF r
  <1>8. /\ AR \in Partial(AssetKeys, AssetRow) /\ << >> \in Partial(EdgeKeys, EdgeRow)
        /\ DOMAIN AR = {k} /\ AR[k] = row /\ DOMAIN << >> = {}
    <2>1. AR \in Partial(AssetKeys, AssetRow)
      BY <1>2, <1>4, SingleFacts
    <2>2. << >> \in Partial(EdgeKeys, EdgeRow) /\ DOMAIN << >> = {}
      BY EmptyFacts
    <2>3. DOMAIN AR = {k} /\ AR[k] = row
      BY DEF Single
    <2> QED BY <2>1, <2>2, <2>3
  <1>9. r.at = "owner" => <<r.post.source, r.post.assets[r.pos].ref>> = k
    BY <1>7 DEF RecordKey, Record, Post
  <1> HIDE DEF AR, k
  <1>10. Lawful(p, AR, << >>, {})
    <2>1. AssetWriters(p, k) = {}
      BY <1>1, FreeFacts DEF k
    <2> QED BY <1>4, <1>5, <1>8, <2>1 DEF Lawful
  <1>11. SoundBut(Over(AR, SeenAssets(p)), Over(<< >>, SeenEdges(p)), {})
    <2>1. \A id \in AssetIds : Holds(SeenAssets(p), id) => Holds(Over(AR, SeenAssets(p)), id)
      BY <1>3, <1>4, <1>8, HoldsOver
    <2>2. row.owner # Null => row.owner \in AssetIds /\ Holds(SeenAssets(p), row.owner)
      BY <1>2, <1>3, <1>4 DEF SoundBut, AssetRow
    <2> QED BY <1>3, <1>8, <2>1, <2>2, SoundOver
  <1> QED BY <1>1, <1>4, <1>7, <1>8, <1>9, <1>10, <1>11, WriteKeeps

LEMMA SetOwnerKeeps ==
    ASSUME IInv, NEW p \in Procs, SetOwner(p)
    PROVE  IInv'
  <1> DEFINE k == RecordKey(p)
             row == [SeenAssets(p)[k] EXCEPT !.owner = run[p].owner]
             AR == Single(k, row)
             S == {id[1] : id \in NewOwner(p)}
             r == NextRecord(run[p])
  <1>1. /\ Free(p, "own") /\ run[p].at = "own" /\ UNCHANGED <<tables, overlap>>
        /\ \A id \in NewOwner(p) : Holds(SeenAssets(p), id)
        /\ txn' = [txn EXCEPT ![p] = Written(p, AR, << >>, S)]
        /\ run' = [run EXCEPT ![p] = r]
    BY DEF SetOwner, Free, Move, Write
  <1>2. p \in Syncs /\ run[p] \in RunType /\ run[p].post \in Posts /\ k \in AssetKeys
    BY <1>1, AtRecord DEF Post
  <1>3. /\ Typed /\ SeenAssets(p) \in [AssetKeys -> AssetRow]
        /\ SeenEdges(p) \in [EdgeKeys -> EdgeRow]
        /\ SoundBut(SeenAssets(p), SeenEdges(p), {}) /\ Fresh(p) /\ Numbered(p)
        /\ run[p].owner \in AssetIds
    BY <1>1, SeenTyped DEF IInv, Locks, View, Gone, Placed
  <1>4. k \in DOMAIN txn[p].assets /\ SeenAssets(p)[k].live
    BY <1>1, <1>2, <1>3 DEF Fresh, SeenAssets
  <1>5. /\ row \in AssetRow /\ row.live /\ row.n = SeenAssets(p)[k].n
        /\ row.owner = run[p].owner
    BY <1>2, <1>3, <1>4 DEF AssetRow
  <1>6. S \subseteq AssetKeys
    BY <1>3 DEF NewOwner, AssetIds
  <1>7. run[p].owner \in NewOwner(p) \/ run[p].owner = SeenAssets(p)[k].owner
    BY DEF NewOwner
  <1>8. Onward(p, run[p], r)
    BY <1>2, NextRecordFacts
  <1> HIDE DEF row, r
  <1>9. /\ AR \in Partial(AssetKeys, AssetRow) /\ << >> \in Partial(EdgeKeys, EdgeRow)
        /\ DOMAIN AR = {k} /\ AR[k] = row /\ DOMAIN << >> = {}
    <2>1. AR \in Partial(AssetKeys, AssetRow)
      BY <1>2, <1>5, SingleFacts
    <2>2. << >> \in Partial(EdgeKeys, EdgeRow) /\ DOMAIN << >> = {}
      BY EmptyFacts
    <2>3. DOMAIN AR = {k} /\ AR[k] = row
      BY DEF Single
    <2> QED BY <2>1, <2>2, <2>3
  <1>10. \A id \in NewOwner(p) : Deleters(p, id[1]) = {}
    BY <1>1, FreeFacts
  <1>11. run[p].owner[1] \in S \/ run[p].owner = SeenAssets(p)[k].owner
    BY <1>7
  <1>12. \A x \in S : Deleters(p, x) = {}
    BY <1>10
  <1> HIDE DEF AR, k, S
  <1>13. Lawful(p, AR, << >>, S)
    BY <1>2, <1>3, <1>4, <1>5, <1>9, <1>11, <1>12 DEF Lawful, Numbered
  <1>14. SoundBut(Over(AR, SeenAssets(p)), Over(<< >>, SeenEdges(p)), {})
    <2>1. \A id \in AssetIds : Holds(SeenAssets(p), id) => Holds(Over(AR, SeenAssets(p)), id)
      BY <1>3, <1>4, <1>5, <1>9, HoldsOver
    <2>2. row.owner # Null => row.owner \in AssetIds /\ Holds(SeenAssets(p), row.owner)
      BY <1>1, <1>2, <1>3, <1>4, <1>5, <1>7 DEF SoundBut
    <2> QED BY <1>3, <1>9, <2>1, <2>2, SoundOver
  <1> QED BY <1>1, <1>5, <1>6, <1>8, <1>9, <1>13, <1>14, WriteKeeps DEF Onward

LEMMA UpsertEdgeKeeps ==
    ASSUME IInv, NEW p \in Procs, UpsertEdge(p)
    PROVE  IInv'
  <1> DEFINE k == EdgeKey(p)
             old == SeenEdges(p)[k]
             f == EndId(p, Edge(p).from)
             t == EndId(p, Edge(p).to)
             row == [live |-> TRUE, n |-> IF old.live THEN old.n ELSE old.n + 1,
                     from |-> f, to |-> t]
             ER == Single(k, row)
             S == {id[1] : id \in NewEnds(p)}
             q == [run[p] EXCEPT !.seen = @ \cup {Edge(p).ref}]
             r == NextEdge(q)
  <1>1. /\ Free(p, "edge") /\ run[p].at = "edge" /\ UNCHANGED <<tables, overlap>> /\ Linkable(p)
        /\ \A id \in NewEnds(p) : Holds(SeenAssets(p), id)
        /\ txn' = [txn EXCEPT ![p] = Written(p, << >>, ER, S)]
        /\ run' = [run EXCEPT ![p] = r]
    BY DEF UpsertEdge, Free, Move, Write
  <1>2. /\ p \in Syncs /\ run[p] \in RunType /\ run[p].post \in Posts
        /\ Edge(p) \in EdgeType /\ k \in EdgeKeys
    BY <1>1, AtEdge DEF Post
  <1>3. /\ Typed /\ SeenAssets(p) \in [AssetKeys -> AssetRow]
        /\ SeenEdges(p) \in [EdgeKeys -> EdgeRow] /\ old \in EdgeRow
        /\ SoundBut(SeenAssets(p), SeenEdges(p), {})
    BY <1>1, <1>2, SeenTyped DEF IInv, View, Gone
  <1>4. f \in AssetIds /\ t \in AssetIds
    <2>1. run[p].cache \in Partial(Ends, AssetIds \cup {Null})
      BY <1>2 DEF RunType
    <2>2. \A x \in DOMAIN run[p].cache : run[p].cache[x] \in AssetIds \cup {Null}
      BY <2>1, PartialFacts
    <2> QED BY <1>1, <2>2 DEF Linkable, Resolved, EndId
  <1>5. NewEnds(p) = IF old.live THEN {f, t} \ {old.from, old.to} ELSE {f, t}
    BY DEF NewEnds
  <1> HIDE DEF f, t, old
  <1>6. row \in EdgeRow
    BY <1>3, <1>4 DEF EdgeRow
  <1>7. S \subseteq AssetKeys
    BY <1>4, <1>5 DEF AssetIds
  <1>8. q \in RunType /\ q.post = run[p].post
    BY <1>2 DEF RunType, EdgeType
  <1> HIDE DEF q
  <1>9. Onward(p, run[p], r) /\ r.at # "asset"
    BY <1>2, <1>8, NextEdgeFacts DEF Onward
  <1> HIDE DEF r
  <1>10. row.live /\ row.from = f /\ row.to = t
    OBVIOUS
  <1> HIDE DEF row
  <1>11. /\ ER \in Partial(EdgeKeys, EdgeRow) /\ << >> \in Partial(AssetKeys, AssetRow)
         /\ DOMAIN ER = {k} /\ ER[k] = row /\ DOMAIN << >> = {}
    <2>1. ER \in Partial(EdgeKeys, EdgeRow)
      BY <1>2, <1>6, SingleFacts
    <2>2. << >> \in Partial(AssetKeys, AssetRow) /\ DOMAIN << >> = {}
      BY EmptyFacts
    <2>3. DOMAIN ER = {k} /\ ER[k] = row
      BY DEF Single
    <2> QED BY <2>1, <2>2, <2>3
  <1>12. EdgeWriters(p, k) = {} /\ \A x \in S : Deleters(p, x) = {}
    BY <1>1, FreeFacts
  <1>13. \A id \in {f, t} : id[1] \in S \/ (old.live /\ id \in {old.from, old.to})
    BY <1>5
  <1> HIDE DEF ER, S
  <1>14. Lawful(p, << >>, ER, S)
    BY <1>10, <1>11, <1>12, <1>13 DEF Lawful, old
  <1>15. SoundBut(Over(<< >>, SeenAssets(p)), Over(ER, SeenEdges(p)), {})
    <2>1. \A id \in AssetIds : Holds(SeenAssets(p), id) => Holds(Over(<< >>, SeenAssets(p)), id)
      BY <1>3, <1>11, HoldsOver
    <2>2. \A id \in {f, t} : id \in AssetIds /\ Holds(SeenAssets(p), id)
      BY <1>1, <1>2, <1>3, <1>4, <1>5 DEF SoundBut, old
    <2> QED BY <1>3, <1>10, <1>11, <2>1, <2>2, SoundOver
  <1> HIDE DEF k
  <1> QED BY <1>1, <1>7, <1>9, <1>11, <1>14, <1>15, WriteKeeps DEF Onward

\* Rows marked as gone.
LEMMA EdgesRemoved ==
    ASSUME NEW rows \in [EdgeKeys -> EdgeRow], NEW V \in SUBSET EdgeKeys
    PROVE  /\ Removed(rows, V) \in Partial(EdgeKeys, EdgeRow) /\ DOMAIN Removed(rows, V) = V
           /\ \A k \in V : Removed(rows, V)[k].live = FALSE
  <1>1. \A row \in EdgeRow : /\ [row EXCEPT !.live = FALSE] \in EdgeRow
                             /\ [row EXCEPT !.live = FALSE].live = FALSE
    BY DEF EdgeRow
  <1>2. Removed(rows, V) \in [V -> EdgeRow]
    BY <1>1 DEF Removed
  <1> QED BY <1>1, <1>2, PartialIntro DEF Removed

LEMMA AssetsRemoved ==
    ASSUME NEW rows \in [AssetKeys -> AssetRow], NEW V \in SUBSET AssetKeys
    PROVE  /\ Removed(rows, V) \in Partial(AssetKeys, AssetRow) /\ DOMAIN Removed(rows, V) = V
           /\ \A k \in V : Removed(rows, V)[k].live = FALSE
  <1>1. \A row \in AssetRow : /\ [row EXCEPT !.live = FALSE] \in AssetRow
                              /\ [row EXCEPT !.live = FALSE].live = FALSE
    BY DEF AssetRow
  <1>2. Removed(rows, V) \in [V -> AssetRow]
    BY <1>1 DEF Removed
  <1> QED BY <1>1, <1>2, PartialIntro DEF Removed

LEMMA PruneEdgesKeeps ==
    ASSUME IInv, NEW p \in Procs, PruneEdges(p)
    PROVE  IInv'
  <1> DEFINE V == VictimEdges(p)
             ER == Removed(SeenEdges(p), V)
             r == NextRound(run[p], 1)
  <1>1. /\ Free(p, "prune") /\ run[p].at = "prune" /\ UNCHANGED <<tables, overlap>>
        /\ txn' = [txn EXCEPT ![p] = Written(p, << >>, ER, {})]
        /\ run' = [run EXCEPT ![p] = r]
    BY DEF PruneEdges, Free, Move, Write
  <1>2. Onward(p, run[p], r) /\ r.at \in {"pick", "commit"}
    BY <1>1, AtPrune, NextRoundFacts
  <1>3. /\ SeenAssets(p) \in [AssetKeys -> AssetRow] /\ SeenEdges(p) \in [EdgeKeys -> EdgeRow]
        /\ SoundBut(SeenAssets(p), SeenEdges(p), {})
    BY <1>1, SeenTyped DEF IInv, View, Gone
  <1>4. V \in SUBSET EdgeKeys
    BY DEF VictimEdges
  <1>5. \A k \in V : EdgeWriters(p, k) = {}
    BY <1>1, FreeFacts
  <1> HIDE DEF V, r
  <1>6. /\ ER \in Partial(EdgeKeys, EdgeRow) /\ DOMAIN ER = V /\ \A k \in V : ER[k].live = FALSE
    BY <1>3, <1>4, EdgesRemoved
  <1>7. << >> \in Partial(AssetKeys, AssetRow) /\ DOMAIN << >> = {}
    BY EmptyFacts
  <1> HIDE DEF ER
  <1>8. Lawful(p, << >>, ER, {})
    BY <1>5, <1>6, <1>7 DEF Lawful
  <1>9. SoundBut(Over(<< >>, SeenAssets(p)), Over(ER, SeenEdges(p)), {})
    <2>1. \A id \in AssetIds : Holds(SeenAssets(p), id) => Holds(Over(<< >>, SeenAssets(p)), id)
      BY <1>3, <1>7, HoldsOver
    <2> QED BY <1>3, <1>6, <1>7, <2>1, SoundOver
  <1> QED BY <1>1, <1>2, <1>6, <1>7, <1>8, <1>9, WriteKeeps DEF Onward

LEMMA ArchiveKeeps ==
    ASSUME IInv, NEW p \in Procs, Archive(p)
    PROVE  IInv'
  <1> DEFINE V == Swept(p)
             AR == [k \in V |-> [SeenAssets(p)[k] EXCEPT !.status = "archived"]]
             r == NextRound(run[p], run[p].pos + 1)
  <1>1. /\ Free(p, "sweep") /\ run[p].at = "sweep" /\ UNCHANGED <<tables, overlap>> /\ p \in Syncs
        /\ txn' = [txn EXCEPT ![p] = Written(p, AR, << >>, {})]
        /\ run' = [run EXCEPT ![p] = r]
    BY DEF Archive, Archives, Free, Move, Write
  <1>2. Onward(p, run[p], r) /\ r.at \in {"pick", "commit"}
    BY <1>1, AtSweep, NextRoundFacts
  <1>3. /\ SeenAssets(p) \in [AssetKeys -> AssetRow] /\ SeenEdges(p) \in [EdgeKeys -> EdgeRow]
        /\ SoundBut(SeenAssets(p), SeenEdges(p), {}) /\ Numbered(p)
    BY <1>1, SeenTyped DEF IInv, Locks, View, Gone
  <1>4. V \in SUBSET AssetKeys /\ \A k \in V : SeenAssets(p)[k].live
    BY DEF Swept, VictimAssets
  <1>5. \A k \in V : AssetWriters(p, k) = {}
    BY <1>1, FreeFacts
  <1> HIDE DEF V, r
  <1>6. \A k \in V : /\ AR[k] \in AssetRow /\ AR[k].live /\ AR[k].n = SeenAssets(p)[k].n
                     /\ AR[k].owner = SeenAssets(p)[k].owner
    BY <1>3, <1>4 DEF AssetRow
  <1>7. AR \in Partial(AssetKeys, AssetRow) /\ DOMAIN AR = V
    <2>1. AR \in [V -> AssetRow]
      BY <1>6
    <2> QED BY <1>4, <2>1, PartialIntro
  <1>8. << >> \in Partial(EdgeKeys, EdgeRow) /\ DOMAIN << >> = {}
    BY EmptyFacts
  <1> HIDE DEF AR
  <1>9. Lawful(p, AR, << >>, {})
    BY <1>3, <1>4, <1>5, <1>6, <1>7, <1>8 DEF Lawful, Numbered
  <1>10. SoundBut(Over(AR, SeenAssets(p)), Over(<< >>, SeenEdges(p)), {})
    <2>1. \A id \in AssetIds : Holds(SeenAssets(p), id) => Holds(Over(AR, SeenAssets(p)), id)
      BY <1>3, <1>6, <1>7, HoldsOver
    <2>2. \A k \in V : AR[k].owner # Null =>
            AR[k].owner \in AssetIds /\ Holds(SeenAssets(p), AR[k].owner)
      BY <1>3, <1>4, <1>6 DEF SoundBut, AssetRow
    <2> QED BY <1>3, <1>7, <1>8, <2>1, <2>2, SoundOver
  <1> QED BY <1>1, <1>2, <1>7, <1>8, <1>9, <1>10, WriteKeeps DEF Onward

LEMMA DeleteKeeps ==
    ASSUME IInv, NEW p \in Procs, Delete(p)
    PROVE  IInv'
  <1> DEFINE V == Swept(p)
             AR == Removed(SeenAssets(p), V)
             r == [run[p] EXCEPT !.at = "cascade"]
  <1>1. /\ Free(p, "sweep") /\ run[p].at = "sweep" /\ UNCHANGED <<tables, overlap>> /\ ~Archives(p)
        /\ txn' = [txn EXCEPT ![p] = Written(p, AR, << >>, {})]
        /\ run' = [run EXCEPT ![p] = r]
    BY DEF Delete, Free, Move, Write
  <1>2. /\ run[p] \in RunType /\ Placed(p, run[p]) /\ "cascade" \in Pcs
        /\ SeenAssets(p) \in [AssetKeys -> AssetRow] /\ SeenEdges(p) \in [EdgeKeys -> EdgeRow]
        /\ SoundBut(SeenAssets(p), SeenEdges(p), {})
    BY <1>1, AtSweep, SeenTyped DEF IInv, View, Gone, Pcs
  <1>3. /\ r \in RunType /\ r.at = "cascade" /\ r.post = run[p].post /\ r.pos = run[p].pos
        /\ r.victims = run[p].victims
    BY <1>2, GoFacts
  <1> HIDE DEF r
  <1>4. Placed(p, r)
    BY <1>1, <1>2, <1>3 DEF Placed
  <1>5. V \in SUBSET AssetKeys /\ \A k \in V : IdOf(SeenAssets(p), k) \in run[p].victims
    BY DEF Swept, VictimAssets
  <1>6. \A k \in V : AssetWriters(p, k) = {} /\ Sharers(p, k) = {}
    BY <1>1, FreeFacts
  <1> HIDE DEF V
  <1>7. AR \in Partial(AssetKeys, AssetRow) /\ DOMAIN AR = V /\ \A k \in V : AR[k].live = FALSE
    BY <1>2, <1>5, AssetsRemoved
  <1>8. << >> \in Partial(EdgeKeys, EdgeRow) /\ DOMAIN << >> = {}
    BY EmptyFacts
  <1> HIDE DEF AR
  <1>9. Lawful(p, AR, << >>, {})
    BY <1>6, <1>7, <1>8 DEF Lawful
  <1>10. SoundBut(Over(AR, SeenAssets(p)), Over(<< >>, SeenEdges(p)), r.victims)
    <2>1. ASSUME NEW id \in AssetIds, Holds(SeenAssets(p), id)
          PROVE  Holds(Over(AR, SeenAssets(p)), id) \/ id \in run[p].victims
      <3>1. id[1] \in AssetKeys /\ id = <<id[1], id[2]>>
        BY DEF AssetIds
      <3>2. Over(AR, SeenAssets(p))[id[1]]
              = IF id[1] \in V THEN AR[id[1]] ELSE SeenAssets(p)[id[1]]
        BY <1>2, <1>7, <3>1 DEF Over
      <3>3. CASE id[1] \in V
        <4>1. IdOf(SeenAssets(p), id[1]) = id
          BY <2>1, <3>1 DEF IdOf, Holds
        <4> QED BY <1>5, <3>3, <4>1
      <3>4. CASE id[1] \notin V
        BY <2>1, <3>2, <3>4 DEF Holds
      <3> QED BY <3>3, <3>4
    <2> QED BY <1>2, <1>3, <1>7, <1>8, <2>1, SoundOver
  <1>11. r.at # "idle" /\ r.at \notin {"asset", "owner", "own"}
         /\ r.victims = IF r.at = "cascade" THEN r.victims ELSE {}
    BY <1>3
  <1> QED BY <1>1, <1>3, <1>4, <1>7, <1>8, <1>9, <1>10, <1>11, WriteKeeps

LEMMA CascadeKeeps ==
    ASSUME IInv, NEW p \in Procs, Cascade(p)
    PROVE  IInv'
  <1> DEFINE V == Owned(p)
             E == Orphans(p)
             AR == [k \in V |-> [SeenAssets(p)[k] EXCEPT !.owner = Null]]
             ER == Removed(SeenEdges(p), E)
             r == IF p \in Syncs THEN NextRound(run[p], run[p].pos + 1)
                  ELSE [run[p] EXCEPT !.at = "commit"]
  <1>1. /\ Free(p, "cascade") /\ run[p].at = "cascade" /\ UNCHANGED <<tables, overlap>>
        /\ txn' = [txn EXCEPT ![p] = Written(p, AR, ER, {})]
        /\ run' = [run EXCEPT ![p] = r]
    BY DEF Cascade, Free, Move, Write
  <1>2. r \in RunType /\ Placed(p, r) /\ r.at \in {"pick", "commit"}
    <2>1. CASE p \in Syncs
      <3>1. run[p] \in RunType /\ run[p].post \in Posts /\ run[p].pos + 1 \in Nat \ {0}
        BY <1>1, <2>1, AtSweep
      <3> QED BY <2>1, <3>1, NextRoundFacts DEF Onward
    <2>2. CASE p \notin Syncs
      <3>1. run[p] \in RunType /\ "commit" \in Pcs
        BY DEF IInv, Typed, Pcs
      <3> QED BY <2>2, <3>1, GoFacts DEF Placed
    <2> QED BY <2>1, <2>2
  <1> HIDE DEF r
  <1>3. /\ SeenAssets(p) \in [AssetKeys -> AssetRow] /\ SeenEdges(p) \in [EdgeKeys -> EdgeRow]
        /\ SoundBut(SeenAssets(p), SeenEdges(p), run[p].victims) /\ Numbered(p)
    BY <1>1, SeenTyped DEF IInv, Locks, View, Gone
  <1>4. /\ V \in SUBSET AssetKeys /\ E \in SUBSET EdgeKeys
        /\ \A k \in AssetKeys \ V :
             SeenAssets(p)[k].live => SeenAssets(p)[k].owner \notin run[p].victims
        /\ \A k \in EdgeKeys \ E : SeenEdges(p)[k].live =>
             SeenEdges(p)[k].from \notin run[p].victims /\ SeenEdges(p)[k].to \notin run[p].victims
        /\ \A k \in V : SeenAssets(p)[k].live
    BY DEF Owned, Orphans
  <1>5. /\ \A k \in V : AssetWriters(p, k) = {}
        /\ \A k \in E : EdgeWriters(p, k) = {}
    BY <1>1, FreeFacts
  <1> HIDE DEF V, E
  <1>6. \A k \in V : /\ AR[k] \in AssetRow /\ AR[k].live /\ AR[k].n = SeenAssets(p)[k].n
                     /\ AR[k].owner = Null
    BY <1>3, <1>4 DEF AssetRow
  <1>7. AR \in Partial(AssetKeys, AssetRow) /\ DOMAIN AR = V
    <2>1. AR \in [V -> AssetRow]
      BY <1>6
    <2> QED BY <1>4, <2>1, PartialIntro
  <1>8. ER \in Partial(EdgeKeys, EdgeRow) /\ DOMAIN ER = E /\ \A k \in E : ER[k].live = FALSE
    <2>1. SeenEdges(p) \in [EdgeKeys -> EdgeRow] /\ E \in SUBSET EdgeKeys
      BY <1>3, <1>4
    <2> QED BY <2>1, EdgesRemoved
  <1> HIDE DEF AR, ER
  <1>9. Lawful(p, AR, ER, {})
    BY <1>3, <1>4, <1>5, <1>6, <1>7, <1>8 DEF Lawful, Numbered
  <1>10. SoundBut(Over(AR, SeenAssets(p)), Over(ER, SeenEdges(p)), {})
    <2>1. \A id \in AssetIds : Holds(SeenAssets(p), id) => Holds(Over(AR, SeenAssets(p)), id)
      BY <1>3, <1>6, <1>7, HoldsOver
    <2>2. ASSUME NEW k \in EdgeKeys, Over(ER, SeenEdges(p))[k].live,
                 NEW id \in {Over(ER, SeenEdges(p))[k].from, Over(ER, SeenEdges(p))[k].to}
          PROVE  id \in AssetIds /\ Holds(Over(AR, SeenAssets(p)), id)
      <3>1. Over(ER, SeenEdges(p))[k] = IF k \in E THEN ER[k] ELSE SeenEdges(p)[k]
        BY <1>3, <1>8 DEF Over
      <3>2. k \notin E /\ SeenEdges(p)[k].live /\ id \in {SeenEdges(p)[k].from, SeenEdges(p)[k].to}
        BY <1>8, <2>2, <3>1
      <3>3. id \in AssetIds /\ Holds(SeenAssets(p), id)
        BY <1>3, <1>4, <3>2 DEF SoundBut
      <3> QED BY <2>1, <3>3
    <2>3. ASSUME NEW k \in AssetKeys, Over(AR, SeenAssets(p))[k].live,
                 Over(AR, SeenAssets(p))[k].owner # Null
          PROVE  Holds(Over(AR, SeenAssets(p)), Over(AR, SeenAssets(p))[k].owner)
      <3>1. Over(AR, SeenAssets(p))[k] = IF k \in V THEN AR[k] ELSE SeenAssets(p)[k]
        BY <1>3, <1>7 DEF Over
      <3>2. k \notin V
        BY <1>6, <2>3, <3>1
      <3>3. SeenAssets(p)[k].owner \in AssetIds /\ Holds(SeenAssets(p), SeenAssets(p)[k].owner)
        BY <1>3, <1>4, <2>3, <3>1, <3>2 DEF SoundBut, AssetRow
      <3> QED BY <2>1, <3>1, <3>2, <3>3
    <2> QED BY <2>2, <2>3 DEF SoundBut
  <1>11. r.at # "idle" /\ r.at \notin {"asset", "owner", "own"} /\ r.at # "cascade"
    BY <1>2
  <1>12. SoundBut(Over(AR, SeenAssets(p)), Over(ER, SeenEdges(p)),
                  IF r.at = "cascade" THEN r.victims ELSE {})
    BY <1>10, <1>11
  <1>13. AR \in Partial(AssetKeys, AssetRow) /\ ER \in Partial(EdgeKeys, EdgeRow)
         /\ {} \in SUBSET AssetKeys
    BY <1>7, <1>8
  <1> QED BY <1>1, <1>2, <1>9, <1>11, <1>12, <1>13, WriteKeeps

-----------------------------------------------------------------------------
(* The theorem *)

LEMMA InitIInv == Init => IInv
  <1> SUFFICES ASSUME Init PROVE IInv
    OBVIOUS
  <1>1. NoRun \in RunType /\ \A p : Placed(p, NoRun)
    BY EmptyFacts DEF NoRun, RunType, Pcs, Placed
  <1>2. Typed
    BY <1>1, NoTxnTyped, SyncAssumption DEF Init, Typed
  <1>3. \A p \in Procs : /\ run[p].at = "idle" /\ run[p] = NoRun /\ txn[p] = NoTxn
                         /\ DOMAIN txn[p].assets = {} /\ DOMAIN txn[p].edges = {}
                         /\ txn[p].shares = {}
    BY EmptyFacts DEF Init, NoRun, NoTxn
  <1>4. \A p \in Procs : SeenAssets(p) = assets /\ SeenEdges(p) = edges
    BY <1>2, <1>3 DEF SeenAssets, SeenEdges, Typed
  <1>5. SoundBut(assets, edges, {})
    <2>1. Sound(assets, edges)
      BY SyncAssumption DEF Init
    <2> QED BY <1>2, <2>1 DEF Sound, SoundBut, Typed, EdgeRow
  <1>6. Locks
    BY <1>3, <1>4 DEF Locks, Exclusive, Shared, Backed, Numbered
  <1>7. \A p \in Procs : Placed(p, run[p]) /\ Fresh(p) /\ View(p)
    BY <1>1, <1>3, <1>4, <1>5 DEF Fresh, View, Gone
  <1> QED BY <1>2, <1>5, <1>6, <1>7 DEF IInv

LEMMA RollBacksKeep ==
    ASSUME IInv, NEW p \in Procs,
           OwnerGone(p) \/ EndGone(p) \/ DryRun(p) \/ BreakDeadlock(p) \/ Crash(p)
    PROVE  IInv'
  <1>1. \E at \in {"done", "failed"} : RollBack(p, at)
    BY DEF OwnerGone, EndGone, DryRun, BreakDeadlock, Crash
  <1> QED BY <1>1, RollBackKeeps

LEMMA NextKeeps == IInv /\ [Next]_vars => IInv'
  <1> SUFFICES ASSUME IInv, [Next]_vars PROVE IInv'
    OBVIOUS
  <1>1. CASE UNCHANGED vars
    <2>1. assets' = assets /\ edges' = edges /\ txn' = txn /\ run' = run /\ overlap' = overlap
      BY <1>1 DEF vars
    <2>2. \A p \in Procs : SeenAssets(p)' = SeenAssets(p) /\ SeenEdges(p)' = SeenEdges(p)
                           /\ Gone(p)' = Gone(p)
      BY <2>1 DEF SeenAssets, SeenEdges, Gone
    <2>3. Typed' /\ Locks'
      BY <2>1, <2>2 DEF IInv, Typed, Locks, Exclusive, Shared, Backed, Numbered
    <2>4. SoundBut(assets, edges, {})' /\ \A p \in Procs : View(p)'
      BY <2>1, <2>2 DEF IInv, SoundBut, View
    <2>5. \A p \in Procs : Placed(p, run'[p]) /\ Fresh(p)'
      BY <2>1 DEF IInv, Fresh, RecordKey, Record, Post
    <2> QED BY <2>3, <2>4, <2>5, <2>1 DEF IInv
  <1>2. ASSUME NEW p \in Syncs, NEW post \in Posts, Begin(p, post) PROVE IInv'
    BY <1>2, BeginKeeps
  <1>3. ASSUME NEW p \in Editors, NEW k \in AssetKeys, OpenDelete(p, k) PROVE IInv'
    BY <1>3, OpenDeleteKeeps
  <1>4. ASSUME NEW p \in Procs, Step(p) \/ Crash(p) PROVE IInv'
    BY <1>4, UpsertAssetKeeps, FindOwnerKeeps, SetOwnerKeeps, ResolveKeeps, SkipEdgeKeeps,
       UpsertEdgeKeeps, PickEdgesKeeps, PruneEdgesKeeps, PickStaleKeeps, ArchiveKeeps, DeleteKeeps,
       CascadeKeeps, CommitKeeps, RollBacksKeep DEF Step
  <1> QED BY <1>1, <1>2, <1>3, <1>4 DEF Next

LEMMA IInvSound == IInv => IdsHold
  <1> SUFFICES ASSUME IInv PROVE IdsHold
    OBVIOUS
  <1>1. Typed /\ SoundBut(assets, edges, {}) /\ \A p \in Procs : Placed(p, run[p])
    BY DEF IInv
  <1>2. Sound(assets, edges)
    <2>1. Null \notin AssetIds
      BY SyncAssumption
    <2> QED BY <1>1, <2>1 DEF SoundBut, Sound
  <1>3. ASSUME NEW p \in Procs
        PROVE  /\ DOMAIN txn[p] = {"assets", "edges", "shares"}
               /\ PartOf(txn[p].assets, AssetKeys, AssetRow)
               /\ PartOf(txn[p].edges, EdgeKeys, EdgeRow)
               /\ txn[p].shares \subseteq AssetKeys
               /\ run[p].at \in Pcs /\ run[p].post \in Posts \cup {Null} /\ run[p].pos \in Nat
               /\ PartOf(run[p].cache, Ends, AssetIds \cup {Null})
               /\ run[p].owner \in AssetIds \cup {Null}
               /\ run[p].seen \subseteq EdgeRefs
               /\ run[p].victims \subseteq AssetIds \cup (EdgeKeys \X Nat)
               /\ run[p].at \notin {"idle", "done", "failed"} /\ p \in Syncs => run[p].post # Null
    <2>1. txn[p] \in TxnType /\ run[p] \in RunType
      BY <1>1 DEF Typed
    <2>2. PartOf(txn[p].assets, AssetKeys, AssetRow) /\ PartOf(txn[p].edges, EdgeKeys, EdgeRow)
          /\ PartOf(run[p].cache, Ends, AssetIds \cup {Null})
      BY <2>1, PartialFacts DEF TxnType, RunType, PartOf
    <2>3. run[p].at \notin {"idle", "done", "failed"} /\ p \in Syncs => run[p].post # Null
      BY <1>1, SyncAssumption DEF Placed
    <2> QED BY <2>1, <2>2, <2>3 DEF TxnType, RunType
  <1>4. TypeOK
    BY <1>1, <1>3 DEF TypeOK, Typed
  <1> QED BY <1>2, <1>4 DEF IdsHold

\* A synchronisation looks ids up in one statement and writes them in a later one
\* (_resolve_ref and upsert_external_edge, _apply_local_fields): whatever is deleted
\* between them, no committed edge or owner names an asset that is not there.
THEOREM IdsNeverDangle == Spec => []IdsHold
  <1>1. Init => IInv
    BY InitIInv
  <1>2. IInv /\ [Next]_vars => IInv'
    BY NextKeeps
  <1>3. IInv => IdsHold
    BY IInvSound
  <1> QED BY <1>1, <1>2, <1>3, PTL DEF Spec

-----------------------------------------------------------------------------
(* The rows of a synchronisation's own source *)

\* The steps before the assets are reconciled, which touch no other source's rows.
Early == {"asset", "owner", "own", "edge", "pick_edges", "prune"}

\* A row of another source or of a person is, for p, as it is in the tables, but
\* for an owner that p has deleted, or an edge one of whose ends p has deleted.
OwnsRow(p, k) ==
    \/ SeenAssets(p)[k] = assets[k]
    \/ /\ run[p].at \notin Early
       /\ assets[k].live /\ assets[k].owner # Null
       /\ SeenAssets(p)[k] = [assets[k] EXCEPT !.owner = Null]
       /\ ~Holds(SeenAssets(p), assets[k].owner)
OwnsEdge(p, k) ==
    \/ SeenEdges(p)[k] = edges[k]
    \/ /\ run[p].at \notin Early
       /\ edges[k].live
       /\ SeenEdges(p)[k] = [edges[k] EXCEPT !.live = FALSE]
       /\ ~(Holds(SeenAssets(p), edges[k].from) /\ Holds(SeenAssets(p), edges[k].to))
Owns(p) ==
    /\ \A k \in AssetKeys : k[1] # Post(p).source => OwnsRow(p, k)
    /\ \A k \in EdgeKeys : k[1] # Post(p).source => OwnsEdge(p, k)

\* The number of a row never falls, and grows when the row comes back.
Aged(p) ==
    \A k \in AssetKeys :
        /\ SeenAssets(p)[k].n >= assets[k].n
        /\ SeenAssets(p)[k].live /\ ~assets[k].live => SeenAssets(p)[k].n > assets[k].n

\* Victims are rows of p's source, and one that is not there is not coming back.
Chosen(p) ==
    /\ run[p].at \in {"prune", "sweep", "cascade"} =>
         \A id \in run[p].victims : id[1][1] = Post(p).source
    /\ run[p].at \in {"sweep", "cascade"} =>
         \A id \in run[p].victims :
             id \in AssetIds /\ (id[1] \notin DOMAIN txn[p].assets => id[2] <= assets[id[1]].n)
    /\ run[p].at = "cascade" => \A id \in run[p].victims : ~Holds(SeenAssets(p), id)

OwnInv == \A p \in Procs : Aged(p) /\ (p \in Syncs => Owns(p) /\ Chosen(p))

\* A step of p within its transaction leaves the others' views as they were.
LEMMA OwnInside ==
    ASSUME OwnInv, NEW p \in Procs, assets' = assets, edges' = edges,
           \A q \in Procs \ {p} : txn'[q] = txn[q] /\ run'[q] = run[q],
           Aged(p)', p \in Syncs => Owns(p)' /\ Chosen(p)'
    PROVE  OwnInv'
  <1>1. ASSUME NEW q \in Procs \ {p}
        PROVE  Aged(q)' /\ (q \in Syncs => Owns(q)' /\ Chosen(q)')
    <2>1. txn'[q] = txn[q] /\ run'[q] = run[q]
      OBVIOUS
    <2>2. SeenAssets(q)' = SeenAssets(q) /\ SeenEdges(q)' = SeenEdges(q)
      BY <2>1 DEF SeenAssets, SeenEdges
    <2>3. Aged(q) /\ (q \in Syncs => Owns(q) /\ Chosen(q))
      BY DEF OwnInv
    <2>4. Aged(q)'
      BY <2>2, <2>3 DEF Aged
    <2>5. Owns(q) => Owns(q)'
      <3>1. \A k \in AssetKeys : OwnsRow(q, k) => OwnsRow(q, k)'
        BY <2>1, <2>2 DEF OwnsRow, Holds
      <3>2. \A k \in EdgeKeys : OwnsEdge(q, k) => OwnsEdge(q, k)'
        BY <2>1, <2>2 DEF OwnsEdge, Holds
      <3>3. Post(q)' = Post(q)
        BY <2>1 DEF Post
      <3> QED BY <3>1, <3>2, <3>3 DEF Owns
    <2>6. Chosen(q) => Chosen(q)'
      BY <2>1, <2>2 DEF Chosen, Post, Holds
    <2> QED BY <2>3, <2>4, <2>5, <2>6
  <1> QED BY <1>1 DEF OwnInv

\* A step that writes nothing.
LEMMA OwnMove ==
    ASSUME IInv, OwnInv, NEW p \in Procs, NEW r,
           run' = [run EXCEPT ![p] = r], UNCHANGED <<tables, txn, overlap>>,
           r.post = run[p].post \/ txn[p] = NoTxn,
           r.at \in Early => run[p].at \in Early \/ txn[p] = NoTxn,
           p \in Syncs => Chosen(p)'
    PROVE  OwnInv'
  <1>1. /\ assets' = assets /\ edges' = edges /\ txn' = txn /\ run'[p] = r
        /\ \A q \in Procs \ {p} : txn'[q] = txn[q] /\ run'[q] = run[q]
    BY DEF tables, IInv, Typed
  <1>2. SeenAssets(p)' = SeenAssets(p) /\ SeenEdges(p)' = SeenEdges(p)
    BY <1>1 DEF SeenAssets, SeenEdges
  <1>3. Aged(p)'
    BY <1>1, <1>2 DEF OwnInv, Aged
  <1>4. txn[p] = NoTxn => SeenAssets(p) = assets /\ SeenEdges(p) = edges
    BY EmptyFacts DEF NoTxn, SeenAssets, SeenEdges, IInv, Typed
  <1>5. ASSUME p \in Syncs PROVE Owns(p)'
    <2>1. CASE txn[p] = NoTxn
      BY <1>1, <1>2, <1>4, <2>1 DEF Owns, OwnsRow, OwnsEdge
    <2>2. CASE txn[p] # NoTxn
      <3>1. Post(p)' = Post(p) /\ (run'[p].at \in Early => run[p].at \in Early) /\ Owns(p)
        BY <1>1, <1>5, <2>2 DEF Post, OwnInv
      <3> QED BY <1>1, <1>2, <3>1 DEF Owns, OwnsRow, OwnsEdge, Holds
    <2> QED BY <2>1, <2>2
  <1> QED BY <1>1, <1>3, <1>5, OwnInside

\* What p sees after a statement.
Sees(p, r, AR, ER) ==
    /\ assets' = assets /\ edges' = edges /\ run'[p] = r
    /\ \A q \in Procs \ {p} : txn'[q] = txn[q] /\ run'[q] = run[q]
    /\ DOMAIN txn'[p].assets = DOMAIN AR \cup DOMAIN txn[p].assets
    /\ \A k \in AssetKeys :
         SeenAssets(p)'[k] = IF k \in DOMAIN AR THEN AR[k] ELSE SeenAssets(p)[k]
    /\ \A k \in EdgeKeys :
         SeenEdges(p)'[k] = IF k \in DOMAIN ER THEN ER[k] ELSE SeenEdges(p)[k]

LEMMA WriteSees ==
    ASSUME IInv, NEW p \in Procs, NEW r, NEW AR \in Partial(AssetKeys, AssetRow),
           NEW ER \in Partial(EdgeKeys, EdgeRow), NEW S,
           run' = [run EXCEPT ![p] = r], txn' = [txn EXCEPT ![p] = Written(p, AR, ER, S)],
           UNCHANGED <<tables, overlap>>
    PROVE  Sees(p, r, AR, ER)
  <1>1. /\ assets' = assets /\ edges' = edges /\ run'[p] = r
        /\ txn'[p] = Written(p, AR, ER, S)
        /\ \A q \in Procs \ {p} : txn'[q] = txn[q] /\ run'[q] = run[q]
    BY DEF IInv, Typed, tables
  <1>2. txn'[p].assets = Over(AR, txn[p].assets) /\ txn'[p].edges = Over(ER, txn[p].edges)
    BY <1>1 DEF Written
  <1>3. /\ DOMAIN Over(AR, txn[p].assets) = DOMAIN AR \cup DOMAIN txn[p].assets
        /\ \A k \in DOMAIN AR \cup DOMAIN txn[p].assets :
             Over(AR, txn[p].assets)[k] = IF k \in DOMAIN AR THEN AR[k] ELSE txn[p].assets[k]
    BY DEF Over
  <1>4. /\ DOMAIN Over(ER, txn[p].edges) = DOMAIN ER \cup DOMAIN txn[p].edges
        /\ \A k \in DOMAIN ER \cup DOMAIN txn[p].edges :
             Over(ER, txn[p].edges)[k] = IF k \in DOMAIN ER THEN ER[k] ELSE txn[p].edges[k]
    BY DEF Over
  <1>5. \A k \in AssetKeys :
          SeenAssets(p)'[k] = IF k \in DOMAIN AR THEN AR[k] ELSE SeenAssets(p)[k]
    BY <1>1, <1>2, <1>3 DEF SeenAssets
  <1>6. \A k \in EdgeKeys :
          SeenEdges(p)'[k] = IF k \in DOMAIN ER THEN ER[k] ELSE SeenEdges(p)[k]
    BY <1>1, <1>2, <1>4 DEF SeenEdges
  <1> QED BY <1>1, <1>2, <1>3, <1>5, <1>6 DEF Sees

\* The numbers that a statement writes.
Ages(p, AR) ==
    \A k \in DOMAIN AR :
        \/ AR[k].n = SeenAssets(p)[k].n /\ (AR[k].live => SeenAssets(p)[k].live)
        \/ AR[k].n > SeenAssets(p)[k].n
\* A statement that writes rows of its own source only ...
Local(p, AR, ER) ==
    /\ run[p].at \in Early
    /\ \A k \in DOMAIN AR : k[1] = Post(p).source
    /\ \A k \in DOMAIN ER : k[1] = Post(p).source
\* ... or takes from a row of another what hung off an asset that is gone.
Late(p, r, AR, ER) ==
    /\ r.at \notin Early
    /\ \A k \in DOMAIN AR :
         /\ AR[k].live => SeenAssets(p)[k].live /\ AR[k].n = SeenAssets(p)[k].n
         /\ k[1] # Post(p).source =>
              /\ SeenAssets(p)[k] = assets[k] /\ assets[k].live /\ assets[k].owner # Null
              /\ AR[k] = [assets[k] EXCEPT !.owner = Null]
              /\ ~Holds(SeenAssets(p), assets[k].owner)
    /\ \A k \in DOMAIN ER : k[1] # Post(p).source =>
         /\ SeenEdges(p)[k] = edges[k] /\ edges[k].live
         /\ ER[k] = [edges[k] EXCEPT !.live = FALSE]
         /\ ~(Holds(SeenAssets(p), edges[k].from) /\ Holds(SeenAssets(p), edges[k].to))

LEMMA WriteOwns ==
    ASSUME IInv, OwnInv, NEW p \in Procs, NEW r, NEW AR \in Partial(AssetKeys, AssetRow),
           NEW ER \in Partial(EdgeKeys, EdgeRow), NEW S,
           run' = [run EXCEPT ![p] = r], txn' = [txn EXCEPT ![p] = Written(p, AR, ER, S)],
           UNCHANGED <<tables, overlap>>,
           Ages(p, AR), r.post = run[p].post,
           p \in Syncs => (Local(p, AR, ER) \/ Late(p, r, AR, ER)) /\ Chosen(p)'
    PROVE  OwnInv'
  <1>1. /\ assets' = assets /\ edges' = edges /\ run'[p] = r
        /\ \A q \in Procs \ {p} : txn'[q] = txn[q] /\ run'[q] = run[q]
        /\ DOMAIN txn'[p].assets = DOMAIN AR \cup DOMAIN txn[p].assets
        /\ \A k \in AssetKeys :
             SeenAssets(p)'[k] = IF k \in DOMAIN AR THEN AR[k] ELSE SeenAssets(p)[k]
        /\ \A k \in EdgeKeys :
             SeenEdges(p)'[k] = IF k \in DOMAIN ER THEN ER[k] ELSE SeenEdges(p)[k]
    <2>1. Sees(p, r, AR, ER)
      BY WriteSees
    <2> QED BY <2>1 DEF Sees
  <1>2. /\ SeenAssets(p) \in [AssetKeys -> AssetRow] /\ assets \in [AssetKeys -> AssetRow]
        /\ Post(p)' = Post(p)
        /\ \A k \in DOMAIN AR : k \in AssetKeys /\ AR[k] \in AssetRow
    BY <1>1, SeenTyped, PartialFacts DEF IInv, Typed, Post
  <1>3. Aged(p)'
    <2>1. ASSUME NEW k \in AssetKeys
          PROVE  /\ SeenAssets(p)'[k].n >= assets[k].n
                 /\ SeenAssets(p)'[k].live /\ ~assets[k].live => SeenAssets(p)'[k].n > assets[k].n
      <3>1. /\ SeenAssets(p)[k].n >= assets[k].n
            /\ SeenAssets(p)[k].live /\ ~assets[k].live => SeenAssets(p)[k].n > assets[k].n
        BY DEF OwnInv, Aged
      <3>2. SeenAssets(p)[k].n \in Nat /\ assets[k].n \in Nat
        BY <1>2 DEF AssetRow
      <3>3. CASE k \in DOMAIN AR
        <4>1. AR[k].n \in Nat /\ SeenAssets(p)'[k] = AR[k]
          BY <1>1, <1>2, <3>3 DEF AssetRow
        <4> QED BY <3>1, <3>2, <3>3, <4>1 DEF Ages
      <3>4. CASE k \notin DOMAIN AR
        BY <1>1, <3>1, <3>4
      <3> QED BY <3>3, <3>4
    <2> QED BY <1>1, <2>1 DEF Aged
  <1>4. ASSUME p \in Syncs, Local(p, AR, ER) PROVE Owns(p)'
    BY <1>1, <1>2, <1>4 DEF Local, Owns, OwnsRow, OwnsEdge, OwnInv
  <1>5. ASSUME p \in Syncs, Late(p, r, AR, ER) PROVE Owns(p)'
    <2>1. ASSUME NEW id, id[1] \in AssetKeys, ~Holds(SeenAssets(p), id)
          PROVE  ~Holds(SeenAssets(p)', id)
      <3>1. CASE id[1] \in DOMAIN AR
        <4>1. SeenAssets(p)'[id[1]] = AR[id[1]]
          BY <1>1, <2>1, <3>1
        <4>2. AR[id[1]].live =>
                SeenAssets(p)[id[1]].live /\ AR[id[1]].n = SeenAssets(p)[id[1]].n
          BY <1>5, <3>1 DEF Late
        <4> QED BY <2>1, <4>1, <4>2 DEF Holds
      <3>2. CASE id[1] \notin DOMAIN AR
        <4>1. SeenAssets(p)'[id[1]] = SeenAssets(p)[id[1]]
          BY <1>1, <2>1, <3>2
        <4> QED BY <2>1, <4>1 DEF Holds
      <3> QED BY <3>1, <3>2
    <2>2. ASSUME NEW k \in AssetKeys, k[1] # Post(p).source
          PROVE  OwnsRow(p, k)'
      <3>1. OwnsRow(p, k)
        BY <1>5, <2>2 DEF OwnInv, Owns
      <3>2. assets[k].owner # Null => assets[k].owner[1] \in AssetKeys
        BY <1>2 DEF AssetRow, AssetIds
      <3>3. CASE k \in DOMAIN AR
        BY <1>1, <1>5, <2>1, <2>2, <3>2, <3>3 DEF Late, OwnsRow
      <3>4. CASE k \notin DOMAIN AR
        BY <1>1, <1>5, <2>1, <3>1, <3>2, <3>4 DEF Late, OwnsRow
      <3> QED BY <3>3, <3>4
    <2>3. ASSUME NEW k \in EdgeKeys, k[1] # Post(p).source
          PROVE  OwnsEdge(p, k)'
      <3>1. OwnsEdge(p, k)
        BY <1>5, <2>3 DEF OwnInv, Owns
      <3>2. edges[k].live => edges[k].from[1] \in AssetKeys /\ edges[k].to[1] \in AssetKeys
        BY DEF IInv, SoundBut, AssetIds
      <3>3. CASE k \in DOMAIN ER
        BY <1>1, <1>5, <2>1, <2>3, <3>2, <3>3 DEF Late, OwnsEdge
      <3>4. CASE k \notin DOMAIN ER
        BY <1>1, <1>5, <2>1, <3>1, <3>2, <3>4 DEF Late, OwnsEdge
      <3> QED BY <3>3, <3>4
    <2> QED BY <1>2, <2>2, <2>3 DEF Owns
  <1> QED BY <1>1, <1>3, <1>4, <1>5, OwnInside

\* Where a step leads that picks no victims, nothing is asked of them.
LEMMA ChosenElse ==
    ASSUME NEW p, run'[p].at \notin {"prune", "sweep", "cascade"}
    PROVE  Chosen(p)'
  BY DEF Chosen

LEMMA ReadsOwn ==
    ASSUME IInv, OwnInv, NEW p \in Procs,
           \/ FindOwner(p) \/ Resolve(p) \/ SkipEdge(p)
           \/ (PickStale(p) /\ run'[p].at # "sweep")
    PROVE  OwnInv'
  <1>1. /\ UNCHANGED <<tables, txn, overlap>>
        /\ p \in Syncs /\ run[p] \in RunType /\ run[p].post \in Posts
        /\ run[p].at \in {"owner", "edge", "pick"}
        /\ run[p].at = "pick" => run[p].pos \in DOMAIN run[p].post.assets
    BY AtRecord, AtEdge DEF FindOwner, Resolve, SkipEdge, PickStale, Post
  <1>2. run \in [Procs -> RunType]
    BY DEF IInv, Typed
  <1>3. ASSUME FindOwner(p)
        PROVE  \E r : run' = [run EXCEPT ![p] = r] /\ r.post = run[p].post
                      /\ r.at \notin {"prune", "sweep", "cascade"} /\ run[p].at \in Early
    <2> DEFINE n == NextRecord(run[p])
    <2>0. PICK id : \/ run' = [run EXCEPT ![p] = [run[p] EXCEPT !.at = "own", !.owner = id]]
                    \/ run' = [run EXCEPT ![p] = n]
      BY <1>3 DEF FindOwner, Move
    <2> DEFINE r == [run[p] EXCEPT !.at = "own", !.owner = id]
    <2>1. /\ run' = [run EXCEPT ![p] = r] \/ run' = [run EXCEPT ![p] = n]
          /\ run[p].at \in Early
      BY <1>3, <2>0 DEF FindOwner, Early
    <2>2. r.at = "own" /\ r.post = run[p].post
      BY <1>1 DEF RunType
    <2>3. n.at \notin {"prune", "sweep", "cascade"} /\ n.post = run[p].post
      BY <1>1, NextRecordFacts DEF Onward
    <2> HIDE DEF r, n
    <2> QED BY <2>1, <2>2, <2>3
  <1>4. ASSUME Resolve(p)
        PROVE  \E r : run' = [run EXCEPT ![p] = r] /\ r.post = run[p].post
                      /\ r.at \notin {"prune", "sweep", "cascade"} /\ run[p].at \in Early
    <2>1. PICK c : run' = [run EXCEPT ![p] = [run[p] EXCEPT !.cache = c]]
      BY <1>4 DEF Resolve, Move
    <2> DEFINE r == [run[p] EXCEPT !.cache = c]
    <2>2. r.at = "edge" /\ r.post = run[p].post /\ run[p].at \in Early
      BY <1>1, <1>4 DEF RunType, Resolve, Early
    <2>3. run' = [run EXCEPT ![p] = r]
      BY <2>1
    <2> HIDE DEF r
    <2> QED BY <2>2, <2>3
  <1>5. ASSUME SkipEdge(p)
        PROVE  \E r : run' = [run EXCEPT ![p] = r] /\ r.post = run[p].post
                      /\ r.at \notin {"prune", "sweep", "cascade"} /\ run[p].at \in Early
    <2> DEFINE n == NextEdge(run[p])
    <2>1. run' = [run EXCEPT ![p] = n] /\ run[p].at \in Early
      BY <1>5 DEF SkipEdge, Move, Early
    <2>2. n.at \notin {"prune", "sweep", "cascade"} /\ n.post = run[p].post
      BY <1>1, NextEdgeFacts DEF Onward
    <2> HIDE DEF n
    <2> QED BY <2>1, <2>2
  <1>6. ASSUME PickStale(p), run'[p].at # "sweep"
        PROVE  \E r : run' = [run EXCEPT ![p] = r] /\ r.post = run[p].post
                      /\ r.at \notin Early /\ r.at \notin {"prune", "sweep", "cascade"}
    <2> DEFINE n == NextRound(run[p], run[p].pos + 1)
    <2>1. run' = [run EXCEPT ![p] = n]
      <3>1. PICK r : run' = [run EXCEPT ![p] = r] /\ (r = n \/ r.at = "sweep")
        <4> DEFINE s == [run[p] EXCEPT !.at = "sweep",
                           !.victims = {IdOf(SeenAssets(p), k) : k \in StaleAssets(p)}]
        <4>1. run' = [run EXCEPT ![p] = n] \/ run' = [run EXCEPT ![p] = s]
          BY <1>6 DEF PickStale, Move
        <4>2. s.at = "sweep"
          BY <1>1 DEF RunType
        <4> HIDE DEF s, n
        <4> QED BY <4>1, <4>2
      <3> QED BY <1>2, <1>6, <3>1
    <2>2. run[p].pos + 1 \in Nat \ {0} /\ run[p].at = "pick"
      BY <1>1, <1>6 DEF RunType, PickStale
    <2>3. n.at \in {"pick", "commit"} /\ n.post = run[p].post
      BY <1>1, <2>2, NextRoundFacts DEF Onward
    <2> HIDE DEF n
    <2> QED BY <2>1, <2>3 DEF Early
  <1>7. PICK r : /\ run' = [run EXCEPT ![p] = r] /\ r.post = run[p].post
                 /\ r.at \notin {"prune", "sweep", "cascade"}
                 /\ r.at \in Early => run[p].at \in Early
    BY <1>3, <1>4, <1>5, <1>6
  <1>8. Chosen(p)'
    BY <1>2, <1>7, ChosenElse
  <1> QED BY <1>1, <1>7, <1>8, OwnMove

LEMMA BeginOwns ==
    ASSUME IInv, OwnInv, NEW p \in Syncs, NEW post \in Posts, Begin(p, post)
    PROVE  OwnInv'
  <1> DEFINE q == [NoRun EXCEPT !.post = post, !.pos = 0]
             n == NextRecord(q)
  <1>1. q \in RunType /\ q.post = post
    BY EmptyFacts DEF NoRun, RunType, Pcs
  <1>2. run' = [run EXCEPT ![p] = n] /\ UNCHANGED <<tables, txn, overlap>> /\ txn[p] = NoTxn
        /\ p \in Procs /\ run \in [Procs -> RunType]
    BY DEF Begin, Move, IInv, Fresh, Typed, Procs
  <1> HIDE DEF q
  <1>3. n.at \notin {"prune", "sweep", "cascade"}
    BY <1>1, NextRecordFacts DEF Onward
  <1> HIDE DEF n
  <1>4. Chosen(p)'
    BY <1>2, <1>3, ChosenElse
  <1> QED BY <1>2, <1>4, OwnMove

LEMMA OpenDeleteOwns ==
    ASSUME IInv, OwnInv, NEW p \in Editors, NEW k \in AssetKeys, OpenDelete(p, k)
    PROVE  OwnInv'
  <1> DEFINE r == [NoRun EXCEPT !.at = "sweep", !.victims = {IdOf(assets, k)}]
  <1>1. run' = [run EXCEPT ![p] = r] /\ UNCHANGED <<tables, txn, overlap>> /\ txn[p] = NoTxn
        /\ p \in Procs /\ p \notin Syncs
    BY SyncAssumption DEF OpenDelete, Move, IInv, Fresh, Procs
  <1> HIDE DEF r
  <1> QED BY <1>1, OwnMove

LEMMA PickEdgesOwns ==
    ASSUME IInv, OwnInv, NEW p \in Procs, PickEdges(p)
    PROVE  OwnInv'
  <1> DEFINE V == {IdOf(SeenEdges(p), k) : k \in StaleEdges(p)}
             r == [run[p] EXCEPT !.at = "prune", !.victims = V]
  <1>1. run[p].at = "pick_edges" /\ UNCHANGED <<tables, txn, overlap>>
        /\ run' = [run EXCEPT ![p] = r] /\ run[p] \in RunType
    BY DEF PickEdges, Move, IInv, Typed
  <1>2. \A id \in V : id[1][1] = Post(p).source
    BY DEF StaleEdges, IdOf
  <1> HIDE DEF V
  <1>3. r.at = "prune" /\ r.post = run[p].post /\ r.victims = V
    BY <1>1 DEF RunType
  <1> HIDE DEF r
  <1>4. run'[p] = r
    BY <1>1 DEF IInv, Typed
  <1>5. Chosen(p)'
    BY <1>2, <1>3, <1>4 DEF Chosen, Post
  <1> QED BY <1>1, <1>3, <1>5, OwnMove DEF Early

LEMMA PickStaleOwns ==
    ASSUME IInv, OwnInv, NEW p \in Procs, PickStale(p), run'[p].at = "sweep"
    PROVE  OwnInv'
  <1> DEFINE V == {IdOf(SeenAssets(p), k) : k \in StaleAssets(p)}
             r == [run[p] EXCEPT !.at = "sweep", !.victims = V]
             n == NextRound(run[p], run[p].pos + 1)
  <1>1. run[p].at = "pick" /\ UNCHANGED <<tables, txn, overlap>>
        /\ (run' = [run EXCEPT ![p] = r] \/ run' = [run EXCEPT ![p] = n])
    BY DEF PickStale, Move
  <1>2. p \in Syncs /\ run[p] \in RunType /\ run[p].post \in Posts
        /\ run[p].pos + 1 \in Nat \ {0} /\ run \in [Procs -> RunType]
    <2>1. p \in Syncs /\ run[p] \in RunType /\ run[p].post \in Posts
      BY <1>1, AtRecord DEF Post
    <2>2. run[p].pos + 1 \in Nat \ {0}
      BY <2>1 DEF RunType
    <2> QED BY <2>1, <2>2 DEF IInv, Typed
  <1>3. n.at \in {"pick", "commit"}
    BY <1>2, NextRoundFacts
  <1>4. \A k \in AssetKeys : SeenAssets(p)[k].n \in Nat
                             /\ (k \notin DOMAIN txn[p].assets => SeenAssets(p)[k] = assets[k])
    BY SeenTyped DEF IInv, AssetRow, SeenAssets
  <1>5. \A id \in V : /\ id[1][1] = Post(p).source /\ id \in AssetIds
                      /\ id[1] \notin DOMAIN txn[p].assets => id[2] <= assets[id[1]].n
    <2>1. ASSUME NEW k \in StaleAssets(p)
          PROVE  /\ k[1] = Post(p).source /\ IdOf(SeenAssets(p), k) \in AssetIds
                 /\ k \notin DOMAIN txn[p].assets => SeenAssets(p)[k].n <= assets[k].n
      BY <1>4 DEF StaleAssets, IdOf, AssetIds
    <2>2. \A k \in StaleAssets(p) : /\ IdOf(SeenAssets(p), k)[1] = k
                                    /\ IdOf(SeenAssets(p), k)[2] = SeenAssets(p)[k].n
      BY DEF IdOf
    <2> QED BY <2>1, <2>2
  <1> HIDE DEF V, n
  <1>6. r.at = "sweep" /\ r.post = run[p].post /\ r.victims = V
    BY <1>2 DEF RunType
  <1> HIDE DEF r
  <1>7. run' = [run EXCEPT ![p] = r] /\ run'[p] = r /\ assets' = assets /\ txn' = txn
    BY <1>1, <1>2, <1>3 DEF tables
  <1>8. Chosen(p)'
    BY <1>5, <1>6, <1>7 DEF Chosen, Post
  <1> QED BY <1>1, <1>6, <1>7, <1>8, OwnMove DEF Early

LEMMA RollBackOwns ==
    ASSUME IInv, OwnInv, NEW p \in Procs, NEW at \in {"done", "failed"}, RollBack(p, at)
    PROVE  OwnInv'
  <1> DEFINE r == [NoRun EXCEPT !.at = at]
  <1>1. r.at = at
    BY NoRunTyped
  <1>2. /\ run' = [run EXCEPT ![p] = r] /\ txn' = [txn EXCEPT ![p] = NoTxn]
        /\ assets' = assets /\ edges' = edges
    BY DEF RollBack, Move, tables
  <1> HIDE DEF r
  <1>3. /\ run'[p] = r /\ txn'[p] = NoTxn
        /\ \A q \in Procs \ {p} : txn'[q] = txn[q] /\ run'[q] = run[q]
    BY <1>2 DEF IInv, Typed
  <1>4. DOMAIN txn'[p].assets = {} /\ DOMAIN txn'[p].edges = {}
    BY <1>3, EmptyFacts DEF NoTxn
  <1>5. \A k \in AssetKeys : SeenAssets(p)'[k] = assets[k]
    BY <1>2, <1>4 DEF SeenAssets
  <1>6. \A k \in EdgeKeys : SeenEdges(p)'[k] = edges[k]
    BY <1>2, <1>4 DEF SeenEdges
  <1>7. Aged(p)'
    BY <1>2, <1>5 DEF Aged, IInv, Typed, AssetRow
  <1>8. Owns(p)'
    BY <1>2, <1>5, <1>6 DEF Owns, OwnsRow, OwnsEdge
  <1>9. Chosen(p)'
    BY <1>1, <1>3, ChosenElse
  <1> QED BY <1>2, <1>3, <1>7, <1>8, <1>9, OwnInside

LEMMA UpsertAssetOwns ==
    ASSUME IInv, OwnInv, NEW p \in Procs, UpsertAsset(p)
    PROVE  OwnInv'
  <1> DEFINE k == RecordKey(p)
             row == Upserted(p)
             AR == Single(k, row)
             q == [run[p] EXCEPT !.cache = Over(Single(Record(p).ref, <<k, row.n>>), @)]
             r == IF Record(p).owner = Null THEN NextRecord(q) ELSE [q EXCEPT !.at = "owner"]
  <1>1. /\ run[p].at = "asset" /\ UNCHANGED <<tables, overlap>>
        /\ txn' = [txn EXCEPT ![p] = Written(p, AR, << >>, {})] /\ run' = [run EXCEPT ![p] = r]
    BY DEF UpsertAsset, Free, Move, Write
  <1>2. /\ p \in Syncs /\ run[p] \in RunType /\ run[p].post \in Posts
        /\ Record(p) \in RecordType /\ k \in AssetKeys /\ run \in [Procs -> RunType]
    BY <1>1, AtRecord DEF Post, IInv, Typed
  <1>3. SeenAssets(p)[k] \in AssetRow
    BY <1>2, SeenTyped DEF IInv
  <1>4. /\ row \in AssetRow
        /\ SeenAssets(p)[k].live => row.n = SeenAssets(p)[k].n
        /\ ~SeenAssets(p)[k].live => row.n > SeenAssets(p)[k].n
    BY <1>2, <1>3 DEF Upserted, AssetRow, RecordType
  <1>5. q \in RunType /\ q.post = run[p].post
    <2>1. run[p].cache \in Partial(Ends, AssetIds \cup {Null})
      BY <1>2 DEF RunType
    <2>2. Record(p).ref \in Ends /\ <<k, row.n>> \in AssetIds \cup {Null}
      BY <1>2, <1>4 DEF RecordType, Ends, AssetRow, AssetIds
    <2> HIDE DEF k, row
    <2>3. Over(Single(Record(p).ref, <<k, row.n>>), run[p].cache) \in Partial(Ends, AssetIds \cup {Null})
      BY <2>1, <2>2, SingleFacts, OverFacts
    <2> QED BY <1>2, <2>3 DEF RunType
  <1>6. k[1] = Post(p).source
    BY DEF RecordKey
  <1> HIDE DEF row, q
  <1>7. r.post = run[p].post /\ r.at \notin {"prune", "sweep", "cascade"}
    <2>1. CASE Record(p).owner = Null
      BY <1>2, <1>5, <2>1, NextRecordFacts DEF Onward
    <2>2. CASE Record(p).owner # Null
      BY <1>5, <2>2 DEF RunType
    <2> QED BY <2>1, <2>2
  <1> HIDE DEF r
  <1>8. /\ AR \in Partial(AssetKeys, AssetRow) /\ << >> \in Partial(EdgeKeys, EdgeRow)
        /\ DOMAIN AR = {k} /\ AR[k] = row /\ DOMAIN << >> = {}
    <2>1. AR \in Partial(AssetKeys, AssetRow)
      BY <1>2, <1>4, SingleFacts
    <2>2. DOMAIN AR = {k} /\ AR[k] = row
      BY DEF Single
    <2>3. << >> \in Partial(EdgeKeys, EdgeRow) /\ DOMAIN << >> = {}
      BY EmptyFacts
    <2> QED BY <2>1, <2>2, <2>3
  <1> HIDE DEF AR, k
  <1>9. Ages(p, AR)
    BY <1>4, <1>8 DEF Ages
  <1>10. Local(p, AR, << >>)
    BY <1>1, <1>6, <1>8 DEF Local, Early
  <1>11. Chosen(p)'
    BY <1>1, <1>2, <1>7, ChosenElse
  <1> QED BY <1>1, <1>7, <1>8, <1>9, <1>10, <1>11, WriteOwns

LEMMA SetOwnerOwns ==
    ASSUME IInv, OwnInv, NEW p \in Procs, SetOwner(p)
    PROVE  OwnInv'
  <1> DEFINE k == RecordKey(p)
             row == [SeenAssets(p)[k] EXCEPT !.owner = run[p].owner]
             AR == Single(k, row)
             S == {id[1] : id \in NewOwner(p)}
             r == NextRecord(run[p])
  <1>1. /\ run[p].at = "own" /\ UNCHANGED <<tables, overlap>>
        /\ txn' = [txn EXCEPT ![p] = Written(p, AR, << >>, S)]
        /\ run' = [run EXCEPT ![p] = r]
    BY DEF SetOwner, Free, Move, Write
  <1>2. /\ p \in Syncs /\ run[p] \in RunType /\ run[p].post \in Posts /\ k \in AssetKeys
        /\ run \in [Procs -> RunType]
    BY <1>1, AtRecord DEF Post, IInv, Typed
  <1>3. SeenAssets(p)[k] \in AssetRow /\ run[p].owner \in AssetIds \cup {Null}
    BY <1>2, SeenTyped DEF IInv, RunType
  <1>4. /\ row \in AssetRow /\ row.n = SeenAssets(p)[k].n
        /\ row.live = SeenAssets(p)[k].live
    BY <1>3 DEF AssetRow
  <1>5. r.post = run[p].post /\ r.at \notin {"prune", "sweep", "cascade"}
    BY <1>2, NextRecordFacts DEF Onward
  <1>6. k[1] = Post(p).source
    BY DEF RecordKey
  <1> HIDE DEF row, r
  <1>7. /\ AR \in Partial(AssetKeys, AssetRow) /\ << >> \in Partial(EdgeKeys, EdgeRow)
        /\ DOMAIN AR = {k} /\ AR[k] = row /\ DOMAIN << >> = {}
    <2>1. AR \in Partial(AssetKeys, AssetRow)
      BY <1>2, <1>4, SingleFacts
    <2>2. DOMAIN AR = {k} /\ AR[k] = row
      BY DEF Single
    <2>3. << >> \in Partial(EdgeKeys, EdgeRow) /\ DOMAIN << >> = {}
      BY EmptyFacts
    <2> QED BY <2>1, <2>2, <2>3
  <1> HIDE DEF AR, k, S
  <1>8. Ages(p, AR)
    BY <1>4, <1>7 DEF Ages
  <1>9. Local(p, AR, << >>)
    BY <1>1, <1>6, <1>7 DEF Local, Early
  <1>10. Chosen(p)'
    BY <1>1, <1>2, <1>5, ChosenElse
  <1> QED BY <1>1, <1>5, <1>7, <1>8, <1>9, <1>10, WriteOwns

LEMMA UpsertEdgeOwns ==
    ASSUME IInv, OwnInv, NEW p \in Procs, UpsertEdge(p)
    PROVE  OwnInv'
  <1> DEFINE k == EdgeKey(p)
             old == SeenEdges(p)[k]
             row == [live |-> TRUE, n |-> IF old.live THEN old.n ELSE old.n + 1,
                     from |-> EndId(p, Edge(p).from), to |-> EndId(p, Edge(p).to)]
             ER == Single(k, row)
             S == {id[1] : id \in NewEnds(p)}
             q == [run[p] EXCEPT !.seen = @ \cup {Edge(p).ref}]
             r == NextEdge(q)
  <1>1. /\ run[p].at = "edge" /\ UNCHANGED <<tables, overlap>> /\ Linkable(p)
        /\ txn' = [txn EXCEPT ![p] = Written(p, << >>, ER, S)]
        /\ run' = [run EXCEPT ![p] = r]
    BY DEF UpsertEdge, Free, Move, Write
  <1>2. /\ p \in Syncs /\ run[p] \in RunType /\ run[p].post \in Posts
        /\ Edge(p) \in EdgeType /\ k \in EdgeKeys /\ run \in [Procs -> RunType]
    BY <1>1, AtEdge DEF Post, IInv, Typed
  <1>3. row \in EdgeRow
    <2>1. run[p].cache \in Partial(Ends, AssetIds \cup {Null})
      BY <1>2 DEF RunType
    <2>2. \A x \in DOMAIN run[p].cache : run[p].cache[x] \in AssetIds \cup {Null}
      BY <2>1, PartialFacts
    <2>3. EndId(p, Edge(p).from) \in AssetIds \cup {Null} /\ EndId(p, Edge(p).to) \in AssetIds \cup {Null}
      BY <1>1, <2>2 DEF Linkable, Resolved, EndId
    <2>4. old \in EdgeRow
      BY <1>2, SeenTyped DEF IInv
    <2> HIDE DEF old
    <2>5. old.n \in Nat /\ old.n + 1 \in Nat
      BY <2>4 DEF EdgeRow
    <2> QED BY <2>3, <2>5 DEF EdgeRow
  <1>4. q \in RunType /\ q.post = run[p].post
    BY <1>2 DEF RunType, EdgeType
  <1> HIDE DEF q
  <1>5. r.post = run[p].post /\ r.at \notin {"prune", "sweep", "cascade"}
    BY <1>2, <1>4, NextEdgeFacts DEF Onward
  <1>6. k[1] = Post(p).source
    BY DEF EdgeKey
  <1> HIDE DEF row, r
  <1>7. /\ ER \in Partial(EdgeKeys, EdgeRow) /\ << >> \in Partial(AssetKeys, AssetRow)
        /\ DOMAIN ER = {k} /\ DOMAIN << >> = {}
    <2>1. ER \in Partial(EdgeKeys, EdgeRow) /\ DOMAIN ER = {k}
      BY <1>2, <1>3, SingleFacts
    <2>2. << >> \in Partial(AssetKeys, AssetRow) /\ DOMAIN << >> = {}
      BY EmptyFacts
    <2> QED BY <2>1, <2>2
  <1> HIDE DEF ER, S, k
  <1>8. Ages(p, << >>)
    BY <1>7 DEF Ages
  <1>9. Local(p, << >>, ER)
    BY <1>1, <1>6, <1>7 DEF Local, Early
  <1>10. Chosen(p)'
    BY <1>1, <1>2, <1>5, ChosenElse
  <1> QED BY <1>1, <1>5, <1>7, <1>8, <1>9, <1>10, WriteOwns

LEMMA PruneEdgesOwns ==
    ASSUME IInv, OwnInv, NEW p \in Procs, PruneEdges(p)
    PROVE  OwnInv'
  <1> DEFINE V == VictimEdges(p)
             ER == Removed(SeenEdges(p), V)
             r == NextRound(run[p], 1)
  <1>1. /\ run[p].at = "prune" /\ UNCHANGED <<tables, overlap>>
        /\ txn' = [txn EXCEPT ![p] = Written(p, << >>, ER, {})]
        /\ run' = [run EXCEPT ![p] = r]
    BY DEF PruneEdges, Free, Move, Write
  <1>2. p \in Syncs /\ run \in [Procs -> RunType]
        /\ r.post = run[p].post /\ r.at \notin {"prune", "sweep", "cascade"}
    BY <1>1, AtPrune, NextRoundFacts DEF Onward, IInv, Typed
  <1>3. \A k \in V : k \in EdgeKeys /\ k[1] = Post(p).source
    BY <1>1, <1>2 DEF VictimEdges, OwnInv, Chosen, IdOf
  <1> HIDE DEF V, r
  <1>4. ER \in Partial(EdgeKeys, EdgeRow) /\ DOMAIN ER = V
    BY <1>3, SeenTyped, EdgesRemoved DEF IInv
  <1>5. << >> \in Partial(AssetKeys, AssetRow) /\ DOMAIN << >> = {}
    BY EmptyFacts
  <1> HIDE DEF ER
  <1>6. Ages(p, << >>)
    BY <1>5 DEF Ages
  <1>7. Local(p, << >>, ER)
    BY <1>1, <1>3, <1>4, <1>5 DEF Local, Early
  <1>8. Chosen(p)'
    BY <1>1, <1>2, ChosenElse
  <1> QED BY <1>1, <1>2, <1>4, <1>5, <1>6, <1>7, <1>8, WriteOwns

LEMMA ArchiveOwns ==
    ASSUME IInv, OwnInv, NEW p \in Procs, Archive(p)
    PROVE  OwnInv'
  <1> DEFINE V == Swept(p)
             AR == [k \in V |-> [SeenAssets(p)[k] EXCEPT !.status = "archived"]]
             r == NextRound(run[p], run[p].pos + 1)
  <1>1. /\ run[p].at = "sweep" /\ UNCHANGED <<tables, overlap>> /\ p \in Syncs
        /\ txn' = [txn EXCEPT ![p] = Written(p, AR, << >>, {})]
        /\ run' = [run EXCEPT ![p] = r]
    BY DEF Archive, Archives, Free, Move, Write
  <1>2. /\ run \in [Procs -> RunType] /\ SeenAssets(p) \in [AssetKeys -> AssetRow]
        /\ r.post = run[p].post /\ r.at \in {"pick", "commit"}
    BY <1>1, AtSweep, NextRoundFacts, SeenTyped DEF Onward, IInv, Typed
  <1>3. \A k \in V : k \in AssetKeys /\ k[1] = Post(p).source
    BY <1>1, <1>2 DEF Swept, VictimAssets, OwnInv, Chosen, IdOf
  <1> HIDE DEF V, r
  <1>4. \A k \in V : /\ AR[k] \in AssetRow /\ AR[k].live = SeenAssets(p)[k].live
                     /\ AR[k].n = SeenAssets(p)[k].n
    BY <1>2, <1>3 DEF AssetRow
  <1>5. AR \in Partial(AssetKeys, AssetRow) /\ DOMAIN AR = V
    <2>1. AR \in [V -> AssetRow]
      BY <1>4
    <2> QED BY <1>3, <2>1, PartialIntro
  <1>6. << >> \in Partial(EdgeKeys, EdgeRow) /\ DOMAIN << >> = {}
    BY EmptyFacts
  <1> HIDE DEF AR
  <1>7. Ages(p, AR)
    BY <1>4, <1>5 DEF Ages
  <1>8. Late(p, r, AR, << >>)
    BY <1>2, <1>3, <1>4, <1>5, <1>6 DEF Late, Early
  <1>9. Chosen(p)'
    BY <1>1, <1>2, ChosenElse
  <1> QED BY <1>1, <1>2, <1>5, <1>6, <1>7, <1>8, <1>9, WriteOwns

LEMMA DeleteOwns ==
    ASSUME IInv, OwnInv, NEW p \in Procs, Delete(p)
    PROVE  OwnInv'
  <1> DEFINE V == Swept(p)
             AR == Removed(SeenAssets(p), V)
             r == [run[p] EXCEPT !.at = "cascade"]
  <1>1. /\ run[p].at = "sweep" /\ UNCHANGED <<tables, overlap>> /\ ~Archives(p)
        /\ txn' = [txn EXCEPT ![p] = Written(p, AR, << >>, {})]
        /\ run' = [run EXCEPT ![p] = r]
    BY DEF Delete, Free, Move, Write
  <1>2. /\ run[p] \in RunType /\ run \in [Procs -> RunType]
        /\ SeenAssets(p) \in [AssetKeys -> AssetRow]
    BY SeenTyped DEF IInv, Typed
  <1>3. r.at = "cascade" /\ r.post = run[p].post /\ r.victims = run[p].victims
    BY <1>2 DEF RunType
  <1> HIDE DEF r
  <1>4. V = VictimAssets(p) /\ V \in SUBSET AssetKeys
    BY <1>1 DEF Swept, VictimAssets
  <1>5. p \in Syncs => \A k \in V : k[1] = Post(p).source
    BY <1>1, <1>4 DEF VictimAssets, OwnInv, Chosen, IdOf
  <1> HIDE DEF V
  <1>6. AR \in Partial(AssetKeys, AssetRow) /\ DOMAIN AR = V /\ \A k \in V : AR[k].live = FALSE
    BY <1>2, <1>4, AssetsRemoved
  <1>7. \A k \in V : AR[k].n = SeenAssets(p)[k].n
    BY <1>2, <1>4 DEF Removed, AssetRow
  <1>8. << >> \in Partial(EdgeKeys, EdgeRow) /\ DOMAIN << >> = {}
    BY EmptyFacts
  <1> HIDE DEF AR
  <1>9. Ages(p, AR)
    BY <1>6, <1>7 DEF Ages
  <1>10. p \in Syncs => Late(p, r, AR, << >>)
    BY <1>3, <1>5, <1>6, <1>8 DEF Late, Early
  <1>11. ASSUME p \in Syncs PROVE Chosen(p)'
    <2>1. /\ run'[p] = r /\ assets' = assets
          /\ DOMAIN txn'[p].assets = DOMAIN AR \cup DOMAIN txn[p].assets
          /\ \A k \in AssetKeys :
               SeenAssets(p)'[k] = IF k \in DOMAIN AR THEN AR[k] ELSE SeenAssets(p)[k]
      <3>1. Sees(p, r, AR, << >>)
        BY <1>1, <1>6, <1>8, WriteSees
      <3> QED BY <3>1 DEF Sees
    <2>2. /\ \A id \in run[p].victims : id[1][1] = Post(p).source
          /\ \A id \in run[p].victims :
               id \in AssetIds /\ (id[1] \notin DOMAIN txn[p].assets => id[2] <= assets[id[1]].n)
      BY <1>1, <1>11 DEF OwnInv, Chosen
    <2>3. ASSUME NEW id \in run[p].victims PROVE ~Holds(SeenAssets(p)', id)
      <3>1. id[1] \in AssetKeys /\ id = <<id[1], id[2]>>
        BY <2>2 DEF AssetIds
      <3>2. Holds(SeenAssets(p), id) => id[1] \in V
        BY <1>4, <3>1 DEF Holds, VictimAssets, IdOf
      <3> QED BY <1>6, <2>1, <3>1, <3>2 DEF Holds
    <2>4. Post(p)' = Post(p) /\ run'[p].victims = run[p].victims /\ run'[p].at = "cascade"
      BY <1>3, <2>1 DEF Post
    <2> QED BY <2>1, <2>2, <2>3, <2>4 DEF Chosen
  <1> QED BY <1>1, <1>3, <1>6, <1>8, <1>9, <1>10, <1>11, WriteOwns

LEMMA CascadeOwns ==
    ASSUME IInv, OwnInv, NEW p \in Procs, Cascade(p)
    PROVE  OwnInv'
  <1> DEFINE V == Owned(p)
             W == Orphans(p)
             AR == [k \in V |-> [SeenAssets(p)[k] EXCEPT !.owner = Null]]
             ER == Removed(SeenEdges(p), W)
             r == IF p \in Syncs THEN NextRound(run[p], run[p].pos + 1)
                  ELSE [run[p] EXCEPT !.at = "commit"]
  <1>1. /\ run[p].at = "cascade" /\ UNCHANGED <<tables, overlap>>
        /\ txn' = [txn EXCEPT ![p] = Written(p, AR, ER, {})]
        /\ run' = [run EXCEPT ![p] = r]
    BY DEF Cascade, Free, Move, Write
  <1>2. /\ run[p] \in RunType /\ run \in [Procs -> RunType]
        /\ SeenAssets(p) \in [AssetKeys -> AssetRow]
        /\ SeenEdges(p) \in [EdgeKeys -> EdgeRow]
    BY SeenTyped DEF IInv, Typed
  <1>3. r.at \in {"pick", "commit"} /\ r.post = run[p].post
    <2>1. CASE p \in Syncs
      BY <1>1, <2>1, AtSweep, NextRoundFacts DEF Onward
    <2>2. CASE p \notin Syncs
      BY <1>2, <2>2 DEF RunType
    <2> QED BY <2>1, <2>2
  <1> HIDE DEF r
  <1>4. /\ V \in SUBSET AssetKeys /\ W \in SUBSET EdgeKeys
        /\ \A k \in V : SeenAssets(p)[k].live /\ SeenAssets(p)[k].owner \in run[p].victims
        /\ \A k \in W : /\ SeenEdges(p)[k].live
                        /\ {SeenEdges(p)[k].from, SeenEdges(p)[k].to} \cap run[p].victims # {}
    BY DEF Owned, Orphans
  <1> HIDE DEF V, W
  <1>5. \A k \in V : /\ AR[k] \in AssetRow /\ AR[k].live = SeenAssets(p)[k].live
                     /\ AR[k].n = SeenAssets(p)[k].n
                     /\ AR[k] = [SeenAssets(p)[k] EXCEPT !.owner = Null]
    BY <1>2, <1>4 DEF AssetRow
  <1>6. AR \in Partial(AssetKeys, AssetRow) /\ DOMAIN AR = V
    <2>1. AR \in [V -> AssetRow]
      BY <1>5
    <2> QED BY <1>4, <2>1, PartialIntro
  <1>7. /\ ER \in Partial(EdgeKeys, EdgeRow) /\ DOMAIN ER = W
        /\ \A k \in W : ER[k] = [SeenEdges(p)[k] EXCEPT !.live = FALSE]
    <2>1. ER \in Partial(EdgeKeys, EdgeRow) /\ DOMAIN ER = W
      BY <1>2, <1>4, EdgesRemoved
    <2> QED BY <2>1 DEF Removed
  <1> HIDE DEF AR, ER
  <1>8. Ages(p, AR)
    BY <1>5, <1>6 DEF Ages
  <1>9. ASSUME p \in Syncs PROVE Late(p, r, AR, ER)
    <2>1. Owns(p) /\ \A id \in run[p].victims : id \in AssetIds /\ ~Holds(SeenAssets(p), id)
      BY <1>1, <1>9 DEF OwnInv, Chosen
    <2>2. ASSUME NEW k \in V, k[1] # Post(p).source
          PROVE  /\ SeenAssets(p)[k] = assets[k] /\ assets[k].live /\ assets[k].owner # Null
                 /\ AR[k] = [assets[k] EXCEPT !.owner = Null]
                 /\ ~Holds(SeenAssets(p), assets[k].owner)
      <3>1. k \in AssetKeys /\ SeenAssets(p)[k].owner \in AssetIds
        BY <1>4, <2>1
      <3>2. SeenAssets(p)[k].owner # Null
        BY <3>1, SyncAssumption
      <3>3. assets[k] \in AssetRow /\ OwnsRow(p, k)
        BY <2>1, <2>2, <3>1 DEF Owns, IInv, Typed
      <3>4. [assets[k] EXCEPT !.owner = Null].owner = Null
        BY <3>3 DEF AssetRow
      <3>5. SeenAssets(p)[k] = assets[k]
        BY <3>2, <3>3, <3>4 DEF OwnsRow
      <3> QED BY <1>4, <1>5, <2>1, <3>2, <3>5
    <2>3. ASSUME NEW k \in W, k[1] # Post(p).source
          PROVE  /\ SeenEdges(p)[k] = edges[k] /\ edges[k].live
                 /\ ER[k] = [edges[k] EXCEPT !.live = FALSE]
                 /\ ~(Holds(SeenAssets(p), edges[k].from) /\ Holds(SeenAssets(p), edges[k].to))
      <3>1. k \in EdgeKeys /\ SeenEdges(p)[k].live
        BY <1>4
      <3>2. edges[k] \in EdgeRow /\ OwnsEdge(p, k)
        BY <2>1, <2>3, <3>1 DEF Owns, IInv, Typed
      <3>3. [edges[k] EXCEPT !.live = FALSE].live = FALSE
        BY <3>2 DEF EdgeRow
      <3>4. SeenEdges(p)[k] = edges[k]
        BY <3>1, <3>2, <3>3 DEF OwnsEdge
      <3>5. PICK id \in {edges[k].from, edges[k].to} : id \in run[p].victims
        BY <1>4, <3>4
      <3> QED BY <1>7, <2>1, <3>1, <3>4, <3>5
    <2> QED BY <1>3, <1>5, <1>6, <1>7, <2>2, <2>3 DEF Late, Early
  <1>10. Chosen(p)'
    BY <1>1, <1>2, <1>3, ChosenElse
  <1> QED BY <1>1, <1>3, <1>6, <1>7, <1>8, <1>9, <1>10, WriteOwns

\* When p commits, q's rows are as they were under q's locks, and what q had
\* deleted it has locked.
LEMMA CommitOwns ==
    ASSUME IInv, OwnInv, NEW p \in Procs, Commit(p)
    PROVE  OwnInv'
  <1> DEFINE r == [NoRun EXCEPT !.at = "done"]
  <1>1. r.at = "done"
    BY NoRunTyped
  <1>2. /\ assets' = SeenAssets(p) /\ edges' = SeenEdges(p)
        /\ txn' = [txn EXCEPT ![p] = NoTxn] /\ run' = [run EXCEPT ![p] = r]
    BY DEF Commit, Move
  <1> HIDE DEF r
  <1>3. /\ txn'[p] = NoTxn /\ run'[p] = r
        /\ \A q \in Procs \ {p} : txn'[q] = txn[q] /\ run'[q] = run[q]
        /\ SeenAssets(p) \in [AssetKeys -> AssetRow] /\ assets \in [AssetKeys -> AssetRow]
        /\ edges \in [EdgeKeys -> EdgeRow]
    BY <1>2, SeenTyped DEF IInv, Typed
  <1>4. Aged(p)' /\ Owns(p)' /\ Chosen(p)'
    <2>1. DOMAIN txn'[p].assets = {} /\ DOMAIN txn'[p].edges = {}
      BY <1>3, EmptyFacts DEF NoTxn
    <2>2. /\ \A k \in AssetKeys : SeenAssets(p)'[k] = assets'[k]
          /\ \A k \in EdgeKeys : SeenEdges(p)'[k] = edges'[k]
      BY <2>1 DEF SeenAssets, SeenEdges
    <2>3. Aged(p)'
      BY <1>2, <1>3, <2>2 DEF Aged, AssetRow
    <2> QED BY <1>1, <1>3, <2>2, <2>3, ChosenElse DEF Owns, OwnsRow, OwnsEdge
  <1>5. ASSUME NEW q \in Procs \ {p}
        PROVE  Aged(q)' /\ (q \in Syncs => Owns(q)' /\ Chosen(q)')
    <2>1. /\ txn'[q] = txn[q] /\ run'[q] = run[q] /\ Post(q)' = Post(q)
          /\ DOMAIN txn[p].assets \cap DOMAIN txn[q].assets = {}
          /\ DOMAIN txn[p].edges \cap DOMAIN txn[q].edges = {}
      BY <1>3 DEF Post, IInv, Locks, Exclusive
    <2>2. \A k \in AssetKeys :
            /\ k \in DOMAIN txn[q].assets =>
                 SeenAssets(q)'[k] = SeenAssets(q)[k] /\ assets'[k] = assets[k]
            /\ k \notin DOMAIN txn[q].assets =>
                 SeenAssets(q)'[k] = assets'[k] /\ SeenAssets(q)[k] = assets[k]
      BY <1>2, <2>1 DEF SeenAssets
    <2>3. \A k \in EdgeKeys :
            /\ k \in DOMAIN txn[q].edges =>
                 SeenEdges(q)'[k] = SeenEdges(q)[k] /\ edges'[k] = edges[k]
            /\ k \notin DOMAIN txn[q].edges => SeenEdges(q)'[k] = edges'[k]
      BY <1>2, <2>1 DEF SeenEdges
    <2>4. Aged(q)'
      <3>1. \A k \in AssetKeys : assets'[k].n \in Nat
        BY <1>2, <1>3 DEF AssetRow
      <3> QED BY <2>2, <3>1 DEF OwnInv, Aged
    <2>5. ASSUME NEW id \in AssetIds, Holds(assets, id), ~Holds(SeenAssets(q), id)
          PROVE  ~Holds(SeenAssets(q)', id)
      BY <2>2, <2>5 DEF Holds, AssetIds
    <2>6. ASSUME q \in Syncs PROVE Owns(q)'
      <3>1. ASSUME NEW k \in AssetKeys, k[1] # Post(q).source PROVE OwnsRow(q, k)'
        <4>1. OwnsRow(q, k)
          BY <2>6, <3>1 DEF OwnInv, Owns
        <4>2. CASE k \in DOMAIN txn[q].assets
          <5>1. assets[k].live /\ assets[k].owner # Null =>
                  assets[k].owner \in AssetIds /\ Holds(assets, assets[k].owner)
            BY <1>3 DEF IInv, SoundBut, AssetRow
          <5> QED BY <2>1, <2>2, <2>5, <4>1, <4>2, <5>1 DEF OwnsRow
        <4>3. CASE k \notin DOMAIN txn[q].assets
          BY <2>2, <4>3 DEF OwnsRow
        <4> QED BY <4>2, <4>3
      <3>2. ASSUME NEW k \in EdgeKeys, k[1] # Post(q).source PROVE OwnsEdge(q, k)'
        <4>1. OwnsEdge(q, k)
          BY <2>6, <3>2 DEF OwnInv, Owns
        <4>2. CASE k \in DOMAIN txn[q].edges
          <5>1. edges[k].live =>
                  /\ edges[k].from \in AssetIds /\ Holds(assets, edges[k].from)
                  /\ edges[k].to \in AssetIds /\ Holds(assets, edges[k].to)
            BY DEF IInv, SoundBut
          <5> QED BY <2>1, <2>3, <2>5, <4>1, <4>2, <5>1 DEF OwnsEdge
        <4>3. CASE k \notin DOMAIN txn[q].edges
          BY <2>3, <4>3 DEF OwnsEdge
        <4> QED BY <4>2, <4>3
      <3> QED BY <2>1, <3>1, <3>2 DEF Owns
    <2>7. ASSUME q \in Syncs PROVE Chosen(q)'
      <3>1. Chosen(q) /\ Aged(p) /\ Numbered(p)
        BY <2>7 DEF OwnInv, IInv, Locks
      <3>2. \A k \in AssetKeys :
              /\ assets[k].n \in Nat /\ assets'[k].n \in Nat /\ assets'[k].n >= assets[k].n
              /\ assets'[k].live /\ ~assets[k].live => assets'[k].n > assets[k].n
              /\ assets'[k].live /\ assets[k].live => assets'[k].n = assets[k].n
        BY <1>2, <1>3, <3>1 DEF Aged, Numbered, AssetRow
      <3>3. \A id \in AssetIds : id[1] \in AssetKeys /\ id[2] \in Nat
        BY DEF AssetIds
      <3>4. run[q].at \in {"sweep", "cascade"} =>
              \A id \in run[q].victims :
                /\ id \in AssetIds
                /\ id[1] \notin DOMAIN txn[q].assets => id[2] <= assets'[id[1]].n
        BY <3>1, <3>2, <3>3 DEF Chosen
      <3>5. ASSUME run[q].at = "cascade", NEW id \in run[q].victims
            PROVE  ~Holds(SeenAssets(q)', id)
        <4>1. /\ id[1] \in AssetKeys /\ id[2] \in Nat /\ ~Holds(SeenAssets(q), id)
              /\ id[1] \notin DOMAIN txn[q].assets => id[2] <= assets[id[1]].n
          BY <3>1, <3>3, <3>5 DEF Chosen
        <4>2. CASE id[1] \in DOMAIN txn[q].assets
          BY <2>2, <4>1, <4>2 DEF Holds
        <4>3. CASE id[1] \notin DOMAIN txn[q].assets
          BY <2>2, <3>2, <4>1, <4>3 DEF Holds
        <4> QED BY <4>2, <4>3
      <3> QED BY <2>1, <3>1, <3>4, <3>5 DEF Chosen
    <2> QED BY <2>4, <2>6, <2>7
  <1> QED BY <1>4, <1>5 DEF OwnInv

LEMMA InitOwns == Init => OwnInv
  <1> SUFFICES ASSUME Init PROVE OwnInv
    OBVIOUS
  <1>1. IInv
    BY InitIInv
  <1>2. ASSUME NEW p \in Procs PROVE Aged(p) /\ Owns(p) /\ Chosen(p)
    <2>1. txn[p] = NoTxn /\ run[p].at = "idle"
      BY DEF Init, NoRun
    <2>2. SeenAssets(p) = assets /\ SeenEdges(p) = edges
      BY <1>1, <2>1, EmptyFacts DEF NoTxn, SeenAssets, SeenEdges, IInv, Typed
    <2> QED BY <1>1, <2>1, <2>2 DEF Aged, Owns, OwnsRow, OwnsEdge, Chosen, IInv, Typed, AssetRow
  <1> QED BY <1>2 DEF OwnInv

LEMMA NextOwns == IInv /\ OwnInv /\ [Next]_vars => OwnInv'
  <1> SUFFICES ASSUME IInv, OwnInv, [Next]_vars PROVE OwnInv'
    OBVIOUS
  <1>1. CASE UNCHANGED vars
    <2>1. assets' = assets /\ edges' = edges /\ txn' = txn /\ run' = run
      BY <1>1 DEF vars
    <2>2. \A p \in Procs : SeenAssets(p)' = SeenAssets(p) /\ SeenEdges(p)' = SeenEdges(p)
                           /\ Post(p)' = Post(p)
      BY <2>1 DEF SeenAssets, SeenEdges, Post
    <2> QED BY SMTT(30), <2>1, <2>2 DEF OwnInv, Aged, Owns, OwnsRow, OwnsEdge, Chosen, Holds
  <1>2. ASSUME NEW p \in Syncs, NEW post \in Posts, Begin(p, post) PROVE OwnInv'
    BY <1>2, BeginOwns
  <1>3. ASSUME NEW p \in Editors, NEW k \in AssetKeys, OpenDelete(p, k) PROVE OwnInv'
    BY <1>3, OpenDeleteOwns
  <1>4. ASSUME NEW p \in Procs,
               OwnerGone(p) \/ EndGone(p) \/ DryRun(p) \/ BreakDeadlock(p) \/ Crash(p)
        PROVE  OwnInv'
    <2>1. \E at \in {"done", "failed"} : RollBack(p, at)
      BY <1>4 DEF OwnerGone, EndGone, DryRun, BreakDeadlock, Crash
    <2> QED BY <2>1, RollBackOwns
  <1>5. ASSUME NEW p \in Procs, Step(p) \/ Crash(p) PROVE OwnInv'
    BY <1>4, <1>5, ReadsOwn, PickStaleOwns, PickEdgesOwns, UpsertAssetOwns, SetOwnerOwns,
       UpsertEdgeOwns, PruneEdgesOwns, ArchiveOwns, DeleteOwns, CascadeOwns, CommitOwns DEF Step
  <1> QED BY <1>1, <1>2, <1>3, <1>5 DEF Next

\* The one step in which a synchronisation takes effect is its commit.
LEMMA LandsCommits ==
    ASSUME IInv, [Next]_vars, NEW p \in Syncs, Lands(p)
    PROVE  Commit(p)
  <1>1. run \in [Procs -> RunType] /\ p \in Procs /\ run[p].at = "commit" /\ run'[p].at = "done"
        /\ ~Post(p).dry
    BY DEF IInv, Typed, Procs, Lands
  <1>2. run' # run
    BY <1>1
  <1>3. ASSUME NEW q \in Syncs, NEW post \in Posts, Begin(q, post) PROVE FALSE
    <2>1. PICK r : run' = [run EXCEPT ![q] = r] /\ run[q].at = "idle"
      BY <1>3 DEF Begin, Move
    <2> QED BY <1>1, <2>1
  <1>4. ASSUME NEW q \in Editors, NEW k \in AssetKeys, OpenDelete(q, k) PROVE FALSE
    <2>1. PICK r : run' = [run EXCEPT ![q] = r] /\ run[q].at = "idle"
      BY <1>4 DEF OpenDelete, Move
    <2> QED BY <1>1, <2>1
  <1>5. ASSUME NEW q \in Procs, NEW at, RollBack(q, at), at # "done" PROVE FALSE
    <2> DEFINE r == [NoRun EXCEPT !.at = at]
    <2>1. run' = [run EXCEPT ![q] = r] /\ r.at = at
      BY <1>5 DEF RollBack, Move, NoRun
    <2> HIDE DEF r
    <2> QED BY <1>1, <1>5, <2>1
  <1>6. ASSUME NEW q \in Procs, Step(q) \/ Crash(q) PROVE q = p /\ Commit(p)
    <2>1. ~Crash(q) /\ ~BreakDeadlock(q) /\ ~OwnerGone(q) /\ ~EndGone(q)
      BY <1>5 DEF Crash, BreakDeadlock, OwnerGone, EndGone
    <2>2. PICK r : run' = [run EXCEPT ![q] = r]
      BY <1>6, <2>1 DEF Step, UpsertAsset, FindOwner, SetOwner, Resolve, SkipEdge, UpsertEdge,
         PickEdges, PruneEdges, PickStale, Archive, Delete, Cascade, Commit, DryRun, RollBack, Move
    <2>3. q = p
      BY <1>1, <2>2
    <2> QED BY <1>1, <1>6, <2>1, <2>3 DEF Step, UpsertAsset, FindOwner, SetOwner, Resolve, SkipEdge,
         UpsertEdge, PickEdges, PruneEdges, PickStale, Archive, Delete, Cascade, DryRun, Free
  <1> QED BY <1>2, <1>3, <1>4, <1>6 DEF Next, vars

\* A synchronisation changes nothing outside its source but the owner, or the
\* edge, that hung off an asset it has deleted (_reconcile_missing and
\* prune_stale_edges name the source in their WHERE clauses), whatever other
\* synchronisations and deletions were committed since its statements ran.
THEOREM OwnRowsKept == Spec => OwnRowsOnly
  <1>1. IInv /\ OwnInv /\ [Next]_vars =>
          \A p \in Syncs : Lands(p) =>
            /\ \A k \in AssetKeys : k[1] # Post(p).source => Kept(k) /\ KeptOwner(k)
            /\ \A k \in EdgeKeys : k[1] # Post(p).source =>
                 \/ edges'[k] = edges[k]
                 \/ /\ edges'[k] = [edges[k] EXCEPT !.live = FALSE]
                    /\ ~(Holds(assets', edges[k].from) /\ Holds(assets', edges[k].to))
    <2> SUFFICES ASSUME IInv, OwnInv, [Next]_vars, NEW p \in Syncs, Lands(p)
                 PROVE  /\ \A k \in AssetKeys : k[1] # Post(p).source => Kept(k) /\ KeptOwner(k)
                        /\ \A k \in EdgeKeys : k[1] # Post(p).source =>
                             \/ edges'[k] = edges[k]
                             \/ /\ edges'[k] = [edges[k] EXCEPT !.live = FALSE]
                                /\ ~(Holds(assets', edges[k].from)
                                       /\ Holds(assets', edges[k].to))
      OBVIOUS
    <2>1. assets' = SeenAssets(p) /\ edges' = SeenEdges(p)
      BY LandsCommits DEF Commit
    <2>2. Owns(p)
      BY DEF OwnInv, Procs
    <2>3. ASSUME NEW k \in AssetKeys, k[1] # Post(p).source PROVE Kept(k) /\ KeptOwner(k)
      BY <2>1, <2>2, <2>3 DEF Owns, OwnsRow, Kept, KeptOwner, Holds
    <2>4. ASSUME NEW k \in EdgeKeys, k[1] # Post(p).source
          PROVE  \/ edges'[k] = edges[k]
                 \/ /\ edges'[k] = [edges[k] EXCEPT !.live = FALSE]
                    /\ ~(Holds(assets', edges[k].from) /\ Holds(assets', edges[k].to))
      BY <2>1, <2>2, <2>4 DEF Owns, OwnsEdge, Holds
    <2> QED BY <2>3, <2>4
  <1> QED BY <1>1, InitIInv, InitOwns, NextKeeps, NextOwns, PTL DEF Spec, OwnRowsOnly

-----------------------------------------------------------------------------
(* One blob and everybody who writes it *)

Values(c) == Texts \cup {None} \cup {b[k] : b \in c.blobs, k \in c.keys}
BlobType(c) == [c.keys -> Values(c)]
RequestType(c) ==
    [kind : Rewriters,
     pc : {"read", "claimed", "created", "failed"},
     read : BlobType(c), touched : SUBSET c.keys, began : Nat]

BlobTyped(p) ==
    /\ meta \in BlobType(BlobParts[p]) /\ ideal \in BlobType(BlobParts[p])
    /\ stale \subseteq BlobParts[p].keys /\ exists \in BOOLEAN
    /\ tickets \in Nat /\ unheard \in Nat /\ erased \in Nat
    /\ writes \in 0..BlobParts[p].steps /\ crashes \in 0..BlobParts[p].deaths
    /\ req \in [BlobParts[p].handlers -> RequestType(BlobParts[p]) \cup {Blob(p)!Idle}]

Busy(p) == {h \in BlobParts[p].handlers : req[h] # Blob(p)!Idle}

\* What a request remembers is what is there, but for keys that others have
\* written, or put back, since it read them.
Remembered(p, h) ==
    /\ req[h].kind = "push" => "push" \in BlobParts[p].kinds
    /\ req[h].kind # "push" => req[h].pc = "read"
    /\ req[h].kind \in DOMAIN Named => Named[req[h].kind] \subseteq BlobParts[p].keys
    /\ req[h].began <= writes
    /\ exists /\ req[h].pc = "read" =>
         \A k \in BlobParts[p].keys \ (req[h].touched \cup stale) : meta[k] = req[h].read[k]

\* Pushes that have a claim to use, and those that hold a ticket.
Asking(p) == {h \in BlobParts[p].handlers :
                req[h].kind = "push" /\ req[h].pc \in {"claimed", "failed"}}
Holding(p) == {h \in BlobParts[p].handlers : req[h].kind = "push" /\ req[h].pc = "created"}

\* Each ticket, and each push that may yet create one, is paid for: by what the
\* blob says, or by an answer that was lost or a write that erased something.
Taken(p) == ~exists \/ Blob(p)!Linked(meta) \/ Blob(p)!Claimed(meta)
Paid(p) == (IF Taken(p) THEN 1 ELSE 0) + unheard + erased
TicketInv(p) ==
    /\ tickets + Cardinality(Asking(p)) <= Paid(p)
    /\ unheard + Cardinality(Holding(p)) <= tickets

\* The effectiveness that was last put there is that of the last run, which
\* ended when all the others had begun.
Rated(p) == "effectiveness" \in BlobParts[p].keys \ BlobParts[p].editable
RunInv(p) ==
    /\ runs \in Seq([began : Nat, ended : Nat, result : {"pass", "fail"}])
    /\ \A j \in DOMAIN runs : runs[j].began <= writes
    /\ \A j \in DOMAIN runs : runs[j].began <= runs[Len(runs)].ended
    /\ exists /\ Rated(p) /\ runs # <<>> =>
         \/ ideal["effectiveness"] = runs[Len(runs)].result
         \/ \E b \in BlobParts[p].blobs : ideal["effectiveness"] = b["effectiveness"]

BlobInv(p) ==
    /\ BlobTyped(p)
    /\ \A h \in Busy(p) : Remembered(p, h)
    /\ TicketInv(p) /\ Blob(p)!ClaimHeld /\ Blob(p)!EditsKept /\ RunInv(p)

LEMMA BlobFacts ==
    ASSUME NEW p \in DOMAIN BlobParts
    PROVE  /\ IsFiniteSet(BlobParts[p].handlers)
           /\ BlobParts[p].steps \in Nat /\ BlobParts[p].deaths \in Nat
           /\ BlobParts[p].editable \subseteq BlobParts[p].keys
           /\ BlobParts[p].blobs \subseteq BlobType(BlobParts[p])
           /\ \A kind \in BlobParts[p].kinds \cap DOMAIN Named : Named[kind] \subseteq BlobParts[p].keys
           /\ "risks" \in BlobParts[p].kinds => "external_ticket_status" \notin BlobParts[p].editable
           /\ None \notin Texts \cup Rewriters
  <1>1. \A b \in BlobParts[p].blobs : b \in [BlobParts[p].keys -> {b[k] : k \in BlobParts[p].keys}]
    BY MetadataAssumption DEF BlobAssumption
  <1>2. \A b \in BlobParts[p].blobs : \A k \in BlobParts[p].keys : b[k] \in Values(BlobParts[p])
    BY DEF Values
  <1>3. BlobParts[p].blobs \subseteq BlobType(BlobParts[p])
    BY <1>1, <1>2 DEF BlobType
  <1> QED BY <1>3, MetadataAssumption DEF BlobAssumption

LEMMA WriteTyped ==
    ASSUME NEW p \in DOMAIN BlobParts, BlobTyped(p), NEW h \in BlobParts[p].handlers,
           NEW keys \in SUBSET BlobParts[p].keys, NEW new \in BlobType(BlobParts[p]),
           NEW then \in RequestType(BlobParts[p]) \cup {Blob(p)!Idle},
           Blob(p)!Write(h, keys, new, then)
    PROVE  /\ meta' \in BlobType(BlobParts[p]) /\ ideal' \in BlobType(BlobParts[p])
           /\ writes' \in 0..BlobParts[p].steps
           /\ req' \in [BlobParts[p].handlers -> RequestType(BlobParts[p]) \cup {Blob(p)!Idle}]
           /\ req'[h] = then
           /\ \A g \in BlobParts[p].handlers \ {h} :
                /\ req[g] = Blob(p)!Idle => req'[g] = Blob(p)!Idle
                /\ req[g] # Blob(p)!Idle => req'[g] = [req[g] EXCEPT !.touched = @ \cup keys]
  <1>1. meta' \in BlobType(BlobParts[p])
    BY DEF Blob!Write, BlobTyped
  <1>2. ideal' \in BlobType(BlobParts[p])
    BY DEF Blob!Write, BlobTyped, BlobType
  <1>3. writes' \in 0..BlobParts[p].steps
    BY BlobFacts DEF Blob!Write, BlobTyped
  <1>4. \A g \in BlobParts[p].handlers : req[g] # Blob(p)!Idle =>
            [req[g] EXCEPT !.touched = @ \cup keys] \in RequestType(BlobParts[p])
    <2> SUFFICES ASSUME NEW g \in BlobParts[p].handlers, req[g] # Blob(p)!Idle
                 PROVE  [req[g] EXCEPT !.touched = @ \cup keys] \in RequestType(BlobParts[p])
      OBVIOUS
    <2>1. req[g] \in RequestType(BlobParts[p]) BY DEF BlobTyped
    <2> QED BY <2>1 DEF RequestType
  <1>5. req' = [g \in BlobParts[p].handlers |-> IF g = h THEN then
                  ELSE IF req[g] = Blob(p)!Idle THEN Blob(p)!Idle
                  ELSE [req[g] EXCEPT !.touched = @ \cup keys]]
    BY DEF Blob!Write
  <1> QED BY <1>1, <1>2, <1>3, <1>4, <1>5

-----------------------------------------------------------------------------
(* What a step does to the blob: nothing, a merge, a blob written back, or one *)
(* that was posted. *)

Knows(p, h) == req[h] # Blob(p)!Idle => Remembered(p, h)

Quiet(p, h) ==
    /\ UNCHANGED <<meta, ideal, stale, runs, writes, erased>>
    /\ exists' \in {exists, FALSE}
    /\ tickets' \in Nat /\ unheard' \in Nat /\ crashes' \in 0..BlobParts[p].deaths
    /\ Knows(p, h)'
    /\ \E r \in RequestType(BlobParts[p]) \cup {Blob(p)!Idle} : req' = [req EXCEPT ![h] = r]

MergedBy(p, h) ==
    /\ \E keys \in SUBSET BlobParts[p].keys, value \in BlobType(BlobParts[p]),
          then \in RequestType(BlobParts[p]) \cup {Blob(p)!Idle} :
         Blob(p)!Merge(h, keys, value, then)
    /\ Knows(p, h)'
    /\ UNCHANGED <<exists, runs, erased, tickets, crashes, unheard>>

\* What they say is nothing that a push says.
Remarks == {"remediated", "Done", "Triage", "closed", "bulk", "form", "pass", "fail"}

PutBack(p, h) ==
    /\ req[h] # Blob(p)!Idle /\ req[h].kind # "push"
    /\ \E keys \in SUBSET BlobParts[p].keys, value \in [BlobParts[p].keys -> Remarks] :
         Blob(p)!WriteBack(h, keys, value)
    /\ UNCHANGED <<exists, tickets, crashes, unheard>>

Knowing(p) ==
    /\ BlobTyped(p)
    /\ \A h \in Busy(p) : Remembered(p, h)

LEMMA ReadsQuietly ==
    ASSUME NEW p \in DOMAIN BlobParts, Knowing(p), NEW h \in BlobParts[p].handlers,
           NEW kind \in Rewriters, Blob(p)!Begin(h, kind)
    PROVE  /\ \E r \in RequestType(BlobParts[p]) \cup {Blob(p)!Idle} : req' = [req EXCEPT ![h] = r]
           /\ req'[h] = [kind |-> kind, pc |-> "read", read |-> meta, touched |-> {}, began |-> writes]
           /\ req[h] = Blob(p)!Idle /\ kind \in BlobParts[p].kinds /\ exists
           /\ UNCHANGED <<meta, writes>> => Knows(p, h)'
  <1>1. [kind |-> kind, pc |-> "read", read |-> meta, touched |-> {}, began |-> writes] \in RequestType(BlobParts[p])
    BY BlobFacts DEF Knowing, BlobTyped, RequestType
  <1>2. /\ req'[h] = [kind |-> kind, pc |-> "read", read |-> meta, touched |-> {}, began |-> writes]
        /\ req[h] = Blob(p)!Idle /\ kind \in BlobParts[p].kinds /\ exists
        /\ req' = [req EXCEPT ![h] = [kind |-> kind, pc |-> "read", read |-> meta, touched |-> {}, began |-> writes]]
    BY DEF Blob!Begin, Blob!Arrived, Knowing, BlobTyped
  <1>3. ASSUME UNCHANGED <<meta, writes>> PROVE Knows(p, h)'
    BY <1>2, <1>3, BlobFacts DEF Knows, Remembered, Knowing, BlobTyped
  <1> QED BY <1>1, <1>2, <1>3

\* The rest of a push asks no more for what it has read.
LEMMA PushKnows ==
    ASSUME NEW p \in DOMAIN BlobParts, Knowing(p), NEW h \in BlobParts[p].handlers,
           req[h] # Blob(p)!Idle, req[h].kind = "push",
           req'[h].kind = "push", req'[h].pc # "read", req'[h].began = req[h].began,
           writes' \in Nat, writes <= writes'
    PROVE  Knows(p, h)'
  <1>1. req[h] \in RequestType(BlobParts[p]) /\ Remembered(p, h) BY DEF Knowing, BlobTyped, Busy
  <1>2. req[h].began \in Nat BY <1>1 DEF RequestType
  <1>3. writes \in Nat BY BlobFacts DEF Knowing, BlobTyped
  <1> QED BY <1>1, <1>2, <1>3 DEF Knows, Remembered

LEMMA DoneKnows ==
    ASSUME NEW p, NEW h, req'[h] = Blob(p)!Idle PROVE Knows(p, h)'
  BY DEF Knows, Blob!Idle

LEMMA BusyFacts ==
    ASSUME NEW p \in DOMAIN BlobParts, Knowing(p), NEW h \in BlobParts[p].handlers, req[h] # Blob(p)!Idle
    PROVE  /\ req[h] \in RequestType(BlobParts[p]) /\ Remembered(p, h)
  BY DEF Knowing, BlobTyped, Busy

\* Nothing can be read into a request that is not there.
LEMMA AtIsBusy ==
    ASSUME NEW p \in DOMAIN BlobParts, NEW h, NEW kind \in Rewriters, NEW pc, Blob(p)!At(h, kind, pc)
    PROVE  req[h] # Blob(p)!Idle /\ req[h].kind = kind /\ req[h].pc = pc
  BY MetadataAssumption DEF Blob!At, Blob!Idle

LEMMA PushShapes ==
    ASSUME NEW p \in DOMAIN BlobParts, Knowing(p), NEW h \in BlobParts[p].handlers,
           Blob(p)!PushRead(h) \/ Blob(p)!Claim(h) \/ Blob(p)!ClaimRefused(h) \/ Blob(p)!Post(h)
           \/ Blob(p)!Stamp(h) \/ Blob(p)!Release(h)
    PROVE  Quiet(p, h) \/ MergedBy(p, h)
  <1> "push" \in Rewriters BY DEF Rewriters
  <1>0. ASSUME NEW pc, Blob(p)!At(h, "push", pc)
        PROVE  /\ req[h] # Blob(p)!Idle /\ req[h].kind = "push" /\ req[h].pc = pc
               /\ req[h] \in RequestType(BlobParts[p])
               /\ {"external_ticket", "external_ticket_status"} \subseteq BlobParts[p].keys
    BY SMTT(30), <1>0, AtIsBusy, BusyFacts, BlobFacts DEF Remembered, Named
  <1>t. /\ req \in [BlobParts[p].handlers -> RequestType(BlobParts[p]) \cup {Blob(p)!Idle}]
        /\ tickets \in Nat /\ unheard \in Nat /\ crashes \in 0..BlobParts[p].deaths /\ writes \in Nat
    BY BlobFacts DEF Knowing, BlobTyped
  <1>r. ASSUME Blob(p)!Refuse(h) PROVE Quiet(p, h)
    <2>1. req' = [req EXCEPT ![h] = Blob(p)!Idle] BY <1>r DEF Blob!Refuse, Blob!Done
    <2>2. Knows(p, h)' BY <1>t, <2>1, DoneKnows
    <2> QED BY <1>r, <1>t, <2>1, <2>2 DEF Quiet, Blob!Refuse
  <1>1. CASE Blob(p)!PushRead(h)
    BY ZenonT(40), <1>1, <1>t, ReadsQuietly DEF Quiet, Blob!PushRead
  <1>2. CASE Blob(p)!Claim(h)
    <2> DEFINE value == [k \in BlobParts[p].keys |-> "creating"]
               then == [req[h] EXCEPT !.pc = "claimed"]
    <2>1. {"external_ticket_status"} \in SUBSET BlobParts[p].keys BY <1>0, <1>2 DEF Blob!Claim
    <2>2. value \in BlobType(BlobParts[p]) BY DEF BlobType, Values, Texts
    <2>3. then \in RequestType(BlobParts[p]) BY <1>0, <1>2 DEF Blob!Claim, RequestType
    <2>4. Blob(p)!Merge(h, {"external_ticket_status"}, value, then) BY <1>2 DEF Blob!Claim
    <2>5. UNCHANGED <<exists, runs, erased, tickets, crashes, unheard>> BY <1>2 DEF Blob!Claim, Blob!Rest
    <2>6. req'[h] = then /\ writes' = writes + 1 BY <2>4 DEF Blob!Merge, Blob!Write
    <2>7. req[h] # Blob(p)!Idle /\ req[h].kind = "push" BY <1>0, <1>2 DEF Blob!Claim
    <2>8. /\ req'[h].kind = "push" /\ req'[h].pc # "read" /\ req'[h].began = req[h].began
          /\ writes' \in Nat /\ writes <= writes'
      BY <1>0, <1>2, <1>t, <2>6, <2>7 DEF Blob!Claim, RequestType
    <2>9. Knows(p, h)' BY <2>7, <2>8, PushKnows
    <2> HIDE DEF value, then
    <2> QED BY <2>1, <2>2, <2>3, <2>4, <2>5, <2>9 DEF MergedBy
  <1>3. CASE Blob(p)!ClaimRefused(h)
    BY <1>3, <1>r DEF Blob!ClaimRefused
  <1>4. CASE Blob(p)!Post(h)
    <2>1. PICK pc \in {"created", "failed"} : req' = [req EXCEPT ![h].pc = pc]
      BY <1>4 DEF Blob!Post
    <2>2. [req[h] EXCEPT !.pc = pc] \in RequestType(BlobParts[p])
      BY <1>0, <1>4 DEF Blob!Post, RequestType
    <2>3. req' = [req EXCEPT ![h] = [req[h] EXCEPT !.pc = pc]]
      BY <2>1
    <2>4. req'[h] = [req[h] EXCEPT !.pc = pc] BY <1>t, <2>3
    <2>a. req[h] # Blob(p)!Idle /\ req[h].kind = "push" /\ writes' = writes BY <1>0, <1>4 DEF Blob!Post
    <2>b. req'[h].kind = "push" /\ req'[h].pc = pc /\ req'[h].began = req[h].began
      BY <1>0, <1>4, <2>4, <2>a DEF Blob!Post, RequestType
    <2>5. Knows(p, h)' BY <1>t, <2>a, <2>b, PushKnows
    <2>6. tickets' \in Nat /\ unheard' \in Nat BY <1>4, <1>t DEF Blob!Post
    <2> QED BY <1>4, <1>t, <2>2, <2>3, <2>5, <2>6 DEF Quiet, Blob!Post
  <1>5. CASE Blob(p)!Stamp(h)
    <2>1. Blob(p)!TicketKeys \in SUBSET BlobParts[p].keys BY DEF Blob!TicketKeys
    <2>2. Blob(p)!Stamped(meta) \in BlobType(BlobParts[p])
      BY DEF BlobType, Values, Texts, Blob!Stamped, Knowing, BlobTyped
    <2>3. Blob(p)!Merge(h, Blob(p)!TicketKeys, Blob(p)!Stamped(meta), Blob(p)!Idle)
      BY <1>5 DEF Blob!Stamp
    <2>4. Knows(p, h)' BY <2>3, DoneKnows DEF Blob!Merge, Blob!Write
    <2> QED BY <1>5, <2>1, <2>2, <2>3, <2>4 DEF MergedBy, Blob!Stamp, Blob!Rest
  <1>6. CASE Blob(p)!Release(h)
    <2>1. CASE ~Blob(p)!Linked(meta)
      <3> DEFINE value == [k \in BlobParts[p].keys |-> None]
      <3>1. {"external_ticket_status"} \in SUBSET BlobParts[p].keys BY <1>0, <1>6 DEF Blob!Release
      <3>2. value \in BlobType(BlobParts[p]) BY DEF BlobType, Values
      <3>3. Blob(p)!Merge(h, {"external_ticket_status"}, value, Blob(p)!Idle) BY <1>6, <2>1 DEF Blob!Release
      <3>4. UNCHANGED <<exists, runs, erased, tickets, crashes, unheard>> BY <1>6, <2>1 DEF Blob!Release, Blob!Rest
      <3>5. Knows(p, h)' BY <3>3, DoneKnows DEF Blob!Merge, Blob!Write
      <3> HIDE DEF value
      <3> QED BY <3>1, <3>2, <3>3, <3>4, <3>5 DEF MergedBy
    <2>2. CASE Blob(p)!Linked(meta)
      BY <1>6, <1>r, <2>2 DEF Blob!Release
    <2> QED BY <2>1, <2>2
  <1> QED BY <1>1, <1>2, <1>3, <1>4, <1>5, <1>6

LEMMA ReadShapes ==
    ASSUME NEW p \in DOMAIN BlobParts, Knowing(p), NEW h \in BlobParts[p].handlers,
           NEW kind \in Rewriters, Blob(p)!ReadBlob(h, kind)
    PROVE  Quiet(p, h)
  <1>1. /\ \E r \in RequestType(BlobParts[p]) \cup {Blob(p)!Idle} : req' = [req EXCEPT ![h] = r]
        /\ Knows(p, h)'
    BY ReadsQuietly DEF Blob!ReadBlob
  <1> QED BY <1>1 DEF Blob!ReadBlob, Quiet, Knowing, BlobTyped

\* Every write-back says something in keys that the blob may have.
LEMMA BackShape ==
    ASSUME NEW p \in DOMAIN BlobParts, Knowing(p), NEW h \in BlobParts[p].handlers,
           NEW kind \in Rewriters \ {"push"}, Blob(p)!At(h, kind, "read"),
           NEW keys \in SUBSET BlobParts[p].keys, NEW value, value \in [BlobParts[p].keys -> Remarks],
           Blob(p)!WriteBack(h, keys, value), UNCHANGED <<exists, tickets, crashes, unheard>>
    PROVE  PutBack(p, h)
  BY AtIsBusy DEF PutBack

LEMMA BackShapes ==
    ASSUME NEW p \in DOMAIN BlobParts, Knowing(p), NEW h \in BlobParts[p].handlers,
           Blob(p)!TicketsWrite(h) \/ Blob(p)!CloseWrite(h) \/ Blob(p)!BulkWrite(h)
           \/ Blob(p)!FormWrite(h) \/ Blob(p)!RecordTest(h)
    PROVE  PutBack(p, h)
  <1>0. ASSUME NEW kind \in Rewriters, Blob(p)!At(h, kind, "read")
        PROVE  kind \in DOMAIN Named => Named[kind] \subseteq BlobParts[p].keys
    BY <1>0, AtIsBusy, BusyFacts DEF Remembered
  <1>w. \A s \in Remarks : [k \in BlobParts[p].keys |-> s] \in [BlobParts[p].keys -> Remarks]
    BY DEF Remarks
  <1>r. {"tickets", "close", "bulk", "form", "test"} \subseteq Rewriters \ {"push"}
    BY DEF Rewriters
  <1>1. CASE Blob(p)!TicketsWrite(h)
    <2>1. {"external_ticket_status", "finding_status"} \subseteq BlobParts[p].keys
      BY <1>0, <1>1, <1>r DEF Blob!TicketsWrite, Named
    <2>2. [k \in BlobParts[p].keys |-> IF k = "finding_status" THEN "remediated" ELSE "Done"] \in [BlobParts[p].keys -> Remarks]
      BY DEF Remarks
    <2>3. [k \in BlobParts[p].keys |-> "Triage"] \in [BlobParts[p].keys -> Remarks]
      BY <1>w DEF Remarks
    <2>4. CASE Blob(p)!WriteBack(h, {"external_ticket_status", "finding_status"},
                    [k \in BlobParts[p].keys |-> IF k = "finding_status" THEN "remediated" ELSE "Done"])
      BY <1>1, <1>r, <2>1, <2>2, <2>4, BackShape DEF Blob!TicketsWrite, Blob!Rest
    <2>5. CASE Blob(p)!WriteBack(h, {"external_ticket_status"}, [k \in BlobParts[p].keys |-> "Triage"])
      BY <1>1, <1>r, <2>1, <2>3, <2>5, BackShape DEF Blob!TicketsWrite, Blob!Rest
    <2> QED BY <1>1, <2>4, <2>5 DEF Blob!TicketsWrite
  <1>2. CASE Blob(p)!CloseWrite(h)
    <2>1. {"finding_status", "verified_by"} \subseteq BlobParts[p].keys
      BY <1>0, <1>2, <1>r DEF Blob!CloseWrite, Named
    <2>2. [k \in BlobParts[p].keys |-> "closed"] \in [BlobParts[p].keys -> Remarks]
      BY <1>w DEF Remarks
    <2> QED BY <1>2, <1>r, <2>1, <2>2, BackShape DEF Blob!CloseWrite, Blob!Rest
  <1>3. CASE Blob(p)!BulkWrite(h)
    <2>1. PICK k \in BlobParts[p].editable : Blob(p)!WriteBack(h, {k}, [j \in BlobParts[p].keys |-> "bulk"])
      BY <1>3 DEF Blob!BulkWrite
    <2>2. {k} \in SUBSET BlobParts[p].keys BY BlobFacts
    <2>3. [j \in BlobParts[p].keys |-> "bulk"] \in [BlobParts[p].keys -> Remarks] BY <1>w DEF Remarks
    <2> QED BY <1>3, <1>r, <2>1, <2>2, <2>3, BackShape DEF Blob!BulkWrite, Blob!Rest
  <1>4. CASE Blob(p)!FormWrite(h)
    <2>1. PICK k \in BlobParts[p].editable : Blob(p)!WriteBack(h, {k}, [j \in BlobParts[p].keys |-> "form"])
      BY <1>4 DEF Blob!FormWrite
    <2>2. {k} \in SUBSET BlobParts[p].keys BY BlobFacts
    <2>3. [j \in BlobParts[p].keys |-> "form"] \in [BlobParts[p].keys -> Remarks] BY <1>w DEF Remarks
    <2> QED BY <1>4, <1>r, <2>1, <2>2, <2>3, BackShape DEF Blob!FormWrite, Blob!Rest
  <1>5. CASE Blob(p)!RecordTest(h)
    <2>1. PICK result \in {"pass", "fail"} :
            Blob(p)!WriteBack(h, {"effectiveness"}, [k \in BlobParts[p].keys |-> result])
      BY <1>5 DEF Blob!RecordTest
    <2>2. {"effectiveness"} \in SUBSET BlobParts[p].keys
      BY <1>0, <1>5, <1>r DEF Blob!RecordTest, Named
    <2>3. [k \in BlobParts[p].keys |-> result] \in [BlobParts[p].keys -> Remarks] BY <1>w DEF Remarks
    <2> QED BY <1>5, <1>r, <2>1, <2>2, <2>3, BackShape DEF Blob!RecordTest
  <1> QED BY <1>1, <1>2, <1>3, <1>4, <1>5

LEMMA RisksShape ==
    ASSUME NEW p \in DOMAIN BlobParts, Knowing(p), NEW h \in BlobParts[p].handlers, Blob(p)!BulkRisks(h)
    PROVE  MergedBy(p, h)
  <1>1. PICK k \in BlobParts[p].editable :
          Blob(p)!Merge(h, {k}, [j \in BlobParts[p].keys |-> "risks"], Blob(p)!Idle)
    BY DEF Blob!BulkRisks
  <1>2. {k} \in SUBSET BlobParts[p].keys BY BlobFacts
  <1>3. [j \in BlobParts[p].keys |-> "risks"] \in BlobType(BlobParts[p]) BY DEF BlobType, Values, Texts
  <1>4. Knows(p, h)' BY <1>1, DoneKnows DEF Blob!Merge, Blob!Write
  <1> QED BY <1>1, <1>2, <1>3, <1>4 DEF MergedBy, Blob!BulkRisks, Blob!Rest

LEMMA CrashShape ==
    ASSUME NEW p \in DOMAIN BlobParts, Knowing(p), NEW h \in BlobParts[p].handlers, Blob(p)!Crash(h)
    PROVE  Quiet(p, h)
  <1>1. req' = [req EXCEPT ![h] = Blob(p)!Idle] BY DEF Blob!Crash, Blob!Done
  <1>2. Knows(p, h)' BY <1>1, DoneKnows DEF Knowing, BlobTyped
  <1>3. crashes' \in 0..BlobParts[p].deaths /\ tickets' \in Nat /\ unheard' \in Nat
    BY BlobFacts DEF Blob!Crash, Knowing, BlobTyped
  <1> QED BY <1>1, <1>2, <1>3 DEF Quiet, Blob!Crash, Knowing, BlobTyped

LEMMA Shapes ==
    ASSUME NEW p \in DOMAIN BlobParts, Knowing(p), Blob(p)!Next
    PROVE  \E h \in BlobParts[p].handlers :
             Quiet(p, h) \/ MergedBy(p, h) \/ PutBack(p, h) \/ Blob(p)!Replace(h)
  <1>1. ASSUME NEW h \in BlobParts[p].handlers,
               \/ Blob(p)!TicketsRead(h) \/ Blob(p)!CloseRead(h) \/ Blob(p)!BulkRead(h)
               \/ Blob(p)!FormRead(h) \/ Blob(p)!TestRead(h)
        PROVE  Quiet(p, h)
    <2> {"tickets", "close", "bulk", "form", "test"} \subseteq Rewriters BY DEF Rewriters
    <2> QED BY <1>1, ReadShapes
          DEF Blob!TicketsRead, Blob!CloseRead, Blob!BulkRead, Blob!FormRead, Blob!TestRead
  <1>2. ASSUME NEW h \in BlobParts[p].handlers, Blob(p)!Delete(h)
        PROVE  Quiet(p, h)
    <2>1. req[h] = Blob(p)!Idle /\ req' = req /\ exists' = FALSE
      BY <1>2 DEF Blob!Delete, Blob!Arrived
    <2>2. Knows(p, h)' BY <2>1, DoneKnows
    <2>3. \E r \in RequestType(BlobParts[p]) \cup {Blob(p)!Idle} : req' = [req EXCEPT ![h] = r]
      BY <2>1 DEF Knowing, BlobTyped
    <2> QED BY <1>2, <2>1, <2>2, <2>3 DEF Quiet, Blob!Delete, Knowing, BlobTyped
  <1> QED BY <1>1, <1>2, CrashShape, PushShapes, BackShapes, RisksShape DEF Blob!Next

-----------------------------------------------------------------------------
(* Whatever a write is not meant for stays as it is, or was put back. *)

Tidy(p, h, keys, new, then) ==
    /\ Blob(p)!Write(h, keys, new, then)
    /\ stale' \subseteq BlobParts[p].keys /\ exists' = exists
    /\ exists => \A k \in BlobParts[p].keys \ (keys \cup stale') : k \notin stale /\ new[k] = meta[k]

LEMMA WritesTidy ==
    ASSUME NEW p \in DOMAIN BlobParts, Knowing(p), NEW h \in BlobParts[p].handlers,
           MergedBy(p, h) \/ PutBack(p, h) \/ Blob(p)!Replace(h)
    PROVE  /\ \E keys \in SUBSET BlobParts[p].keys, new \in BlobType(BlobParts[p]),
                 then \in RequestType(BlobParts[p]) \cup {Blob(p)!Idle} : Tidy(p, h, keys, new, then)
           /\ Knows(p, h)'
           /\ UNCHANGED <<tickets, crashes, unheard>>
  <1>t. meta \in BlobType(BlobParts[p]) /\ stale \subseteq BlobParts[p].keys
    BY DEF Knowing, BlobTyped
  <1>1. CASE MergedBy(p, h)
    <2>1. PICK keys \in SUBSET BlobParts[p].keys, value \in BlobType(BlobParts[p]),
               then \in RequestType(BlobParts[p]) \cup {Blob(p)!Idle} : Blob(p)!Merge(h, keys, value, then)
      BY <1>1 DEF MergedBy
    <2> DEFINE new == [k \in BlobParts[p].keys |-> IF k \in keys THEN value[k] ELSE meta[k]]
    <2>2. new \in BlobType(BlobParts[p]) BY <1>t DEF BlobType
    <2>3. Tidy(p, h, keys, new, then) BY <1>1, <1>t, <2>1 DEF Tidy, Blob!Merge, MergedBy
    <2> HIDE DEF new
    <2> QED BY <1>1, <2>2, <2>3 DEF MergedBy
  <1>2. CASE PutBack(p, h)
    <2>1. PICK keys \in SUBSET BlobParts[p].keys, value \in BlobType(BlobParts[p]) : Blob(p)!WriteBack(h, keys, value)
      <3>1. [BlobParts[p].keys -> Remarks] \subseteq BlobType(BlobParts[p]) BY DEF BlobType, Values, Texts, Remarks
      <3> QED BY <1>2, <3>1 DEF PutBack
    <2>2. req[h] \in RequestType(BlobParts[p]) /\ Remembered(p, h) /\ req[h].pc = "read"
      BY <1>2, BusyFacts DEF PutBack, Remembered
    <2>3. req[h].read \in BlobType(BlobParts[p]) /\ req[h].touched \subseteq BlobParts[p].keys
      BY <2>2 DEF RequestType
    <2> DEFINE new == [k \in BlobParts[p].keys |-> IF k \in keys THEN value[k] ELSE req[h].read[k]]
    <2>4. new \in BlobType(BlobParts[p]) BY <2>3 DEF BlobType
    <2>5. Blob(p)!Write(h, keys, new, Blob(p)!Idle) /\ stale' = (stale \cup req[h].touched) \ keys
      BY <2>1 DEF Blob!WriteBack
    <2>6. Tidy(p, h, keys, new, Blob(p)!Idle)
      BY <1>2, <1>t, <2>2, <2>3, <2>5 DEF Tidy, Remembered, PutBack
    <2>7. Knows(p, h)' BY <2>5, DoneKnows DEF Blob!Write
    <2> HIDE DEF new
    <2> QED BY <1>2, <2>4, <2>6, <2>7 DEF PutBack
  <1>3. CASE Blob(p)!Replace(h)
    <2>1. PICK b \in BlobParts[p].blobs : Blob(p)!Write(h, BlobParts[p].keys, b, Blob(p)!Idle)
      BY <1>3 DEF Blob!Replace
    <2>2. b \in BlobType(BlobParts[p]) BY BlobFacts
    <2>3. Tidy(p, h, BlobParts[p].keys, b, Blob(p)!Idle)
      BY <1>3, <2>1 DEF Tidy, Blob!Replace, Blob!Rest
    <2>4. Knows(p, h)' BY <2>1, DoneKnows DEF Blob!Write
    <2> QED BY <1>3, <2>2, <2>3, <2>4 DEF Blob!Replace, Blob!Rest
  <1> QED BY <1>1, <1>2, <1>3

LEMMA OthersKnow ==
    ASSUME NEW p \in DOMAIN BlobParts, Knowing(p), NEW h \in BlobParts[p].handlers,
           NEW keys \in SUBSET BlobParts[p].keys, NEW new \in BlobType(BlobParts[p]),
           NEW then \in RequestType(BlobParts[p]) \cup {Blob(p)!Idle}, Tidy(p, h, keys, new, then),
           NEW g \in BlobParts[p].handlers \ {h}
    PROVE  Knows(p, g)'
  <1> SUFFICES ASSUME (req[g] # Blob(p)!Idle)' PROVE Remembered(p, g)'
    BY DEF Knows
  <1>1. /\ req[g] # Blob(p)!Idle
        /\ req'[g] = [req[g] EXCEPT !.touched = @ \cup keys]
    <2>1. BlobTyped(p) /\ Blob(p)!Write(h, keys, new, then) BY DEF Knowing, Tidy
    <2>2. /\ req[g] = Blob(p)!Idle => req'[g] = Blob(p)!Idle
          /\ req[g] # Blob(p)!Idle => req'[g] = [req[g] EXCEPT !.touched = @ \cup keys]
      BY <2>1 DEF Blob!Write
    <2>3. req'[g] # Blob(p)!Idle BY DEF Blob!Idle
    <2> QED BY <2>2, <2>3
  <1>2. req[g] \in RequestType(BlobParts[p]) /\ Remembered(p, g)
    BY <1>1, BusyFacts
  <1>3. /\ req'[g].kind = req[g].kind /\ req'[g].pc = req[g].pc /\ req'[g].began = req[g].began
        /\ req'[g].read = req[g].read /\ req'[g].touched = req[g].touched \cup keys
        /\ req[g].began \in Nat
    BY <1>1, <1>2 DEF RequestType
  <1>4. writes \in Nat /\ writes' = writes + 1
    BY BlobFacts DEF Knowing, BlobTyped, Tidy, Blob!Write
  <1>5. exists' /\ req[g].pc = "read" =>
          \A k \in BlobParts[p].keys \ (req[g].touched \cup keys \cup stale') : meta'[k] = req[g].read[k]
    <2> SUFFICES ASSUME exists', req[g].pc = "read",
                        NEW k \in BlobParts[p].keys \ (req[g].touched \cup keys \cup stale')
                 PROVE  meta'[k] = req[g].read[k]
      OBVIOUS
    <2>1. exists /\ meta' = new BY DEF Tidy, Blob!Write
    <2>2. k \notin stale /\ new[k] = meta[k] BY <2>1 DEF Tidy
    <2> QED BY <1>2, <2>1, <2>2 DEF Remembered
  <1> QED BY <1>2, <1>3, <1>4, <1>5 DEF Remembered

LEMMA QuietKnows ==
    ASSUME NEW p \in DOMAIN BlobParts, Knowing(p), NEW h \in BlobParts[p].handlers, Quiet(p, h),
           NEW g \in BlobParts[p].handlers
    PROVE  Knows(p, g)'
  <1>1. CASE g = h BY <1>1 DEF Quiet
  <1>2. CASE g # h
    <2>1. req'[g] = req[g] BY <1>2 DEF Quiet, Knowing, BlobTyped
    <2>2. req[g] # Blob(p)!Idle => Remembered(p, g) BY BusyFacts
    <2>3. UNCHANGED <<meta, stale, writes>> /\ exists' \in {exists, FALSE} BY DEF Quiet
    <2>4. Blob(p)!Idle' = Blob(p)!Idle BY DEF Blob!Idle
    <2> QED BY <2>1, <2>2, <2>3, <2>4 DEF Knows, Remembered, Knowing, BlobTyped
  <1> QED BY <1>1, <1>2

LEMMA KnowingNext ==
    ASSUME NEW p \in DOMAIN BlobParts, Knowing(p), Blob(p)!Next, erased' \in Nat PROVE Knowing(p)'
  <1>1. PICK h \in BlobParts[p].handlers :
          Quiet(p, h) \/ MergedBy(p, h) \/ PutBack(p, h) \/ Blob(p)!Replace(h)
    BY Shapes
  <1>2. CASE Quiet(p, h)
    <2>1. \A g \in BlobParts[p].handlers : Knows(p, g)' BY <1>2, QuietKnows
    <2>2. PICK r \in RequestType(BlobParts[p]) \cup {Blob(p)!Idle} : req' = [req EXCEPT ![h] = r]
      BY <1>2 DEF Quiet
    <2>3. BlobTyped(p)'
      BY <1>2, <2>2 DEF Quiet, Knowing, BlobTyped, Blob!Idle
    <2> QED BY <2>1, <2>3 DEF Knowing, Knows, Busy
  <1>3. CASE MergedBy(p, h) \/ PutBack(p, h) \/ Blob(p)!Replace(h)
    <2>1. PICK keys \in SUBSET BlobParts[p].keys, new \in BlobType(BlobParts[p]),
               then \in RequestType(BlobParts[p]) \cup {Blob(p)!Idle} : Tidy(p, h, keys, new, then)
      BY <1>3, WritesTidy
    <2>2. Knows(p, h)' /\ UNCHANGED <<tickets, crashes, unheard>>
      BY <1>3, WritesTidy
    <2>3. \A g \in BlobParts[p].handlers : Knows(p, g)' BY <2>1, <2>2, OthersKnow
    <2>4. /\ meta' \in BlobType(BlobParts[p]) /\ ideal' \in BlobType(BlobParts[p])
          /\ writes' \in 0..BlobParts[p].steps
          /\ req' \in [BlobParts[p].handlers -> RequestType(BlobParts[p]) \cup {Blob(p)!Idle}]
      BY <2>1, WriteTyped DEF Knowing, Tidy
    <2>5. BlobTyped(p)' BY <2>1, <2>2, <2>4 DEF Knowing, BlobTyped, Tidy, Blob!Idle
    <2> QED BY <2>3, <2>5 DEF Knowing, Knows, Busy
  <1> QED BY <1>1, <1>2, <1>3

LEMMA EditsStay ==
    ASSUME NEW p \in DOMAIN BlobParts, Knowing(p), Blob(p)!EditsKept, Blob(p)!Next PROVE Blob(p)!EditsKept'
  <1>1. PICK h \in BlobParts[p].handlers :
          Quiet(p, h) \/ MergedBy(p, h) \/ PutBack(p, h) \/ Blob(p)!Replace(h)
    BY Shapes
  <1>2. CASE Quiet(p, h)
    BY <1>2 DEF Quiet, Blob!EditsKept
  <1>3. CASE MergedBy(p, h) \/ PutBack(p, h) \/ Blob(p)!Replace(h)
    <2>1. PICK keys \in SUBSET BlobParts[p].keys, new \in BlobType(BlobParts[p]),
               then \in RequestType(BlobParts[p]) \cup {Blob(p)!Idle} : Tidy(p, h, keys, new, then)
      BY <1>3, WritesTidy
    <2> SUFFICES ASSUME exists', NEW k \in BlobParts[p].keys \ stale' PROVE meta'[k] = ideal'[k]
      BY DEF Blob!EditsKept
    <2>2. exists /\ meta' = new /\ ideal'[k] = IF k \in keys THEN new[k] ELSE ideal[k]
      BY <2>1 DEF Tidy, Blob!Write
    <2>3. k \notin keys => k \notin stale /\ new[k] = meta[k] BY <2>1, <2>2 DEF Tidy
    <2> QED BY <2>2, <2>3 DEF Blob!EditsKept
  <1> QED BY <1>1, <1>2, <1>3

-----------------------------------------------------------------------------
(* Every ticket is paid for. *)

LEMMA ErasedTyped ==
    ASSUME NEW p \in DOMAIN BlobParts, Knowing(p), Blob(p)!Next PROVE erased' \in Nat
  <1>1. erased \in Nat BY DEF Knowing, BlobTyped
  <1>2. PICK h \in BlobParts[p].handlers :
          Quiet(p, h) \/ MergedBy(p, h) \/ PutBack(p, h) \/ Blob(p)!Replace(h)
    BY Shapes
  <1>3. CASE PutBack(p, h)
    BY <1>1, <1>3 DEF PutBack, Blob!WriteBack
  <1>4. CASE Blob(p)!Replace(h)
    BY <1>1, <1>4 DEF Blob!Replace
  <1> QED BY <1>1, <1>2, <1>3, <1>4 DEF Quiet, MergedBy

LEMMA Recount ==
    ASSUME NEW S, NEW T, NEW h, IsFiniteSet(S), T \ {h} = S \ {h}
    PROVE  /\ Cardinality(S) \in Nat /\ Cardinality(T) \in Nat
           /\ h \in S /\ h \notin T => Cardinality(T) = Cardinality(S) - 1
           /\ h \notin S /\ h \in T => Cardinality(T) = Cardinality(S) + 1
           /\ (h \in S <=> h \in T) => T = S
  <1>1. /\ IsFiniteSet(S \ {h}) /\ Cardinality(S) \in Nat
        /\ Cardinality(S \ {h}) = IF h \in S THEN Cardinality(S) - 1 ELSE Cardinality(S)
    BY FS_RemoveElement, FS_CardinalityType
  <1>2. T = S \ {h} \/ T = (S \ {h}) \cup {h}
    OBVIOUS
  <1>3. IsFiniteSet(T)
    <2>1. IsFiniteSet((S \ {h}) \cup {h}) BY <1>1, FS_AddElement
    <2> QED BY <1>1, <1>2, <2>1
  <1>4. /\ Cardinality(T) \in Nat
        /\ Cardinality(T \ {h}) = IF h \in T THEN Cardinality(T) - 1 ELSE Cardinality(T)
    BY <1>3, FS_RemoveElement, FS_CardinalityType
  <1>5. (h \in S <=> h \in T) => T = S
    OBVIOUS
  <1> QED BY <1>1, <1>4, <1>5

LEMMA PushesFinite ==
    ASSUME NEW p \in DOMAIN BlobParts
    PROVE  /\ IsFiniteSet(Asking(p)) /\ IsFiniteSet(Holding(p))
           /\ Cardinality(Asking(p)) \in Nat /\ Cardinality(Holding(p)) \in Nat
  <1>1. Asking(p) \subseteq BlobParts[p].handlers /\ Holding(p) \subseteq BlobParts[p].handlers
    BY DEF Asking, Holding
  <1> QED BY <1>1, BlobFacts, FS_Subset, FS_CardinalityType

\* A step of one request leaves the other pushes where they are.
LEMMA OthersPush ==
    ASSUME NEW p \in DOMAIN BlobParts, Knowing(p), NEW h \in BlobParts[p].handlers,
           Quiet(p, h) \/ MergedBy(p, h) \/ PutBack(p, h) \/ Blob(p)!Replace(h)
    PROVE  Asking(p)' \ {h} = Asking(p) \ {h} /\ Holding(p)' \ {h} = Holding(p) \ {h}
  <1>1. ASSUME NEW g \in BlobParts[p].handlers \ {h}
        PROVE  /\ req'[g].kind = "push" <=> req[g].kind = "push"
               /\ req'[g].kind = "push" => req'[g].pc = req[g].pc
    <2>1. CASE Quiet(p, h)
      BY <1>1, <2>1 DEF Quiet, Knowing, BlobTyped
    <2>2. CASE MergedBy(p, h) \/ PutBack(p, h) \/ Blob(p)!Replace(h)
      <3>1. PICK keys \in SUBSET BlobParts[p].keys, new \in BlobType(BlobParts[p]),
                 then \in RequestType(BlobParts[p]) \cup {Blob(p)!Idle} : Tidy(p, h, keys, new, then)
        BY <2>2, WritesTidy
      <3>2. Blob(p)!Write(h, keys, new, then) BY <3>1 DEF Tidy
      <3>3. req'[g] = IF req[g] = Blob(p)!Idle THEN Blob(p)!Idle ELSE [req[g] EXCEPT !.touched = @ \cup keys]
        BY <1>1, <3>2 DEF Blob!Write
      <3>4. req[g] # Blob(p)!Idle => req[g] \in RequestType(BlobParts[p]) BY <1>1 DEF Knowing, BlobTyped
      <3> QED BY <3>3, <3>4 DEF RequestType
    <2> QED BY <2>1, <2>2
  <1> QED BY <1>1 DEF Asking, Holding

\* The steps of those that are not about a ticket.
LEMMA OthersPay ==
    ASSUME NEW p \in DOMAIN BlobParts, Knowing(p), TicketInv(p), NEW h \in BlobParts[p].handlers,
           Quiet(p, h) \/ MergedBy(p, h) \/ PutBack(p, h) \/ Blob(p)!Replace(h),
           h \notin Asking(p) \cup Holding(p), h \notin (Asking(p) \cup Holding(p))',
           UNCHANGED <<tickets, unheard>>, Paid(p) <= Paid(p)', erased' \in Nat
    PROVE  TicketInv(p)'
  <1>1. Asking(p)' = Asking(p) /\ Holding(p)' = Holding(p)
    BY OthersPush
  <1>2. Cardinality(Asking(p))' = Cardinality(Asking(p)) /\ Cardinality(Holding(p))' = Cardinality(Holding(p))
    BY <1>1
  <1>3. Paid(p) \in Nat /\ Paid(p)' \in Nat
    BY DEF Knowing, BlobTyped, Paid
  <1> QED BY <1>2, <1>3, PushesFinite DEF TicketInv, Knowing, BlobTyped

LEMMA MyCount ==
    ASSUME NEW p \in DOMAIN BlobParts, Knowing(p), NEW h \in BlobParts[p].handlers,
           Quiet(p, h) \/ MergedBy(p, h) \/ PutBack(p, h) \/ Blob(p)!Replace(h)
    PROVE  /\ Cardinality(Asking(p)') \in Nat /\ Cardinality(Holding(p)') \in Nat
           /\ h \in Asking(p) /\ h \notin Asking(p)' => Cardinality(Asking(p)') = Cardinality(Asking(p)) - 1
           /\ h \notin Asking(p) /\ h \in Asking(p)' => Cardinality(Asking(p)') = Cardinality(Asking(p)) + 1
           /\ (h \in Asking(p) <=> h \in Asking(p)') => Cardinality(Asking(p)') = Cardinality(Asking(p))
           /\ h \in Holding(p) /\ h \notin Holding(p)' => Cardinality(Holding(p)') = Cardinality(Holding(p)) - 1
           /\ h \notin Holding(p) /\ h \in Holding(p)' => Cardinality(Holding(p)') = Cardinality(Holding(p)) + 1
           /\ (h \in Holding(p) <=> h \in Holding(p)') => Cardinality(Holding(p)') = Cardinality(Holding(p))
  <1>1. Asking(p)' \ {h} = Asking(p) \ {h} /\ Holding(p)' \ {h} = Holding(p) \ {h}
    BY OthersPush
  <1>2. IsFiniteSet(Asking(p)) /\ IsFiniteSet(Holding(p)) BY PushesFinite
  <1> HIDE DEF Asking, Holding
  <1>3. /\ Cardinality(Asking(p)') \in Nat
        /\ h \in Asking(p) /\ h \notin Asking(p)' => Cardinality(Asking(p)') = Cardinality(Asking(p)) - 1
        /\ h \notin Asking(p) /\ h \in Asking(p)' => Cardinality(Asking(p)') = Cardinality(Asking(p)) + 1
        /\ (h \in Asking(p) <=> h \in Asking(p)') => Asking(p)' = Asking(p)
    BY <1>1, <1>2, Recount
  <1>4. /\ Cardinality(Holding(p)') \in Nat
        /\ h \in Holding(p) /\ h \notin Holding(p)' => Cardinality(Holding(p)') = Cardinality(Holding(p)) - 1
        /\ h \notin Holding(p) /\ h \in Holding(p)' => Cardinality(Holding(p)') = Cardinality(Holding(p)) + 1
        /\ (h \in Holding(p) <=> h \in Holding(p)') => Holding(p)' = Holding(p)
    BY <1>1, <1>2, Recount
  <1> QED BY <1>3, <1>4

\* What push_finding does to the tickets and to what pays for them.
LEMMA PushPays ==
    ASSUME NEW p \in DOMAIN BlobParts, Knowing(p), TicketInv(p), NEW h \in BlobParts[p].handlers,
           Blob(p)!PushRead(h) \/ Blob(p)!Claim(h) \/ Blob(p)!ClaimRefused(h) \/ Blob(p)!Post(h)
           \/ Blob(p)!Stamp(h) \/ Blob(p)!Release(h)
    PROVE  TicketInv(p)'
  <1>t. /\ tickets \in Nat /\ unheard \in Nat /\ erased \in Nat
        /\ req \in [BlobParts[p].handlers -> RequestType(BlobParts[p]) \cup {Blob(p)!Idle}]
        /\ Cardinality(Asking(p)) \in Nat /\ Cardinality(Holding(p)) \in Nat
    BY PushesFinite DEF Knowing, BlobTyped
  <1>s. Quiet(p, h) \/ MergedBy(p, h) BY PushShapes
  <1>c. /\ Cardinality(Asking(p)') \in Nat /\ Cardinality(Holding(p)') \in Nat
        /\ h \in Asking(p) /\ h \notin Asking(p)' => Cardinality(Asking(p)') = Cardinality(Asking(p)) - 1
        /\ h \notin Asking(p) /\ h \in Asking(p)' => Cardinality(Asking(p)') = Cardinality(Asking(p)) + 1
        /\ (h \in Asking(p) <=> h \in Asking(p)') => Cardinality(Asking(p)') = Cardinality(Asking(p))
        /\ h \in Holding(p) /\ h \notin Holding(p)' => Cardinality(Holding(p)') = Cardinality(Holding(p)) - 1
        /\ h \notin Holding(p) /\ h \in Holding(p)' => Cardinality(Holding(p)') = Cardinality(Holding(p)) + 1
        /\ (h \in Holding(p) <=> h \in Holding(p)') => Cardinality(Holding(p)') = Cardinality(Holding(p))
    BY <1>s, MyCount
  <1>0. ASSUME NEW pc, Blob(p)!At(h, "push", pc)
        PROVE  /\ req[h] \in RequestType(BlobParts[p]) /\ req[h].kind = "push" /\ req[h].pc = pc
               /\ {"external_ticket", "external_ticket_status"} \subseteq BlobParts[p].keys
    <2> "push" \in Rewriters BY DEF Rewriters
    <2> QED BY <1>0, AtIsBusy, BusyFacts DEF Remembered, Named
  <1>n. Blob(p)!Idle.kind # "push"
    BY MetadataAssumption DEF Blob!Idle, Rewriters
  <1>1. CASE Blob(p)!PushRead(h)
    <2>1. req[h] = Blob(p)!Idle /\ req'[h].pc = "read" /\ UNCHANGED <<meta, exists, tickets, unheard, erased>>
      BY <1>1, <1>t DEF Blob!PushRead, Blob!Begin, Blob!Arrived
    <2>2. h \notin Asking(p) \cup Holding(p) /\ h \notin Asking(p)' \cup Holding(p)'
      BY <1>n, <2>1 DEF Asking, Holding
    <2>3. Taken(p)' = Taken(p) BY <2>1 DEF Taken, Blob!Linked, Blob!Claimed
    <2> QED BY <1>c, <1>t, <2>1, <2>2, <2>3 DEF TicketInv, Paid
  <1>2. CASE Blob(p)!Claim(h)
    <2>0. /\ Blob(p)!Write(h, {"external_ticket_status"},
                 [k \in BlobParts[p].keys |-> IF k \in {"external_ticket_status"} THEN "creating" ELSE meta[k]],
                 [req[h] EXCEPT !.pc = "claimed"])
          /\ UNCHANGED <<exists, tickets, unheard, erased>> /\ ~Taken(p) /\ exists
      BY <1>2 DEF Blob!Claim, Blob!Merge, Blob!Rest, Taken
    <2>1. /\ req[h].pc = "read" /\ req'[h].kind = "push" /\ req'[h].pc = "claimed"
      BY <1>0, <1>2, <2>0 DEF Blob!Claim, Blob!Write, RequestType
    <2>2. h \notin Asking(p) \cup Holding(p) /\ h \in Asking(p)' /\ h \notin Holding(p)'
      BY <2>1 DEF Asking, Holding
    <2>3. "external_ticket_status" \in BlobParts[p].keys BY <1>0, <1>2 DEF Blob!Claim
    <2>4. Taken(p)' BY <2>0, <2>3 DEF Taken, Blob!Claimed, Blob!Write
    <2> QED BY <1>c, <1>t, <2>0, <2>2, <2>4 DEF TicketInv, Paid
  <1>3. CASE Blob(p)!ClaimRefused(h)
    <2>1. req[h].pc = "read" /\ req'[h] = Blob(p)!Idle /\ UNCHANGED <<meta, exists, tickets, unheard, erased>>
      BY <1>0, <1>3, <1>t DEF Blob!ClaimRefused, Blob!Refuse, Blob!Done
    <2>2. h \notin Asking(p) \cup Holding(p) /\ h \notin Asking(p)' \cup Holding(p)'
      BY <1>n, <2>1 DEF Asking, Holding
    <2>3. Taken(p)' = Taken(p) BY <2>1 DEF Taken, Blob!Linked, Blob!Claimed
    <2> QED BY <1>c, <1>t, <2>1, <2>2, <2>3 DEF TicketInv, Paid
  <1>4. CASE Blob(p)!Post(h)
    <2>1. PICK made \in BOOLEAN, heard \in BOOLEAN :
            /\ heard => made
            /\ tickets' = tickets + IF made THEN 1 ELSE 0
            /\ unheard' = unheard + IF made /\ ~heard THEN 1 ELSE 0
            /\ req' = [req EXCEPT ![h].pc = IF heard THEN "created" ELSE "failed"]
      BY <1>4 DEF Blob!Post
    <2>2. req[h].kind = "push" /\ req[h].pc = "claimed" /\ req[h] \in RequestType(BlobParts[p])
      BY <1>0, <1>4 DEF Blob!Post
    <2>3. req'[h].kind = "push" /\ req'[h].pc = IF heard THEN "created" ELSE "failed"
      BY <1>t, <2>1, <2>2 DEF RequestType
    <2>4. /\ h \in Asking(p) /\ h \notin Holding(p)
          /\ h \in Asking(p)' <=> ~heard
          /\ h \in Holding(p)' <=> heard
      BY <2>2, <2>3 DEF Asking, Holding
    <2>5. Taken(p)' = Taken(p) /\ erased' = erased BY <1>4 DEF Blob!Post, Taken, Blob!Linked, Blob!Claimed
    <2>6. CASE heard
      BY <1>c, <1>t, <2>1, <2>4, <2>5, <2>6 DEF TicketInv, Paid
    <2>7. CASE ~heard
      BY <1>c, <1>t, <2>1, <2>4, <2>5, <2>7 DEF TicketInv, Paid
    <2> QED BY <2>6, <2>7
  <1>5. CASE Blob(p)!Stamp(h)
    <2>0. /\ Blob(p)!Write(h, Blob(p)!TicketKeys,
                 [k \in BlobParts[p].keys |-> IF k \in Blob(p)!TicketKeys THEN Blob(p)!Stamped(meta)[k] ELSE meta[k]],
                 Blob(p)!Idle)
          /\ UNCHANGED <<exists, tickets, unheard, erased>>
      BY <1>5 DEF Blob!Stamp, Blob!Merge, Blob!Rest
    <2>1. req[h].kind = "push" /\ req[h].pc = "created" /\ req'[h] = Blob(p)!Idle
      BY <1>0, <1>5, <2>0 DEF Blob!Stamp, Blob!Write
    <2>2. h \notin Asking(p) /\ h \in Holding(p) /\ h \notin Asking(p)' \cup Holding(p)'
      BY <1>n, <2>1 DEF Asking, Holding
    <2>3. "external_ticket" \in BlobParts[p].keys BY <1>0, <1>5 DEF Blob!Stamp
    <2>4. "T" # None BY MetadataAssumption DEF Texts
    <2>5. exists => meta'["external_ticket"] = "T"
      BY <2>0, <2>3 DEF Blob!Write, Blob!Stamped, Blob!TicketKeys
    <2>6. Taken(p)' BY <2>0, <2>3, <2>4, <2>5 DEF Taken, Blob!Linked
    <2> QED BY <1>c, <1>t, <2>0, <2>2, <2>6 DEF TicketInv, Paid
  <1>6. CASE Blob(p)!Release(h)
    <2>1. /\ req[h].kind = "push" /\ req[h].pc = "failed" /\ req'[h] = Blob(p)!Idle
          /\ UNCHANGED <<tickets, unheard, erased>>
      BY <1>0, <1>6, <1>t DEF Blob!Release, Blob!Refuse, Blob!Done, Blob!Merge, Blob!Write, Blob!Rest
    <2>2. h \in Asking(p) /\ h \notin Holding(p) /\ h \notin Asking(p)' \cup Holding(p)'
      BY <1>n, <2>1 DEF Asking, Holding
    <2> QED BY <1>c, <1>t, <2>1, <2>2 DEF TicketInv, Paid
  <1> QED BY <1>1, <1>2, <1>3, <1>4, <1>5, <1>6

LEMMA CrashPays ==
    ASSUME NEW p \in DOMAIN BlobParts, Knowing(p), TicketInv(p), NEW h \in BlobParts[p].handlers,
           Quiet(p, h), Blob(p)!Crash(h)
    PROVE  TicketInv(p)'
  <1>t. /\ tickets \in Nat /\ unheard \in Nat /\ erased \in Nat
        /\ req \in [BlobParts[p].handlers -> RequestType(BlobParts[p]) \cup {Blob(p)!Idle}]
        /\ Cardinality(Asking(p)) \in Nat /\ Cardinality(Holding(p)) \in Nat
    BY PushesFinite DEF Knowing, BlobTyped
  <1>n. Blob(p)!Idle.kind # "push"
    BY MetadataAssumption DEF Blob!Idle, Rewriters
  <1>1. req'[h] = Blob(p)!Idle
    BY <1>t DEF Blob!Crash, Blob!Done
  <1>2. h \notin Asking(p)' /\ h \notin Holding(p)'
    BY <1>n, <1>1 DEF Asking, Holding
  <1>3. unheard' = unheard + (IF h \in Holding(p) THEN 1 ELSE 0) /\ UNCHANGED <<tickets, erased>>
    BY DEF Blob!Crash, Blob!At, Holding
  <1>4. Taken(p)' = Taken(p)
    BY DEF Blob!Crash, Taken, Blob!Linked, Blob!Claimed
  <1>5. /\ Cardinality(Asking(p)') \in Nat /\ Cardinality(Holding(p)') \in Nat
        /\ Cardinality(Asking(p)') <= Cardinality(Asking(p))
        /\ Cardinality(Holding(p)') = Cardinality(Holding(p)) - (IF h \in Holding(p) THEN 1 ELSE 0)
    BY <1>2, <1>t, MyCount
  <1> QED BY <1>t, <1>3, <1>4, <1>5 DEF TicketInv, Paid

\* A blob that is put back or posted pays for what it takes away.
LEMMA BackPays ==
    ASSUME NEW p \in DOMAIN BlobParts, Knowing(p), TicketInv(p), NEW h \in BlobParts[p].handlers,
           PutBack(p, h)
    PROVE  TicketInv(p)'
  <1>1. PICK keys, value : Blob(p)!WriteBack(h, keys, value)
    BY DEF PutBack
  <1>2. req'[h] = Blob(p)!Idle /\ req[h].kind # "push"
    BY <1>1 DEF PutBack, Blob!WriteBack, Blob!Write
  <1>3. Blob(p)!Idle.kind # "push"
    BY MetadataAssumption DEF Blob!Idle, Rewriters
  <1>4. h \notin Asking(p) \cup Holding(p) /\ h \notin (Asking(p) \cup Holding(p))'
    BY <1>2, <1>3 DEF Asking, Holding
  <1>5. exists' = exists /\ UNCHANGED <<tickets, unheard>>
    BY DEF PutBack
  <1>6. erased' = erased + IF exists /\ ((Blob(p)!Linked(meta) /\ ~Blob(p)!Linked(meta')) \/
                              (Blob(p)!Claimed(meta) /\ ~Blob(p)!Claimed(meta') /\ ~Blob(p)!Linked(meta')))
                           THEN 1 ELSE 0
    BY <1>1 DEF Blob!WriteBack
  <1>7. Taken(p)' = (~exists \/ Blob(p)!Linked(meta') \/ Blob(p)!Claimed(meta'))
    BY <1>5 DEF Taken, Blob!Linked, Blob!Claimed
  <1>8. erased' \in Nat /\ Paid(p) <= Paid(p)'
    BY <1>5, <1>6, <1>7 DEF Paid, Taken, Knowing, BlobTyped
  <1> QED BY <1>4, <1>5, <1>8, OthersPay

LEMMA ReplacePays ==
    ASSUME NEW p \in DOMAIN BlobParts, Knowing(p), TicketInv(p), NEW h \in BlobParts[p].handlers,
           Blob(p)!Replace(h)
    PROVE  TicketInv(p)'
  <1>1. PICK blob \in BlobParts[p].blobs :
          /\ Blob(p)!Write(h, BlobParts[p].keys, blob, Blob(p)!Idle)
          /\ erased' = erased + IF (Blob(p)!Linked(meta) /\ ~Blob(p)!Linked(blob))
                                   \/ (Blob(p)!Claimed(meta) /\ ~Blob(p)!Claimed(blob))
                                THEN 1 ELSE 0
    BY DEF Blob!Replace
  <1>2. req'[h] = Blob(p)!Idle /\ req[h] = Blob(p)!Idle /\ exists
    BY <1>1 DEF Blob!Replace, Blob!Arrived, Blob!Write
  <1>3. Blob(p)!Idle.kind # "push"
    BY MetadataAssumption DEF Blob!Idle, Rewriters
  <1>4. h \notin Asking(p) \cup Holding(p) /\ h \notin (Asking(p) \cup Holding(p))'
    BY <1>2, <1>3 DEF Asking, Holding
  <1>5. exists' = exists /\ UNCHANGED <<tickets, unheard>>
    BY DEF Blob!Replace, Blob!Rest
  <1>6. meta' = blob
    BY <1>1, <1>2 DEF Blob!Write
  <1>7. Taken(p)' = (Blob(p)!Linked(blob) \/ Blob(p)!Claimed(blob))
    BY <1>2, <1>5, <1>6 DEF Taken, Blob!Linked, Blob!Claimed
  <1>8. erased' \in Nat /\ Paid(p) <= Paid(p)'
    BY <1>1, <1>2, <1>5, <1>7 DEF Paid, Taken, Knowing, BlobTyped
  <1> QED BY <1>4, <1>5, <1>8, OthersPay

\* The fields of a risk are none that a ticket needs.
LEMMA RisksPay ==
    ASSUME NEW p \in DOMAIN BlobParts, Knowing(p), TicketInv(p), NEW h \in BlobParts[p].handlers,
           Blob(p)!BulkRisks(h)
    PROVE  TicketInv(p)'
  <1>1. PICK k \in BlobParts[p].editable :
          Blob(p)!Write(h, {k}, [j \in BlobParts[p].keys |-> IF j \in {k} THEN [i \in BlobParts[p].keys |-> "risks"][j] ELSE meta[j]],
                        Blob(p)!Idle)
    BY DEF Blob!BulkRisks, Blob!Merge
  <1>2. /\ req'[h] = Blob(p)!Idle /\ req[h] = Blob(p)!Idle /\ exists /\ "risks" \in BlobParts[p].kinds
        /\ UNCHANGED <<exists, tickets, unheard, erased>>
    BY <1>1 DEF Blob!BulkRisks, Blob!Arrived, Blob!Write, Blob!Rest
  <1>3. Blob(p)!Idle.kind # "push"
    BY MetadataAssumption DEF Blob!Idle, Rewriters
  <1>4. h \notin Asking(p) \cup Holding(p) /\ h \notin (Asking(p) \cup Holding(p))'
    BY <1>2, <1>3 DEF Asking, Holding
  <1>5. k # "external_ticket_status" /\ "risks" # None
    BY <1>2, BlobFacts, MetadataAssumption DEF Texts
  <1>6. \A j \in BlobParts[p].keys : meta'[j] = IF j = k THEN "risks" ELSE meta[j]
    BY <1>1, <1>2 DEF Blob!Write
  <1>7. Taken(p) => Taken(p)'
    BY <1>2, <1>5, <1>6 DEF Taken, Blob!Linked, Blob!Claimed
  <1>8. erased' \in Nat /\ Paid(p) <= Paid(p)'
    BY <1>2, <1>7 DEF Paid, Knowing, BlobTyped
  <1> QED BY <1>2, <1>4, <1>8, RisksShape, OthersPay

LEMMA TicketsPaid ==
    ASSUME NEW p \in DOMAIN BlobParts, Knowing(p), TicketInv(p), Blob(p)!Next PROVE TicketInv(p)'
  <1>n. Blob(p)!Idle.kind # "push"
    BY MetadataAssumption DEF Blob!Idle, Rewriters
  <1>1. ASSUME NEW h \in BlobParts[p].handlers,
               \/ Blob(p)!TicketsRead(h) \/ Blob(p)!CloseRead(h) \/ Blob(p)!BulkRead(h)
               \/ Blob(p)!FormRead(h) \/ Blob(p)!TestRead(h)
        PROVE  TicketInv(p)'
    <2>1. PICK kind \in Rewriters \ {"push"} : Blob(p)!ReadBlob(h, kind)
      BY <1>1 DEF Rewriters, Blob!TicketsRead, Blob!CloseRead, Blob!BulkRead, Blob!FormRead, Blob!TestRead
    <2>2. Quiet(p, h) BY <2>1, ReadShapes
    <2>a. kind \in Rewriters /\ Blob(p)!Begin(h, kind) /\ UNCHANGED <<meta, exists, tickets, unheard, erased>>
      BY <2>1 DEF Blob!ReadBlob
    <2>b. /\ req'[h] = [kind |-> kind, pc |-> "read", read |-> meta, touched |-> {}, began |-> writes]
          /\ req[h] = Blob(p)!Idle
      BY <2>a, ReadsQuietly
    <2>3. req[h] = Blob(p)!Idle /\ req'[h].kind = kind /\ UNCHANGED <<meta, exists, tickets, unheard, erased>>
      BY <2>a, <2>b
    <2>4. h \notin Asking(p) \cup Holding(p) /\ h \notin (Asking(p) \cup Holding(p))'
      BY <1>n, <2>3 DEF Asking, Holding
    <2>5. Taken(p)' = Taken(p) BY <2>3 DEF Taken, Blob!Linked, Blob!Claimed
    <2>6. erased' \in Nat /\ Paid(p) <= Paid(p)' BY <2>3, <2>5 DEF Paid, Knowing, BlobTyped
    <2> QED BY <2>2, <2>3, <2>4, <2>6, OthersPay
  <1>2. ASSUME NEW h \in BlobParts[p].handlers, Blob(p)!Delete(h)
        PROVE  TicketInv(p)'
    <2>1. /\ req' = req /\ ~exists' /\ UNCHANGED <<tickets, unheard, erased>>
      BY <1>2 DEF Blob!Delete
    <2>2. Asking(p)' = Asking(p) /\ Holding(p)' = Holding(p)
      BY <2>1 DEF Asking, Holding
    <2>3. Taken(p)' BY <2>1 DEF Taken
    <2>4. erased' \in Nat /\ Paid(p) <= Paid(p)' BY <2>1, <2>3 DEF Paid, Knowing, BlobTyped
    <2> QED BY <2>1, <2>2, <2>4, PushesFinite DEF TicketInv, Knowing, BlobTyped, Paid
  <1>3. ASSUME NEW h \in BlobParts[p].handlers, Blob(p)!Crash(h)
        PROVE  TicketInv(p)'
    BY <1>3, CrashShape, CrashPays
  <1>4. ASSUME NEW h \in BlobParts[p].handlers,
               Blob(p)!TicketsWrite(h) \/ Blob(p)!CloseWrite(h) \/ Blob(p)!BulkWrite(h)
               \/ Blob(p)!FormWrite(h) \/ Blob(p)!RecordTest(h)
        PROVE  TicketInv(p)'
    BY <1>4, BackShapes, BackPays
  <1> QED BY <1>1, <1>2, <1>3, <1>4, PushPays, RisksPay, ReplacePays DEF Blob!Next

-----------------------------------------------------------------------------
(* A claim has its push. *)

Claiming(p) == \E h \in BlobParts[p].handlers :
    req[h].kind = "push" /\ req[h].pc \in {"claimed", "created", "failed"}

\* While one request does something else, the claim of a push stays with it.
LEMMA OthersClaim ==
    ASSUME NEW p \in DOMAIN BlobParts, Knowing(p), NEW h \in BlobParts[p].handlers,
           Quiet(p, h) \/ MergedBy(p, h) \/ PutBack(p, h) \/ Blob(p)!Replace(h),
           h \notin Asking(p) \cup Holding(p), Claiming(p)
    PROVE  Claiming(p)'
  <1>1. PICK g \in BlobParts[p].handlers : g \in Asking(p) \cup Holding(p)
    BY DEF Claiming, Asking, Holding
  <1>2. g \in Asking(p)' \cup Holding(p)'
    BY <1>1, OthersPush
  <1> QED BY <1>2 DEF Claiming, Asking, Holding

LEMMA PushHoldsClaim ==
    ASSUME NEW p \in DOMAIN BlobParts, Knowing(p), Blob(p)!ClaimHeld, NEW h \in BlobParts[p].handlers,
           Blob(p)!PushRead(h) \/ Blob(p)!Claim(h) \/ Blob(p)!ClaimRefused(h) \/ Blob(p)!Post(h)
           \/ Blob(p)!Stamp(h) \/ Blob(p)!Release(h)
    PROVE  Blob(p)!ClaimHeld'
  <1>t. req \in [BlobParts[p].handlers -> RequestType(BlobParts[p]) \cup {Blob(p)!Idle}]
    BY DEF Knowing, BlobTyped
  <1>s. Quiet(p, h) \/ MergedBy(p, h) BY PushShapes
  <1>0. ASSUME NEW pc, Blob(p)!At(h, "push", pc)
        PROVE  /\ req[h] \in RequestType(BlobParts[p]) /\ req[h].kind = "push" /\ req[h].pc = pc
               /\ {"external_ticket", "external_ticket_status"} \subseteq BlobParts[p].keys
    <2> "push" \in Rewriters BY DEF Rewriters
    <2> QED BY <1>0, AtIsBusy, BusyFacts DEF Remembered, Named
  <1>n. Blob(p)!Idle.kind # "push"
    BY MetadataAssumption DEF Blob!Idle, Rewriters
  <1>q. ASSUME UNCHANGED <<meta, exists, stale, crashes>>, Claiming(p) => Claiming(p)'
        PROVE  Blob(p)!ClaimHeld'
    BY <1>q DEF Blob!ClaimHeld, Blob!Claimed, Blob!Linked, Blob!TicketKeys, Claiming
  <1>1. CASE Blob(p)!PushRead(h)
    <2>1. h \notin Asking(p) \cup Holding(p) /\ UNCHANGED <<meta, exists, stale, crashes>>
      BY <1>1, <1>n DEF Blob!PushRead, Blob!Begin, Blob!Arrived, Asking, Holding
    <2> QED BY <1>q, <1>s, <2>1, OthersClaim
  <1>2. CASE Blob(p)!Claim(h)
    <2>1. req'[h] = [req[h] EXCEPT !.pc = "claimed"] BY <1>2 DEF Blob!Claim, Blob!Merge, Blob!Write
    <2>2. req'[h].kind = "push" /\ req'[h].pc = "claimed"
      BY <1>0, <1>2, <2>1 DEF Blob!Claim, RequestType
    <2> QED BY <2>2 DEF Blob!ClaimHeld
  <1>3. CASE Blob(p)!ClaimRefused(h)
    <2>1. h \notin Asking(p) \cup Holding(p) /\ UNCHANGED <<meta, exists, stale, crashes>>
      BY <1>3, <1>0 DEF Blob!ClaimRefused, Blob!Refuse, Asking, Holding
    <2> QED BY <1>q, <1>s, <2>1, OthersClaim
  <1>4. CASE Blob(p)!Post(h)
    <2>1. PICK pc \in {"created", "failed"} : req' = [req EXCEPT ![h].pc = pc]
      BY <1>4 DEF Blob!Post
    <2>2. req[h].kind = "push" /\ req[h] \in RequestType(BlobParts[p]) BY <1>0, <1>4 DEF Blob!Post
    <2>3. req'[h].kind = "push" /\ req'[h].pc = pc BY <1>t, <2>1, <2>2 DEF RequestType
    <2> QED BY <2>3 DEF Blob!ClaimHeld
  <1>5. CASE Blob(p)!Stamp(h)
    <2>1. "external_ticket" \in BlobParts[p].keys BY <1>0, <1>5 DEF Blob!Stamp
    <2>2. "T" # None BY MetadataAssumption DEF Texts
    <2>3. exists' = exists /\ (exists => meta'["external_ticket"] = "T")
      BY <1>5, <2>1 DEF Blob!Stamp, Blob!Merge, Blob!Write, Blob!Stamped, Blob!TicketKeys, Blob!Rest
    <2> QED BY <2>1, <2>2, <2>3 DEF Blob!ClaimHeld, Blob!Linked
  <1>6. CASE Blob(p)!Release(h)
    <2>1. CASE ~Blob(p)!Linked(meta)
      <3>1. "external_ticket_status" \in BlobParts[p].keys BY <1>0, <1>6 DEF Blob!Release
      <3>2. None # "creating" BY MetadataAssumption DEF Texts
      <3>3. exists' = exists /\ (exists => meta'["external_ticket_status"] = None)
        BY <1>6, <2>1, <3>1 DEF Blob!Release, Blob!Merge, Blob!Write, Blob!Rest
      <3> QED BY <3>2, <3>3 DEF Blob!ClaimHeld, Blob!Claimed
    <2>2. CASE Blob(p)!Linked(meta)
      BY <1>6, <2>2 DEF Blob!Release, Blob!Refuse, Blob!ClaimHeld, Blob!Linked
    <2> QED BY <2>1, <2>2
  <1> QED BY <1>1, <1>2, <1>3, <1>4, <1>5, <1>6

\* A merge of other keys, or of these with a value of its own, brings no claim.
LEMMA RisksHoldClaim ==
    ASSUME NEW p \in DOMAIN BlobParts, Knowing(p), Blob(p)!ClaimHeld, NEW h \in BlobParts[p].handlers,
           Blob(p)!BulkRisks(h)
    PROVE  Blob(p)!ClaimHeld'
  <1>1. PICK k \in BlobParts[p].editable :
          /\ Blob(p)!Write(h, {k}, [j \in BlobParts[p].keys |-> IF j \in {k} THEN [i \in BlobParts[p].keys |-> "risks"][j] ELSE meta[j]],
                           Blob(p)!Idle)
          /\ stale' = stale \ {k}
    BY DEF Blob!BulkRisks, Blob!Merge
  <1>2. req[h] = Blob(p)!Idle /\ exists /\ UNCHANGED <<exists, crashes>>
    BY DEF Blob!BulkRisks, Blob!Arrived, Blob!Rest
  <1>3. "risks" # None /\ "risks" # "creating"
    BY MetadataAssumption DEF Texts
  <1>4. \A j \in BlobParts[p].keys : meta'[j] = IF j = k THEN "risks" ELSE meta[j]
    BY <1>1, <1>2 DEF Blob!Write
  <1>5. h \notin Asking(p) \cup Holding(p)
    BY <1>2, MetadataAssumption DEF Asking, Holding, Blob!Idle, Rewriters
  <1>6. Claiming(p) => Claiming(p)'
    BY <1>5, RisksShape, OthersClaim
  <1> QED BY <1>1, <1>2, <1>3, <1>4, <1>6
        DEF Blob!ClaimHeld, Blob!Claimed, Blob!Linked, Blob!TicketKeys, Claiming

\* An old blob brings a claim back only where it overtakes something.
LEMMA BackHoldsClaim ==
    ASSUME NEW p \in DOMAIN BlobParts, Knowing(p), Blob(p)!ClaimHeld, NEW h \in BlobParts[p].handlers,
           Blob(p)!TicketsWrite(h) \/ Blob(p)!CloseWrite(h) \/ Blob(p)!BulkWrite(h)
           \/ Blob(p)!FormWrite(h) \/ Blob(p)!RecordTest(h)
    PROVE  Blob(p)!ClaimHeld'
  <1>0. PutBack(p, h) BY BackShapes
  <1>1. PICK keys \in SUBSET BlobParts[p].keys, said \in [BlobParts[p].keys -> Remarks] :
          Blob(p)!WriteBack(h, keys, said)
    BY <1>0 DEF PutBack
  <1>2. /\ Blob(p)!Write(h, keys, [k \in BlobParts[p].keys |-> IF k \in keys THEN said[k] ELSE req[h].read[k]], Blob(p)!Idle)
        /\ stale' = (stale \cup req[h].touched) \ keys
    BY <1>1 DEF Blob!WriteBack
  <1>3. /\ req[h] \in RequestType(BlobParts[p]) /\ Remembered(p, h) /\ req[h].pc = "read" /\ req[h].kind # "push"
    BY <1>0, BusyFacts DEF PutBack, Remembered
  <1>4. UNCHANGED <<exists, crashes>> BY <1>0 DEF PutBack
  <1>5. h \notin Asking(p) \cup Holding(p) BY <1>3 DEF Asking, Holding
  <1>6. Claiming(p) => Claiming(p)' BY <1>0, <1>5, OthersClaim
  <1>7. \A k \in keys : said[k] # None /\ said[k] # "creating"
    BY MetadataAssumption DEF Texts, Remarks
  <1> SUFFICES ASSUME exists, Blob(p)!Claimed(meta'), ~Blob(p)!Linked(meta'),
                      Blob(p)!TicketKeys \cap stale' = {}
               PROVE  Claiming(p) \/ crashes > 0 \/ \E b \in BlobParts[p].blobs : Blob(p)!Claimed(b)
    BY <1>4, <1>6 DEF Blob!ClaimHeld, Blob!Claimed, Blob!Linked, Blob!TicketKeys, Claiming
  <1>8. \A k \in BlobParts[p].keys : meta'[k] = IF k \in keys THEN said[k] ELSE req[h].read[k]
    BY <1>2 DEF Blob!Write
  <1>9. \A k \in Blob(p)!TicketKeys : k \notin keys /\ k \notin req[h].touched \cup stale
    BY <1>2, <1>7, <1>8 DEF Blob!TicketKeys, Blob!Claimed, Blob!Linked
  <1>10. \A k \in Blob(p)!TicketKeys : meta'[k] = meta[k]
    BY <1>3, <1>8, <1>9 DEF Remembered, Blob!TicketKeys
  <1>11. Blob(p)!Claimed(meta) /\ ~Blob(p)!Linked(meta) /\ Blob(p)!TicketKeys \cap stale = {}
    BY <1>9, <1>10 DEF Blob!TicketKeys, Blob!Claimed, Blob!Linked
  <1> QED BY <1>11 DEF Blob!ClaimHeld, Claiming

LEMMA ClaimsHeld ==
    ASSUME NEW p \in DOMAIN BlobParts, Knowing(p), Blob(p)!ClaimHeld, Blob(p)!Next PROVE Blob(p)!ClaimHeld'
  <1>1. ASSUME NEW h \in BlobParts[p].handlers,
               \/ Blob(p)!TicketsRead(h) \/ Blob(p)!CloseRead(h) \/ Blob(p)!BulkRead(h)
               \/ Blob(p)!FormRead(h) \/ Blob(p)!TestRead(h)
        PROVE  Blob(p)!ClaimHeld'
    <2>1. PICK kind \in Rewriters \ {"push"} : Blob(p)!ReadBlob(h, kind)
      BY <1>1 DEF Rewriters, Blob!TicketsRead, Blob!CloseRead, Blob!BulkRead, Blob!FormRead, Blob!TestRead
    <2>2. Quiet(p, h) BY <2>1, ReadShapes
    <2>3. req[h] = Blob(p)!Idle /\ UNCHANGED <<meta, exists, stale, crashes>>
      BY <2>1 DEF Blob!ReadBlob, Blob!Begin, Blob!Arrived
    <2>4. h \notin Asking(p) \cup Holding(p)
      BY <2>3, MetadataAssumption DEF Asking, Holding, Blob!Idle, Rewriters
    <2>5. Claiming(p) => Claiming(p)' BY <2>2, <2>4, OthersClaim
    <2> QED BY <2>3, <2>5 DEF Blob!ClaimHeld, Blob!Claimed, Blob!Linked, Blob!TicketKeys, Claiming
  <1>2. ASSUME NEW h \in BlobParts[p].handlers, Blob(p)!Delete(h)
        PROVE  Blob(p)!ClaimHeld'
    BY <1>2 DEF Blob!Delete, Blob!ClaimHeld
  <1>3. ASSUME NEW h \in BlobParts[p].handlers, Blob(p)!Crash(h)
        PROVE  Blob(p)!ClaimHeld'
    BY <1>3, BlobFacts DEF Blob!Crash, Blob!ClaimHeld, Knowing, BlobTyped
  <1>4. ASSUME NEW h \in BlobParts[p].handlers, Blob(p)!Replace(h)
        PROVE  Blob(p)!ClaimHeld'
    BY <1>4 DEF Blob!Replace, Blob!Write, Blob!ClaimHeld, Blob!Claimed, Blob!Linked
  <1> QED BY <1>1, <1>2, <1>3, <1>4, PushHoldsClaim, RisksHoldClaim, BackHoldsClaim DEF Blob!Next

-----------------------------------------------------------------------------
(* The runs of a control and the effectiveness they left. *)

LEMMA RunsBegan ==
    ASSUME NEW p, RunInv(p), NEW j \in DOMAIN runs
    PROVE  runs[j].began \in Nat /\ runs[j].began <= writes
  <1> DEFINE S == [began : Nat, ended : Nat, result : {"pass", "fail"}]
  <1>1. runs \in Seq(S) BY DEF RunInv
  <1>2. \A r \in S : r.began \in Nat OBVIOUS
  <1> HIDE DEF S
  <1>3. runs[j] \in S BY <1>1
  <1> QED BY <1>2, <1>3 DEF RunInv

LEMMA RunsKept ==
    ASSUME NEW p \in DOMAIN BlobParts, RunInv(p), runs' = runs, exists' => exists,
           writes \in Nat, writes' \in Nat, writes <= writes',
           Rated(p) => ideal'["effectiveness"] = ideal["effectiveness"]
    PROVE  RunInv(p)'
  <1>1. \A j \in DOMAIN runs : runs[j].began \in Nat BY RunsBegan
  <1>2. \A j \in DOMAIN runs : runs[j].began <= writes' BY <1>1 DEF RunInv
  <1> QED BY <1>2 DEF RunInv, Rated

\* Nobody but a test and a blob that is posted says how effective a control is.
LEMMA RateStays ==
    ASSUME NEW p \in DOMAIN BlobParts, Knowing(p), NEW h \in BlobParts[p].handlers, Rated(p),
           NEW keys, NEW new, NEW then, Blob(p)!Write(h, keys, new, then), "effectiveness" \notin keys
    PROVE  ideal'["effectiveness"] = ideal["effectiveness"] /\ writes' = writes + 1
  BY DEF Blob!Write, Rated

LEMMA WritesRate ==
    ASSUME NEW p \in DOMAIN BlobParts, Knowing(p), RunInv(p), NEW h \in BlobParts[p].handlers,
           Blob(p)!Claim(h) \/ Blob(p)!Stamp(h) \/ Blob(p)!TicketsWrite(h) \/ Blob(p)!CloseWrite(h)
           \/ Blob(p)!BulkWrite(h) \/ Blob(p)!FormWrite(h) \/ Blob(p)!BulkRisks(h)
           \/ (Blob(p)!Release(h) /\ ~Blob(p)!Linked(meta))
    PROVE  RunInv(p)'
  <1>t. writes \in Nat BY BlobFacts DEF Knowing, BlobTyped
  <1>1. runs' = runs /\ exists' = exists /\ writes' = writes + 1
    BY DEF Blob!Claim, Blob!Stamp, Blob!TicketsWrite, Blob!CloseWrite, Blob!BulkWrite, Blob!FormWrite,
           Blob!BulkRisks, Blob!Release, Blob!Merge, Blob!WriteBack, Blob!Write, Blob!Rest
  <1>2. ASSUME Rated(p) PROVE ideal'["effectiveness"] = ideal["effectiveness"]
    <2>k. \A k \in BlobParts[p].editable : "effectiveness" \notin {k} BY <1>2 DEF Rated
    <2>1. CASE Blob(p)!Claim(h) BY <1>2, <2>1, RateStays DEF Blob!Claim, Blob!Merge
    <2>2. CASE Blob(p)!Stamp(h) BY <1>2, <2>2, RateStays DEF Blob!Stamp, Blob!Merge, Blob!TicketKeys
    <2>3. CASE Blob(p)!TicketsWrite(h) BY <1>2, <2>3, RateStays DEF Blob!TicketsWrite, Blob!WriteBack
    <2>4. CASE Blob(p)!CloseWrite(h) BY <1>2, <2>4, RateStays DEF Blob!CloseWrite, Blob!WriteBack
    <2>5. CASE Blob(p)!BulkWrite(h) BY <1>2, <2>k, <2>5, RateStays DEF Blob!BulkWrite, Blob!WriteBack
    <2>6. CASE Blob(p)!FormWrite(h) BY <1>2, <2>k, <2>6, RateStays DEF Blob!FormWrite, Blob!WriteBack
    <2>7. CASE Blob(p)!BulkRisks(h) BY <1>2, <2>k, <2>7, RateStays DEF Blob!BulkRisks, Blob!Merge
    <2>8. CASE Blob(p)!Release(h) /\ ~Blob(p)!Linked(meta)
      BY <1>2, <2>8, RateStays DEF Blob!Release, Blob!Merge
    <2> QED BY <2>1, <2>2, <2>3, <2>4, <2>5, <2>6, <2>7, <2>8
  <1> QED BY <1>t, <1>1, <1>2, RunsKept

\* A test is over when every test before it has begun.
LEMMA TestRates ==
    ASSUME NEW p \in DOMAIN BlobParts, Knowing(p), RunInv(p), NEW h \in BlobParts[p].handlers,
           Blob(p)!RecordTest(h)
    PROVE  RunInv(p)'
  <1>t. writes \in Nat BY BlobFacts DEF Knowing, BlobTyped
  <1>1. PICK result \in {"pass", "fail"} :
          /\ Blob(p)!Write(h, {"effectiveness"},
                 [k \in BlobParts[p].keys |-> IF k \in {"effectiveness"} THEN [j \in BlobParts[p].keys |-> result][k]
                                              ELSE req[h].read[k]], Blob(p)!Idle)
          /\ runs' = IF exists THEN Append(runs, [began |-> req[h].began, ended |-> writes, result |-> result])
                     ELSE runs
    BY DEF Blob!RecordTest, Blob!WriteBack
  <1>2. exists' = exists /\ writes' = writes + 1 BY <1>1 DEF Blob!RecordTest, Blob!Write
  <1>3. CASE ~exists
    <2>1. \A j \in DOMAIN runs : runs[j].began \in Nat BY RunsBegan
    <2>2. runs' = runs BY <1>1, <1>3
    <2>3. \A j \in DOMAIN runs : runs[j].began <= writes' BY <1>2, <1>t, <2>1 DEF RunInv
    <2> QED BY <1>2, <1>3, <2>2, <2>3 DEF RunInv
  <1>4. CASE exists
    <2>1. req[h] # Blob(p)!Idle BY BackShapes DEF PutBack
    <2>2. req[h].began \in Nat /\ req[h].began <= writes
      BY <2>1, BusyFacts DEF RequestType, Remembered
    <2> DEFINE entry == [began |-> req[h].began, ended |-> writes, result |-> result]
    <2>3. entry \in [began : Nat, ended : Nat, result : {"pass", "fail"}] BY <1>t, <2>2
    <2>4. runs' = Append(runs, entry) /\ entry.began <= writes /\ entry.ended = writes /\ entry.result = result
      BY <1>1, <1>4, <2>2
    <2> HIDE DEF entry
    <2>5. /\ runs' \in Seq([began : Nat, ended : Nat, result : {"pass", "fail"}])
          /\ Len(runs') = Len(runs) + 1 /\ Len(runs) \in Nat /\ DOMAIN runs = 1..Len(runs) /\ DOMAIN runs' = 1..Len(runs')
          /\ runs'[Len(runs')] = entry /\ \A j \in DOMAIN runs : runs'[j] = runs[j]
      BY <2>3, <2>4 DEF RunInv
    <2>6. \A j \in DOMAIN runs' : runs'[j].began \in Nat /\ runs'[j].began <= writes
      <3>1. \A j \in DOMAIN runs : runs[j].began \in Nat /\ runs[j].began <= writes BY RunsBegan
      <3> QED BY <2>3, <2>4, <2>5, <3>1
    <2>7. Rated(p) => ideal'["effectiveness"] = result
      BY <1>1, <1>4 DEF Rated, Blob!Write
    <2>8. \A j \in DOMAIN runs' : runs'[j].began <= writes' /\ runs'[j].began <= runs'[Len(runs')].ended
      BY SMTT(30), <1>2, <1>t, <2>4, <2>5, <2>6
    <2>9. Rated(p) => ideal'["effectiveness"] = runs'[Len(runs')].result
      BY <2>4, <2>5, <2>7
    <2> QED BY <2>5, <2>8, <2>9 DEF RunInv, Rated
  <1> QED BY <1>3, <1>4

LEMMA RunsNext ==
    ASSUME NEW p \in DOMAIN BlobParts, Knowing(p), RunInv(p), Blob(p)!Next PROVE RunInv(p)'
  <1>t. writes \in Nat BY BlobFacts DEF Knowing, BlobTyped
  <1>1. ASSUME NEW h \in BlobParts[p].handlers,
               \/ Blob(p)!TicketsRead(h) \/ Blob(p)!CloseRead(h) \/ Blob(p)!BulkRead(h)
               \/ Blob(p)!FormRead(h) \/ Blob(p)!TestRead(h)
        PROVE  RunInv(p)'
    <2>1. UNCHANGED <<runs, writes, exists, ideal>>
      BY <1>1 DEF Blob!TicketsRead, Blob!CloseRead, Blob!BulkRead, Blob!FormRead, Blob!TestRead, Blob!ReadBlob
    <2> QED BY <1>t, <2>1, RunsKept
  <1>2. ASSUME NEW h \in BlobParts[p].handlers,
               \/ Blob(p)!PushRead(h) \/ Blob(p)!ClaimRefused(h) \/ Blob(p)!Post(h)
               \/ (Blob(p)!Release(h) /\ Blob(p)!Linked(meta)) \/ Blob(p)!Delete(h) \/ Blob(p)!Crash(h)
        PROVE  RunInv(p)'
    <2>1. UNCHANGED <<runs, writes, ideal>> /\ (exists' => exists)
      BY <1>2 DEF Blob!PushRead, Blob!ClaimRefused, Blob!Post, Blob!Release, Blob!Refuse, Blob!Delete, Blob!Crash
    <2> QED BY <1>t, <2>1, RunsKept
  <1>3. ASSUME NEW h \in BlobParts[p].handlers, Blob(p)!Replace(h)
        PROVE  RunInv(p)'
    <2>1. PICK b \in BlobParts[p].blobs : Blob(p)!Write(h, BlobParts[p].keys, b, Blob(p)!Idle)
      BY <1>3 DEF Blob!Replace
    <2>2. runs' = runs /\ exists' = exists /\ exists /\ writes' = writes + 1
      BY <1>3, <2>1 DEF Blob!Replace, Blob!Rest, Blob!Write
    <2>3. Rated(p) => ideal'["effectiveness"] = b["effectiveness"]
      BY <2>1, <2>2 DEF Blob!Write, Rated
    <2>4. \A j \in DOMAIN runs : runs[j].began \in Nat BY RunsBegan
    <2>5. \A j \in DOMAIN runs : runs[j].began <= writes' BY <1>t, <2>2, <2>4 DEF RunInv
    <2> QED BY <2>2, <2>3, <2>5 DEF RunInv, Rated
  <1> QED BY <1>1, <1>2, <1>3, WritesRate, TestRates DEF Blob!Next

-----------------------------------------------------------------------------
(* The blob of a part. *)

LEMMA InitBlobInv ==
    ASSUME NEW p \in DOMAIN BlobParts, Blob(p)!Init PROVE BlobInv(p)
  <1>1. BlobTyped(p)
    BY BlobFacts DEF Blob!Init, BlobTyped, BlobType, Values
  <1>2. Busy(p) = {}
    BY DEF Blob!Init, Busy
  <1>3. Blob(p)!Idle.kind # "push"
    BY MetadataAssumption DEF Blob!Idle, Rewriters
  <1>4. Asking(p) = {} /\ Holding(p) = {}
    BY <1>3 DEF Blob!Init, Asking, Holding
  <1>5. TicketInv(p)
    <2>1. Paid(p) \in Nat BY <1>1 DEF Paid, BlobTyped
    <2> QED BY <1>4, <2>1, FS_EmptySet DEF TicketInv, Blob!Init
  <1>6. Blob(p)!ClaimHeld /\ Blob(p)!EditsKept
    BY MetadataAssumption DEF Blob!Init, Blob!ClaimHeld, Blob!Claimed, Blob!EditsKept, Texts
  <1>7. RunInv(p)
    BY DEF Blob!Init, RunInv
  <1> QED BY <1>1, <1>2, <1>5, <1>6, <1>7 DEF BlobInv

LEMMA NextBlobInv ==
    ASSUME NEW p \in DOMAIN BlobParts, BlobInv(p), [Blob(p)!Next]_BlobVars PROVE BlobInv(p)'
  <1>k. Knowing(p) BY DEF BlobInv, Knowing
  <1>1. CASE Blob(p)!Next
    <2>1. Knowing(p)' BY <1>1, <1>k, ErasedTyped, KnowingNext
    <2>2. TicketInv(p)' BY <1>1, <1>k, TicketsPaid DEF BlobInv
    <2>3. Blob(p)!ClaimHeld' BY <1>1, <1>k, ClaimsHeld DEF BlobInv
    <2>4. Blob(p)!EditsKept' BY <1>1, <1>k, EditsStay DEF BlobInv
    <2>5. RunInv(p)' BY <1>1, <1>k, RunsNext DEF BlobInv
    <2> QED BY <2>1, <2>2, <2>3, <2>4, <2>5 DEF BlobInv, Knowing
  <1>2. CASE UNCHANGED BlobVars
    <2>0. UNCHANGED <<meta, exists, req, tickets, runs, writes, crashes, ideal, stale, unheard, erased>>
      BY <1>2 DEF BlobVars
    <2>1. Knowing(p)' BY <1>k, <2>0 DEF Knowing, BlobTyped, Busy, Remembered, Blob!Idle
    <2>2. Asking(p)' = Asking(p) /\ Holding(p)' = Holding(p) /\ Paid(p)' = Paid(p)
      BY <2>0 DEF Asking, Holding, Paid, Taken, Blob!Linked, Blob!Claimed
    <2>3. TicketInv(p)' BY <2>0, <2>2 DEF TicketInv, BlobInv
    <2>4. Blob(p)!ClaimHeld' /\ Blob(p)!EditsKept' /\ RunInv(p)'
      BY <2>0 DEF BlobInv, Blob!ClaimHeld, Blob!Claimed, Blob!Linked, Blob!TicketKeys, Blob!EditsKept, RunInv, Rated
    <2> QED BY <2>1, <2>3, <2>4 DEF BlobInv, Knowing
  <1> QED BY <1>1, <1>2

LEMMA BlobInvHolds ==
    ASSUME NEW p \in DOMAIN BlobParts, BlobInv(p) PROVE Blob(p)!TicketsHold /\ Blob(p)!BlobHolds
  <1>1. Blob(p)!TypeOK
    <2>1. unheard \in 0..tickets
      BY PushesFinite DEF BlobInv, BlobTyped, TicketInv
    <2> QED BY <2>1 DEF BlobInv, BlobTyped, BlobType, RequestType, Blob!TypeOK
  <1>2. Blob(p)!TicketOnce
    BY PushesFinite DEF BlobInv, BlobTyped, TicketInv, Paid, Blob!TicketOnce
  <1>3. Blob(p)!LatestTest
    <2> SUFFICES ASSUME exists, "effectiveness" \in BlobParts[p].keys \ (stale \cup BlobParts[p].editable), runs # <<>>
                 PROVE  \/ \E i \in DOMAIN runs : /\ meta["effectiveness"] = runs[i].result
                                                  /\ \A j \in DOMAIN runs : runs[j].began <= runs[i].ended
                        \/ \E b \in BlobParts[p].blobs : meta["effectiveness"] = b["effectiveness"]
      BY DEF Blob!LatestTest
    <2>1. meta["effectiveness"] = ideal["effectiveness"] BY DEF BlobInv, Blob!EditsKept
    <2>2. Len(runs) \in DOMAIN runs BY DEF BlobInv, RunInv
    <2> QED BY <2>1, <2>2 DEF BlobInv, RunInv, Rated
  <1> QED BY <1>1, <1>2, <1>3 DEF BlobInv, Blob!TicketsHold, Blob!BlobHolds

-----------------------------------------------------------------------------
(* The parts of the run *)

LEMMA BlobStarts ==
    ASSUME BlobInit, NEW p \in DOMAIN BlobParts, part = p PROVE Blob(p)!Init
  <1>1. PICK q \in DOMAIN BlobParts : part = q /\ Blob(q)!Init BY DEF BlobInit
  <1> QED BY <1>1

LEMMA BlobGoes ==
    ASSUME [BlobNext]_<<part, BlobVars>>, NEW p \in DOMAIN BlobParts, part' = p
    PROVE  part = p /\ [Blob(p)!Next]_BlobVars
  <1>1. CASE UNCHANGED <<part, BlobVars>> BY <1>1
  <1>2. CASE BlobNext
    <2>1. part' = part BY <1>2 DEF BlobNext
    <2>2. PICK q \in DOMAIN BlobParts : part = q /\ Blob(q)!Next BY <1>2 DEF BlobNext
    <2> QED BY <2>1, <2>2
  <1> QED BY <1>1, <1>2

\* A finding has one ticket, the edits that must stay do, and the latest test is the
\* one that was told, in every behaviour of every part about a blob (BlobsHold).
THEOREM BlobsAlwaysHold == BlobSpec => []BlobsHold
  <1> DEFINE Inv == \A p \in DOMAIN BlobParts : part = p => BlobInv(p)
  <1>1. BlobInit => Inv BY BlobStarts, InitBlobInv
  <1>2. Inv /\ [BlobNext]_<<part, BlobVars>> => Inv'
    <2> SUFFICES ASSUME Inv, [BlobNext]_<<part, BlobVars>>, NEW p \in DOMAIN BlobParts, part' = p
                 PROVE  BlobInv(p)'
      OBVIOUS
    <2>1. part = p /\ [Blob(p)!Next]_BlobVars BY BlobGoes
    <2>2. BlobInv(p) BY <2>1
    <2> QED BY <2>1, <2>2, NextBlobInv
  <1>3. Inv => BlobsHold BY BlobInvHolds DEF BlobsHold
  <1> QED BY <1>1, <1>2, <1>3, PTL DEF BlobSpec
=============================================================================
