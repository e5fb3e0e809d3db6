----------------------------- MODULE GenericSync -----------------------------
(***************************************************************************)
(* POST /api/sync/upsert (services/generic_sync.py and external_sync.py):  *)
(* a caller's records and edges are projected into the asset graph of one  *)
(* organization in one READ COMMITTED transaction, beside other            *)
(* synchronisations and people who delete assets.                          *)
(*                                                                         *)
(* A transaction keeps what it has written in txn until it commits; the    *)
(* rows it has written are locked, the assets a foreign key of it points   *)
(* to are share-locked, and a statement waits for the transactions in      *)
(* Blockers.  Every await of sync is a step.                               *)
(***************************************************************************)
EXTENDS Integers, Sequences, FiniteSets

CONSTANTS
    Syncs,       \* the requests that post a payload, one each
    Editors,     \* the requests of people that delete an asset, one each
    Sources, Refs, EdgeRefs,
    Names,       \* the names (and types) that people gave to assets
    Bearers,     \* the assets that bear a name, whatever their source: the name
                 \* of a key is fixed, no payload renames a row
    Types,
    Posts,       \* the payloads that callers send
    InitAssets, InitEdges,
    Null

Procs == Syncs \cup Editors

\* (source, source_ref) is unique; a hand-authored row has no source.
AssetKeys == (Sources \X Refs) \cup ({Null} \X Names)
EdgeKeys == (Sources \cup {Null}) \X EdgeRefs

\* The id of a row: a deleted row never comes back, a re-created one has a
\* new id, so an id is a key and how often its row has been inserted.
AssetIds == AssetKeys \X Nat
AssetRow == [live : BOOLEAN, n : Nat, type : Types, status : {"active", "archived"},
             owner : AssetIds \cup {Null}]
EdgeRow == [live : BOOLEAN, n : Nat, from : AssetIds \cup {Null}, to : AssetIds \cup {Null}]

\* One end of an edge is a ref of the payload's source, or a name.
Ends == Refs \cup Names
RecordType == [ref : Refs, type : Types, status : {"active", "archived"},
               owner : Names \cup {Null}]
EdgeType == [ref : EdgeRefs, from : Ends, to : Ends]
\* "related" is whether the payload has a relationships key at all.
PostType == [source : Sources, assets : Seq(RecordType), related : BOOLEAN,
             edges : Seq(EdgeType), missing : {"ignore", "archive", "delete"},
             dry : BOOLEAN]

\* validate_payload: no ref twice.
ValidPost(post) ==
    /\ \A i, j \in DOMAIN post.assets :
         i # j => post.assets[i].ref # post.assets[j].ref
    /\ \A i, j \in DOMAIN post.edges :
         i # j => post.edges[i].ref # post.edges[j].ref
    /\ post.related \/ post.edges = << >>

\* The row of an id is there; what edges and owners name are such rows.
Holds(table, id) == table[id[1]].live /\ table[id[1]].n = id[2]
Sound(rows, links) ==
    /\ \A k \in EdgeKeys : links[k].live =>
         /\ Null \notin {links[k].from, links[k].to}
         /\ Holds(rows, links[k].from) /\ Holds(rows, links[k].to)
    /\ \A k \in AssetKeys : rows[k].live /\ rows[k].owner # Null => Holds(rows, rows[k].owner)

\* What an end may stand for: the row of a ref, or any that bears the name.
KeysOf(post, end) == IF end \in Refs THEN {<<post.source, end>>} ELSE Bearers[end]

ASSUME SyncAssumption ==
    /\ Bearers \in [Names -> SUBSET AssetKeys]
    /\ Posts \subseteq PostType /\ Null \notin Posts \cup AssetIds
    /\ InitAssets \in [AssetKeys -> AssetRow]
    /\ InitEdges \in [EdgeKeys -> EdgeRow]
    /\ Sound(InitAssets, InitEdges)
    /\ Syncs \cap Editors = {} /\ Refs \cap Names = {} /\ Null \notin Sources
    /\ IsFiniteSet(Procs)

VARIABLES
    assets, edges,  \* the committed tables
    txn,            \* what each open transaction has written and share-locked
    run,            \* how far each request has come
    overlap         \* history: the requests during which another sync committed

tables == <<assets, edges>>
vars == <<assets, edges, txn, run, overlap>>

Pcs == {"idle", "asset", "owner", "own", "edge", "pick_edges", "prune", "pick", "sweep",
        "cascade", "commit", "done", "failed"}
NoRun == [at |-> "idle", post |-> Null, pos |-> 1, cache |-> << >>, owner |-> Null,
          seen |-> {}, victims |-> {}]

\* Nothing written: the transaction of a request that has none open.
NoTxn == [assets |-> << >>, edges |-> << >>, shares |-> {}]

Init ==
    /\ assets = InitAssets
    /\ edges = InitEdges
    /\ txn = [p \in Procs |-> NoTxn]
    /\ run = [p \in Procs |-> NoRun]
    /\ overlap = {}

-----------------------------------------------------------------------------
(* Rows, ids and locks *)

IdOf(table, k) == <<k, table[k].n>>

\* Rows written over others, and one row.
Over(new, old) ==
    [k \in DOMAIN new \cup DOMAIN old |-> IF k \in DOMAIN new THEN new[k] ELSE old[k]]
Single(k, row) == [x \in {k} |-> row]

\* What a statement of p reads: the committed rows under its own writes.
SeenAssets(p) ==
    [k \in AssetKeys |-> IF k \in DOMAIN txn[p].assets THEN txn[p].assets[k] ELSE assets[k]]
SeenEdges(p) ==
    [k \in EdgeKeys |-> IF k \in DOMAIN txn[p].edges THEN txn[p].edges[k] ELSE edges[k]]

AssetWriters(p, k) == {q \in Procs \ {p} : k \in DOMAIN txn[q].assets}
EdgeWriters(p, k) == {q \in Procs \ {p} : k \in DOMAIN txn[q].edges}
\* A foreign key waits for a transaction that has deleted its target, and a
\* DELETE for one that has a foreign key to the row.
Deleters(p, k) == {q \in AssetWriters(p, k) : ~txn[q].assets[k].live}
Sharers(p, k) == {q \in Procs \ {p} : k \in txn[q].shares}

Post(p) == run[p].post
Record(p) == Post(p).assets[run[p].pos]
RecordKey(p) == <<Post(p).source, Record(p).ref>>
Edge(p) == Post(p).edges[run[p].pos]
EdgeKey(p) == <<Post(p).source, Edge(p).ref>>
EndId(p, end) == run[p].cache[end]
NewEnds(p) ==
    LET old == SeenEdges(p)[EdgeKey(p)]
        new == {EndId(p, Edge(p).from), EndId(p, Edge(p).to)}
    IN IF old.live THEN new \ {old.from, old.to} ELSE new

Resolved(p) == {Edge(p).from, Edge(p).to} \subseteq DOMAIN run[p].cache
Linkable(p) ==
    /\ Resolved(p)
    /\ Null \notin {EndId(p, Edge(p).from), EndId(p, Edge(p).to)}
    /\ EndId(p, Edge(p).from) # EndId(p, Edge(p).to)

NewOwner(p) == {run[p].owner} \ {SeenAssets(p)[RecordKey(p)].owner}
\* A person deletes; a synchronisation does what on_missing says.
Archives(p) == p \in Syncs /\ Post(p).missing = "archive"

\* The victims that are still there.
VictimAssets(p) == {k \in AssetKeys : SeenAssets(p)[k].live
                                      /\ IdOf(SeenAssets(p), k) \in run[p].victims}
VictimEdges(p) == {k \in EdgeKeys : SeenEdges(p)[k].live
                                    /\ IdOf(SeenEdges(p), k) \in run[p].victims}
\* mutant: no ON DELETE CASCADE for target_asset_id
Orphans_OfSource(p) == {k \in EdgeKeys : /\ SeenEdges(p)[k].live
                                         /\ SeenEdges(p)[k].from \in run[p].victims}

\* ON DELETE CASCADE and ON DELETE SET NULL of the assets just deleted.
Orphans(p) == {k \in EdgeKeys : /\ SeenEdges(p)[k].live
                                /\ {SeenEdges(p)[k].from, SeenEdges(p)[k].to}
                                     \cap run[p].victims # {}}
Owned(p) == {k \in AssetKeys : SeenAssets(p)[k].live
                               /\ SeenAssets(p)[k].owner \in run[p].victims}

\* The UPDATE leaves those alone that are archived already.
Swept(p) == {k \in VictimAssets(p) : Archives(p) => SeenAssets(p)[k].status # "archived"}

\* The transactions the next statement of p waits for.
Blockers(p) ==
    CASE run[p].at = "asset" -> AssetWriters(p, RecordKey(p))
      [] run[p].at = "own" -> UNION {Deleters(p, id[1]) : id \in NewOwner(p)}
      [] run[p].at = "edge" /\ Linkable(p) ->
           EdgeWriters(p, EdgeKey(p))
             \cup (UNION {Deleters(p, id[1]) : id \in NewEnds(p)})
      [] run[p].at = "prune" -> UNION {EdgeWriters(p, k) : k \in VictimEdges(p)}
      [] run[p].at = "sweep" ->
           UNION {AssetWriters(p, k)
                    \cup (IF Archives(p) THEN {} ELSE Sharers(p, k)) : k \in Swept(p)}
      [] run[p].at = "cascade" ->
           (UNION {EdgeWriters(p, k) : k \in Orphans(p)})
             \cup (UNION {AssetWriters(p, k) : k \in Owned(p)})
      [] OTHER -> {}

Free(p, at) == run[p].at = at /\ Blockers(p) = {}

\* A statement of p writes rows of the two tables and share-locks what they name.
Written(p, newAssets, newEdges, named) ==
    [assets |-> Over(newAssets, txn[p].assets), edges |-> Over(newEdges, txn[p].edges),
     shares |-> txn[p].shares \cup named]
Write(p, newAssets, newEdges, named) ==
    txn' = [txn EXCEPT ![p] = Written(p, newAssets, newEdges, named)]

\* The loops of sync: the assets, the edges, the prune, one round per type.
FirstOfType(post, i) == \A j \in 1 .. i - 1 : post.assets[j].type # post.assets[i].type
Rounds(post, i) == {j \in i .. Len(post.assets) : FirstOfType(post, j)}
NextRound(r, i) ==
    IF Rounds(r.post, i) = {} THEN [r EXCEPT !.at = "commit"]
    ELSE [r EXCEPT !.at = "pick", !.victims = {},
                   !.pos = CHOOSE j \in Rounds(r.post, i) :
                             \A l \in Rounds(r.post, i) : j <= l]
\* mutant: an assets-only upload prunes as well
AfterEdges_Always(r) == [r EXCEPT !.at = "pick_edges"]
AfterEdges(r) == IF r.post.related THEN [r EXCEPT !.at = "pick_edges"] ELSE NextRound(r, 1)
NextEdge(r) ==
    IF r.pos < Len(r.post.edges) THEN [r EXCEPT !.at = "edge", !.pos = @ + 1]
    ELSE AfterEdges(r)
NextRecord(r) ==
    IF r.pos < Len(r.post.assets) THEN [r EXCEPT !.at = "asset", !.pos = @ + 1]
    ELSE NextEdge([r EXCEPT !.pos = 0])

Move(p, r) == run' = [run EXCEPT ![p] = r]
\* mutant: the handler of the exception without its rollback
RollBack_Forgotten(p, at) ==
    /\ Move(p, [NoRun EXCEPT !.at = at])
    /\ UNCHANGED <<tables, txn, overlap>>

\* An exception, a dry run, a dead worker: PostgreSQL forgets the transaction.
RollBack(p, at) ==
    /\ txn' = [txn EXCEPT ![p] = NoTxn]
    /\ Move(p, [NoRun EXCEPT !.at = at])
    /\ UNCHANGED <<tables, overlap>>

-----------------------------------------------------------------------------
(* The synchronisation *)

Begin(p, post) ==
    /\ run[p].at = "idle"
    /\ ValidPost(post)
    /\ Move(p, NextRecord([NoRun EXCEPT !.post = post, !.pos = 0]))
    /\ UNCHANGED <<tables, txn, overlap>>

\* ON CONFLICT keeps the type and the owner that the row has.
Upserted(p) ==
    LET old == SeenAssets(p)[RecordKey(p)]
    IN IF old.live THEN [old EXCEPT !.status = Record(p).status]
       ELSE [live |-> TRUE, n |-> old.n + 1, type |-> Record(p).type,
             status |-> Record(p).status, owner |-> Null]

UpsertAsset(p) ==
    /\ Free(p, "asset")
    /\ Write(p, Single(RecordKey(p), Upserted(p)), << >>, {})
    /\ LET r == [run[p] EXCEPT !.cache =
                   Over(Single(Record(p).ref, <<RecordKey(p), Upserted(p).n>>), @)]
       IN Move(p, IF Record(p).owner = Null THEN NextRecord(r) ELSE [r EXCEPT !.at = "owner"])
    /\ UNCHANGED <<tables, overlap>>

\* The ids found for an end.  By name the code takes the oldest; rows have no
\* age here, so it may be any.
Found(p, end) == {IdOf(SeenAssets(p), k) : k \in {x \in KeysOf(Post(p), end) : SeenAssets(p)[x].live}}

\* The owner is looked up by its name, among the rows of any source ...
FindOwner(p) ==
    /\ run[p].at = "owner"
    /\ LET found == Found(p, Record(p).owner)
       IN \/ found = {} /\ Move(p, NextRecord(run[p]))
          \/ \E id \in found : Move(p, [run[p] EXCEPT !.at = "own", !.owner = id])
    /\ UNCHANGED <<tables, txn, overlap>>

\* ... and written in a second statement, which fails if it has gone.
SetOwner(p) ==
    /\ Free(p, "own")
    /\ \A id \in NewOwner(p) : Holds(SeenAssets(p), id)
    /\ LET row == [SeenAssets(p)[RecordKey(p)] EXCEPT !.owner = run[p].owner]
       IN Write(p, Single(RecordKey(p), row), << >>, {id[1] : id \in NewOwner(p)})
    /\ Move(p, NextRecord(run[p]))
    /\ UNCHANGED <<tables, overlap>>

OwnerGone(p) ==
    /\ Free(p, "own")
    /\ \E id \in NewOwner(p) : ~Holds(SeenAssets(p), id)
    /\ RollBack(p, "failed")

\* An end of an edge: this batch and earlier look-ups first, then the table.
Resolve(p) ==
    /\ run[p].at = "edge" /\ ~Resolved(p)
    /\ LET end == IF Edge(p).from \in DOMAIN run[p].cache THEN Edge(p).to ELSE Edge(p).from
       IN \E id \in IF Found(p, end) = {} THEN {Null} ELSE Found(p, end) :
            Move(p, [run[p] EXCEPT !.cache = Over(Single(end, id), @)])
    /\ UNCHANGED <<tables, txn, overlap>>

\* An end that resolves to nothing, or a self-link, is a warning.
SkipEdge(p) ==
    /\ run[p].at = "edge" /\ Resolved(p) /\ ~Linkable(p)
    /\ Move(p, NextEdge(run[p]))
    /\ UNCHANGED <<tables, txn, overlap>>

UpsertEdge(p) ==
    /\ Free(p, "edge") /\ Linkable(p)
    /\ \A id \in NewEnds(p) : Holds(SeenAssets(p), id)
    /\ LET old == SeenEdges(p)[EdgeKey(p)]
           row == [live |-> TRUE, n |-> IF old.live THEN old.n ELSE old.n + 1,
                   from |-> EndId(p, Edge(p).from), to |-> EndId(p, Edge(p).to)]
       IN Write(p, << >>, Single(EdgeKey(p), row), {id[1] : id \in NewEnds(p)})
    /\ Move(p, NextEdge([run[p] EXCEPT !.seen = @ \cup {Edge(p).ref}]))
    /\ UNCHANGED <<tables, overlap>>

\* The foreign key of an end that was deleted since it was looked up.
EndGone(p) ==
    /\ Free(p, "edge") /\ Linkable(p)
    /\ \E id \in NewEnds(p) : ~Holds(SeenAssets(p), id)
    /\ RollBack(p, "failed")

\* mutant: the WHERE clause without the source
StaleEdges_AnySource(p) == {k \in EdgeKeys : /\ SeenEdges(p)[k].live
                                             /\ k[2] \notin run[p].seen}

\* prune_stale_edges is one DELETE: the rows it finds, then those still there.
StaleEdges(p) == {k \in EdgeKeys : /\ SeenEdges(p)[k].live
                                   /\ k[1] = Post(p).source /\ k[2] \notin run[p].seen}
PickEdges(p) ==
    /\ run[p].at = "pick_edges"
    /\ Move(p, [run[p] EXCEPT !.at = "prune",
                              !.victims = {IdOf(SeenEdges(p), k) : k \in StaleEdges(p)}])
    /\ UNCHANGED <<tables, txn, overlap>>

Removed(rows, K) == [k \in K |-> [rows[k] EXCEPT !.live = FALSE]]

PruneEdges(p) ==
    /\ Free(p, "prune")
    /\ Write(p, << >>, Removed(SeenEdges(p), VictimEdges(p)), {})
    /\ Move(p, NextRound(run[p], 1))
    /\ UNCHANGED <<tables, overlap>>

\* _reconcile_missing for the type of the record at pos: a SELECT ...
CarriedRefs(post, type) ==
    {post.assets[i].ref : i \in {j \in DOMAIN post.assets : post.assets[j].type = type}}
StaleAssets(p) == {k \in AssetKeys :
    /\ SeenAssets(p)[k].live
    /\ k[1] = Post(p).source
    /\ SeenAssets(p)[k].type = Record(p).type
    /\ k[2] \notin CarriedRefs(Post(p), Record(p).type)}
PickStale(p) ==
    /\ run[p].at = "pick"
    /\ Move(p, IF StaleAssets(p) = {} \/ Post(p).missing = "ignore"
               THEN NextRound(run[p], run[p].pos + 1)
               ELSE [run[p] EXCEPT !.at = "sweep",
                       !.victims = {IdOf(SeenAssets(p), k) : k \in StaleAssets(p)}])
    /\ UNCHANGED <<tables, txn, overlap>>

\* ... then an UPDATE of the rows found ...
Archive(p) ==
    /\ Free(p, "sweep") /\ Archives(p)
    /\ Write(p, [k \in Swept(p) |-> [SeenAssets(p)[k] EXCEPT !.status = "archived"]], << >>, {})
    /\ Move(p, NextRound(run[p], run[p].pos + 1))
    /\ UNCHANGED <<tables, overlap>>

\* ... or a DELETE, by a synchronisation or by delete_asset.
Delete(p) ==
    /\ Free(p, "sweep") /\ ~Archives(p)
    /\ Write(p, Removed(SeenAssets(p), Swept(p)), << >>, {})
    /\ Move(p, [run[p] EXCEPT !.at = "cascade"])
    /\ UNCHANGED <<tables, overlap>>

\* The ON DELETE actions end the statement.
Cascade(p) ==
    /\ Free(p, "cascade")
    /\ Write(p, [k \in Owned(p) |-> [SeenAssets(p)[k] EXCEPT !.owner = Null]],
             Removed(SeenEdges(p), Orphans(p)), {})
    /\ Move(p, IF p \in Syncs THEN NextRound(run[p], run[p].pos + 1)
               ELSE [run[p] EXCEPT !.at = "commit"])
    /\ UNCHANGED <<tables, overlap>>

Commit(p) ==
    /\ run[p].at = "commit"
    /\ p \in Syncs => ~Post(p).dry
    /\ assets' = SeenAssets(p)
    /\ edges' = SeenEdges(p)
    /\ txn' = [txn EXCEPT ![p] = NoTxn]
    /\ overlap' = IF p \in Syncs THEN overlap \cup {q \in Syncs \ {p} : run[q].at # "idle"}
                  ELSE overlap
    /\ Move(p, [NoRun EXCEPT !.at = "done"])

DryRun(p) ==
    /\ run[p].at = "commit"
    /\ p \in Syncs /\ Post(p).dry
    /\ RollBack(p, "done")

-----------------------------------------------------------------------------
(* People, and what ends a transaction from outside *)

\* delete_asset by the id of an asset that is on a page.
OpenDelete(p, k) ==
    /\ run[p].at = "idle"
    /\ assets[k].live
    /\ Move(p, [NoRun EXCEPT !.at = "sweep", !.victims = {IdOf(assets, k)}])
    /\ UNCHANGED <<tables, txn, overlap>>

Running(p) == run[p].at \notin {"idle", "done", "failed"}

Crash(p) == Running(p) /\ RollBack(p, "failed")

\* PostgreSQL aborts one of the transactions that wait for each other.
WaitCycle(p) ==
    \E n \in 2 .. Cardinality(Procs) : \E path \in [0 .. n -> Procs] :
        /\ path[0] = p /\ path[n] = p
        /\ \A i \in 1 .. n : path[i] \in Blockers(path[i - 1]) \ {path[i - 1]}
BreakDeadlock(p) == Blockers(p) # {} /\ WaitCycle(p) /\ RollBack(p, "failed")

Step(p) ==
    \/ UpsertAsset(p) \/ FindOwner(p) \/ SetOwner(p) \/ OwnerGone(p)
    \/ Resolve(p) \/ SkipEdge(p) \/ UpsertEdge(p) \/ EndGone(p)
    \/ PickEdges(p) \/ PruneEdges(p) \/ PickStale(p) \/ Archive(p)
    \/ Delete(p) \/ Cascade(p) \/ Commit(p) \/ DryRun(p)
    \/ BreakDeadlock(p)

Next ==
    \/ \E p \in Syncs, post \in Posts : Begin(p, post)
    \/ \E p \in Editors, k \in AssetKeys : OpenDelete(p, k)
    \/ \E p \in Procs : Step(p) \/ Crash(p)

Spec == Init /\ [][Next]_vars
\* A request that can go on does, and the deadlock detector runs.
FairSpec == Spec /\ \A p \in Procs : WF_vars(Step(p))

-----------------------------------------------------------------------------
(* Properties *)

PartOf(f, K, R) == DOMAIN f \subseteq K /\ \A k \in DOMAIN f : f[k] \in R

\* The tables, the transactions and the requests keep their types.
TypeOK ==
    /\ assets \in [AssetKeys -> AssetRow]
    /\ edges \in [EdgeKeys -> EdgeRow]
    /\ DOMAIN txn = Procs /\ DOMAIN run = Procs
    /\ \A p \in Procs :
         /\ DOMAIN txn[p] = {"assets", "edges", "shares"}
         /\ PartOf(txn[p].assets, AssetKeys, AssetRow)
         /\ PartOf(txn[p].edges, EdgeKeys, EdgeRow)
         /\ txn[p].shares \subseteq AssetKeys
         /\ run[p].at \in Pcs /\ run[p].post \in Posts \cup {Null} /\ run[p].pos \in Nat
         /\ PartOf(run[p].cache, Ends, AssetIds \cup {Null})
         /\ run[p].owner \in AssetIds \cup {Null}
         /\ run[p].seen \subseteq EdgeRefs
         /\ run[p].victims \subseteq AssetIds \cup (EdgeKeys \X Nat)
         /\ run[p].at \notin {"idle", "done", "failed"} /\ p \in Syncs => run[p].post # Null
    /\ overlap \subseteq Syncs

\* A committed edge joins two assets that exist and an owner is an asset that
\* exists, whatever synchronisations and deletions were under way: an id that
\* was looked up before its asset went is never committed.
IdsHold == TypeOK /\ Sound(assets, edges)

\* The step in which a synchronisation's transaction takes effect.
Lands(p) == run[p].at = "commit" /\ run'[p].at = "done" /\ ~Post(p).dry

\* Row k is as it was, except for an owner that is gone.
Kept(k) == assets'[k] \in {assets[k], [assets[k] EXCEPT !.owner = Null]}
KeptOwner(k) == assets[k].owner # Null /\ Holds(assets', assets[k].owner)
                  => assets'[k].owner = assets[k].owner

\* A synchronisation changes nothing outside its source but what hangs off an
\* asset it deletes (tests: other sources and human rows are untouched), also
\* beside other synchronisations.
OwnRowsOnly ==
    [][\A p \in Syncs : Lands(p) =>
         /\ \A k \in AssetKeys : k[1] # Post(p).source => Kept(k) /\ KeptOwner(k)
         /\ \A k \in EdgeKeys : k[1] # Post(p).source =>
              \/ edges'[k] = edges[k]
              \/ /\ edges'[k] = [edges[k] EXCEPT !.live = FALSE]
                 /\ ~(Holds(assets', edges[k].from) /\ Holds(assets', edges[k].to))]_vars

\* The rows an end stands for before or after the commit, and their ids after it.
Meant(post, end) == {k \in KeysOf(post, end) : assets[k].live \/ assets'[k].live}
NamedIds(post, end) == {IdOf(assets', k) : k \in {x \in KeysOf(post, end) : assets'[x].live}}

\* What the contract in generic_sync's docstring says of each record ...
CarriedLands(post) ==
    \A i \in DOMAIN post.assets :
        LET rec == post.assets[i]
            k == <<post.source, rec.ref>>
        IN /\ assets'[k].live /\ assets'[k].status = rec.status /\ assets'[k].type = rec.type
           /\ assets[k].live => assets'[k].n = assets[k].n
           \* the owner is one of that name, if all of them stay
           /\ \/ rec.owner = Null \/ Meant(post, rec.owner) = {}
              \/ \E o \in Meant(post, rec.owner) : ~assets'[o].live
              \/ assets'[k].owner \in NamedIds(post, rec.owner)
\* ... of the rows under the source that are not carried ...
MissingHandled(post) ==
    \A k \in AssetKeys :
        k[1] = post.source /\ k[2] \notin {post.assets[i].ref : i \in DOMAIN post.assets} =>
            IF assets[k].live /\ post.missing # "ignore"
               /\ assets[k].type \in {post.assets[i].type : i \in DOMAIN post.assets}
            THEN IF post.missing = "delete" THEN ~assets'[k].live
                 ELSE assets'[k].live /\ assets'[k].status = "archived"
            ELSE Kept(k) /\ KeptOwner(k)
\* ... and of the edges: one that is there joins what the payload names, and one
\* whose ends name a row each, which stays, is there.
EdgesLand(post) ==
    \A k \in EdgeKeys :
        IF k[1] = post.source /\ post.related
        THEN /\ edges'[k].live => \E i \in DOMAIN post.edges :
                  /\ post.edges[i].ref = k[2] /\ edges'[k].from # edges'[k].to
                  /\ edges'[k].from \in NamedIds(post, post.edges[i].from)
                  /\ edges'[k].to \in NamedIds(post, post.edges[i].to)
             /\ \A i \in DOMAIN post.edges, f, t \in AssetKeys :
                  /\ post.edges[i].ref = k[2] /\ f # t
                  /\ Meant(post, post.edges[i].from) = {f} /\ assets'[f].live
                  /\ Meant(post, post.edges[i].to) = {t} /\ assets'[t].live
                  => edges'[k].live
        ELSE edges'[k].live <=> /\ edges[k].live
                                /\ Holds(assets', edges[k].from)
                                /\ Holds(assets', edges[k].to)

Retypes(post) ==
    \E i \in DOMAIN post.assets :
        LET k == <<post.source, post.assets[i].ref>>
        IN assets[k].live /\ assets[k].type # post.assets[i].type

\* A synchronisation during which no other one committed leaves the tables as
\* its contract says, at once: its many statements, and deletions between
\* them, add up to the payload applied in one step to the tables of that
\* moment (no record of it having changed its type, see CarriedIsKept).
AppliesPayload ==
    [][\A p \in Syncs : Lands(p) /\ p \notin overlap /\ ~Retypes(Post(p)) =>
         CarriedLands(Post(p)) /\ MissingHandled(Post(p)) /\ EdgesLand(Post(p))]_vars

\* "`on_missing` governs records that GRCen holds under this `source` but that
\* the payload no longer carries" (generic_sync.py:103): a carried record is
\* there afterwards, with the status it was carried with.
CarriedIsKept ==
    [][\A p \in Syncs : Lands(p) =>
         \A i \in DOMAIN Post(p).assets :
             LET k == <<Post(p).source, Post(p).assets[i].ref>>
             IN assets'[k].live /\ assets'[k].status = Post(p).assets[i].status]_vars

\* Whoever waits for whom, and whatever is deleted meanwhile, every request
\* ends: it commits, fails or is broken out of a deadlock.  A request runs once,
\* so that a time comes after which none runs.
RequestsEnd == <>[](\A p \in Procs : ~Running(p))
=============================================================================
