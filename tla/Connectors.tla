----------------------------- MODULE Connectors -----------------------------
(***************************************************************************)
(* The feeds of systems of record (external_sync and the five connectors    *)
(* built on it, the content packs, the nightly roll-up of findings into      *)
(* risks) in one asset graph with what people do by hand.  A feed runs in    *)
(* one transaction and is one step; the roll-up reads before its             *)
(* transaction and is two.  (GenericSync takes such a transaction apart.)    *)
(*                                                                           *)
(* A row is known by <<source, ref>>, its upsert key, and the rows people    *)
(* make have the source Hand (NULL in the table).  A ref is a tuple for the  *)
(* code's "emp:E1", "manages:E1:E2" and so on.                               *)
(***************************************************************************)
EXTENDS Integers, Sequences, FiniteSets, Functions, TLC

CONSTANTS
    Rosters, Inventories, Exports, Catalogs,   \* the payloads that ever arrive
    HandEdges,   \* the edges people draw: a function from keys to edges
    InitAssets,  \* the assets at the start
    Owned,       \* the assets people give an owner to (bounds Assign)
    Touched,     \* the assets people archive, dispose of or delete
    Users,       \* the logins
    MaxSteps,    \* bound of the steps of a behaviour
    Hand, Null

VARIABLES
    assets,   \* key |-> row, of the rows that exist
    edges,    \* key |-> [from, to, type]
    logins,   \* user |-> [person, active]
    packs,    \* the content packs recorded as installed
    rollup,   \* what the roll-up has read and not written yet
    now       \* transactions so far: created_at

vars == <<assets, edges, logins, packs, rollup, now>>

Tables == [assets |-> assets, edges |-> edges, logins |-> logins]

Row(type, name, status, meta) == [type |-> type, name |-> name, status |-> status, meta |-> meta]
Edge(from, to, type) == [from |-> from, to |-> to, type |-> type]
Attr(row, a) == IF a \in DOMAIN row.meta THEN row.meta[a] ELSE Null

Init ==
    /\ assets = InitAssets
    /\ edges = <<>>
    /\ logins = [u \in Users |-> [person |-> Null, active |-> TRUE]]
    /\ packs = {}
    /\ rollup = Null
    /\ now = 0

-----------------------------------------------------------------------------
(* external_sync: rows are functions from refs to rows *)

Tagged(source, rows) == [k \in {source} \X DOMAIN rows |-> rows[k[2]]]

\* INSERT ... ON CONFLICT DO UPDATE: the type, the owner and the age stay, and
\* the catalog leaves the status alone as well.
OwnStatus(old, new) == [old EXCEPT !.name = new.name, !.meta = new.meta, !.status = new.status]
KeepStatus(old, new) == [old EXCEPT !.name = new.name, !.meta = new.meta]

Upsert(db, source, rows, keeps) ==
    LET new == Tagged(source, rows)
        Born(row) == [type |-> row.type, name |-> row.name, status |-> row.status,
                      meta |-> row.meta, owner |-> Null, born |-> now]
        Row2(k) == IF k \notin DOMAIN db.assets THEN Born(new[k])
                   ELSE IF keeps THEN KeepStatus(db.assets[k], new[k])
                   ELSE OwnStatus(db.assets[k], new[k])
    IN [db EXCEPT !.assets = [k \in DOMAIN new |-> Row2(k)] @@ @]

UpsertAssets(db, source, rows) == Upsert(db, source, rows, FALSE)

UpsertEdges(db, source, new) == [db EXCEPT !.edges = Tagged(source, new) @@ @]

\* The edges of the source that were not seen, of those that leave `from`.
PruneEdges(db, source, seen, from) ==
    LET swept == {k \in DOMAIN db.edges : /\ k[1] = source /\ k[2] \notin DOMAIN seen
                                          /\ db.edges[k].from \in from}
    IN [db EXCEPT !.edges = Restrict(@, DOMAIN @ \ swept)]

\* mutant: the rows of every source
Missing_AnySource(db, source, type, seen) ==
    {k \in DOMAIN db.assets : db.assets[k].type = type /\ k[2] \notin seen}

\* The rows of the source that were not seen, of one type.
Missing(db, source, type, seen) ==
    {k \in DOMAIN db.assets : /\ k[1] = source /\ db.assets[k].type = type
                              /\ k[2] \notin seen}

Archive(db, keys) ==
    [db EXCEPT !.assets = [k \in DOMAIN @ |->
        IF k \in keys THEN [@[k] EXCEPT !.status = "archived"] ELSE @[k]]]

\* DELETE and what hangs off it: edges go, owners and people of logins are unset.
DeleteAssets(db, keys) ==
    LET rest == DOMAIN db.assets \ keys
        Kept(k) == k \notin keys
    IN [assets |-> [k \in rest |->
            IF db.assets[k].owner \in keys THEN [db.assets[k] EXCEPT !.owner = Null]
            ELSE db.assets[k]],
        edges |-> Restrict(db.edges, {k \in DOMAIN db.edges :
                                        Kept(db.edges[k].from) /\ Kept(db.edges[k].to)}),
        logins |-> [u \in Users |->
            IF db.logins[u].person \in keys THEN [db.logins[u] EXCEPT !.person = Null]
            ELSE db.logins[u]]]

\* A set of pairs as a function (each argument has one value).
AsMap(pairs) == [x \in {p[1] : p \in pairs} |-> (CHOOSE p \in pairs : p[1] = x)[2]]

-----------------------------------------------------------------------------
(* hris_sync: [source, employees, units, retire, empty, reassign] *)

Emp(e) == <<"emp", e>>
Unit(o) == <<"ou", o>>

ValidRoster(post) ==
    /\ \A e, f \in post.employees : e.id = f.id => e = f
    /\ \A o, p \in post.units : o.ref = p.ref => o = p

People(post) == AsMap({<<Emp(e.id), Row("person", e.name,
                          IF e.active THEN "active" ELSE "archived", <<>>)>> : e \in post.employees})
Units(post) == AsMap({<<Unit(o.ref), Row("organizational_unit", o.ref, "active", <<>>)>> :
                        o \in post.units})

\* Edges to somebody who is not in the roster, or to oneself, are skipped.
RosterEdges(post) ==
    LET ids == {e.id : e \in post.employees}
        refs == {o.ref : o \in post.units}
        K(ref) == <<post.source, ref>>
    IN AsMap(
         {<<<<"parent_of", o.parent, o.ref>>, Edge(K(Unit(o.parent)), K(Unit(o.ref)), "parent_of")>> :
             o \in {u \in post.units : u.parent \in refs \ {u.ref}}}
         \cup
         {<<<<"manages", e.mgr, e.id>>, Edge(K(Emp(e.mgr)), K(Emp(e.id)), "manages")>> :
             e \in {f \in post.employees : f.mgr \in ids \ {f.id}}}
         \cup
         {<<<<"member_of", e.id, e.unit>>, Edge(K(Emp(e.id)), K(Unit(e.unit)), "member_of")>> :
             e \in {f \in post.employees : f.unit \in refs}})

Leavers(db, post) == Missing(db, post.source, "person", DOMAIN People(post))

\* Archive them, disable their logins, hand over what they own.
Retire(db, leavers, fallback) ==
    [Archive(db, leavers) EXCEPT
        !.logins = [u \in Users |-> IF @[u].person \in leavers
                                    THEN [@[u] EXCEPT !.active = FALSE] ELSE @[u]],
        !.assets = [k \in DOMAIN @ |-> IF fallback # Null /\ @[k].owner \in leavers
                                       THEN [@[k] EXCEPT !.owner = fallback] ELSE @[k]]]

\* A roster without units says nothing about units.
RetireUnits(db, post) ==
    IF post.units = {} \/ ~post.retire THEN db
    ELSE Archive(db, Missing(db, post.source, "organizational_unit", DOMAIN Units(post)))

Roster(db, post) ==
    LET carried == UpsertAssets(UpsertAssets(db, post.source, Units(post)), post.source, People(post))
        wired == PruneEdges(UpsertEdges(carried, post.source, RosterEdges(post)),
                            post.source, RosterEdges(post), DOMAIN carried.assets)
        retired == IF post.retire THEN Retire(wired, Leavers(wired, post), post.reassign) ELSE wired
    IN RetireUnits(retired, post)

-----------------------------------------------------------------------------
(* cmdb_sync: [source, systems, devices, archive]; a class that the payload  *)
(* does not have is Null                                                     *)

Items(cis) == IF cis = Null THEN {} ELSE cis
Ci(class, c) == <<class, c.id>>

ValidInventory(post) ==
    /\ Items(post.systems) \cup Items(post.devices) # {}
    /\ \A c, d \in Items(post.systems) \cup Items(post.devices) : c.id = d.id => c = d
    /\ Items(post.systems) \cap Items(post.devices) = {}

CiRows(class, cis) == AsMap({<<Ci(class, c), Row(class, c.name, c.status, c.meta)>> : c \in Items(cis)})

\* The oldest of the rows that fit.  (ORDER BY created_at: those of one
\* transaction come in any order, which the models' payloads avoid.)
Oldest(db, keys) ==
    {k \in keys : \A j \in keys : db.assets[k].born <= db.assets[j].born}

\* owner_id is set when a person or unit has the name, else left as it is.
LinkOwners(db, post) ==
    LET owners(c) == Oldest(db, {k \in DOMAIN db.assets :
                        /\ db.assets[k].type \in {"person", "organizational_unit"}
                        /\ db.assets[k].name = c.owner})
        link(class, c) == IF owners(c) = {} THEN <<>>
                          ELSE <<post.source, Ci(class, c)>> :> (CHOOSE k \in owners(c) : TRUE)
        linked == {link("system", c) : c \in Items(post.systems)}
                  \cup {link("device", c) : c \in Items(post.devices)}
        new(k) == {f[k] : f \in {g \in linked : k \in DOMAIN g}}
    IN [db EXCEPT !.assets = [k \in DOMAIN @ |->
           IF new(k) = {} THEN @[k] ELSE [@[k] EXCEPT !.owner = CHOOSE o \in new(k) : TRUE]]]

CarriedCis(post) ==
    {<<post.source, Ci("system", c)>> : c \in Items(post.systems)}
    \cup {<<post.source, Ci("device", c)>> : c \in Items(post.devices)}

DependsOn(post) ==
    LET all == Items(post.systems) \cup Items(post.devices)
        K(c) == CHOOSE k \in CarriedCis(post) : k[2][2] = c.id
    IN AsMap({<<<<"depends_on", p[1].id, p[2].id>>, Edge(K(p[1]), K(p[2]), "depends_on")>> :
                 p \in {q \in all \X all : q[2].id \in q[1].needs \ {q[1].id}}})

ArchiveClass(db, post, class, cis) ==
    IF cis = Null \/ ~post.archive THEN db
    ELSE Archive(db, Missing(db, post.source, class, {Ci(class, c) : c \in cis}))

Inventory(db, post) ==
    LET carried == LinkOwners(UpsertAssets(UpsertAssets(db,
                     post.source, CiRows("system", post.systems)),
                     post.source, CiRows("device", post.devices)), post)
        wired == PruneEdges(UpsertEdges(carried, post.source, DependsOn(post)),
                            post.source, DependsOn(post), CarriedCis(post))
    IN ArchiveClass(ArchiveClass(wired, post, "system", post.systems),
                    post, "device", post.devices)

-----------------------------------------------------------------------------
(* vuln_sync and cspm_sync: [source, findings, resolve, empty]; a finding    *)
(* names its host by a sequence of <<attribute, value>>, best first          *)

ValidExport(post) == \A f, g \in post.findings : f.id = g.id => f = g

FindingRows(post) ==
    AsMap({<<<<"finding", f.id>>, Row("finding", f.id, "active",
             [finding_status |-> f.status, severity |-> f.severity])>> : f \in post.findings})

\* affects: external_id, hostname, fqdn, ip_address, then the name.
Affects(f) == SelectSeq(f.host, LAMBDA h : h[2] # Null)
\* resource: the resource id as cloud_resource_id and as external_id, then the name.
Resource(f) == IF f.resource = Null THEN <<>>
               ELSE << <<"cloud_resource_id", f.resource>>, <<"external_id", f.resource>>,
                       <<"name", f.resource>> >>

Fits(db, h) ==
    {k \in DOMAIN db.assets : /\ db.assets[k].type \in {"system", "device"}
                              /\ h[2] = IF h[1] = "name" THEN db.assets[k].name
                                        ELSE Attr(db.assets[k], h[1])}
\* The first of its hints that fits an asset, and the oldest asset it fits.
ResolveAffected(db, hints) ==
    LET fitting == {i \in DOMAIN hints : Fits(db, hints[i]) # {}}
        first == CHOOSE i \in fitting : \A j \in fitting : i <= j
    IN IF fitting = {} THEN Null
       ELSE CHOOSE k \in Oldest(db, Fits(db, hints[first])) : TRUE

HostEdges(db, post, hints) ==
    LET host(f) == ResolveAffected(db, hints[f])
    IN AsMap({<<<<"affects", f.id>>,
                Edge(host(f), <<post.source, <<"finding", f.id>>>>, "affected_by")>> :
                  f \in {g \in post.findings : host(g) # Null}})

\* A finding that is gone from the export is remediated.
Remediate(db, keys) ==
    LET open == {k \in keys : db.assets[k].status # "archived"}
    IN [Archive(db, open) EXCEPT !.assets = [k \in DOMAIN @ |->
          IF k \in open THEN [@[k] EXCEPT !.meta = ("finding_status" :> "remediated") @@ @]
          ELSE @[k]]]

Findings(db, post, hints) ==
    LET carried == UpsertAssets(db, post.source, FindingRows(post))
        hosts == HostEdges(carried, post, hints)
        wired == PruneEdges(UpsertEdges(carried, post.source, hosts),
                            post.source, hosts, DOMAIN carried.assets)
        gone == Missing(wired, post.source, "finding", DOMAIN FindingRows(post))
    IN IF post.resolve THEN Remediate(wired, gone) ELSE wired

VulnFindings(db, post) == Findings(db, post, [f \in post.findings |-> Affects(f)])
CspmFindings(db, post) == Findings(db, post, [f \in post.findings |-> Resource(f)])

-----------------------------------------------------------------------------
(* catalog_sync: [source, frameworks, controls, crosswalks, prune]; a         *)
(* framework is [ref, requirements], a control [ref, satisfies]               *)

Requirements(post) == UNION {f.requirements : f \in post.frameworks}

\* Fails closed: references must be known, each requirement in one framework.
ValidCatalog(post) ==
    /\ \A f, g \in post.frameworks : f # g => f.ref # g.ref /\ f.requirements \cap g.requirements = {}
    /\ \A c, d \in post.controls : c.ref = d.ref => c = d
    /\ \A c \in post.controls : c.satisfies \subseteq Requirements(post)
    /\ \A x \in post.crosswalks : /\ x[1] # x[2] /\ {x[1], x[2]} \subseteq Requirements(post)
                                  /\ <<x[2], x[1]>> \notin post.crosswalks

CatalogRows(post) ==
    LET row(type, ref) == <<<<type, ref>>, Row(type, ref, "active", <<>>)>>
    IN AsMap({row("framework", f.ref) : f \in post.frameworks}
             \cup {row("requirement", r) : r \in Requirements(post)}
             \cup {row("control", c.ref) : c \in post.controls})

CatalogEdges(post) ==
    LET edge(type, a, b, from, to) ==
          <<<<type, a, b>>, Edge(<<post.source, <<from, a>>>>, <<post.source, <<to, b>>>>, type)>>
    IN AsMap(UNION {{edge("parent_of", f.ref, r, "framework", "requirement") : r \in f.requirements} :
                      f \in post.frameworks}
             \cup UNION {{edge("satisfies", c.ref, r, "control", "requirement") : r \in c.satisfies} :
                      c \in post.controls}
             \cup {edge("cross_maps", x[1], x[2], "requirement", "requirement") : x \in post.crosswalks})

Catalog(db, post) ==
    LET carried == Upsert(db, post.source, CatalogRows(post), TRUE)
        wired == PruneEdges(UpsertEdges(carried, post.source, CatalogEdges(post)),
                            post.source, CatalogEdges(post), DOMAIN carried.assets)
        gone == {k \in DOMAIN wired.assets : k[1] = post.source /\ k[2] \notin DOMAIN CatalogRows(post)}
    IN IF post.prune THEN DeleteAssets(wired, gone) ELSE wired

\* uninstall_pack: what has the tag goes, and what hangs off it
Uninstalled(db, source) ==
    DeleteAssets([db EXCEPT !.edges = Restrict(@, {k \in DOMAIN @ : k[1] # source})],
                 {k \in DOMAIN db.assets : k[1] = source})

-----------------------------------------------------------------------------
(* risk_aggregation *)

NonOpen == {"remediated", "verified", "risk_accepted", "closed"}
Rank(severity) == CASE severity = "critical" -> 4 [] severity = "high" -> 3
                    [] severity = "medium" -> 2 [] severity = "low" -> 1 [] OTHER -> 0

\* An open finding: active, and neither accepted nor resolved.
OpenFinding(db, k) ==
    /\ db.assets[k].type = "finding" /\ db.assets[k].status = "active"
    /\ Attr(db.assets[k], "finding_status") \notin NonOpen

\* For each system or device, the edges of any source that give it an open
\* finding, which are the rows of the join.
Groups(db) ==
    LET hits == {e \in DOMAIN db.edges : /\ db.edges[e].type = "affected_by"
                                        /\ db.assets[db.edges[e].from].type \in {"system", "device"}
                                        /\ OpenFinding(db, db.edges[e].to)}
    IN [s \in {db.edges[e].from : e \in hits} |-> {e \in hits : db.edges[e].from = s}]

\* The open findings of each severity, those of no system included.
Severity(db, f) == IF Attr(db.assets[f], "severity") = Null THEN "unknown"
                   ELSE Attr(db.assets[f], "severity")
Grades(db) ==
    LET open == {k \in DOMAIN db.assets : OpenFinding(db, k)}
    IN [g \in {Severity(db, f) : f \in open} |-> {f \in open : Severity(db, f) = g}]

\* The worst severity (medium when none is known), and the number of rows: a
\* finding that two edges give the system counts twice.
RiskPayload(db, findings, count) ==
    LET worst == {k \in findings : \A j \in findings :
                    Rank(Attr(db.assets[j], "severity")) <= Rank(Attr(db.assets[k], "severity"))}
        severity == Attr(db.assets[CHOOSE k \in worst : TRUE], "severity")
    IN [severity |-> IF Rank(severity) = 0 THEN "medium" ELSE severity, finding_count |-> count]

Agg == "vuln-agg"
RiskOf(s) == <<"onSystem", s>>
RiskAt(severity) == <<"severity", severity>>

\* ref |-> [at, name, findings, meta] of the groups, as pool.fetch reads them
\* before the transaction; a group of one severity is at no system.
ReadRollup(db, by) ==
    LET group(at, name, findings, count) ==
            [at |-> at, name |-> name, findings |-> findings,
             meta |-> RiskPayload(db, findings, count)]
        systems == Groups(db)
        grades == Grades(db)
    IN IF by = "system"
       THEN AsMap({<<RiskOf(s), group(s, db.assets[s].name, {db.edges[e].to : e \in systems[s]},
                                      Cardinality(systems[s]))>> : s \in DOMAIN systems})
       ELSE AsMap({<<RiskAt(g), group(Null, g, grades[g], Cardinality(grades[g]))>> :
                     g \in DOMAIN grades})

RiskRows(read) == [r \in DOMAIN read |-> Row("risk", read[r].name, "active", read[r].meta)]
RiskEdges(read) ==
    LET K(r) == <<Agg, r>>
    IN AsMap({<<<<"threatens", read[r].at>>, Edge(K(r), read[r].at, "threatens")>> :
                 r \in {x \in DOMAIN read : read[x].at # Null}}
             \cup UNION {{<<<<"relates", r, f>>, Edge(K(r), f, "relates_to")>> :
                            f \in read[r].findings} : r \in DOMAIN read})

\* mutant: nothing open is taken for nothing to do
Rollup_NothingOpen(db, read, prune) ==
    IF DOMAIN read = {} THEN db
    ELSE LET carried == UpsertAssets(db, Agg, RiskRows(read))
             wired == PruneEdges(UpsertEdges(carried, Agg, RiskEdges(read)), Agg, RiskEdges(read),
                                 DOMAIN carried.assets)
         IN IF prune THEN Archive(wired, Missing(wired, Agg, "risk", DOMAIN read)) ELSE wired

\* The edges of what was not read always go, its risks only when asked to.
Rollup(db, read, prune) ==
    LET carried == UpsertAssets(db, Agg, RiskRows(read))
        wired == PruneEdges(UpsertEdges(carried, Agg, RiskEdges(read)), Agg, RiskEdges(read),
                            DOMAIN carried.assets)
    IN IF prune THEN Archive(wired, Missing(wired, Agg, "risk", DOMAIN read)) ELSE wired

-----------------------------------------------------------------------------
(* Steps *)

Store(db) ==
    /\ now < MaxSteps
    /\ now' = now + 1
    /\ assets' = db.assets /\ edges' = db.edges /\ logins' = db.logins

\* A payload that is not valid, and an empty one unless that is asked for, is
\* refused before the transaction; a dry run rolls it back.
MayEmpty(carried, retires, post) == carried # {} \/ ~retires \/ post.empty

SyncRoster(post) ==
    /\ ValidRoster(post) /\ MayEmpty(post.employees, post.retire, post)
    /\ post.reassign # Null => post.reassign \in DOMAIN assets
    /\ Store(Roster(Tables, post))
    /\ UNCHANGED <<packs, rollup>>

SyncInventory(post) ==
    /\ ValidInventory(post)
    /\ Store(Inventory(Tables, post))
    /\ UNCHANGED <<packs, rollup>>

SyncVulns(post) ==
    /\ ValidExport(post) /\ MayEmpty(post.findings, post.resolve, post)
    /\ Store(VulnFindings(Tables, post))
    /\ UNCHANGED <<packs, rollup>>

SyncCspm(post) ==
    /\ ValidExport(post) /\ MayEmpty(post.findings, post.resolve, post)
    /\ Store(CspmFindings(Tables, post))
    /\ UNCHANGED <<packs, rollup>>

SyncCatalog(post) ==
    /\ ~post.pack /\ ValidCatalog(post)
    /\ Store(Catalog(Tables, post))
    /\ UNCHANGED <<packs, rollup>>

\* The version is recorded by a statement after the transaction.
InstallPack(post) ==
    /\ post.pack /\ ValidCatalog(post)
    /\ Store(Catalog(Tables, post))
    /\ packs' \in {packs, packs \cup {post.source}}
    /\ UNCHANGED rollup

UninstallPack(source) ==
    /\ source \in packs \/ \E k \in DOMAIN assets : k[1] = source
    /\ Store(Uninstalled(Tables, source))
    /\ packs' = packs \ {source}
    /\ UNCHANGED rollup

\* The nightly job takes the defaults, the command what its flags say.
StartRollup ==
    /\ rollup = Null
    /\ \E by \in {"system", "severity"}, prune \in BOOLEAN :
         rollup' = [read |-> ReadRollup(Tables, by), prune |-> prune]
    /\ UNCHANGED <<assets, edges, logins, packs, now>>

\* What was read and is gone is a foreign key violation: the roll-up fails.
EndRollup ==
    /\ rollup # Null
    /\ IF \A r \in DOMAIN rollup.read :
            ({rollup.read[r].at} \ {Null}) \cup rollup.read[r].findings \subseteq DOMAIN assets
       THEN Store(Rollup(Tables, rollup.read, rollup.prune))
       ELSE UNCHANGED <<assets, edges, logins, now>>
    /\ rollup' = Null
    /\ UNCHANGED packs

-----------------------------------------------------------------------------
(* What people do by hand *)

ByHand == UNCHANGED <<packs, rollup>>

Assign(k, owner) ==
    /\ k \in Owned \cap DOMAIN assets
    /\ owner \in DOMAIN assets /\ assets[owner].type = "person"
    /\ Store([Tables EXCEPT !.assets[k].owner = owner])
    /\ ByHand

Draw(e) ==
    /\ e \notin DOMAIN edges /\ {HandEdges[e].from, HandEdges[e].to} \subseteq DOMAIN assets
    /\ Store([Tables EXCEPT !.edges = (e :> HandEdges[e]) @@ @])
    /\ ByHand

\* Archive or unarchive any row.
Shelve(k) ==
    /\ k \in Touched \cap DOMAIN assets
    /\ Store([Tables EXCEPT !.assets[k].status = IF @ = "active" THEN "archived" ELSE "active"])
    /\ ByHand

\* Accept a finding.
Dispose(k) ==
    /\ k \in Touched \cap DOMAIN assets /\ assets[k].type = "finding"
    /\ Store([Tables EXCEPT !.assets[k].meta = ("finding_status" :> "risk_accepted") @@ @])
    /\ ByHand

Delete(k) ==
    /\ k \in Touched \cap DOMAIN assets
    /\ Store(DeleteAssets(Tables, {k}))
    /\ ByHand

\* Link a login to a person, or switch it on or off.
EditLogin(u) ==
    /\ \E person \in {Null} \cup {k \in DOMAIN assets : assets[k].type = "person"}, on \in BOOLEAN :
         /\ [person |-> person, active |-> on] # logins[u]
         /\ Store([Tables EXCEPT !.logins[u] = [person |-> person, active |-> on]])
    /\ ByHand

Hands ==
    \/ \E k \in DOMAIN assets : Shelve(k) \/ Dispose(k) \/ Delete(k)
                               \/ \E owner \in DOMAIN assets : Assign(k, owner)
    \/ \E e \in DOMAIN HandEdges : Draw(e)
    \/ \E u \in Users : EditLogin(u)

Next ==
    \/ \E post \in Rosters : SyncRoster(post)
    \/ \E post \in Inventories : SyncInventory(post)
    \/ \E post \in Exports : SyncVulns(post) \/ SyncCspm(post)
    \/ \E post \in Catalogs : SyncCatalog(post) \/ InstallPack(post) \/ UninstallPack(post.source)
    \/ StartRollup \/ EndRollup
    \/ Hands

Spec == Init /\ [][Next]_vars

-----------------------------------------------------------------------------
(* Properties: of every feed that may come next, in every state *)

RowType == [type : {"person", "organizational_unit", "system", "device", "finding", "risk",
                    "framework", "requirement", "control"},
            status : {"active", "archived"}]
Live(db, k) == k \in DOMAIN db.assets

\* Rows, edges and logins refer to rows that exist.
TypeOK ==
    /\ \A k \in DOMAIN assets : /\ [type |-> assets[k].type, status |-> assets[k].status] \in RowType
                               /\ assets[k].owner # Null => Live(Tables, assets[k].owner)
                               /\ assets[k].born \in 0..now
    /\ \A e \in DOMAIN edges : Live(Tables, edges[e].from) /\ Live(Tables, edges[e].to)
    /\ \A u \in Users : /\ logins[u].active \in BOOLEAN
                        /\ logins[u].person # Null => Live(Tables, logins[u].person)

\* The tables after each feed that may come next, with its payload.
Feeds ==
    {<<post, Roster(Tables, post)>> : post \in {p \in Rosters : ValidRoster(p)}}
    \cup {<<post, Inventory(Tables, post)>> : post \in {p \in Inventories : ValidInventory(p)}}
    \cup {<<post, VulnFindings(Tables, post)>> : post \in {p \in Exports : ValidExport(p)}}
    \cup {<<post, CspmFindings(Tables, post)>> : post \in {p \in Exports : ValidExport(p)}}
    \cup {<<post, Catalog(Tables, post)>> : post \in {p \in Catalogs : ValidCatalog(p)}}

\* A feed changes nothing of another source and nothing made by hand, but for
\* owners it unsets or hands over and edges whose end it deletes.
SourcesApart ==
    \A feed \in Feeds :
        LET source == feed[1].source
            db == feed[2]
            but(row) == [row EXCEPT !.owner = Null]
        IN /\ \A k \in DOMAIN assets : k[1] # source =>
                k \in DOMAIN db.assets /\ but(db.assets[k]) = but(assets[k])
           /\ \A e \in DOMAIN edges : e[1] # source =>
                IF Live(db, edges[e].from) /\ Live(db, edges[e].to)
                THEN e \in DOMAIN db.edges /\ db.edges[e] = edges[e]
                ELSE e \notin DOMAIN db.edges
           /\ \A k \in (DOMAIN db.assets \ DOMAIN assets) \cup (DOMAIN db.edges \ DOMAIN edges) :
                k[1] = source

\* "Idempotent": a payload that arrives twice leaves what it left the first time.
Repeatable(Feed(_, _), Valid(_), posts) ==
    \A p \in posts : Valid(p) => LET db == Feed(Tables, p) IN Feed(db, p) = db
FeedsRepeat ==
    /\ Repeatable(Roster, ValidRoster, Rosters)
    /\ Repeatable(Inventory, ValidInventory, Inventories)
    /\ Repeatable(VulnFindings, ValidExport, Exports)
    /\ Repeatable(CspmFindings, ValidExport, Exports)
    /\ Repeatable(Catalog, ValidCatalog, Catalogs)

\* After a roster that retires, the people of its source that it does not carry
\* are archived and their logins off, whoever switched them on again, and what they
\* owned is the fallback's; whom it carries is archived exactly when it says so; and
\* no login changes but a leaver's.  The exception: nothing is claimed of the login
\* of somebody the roster itself marks as inactive.  Its contract wants that login
\* disabled, and the code leaves it on.
LeaversAreOut ==
    \A p \in Rosters : ValidRoster(p) =>
        LET db == Roster(Tables, p)
            key(e) == <<p.source, Emp(e.id)>>
            gone == {k \in DOMAIN assets : /\ p.retire /\ k[1] = p.source /\ assets[k].type = "person"
                                           /\ \A e \in p.employees : k # key(e)}
            inactive == {key(e) : e \in {f \in p.employees : ~f.active}}
        IN /\ \A k \in gone : db.assets[k].status = "archived"
           /\ \A e \in p.employees : db.assets[key(e)].status = "archived" <=> ~e.active
           /\ \A u \in Users : logins[u].person \notin inactive =>
                IF logins[u].person \in gone THEN ~db.logins[u].active
                ELSE db.logins[u] = logins[u]
           /\ p.reassign # Null => \A k \in DOMAIN db.assets :
                db.assets[k].owner \in gone => db.assets[k].owner = p.reassign

\* Whatever feeds, people, late roll-ups and those that keep stale risks have
\* left, the next roll-up that does not puts the register right: there is an active
\* risk for exactly the systems and devices with open findings (or, grouped so, the
\* severities), with an edge to each of the findings and their number, which is too
\* high only when a second edge gives a system one of them again.
RegisterFollows ==
    \A by \in {"system", "severity"} :
        LET db == Rollup(Tables, ReadRollup(Tables, by), TRUE)
            findings == {k \in DOMAIN db.assets : OpenFinding(db, k)}
            affects(s) == {e \in DOMAIN db.edges : /\ db.edges[e].type = "affected_by"
                                                  /\ db.edges[e].from = s /\ db.edges[e].to \in findings}
            hosts == {s \in DOMAIN db.assets : db.assets[s].type \in {"system", "device"}}
            open(r) == CASE r[1] = "onSystem" /\ by = "system" ->
                               {db.edges[e].to : e \in affects(r[2])}
                         [] r[1] = "severity" /\ by = "severity" ->
                               {f \in findings : Severity(db, f) = r[2]}
                         [] OTHER -> {}
            due == {r \in {RiskOf(s) : s \in hosts} \cup {RiskAt(Severity(db, f)) : f \in findings} :
                      open(r) # {}}
            related(r) == {db.edges[e].to : e \in {x \in DOMAIN db.edges :
                              x[1] = Agg /\ db.edges[x].from = <<Agg, r>> /\ db.edges[x].type = "relates_to"}}
            counted(r) == db.assets[<<Agg, r>>].meta["finding_count"]
            risks == {k[2] : k \in {x \in DOMAIN db.assets : x[1] = Agg}}
        IN /\ {r \in risks : db.assets[<<Agg, r>>].status = "active"} = due
           /\ \A r \in risks : related(r) = open(r)
           /\ \A r \in due : \/ counted(r) = Cardinality(open(r))
                             \/ /\ by = "system" /\ counted(r) > Cardinality(open(r))
                                /\ affects(r[2]) \cap DOMAIN HandEdges # {}

\* The four about the feeds.
FeedsHold == TypeOK /\ SourcesApart /\ FeedsRepeat /\ LeaversAreOut
=============================================================================
