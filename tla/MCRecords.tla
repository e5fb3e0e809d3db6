----------------------------- MODULE MCRecords -----------------------------
(***************************************************************************)
(* Eight modules in one run: what is written into the register by feeds,   *)
(* requests, uploads and imports, what the registers say, and the limiter  *)
(* every request goes through.  A behaviour belongs to one part, chosen by *)
(* Init: an instance of a module with constants that bring about the cases *)
(* of one hazard.  The modules share the names of variables that mean the  *)
(* same; a part leaves those of the others blank.                          *)
(***************************************************************************)
EXTENDS MetadataParts, EvidenceParts, Disclosures, Limiter, TLC

CONSTANTS First, Second,   \* handlers, workers, editors or clients
          File, Other,     \* attachments, risks or entries of the library
          Hand, Null

VARIABLES assets, edges, logins, packs, rollup,
          risk, controls, appetite, snaps, job, today, held,
          calls, trail, answers, version, made, count

\* Each of the two pairs is interchangeable wherever it is used.
Both == {First, Second}
Symmetry == Permutations(Both) \cup Permutations({File, Other})

-----------------------------------------------------------------------------
(* Feeds *)

Entry(type, name, info) ==
    [type |-> type, name |-> name, status |-> "active", meta |-> info, owner |-> Null, born |-> 0]
Line(from, to, type) == [from |-> from, to |-> to, type |-> type]
Chief == <<Hand, <<"person", "cfo">>>>
Web == <<Hand, <<"system", "web">>>>
Db == <<Hand, <<"system", "db">>>>
OldFinding == <<Hand, <<"finding", "f0">>>>
OldFramework == <<Hand, <<"framework", "fw">>>>

\* rosters: people who move, leave and return, a chain of units
Employee(id, name, active, mgr, unit) ==
    [id |-> id, name |-> name, active |-> active, mgr |-> mgr, unit |-> unit]
Roster(people, units, retire, reassign) ==
    [source |-> "hris", employees |-> people, units |-> units, retire |-> retire,
     empty |-> TRUE, reassign |-> reassign]
Ann == Employee("ann", "Ann", TRUE, Null, "eng")
Bob == Employee("bob", "Bob", TRUE, "ann", "eng")
Eng == [ref |-> "eng", parent |-> Null]
Ops == [ref |-> "ops", parent |-> "eng"]
BobKey == <<"hris", <<"emp", "bob">>>>
Posted == {Roster({Ann, Bob}, {Eng}, TRUE, Null),
           Roster({Ann}, {}, TRUE, Chief),
           Roster({Employee("bob", "Bob", FALSE, "ann", "ops")}, {Eng, Ops}, FALSE, Null),
           Roster({Employee("bob", "Bob", TRUE, "bob", "ops")}, {Ops}, TRUE, <<"hris", <<"emp", "ann">>>>),
           Roster({}, {}, TRUE, Null)}

\* "bob" is in charge of a system of the register
People == INSTANCE Connectors WITH
  Rosters <- Posted, Inventories <- {}, Exports <- {}, Catalogs <- {},
  InitAssets <- (Chief :> Entry("person", "cfo", <<>>)) @@ (Db :> Entry("system", "db", <<>>)),
  HandEdges <- <<Hand, "l1">> :> Line(Db, BobKey, "used_by"),
  Owned <- {Db}, Touched <- {BobKey, <<"hris", <<"ou", "eng">>>>}, Users <- {"u1"},
  MaxSteps <- 3

\* inventories and exports of two scanners, whose findings are looked up by
\* host name, by id and by name, and rolled up
Item(id, name, state, info, owner, needs) ==
    [id |-> id, name |-> name, status |-> state, meta |-> info, owner |-> owner, needs |-> needs]
Inventory(systems, devices) ==
    [source |-> "cmdb", systems |-> systems, devices |-> devices, archive |-> TRUE]
Found(id, state, severity, host, resource) ==
    [id |-> id, status |-> state, severity |-> severity, host |-> host, resource |-> resource]
Export(source, findings, resolve, empty) ==
    [source |-> source, findings |-> findings, resolve |-> resolve, empty |-> empty]
Disk == Item("d1", "disk", "active", [hostname |-> "h2"], Null, {"w1"})
Low == Found("f2", "open", "low", <<>>, "x1")
Listed == {Inventory({Item("w1", "web", "active", [hostname |-> "h1", external_id |-> "x1"], "cfo", {"d1"})}, {Disk}),
           Inventory({Item("w1", "web2", "archived", [hostname |-> "h2", external_id |-> "x1"], "nobody", {"w1"})}, Null),
           Inventory({}, {Disk})}
Scanned == {Export("uvt", {Found("f1", "open", "high",
                        <<<<"external_id", Null>>, <<"hostname", "h2">>, <<"name", "web">>>>, Null), Low}, TRUE, FALSE),
            Export("uvt", {Found("f1", "closed", "high", <<<<"hostname", "h1">>>>, Null)}, FALSE, FALSE),
            Export("cspm", {Low}, TRUE, FALSE), Export("uvt", {}, TRUE, TRUE)}

Scans == INSTANCE Connectors WITH
  Rosters <- {}, Inventories <- Listed, Exports <- Scanned, Catalogs <- {},
  InitAssets <- (Web :> Entry("system", "web", [hostname |-> "h1"]))
                @@ (OldFinding :> Entry("finding", "f0", [finding_status |-> "open", severity |-> "low"]))
                @@ (Chief :> Entry("person", "cfo", <<>>)),
  HandEdges <- (<<Hand, "l1">> :> Line(Web, OldFinding, "affected_by"))
               @@ (<<Hand, "l2">> :> Line(Web, <<"uvt", <<"finding", "f1">>>>, "affected_by")),
  Owned <- {}, Touched <- {<<"uvt", <<"finding", "f1">>>>, <<"cmdb", <<"system", "w1">>>>, Web}, Users <- {},
  MaxSteps <- 3

\* a catalog that drops a framework and a requirement, and a content pack
Catalog(source, frameworks, met, crosswalks, prune) ==
    [source |-> source, frameworks |-> frameworks, crosswalks |-> crosswalks, prune |-> prune,
     controls |-> IF met = {} THEN {} ELSE {[ref |-> "c1", satisfies |-> met]}, pack |-> source = "pack"]
Framework(ref, requirements) == [ref |-> ref, requirements |-> requirements]
Published == {Catalog("ac", {Framework("A", {"r1", "r2"})}, {"r1"}, {}, FALSE),
              Catalog("ac", {Framework("A", {"r1"}), Framework("B", {"r2"})}, {"r1", "r2"}, {<<"r1", "r2">>}, TRUE),
              Catalog("ac", {Framework("B", {})}, {}, {}, TRUE),
              Catalog("pack", {Framework("A", {"r1", "r2"})}, {}, {<<"r1", "r2">>}, FALSE)}

Packs == INSTANCE Connectors WITH
  Rosters <- {}, Inventories <- {}, Exports <- {}, Catalogs <- Published,
  InitAssets <- OldFramework :> Entry("framework", "fw", <<>>),
  HandEdges <- <<Hand, "l1">> :> Line(<<"ac", <<"control", "c1">>>>, OldFramework, "satisfies"),
  Owned <- {}, Touched <- {<<"ac", <<"control", "c1">>>>, <<"ac", <<"requirement", "r1">>>>}, Users <- {},
  MaxSteps <- 3

-----------------------------------------------------------------------------
(* Requests that rewrite one record *)

FindingKeys == {"finding_status", "external_ticket", "external_ticket_status",
                "corrective_action_plan", "verified_by"}

\* tickets pushed, pulled and closed beside edits, a crash at any point
Findings ==
  [keys |-> FindingKeys, editable |-> {"finding_status"},
   blobs |-> {[k \in FindingKeys |-> IF k = "corrective_action_plan" THEN plan ELSE None] : plan \in {None, "p"}},
   kinds |-> {"push", "tickets", "close", "bulk", "replace", "delete"},
   handlers |-> Both, steps |-> 4, deaths |-> 1]

\* tests of a control that overlap, beside the form
Controls ==
  [keys |-> {"effectiveness", "note"}, editable |-> {"note"}, blobs |-> {},
   kinds |-> {"test", "risks", "form", "bulk"},
   handlers |-> Both, steps |-> 3, deaths |-> 1]

RecordParts == [findings |-> Findings, controls |-> Controls]

\* evidence of an asset and of its relationship, deleted by two at once, one of whom
\* may die
Evidence ==
  [items |-> {File}, assets |-> {"asset"}, relationships |-> {"link"}, ends |-> [link |-> {"asset"}],
   readers |-> {}, deleters |-> Both, workers |-> {"w"}, most |-> <<2, 1, 0, 1>>]

\* a change of the posture across a rotation and a download
Rewrites ==
  [items |-> {File}, assets |-> {"asset"}, relationships |-> {"link"}, ends |-> [link |-> {"asset"}],
   readers |-> {"reader"}, deleters |-> {}, workers |-> Both, most |-> <<0, 1, 1, 1>>]

\* a job that dies between two files, and the next one
Remains ==
  [items |-> {File, Other}, assets |-> {"asset"}, relationships |-> {}, ends |-> <<>>,
   readers |-> {}, deleters |-> {}, workers |-> {"w"}, most |-> <<0, 1, 1, 1>>]

StoreParts == [evidence |-> Evidence, rewrites |-> Rewrites, remains |-> Remains]

Asset(kind, name, owner) == [kind |-> kind, name |-> name, owner |-> owner]
Uses(kind, source, target) == [kind |-> kind, source |-> source, target |-> target, label |-> "uses"]
Sheet(of, first, last) == [of |-> of, rows |-> <<first, last>>]

\* two imports of assets, one with a row the database refuses
Sheets == INSTANCE Imports WITH
  Files <- {Sheet("assets", Asset("bad", "", ""), Asset("good", "db", "ann")),
            Sheet("assets", Asset("good", "db", "ann"), Asset("fatal", "db", ""))},
  Clients <- Both, Ids <- 1..6, Standing <- <<"ann", "db">>,
  MaxRuns <- 2, MaxEdits <- 1, MaxCrashes <- 1

\* and of relationships, while an end is renamed or deleted
Links == INSTANCE Imports WITH
  Files <- {Sheet("edges", Uses("good", "ann", "db"), Uses("good", "ann", "gone")),
            Sheet("edges", Uses("good", "ann", "db"), Uses("fatal", "db", "ann"))},
  Clients <- Both, Ids <- 1..6, Standing <- <<"ann", "db">>,
  MaxRuns <- 2, MaxEdits <- 1, MaxCrashes <- 1

-----------------------------------------------------------------------------
(* Every request *)

Form(read) == [read |-> read, overrides |-> NoValue]

\* one address and one token that nobody issued, the budget lowered
Budgets ==
  [workers |-> {"w"}, ips |-> {"ip"}, sessions |-> {}, tokens |-> {"forged"},
   valid |-> {}, buckets |-> {"read"}, paths |-> {},
   env |-> [read |-> 2, overrides |-> <<>>], forms |-> {Form(NoValue), Form(1)},
   window |-> 2, ttl |-> 5, tokenTtl |-> 3, sweep |-> 0, most |-> <<1, 1, 4, 1>>]

\* a token that is somebody's and one that is not, a path with a budget of its own
Callers ==
  [workers |-> {"w"}, ips |-> {"ip"}, sessions |-> {"cookie"}, tokens |-> {"own", "forged"},
   valid |-> {"own"}, buckets |-> {"read"},
   paths |-> {"api"}, env |-> [read |-> 0, overrides |-> [api |-> [read |-> 1]]], forms |-> {Form(NoValue)},
   window |-> 2, ttl |-> 5, tokenTtl |-> 2, sweep |-> 0, most |-> <<1, 1, 3, 0>>]

\* two workers that load the settings across a save
Settings ==
  [workers |-> Both, ips |-> {"ip"}, sessions |-> {}, tokens |-> {},
   valid |-> {}, buckets |-> {"read"}, paths |-> {},
   env |-> [read |-> 0, overrides |-> <<>>], forms |-> {Form(NoValue), Form(0)},
   window |-> 2, ttl |-> 1, tokenTtl |-> 3, sweep |-> 1, most |-> <<1, 2, 2, 1>>]

LimitParts == [budgets |-> Budgets, callers |-> Callers, settings |-> Settings]

-----------------------------------------------------------------------------
(* Registers *)

NoRisk == [likelihood |-> 0, impact |-> 0, residual |-> 0, category |-> "", treatment |-> None,
           review_date |-> None, last_reviewed |-> None]
Likely == [NoRisk EXCEPT !.likelihood = 5, !.impact = 4, !.category = "it", !.review_date = 1]
Treated == [NoRisk EXCEPT !.likelihood = 3, !.impact = 4, !.category = "it", !.treatment = "mitigate",
                          !.last_reviewed = 1]
Residual == [NoRisk EXCEPT !.likelihood = 1, !.impact = 5, !.residual = 2]
Bulk == {[treatment |-> "accept"], [review_date |-> 2]}

\* two risks on both sides of the appetite, with controls
Figures == INSTANCE Risks WITH
  Names <- {File, Other}, Metas <- {NoRisk, Likely, Treated, Residual}, Patches <- Bulk,
  Bands <- {[max |-> 12, warn |-> 4], [max |-> 1, warn |-> 1]}, Categories <- {"", "it"},
  Workers <- {}, LastDay <- 2, MaxSteps <- 2, MaxControls <- 1

\* the nightly job of two workers across midnight
Nights == INSTANCE Risks WITH
  Names <- {"r1"}, Metas <- {Likely, Treated}, Patches <- Bulk, Bands <- {}, Categories <- {"", "it"},
  Workers <- Both, LastDay <- 2, MaxSteps <- 1, MaxControls <- 0

-----------------------------------------------------------------------------
(* What is told *)

\* two editors of one response, with two entries to map it to
Answers ==
  [questions |-> {}, posts |-> {}, staff |-> {}, responses |-> {"r1"}, entries |-> {File, Other},
   texts |-> {"", "x", "y"}, editors |-> Both, steps |-> 3]

\* two posts of a vendor beside staff
Portal ==
  [questions |-> {"q1"}, posts |-> Both, staff |-> {"s1"}, responses |-> {}, entries |-> {"a1", "a2"},
   texts |-> {"", "x"}, editors |-> {}, steps |-> 4]

LetterParts == [answers |-> Answers, portal |-> Portal]

\* the rules of an organization and of an asset are saved around every kind of read
Masks ==
  [fields |-> {"email", "role"}, sensitive |-> {"email"},
   rules |-> {[f \in {"email", "role"} |-> choice] : choice \in {TRUE, FALSE, Absent}},
   kinds |-> {"page", "fetch", "list", "search", "export"}, readers |-> {"r"}, admins |-> {"a"},
   retentions |-> {}, most |-> <<0, 1, 2, 0>>]

\* the retention changes beside the nightly purge
Nightly ==
  [fields |-> {"email"}, sensitive |-> {"email"}, rules |-> {}, kinds |-> {"page", "search"},
   readers |-> {"r"}, admins |-> {}, retentions |-> {0, 1, Absent}, most |-> <<3, 2, 0, 2>>]

ViewParts == [masks |-> Masks, nightly |-> Nightly]

-----------------------------------------------------------------------------
FeedVars == <<logins, packs, rollup>>
LimitVars == <<gate, store, saving, cache, loads, noted, window, past, allowed, told>>
RiskVars == <<risk, controls, appetite, snaps, job, today, held>>
ImportVars == <<calls, trail, answers, version, made, count>>
DiskVars == <<shelf, owners, docs, disk, uploads, deletes, reads, work, sealing, audited, served, times>>
Graph == <<assets, edges>>
vars == <<part, Graph, known, now, BlobVars, DiskVars, FeedVars, LimitVars, RiskVars, desk, AnswerVars, ImportVars, ReadVars>>

Blank(v) == v = 0
NoBlob == /\ Blank(meta) /\ Blank(exists) /\ Blank(req) /\ Blank(tickets) /\ Blank(runs) /\ Blank(writes)
          /\ Blank(crashes) /\ Blank(ideal) /\ Blank(stale) /\ Blank(unheard) /\ Blank(erased)
NoFiles == /\ shelf = "" /\ Blank(owners) /\ Blank(docs) /\ Blank(disk) /\ Blank(uploads) /\ Blank(deletes)
           /\ Blank(reads) /\ Blank(work) /\ Blank(sealing) /\ Blank(audited) /\ Blank(served) /\ Blank(times)
NoGraph == Blank(assets) /\ Blank(edges)
NoFeed == Blank(logins) /\ Blank(packs) /\ Blank(rollup)
NoRate == /\ gate = "" /\ Blank(store) /\ Blank(saving) /\ Blank(cache) /\ Blank(loads) /\ Blank(noted)
          /\ Blank(window) /\ Blank(past) /\ Blank(allowed) /\ Blank(told)
NoRisks == /\ Blank(risk) /\ Blank(controls) /\ Blank(appetite) /\ Blank(snaps)
           /\ Blank(job) /\ Blank(today) /\ Blank(held)
NoImports == Blank(calls) /\ Blank(trail) /\ Blank(answers) /\ Blank(version) /\ Blank(made) /\ Blank(count)
NoDisclosures == desk = "" /\ NoAnswers /\ NoReading

Init ==
  \/ /\ Blank(known)
     /\ NoBlob /\ NoFiles /\ NoRate /\ NoRisks /\ NoImports /\ NoDisclosures
     /\ \/ part = "people" /\ People!Init
        \/ part = "scans" /\ Scans!Init
        \/ part = "packs" /\ Packs!Init
  \/ /\ NoGraph /\ Blank(known) /\ Blank(now)
     /\ NoFeed /\ NoFiles /\ NoRate /\ NoRisks /\ NoImports /\ NoDisclosures
     /\ BlobInit
  \/ /\ NoGraph /\ Blank(now)
     /\ NoFeed /\ NoBlob /\ NoRate /\ NoRisks /\ NoImports /\ NoDisclosures
     /\ part = "files" /\ FileInit
  \/ /\ NoGraph /\ Blank(known)
     /\ NoFeed /\ NoBlob /\ NoFiles /\ NoRisks /\ NoImports /\ NoDisclosures
     /\ part = "requests" /\ GateInit
  \/ /\ NoGraph /\ Blank(known) /\ Blank(now)
     /\ NoFeed /\ NoBlob /\ NoFiles /\ NoRate /\ NoImports /\ NoDisclosures
     /\ \/ part = "figures" /\ Figures!Init
        \/ part = "nights" /\ Nights!Init
  \/ /\ Blank(known) /\ Blank(now)
     /\ NoFeed /\ NoBlob /\ NoFiles /\ NoRate /\ NoRisks /\ NoDisclosures
     /\ \/ part = "sheets" /\ Sheets!Init
        \/ part = "links" /\ Links!Init
  \/ /\ NoGraph /\ Blank(known) /\ Blank(now)
     /\ NoFeed /\ NoBlob /\ NoFiles /\ NoRate /\ NoRisks /\ NoImports
     /\ part = "disclosures" /\ DisclosureInit

Next ==
  /\ UNCHANGED part
  /\ \/ /\ UNCHANGED <<known, BlobVars, LimitVars, RiskVars, desk, AnswerVars, DiskVars, ImportVars, ReadVars>>
        /\ \/ part = "people" /\ People!Next
           \/ part = "scans" /\ Scans!Next
           \/ part = "packs" /\ Packs!Next
     \/ /\ UNCHANGED <<Graph, known, now, FeedVars, LimitVars, RiskVars, desk, AnswerVars, DiskVars, ImportVars, ReadVars>>
        /\ BlobNext
     \/ /\ UNCHANGED <<Graph, now, FeedVars, BlobVars, LimitVars, RiskVars, desk, AnswerVars, ImportVars, ReadVars>>
        /\ part = "files" /\ FileNext
     \/ /\ UNCHANGED <<Graph, known, FeedVars, BlobVars, RiskVars, desk, AnswerVars, DiskVars, ImportVars, ReadVars>>
        /\ part = "requests" /\ GateNext
     \/ /\ UNCHANGED <<Graph, known, now, FeedVars, BlobVars, LimitVars, desk, ReplyVars, DiskVars, ImportVars, ReadVars>>
        /\ \/ part = "figures" /\ Figures!Next
           \/ part = "nights" /\ Nights!Next
     \/ /\ UNCHANGED <<known, now, FeedVars, BlobVars, LimitVars, RiskVars, desk, AnswerVars, DiskVars, ReadVars>>
        /\ \/ part = "sheets" /\ Sheets!Next
           \/ part = "links" /\ Links!Next
     \/ /\ UNCHANGED <<Graph, known, now, FeedVars, BlobVars, LimitVars, RiskVars, DiskVars, ImportVars>>
        /\ part = "disclosures" /\ DisclosureNext

Spec == Init /\ [][Next]_vars

-----------------------------------------------------------------------------
\* What feeds leave behind, and what the roll-up makes of it (Connectors); an
\* import is one step (Imports); the figures of the risks agree, and a snapshot is
\* of its day (Risks).
RegistersHold ==
  /\ part = "people" => People!FeedsHold /\ People!RegisterFollows
  /\ part = "scans" => Scans!FeedsHold /\ Scans!RegisterFollows
  /\ part = "packs" => Packs!FeedsHold /\ Packs!RegisterFollows
  /\ part = "sheets" => Sheets!ImportsHold
  /\ part = "links" => Links!ImportsHold
  /\ part = "figures" => Figures!RisksHold
  /\ part = "nights" => Nights!RisksHold
=============================================================================
