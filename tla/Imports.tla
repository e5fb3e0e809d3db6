------------------------------- MODULE Imports -------------------------------
(***************************************************************************)
(* The import of assets and of relationships from a file or a JSON body    *)
(* (import_service.py, routers/imports.py): a preview, a dry run and the   *)
(* run itself, each a pass over the rows of its own.  A run is one         *)
(* transaction, row by row at READ COMMITTED: what others commit in        *)
(* between is seen by the rows that follow.                                 *)
(***************************************************************************)
EXTENDS Integers, Sequences, FiniteSets, FiniteSetsExt

CONSTANTS
    Files,       \* what a client may send: [of, rows], a sequence of rows
    Clients,
    Ids,         \* of assets and relationships
    Standing,    \* the assets at the start: id |-> its name
    MaxRuns, MaxEdits, MaxCrashes,   \* bounds
    None

VARIABLES
    assets,      \* committed: id |-> [name, owner]
    edges,       \* committed: id |-> [source, target, label]
    calls,       \* client |-> the request it waits for
    trail,       \* audit_log: the imports it tells of, a sequence
    answers,     \* history: what each call answered, and on which version
    version,     \* of assets and edges
    made,        \* history: the ids of the rows that were inserted
    count        \* how often each bounded thing has happened

vars == <<assets, edges, calls, trail, answers, version, made, count>>

Idle == [pc |-> "idle", mode |-> None, route |-> None, file |-> None, next |-> 1,
         created |-> 0, bad |-> 0, new |-> <<>>, found |-> None, from |-> 0]

Init ==
    /\ assets = [i \in DOMAIN Standing |-> [name |-> Standing[i], owner |-> None]]
    /\ edges = <<>>
    /\ calls = [c \in Clients |-> Idle]
    /\ trail = <<>> /\ answers = {}
    /\ version = 0 /\ made = {}
    /\ count = [runs |-> 0, edits |-> 0, crashes |-> 0]

Bounded(c, max) == count[c] < max /\ count' = [count EXCEPT ![c] = @ + 1]

-----------------------------------------------------------------------------
(* Rows.  A row is "good", "bad" (named in the errors and skipped) or        *)
(* "fatal": it passes the validation, and the statement that uses it raises: *)
(* a name too long for its column, a type that is none.                      *)

\* A transaction sees its own rows beside those that are committed.
Seen(call) == [i \in DOMAIN assets \cup (IF call.file.of = "assets" THEN DOMAIN call.new ELSE {}) |->
                  IF i \in DOMAIN assets THEN assets[i].name ELSE call.new[i].name]
Called(call, name) == {i \in DOMAIN Seen(call) : Seen(call)[i] = name}

\* uuid4: whichever, so the least one that nobody has.
Fresh == Min(Ids \ (DOMAIN Standing \cup made \cup UNION {DOMAIN calls[c].new : c \in Clients}))

\* Every asset of the name will do: LIMIT 1, or the first of the rows.
Finds(call, name) == IF Called(call, name) = {} THEN {None} ELSE Called(call, name)

With(call, i, record) ==
    [call EXCEPT !.new = [j \in DOMAIN @ \cup {i} |-> IF j = i THEN record ELSE @[j]]]

Passed(call) == [call EXCEPT !.next = @ + 1, !.created = @ + 1, !.found = None]
Failed(call) == [call EXCEPT !.next = @ + 1, !.bad = @ + 1, !.found = None]

-----------------------------------------------------------------------------
Begin(c, of, mode, route) ==
    /\ calls[c].pc = "idle"
    /\ Bounded("runs", MaxRuns)
    /\ \E f \in Files :
         /\ f.of = of
         /\ calls' = [calls EXCEPT ![c] =
                [Idle EXCEPT !.pc = "row", !.mode = mode, !.route = route, !.file = f, !.from = version]]
    /\ UNCHANGED <<assets, edges, trail, answers, version, made>>

Execute(c, of, route) == \E mode \in {"dry", "run"} : Begin(c, of, mode, route)

PreviewImport(c) == Begin(c, "assets", "preview", "file")
ExecuteImport(c) == Execute(c, "assets", "file")
BulkAssets(c) == Execute(c, "assets", "bulk")
PreviewRelImport(c) == Begin(c, "edges", "preview", "file")
ExecuteRelImport(c) == Execute(c, "edges", "file")
BulkRelationships(c) == Execute(c, "edges", "bulk")

Row(c) == calls[c].file.rows[calls[c].next]
AtRow(c) == calls[c].pc = "row" /\ (calls[c].pc = "row" => calls[c].next <= Len(calls[c].file.rows))

\* An exception: the transaction is gone, and the answer is a 500.
Raise(c) ==
    /\ calls' = [calls EXCEPT ![c] = Idle]
    /\ answers' = answers \cup {[mode |-> calls[c].mode, file |-> calls[c].file, ok |-> FALSE,
                                 created |-> 0, wrote |-> 0, from |-> calls[c].from, still |-> calls[c].from = version]}

Skip(c) == calls' = [calls EXCEPT ![c] = Failed(@)] /\ UNCHANGED answers

\* _validate_asset_row, _validate_relationship_row
Rejects(c) ==
    /\ AtRow(c) /\ Row(c).kind = "bad"
    /\ Skip(c)
    /\ UNCHANGED <<assets, edges, trail, version, made, count>>

\* preview_asset_import reads nothing; a dry run stops before the INSERT; a run
\* looks for the owner by its name first, and goes without one.
AssetRow(c) ==
    /\ AtRow(c) /\ calls[c].file.of = "assets" /\ Row(c).kind # "bad"
    /\ IF calls[c].mode # "run" THEN calls' = [calls EXCEPT ![c] = Passed(@)]
       ELSE \E owner \in Finds(calls[c], Row(c).owner) :
                calls' = [calls EXCEPT ![c].pc = "insert", ![c].found = owner]
    /\ UNCHANGED <<assets, edges, trail, answers, version, made, count>>

\* The INSERT fails on a value that does not fit or an owner that has gone since.
InsertAsset(c) ==
    LET call == calls[c] IN
    /\ call.pc = "insert"
    /\ IF Row(c).kind = "fatal" \/ call.found \notin DOMAIN Seen(call) \cup {None} THEN Raise(c)
       ELSE /\ calls' = [calls EXCEPT ![c] =
                  [Passed(With(@, Fresh, [name |-> Row(c).name, owner |-> call.found])) EXCEPT !.pc = "row"]]
            /\ UNCHANGED answers
    /\ UNCHANGED <<assets, edges, trail, version, made, count>>

\* The two ends of a relationship are looked up in two statements; the type in
\* the row is compared as an enum, in a preview too.
SourceOf(c) ==
    LET call == calls[c] IN
    /\ AtRow(c) /\ call.file.of = "edges" /\ Row(c).kind # "bad" /\ call.found = None
    /\ IF Row(c).kind = "fatal" THEN Raise(c)
       ELSE /\ \E i \in Finds(call, Row(c).source) :
                 calls' = [calls EXCEPT ![c] = IF i = None THEN Failed(@) ELSE [@ EXCEPT !.found = i]]
            /\ UNCHANGED answers
    /\ UNCHANGED <<assets, edges, trail, version, made, count>>

\* mutant: the preview counts a row whose target it did not find
TargetOf_SourceOnly(c) ==
    LET call == calls[c] IN
    /\ AtRow(c) /\ call.file.of = "edges" /\ call.found # None
    /\ \E i \in Finds(call, Row(c).target) :
         IF i = None /\ call.mode # "preview" THEN Skip(c)
         ELSE IF call.mode # "run" THEN calls' = [calls EXCEPT ![c] = Passed(@)] /\ UNCHANGED answers
         ELSE IF {call.found, i} \subseteq DOMAIN assets
         THEN /\ calls' = [calls EXCEPT ![c] = Passed(With(@, Fresh,
                  [source |-> call.found, target |-> i, label |-> Row(c).label]))]
              /\ UNCHANGED answers
         ELSE Raise(c)
    /\ UNCHANGED <<assets, edges, trail, version, made, count>>

\* The INSERT fails on a foreign key if an end has gone since.
TargetOf(c) ==
    LET call == calls[c] IN
    /\ AtRow(c) /\ call.file.of = "edges" /\ call.found # None
    /\ \E i \in Finds(call, Row(c).target) :
         IF i = None THEN Skip(c)
         ELSE IF call.mode # "run" THEN calls' = [calls EXCEPT ![c] = Passed(@)] /\ UNCHANGED answers
         ELSE IF {call.found, i} \subseteq DOMAIN assets
         THEN /\ calls' = [calls EXCEPT ![c] = Passed(With(@, Fresh,
                  [source |-> call.found, target |-> i, label |-> Row(c).label]))]
              /\ UNCHANGED answers
         ELSE Raise(c)
    /\ UNCHANGED <<assets, edges, trail, version, made, count>>

\* The last row is behind it: a run commits, and audits in a statement of its
\* own, a bulk call only if it created something.
Commit(c) ==
    LET call == calls[c] IN
    /\ call.pc = "row" /\ (call.pc = "row" => call.next > Len(call.file.rows))
    /\ assets' = [i \in DOMAIN assets \cup (IF call.file.of = "assets" THEN DOMAIN call.new ELSE {}) |->
                     IF i \in DOMAIN assets THEN assets[i] ELSE call.new[i]]
    /\ edges' = [i \in DOMAIN edges \cup (IF call.file.of = "edges" THEN DOMAIN call.new ELSE {}) |->
                     IF i \in DOMAIN edges THEN edges[i] ELSE call.new[i]]
    /\ calls' = [calls EXCEPT ![c] =
           IF call.mode = "run" /\ (call.route = "file" \/ call.created > 0)
           THEN [@ EXCEPT !.pc = "audit"] ELSE Idle]
    /\ answers' = answers \cup {[mode |-> call.mode, file |-> call.file, ok |-> TRUE,
                                 created |-> call.created, wrote |-> Cardinality(DOMAIN call.new),
                                 from |-> call.from, still |-> call.from = version]}
    /\ version' = IF call.new = <<>> THEN version ELSE version + 1
    /\ made' = made \cup DOMAIN call.new
    /\ UNCHANGED <<trail, count>>

Audit(c) ==
    /\ calls[c].pc = "audit"
    /\ trail' = Append(trail, [of |-> calls[c].file.of, created |-> calls[c].created])
    /\ calls' = [calls EXCEPT ![c] = Idle]
    /\ UNCHANGED <<assets, edges, answers, version, made, count>>

-----------------------------------------------------------------------------
(* The others, and crashes *)

\* A row that an open transaction points at is locked until it ends.
Pinned(i) == \E c \in Clients : \E j \in DOMAIN calls[c].new :
    LET new == calls[c].new[j]
    IN IF calls[c].file.of = "assets" THEN new.owner = i ELSE i \in {new.source, new.target}

Edit == Bounded("edits", MaxEdits) /\ version' = version + 1

\* DELETE FROM assets: its edges go, what it owned is without an owner.
Remove(i) ==
    /\ i \in DOMAIN assets /\ ~Pinned(i)
    /\ Edit
    /\ assets' = [j \in DOMAIN assets \ {i} |->
                     [assets[j] EXCEPT !.owner = IF @ = i THEN None ELSE @]]
    /\ edges' = [e \in {f \in DOMAIN edges : i \notin {edges[f].source, edges[f].target}} |-> edges[e]]
    /\ UNCHANGED <<calls, trail, answers, made>>

Rename(i, name) ==
    /\ i \in DOMAIN assets /\ (i \in DOMAIN assets => assets[i].name # name)
    /\ Edit
    /\ assets' = [assets EXCEPT ![i].name = name]
    /\ UNCHANGED <<edges, calls, trail, answers, made>>

\* The worker dies, or the connection breaks: what was not committed is gone.
Crash(c) ==
    /\ calls[c].pc # "idle"
    /\ Bounded("crashes", MaxCrashes)
    /\ calls' = [calls EXCEPT ![c] = Idle]
    /\ UNCHANGED <<assets, edges, trail, answers, version, made>>

-----------------------------------------------------------------------------
Names == {Standing[i] : i \in DOMAIN Standing}

Next ==
    \/ \E c \in Clients : \/ PreviewImport(c) \/ ExecuteImport(c) \/ BulkAssets(c)
                          \/ PreviewRelImport(c) \/ ExecuteRelImport(c) \/ BulkRelationships(c)
                          \/ Rejects(c) \/ AssetRow(c) \/ InsertAsset(c) \/ SourceOf(c) \/ TargetOf(c)
                          \/ Commit(c) \/ Audit(c) \/ Crash(c)
    \/ \E i \in Ids : Remove(i) \/ \E name \in Names : Rename(i, name)

Spec == Init /\ [][Next]_vars

-----------------------------------------------------------------------------
(* Properties *)

\* A run writes all the rows it counts, a preview and a dry run write none,
\* and one that fails has written nothing.
AllOrNone == \A a \in answers : a.wrote = IF a.ok /\ a.mode = "run" THEN a.created ELSE 0

\* What a preview or a dry run counts is what the run of the same file creates:
\* of assets always, of relationships when nothing was committed from the
\* start of the one to the end of the other.
Foretold ==
    \A a, b \in answers :
        /\ a.file = b.file /\ a.ok /\ b.ok
        /\ a.file.of = "assets" \/ (a.still /\ b.still /\ a.from = b.from)
        => a.created = b.created

\* Nothing is lost or left half written: an edge has both its ends, an owner is
\* an asset, and the trail counts every row that was inserted, but for the
\* entry being written and those that a crash has taken.
Accounted ==
    LET told == MapThenSumSet(LAMBDA n : trail[n].created, DOMAIN trail)
        due == MapThenSumSet(LAMBDA c : IF calls[c].pc = "audit" THEN calls[c].created ELSE 0, Clients)
    IN /\ \A e \in DOMAIN edges : {edges[e].source, edges[e].target} \subseteq DOMAIN assets
       /\ \A i \in DOMAIN assets : assets[i].owner \in DOMAIN assets \cup {None}
       /\ told + due <= Cardinality(made)
       /\ count["crashes"] = 0 => told + due = Cardinality(made)

\* An import is one step for everyone but its owner, counted and foretold.
ImportsHold == AllOrNone /\ Foretold /\ Accounted
=============================================================================
