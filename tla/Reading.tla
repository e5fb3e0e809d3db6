------------------------------- MODULE Reading -------------------------------
(***************************************************************************)
(* What somebody without view_pii is shown of an asset, on its page, in a    *)
(* list, an export or a report (redaction), while administrators save which  *)
(* fields are sensitive, and the log of such reads (access_log_service),     *)
(* which is purged by the retention of the day.  A request reads the rules   *)
(* of the organization and those of the asset with two awaits.               *)
(***************************************************************************)
EXTENDS Integers, Sequences, FiniteSets

CONSTANTS
    Fields,
    CodeSensitive,   \* the fields with FieldDef.sensitive
    Rules,           \* the rows of a form: functions from Fields to TRUE, FALSE or None (inherit)
    Kinds,           \* of requests
    Readers, Admins,
    Retentions,      \* what an administrator may set, 0 and None keep forever
    LastDay, MaxReads, MaxForms, MaxRetentions,   \* bounds
    None

VARIABLES
    rule,        \* sensitive_field_overrides ("org") and asset_sensitive_overrides ("own")
    form,        \* admin |-> the form being saved: what is left of it
    request,     \* reader |-> its request
    log,         \* data_access_log: the read and the day
    retention,   \* in app_settings
    purge,       \* the nightly job: what it read, and history: what was set since
    day,
    views,       \* history: what was shown, with the rules in force meanwhile
    lost,        \* history: the entries that could not be stored
    gone,        \* history: the entries that were purged
    tally        \* how often each bounded thing has happened

vars == <<rule, form, request, log, retention, purge, day, views, lost, gone, tally>>

Levels == {"org", "own"}
Tally(what, most) == tally[what] < most /\ tally' = [tally EXCEPT ![what] = @ + 1]
Unset == [f \in Fields |-> None]

\* Over(fields, rows): what rows add to and drop from a set of sensitive fields.
Over(fields, rows) == {f \in Fields : IF rows[f] = None THEN f \in fields ELSE rows[f]}

\* effective_sensitive_field_names
Effective(org) == Over(CodeSensitive, org)

\* resolve_columns: the custom fields that a list of one type has columns for.
Columns(org) == Fields \ (CodeSensitive \cup Effective(org))

\* What each handler does between reading its rows and the response.
Order == [page |-> <<"record", "org", "own">>,      \* asset_detail
          fetch |-> <<"org", "own">>,               \* GET /api/assets/{id}
          list |-> <<"sample", "org", "own">>,      \* the list of one type
          search |-> <<"org", "own", "sample">>,    \* GET /api/assets/
          export |-> <<"org", "own", "record">>]    \* CSV, JSON and PDF

Idle == [kind |-> None, left |-> <<>>, id |-> 0, org |-> {}, own |-> Unset,
         during |-> [l \in Levels |-> {}]]

Init ==
    /\ rule = [l \in Levels |-> Unset]
    /\ form = [a \in Admins |-> None]
    /\ request = [r \in Readers |-> Idle]
    /\ log = {} /\ lost = {} /\ gone = {} /\ views = {}
    /\ retention = None /\ purge = None /\ day = 0
    /\ tally = [reads |-> 0, forms |-> 0, retentions |-> 0]

-----------------------------------------------------------------------------
(* The rules *)

\* admin_sensitive_fields_save, asset_sensitive_overrides_save
PostForm(a) ==
    /\ form[a] = None /\ Tally("forms", MaxForms)
    /\ \E l \in Levels, rows \in Rules : form' = [form EXCEPT ![a] = [level |-> l, rows |-> rows, left |-> Fields]]
    /\ UNCHANGED <<rule, request, log, retention, purge, day, views, lost, gone>>

\* One statement for each field: upsert_override, clear_override and the same of an asset.
SaveField(a) ==
    /\ form[a] # None
    /\ \E f \in form[a].left :
         LET l == form[a].level
             now == [rule EXCEPT ![l][f] = form[a].rows[f]]
         IN /\ rule' = now
            /\ form' = [form EXCEPT ![a] = IF @.left = {f} THEN None ELSE [@ EXCEPT !.left = form[a].left \ {f}]]
            /\ request' = [r \in Readers |-> IF request[r].kind = None THEN request[r]
                              ELSE [request[r] EXCEPT !.during[l] = @ \cup {now[l]}]]
    /\ UNCHANGED <<log, retention, purge, day, views, lost, gone, tally>>

-----------------------------------------------------------------------------
(* Reads *)

Open(r) ==
    /\ request[r].kind = None /\ Tally("reads", MaxReads)
    /\ \E k \in Kinds :
         request' = [request EXCEPT ![r] = [Idle EXCEPT !.kind = k, !.left = Order[k], !.id = tally["reads"],
                                                        !.during = [l \in Levels |-> {rule[l]}]]]
    /\ UNCHANGED <<rule, form, log, retention, purge, day, views, lost, gone>>

Turn(r, what) == request[r].left # <<>> /\ (request[r].left # <<>> => Head(request[r].left) = what)
Taken(r) == [request[r] EXCEPT !.left = Tail(@)]

\* mutant: the fields of the code alone (as redact_metadata without a pool)
ReadOrgRules_CodeOnly(r) ==
    /\ Turn(r, "org")
    /\ request' = [request EXCEPT ![r] = [Taken(r) EXCEPT !.org = CodeSensitive]]
    /\ UNCHANGED <<rule, form, log, retention, purge, day, views, lost, gone, tally>>

ReadOrgRules(r) ==
    /\ Turn(r, "org")
    /\ request' = [request EXCEPT ![r] = [Taken(r) EXCEPT !.org = Effective(rule["org"])]]
    /\ UNCHANGED <<rule, form, log, retention, purge, day, views, lost, gone, tally>>

\* redact_metadata_async, redact_assets_metadata, redact_assets_by_type
ReadOwnRules(r) ==
    /\ Turn(r, "own")
    /\ request' = [request EXCEPT ![r] = [Taken(r) EXCEPT !.own = rule["own"]]]
    /\ UNCHANGED <<rule, form, log, retention, purge, day, views, lost, gone, tally>>

\* record: an insert that fails is swallowed.
Record(r) ==
    /\ Turn(r, "record") \/ Turn(r, "sample")
    /\ request' = [request EXCEPT ![r] = Taken(r)]
    /\ \/ log' = log \cup {[id |-> request[r].id, day |-> day]} /\ UNCHANGED lost
       \/ lost' = lost \cup {request[r].id} /\ UNCHANGED log
    /\ UNCHANGED <<rule, form, retention, purge, day, views, gone, tally>>

\* record_list_sampled: most lists are not recorded.
Skip(r) ==
    /\ Turn(r, "sample")
    /\ request' = [request EXCEPT ![r] = Taken(r)]
    /\ UNCHANGED <<rule, form, log, retention, purge, day, views, lost, gone, tally>>

\* The response: a list has columns for what is not sensitive in its type.
Answer(r) ==
    LET q == request[r]
        clear == Fields \ Over(q.org, q.own)
    IN /\ q.kind # None /\ q.left = <<>>
       /\ views' = views \cup {[id |-> q.id, kind |-> q.kind, during |-> q.during,
                                clear |-> IF q.kind = "list" THEN clear \ (q.org \cup CodeSensitive) ELSE clear]}
       /\ request' = [request EXCEPT ![r] = Idle]
       /\ UNCHANGED <<rule, form, log, retention, purge, day, lost, gone, tally>>

-----------------------------------------------------------------------------
(* Retention *)

\* set_retention_days: nothing, 0 and less remove the setting.
SetRetention ==
    /\ Tally("retentions", MaxRetentions)
    /\ \E d \in Retentions : retention' = IF d = None THEN None ELSE IF d <= 0 THEN None ELSE d
    /\ purge' = IF purge = None THEN None ELSE [purge EXCEPT !.since = @ \cup {retention'}]
    /\ UNCHANGED <<rule, form, request, log, day, views, lost, gone>>

\* purge_expired reads the setting and deletes, with two statements.
ReadRetention ==
    /\ purge = None /\ retention # None
    /\ purge' = [days |-> retention, since |-> {retention}]
    /\ UNCHANGED <<rule, form, request, log, retention, day, views, lost, gone, tally>>

\* mutant: from the other side of the window
DeleteExpired_Inside ==
    LET old == {e \in log : e.day >= day - purge.days}
    IN /\ purge # None
       /\ log' = log \ old
       /\ gone' = gone \cup {[id |-> e.id, age |-> day - e.day, since |-> purge.since] : e \in old}
       /\ purge' = None
       /\ UNCHANGED <<rule, form, request, retention, day, views, lost, tally>>

DeleteExpired ==
    LET old == {e \in log : e.day < day - purge.days}
    IN /\ purge # None
       /\ log' = log \ old
       /\ gone' = gone \cup {[id |-> e.id, age |-> day - e.day, since |-> purge.since] : e \in old}
       /\ purge' = None
       /\ UNCHANGED <<rule, form, request, retention, day, views, lost, tally>>

NextDay ==
    /\ day < LastDay /\ day' = day + 1
    /\ UNCHANGED <<rule, form, request, log, retention, purge, views, lost, gone, tally>>

-----------------------------------------------------------------------------
Next ==
    \/ \E a \in Admins : PostForm(a) \/ SaveField(a)
    \/ \E r \in Readers : Open(r) \/ ReadOrgRules(r) \/ ReadOwnRules(r) \/ Record(r) \/ Skip(r) \/ Answer(r)
    \/ SetRetention \/ ReadRetention \/ DeleteExpired \/ NextDay

Spec == Init /\ [][Next]_vars

-----------------------------------------------------------------------------
(* Properties *)

\* Of the page, GET, list, search and export of an asset: a field is shown only if it was open under rules that were in force during
\* the request, and hidden only if it was sensitive under such rules: with no
\* form saved meanwhile all of the views agree.  A list shows no more than a page.
Masked ==
    \A v \in views :
        LET clear == {Fields \ Over(Effective(org), own) : org \in v.during["org"], own \in v.during["own"]}
            columns == {Columns(org) : org \in v.during["org"]}
        IN /\ v.clear \subseteq UNION clear
           /\ v.kind # "list" => \A f \in Fields \ v.clear : \E c \in clear : f \notin c
           /\ v.kind = "list" => \A f \in Fields \ v.clear : \E c \in clear \cup columns : f \notin c

\* A page, an export or a report that was answered is in the log, unless its
\* entry could not be stored or has been purged.
Logged ==
    \A v \in views : "record" \in {Order[v.kind][i] : i \in DOMAIN Order[v.kind]} =>
        v.id \in {e.id : e \in log} \cup lost \cup {g.id : g \in gone}

\* Nothing is purged that was younger than every retention since the job began.
Retained == \A g \in gone : \E d \in g.since : d # None /\ (d # None => g.age > d)

ReadingHolds == Masked /\ Logged /\ Retained
=============================================================================
