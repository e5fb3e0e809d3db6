------------------------------ MODULE RateLimit ------------------------------
(***************************************************************************)
(* The request limiter (rate_limit.py and RateLimitMiddleware): each worker  *)
(* counts the requests it let through in the last minute, by caller, bucket  *)
(* and overridden path, and keeps a copy of the budgets of app_settings,     *)
(* which it reads anew, with an await, once the copy is older than its TTL.  *)
(* Time is in ticks of the clock.                                            *)
(***************************************************************************)
EXTENDS Integers, Sequences, FiniteSets

CONSTANTS
    Workers,
    Ips, Tokens,
    Sessions,     \* the ids that a signed session cookie may hold
    Valid,        \* the tokens that authenticate
    Buckets,      \* "read", "write"
    Paths,        \* the paths that an override can name
    Env,          \* the budgets of the configuration
    Forms,        \* what an administrator may save
    Window,       \* _WINDOW_SECONDS
    CacheTTL,     \* _DB_CACHE_TTL
    TokenTTL,     \* _KNOWN_TOKEN_TTL
    SweepAbove,   \* 1024: windows above which stale ones are evicted
    MaxLoad,      \* bound of what a read of app_settings takes
    MaxLoads, MaxClock, MaxSaves,
    None

VARIABLES
    now,
    store,    \* app_settings: key |-> value, None when it has no row
    saving,   \* worker |-> the form it is storing and the keys it has left, or None
    cache,    \* worker |-> [values, at], or None: _db_cache and _db_cache_at
    loads,    \* the reads of app_settings that are under way
    known,    \* worker |-> token |-> when it last authenticated, None: never
    window,   \* worker |-> key |-> the times in its deque; no entry: <<>>
    past,     \* history: what was stored, and until when
    allowed,  \* history: worker |-> key |-> the requests it let through in the window of the last
    told      \* history: worker |-> key |-> its last Retry-After, or None

vars == <<now, store, saving, cache, loads, known, window, past, allowed, told>>

Settings == Buckets \cup {"overrides"}
Callers == Ips \cup Sessions \cup Tokens
WinKeys == Callers \X Buckets \X (Paths \cup {""})

Init ==
    /\ now = 0
    /\ store \in Forms
    /\ saving = [w \in Workers |-> None]
    /\ cache = [w \in Workers |-> None]
    /\ loads = {}
    /\ known = [w \in Workers |-> [t \in Tokens |-> None]]
    /\ window = [w \in Workers |-> [k \in WinKeys |-> <<>>]]
    /\ past = {}
    /\ allowed = [w \in Workers |-> [k \in WinKeys |-> <<>>]]
    /\ told = [w \in Workers |-> [k \in WinKeys |-> None]]

-----------------------------------------------------------------------------
(* The budgets *)

Fresh(w) == cache[w] # None /\ now - cache[w].at < CacheTTL

\* _resolve_setting: the row, or what the environment says.
Resolve(copy, name) ==
    IF copy = None THEN Env[name] ELSE IF copy.values[name] = None THEN Env[name] ELSE copy.values[name]

\* _resolve_limits: the override of the path, or the budget of all the others.
Limit(copy, b, p) ==
    LET overrides == Resolve(copy, "overrides")
    IN IF p \in DOMAIN overrides THEN [limit |-> overrides[p][b], prefix |-> p]
       ELSE [limit |-> Resolve(copy, b), prefix |-> ""]

-----------------------------------------------------------------------------
(* check_api_rate_limit *)

\* Only a token that has authenticated here, and lately, has a budget of its own;
\* then the session of the cookie, and then the address.
CallerKey(w, ip, s, t) ==
    IF t # None /\ (t # None => known[w][t] # None /\ now - known[w][t] < TokenTTL) THEN t
    ELSE IF s # None THEN s ELSE ip

\* mutant: a window is stale by its first hit
Evicted_ByFirst(wins) ==
    [k \in WinKeys |-> IF wins[k] # <<>> /\ wins[k][1] < now - Window THEN <<>> ELSE wins[k]]

\* _evict_stale_windows: those without a hit in the last minute.
Evicted(wins) ==
    [k \in WinKeys |-> IF wins[k] # <<>> /\ wins[k][Len(wins[k])] < now - Window THEN <<>> ELSE wins[k]]

Swept(w) ==
    IF Cardinality({k \in WinKeys : window[w][k] # <<>>}) > SweepAbove THEN Evicted(window[w]) ELSE window[w]

\* The deque without the hits at its front that are older than the window.
Recent(hits) == SubSeq(hits, Cardinality({i \in DOMAIN hits : hits[i] < now - Window}) + 1, Len(hits))

\* mutant: the client is told when the oldest hit is just the whole window old
RetryAfter_Exact(first) == IF first + Window - now < 1 THEN 1 ELSE first + Window - now

\* Retry-After: the second after the oldest hit drops out of the window.
RetryAfter(first) == (IF first + Window - now < 1 THEN 1 ELSE first + Window - now) + 1

\* What the history keeps of the requests that were let through.
Latest(log) == SubSeq(log, Cardinality({i \in DOMAIN log : log[i].at < now - Window}) + 1, Len(log))

\* A request that is let through has its token noted, if it authenticates.
Noted(w, t) == IF t \in Valid THEN [known EXCEPT ![w][t] = now] ELSE known

\* A request that the middleware decides on with the budgets in copy.
Decide(w, ip, s, t, b, p, copy) ==
    LET rule == Limit(copy, b, p)
        key == <<CallerKey(w, ip, s, t), b, rule.prefix>>
        wins == Swept(w)
        hits == Recent(wins[key])
    IN IF rule.limit <= 0
       THEN known' = Noted(w, t) /\ UNCHANGED <<window, allowed, told>>
       ELSE IF Len(hits) >= rule.limit
       THEN /\ window' = [window EXCEPT ![w] = [wins EXCEPT ![key] = hits]]
            /\ told' = [told EXCEPT ![w][key] =
                  [at |-> now + RetryAfter(hits[1]), limit |-> rule.limit, full |-> Len(hits) = rule.limit]]
            /\ UNCHANGED <<known, allowed>>
       ELSE /\ window' = [window EXCEPT ![w] = [wins EXCEPT ![key] = Append(hits, now)]]
            /\ allowed' = [allowed EXCEPT ![w][key] =
                  Append(Latest(@), [at |-> now, limit |-> rule.limit])]
            /\ told' = [told EXCEPT ![w][key] = None]
            /\ known' = Noted(w, t)

\* The copy is fresh: no await before the decision.
Request(w, ip, s, t, b, p) ==
    /\ Fresh(w)
    /\ Decide(w, ip, s, t, b, p, cache[w])
    /\ UNCHANGED <<now, store, saving, cache, loads, past>>

\* It is not: the request reads the rows, and others are served meanwhile.
BeginLoad(w, ip, s, t, b, p) ==
    /\ ~Fresh(w) /\ Cardinality(loads) < MaxLoads
    /\ loads' = loads \cup {[worker |-> w, ip |-> ip, session |-> s, token |-> t, bucket |-> b,
                              path |-> p, values |-> store, at |-> now]}
    /\ UNCHANGED <<now, store, saving, cache, known, window, past, allowed, told>>

\* refresh_db_settings: whatever the copy is by now, it becomes what was read.
EndLoad(r) ==
    /\ r \in loads
    /\ loads' = loads \ {r}
    /\ cache' = [cache EXCEPT ![r.worker] = [values |-> r.values, at |-> now]]
    /\ Decide(r.worker, r.ip, r.session, r.token, r.bucket, r.path, cache'[r.worker])
    /\ UNCHANGED <<now, store, saving, past>>

\* The read fails: the decision is made with the copy there is.
LoadFails(r) ==
    /\ r \in loads
    /\ loads' = loads \ {r}
    /\ Decide(r.worker, r.ip, r.session, r.token, r.bucket, r.path, cache[r.worker])
    /\ UNCHANGED <<now, store, saving, cache, past>>

-----------------------------------------------------------------------------
(* admin_rate_limits_save *)

BeginSave(w) ==
    /\ saving[w] = None /\ Cardinality(past) < MaxSaves
    /\ \E form \in Forms : saving' = [saving EXCEPT ![w] = [form |-> form, left |-> Settings]]
    /\ UNCHANGED <<now, store, cache, loads, known, window, past, allowed, told>>

\* One statement for each key.
SaveKey(w) ==
    /\ saving[w] # None /\ saving[w].left # {}
    /\ LET k == CHOOSE k \in saving[w].left : \/ k # "overrides" \/ saving[w].left = {"overrides"}
           v == saving[w].form[k]
       IN /\ saving' = [saving EXCEPT ![w].left = @ \ {k}]
          /\ store' = [store EXCEPT ![k] = v]
          /\ past' = IF store[k] = v THEN past ELSE past \cup {[key |-> k, value |-> store[k], until |-> now]}
    /\ UNCHANGED <<now, cache, loads, known, window, allowed, told>>

\* invalidate_settings_cache, of this worker only.
EndSave(w) ==
    /\ saving[w] # None /\ saving[w].left = {}
    /\ saving' = [saving EXCEPT ![w] = None]
    /\ cache' = [cache EXCEPT ![w] = None]
    /\ UNCHANGED <<now, store, loads, known, window, past, allowed, told>>

Tick ==
    /\ now < MaxClock /\ \A r \in loads : now < r.at + MaxLoad
    /\ now' = now + 1
    /\ UNCHANGED <<store, saving, cache, loads, known, window, past, allowed, told>>

Next ==
    \/ \E w \in Workers, ip \in Ips, s \in Sessions \cup {None}, t \in Tokens \cup {None},
          b \in Buckets, p \in Paths \cup {""} :
         Request(w, ip, s, t, b, p) \/ BeginLoad(w, ip, s, t, b, p)
    \/ \E r \in loads : EndLoad(r) \/ LoadFails(r)
    \/ \E w \in Workers : BeginSave(w) \/ SaveKey(w) \/ EndSave(w)
    \/ Tick

Spec == Init /\ [][Next]_vars

-----------------------------------------------------------------------------
(* Properties *)

\* Of the requests let through in any minute none is above the budget that was
\* then in force, whatever budgets were lowered and windows evicted meanwhile.
BudgetKept ==
    \A w \in Workers, k \in WinKeys : LET log == allowed[w][k] IN
        \A i \in DOMAIN log :
            Cardinality({j \in 1..i : log[j].at >= log[i].at - Window}) <= log[i].limit

\* A string that never authenticated is counted with its session or its address.
OwnBudget ==
    \A w \in Workers : \A k \in WinKeys : window[w][k] # <<>> => k[1] \in Ips \cup Sessions \cup Valid

\* What a worker takes for fresh was stored less than a TTL, and what a read may
\* take, ago: what an administrator saves is in force in all of the workers by then.
SettingsReach ==
    \A w \in Workers : Fresh(w) =>
        \A s \in Settings :
            \/ cache[w].values[s] = store[s]
            \/ \E g \in past : /\ g.key = s /\ g.value = cache[w].values[s]
                               /\ now - g.until < CacheTTL + MaxLoad

\* A client that was refused and waited as it was told to is let through, unless
\* the budget was lowered.
RetryKept ==
    \A w \in Workers, k \in WinKeys :
        LET was == told[w][k] is == told'[w][k]
        IN was # None /\ is # None /\ was # is =>
             (was.full /\ now >= was.at => is.limit < was.limit)

LimitsHold == BudgetKept /\ OwnBudget /\ SettingsReach
=============================================================================
