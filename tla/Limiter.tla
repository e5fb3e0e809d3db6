------------------------------- MODULE Limiter -------------------------------
(***************************************************************************)
(* The limiter that every request goes through (RateLimit), with every     *)
(* constant left open: a behaviour belongs to one part, chosen by its      *)
(* first state, and is one of RateLimit with the constants that RateParts  *)
(* has for the part.                                                       *)
(***************************************************************************)
EXTENDS Integers, Sequences, FiniteSets

CONSTANTS RateParts,   \* part |-> the constants of RateLimit
          NoValue        \* no row of app_settings, no copy, no token and no refusal

VARIABLES gate,        \* the part
          now, store, saving, cache, loads, noted, window, past, allowed, told

SettingNames(c) == c.buckets \cup {"overrides"}

\* Budgets are integers, those of a path one for each bucket.
Overriding(c, v) == \A path \in DOMAIN v : \A b \in c.buckets : v[path][b] \in Int

RateAssumption(c) ==
    /\ c.window \in Nat /\ c.ttl \in Int
    /\ "overrides" \notin c.buckets
    /\ \A b \in c.buckets : c.env[b] \in Int
    /\ Overriding(c, c.env["overrides"])
    /\ \A form \in c.forms : /\ DOMAIN form = SettingNames(c)
                             /\ \A b \in c.buckets : form[b] \in Int \cup {NoValue}
                             /\ form["overrides"] = NoValue \/ Overriding(c, form["overrides"])
    /\ c.most[1] \in Nat

ASSUME LimiterAssumption == \A p \in DOMAIN RateParts : RateAssumption(RateParts[p])

Rate(p) == INSTANCE RateLimit WITH
  Workers <- RateParts[p].workers, Ips <- RateParts[p].ips, Tokens <- RateParts[p].tokens,
  Sessions <- RateParts[p].sessions, Valid <- RateParts[p].valid, Buckets <- RateParts[p].buckets, Paths <- RateParts[p].paths,
  Env <- RateParts[p].env, Forms <- RateParts[p].forms, Window <- RateParts[p].window,
  CacheTTL <- RateParts[p].ttl, TokenTTL <- RateParts[p].tokenTtl, SweepAbove <- RateParts[p].sweep,
  MaxLoad <- RateParts[p].most[1], MaxLoads <- RateParts[p].most[2], MaxClock <- RateParts[p].most[3],
  MaxSaves <- RateParts[p].most[4], None <- NoValue, known <- noted

RateVars == <<now, store, saving, cache, loads, noted, window, past, allowed, told>>

GateInit == \E p \in DOMAIN RateParts : gate = p /\ Rate(p)!Init

GateNext == UNCHANGED gate /\ \E p \in DOMAIN RateParts : gate = p /\ Rate(p)!Next

GateSpec == GateInit /\ [][GateNext]_<<gate, RateVars>>

-----------------------------------------------------------------------------
\* Budgets are kept, each caller has its own, settings arrive, and Retry-After is
\* right (RateLimit).
RequestsHold ==
    /\ [](\A p \in DOMAIN RateParts : gate = p => Rate(p)!LimitsHold)
    /\ [][\A p \in DOMAIN RateParts : gate = p => Rate(p)!RetryKept]_<<gate, RateVars>>
=============================================================================
