------------------------------ MODULE Accounts ------------------------------
(***************************************************************************)
(* The five modules about who is let in, side by side: signing in, tokens,  *)
(* accounts that are made by invitation or by a provider, what a directory  *)
(* pushes, and the tenant boundary.  A behaviour belongs to one part, chosen *)
(* by Init.  Five parts are behaviours of SignIn and three of Scim with only *)
(* some of the users, requests and bounds, to bring about the cases of one   *)
(* hazard; the others are the other modules as they are.  A part leaves      *)
(* alone the variables of the modules it is not about.                       *)
(***************************************************************************)
EXTENDS SignIn, Sequences

CONSTANTS Pair,   \* two of the session ids, of the tokens, or of the groups
          AdminRole, ViewerRole, Alice, Bob, Carol, Never
CONSTANTS Owners, Clients, Ttl, MaxExpiries, ReqTime, MaxTime, MaxChanges
CONSTANTS Names, Invites, Subjects, NameOf, EmailOf, MaxAccounts, MaxDeaths, MaxDelete
CONSTANTS GroupNames,
          Name,   \* one of the names of groups
          MaxOutside
CONSTANTS Workers, Conns, WorkerOf, TablesOf, Orgs, NoOrg, Superuser, MaxDepth

VARIABLES part, call, time, deaths, changes, holder, person,
          owner, client, token, maxExpiry, closed,
          member, invite, ids, deletes, orphans,
          user, group, members, roleMap, outside, drift, clash,
          table, grants, defaults, boot, conn, task

\* Times are numbers; what stands for nothing is nothing else.
ASSUME AccountsAssumption ==
  /\ ReqTime \in Nat /\ MaxTime \in Nat /\ MaxAccounts \in Nat
  /\ Ttl \in [Clients -> Nat] /\ NameOf \in [Subjects -> Names]
  /\ {None, Never} \cap Int = {} /\ None \notin Clients \cup Invites \cup Subjects \cup GroupNames
  /\ None \notin [name : Names, invite : Invites \cup {None}, sub : Subjects \cup {None},
                  email : {EmailOf[s] : s \in Subjects} \cup {None}, person : BOOLEAN]
  /\ None \notin [expires : Nat, accepted : BOOLEAN, by : Nat, revoked : BOOLEAN]

------------------------------------------------------------ \* parts of SignIn
\* Of each part: the users, roles, kinds of request and session ids that occur,
\* whether recovery codes are presented, the most failures on an account, and
\* the most ticks, crashes, enrolments and edits of accounts.
Scope ==
  [ \* guessing a password on the page and by the API, with a crash, roles that
    \* need a second factor and one that does not
    guessing |-> [users |-> {Alice}, roles |-> Roles, kinds |-> {"page", "api"}, redeem |-> FALSE,
                  sids |-> Pair, fails |-> 9, most |-> <<1, 1, 1, 0>>],
    \* codes presented while the factor is disabled and enrolled again
    codes |-> [users |-> {Alice}, roles |-> {AdminRole}, kinds |-> {"mfa", "confirm"}, redeem |-> FALSE,
               sids |-> Sids \ Pair, fails |-> 2, most |-> <<1, 0, 2, 0>>],
    \* time steps and recovery codes across a tick of the clock
    steps |-> [users |-> {Alice}, roles |-> {AdminRole}, kinds |-> {"mfa"}, redeem |-> TRUE,
               sids |-> Pair, fails |-> 1, most |-> <<1, 0, 1, 0>>],
    \* enrolments begun, confirmed and cancelled across each other
    enrolments |-> [users |-> {Alice}, roles |-> {AdminRole}, kinds |-> {"confirm", "cancel"}, redeem |-> FALSE,
                    sids |-> {}, fails |-> 0, most |-> <<1, 0, 4, 1>>],
    \* sessions of two accounts against the cap and the two timeouts
    sessions |-> [users |-> {Bob, Carol}, roles |-> {AdminRole}, kinds |-> {"sso", "visit"}, redeem |-> FALSE,
                  sids |-> Sids, fails |-> 0, most |-> <<2, 0, 1, 1>>] ]

------------------------------------------------------------ \* the other modules
Bearers == INSTANCE ApiTokens WITH req <- call, clock <- time, edits <- changes,
  Users <- Owners, Tokens <- Pair, MaxClock <- MaxTime, MaxAdmin <- MaxChanges

Newcomers == INSTANCE Provisioning WITH account <- holder, req <- call, clock <- time, crashes <- deaths,
  MaxClock <- MaxTime, MaxCrash <- MaxDeaths

Directory == INSTANCE Scim WITH req <- call, crashes <- deaths, Users <- Names, Groups <- Pair,
  Admin <- AdminRole, Viewer <- ViewerRole, MaxCrash <- MaxDeaths

\* with row-level security on, and off
Tenants(enforce) == INSTANCE Tenancy WITH Tasks <- Handlers, Enforce <- enforce

\* Of each part: the users who are there and may be, whether requests about groups
\* run and overlap, the names of groups, and the most others write and workers stop.
Pushed ==
  [ \* logins pushed by two requests at once, beside an administrator, somebody who
    \* edits the Person, and the HRIS sync
    leavers |-> [there |-> {}, users |-> {Alice}, stages |-> {"idle", "insert", "setActive", "person", "link", "status"},
                 overlap |-> TRUE, names |-> {}, most |-> <<1, 1>>],
    \* a user in a group, two requests at once
    members |-> [there |-> {Alice}, users |-> {Alice},
                 stages |-> {"idle", "members", "recompute", "roles", "write", "drop"},
                 overlap |-> TRUE, names |-> {Name}, most |-> <<0, 0>>],
    \* two users in it, one request after the other
    two |-> [there |-> Names, users |-> Names,
             stages |-> {"idle", "members", "recompute", "roles", "write", "drop"},
             overlap |-> FALSE, names |-> {Name}, most |-> <<0, 0>>],
    \* a user in two groups, beside an administrator
    twoGroups |-> [there |-> {Alice}, users |-> {Alice},
                   stages |-> {"idle", "members", "recompute", "roles", "write", "drop"},
                   overlap |-> FALSE, names |-> GroupNames, most |-> <<1, 1>>] ]

------------------------------------------------------------------ \* the sum
Blank(v) == v = 0
TokenVars == <<owner, client, token, maxExpiry, closed>>
NewcomerVars == <<member, invite, ids, deletes, orphans>>
ScimVars == <<user, group, members, roleMap, outside, drift, clash>>
TenantVars == <<table, grants, defaults, boot, conn, task>>
SharedVars == <<call, time, deaths, changes, holder, person>>
OtherVars == <<SharedVars, TokenVars, NewcomerVars, ScimVars, TenantVars>>

NoTokens == Blank(owner) /\ Blank(client) /\ Blank(token) /\ Blank(maxExpiry) /\ Blank(closed)
NoNewcomers == Blank(member) /\ Blank(invite) /\ Blank(ids) /\ Blank(deletes) /\ Blank(orphans)
NoScim == /\ Blank(user) /\ Blank(group) /\ Blank(members) /\ Blank(roleMap)
          /\ Blank(outside) /\ Blank(drift) /\ Blank(clash)
NoTenants == Blank(table) /\ Blank(grants) /\ Blank(defaults) /\ Blank(boot) /\ Blank(conn) /\ Blank(task)
NoShared == /\ Blank(call) /\ Blank(time) /\ Blank(deaths) /\ Blank(changes)
            /\ Blank(holder) /\ Blank(person)
NoOther == NoTokens /\ NoNewcomers /\ NoScim /\ NoTenants /\ NoShared

\* SignIn before anybody has signed in or enrolled; an account that a part finds
\* enrolled is an administrator's
Resting(u) == account[u].role = AdminRole /\ enrolment[u] = None

InitIn(scope) ==
  /\ Init /\ NoOther
  /\ challenged = IF "mfa" \in scope.kinds THEN scope.users ELSE {}
  /\ \A u \in Users : IF u \in scope.users THEN account[u].role \in scope.roles ELSE Resting(u)
  /\ \A u \in Users : Enabled(u) => account[u].role = AdminRole

NextIn(scope) ==
  /\ Next
  /\ clock' <= scope.most[1] /\ crashes' <= scope.most[2]
  /\ gen' <= scope.most[3] /\ edits' <= scope.most[4]
  /\ \A h \in Handlers : req'[h] # req[h] /\ req'[h].pc # "idle" =>
       /\ req'[h].user \in scope.users /\ req'[h].kind \in scope.kinds
       /\ req'[h].pc = "redeem" => scope.redeem
       /\ req'[h].pc = "claim" => req'[h].num <= scope.most[1]
  /\ \A u \in Users \ scope.users : account'[u] = account[u] /\ enrolment'[u] = enrolment[u]
  /\ \A u \in Users : account'[u].failed <= scope.fails
  /\ \A s \in Sids : sessions'[s] # None => s \in scope.sids
  /\ UNCHANGED OtherVars

AtRest == Init /\ challenged = {} /\ \A u \in Users : Resting(u)

PushedInit(scope) ==
  /\ Directory!Init
  /\ scope.there \subseteq Directory!Live /\ Directory!Live \subseteq scope.users
  /\ \A n \in GroupNames \ scope.names : roleMap[n] = None
  /\ Name \in scope.names => roleMap[Name] = AdminRole

PushedNext(scope) ==
  /\ Directory!Next
  /\ outside' <= scope.most[1] /\ deaths' <= scope.most[2]
  /\ \A h \in Handlers : call'[h].pc \in scope.stages /\ call'[h].user \in scope.users \cup {None}
  /\ scope.overlap \/ \A h, k \in Handlers : h # k => "idle" \in {call'[h].pc, call'[k].pc}
  /\ \A g \in Pair : group'[g] \in scope.names \cup {None}
  /\ \A n \in GroupNames \ scope.names : roleMap'[n] = roleMap[n]

SumInit ==
  \/ part \in DOMAIN Scope /\ InitIn(Scope[part])
  \/ /\ AtRest /\ NoNewcomers /\ NoScim /\ NoTenants /\ Blank(person) /\ Blank(holder) /\ Blank(deaths)
     /\ part = "bearers" /\ Bearers!Init
  \/ /\ AtRest /\ NoTokens /\ NoScim /\ NoTenants /\ Blank(person) /\ Blank(changes)
     /\ part = "newcomers" /\ Newcomers!Init
  \/ /\ AtRest /\ NoTokens /\ NoNewcomers /\ NoTenants /\ Blank(holder) /\ Blank(time) /\ Blank(changes)
     /\ part \in DOMAIN Pushed /\ PushedInit(Pushed[part])
  \/ /\ AtRest /\ NoTokens /\ NoNewcomers /\ NoScim /\ NoShared
     /\ \/ part = "policies" /\ Tenants(TRUE)!Init
        \/ part = "shadow" /\ Tenants(FALSE)!Init

SumNext ==
  /\ UNCHANGED part
  /\ \/ part \in DOMAIN Scope /\ NextIn(Scope[part])
     \/ /\ UNCHANGED <<vars, NewcomerVars, ScimVars, TenantVars, person, holder, deaths>>
        /\ part = "bearers" /\ Bearers!Next
     \/ /\ UNCHANGED <<vars, TokenVars, ScimVars, TenantVars, person, changes>>
        /\ part = "newcomers" /\ Newcomers!Next
     \/ /\ UNCHANGED <<vars, TokenVars, NewcomerVars, TenantVars, holder, time, changes>>
        /\ part \in DOMAIN Pushed /\ PushedNext(Pushed[part])
     \/ /\ UNCHANGED <<vars, TokenVars, NewcomerVars, ScimVars, SharedVars>>
        /\ \/ part = "policies" /\ Tenants(TRUE)!Next
           \/ part = "shadow" /\ Tenants(FALSE)!Next

SumSpec == SumInit /\ [][SumNext]_<<vars, OtherVars, part>>

----------------------------------------------------------------- \* properties
\* What a client's secret was exchanged for dies with the client (ClientTokensDie).
ClientTokensDie == part = "bearers" => Bearers!TypeOK /\ Bearers!ClientTokensDie

\* Invitations are used once and accounts made whole (InvitedOnce, AccountsWhole).
AccountsSettle ==
  part = "newcomers" => Newcomers!TypeOK /\ Newcomers!InvitedOnce /\ Newcomers!AccountsWhole

\* The directory's word holds once its requests have ended, but for the users whose
\* rows others have written since (RolesFollowGroups, LeaversAreOut).
DirectoryHolds ==
  part \in DOMAIN Pushed => Directory!TypeOK /\ Directory!RolesFollowGroups /\ Directory!LeaversAreOut

\* No task reads another organization, and each reads its own (Tenancy).
TenantsHold ==
  /\ part = "policies" => Tenants(TRUE)!TenantsHold
  /\ part = "shadow" => Tenants(FALSE)!TenantsHold
=============================================================================
