-------------------------------- MODULE Scim --------------------------------
(***************************************************************************)
(* What a directory pushes: logins with their Person asset, and groups     *)
(* whose members' role follows.  Each request is a chain of statements;    *)
(* requests overlap, and administrators and single sign-on write the same  *)
(* rows; so do whoever edits the Person and the HRIS sync.  The shape of    *)
(* the documents and the listings are left out.                            *)
(***************************************************************************)
EXTENDS Integers, FiniteSets

CONSTANTS Users, Groups, Handlers,
          GroupNames, Admin, Viewer,   \* the roles a name may map to, highest first
          MaxOutside, MaxCrash, None

VARIABLES user,      \* the users row: its state, is_active, role, person linked; a login
                     \* made again under the same name is another row
          person,    \* status of the Person asset provisioned for a user, or linked to it
          group, members,   \* scim_groups and scim_group_members
          roleMap,   \* app_settings scim_group_role_map; the default role is Viewer
          req,
          outside, crashes,   \* counters the bounds cap
          drift,     \* history: users whose role something else may have set
          clash      \* history: users whose login something else may have set

rows == <<user, person, group, members>>
vars == <<rows, roleMap, req, outside, crashes, drift, clash>>

RoleNames == {Admin, Viewer}
Live == {u \in Users : user[u].state = "live"}
Idle == [pc |-> "idle", kind |-> "none", user |-> None, group |-> None, on |-> FALSE,
         todo |-> {}, map |-> [n \in GroupNames |-> None], role |-> None, alone |-> TRUE, linked |-> "no"]
Stages == {"idle", "insert", "setActive", "person", "link", "status",
           "members", "recompute", "roles", "write", "drop"}

TypeOK ==
  /\ \A u \in Users : /\ user[u].state \in {"none", "live", "gone"} /\ user[u].role \in RoleNames
                      /\ user[u].person => person[u] # "none"
  /\ person \in [Users -> {"none", "active", "archived"}]
  /\ \A g \in Groups : members[g] \subseteq Live /\ (group[g] = None => members[g] = {})
  /\ \A g, k \in Groups : (group[g] # None /\ g # k) => group[g] # group[k]
  /\ \A h \in Handlers : req[h].pc \in Stages

Init ==
  /\ \E here \in SUBSET Users :   \* made by hand, by an invitation or a sign-on
       user = [u \in Users |-> [state |-> IF u \in here THEN "live" ELSE "none",
                                active |-> TRUE, role |-> Viewer, person |-> FALSE]]
  /\ person = [u \in Users |-> "none"]
  /\ group = [g \in Groups |-> None] /\ members = [g \in Groups |-> {}]
  /\ roleMap \in [GroupNames -> RoleNames \cup {None}]
  /\ req = [h \in Handlers |-> Idle]
  /\ outside = 0 /\ crashes = 0 /\ drift = {} /\ clash = {}

At(h, pc) == req[h].pc = pc
Goto(h, pc) == req' = [req EXCEPT ![h].pc = pc]
End(h) == req' = [req EXCEPT ![h] = Idle]
Status(on) == IF on THEN "active" ELSE "archived"
\* history: another request is at work when this one begins
Others(h) == {k \in Handlers \ {h} : ~At(k, "idle")}

\* the highest role among the groups a user is in, or the default
RoleFor(u, map) ==
  IF \E g \in Groups : u \in members[g] /\ map[group[g]] = Admin THEN Admin ELSE Viewer

--------------------------------------------------------------- \* users
\* history: a request on u that overlaps another leaves u's login to chance
Begin(h, kind, u, on, pc) ==
  /\ At(h, "idle")
  /\ req' = [req EXCEPT ![h] = [Idle EXCEPT !.pc = pc, !.kind = kind, !.user = u, !.on = on,
                               !.linked = IF user[u].person THEN "yes" ELSE "no"]]
  /\ clash' = IF \E k \in Others(h) : req[k].user = u THEN clash \cup {u} ELSE clash \ {u}

\* POST /Users: refused for a name that exists or a reference already projected
CreateRead(h) == \E u \in Users, on \in BOOLEAN :
  /\ user[u].state = "none" /\ person[u] = "none"
  /\ Begin(h, "create", u, on, "insert")
  /\ UNCHANGED <<rows, roleMap, outside, crashes, drift>>

\* the new login is active, with the default role; the loser of a race stops
CreateInsert(h) ==
  /\ At(h, "insert")
  /\ LET u == req[h].user IN
     IF user[u].state # "none" THEN End(h) /\ UNCHANGED user
     ELSE /\ user' = [user EXCEPT ![u].state = "live", ![u].active = TRUE, ![u].role = Viewer]
          /\ Goto(h, IF req[h].on THEN "person" ELSE "setActive")
  /\ UNCHANGED <<person, group, members, roleMap, outside, crashes, drift, clash>>

\* PUT writes is_active whatever it was; PATCH only when it differs from what was
\* read; DELETE deactivates
ReplaceRead(h) == \E u \in Live, on \in BOOLEAN :
  /\ Begin(h, "replace", u, on, "setActive")
  /\ UNCHANGED <<rows, roleMap, outside, crashes, drift>>

PatchRead(h) == \E u \in Live, on \in BOOLEAN :
  /\ on # user[u].active
  /\ Begin(h, "patch", u, on, "setActive")
  /\ UNCHANGED <<rows, roleMap, outside, crashes, drift>>

DeactivateRead(h) == \E u \in Live :
  /\ Begin(h, "delete", u, FALSE, "setActive")
  /\ UNCHANGED <<rows, roleMap, outside, crashes, drift>>

SetUserActive(h) ==
  /\ At(h, "setActive")
  /\ user' = IF req[h].user \in Live THEN [user EXCEPT ![req[h].user].active = req[h].on] ELSE user
  /\ Goto(h, IF req[h].kind = "create" THEN "person" ELSE "status")
  /\ UNCHANGED <<person, group, members, roleMap, outside, crashes, drift, clash>>

\* the Person linked when the login was read, written in place, if it is still
\* there; PUT projects one if there was none
WriteStatus(h) ==
  /\ At(h, "status")
  /\ LET u == req[h].user IN
     /\ person' = IF req[h].linked = "yes" THEN [person EXCEPT ![u] = Status(req[h].on)] ELSE person
     /\ IF req[h].linked = "no" /\ req[h].kind = "replace" THEN Goto(h, "person") ELSE End(h)
  /\ UNCHANGED <<user, group, members, roleMap, outside, crashes, drift, clash>>

\* upsert_external_asset, then the link to it
UpsertPerson(h) ==
  /\ At(h, "person") /\ Goto(h, "link")
  /\ person' = [person EXCEPT ![req[h].user] = Status(req[h].on)]
  /\ UNCHANGED <<user, group, members, roleMap, outside, crashes, drift, clash>>

\* refused by the foreign key when the Person has been deleted in between
SetLink(h) ==
  /\ At(h, "link") /\ End(h)
  /\ user' = IF req[h].user \in Live /\ req[h].linked # "gone" THEN [user EXCEPT ![req[h].user].person = TRUE] ELSE user
  /\ UNCHANGED <<person, group, members, roleMap, outside, crashes, drift, clash>>

--------------------------------------------------------------- \* groups
\* history: while two group requests overlap, the later write may be the older
\* view, and neither of them can be relied on
Uncertain == [k \in Handlers |-> IF At(k, "idle") THEN Idle ELSE [req[k] EXCEPT !.alone = FALSE]]
BeginGroup(h, kind, g, us, pc) ==
  req' = [Uncertain EXCEPT ![h] = [Idle EXCEPT !.pc = pc, !.kind = kind, !.group = g,
                                               !.todo = us, !.alone = Others(h) = {}]]
Overlapped(h) == drift' = IF Others(h) = {} THEN drift ELSE Users

\* POST /Groups; the unique index on the name decides between two
CreateGroup(h) == \E g \in Groups, n \in GroupNames, us \in SUBSET Live :
  /\ At(h, "idle")
  /\ group[g] = None /\ \A k \in Groups : group[k] # n
  /\ group' = [group EXCEPT ![g] = n]
  /\ BeginGroup(h, "create", g, us, "members") /\ Overlapped(h)
  /\ UNCHANGED <<user, person, members, roleMap, outside, crashes, clash>>

\* Among the members asked for, ids that are no user are ignored; the others are
\* written, and the role of everyone added or removed is recomputed: PUT sets them,
\* PATCH adds, removes or replaces.
Asked(h) == req[h].todo \cap Live
Wanted(h) ==
  LET old == members[req[h].group] IN
  CASE req[h].kind \in {"create", "add"} -> old \cup Asked(h)
    [] req[h].kind = "remove" -> old \ Asked(h)
    [] OTHER -> Asked(h)
Affected(h) ==
  LET old == members[req[h].group]  new == Wanted(h) IN
  CASE req[h].kind = "replace" -> (old \ new) \cup (new \ old)
    [] req[h].kind = "patch" -> (old \ new) \cup new
    [] OTHER -> Asked(h)

SetMembers(h) ==
  /\ At(h, "members")
  /\ IF group[req[h].group] = None THEN End(h) /\ UNCHANGED members
     ELSE /\ members' = [members EXCEPT ![req[h].group] = Wanted(h)]
          /\ req' = [req EXCEPT ![h].pc = "recompute", ![h].todo = Affected(h)]
  /\ UNCHANGED <<user, person, group, roleMap, outside, crashes, drift, clash>>

\* A user who is deleted once his id was found valid ends the request at his row,
\* with those before him written and nobody's role recomputed; PATCH has removed
\* members by then, PUT has not.
RefuseMember(h) ==
  /\ At(h, "members") /\ End(h)
  /\ req[h].kind # "remove" /\ ~(req[h].todo \subseteq Live) /\ group[req[h].group] # None
  /\ LET g == req[h].group
         kept == IF req[h].kind = "patch" THEN members[g] \cap Asked(h) ELSE members[g]
     IN \E new \in {kept \cup us : us \in SUBSET Asked(h)} :
          /\ members' = [members EXCEPT ![g] = new]
          /\ drift' = drift \cup (members[g] \ new) \cup (new \ members[g])
  /\ UNCHANGED <<user, person, group, roleMap, outside, crashes, clash>>

\* history: the members of a group that is called otherwise
Renamed(h, g, n) == IF Others(h) # {} THEN Users ELSE IF n # group[g] THEN drift \cup members[g] ELSE drift

\* PUT and PATCH: a displayName, the same or a new one, and the members
RewriteGroup(h, kinds) == \E g \in Groups, n \in GroupNames, us \in SUBSET Live, k \in kinds :
  /\ At(h, "idle") /\ group[g] # None
  /\ \A other \in Groups \ {g} : group[other] # n
  /\ group' = [group EXCEPT ![g] = n]
  /\ BeginGroup(h, k, g, us, "members")
  /\ drift' = Renamed(h, g, n)
  /\ UNCHANGED <<user, person, members, roleMap, outside, crashes, clash>>

ReplaceGroup(h) == RewriteGroup(h, {"replace"})
PatchGroup(h) == RewriteGroup(h, {"add", "remove", "patch"})

\* DELETE /Groups: the members are read, then the group goes and they with it
DeleteGroupRead(h) == \E g \in Groups :
  /\ At(h, "idle") /\ group[g] # None
  /\ BeginGroup(h, "drop", g, members[g], "drop") /\ Overlapped(h)
  /\ UNCHANGED <<rows, roleMap, outside, crashes, clash>>

\* mutant: the members are looked up once the group has gone
DeleteGroup_ThenRead(h) ==
  /\ At(h, "drop") /\ End(h)
  /\ group' = [group EXCEPT ![req[h].group] = None]
  /\ members' = [members EXCEPT ![req[h].group] = {}]
  /\ UNCHANGED <<user, person, roleMap, outside, crashes, drift, clash>>

DeleteGroup(h) ==
  /\ At(h, "drop") /\ Goto(h, "recompute")
  /\ group' = [group EXCEPT ![req[h].group] = None]
  /\ members' = [members EXCEPT ![req[h].group] = {}]
  /\ UNCHANGED <<user, person, roleMap, outside, crashes, drift, clash>>

\* recompute_user_role, for one affected user after another: the map is read ...
RecomputeRead(h) ==
  /\ At(h, "recompute")
  /\ \/ req[h].todo = {} /\ End(h)
     \/ \E u \in req[h].todo :
          req' = [req EXCEPT ![h].pc = "roles", ![h].user = u, ![h].map = roleMap]
  /\ UNCHANGED <<rows, roleMap, outside, crashes, drift, clash>>

\* ... then the memberships ...
RecomputeRoles(h) ==
  /\ At(h, "roles")
  /\ req' = [req EXCEPT ![h].pc = "write", ![h].role = RoleFor(req[h].user, req[h].map)]
  /\ UNCHANGED <<rows, roleMap, outside, crashes, drift, clash>>

\* ... and the role is written
RecomputeWrite(h) ==
  /\ At(h, "write")
  /\ LET u == req[h].user IN
     /\ user' = IF u \in Live THEN [user EXCEPT ![u].role = req[h].role] ELSE user
     /\ drift' = IF Others(h) = {} /\ req[h].alone THEN drift \ {u} ELSE drift
     /\ req' = [req EXCEPT ![h].pc = "recompute", ![h].todo = @ \ {u}]
  /\ UNCHANGED <<person, group, members, roleMap, outside, crashes, clash>>

------------------------------------------------- \* who else writes these rows
Outside == outside < MaxOutside /\ outside' = outside + 1

\* admin_scim_settings_submit: nobody's role is recomputed
SetGroupRoleMap == \E n \in GroupNames, r \in RoleNames \cup {None} :
  /\ Outside /\ roleMap[n] # r
  /\ roleMap' = [roleMap EXCEPT ![n] = r]
  /\ drift' = Users
  /\ req' = Uncertain
  /\ UNCHANGED <<rows, crashes, clash>>

\* an administrator's form, and the claims of a single sign-on
SetRole == \E u \in Live, r \in RoleNames :
  /\ Outside /\ user[u].role # r
  /\ user' = [user EXCEPT ![u].role = r]
  /\ drift' = drift \cup {u}
  /\ UNCHANGED <<person, group, members, roleMap, req, crashes, clash>>

\* an administrator's toggle leaves the Person alone
ToggleActive == \E u \in Live :
  /\ Outside
  /\ user' = [user EXCEPT ![u].active = ~@]
  /\ clash' = clash \cup {u}
  /\ UNCHANGED <<person, group, members, roleMap, req, crashes, drift>>

\* A Person is an asset like any other: its form, the API, a bulk update, an
\* approved change and the syncs write its status and leave the login alone.
EditPerson == \E u \in Users, status \in {"active", "archived"} :
  /\ Outside /\ person[u] \notin {"none", status}
  /\ person' = [person EXCEPT ![u] = status]
  /\ clash' = clash \cup {u}
  /\ UNCHANGED <<user, group, members, roleMap, req, crashes, drift>>

\* its row goes, with the link of the login to it; a request may hold its id
DeletePerson == \E u \in Users :
  /\ Outside /\ person[u] # "none"
  /\ person' = [person EXCEPT ![u] = "none"]
  /\ user' = [user EXCEPT ![u].person = FALSE]
  /\ req' = [h \in Handlers |->
       IF req[h].user = u /\ (At(h, "link") \/ req[h].linked = "yes")
       THEN [req[h] EXCEPT !.linked = "gone"] ELSE req[h]]
  /\ clash' = clash \cup {u}
  /\ UNCHANGED <<group, members, roleMap, crashes, drift>>

\* an administrator's form sets the link or clears it
LinkPerson == \E u \in Live :
  /\ Outside /\ person[u] # "none"
  /\ user' = [user EXCEPT ![u].person = ~@]
  /\ clash' = clash \cup {u}
  /\ UNCHANGED <<person, group, members, roleMap, req, crashes, drift>>

\* mutant: the login of a leaver is forgotten
RetireLeaver_PersonOnly == \E u \in Users :
  /\ Outside /\ person[u] # "none"
  /\ person' = [person EXCEPT ![u] = "archived"]
  /\ clash' = IF \E h \in Handlers : req[h].user = u THEN clash \cup {u} ELSE clash
  /\ UNCHANGED <<user, group, members, roleMap, req, crashes, drift>>

\* sync_roster, in one transaction: a Person that left the roster is archived and the
\* login linked to it disabled; history: a request at work on them may undo half
RetireLeaver == \E u \in Users :
  /\ Outside /\ person[u] # "none"
  /\ person' = [person EXCEPT ![u] = "archived"]
  /\ user' = IF user[u].person THEN [user EXCEPT ![u].active = FALSE] ELSE user
  /\ clash' = IF \E h \in Handlers : req[h].user = u THEN clash \cup {u} ELSE clash
  /\ UNCHANGED <<group, members, roleMap, req, crashes, drift>>

\* the login and its memberships go; the Person stays
DeleteUser == \E u \in Live :
  /\ Outside
  /\ user' = [user EXCEPT ![u].state = "gone", ![u].person = FALSE]
  /\ members' = [g \in Groups |-> members[g] \ {u}]
  /\ UNCHANGED <<person, group, roleMap, req, crashes, drift>>
  /\ clash' = clash \cup {u}

Crash ==
  /\ crashes < MaxCrash /\ \E h \in Handlers : ~At(h, "idle")
  /\ crashes' = crashes + 1
  /\ req' = [h \in Handlers |-> Idle]
  /\ drift' = Users /\ clash' = Users
  /\ UNCHANGED <<rows, roleMap, outside>>

Step(h) ==
  \/ CreateRead(h) \/ CreateInsert(h) \/ ReplaceRead(h) \/ PatchRead(h)
  \/ DeactivateRead(h) \/ SetUserActive(h) \/ WriteStatus(h)
  \/ UpsertPerson(h) \/ SetLink(h)
  \/ CreateGroup(h) \/ SetMembers(h) \/ RefuseMember(h) \/ ReplaceGroup(h) \/ PatchGroup(h)
  \/ DeleteGroupRead(h) \/ DeleteGroup(h)
  \/ RecomputeRead(h) \/ RecomputeRoles(h) \/ RecomputeWrite(h)

Next == \/ \E h \in Handlers : Step(h)
        \/ SetGroupRoleMap \/ SetRole \/ ToggleActive \/ DeleteUser \/ Crash
        \/ EditPerson \/ DeletePerson \/ LinkPerson \/ RetireLeaver

Spec == Init /\ [][Next]_vars

----------------------------------------------------------------- \* properties
Quiet == \A h \in Handlers : At(h, "idle")

\* "Each member's login role becomes the highest-privilege role among the groups
\* they belong to", and leaving the last one resets it: true of everybody once no
\* request runs, but for the users a renamed group, a changed map, another writer
\* of roles, two overlapping requests or a crash left behind (recompute_user_role).
RolesFollowGroups ==
  Quiet => \A u \in Live \ drift : user[u].role = RoleFor(u, roleMap)

\* A leaver disabled upstream is out: the login is active exactly when the Person
\* it is linked to is, once no request runs.  What the last push, or the HRIS sync
\* after it, made so stays so until somebody else writes one of the two alone (an
\* administrator the login or its link, an editor of assets or a sync the Person),
\* and is not so at all after pushes that overlap, or overlap one of these, or a
\* crash (replace_user, patch_user, deactivate_user).
LeaversAreOut ==
  Quiet => \A u \in Live \ clash : user[u].person => person[u] = Status(user[u].active)
=============================================================================
