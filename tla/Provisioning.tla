---------------------------- MODULE Provisioning ----------------------------
(***************************************************************************)
(* How an account comes to be: an administrator types it, an invitee       *)
(* accepts a link, or an identity provider vouches for somebody unknown.   *)
(* Each is a chain of statements -- the row, its membership, the use of    *)
(* the invitation, the Person asset -- and a worker may stop between any   *)
(* two.  Passwords, hashes and addresses are left out.                     *)
(***************************************************************************)
EXTENDS Integers, FiniteSets

CONSTANTS Names,      \* usernames, unique over all organizations
          Invites, Subjects, Handlers,
          NameOf,     \* the username a provider proposes for a subject
          EmailOf,    \* ... and the address
          MaxAccounts, MaxClock, MaxCrash, MaxDelete, None

VARIABLES account,   \* id -> the users row
          member,    \* ids with a user_organizations row
          invite,    \* the org_invitations rows
          req, clock,
          ids, crashes, deletes,   \* counters the bounds cap
          orphans    \* history: accounts whose request a crash cut short

rows == <<account, member, invite>>
vars == <<rows, req, clock, ids, crashes, deletes, orphans>>
Ids == 1..MaxAccounts

Idle == [pc |-> "idle", what |-> None, name |-> None, id |-> 0]
Stages == {"idle", "name", "insert", "member", "consume", "undo",
           "email", "link", "reload", "create", "sync", "asset", "person"}
NewAccount(n, i, s, e) ==
  [name |-> n, invite |-> i, sub |-> s, email |-> e, person |-> FALSE]

TypeOK ==
  /\ \A a, b \in Ids : (account[a] # None /\ account[b] # None /\ a # b) =>
       /\ account[a].name # account[b].name
       /\ account[a].sub = None \/ account[a].sub # account[b].sub
  /\ \A a \in member : account[a] # None
  /\ \A h \in Handlers : req[h].pc \in Stages
  /\ \A i \in Invites : invite[i] # None => invite[i].by \in Ids \cup {0}

Init ==
  /\ account = [a \in Ids |-> None] /\ member = {}
  /\ invite = [i \in Invites |-> None]
  /\ req = [h \in Handlers |-> Idle]
  /\ clock = 0 /\ ids = 0 /\ crashes = 0 /\ deletes = 0 /\ orphans = {}

At(h, pc) == req[h].pc = pc
Goto(h, pc) == req' = [req EXCEPT ![h].pc = pc]
End(h) == req' = [req EXCEPT ![h] = Idle]
Live(a) == a # 0 /\ account[a] # None
ByName(n) == {a \in Ids : account[a] # None /\ account[a].name = n}
BySub(s) == {a \in Ids : account[a] # None /\ account[a].sub = s}
ByEmail(e) == {a \in Ids : account[a] # None /\ account[a].email = e}

\* pending: not accepted, not revoked, not expired
Valid(i) == invite[i] # None /\ ~invite[i].accepted /\ ~invite[i].revoked
            /\ invite[i].expires >= clock

\* the insert of a users row: the unique index on the name decides, and in the
\* provider's case the one on the subject
Insert(h, n, i, s, e, next) ==
  IF ByName(n) # {} \/ (s # None /\ BySub(s) # {})
  THEN End(h) /\ UNCHANGED <<account, ids>>
  ELSE /\ ids < MaxAccounts /\ ids' = ids + 1
       /\ account' = [account EXCEPT ![ids + 1] = NewAccount(n, i, s, e)]
       /\ req' = [req EXCEPT ![h].pc = next, ![h].id = ids + 1]

---------------------------------------------------------------- \* invitations
CreateInvitation == \E i \in Invites :
  /\ invite[i] = None
  /\ invite' = [invite EXCEPT ![i] = [expires |-> clock + 1, accepted |-> FALSE, by |-> 0, revoked |-> FALSE]]
  /\ UNCHANGED <<account, member, req, clock, ids, crashes, deletes, orphans>>

\* one conditional UPDATE
RevokeInvitation == \E i \in Invites :
  /\ invite[i] # None /\ ~invite[i].accepted /\ ~invite[i].revoked
  /\ invite' = [invite EXCEPT ![i].revoked = TRUE]
  /\ UNCHANGED <<account, member, req, clock, ids, crashes, deletes, orphans>>

AcceptRead(h) == \E i \in Invites, n \in Names :
  /\ At(h, "idle") /\ Valid(i)
  /\ req' = [req EXCEPT ![h] = [pc |-> "name", what |-> i, name |-> n, id |-> 0]]
  /\ UNCHANGED <<rows, clock, ids, crashes, deletes, orphans>>

AcceptName(h) ==
  /\ At(h, "name")
  /\ IF ByName(req[h].name) # {} THEN End(h) ELSE Goto(h, "insert")
  /\ UNCHANGED <<rows, clock, ids, crashes, deletes, orphans>>

\* auth.create_user for an invitee, and for an administrator's form
CreateUser(h) ==
  /\ At(h, "insert")
  /\ Insert(h, req[h].name, req[h].what, None, None, "member")
  /\ UNCHANGED <<member, invite, clock, crashes, deletes, orphans>>

\* mirrored into user_organizations; the insert fails when the account is gone
AddMembership(h) ==
  /\ At(h, "member")
  /\ IF Live(req[h].id)
     THEN /\ member' = member \cup {req[h].id}
          /\ IF req[h].what = None THEN End(h) ELSE Goto(h, "consume")
     ELSE End(h) /\ UNCHANGED member
  /\ UNCHANGED <<account, invite, clock, ids, crashes, deletes, orphans>>

\* mutant: the UPDATE asks for nothing
Consume_Always(h) ==
  /\ At(h, "consume") /\ Live(req[h].id) /\ End(h)
  /\ LET i == req[h].what IN
     invite' = [invite EXCEPT ![i].accepted = TRUE, ![i].by = req[h].id]
  /\ UNCHANGED <<account, member, clock, ids, crashes, deletes, orphans>>

\* the row decides: a conditional UPDATE, whose accepted_by must exist
Consume(h) ==
  /\ At(h, "consume")
  /\ LET i == req[h].what  open == ~invite[i].accepted /\ ~invite[i].revoked IN
     \/ ~open /\ Goto(h, "undo") /\ UNCHANGED invite
     \/ open /\ ~Live(req[h].id) /\ End(h) /\ UNCHANGED invite
     \/ /\ open /\ Live(req[h].id) /\ End(h)
        /\ invite' = [invite EXCEPT ![i].accepted = TRUE, ![i].by = req[h].id]
  /\ UNCHANGED <<account, member, clock, ids, crashes, deletes, orphans>>

\* deleting an account deletes its membership and blanks accepted_by
Drop(a) ==
  /\ account' = [account EXCEPT ![a] = None]
  /\ member' = member \ {a}
  /\ invite' = [i \in Invites |-> IF invite[i] # None /\ invite[i].by = a
                                  THEN [invite[i] EXCEPT !.by = 0] ELSE invite[i]]

\* the race with another accept, or with a revoke, was lost
Undo(h) ==
  /\ At(h, "undo") /\ End(h) /\ Drop(req[h].id)
  /\ UNCHANGED <<clock, ids, crashes, deletes, orphans>>

------------------------------------------------------------ \* administrators
AdminCreate(h) == \E n \in Names :
  /\ At(h, "idle")
  /\ req' = [req EXCEPT ![h] = [pc |-> "insert", what |-> None, name |-> n, id |-> 0]]
  /\ UNCHANGED <<rows, clock, ids, crashes, deletes, orphans>>

AdminDelete == \E a \in Ids :
  /\ deletes < MaxDelete /\ Live(a) /\ Drop(a)
  /\ deletes' = deletes + 1
  /\ UNCHANGED <<req, clock, ids, crashes, orphans>>

------------------------------------------------- \* an identity provider's callback
\* by the provider's own identifier first
SsoFind(h) == \E s \in Subjects :
  /\ At(h, "idle")
  /\ req' = [req EXCEPT ![h] =
       IF BySub(s) = {} THEN [pc |-> "email", what |-> s, name |-> NameOf[s], id |-> 0]
       ELSE [pc |-> "sync", what |-> s, name |-> NameOf[s], id |-> CHOOSE a \in BySub(s) : TRUE]]
  /\ UNCHANGED <<rows, clock, ids, crashes, deletes, orphans>>

\* ... then by address, and the account found is linked
SsoEmail(h) ==
  /\ At(h, "email")
  /\ \/ ByEmail(EmailOf[req[h].what]) = {} /\ Goto(h, "create")
     \/ \E a \in ByEmail(EmailOf[req[h].what]) :
          req' = [req EXCEPT ![h].pc = "link", ![h].id = a]
  /\ UNCHANGED <<rows, clock, ids, crashes, deletes, orphans>>

\* the unique index refuses a subject linked elsewhere meanwhile; the address the
\* provider gives is stored too, and no row is changed when the account went
SsoLink(h) ==
  /\ At(h, "link")
  /\ LET a == req[h].id  s == req[h].what IN
     IF Live(a) /\ BySub(s) \subseteq {a}
     THEN /\ account' = [account EXCEPT ![a].sub = s, ![a].email = EmailOf[s]]
          /\ Goto(h, "reload")
     ELSE /\ UNCHANGED account
          /\ IF Live(a) THEN End(h) ELSE Goto(h, "reload")
  /\ UNCHANGED <<member, invite, clock, ids, crashes, deletes, orphans>>

\* the account just linked is read again, and made anew when it is gone
SsoReload(h) ==
  /\ At(h, "reload")
  /\ IF Live(req[h].id) THEN Goto(h, "sync") ELSE Goto(h, "create")
  /\ UNCHANGED <<rows, clock, ids, crashes, deletes, orphans>>

SsoCreate(h) ==
  /\ At(h, "create")
  /\ LET s == req[h].what IN Insert(h, NameOf[s], None, s, EmailOf[s], "asset")
  /\ UNCHANGED <<member, invite, clock, crashes, deletes, orphans>>

\* the address the provider gives is stored on every sign-in
SsoSync(h) ==
  /\ At(h, "sync") /\ End(h)
  /\ account' = IF Live(req[h].id) THEN [account EXCEPT ![req[h].id].email = EmailOf[req[h].what]]
                ELSE account
  /\ UNCHANGED <<member, invite, clock, ids, crashes, deletes, orphans>>

\* a new account's Person asset ...
CreatePerson(h) ==
  /\ At(h, "asset") /\ Goto(h, "person")
  /\ UNCHANGED <<rows, clock, ids, crashes, deletes, orphans>>

\* ... and the link to it
LinkPerson(h) ==
  /\ At(h, "person") /\ End(h)
  /\ account' = IF Live(req[h].id) THEN [account EXCEPT ![req[h].id].person = TRUE] ELSE account
  /\ UNCHANGED <<member, invite, clock, ids, crashes, deletes, orphans>>

----------------------------------------------------------------- \* the rest
Tick == clock < MaxClock /\ clock' = clock + 1
        /\ UNCHANGED <<rows, req, ids, crashes, deletes, orphans>>

\* a worker stops, and the accounts its requests were making stay as they are
Crash ==
  /\ crashes < MaxCrash /\ \E h \in Handlers : ~At(h, "idle")
  /\ crashes' = crashes + 1
  /\ orphans' = orphans \cup {req[h].id : h \in {k \in Handlers : req[k].id # 0}}
  /\ req' = [h \in Handlers |-> Idle]
  /\ UNCHANGED <<rows, clock, ids, deletes>>

Step(h) ==
  \/ AcceptRead(h) \/ AcceptName(h) \/ CreateUser(h) \/ AddMembership(h)
  \/ Consume(h) \/ Undo(h) \/ AdminCreate(h)
  \/ SsoFind(h) \/ SsoEmail(h) \/ SsoLink(h) \/ SsoReload(h) \/ SsoCreate(h)
  \/ SsoSync(h) \/ CreatePerson(h) \/ LinkPerson(h)

Next == \/ \E h \in Handlers : Step(h)
        \/ CreateInvitation \/ RevokeInvitation \/ AdminDelete \/ Tick \/ Crash

Spec == Init /\ [][Next]_vars

----------------------------------------------------------------- \* properties
\* an account no request is still working on, and none was cut short on
Settled(a) == Live(a) /\ a \notin orphans /\ \A h \in Handlers : req[h].id # a

\* "Single-use": however many requests accept one invitation, and whether or not
\* it is revoked meanwhile, one account at most outlives them, and it is the one
\* the invitation names -- but for an account a crash left between its creation
\* and the use of the invitation (accept_invitation).
InvitedOnce ==
  \A i \in Invites, a \in Ids :
    (Settled(a) /\ account[a].invite = i) =>
      invite[i].accepted /\ ~invite[i].revoked /\ invite[i].by = a

\* Accounts are made whole or not at all: but for a crash in between, an account
\* typed or invited has its membership and one a provider introduced has its
\* Person asset, however the requests that make, undo and delete accounts interleave.
AccountsWhole ==
  \A a \in Ids : Settled(a) => account[a].person \/ a \in member
=============================================================================
