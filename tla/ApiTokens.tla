------------------------------ MODULE ApiTokens ------------------------------
(***************************************************************************)
(* Bearer tokens and the OAuth clients that exchange a secret for one.     *)
(* Issuing is four statements (the client, its owner, the owner's          *)
(* organisation, the insert) and creating a token by hand three; an        *)
(* administrator may close the client or remove the owner between any two. *)
(* Names, permissions, hashes and address lists are left out.              *)
(***************************************************************************)
EXTENDS Integers

CONSTANTS Users, Clients, Tokens, Handlers,
          Ttl,         \* token_ttl_seconds after _clamp_ttl, per client
          MaxExpiries, \* the values app_settings.token_max_expiry_days takes, None included
          ReqTime,     \* how long a request runs at most, in clock units
          MaxClock, MaxAdmin, None, Never

VARIABLES owner, client, token, maxExpiry, req, clock, edits,
          closed       \* history: when a client was last disabled or deleted

vars == <<owner, client, token, maxExpiry, req, clock, edits, closed>>

Idle == [pc |-> "idle", user |-> None, client |-> None, expires |-> 0, at |-> 0]

TypeOK ==
  /\ \A u \in Users : owner[u].live \in BOOLEAN /\ owner[u].active \in BOOLEAN
  /\ \A t \in Tokens : token[t] # None => token[t].user \in Users
  /\ \A t \in Tokens : token[t] # None => owner[token[t].user].live
  /\ \A h \in Handlers : req[h].pc \in {"idle", "owner", "cap", "mint", "enable", "disable"}

Init ==
  /\ owner = [u \in Users |-> [live |-> TRUE, active |-> TRUE]]
  /\ client \in [Clients -> [enabled : {TRUE}, by : Users]]
  /\ token = [t \in Tokens |-> None]
  /\ maxExpiry \in MaxExpiries
  /\ req = [h \in Handlers |-> Idle]
  /\ clock = 0 /\ edits = 0 /\ closed = [c \in Clients |-> None]

At(h, pc) == req[h].pc = pc
End(h) == req' = [req EXCEPT ![h] = Idle]
Usable(u) == owner[u].live /\ owner[u].active

\* validate_token, then the user that get_current_user loads
Bearer(t) == /\ token[t] # None /\ ~token[t].revoked
             /\ token[t].expires # Never => token[t].expires >= clock
             /\ Usable(token[t].user)

------------------------------------------------- \* the client-credentials grant
IssueRead(h) == \E c \in Clients :
  /\ At(h, "idle") /\ client[c] # None
  /\ client[c].enabled /\ client[c].by # None
  /\ req' = [req EXCEPT ![h] = [pc |-> "owner", user |-> client[c].by, client |-> c,
                                expires |-> 0, at |-> clock]]
  /\ UNCHANGED <<owner, client, token, maxExpiry, clock, edits, closed>>

\* a machine token is a service account's: the configured maximum is not applied
IssueOwner(h) ==
  /\ At(h, "owner")
  /\ IF Usable(req[h].user)
     THEN req' = [req EXCEPT ![h].pc = "mint", ![h].expires = clock + Ttl[req[h].client]]
     ELSE End(h)
  /\ UNCHANGED <<owner, client, token, maxExpiry, clock, edits, closed>>

\* the insert; api_tokens.user_id refers to the account
Mint(h) ==
  /\ At(h, "mint") /\ End(h)
  /\ IF owner[req[h].user].live
     THEN \E t \in Tokens :
            /\ token[t] = None
            /\ token' = [token EXCEPT ![t] =
                 [user |-> req[h].user, expires |-> req[h].expires,
                  revoked |-> FALSE, client |-> req[h].client]]
     ELSE UNCHANGED token
  /\ UNCHANGED <<owner, client, maxExpiry, clock, edits, closed>>

--------------------------------------------------- \* tokens created by hand
\* by a bearer of a token that no client was issued, or by a signed-in user
CreateAs(h, u, t) ==
  /\ At(h, "idle")
  /\ req' = [req EXCEPT ![h] = [pc |-> "cap", user |-> u,
               client |-> IF t = None THEN None ELSE token[t].client,
               expires |-> 0, at |-> clock]]
  /\ UNCHANGED <<owner, client, token, maxExpiry, clock, edits, closed>>
\* mutant: whoever bears a token may create another
CreateToken_AnyBearer(h) == \E t \in Tokens : Bearer(t) /\ CreateAs(h, token[t].user, t)
CreateToken(h) == \E t \in Tokens :
  Bearer(t) /\ token[t].client = None /\ CreateAs(h, token[t].user, t)
CreateOnPage(h) == \E u \in Users : Usable(u) /\ CreateAs(h, u, None)

\* the expiry asked for, cut to the configured maximum unless for a service account
ReadCap(h) == \E asked \in {Never} \cup ((clock + 1)..(clock + 2)), service \in BOOLEAN :
  /\ At(h, "cap")
  /\ req' = [req EXCEPT ![h].pc = "mint",
       ![h].expires = IF service \/ maxExpiry = None THEN asked
                      ELSE IF asked = Never \/ asked > clock + maxExpiry
                           THEN clock + maxExpiry ELSE asked]
  /\ UNCHANGED <<owner, client, token, maxExpiry, clock, edits, closed>>

\* one's own, or by an administrator
RevokeToken(t) ==
  /\ token[t] # None /\ ~token[t].revoked
  /\ token' = [token EXCEPT ![t].revoked = TRUE]
  /\ UNCHANGED <<owner, client, maxExpiry, req, clock, edits, closed>>
RevokeMine == \E t \in Tokens : RevokeToken(t) /\ Usable(token[t].user)
AdminRevoke == \E t \in Tokens : RevokeToken(t)

------------------------------------------------------------ \* administrators
Admin == edits < MaxAdmin /\ edits' = edits + 1

SetMaxExpiry == \E m \in MaxExpiries \ {maxExpiry} :
  /\ Admin /\ maxExpiry' = m
  /\ UNCHANGED <<owner, client, token, req, clock, closed>>

\* the page reads the list of clients, then writes the opposite of what it read
ToggleRead(h) == \E c \in Clients :
  /\ At(h, "idle") /\ client[c] # None /\ Admin
  /\ req' = [req EXCEPT ![h] = [pc |-> IF client[c].enabled THEN "disable" ELSE "enable",
               user |-> None, client |-> c, expires |-> 0, at |-> clock]]
  /\ UNCHANGED <<owner, client, token, maxExpiry, clock, closed>>

ToggleWrite(h) ==
  /\ req[h].pc \in {"disable", "enable"} /\ End(h)
  /\ LET c == req[h].client  on == At(h, "enable") IN
     IF client[c] = None THEN UNCHANGED <<client, closed>>
     ELSE /\ client' = [client EXCEPT ![c].enabled = on]
          /\ closed' = [closed EXCEPT ![c] = IF on THEN None
                                             ELSE IF @ = None THEN clock ELSE @]
  /\ UNCHANGED <<owner, token, maxExpiry, clock, edits>>

DeleteClient == \E c \in Clients :
  /\ Admin /\ client[c] # None
  /\ client' = [client EXCEPT ![c] = None]
  /\ closed' = [closed EXCEPT ![c] = IF @ = None THEN clock ELSE @]
  /\ UNCHANGED <<owner, token, maxExpiry, req, clock>>

SetActive == \E u \in Users :
  /\ Admin /\ owner[u].live
  /\ owner' = [owner EXCEPT ![u].active = ~@]
  /\ UNCHANGED <<client, token, maxExpiry, req, clock, closed>>

\* the account's tokens go with it; a client it registered stays, without owner
DeleteUser == \E u \in Users :
  /\ Admin /\ owner[u].live
  /\ owner' = [owner EXCEPT ![u].live = FALSE]
  /\ token' = [t \in Tokens |-> IF token[t] # None /\ token[t].user = u THEN None ELSE token[t]]
  /\ client' = [c \in Clients |-> IF client[c] # None /\ client[c].by = u
                                  THEN [client[c] EXCEPT !.by = None] ELSE client[c]]
  /\ UNCHANGED <<maxExpiry, req, clock, closed>>

\* no request outlasts ReqTime
Tick ==
  /\ clock < MaxClock
  /\ \A h \in Handlers : At(h, "idle") \/ clock < req[h].at + ReqTime
  /\ clock' = clock + 1
  /\ UNCHANGED <<owner, client, token, maxExpiry, req, edits, closed>>

Step(h) == \/ IssueRead(h) \/ IssueOwner(h) \/ Mint(h)
           \/ CreateToken(h) \/ CreateOnPage(h) \/ ReadCap(h) \/ ToggleRead(h) \/ ToggleWrite(h)

Next == \/ \E h \in Handlers : Step(h)
        \/ RevokeMine \/ AdminRevoke \/ SetMaxExpiry \/ DeleteClient \/ SetActive \/ DeleteUser \/ Tick

Spec == Init /\ [][Next]_vars

----------------------------------------------------------------- \* properties
\* "Short-lived": whatever a client's secret was ever exchanged for is dead soon
\* after the client is disabled or deleted -- the token itself, and any token
\* created by bearing it.  Nothing revokes those tokens: their expiry has to.
ClientTokensDie ==
  \A t \in Tokens, c \in Clients :
    (token[t] # None /\ token[t].client = c /\ closed[c] # None) =>
      /\ token[t].expires # Never
      /\ token[t].expires <= closed[c] + ReqTime + Ttl[c]
=============================================================================
