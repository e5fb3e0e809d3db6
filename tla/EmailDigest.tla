---------------------------- MODULE EmailDigest ----------------------------
(***************************************************************************)
(* The e-mail digest: alerts queued for users in digest mode               *)
(* (digest_service.queue_for_digest) and the hourly job of every worker    *)
(* that mails them (digest_service.flush_digests, email_service.send_email)*)
(* Each step of a flush is one await of the code; a statement outside a    *)
(* transaction is atomic.  All items of a user belong to one organization, *)
(* so the groups of a flush are the users.                                 *)
(***************************************************************************)
EXTENDS Integers, FiniteSets

CONSTANTS
    Items,       \* rows that pending_email_digest may come to hold
    Users, Workers,
    Answers,     \* what the SMTP server does with a message it is offered
    MaxCrashes, MaxFailures, MaxToggles,
    Deletable,   \* the users that may be deleted (bounds DeleteUser)
    Null

\* "ok": accepted and acknowledged; "refused": not accepted;
\* "unheard": accepted, but the connection fails or times out first.
ASSUME DigestAssumption ==
    /\ Answers \subseteq {"ok", "refused", "unheard"}
    /\ Deletable \subseteq Users
    /\ MaxCrashes \in Nat /\ MaxFailures \in Nat /\ MaxToggles \in Nat
    /\ Null \notin Users /\ Null \notin Items

VARIABLES
    queue,      \* pending_email_digest
    users,      \* "on" or "off" (email_notifications_enabled), "blank" when it
                \* is on and there is no e-mail address, or "gone"
    smtp,       \* is_enabled of the SMTP settings
    flush,      \* the flush job of each worker
    mailed,     \* history: how often each item has reached its user's mailbox
    unheard,    \* history: how often that was by a message without an answer
    spared,     \* history: items whose user a flush found opted out, without address or gone
    crashes, failures, toggles

vars == <<queue, users, smtp, flush, mailed, unheard, spared, crashes, failures, toggles>>
bounds == <<crashes, failures, toggles>>

\* "sent" is a row whose sent_at is stamped.
RowType == [state : {"unborn", "pending", "sent", "gone"}, user : Users \cup {Null}]
FlushType == [pc : {"idle", "loop", "send", "logSent", "logFailed", "release"},
              claimed : SUBSET Items, user : Users \cup {Null}]

TypeOK ==
    /\ queue \in [Items -> RowType]
    /\ users \in [Users -> {"on", "off", "blank", "gone"}]
    /\ smtp \in BOOLEAN
    /\ flush \in [Workers -> FlushType]
    /\ mailed \in [Items -> Nat] /\ unheard \in [Items -> Nat]
    /\ spared \subseteq Items
    /\ crashes \in 0..MaxCrashes
    /\ failures \in 0..MaxFailures
    /\ toggles \in 0..MaxToggles

Resting == [pc |-> "idle", claimed |-> {}, user |-> Null]

Init ==
    /\ queue = [i \in Items |-> [state |-> "unborn", user |-> Null]]
    /\ users = [u \in Users |-> "on"]
    /\ smtp \in BOOLEAN
    /\ flush = [w \in Workers |-> Resting]
    /\ mailed = [i \in Items |-> 0] /\ unheard = [i \in Items |-> 0]
    /\ spared = {}
    /\ crashes = 0 /\ failures = 0 /\ toggles = 0

ItemsOf(items, u) == {i \in items : queue[i].user = u}

\* The items of the message that w is working on.
Batch(w) == ItemsOf(flush[w].claimed, flush[w].user)

-----------------------------------------------------------------------------
(* Alerts, users and administrators *)

\* An alert fires: one row for a recipient that resolve_alert_recipients
\* found opted in, with an address.
Queue(i, u) ==
    /\ queue[i].state = "unborn"
    /\ users[u] = "on"
    /\ queue' = [queue EXCEPT ![i] = [state |-> "pending", user |-> u]]
    /\ UNCHANGED <<users, smtp, flush, mailed, unheard, spared, bounds>>

\* The /settings form, which does not opt in a user without address.
SetNotifications(u) ==
    /\ toggles < MaxToggles
    /\ users[u] # "gone"
    /\ users' = [users EXCEPT ![u] = IF @ = "off" THEN "on" ELSE "off"]
    /\ toggles' = toggles + 1
    /\ UNCHANGED <<queue, smtp, flush, mailed, unheard, spared, crashes, failures>>

\* set_user_email, by the identity provider: the address goes, or comes back.
SetEmail(u) ==
    /\ toggles < MaxToggles
    /\ users[u] \in {"on", "blank"}
    /\ users' = [users EXCEPT ![u] = IF @ = "on" THEN "blank" ELSE "on"]
    /\ toggles' = toggles + 1
    /\ UNCHANGED <<queue, smtp, flush, mailed, unheard, spared, crashes, failures>>

\* ON DELETE CASCADE takes the rows of the user along.
DeleteUser(u) ==
    /\ u \in Deletable
    /\ users[u] # "gone"
    /\ users' = [users EXCEPT ![u] = "gone"]
    /\ queue' = [i \in Items |->
           IF queue[i].user = u THEN [queue[i] EXCEPT !.state = "gone"] ELSE queue[i]]
    /\ UNCHANGED <<smtp, flush, mailed, unheard, spared, bounds>>

\* The SMTP settings are completed, or switched off.
SetSmtp ==
    /\ ~smtp \/ toggles < MaxToggles
    /\ toggles' = IF smtp THEN toggles + 1 ELSE toggles
    /\ smtp' = ~smtp
    /\ UNCHANGED <<queue, users, flush, mailed, unheard, spared, crashes, failures>>

-----------------------------------------------------------------------------
(* The flush of one worker *)

Pending == {i \in Items : queue[i].state = "pending"}

Stamp(items) ==
    [i \in Items |-> IF i \in items THEN [queue[i] EXCEPT !.state = "sent"] ELSE queue[i]]

\* mutant: SELECT the pending rows and mark them after the send
Claim_SelectOnly(w) ==
    /\ flush[w].pc = "idle"
    /\ Pending # {}
    /\ flush' = [flush EXCEPT ![w] = [pc |-> "loop", claimed |-> Pending, user |-> Null]]
    /\ UNCHANGED <<queue, users, smtp, mailed, unheard, spared, bounds>>

\* One UPDATE ... FOR UPDATE SKIP LOCKED stamps every pending row.
Claim(w) ==
    /\ flush[w].pc = "idle"
    /\ Pending # {}
    /\ queue' = Stamp(Pending)
    /\ flush' = [flush EXCEPT ![w] = [pc |-> "loop", claimed |-> Pending, user |-> Null]]
    /\ UNCHANGED <<users, smtp, mailed, unheard, spared, bounds>>

\* mutant: an opted-out user ends the whole flush
NextGroup_Return(w) ==
    /\ flush[w].pc = "loop"
    /\ \E i \in flush[w].claimed :
         LET u == queue[i].user
             theirs == ItemsOf(flush[w].claimed, u)
         IN IF users[u] = "on"
            THEN /\ flush' = [flush EXCEPT ![w].pc = "send", ![w].user = u]
                 /\ UNCHANGED spared
            ELSE /\ flush' = [flush EXCEPT ![w] = Resting]
                 /\ spared' = spared \cup theirs
    /\ UNCHANGED <<queue, users, smtp, mailed, unheard, bounds>>

\* The next user of the claimed rows: discarded quietly when the user is
\* gone, opted out or without address.
NextGroup(w) ==
    /\ flush[w].pc = "loop"
    /\ \E i \in flush[w].claimed :
         LET u == queue[i].user
             theirs == ItemsOf(flush[w].claimed, u)
         IN IF users[u] = "on"
            THEN /\ flush' = [flush EXCEPT ![w].pc = "send", ![w].user = u]
                 /\ UNCHANGED spared
            ELSE /\ flush' = [flush EXCEPT ![w].claimed = @ \ theirs]
                 /\ spared' = spared \cup theirs
    /\ UNCHANGED <<queue, users, smtp, mailed, unheard, bounds>>

\* send_email returns at once when SMTP is not configured (and logs that).
SkipSend(w) ==
    /\ flush[w].pc = "send"
    /\ ~smtp
    /\ flush' = [flush EXCEPT ![w].pc = "logFailed"]
    /\ UNCHANGED <<queue, users, smtp, mailed, unheard, spared, bounds>>

Counted(tally, items) == [i \in Items |-> IF i \in items THEN tally[i] + 1 ELSE tally[i]]

\* aiosmtplib.send: any exception counts as a failure.
Send(w) ==
    /\ flush[w].pc = "send"
    /\ smtp
    /\ \E answer \in Answers :
         /\ answer # "ok" => failures < MaxFailures
         /\ failures' = IF answer = "ok" THEN failures ELSE failures + 1
         /\ mailed' = IF answer = "refused" THEN mailed ELSE Counted(mailed, Batch(w))
         /\ unheard' = IF answer = "unheard" THEN Counted(unheard, Batch(w)) ELSE unheard
         /\ flush' = [flush EXCEPT ![w].pc = IF answer = "ok" THEN "logSent" ELSE "logFailed"]
    /\ UNCHANGED <<queue, users, smtp, spared, crashes, toggles>>

\* _log_delivery inserts a row that references the user; then the next group,
\* or the release of this one.
LogSent(w) ==
    /\ flush[w].pc = "logSent"
    /\ users[flush[w].user] # "gone"
    /\ flush' = [flush EXCEPT ![w].pc = "loop", ![w].claimed = @ \ Batch(w), ![w].user = Null]
    /\ UNCHANGED <<queue, users, smtp, mailed, unheard, spared, bounds>>

LogFailed(w) ==
    /\ flush[w].pc = "logFailed"
    /\ users[flush[w].user] # "gone"
    /\ flush' = [flush EXCEPT ![w].pc = "release"]
    /\ UNCHANGED <<queue, users, smtp, mailed, unheard, spared, bounds>>

\* The user went since the flush read it: the insert violates the foreign key
\* and nothing catches the exception, so the job ends.
FlushRaises(w) ==
    /\ flush[w].pc \in {"logSent", "logFailed"}
    /\ users[flush[w].user] = "gone"
    /\ flush' = [flush EXCEPT ![w] = Resting]
    /\ UNCHANGED <<queue, users, smtp, mailed, unheard, spared, bounds>>

\* mutant: a failed message is not released
Release_Keep(w) ==
    /\ flush[w].pc = "release"
    /\ flush' = [flush EXCEPT ![w].pc = "loop", ![w].claimed = @ \ Batch(w), ![w].user = Null]
    /\ UNCHANGED <<queue, users, smtp, mailed, unheard, spared, bounds>>

\* UPDATE ... SET sent_at = NULL for the rows of the failed message.
Release(w) ==
    /\ flush[w].pc = "release"
    /\ queue' = [i \in Items |->
           IF i \in Batch(w) /\ queue[i].state = "sent"
           THEN [queue[i] EXCEPT !.state = "pending"] ELSE queue[i]]
    /\ flush' = [flush EXCEPT ![w].pc = "loop", ![w].claimed = @ \ Batch(w), ![w].user = Null]
    /\ UNCHANGED <<users, smtp, mailed, unheard, spared, bounds>>

EndFlush(w) ==
    /\ flush[w].pc = "loop" /\ flush[w].claimed = {}
    /\ flush' = [flush EXCEPT ![w] = Resting]
    /\ UNCHANGED <<queue, users, smtp, mailed, unheard, spared, bounds>>

Crash(w) ==
    /\ crashes < MaxCrashes
    /\ flush[w].pc # "idle"
    /\ crashes' = crashes + 1
    /\ flush' = [flush EXCEPT ![w] = Resting]
    /\ UNCHANGED <<queue, users, smtp, mailed, unheard, spared, failures, toggles>>

-----------------------------------------------------------------------------
Flush(w) ==
    \/ Claim(w) \/ NextGroup(w) \/ SkipSend(w) \/ Send(w) \/ LogSent(w)
    \/ LogFailed(w) \/ FlushRaises(w) \/ Release(w) \/ EndFlush(w)

Next ==
    \/ \E i \in Items, u \in Users : Queue(i, u)
    \/ \E u \in Users : SetNotifications(u) \/ SetEmail(u) \/ DeleteUser(u)
    \/ SetSmtp
    \/ \E w \in Workers : Flush(w) \/ Crash(w)

Spec == Init /\ [][Next]_vars

\* The hourly job runs on, and an administrator completes the SMTP settings.
FairSpec == Spec /\ (\A w \in Workers : WF_vars(Flush(w))) /\ WF_vars(~smtp /\ SetSmtp)

-----------------------------------------------------------------------------
(* Properties *)

\* "Stamping sent_at inside the claim makes it at-most-once": whatever the
\* workers, crashes and releases do, an item that its user has got twice was
\* sent by a message that the server accepted without a word.
AtMostOnce == \A i \in Items : mailed[i] <= 1 + unheard[i]

\* No worker has died and no user was deleted.
Calm == crashes = 0 /\ \A u \in Users : users[u] # "gone"

\* What is stamped is settled: mailed, discarded because its user did not want
\* it any more or has no address, or in the hands of a running flush.  A failed message is
\* released "rather than dropping the digest".
NothingDropped ==
    Calm => \A i \in Items : queue[i].state = "sent" =>
        mailed[i] > 0 \/ i \in spared \/ \E w \in Workers : i \in flush[w].claimed

Accidents == crashes + Cardinality({u \in Users : users[u] = "gone"})

\* A queued item is mailed, unless its user opts out, loses the address or is deleted, or a worker
\* dies or another user is deleted from then on.
DigestArrives ==
    \A i \in Items : \A n \in 0..(MaxCrashes + Cardinality(Deletable)) :
        (queue[i].state = "pending" /\ Accidents = n) ~>
            (mailed[i] > 0 \/ i \in spared \/ Accidents > n)
=============================================================================
