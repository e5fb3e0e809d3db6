---------------------------- MODULE AlertTicker ----------------------------
(***************************************************************************)
(* Scheduled alerts: the ticker that runs in every gunicorn worker         *)
(* (main._tick_alerts and alert_service.fire_alert) against the            *)
(* administrators who create, edit, switch off and delete alerts.          *)
(* The clock counts whole seconds and a tick reads it in between, so an    *)
(* alert is due when its time is <= clock, and the next occurrence of a    *)
(* cron expression is a later one.                                         *)
(***************************************************************************)
EXTENDS Integers, FiniteSets

CONSTANTS
    Alerts, Workers,
    Editors,     \* the forms opened and updates sent (bounds OpenForm, Update)
    Periods,     \* cron expressions: the distance of their occurrences
    MaxTime,     \* bound of the clock
    MaxCrashes,
    Managed,     \* the alerts that are changed later (bounds what follows Create)
    Null

ASSUME AlertAssumption ==
    /\ MaxTime \in Nat /\ MaxCrashes \in Nat
    /\ Periods \subseteq 1..(MaxTime + 1)
    /\ IsFiniteSet(Workers)
    /\ Managed \subseteq Alerts
    /\ Null \notin Nat /\ Null \notin Alerts /\ Null \notin Periods

VARIABLES
    clock,
    alerts,     \* the alerts table; cron = Null is schedule_type 'once'
    ticks,      \* the tick job of each worker (APScheduler runs one at a time)
    forms,      \* the edit forms, each with what it was filled from
    crashes,
    armed,      \* history: how often the row was given each fire time
    fired       \* history: how often each alert was notified for each time

vars == <<clock, alerts, ticks, forms, crashes, armed, fired>>

Times == 0..(MaxTime + MaxTime + 1)
MaybeTime == Times \cup {Null}
Crons == Periods \cup {Null}

AlertType == [state : {"unborn", "live", "deleted"}, enabled : BOOLEAN,
              cron : Crons, next : MaybeTime]
\* A claimed row: what RETURNING gives, and the time that made it due.
RowType == [id : Alerts, cron : Crons, at : Times]
TickType == [pc : {"idle", "loop", "reschedule", "get", "insert"},
             now : Times, rows : SUBSET RowType, row : RowType \cup {Null}]
FormType == [pc : {"unopened", "open", "save", "closed"}, id : Alerts \cup {Null},
             cron : Crons, next : MaybeTime]

TypeOK ==
    /\ clock \in 0..MaxTime
    /\ alerts \in [Alerts -> AlertType]
    /\ ticks \in [Workers -> TickType]
    /\ forms \in [Editors -> FormType]
    /\ crashes \in 0..MaxCrashes
    /\ armed \in [Alerts -> [Times -> Nat]]
    /\ fired \in [Alerts -> [Times -> Nat]]

Resting == [pc |-> "idle", now |-> 0, rows |-> {}, row |-> Null]
Form(pc) == [pc |-> pc, id |-> Null, cron |-> Null, next |-> Null]

Init ==
    /\ clock = 0
    /\ alerts = [a \in Alerts |->
                   [state |-> "unborn", enabled |-> FALSE, cron |-> Null, next |-> Null]]
    /\ ticks = [w \in Workers |-> Resting]
    /\ forms = [e \in Editors |-> Form("unopened")]
    /\ crashes = 0
    /\ armed = [a \in Alerts |-> [t \in Times |-> 0]]
    /\ fired = armed

\* A row is given a fire time that it did not have.
Arm(a, next) ==
    armed' = IF next \in {Null, alerts[a].next} THEN armed
             ELSE [armed EXCEPT ![a][next] = @ + 1]

Advance ==
    /\ clock < MaxTime
    /\ clock' = clock + 1
    /\ UNCHANGED <<alerts, ticks, forms, crashes, armed, fired>>

\* CronTrigger.get_next_fire_time(None, now)
NextOccurrence(period, now) == period * ((now \div period) + 1)

-----------------------------------------------------------------------------
(* Administrators *)

\* The form and the API: a one-time alert with a future time, or a recurring
\* one that the form seeds with its first occurrence.
Create(a) ==
    /\ alerts[a].state = "unborn"
    /\ \E cron \in Crons : \E at \in (clock + 1)..MaxTime :
         LET next == IF cron = Null THEN at ELSE NextOccurrence(cron, clock) IN
         /\ alerts' = [alerts EXCEPT ![a] =
                [state |-> "live", enabled |-> TRUE, cron |-> cron, next |-> next]]
         /\ Arm(a, next)
    /\ UNCHANGED <<clock, ticks, forms, crashes, fired>>

\* PUT /api/alerts/{id} with "enabled" alone; whoever holds the row is waited for.
SetEnabled(a) ==
    /\ a \in Managed
    /\ alerts[a].state = "live"
    /\ alerts' = [alerts EXCEPT ![a].enabled = ~@]
    /\ UNCHANGED <<clock, ticks, forms, crashes, armed, fired>>

\* The same PUT with any of the columns: what it leaves out (next_fire_at null
\* counts as left out) stays.  A time that has passed is taken too; the ticks
\* see no difference between it and the clock's.
Update(e, a) ==
    /\ a \in Managed
    /\ forms[e].pc = "unopened"
    /\ alerts[a].state = "live"
    /\ \E cron \in Crons, on \in BOOLEAN, next \in (clock..MaxTime) \cup {alerts[a].next} :
         /\ alerts' = [alerts EXCEPT ![a] =
                [state |-> "live", enabled |-> on, cron |-> cron, next |-> next]]
         /\ Arm(a, next)
    /\ forms' = [forms EXCEPT ![e] = Form("closed")]
    /\ UNCHANGED <<clock, ticks, crashes, fired>>

\* DELETE, of the alert or (ON DELETE CASCADE) of its asset.
Delete(a) ==
    /\ a \in Managed
    /\ alerts[a].state = "live"
    /\ alerts' = [alerts EXCEPT ![a].state = "deleted"]
    /\ UNCHANGED <<clock, ticks, forms, crashes, armed, fired>>

\* GET /alerts/{id}/edit fills the form from the row.
OpenForm(e, a) ==
    /\ a \in Managed
    /\ forms[e].pc = "unopened"
    /\ alerts[a].state = "live"
    /\ forms' = [forms EXCEPT ![e] =
           [pc |-> "open", id |-> a, cron |-> alerts[a].cron, next |-> alerts[a].next]]
    /\ UNCHANGED <<clock, alerts, ticks, crashes, armed, fired>>

\* What alert_edit_submit accepts after reading the row again: a one-time
\* alert keeps an unchanged time, else it needs a future one; a recurring one
\* keeps the time of the form or is seeded.
Accepted(form, current) ==
    IF form.cron # Null THEN TRUE ELSE form.next = current \/ (form.next # Null /\ form.next > clock)
Submit(e) ==
    LET form == forms[e]
        row == alerts[form.id]
    IN
    /\ form.pc = "open"
    /\ IF row.state = "live" /\ Accepted(form, row.next)
       THEN forms' = [forms EXCEPT ![e].pc = "save",
              ![e].next = IF form.cron # Null /\ @ = Null
                          THEN NextOccurrence(form.cron, clock) ELSE @]
       ELSE forms' = [forms EXCEPT ![e] = Form("closed")]
    /\ UNCHANGED <<clock, alerts, ticks, crashes, armed, fired>>

\* UPDATE alerts SET ... WHERE id: every column, also the fire time, and
\* "enabled" as the user left the box.
Save(e) ==
    LET form == forms[e] IN
    /\ form.pc = "save"
    /\ IF alerts[form.id].state = "live"
       THEN /\ \E on \in BOOLEAN : alerts' = [alerts EXCEPT ![form.id] =
                 [state |-> "live", enabled |-> on, cron |-> form.cron, next |-> form.next]]
            /\ Arm(form.id, form.next)
       ELSE UNCHANGED <<alerts, armed>>
    /\ forms' = [forms EXCEPT ![e] = Form("closed")]
    /\ UNCHANGED <<clock, ticks, crashes, fired>>

-----------------------------------------------------------------------------
(* The tick of one worker *)

Due(a) == /\ alerts[a].state = "live" /\ alerts[a].enabled
          /\ alerts[a].next # Null /\ alerts[a].next <= clock

DueRows == {[id |-> a, cron |-> alerts[a].cron, at |-> alerts[a].next] :
               a \in {b \in Alerts : Due(b)}}

\* mutant: SELECT the due rows, claim nothing
Claim_SelectOnly(w) ==
    /\ ticks[w].pc = "idle"
    /\ DueRows # {}
    /\ ticks' = [ticks EXCEPT ![w] =
           [pc |-> "loop", now |-> clock, rows |-> DueRows, row |-> Null]]
    /\ UNCHANGED <<clock, alerts, forms, crashes, armed, fired>>

\* One UPDATE ... FOR UPDATE SKIP LOCKED takes every due row and parks it.
Claim(w) ==
    /\ ticks[w].pc = "idle"
    /\ DueRows # {}
    /\ ticks' = [ticks EXCEPT ![w] =
           [pc |-> "loop", now |-> clock, rows |-> DueRows, row |-> Null]]
    /\ alerts' = [a \in Alerts |-> IF Due(a) THEN [alerts[a] EXCEPT !.next = Null] ELSE alerts[a]]
    /\ UNCHANGED <<clock, forms, crashes, armed, fired>>

\* mutant: the job returns after its first row
NextRow_Only(w) ==
    /\ ticks[w].pc = "loop"
    /\ \E row \in ticks[w].rows :
         ticks' = [ticks EXCEPT ![w].pc = IF row.cron = Null THEN "get" ELSE "reschedule",
                                ![w].rows = {}, ![w].row = row]
    /\ UNCHANGED <<clock, alerts, forms, crashes, armed, fired>>

\* The loop takes the rows one after the other, in no particular order.
NextRow(w) ==
    /\ ticks[w].pc = "loop"
    /\ \E row \in ticks[w].rows :
         ticks' = [ticks EXCEPT ![w].pc = IF row.cron = Null THEN "get" ELSE "reschedule",
                                ![w].rows = @ \ {row}, ![w].row = row]
    /\ UNCHANGED <<clock, alerts, forms, crashes, armed, fired>>

\* Reschedule before firing, by the cron expression that was claimed.
Reschedule(w) ==
    LET row == ticks[w].row
        next == NextOccurrence(row.cron, ticks[w].now)
    IN
    /\ ticks[w].pc = "reschedule"
    /\ IF alerts[row.id].state = "live"
       THEN alerts' = [alerts EXCEPT ![row.id].next = next] /\ Arm(row.id, next)
       ELSE UNCHANGED <<alerts, armed>>
    /\ ticks' = [ticks EXCEPT ![w].pc = "get"]
    /\ UNCHANGED <<clock, forms, crashes, fired>>

\* fire_alert returns when the alert is gone.
GetAlert(w) ==
    /\ ticks[w].pc = "get"
    /\ ticks' = [ticks EXCEPT ![w].pc =
           IF alerts[ticks[w].row.id].state = "live" THEN "insert" ELSE "loop"]
    /\ UNCHANGED <<clock, alerts, forms, crashes, armed, fired>>

\* The INSERT of the notification; e-mail and webhooks follow and their
\* errors are swallowed.
Notify(w) ==
    LET row == ticks[w].row IN
    /\ ticks[w].pc = "insert"
    /\ alerts[row.id].state = "live"
    /\ fired' = [fired EXCEPT ![row.id][row.at] = @ + 1]
    /\ ticks' = [ticks EXCEPT ![w].pc = "loop"]
    /\ UNCHANGED <<clock, alerts, forms, crashes, armed>>

\* The alert went between two statements of fire_alert (no organization row,
\* or a foreign key violation): nothing catches the exception, the job ends.
TickRaises(w) ==
    /\ ticks[w].pc = "insert"
    /\ alerts[ticks[w].row.id].state # "live"
    /\ ticks' = [ticks EXCEPT ![w] = Resting]
    /\ UNCHANGED <<clock, alerts, forms, crashes, armed, fired>>

EndTick(w) ==
    /\ ticks[w].pc = "loop" /\ ticks[w].rows = {}
    /\ ticks' = [ticks EXCEPT ![w] = Resting]
    /\ UNCHANGED <<clock, alerts, forms, crashes, armed, fired>>

Crash(w) ==
    /\ crashes < MaxCrashes
    /\ ticks[w].pc # "idle"
    /\ crashes' = crashes + 1
    /\ ticks' = [ticks EXCEPT ![w] = Resting]
    /\ UNCHANGED <<clock, alerts, forms, armed, fired>>

-----------------------------------------------------------------------------
Tick(w) ==
    \/ Claim(w) \/ NextRow(w) \/ Reschedule(w) \/ GetAlert(w)
    \/ Notify(w) \/ TickRaises(w) \/ EndTick(w)

Administer ==
    \/ \E a \in Alerts : Create(a) \/ SetEnabled(a) \/ Delete(a)
    \/ \E e \in Editors : Submit(e) \/ Save(e)
    \/ \E e \in Editors, a \in Alerts : OpenForm(e, a) \/ Update(e, a)

Next == Advance \/ Administer \/ \E w \in Workers : Tick(w) \/ Crash(w)

Spec == Init /\ [][Next]_vars

\* The interval job of every worker that is up keeps running.
FairSpec == Spec /\ \A w \in Workers : WF_vars(Tick(w))

-----------------------------------------------------------------------------
(* Properties *)

\* However many workers tick at the same instant, an alert is notified at most
\* once for each time its row was given that fire time: duplicates cannot be
\* taken back.
NotifiedOnce == TypeOK /\ \A a \in Alerts : \A t \in Times : fired[a][t] <= armed[a][t]

\* What ends a batch early: a worker killed, or an alert deleted under it.
Accidents == crashes + Cardinality({a \in Alerts : alerts[a].state = "deleted"})

\* How often a form or an update has rewritten a row, and the ticks that hold one.
Rewrites == Cardinality({e \in Editors : forms[e].pc = "closed"})
Held(a) == \E w \in Workers : \/ ticks[w].row # Null /\ ticks[w].row.id = a
                              \/ \E row \in ticks[w].rows : row.id = a

\* Alert a is due at t and no tick holds it, after n disturbances; it has been
\* notified, or is switched off, or there has been another disturbance.
Bound == MaxCrashes + Cardinality(Managed) + Cardinality(Editors)
Waiting(a, t, n) == Due(a) /\ alerts[a].next = t /\ ~Held(a) /\ Accidents + Rewrites = n
Answered(a, t, n) == fired[a][t] > 0 \/ ~alerts[a].enabled \/ Accidents + Rewrites > n

\* A due alert that no tick holds yet is notified, unless it is switched off,
\* rewritten by a form or an update, or an accident happens from then on.  (One saved under a
\* tick can come due a second time while that tick, about to reschedule and fire
\* it, covers both times with one notification.)
DueIsNotified ==
    \A a \in Alerts, t \in 0..MaxTime, n \in 0..Bound : Waiting(a, t, n) ~> Answered(a, t, n)
=============================================================================
