------------------------------ MODULE Webhooks ------------------------------
(***************************************************************************)
(* Delivery of events to webhooks (webhook_service): a dispatch reads the    *)
(* hooks once, posts to one after the other, tries again what failed for a   *)
(* passing reason, and writes a row for every attempt.  Events of assets are *)
(* dispatched by a task beside the request, those of alerts by the alert     *)
(* job, and a ping by an administrator; hooks and alerts are edited and      *)
(* deleted meanwhile.                                                        *)
(***************************************************************************)
EXTENDS Integers, FiniteSets

CONSTANTS
    Hooks,         \* 1..n, in the order of their names
    Events,        \* the events that happen, each once
    KindOf,        \* event |-> "asset", "alert" or "ping"
    MaxAttempts,   \* WEBHOOK_MAX_ATTEMPTS
    MaxEdits,      \* bound of what administrators do
    MaxCrash,
    None

VARIABLES
    hook,    \* hook |-> [there, enabled, filter]
    alert,   \* the alert of the events of that kind is there
    task,    \* event |-> [pc, left, at, attempt]
    rows,    \* webhook_deliveries: [event, hook, attempt, outcome]
    edits, crashes

vars == <<hook, alert, task, rows, edits, crashes>>

Kinds == {"asset", "alert"}
Idle == [pc |-> "none", left |-> {}, at |-> None, attempt |-> 0]
\* send_to_webhook goes on only after these
Transient == {"server error", "no answer"}
Outcomes == Transient \cup {"ok", "rejected"}

Init ==
    /\ hook = [w \in Hooks |-> [there |-> TRUE, enabled |-> TRUE, filter |-> {}]]
    /\ alert = TRUE
    /\ task = [e \in Events |-> Idle]
    /\ rows = {}
    /\ edits = 0 /\ crashes = 0

-----------------------------------------------------------------------------
(* A dispatch *)

Set(e, t) == task' = [task EXCEPT ![e] = t]
Quiet == UNCHANGED <<hook, alert, rows, edits, crashes>>

\* dispatch_background, _deliver_webhooks
Emit(e) ==
    /\ task[e] = Idle /\ KindOf[e] \in Kinds
    /\ KindOf[e] = "alert" => alert
    /\ Set(e, [Idle EXCEPT !.pc = "queued"])
    /\ Quiet

\* admin_webhook_test: one hook, enabled or not
Ping(e) ==
    /\ task[e] = Idle /\ KindOf[e] = "ping"
    /\ \E w \in Hooks : hook[w].there /\ Set(e, [Idle EXCEPT !.pc = "next", !.left = {w}])
    /\ Quiet

\* list_webhooks(enabled_only) and _matches_filter
Matching(kind) ==
    {w \in Hooks : hook[w].there /\ hook[w].enabled /\ (hook[w].filter = {} \/ kind \in hook[w].filter)}

ReadHooks(e) ==
    /\ task[e].pc = "queued"
    /\ Set(e, [task[e] EXCEPT !.pc = "next", !.left = Matching(KindOf[e])])
    /\ Quiet

NextHook(e) ==
    /\ task[e].pc = "next"
    /\ \/ task[e].left = {} /\ Set(e, [task[e] EXCEPT !.pc = "done", !.at = None])
       \/ \E w \in task[e].left :
            /\ \A v \in task[e].left : w <= v
            /\ Set(e, [pc |-> "post", left |-> task[e].left \ {w}, at |-> w, attempt |-> 1])
    /\ Quiet

\* What the answer was is written into the task: it is on its way to the log.
Post(e) ==
    /\ task[e].pc = "post"
    /\ \E outcome \in Outcomes : Set(e, [task[e] EXCEPT !.pc = outcome])
    /\ Quiet

\* A row refers to its hook, and to its alert.
Loggable(e) == hook[task[e].at].there /\ (KindOf[e] = "alert" => alert)
LogRow(e) == rows \cup {[event |-> e, hook |-> task[e].at, attempt |-> task[e].attempt, outcome |-> task[e].pc]}

\* mutant: the attempts are not counted
Log_Uncounted(e) ==
    /\ task[e].pc \in Outcomes /\ Loggable(e)
    /\ rows' = LogRow(e)
    /\ IF task[e].pc \in Transient THEN Set(e, [task[e] EXCEPT !.pc = "post"])
       ELSE Set(e, [task[e] EXCEPT !.pc = "next"])
    /\ UNCHANGED <<hook, alert, edits, crashes>>

\* _log_delivery, then the loop: once more, after the backoff, or the next hook.
Log(e) ==
    /\ task[e].pc \in Outcomes /\ Loggable(e)
    /\ rows' = LogRow(e)
    /\ IF task[e].pc \in Transient /\ task[e].attempt < MaxAttempts
       THEN Set(e, [task[e] EXCEPT !.pc = "post", !.attempt = @ + 1])
       ELSE Set(e, [task[e] EXCEPT !.pc = "next"])
    /\ UNCHANGED <<hook, alert, edits, crashes>>

\* mutant: what the insert raises ends the dispatch
LogFails_Ends(e) ==
    /\ task[e].pc \in Outcomes /\ ~Loggable(e)
    /\ Set(e, [task[e] EXCEPT !.pc = "done", !.left = {}])
    /\ Quiet

\* The insert violates a foreign key: dispatch goes on with the next hook, the
\* attempt is not recorded and not tried again.  (A ping answers with the error.)
LogFails(e) ==
    /\ task[e].pc \in Outcomes /\ ~Loggable(e)
    /\ Set(e, [task[e] EXCEPT !.pc = "next"])
    /\ Quiet

\* The worker ends with the task in it: nothing takes it up again.
Crash(e) ==
    /\ crashes < MaxCrash
    /\ task[e].pc \notin {"none", "done", "lost"}
    /\ crashes' = crashes + 1
    /\ Set(e, [task[e] EXCEPT !.pc = "lost"])
    /\ UNCHANGED <<hook, alert, rows, edits>>

-----------------------------------------------------------------------------
(* Administrators *)

Edit == edits < MaxEdits /\ edits' = edits + 1 /\ UNCHANGED <<task, crashes>>

UpdateHook(w) ==
    /\ Edit /\ hook[w].there
    /\ \E on \in BOOLEAN, filter \in {{}} \cup {{k} : k \in Kinds} :
         hook' = [hook EXCEPT ![w] = [there |-> TRUE, enabled |-> on, filter |-> filter]]
    /\ UNCHANGED <<alert, rows>>

\* webhook_deliveries go with their hook.
DeleteHook(w) ==
    /\ Edit /\ hook[w].there
    /\ hook' = [hook EXCEPT ![w].there = FALSE]
    /\ rows' = {r \in rows : r.hook # w}
    /\ UNCHANGED alert

DeleteAlert ==
    /\ Edit /\ alert /\ alert' = FALSE
    /\ UNCHANGED <<hook, rows>>

Step(e) == ReadHooks(e) \/ NextHook(e) \/ Post(e) \/ Log(e) \/ LogFails(e)

Next ==
    \/ \E e \in Events : Emit(e) \/ Ping(e) \/ Step(e) \/ Crash(e)
    \/ \E w \in Hooks : UpdateHook(w) \/ DeleteHook(w)
    \/ DeleteAlert

\* The event loop runs every task, and a post ends at the latest with its timeout.
Fairness == \A e \in Events : WF_vars(Step(e))
Spec == Init /\ [][Next]_vars /\ Fairness

-----------------------------------------------------------------------------
(* Properties *)

TypeOK ==
    /\ hook \in [Hooks -> [there : BOOLEAN, enabled : BOOLEAN, filter : SUBSET Kinds]]
    /\ alert \in BOOLEAN /\ edits \in 0..MaxEdits /\ crashes \in 0..MaxCrash
    /\ rows \subseteq [event : Events, hook : Hooks, attempt : 1..MaxAttempts, outcome : Outcomes]
    /\ \A e \in Events :
         /\ task[e].pc \in {"none", "queued", "next", "post", "done", "lost"} \cup Outcomes
         /\ task[e].left \subseteq Hooks /\ task[e].at \in Hooks \cup {None}
         /\ task[e].attempt \in 0..MaxAttempts

Tries(e, w) == {r \in rows : r.event = e /\ r.hook = w}
Last(e, w) == CHOOSE r \in Tries(e, w) : \A s \in Tries(e, w) : s.attempt <= r.attempt

\* The log is the story of a delivery: its attempts are numbered without a gap,
\* each has one row, and none follows an answer that is final.
LogTellsAll ==
    \A e \in Events, w \in Hooks :
        /\ {r.attempt : r \in Tries(e, w)} = 1..Cardinality(Tries(e, w))
        /\ \A r \in Tries(e, w) : r # Last(e, w) => r.outcome \in Transient

\* A dispatch that is over has delivered to every hook it was to go to, or was
\* refused, or tried as often as it may: a hook that fails, is slow or is deleted
\* takes nothing from those after it.  (What the hooks were is what was read:
\* a hook added or deleted later does not count.)
NoneStarves ==
    \A e \in Events : task[e].pc = "done" =>
        \A w \in Hooks :
            Tries(e, w) # {} /\ (KindOf[e] = "alert" => alert) =>
                Last(e, w).outcome \notin Transient \/ Last(e, w).attempt = MaxAttempts

\* Where all that administrators did is delete hooks, the others get every event:
\* a hook whose row cannot be written does not take their turn away.
TurnsKept ==
    \A e \in Events : task[e].pc = "done" /\ KindOf[e] \in Kinds /\ (KindOf[e] = "alert" => alert) =>
        \A w \in Hooks : hook[w] = [there |-> TRUE, enabled |-> TRUE, filter |-> {}]
                         /\ edits <= Cardinality({v \in Hooks : ~hook[v].there}) => Tries(e, w) # {}

DeliveriesHold == TypeOK /\ LogTellsAll /\ NoneStarves /\ TurnsKept

\* Every dispatch that is begun is over in the end, unless its worker died.
DispatchesEnd == \A e \in Events : task[e] # Idle ~> task[e].pc \in {"done", "lost"}
=============================================================================
