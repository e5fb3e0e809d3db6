------------------------------ MODULE Alerting ------------------------------
(***************************************************************************)
(* The alert job and the webhooks that events go out to, side by side.  A   *)
(* behaviour belongs to one part, chosen by Init: the job twice, each time   *)
(* with some of its alerts and forms, and Webhooks twice, each time with     *)
(* some of the events.  A part leaves the variables of the other module      *)
(* alone; the workers that die (crashes) are of either.                      *)
(***************************************************************************)
EXTENDS AlertTicker

CONSTANTS Hooks, Events, KindOf, MaxAttempts, MaxEdits

VARIABLES part, hook, alert, task, rows, edits

\* There are finitely many hooks, and everything is tried at least once.
ASSUME AlertingAssumption ==
    IsFiniteSet(Hooks) /\ MaxAttempts \in Nat \ {0} /\ MaxEdits \in Nat

Posts == INSTANCE Webhooks WITH MaxCrash <- MaxCrashes, None <- Null

HookVars == <<hook, alert, task, rows, edits>>
JobVars == <<clock, alerts, ticks, forms, armed, fired>>
AllVars == <<vars, HookVars, part>>

\* Which kinds of events a part of Webhooks is about: those that happen by
\* themselves, or those that an administrator sends to try a hook.
KindsOf == [sending |-> {"asset", "alert"}, pinging |-> {"ping"}]

SumInit ==
    /\ Init
    /\ \/ /\ part \in {"batch", "forms"}
          /\ hook = Null /\ alert = Null /\ task = Null /\ rows = Null /\ edits = Null
       \/ part \in DOMAIN KindsOf /\ Posts!Init

SumNext ==
    /\ UNCHANGED part
    /\ \/ /\ Next /\ UNCHANGED HookVars
          \* alerts that share a batch, one of them switched off or deleted, and a worker
          \* that dies; an alert that is also rewritten under the ticks
          /\ \/ part = "batch" /\ UNCHANGED forms
             \/ /\ part = "forms" /\ crashes' = 0
                /\ \A a \in Alerts \ Managed : alerts'[a].state = "unborn"
       \/ /\ part \in DOMAIN KindsOf
          /\ Posts!Next /\ UNCHANGED JobVars
          /\ \A e \in Events : KindOf[e] \in KindsOf[part] \/ UNCHANGED task[e]

Step(e) == part \in DOMAIN KindsOf /\ Posts!Step(e)

\* APScheduler runs the job of every worker, the event loop every dispatch.
SumSpec ==
    /\ SumInit /\ [][SumNext]_AllVars
    /\ \A w \in Workers : WF_vars(Tick(w))
    /\ \A e \in Events : WF_HookVars(Step(e))

\* The delivery log is complete, a dispatch that is over gave up on no hook early,
\* and a hook in trouble took no other's turn (Webhooks).
DeliveriesHold == part \in DOMAIN KindsOf => Posts!DeliveriesHold

\* A dispatch comes to its end, unless its worker died (Webhooks): there are times
\* without any.
Moving == part \in DOMAIN KindsOf /\ \E e \in Events : task[e].pc \notin {"none", "done", "lost"}
DispatchesEnd == Moving ~> ~Moving
=============================================================================
