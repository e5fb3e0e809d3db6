--------------------------- MODULE MCAlertTicker ---------------------------
(***************************************************************************)
(* Alerts and webhooks on a small instance: an alert that goes out to two   *)
(* hooks, and an administrator's ping of one of them.                        *)
(***************************************************************************)
EXTENDS Alerting

CONSTANTS AlertEvent, PingEvent

OneOfEach == [e \in Events |-> IF e = PingEvent THEN "ping" ELSE "alert"]
=============================================================================
