---------------------------- MODULE ApprovalGate ----------------------------
(***************************************************************************)
(* What the approval queue promises its users, with no requests, locks or  *)
(* configuration in sight: a change is submitted once, collects votes of   *)
(* distinct people while it is pending, is decided once, and takes effect  *)
(* exactly when (and only when) the decision is "approved".                *)
(***************************************************************************)
EXTENDS Integers, FiniteSets

CONSTANTS Changes, People

VARIABLES
    decision,   \* the status of each change
    votes,      \* everybody who ever voted for it
    effects     \* how often its payload has been applied

gateVars == <<decision, votes, effects>>

Init ==
    /\ decision = [c \in Changes |-> "none"]
    /\ votes = [c \in Changes |-> {}]
    /\ effects = [c \in Changes |-> 0]

Submit(c) ==
    /\ decision[c] = "none"
    /\ decision' = [decision EXCEPT ![c] = "pending"]
    /\ UNCHANGED <<votes, effects>>

\* A vote that does not complete the quorum.
Vote(c, u) ==
    /\ decision[c] = "pending"
    /\ u \notin votes[c]
    /\ votes' = [votes EXCEPT ![c] = @ \cup {u}]
    /\ UNCHANGED <<decision, effects>>

\* The vote that completes it: decision and effect are one step.
Approve(c, u) ==
    /\ decision[c] = "pending"
    /\ u \notin votes[c]
    /\ votes' = [votes EXCEPT ![c] = @ \cup {u}]
    /\ decision' = [decision EXCEPT ![c] = "approved"]
    /\ effects' = [effects EXCEPT ![c] = @ + 1]

Drop(c) ==
    /\ decision[c] = "pending"
    /\ \E d \in {"rejected", "withdrawn"} : decision' = [decision EXCEPT ![c] = d]
    /\ UNCHANGED <<votes, effects>>

Next ==
    \E c \in Changes :
        \/ Submit(c)
        \/ Drop(c)
        \/ \E u \in People : Vote(c, u) \/ Approve(c, u)

Spec == Init /\ [][Next]_gateVars
=============================================================================
