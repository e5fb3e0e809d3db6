----------------------------- MODULE MCAccounts -----------------------------
(***************************************************************************)
(* Accounts on a small instance: three users, two handlers, two tokens or   *)
(* groups, a client, an invitation, two subjects of a provider with one     *)
(* address, and two workers, one of which has the newer build.              *)
(***************************************************************************)
EXTENDS Accounts, TLC

OnePerRole == [r \in Roles |-> 1]
OneUnit == [c \in Clients |-> 1]
SameName == [s \in Subjects |-> Alice]
SameAddress == [s \in Subjects |-> "e"]
OnePool == [c1 |-> "old", c3 |-> "new"]
Builds == [old |-> {"a"}, new |-> {"a", "b"}]

Symmetry == Permutations(Handlers) \cup Permutations(Pair)
=============================================================================
