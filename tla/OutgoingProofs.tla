--------------------------- MODULE OutgoingProofs ----------------------------
(***************************************************************************)
(* What leaves the organization.                                           *)
(*                                                                         *)
(* By mail (EmailDigest): what the claim of the digest flush gives, for    *)
(* every set of items, users and workers: no item is mailed twice unless   *)
(* the SMTP server accepted a message without acknowledging it, and none   *)
(* is dropped while no worker dies and no user is deleted.                 *)
(*                                                                         *)
(* By what it shows and answers (Disclosures): for any fields, rules,      *)
(* readers, entries and editors, what is shown was open under rules in     *)
(* force during the request, what was read is in the log, and an answer    *)
(* that nobody wrote by hand says what the library says.                   *)
(***************************************************************************)
EXTENDS EmailDigest, Disclosures, TLAPS

\* Every row belongs to a user.
Owned == \A i \in Items : queue[i].state # "unborn" => queue[i].user \in Users

\* What a worker claimed is stamped, or its user was deleted.
HeldRows ==
    \A w \in Workers : \A i \in flush[w].claimed : queue[i].state \in {"sent", "gone"}

\* SKIP LOCKED: no two flushes hold the same item.
HeldAlone ==
    \A v, w \in Workers : v # w => flush[v].claimed \cap flush[w].claimed = {}

\* A resting worker holds nothing; a sending one knows its user.
Stages ==
    \A w \in Workers :
        /\ flush[w].pc = "idle" => flush[w].claimed = {}
        /\ flush[w].pc \notin {"idle", "loop"} => flush[w].user \in Users

\* An item that waits, or is held and not yet sent, was only ever mailed by
\* messages without an answer.
Fresh ==
    /\ \A i \in Items : queue[i].state \in {"unborn", "pending"} => mailed[i] <= unheard[i]
    /\ \A w \in Workers : \A i \in flush[w].claimed :
         ~(flush[w].pc = "logSent" /\ queue[i].user = flush[w].user) => mailed[i] <= unheard[i]

OnceInv == TypeOK /\ Owned /\ HeldRows /\ HeldAlone /\ Stages /\ Fresh /\ AtMostOnce

\* Items that a flush is about to let go as sent were mailed.
SentWasMailed ==
    \A w \in Workers : \A i \in flush[w].claimed :
        flush[w].pc = "logSent" /\ queue[i].user = flush[w].user => mailed[i] > 0

KeptInv ==
    /\ TypeOK /\ Owned /\ HeldRows /\ HeldAlone /\ Stages /\ SentWasMailed /\ NothingDropped
    /\ Calm

-----------------------------------------------------------------------------
(* Type correctness: the flush of each worker stays within its stages, and *)
(* every count within its bound.                                           *)

LEMMA BatchSmall ==
    ASSUME TypeOK, NEW w \in Workers
    PROVE  /\ flush[w] \in FlushType
           /\ Batch(w) \subseteq flush[w].claimed
           /\ Batch(w) \subseteq Items
  BY DEF TypeOK, Batch, ItemsOf, FlushType

LEMMA TypeStep ==
    ASSUME TypeOK, DigestAssumption, [Next]_vars
    PROVE  TypeOK'
  <1>1. Resting \in FlushType
    BY DEF Resting, FlushType
  <1>2. ASSUME NEW i \in Items, NEW u \in Users, Queue(i, u) PROVE TypeOK'
    BY <1>2 DEF TypeOK, Queue, RowType, bounds
  <1>3. ASSUME NEW u \in Users, SetNotifications(u) \/ SetEmail(u) PROVE TypeOK'
    BY <1>3 DEF TypeOK, SetNotifications, SetEmail, DigestAssumption
  <1>4. ASSUME NEW u \in Users, DeleteUser(u) PROVE TypeOK'
    BY <1>4 DEF TypeOK, DeleteUser, RowType, bounds
  <1>5. CASE SetSmtp
    BY <1>5 DEF TypeOK, SetSmtp, DigestAssumption
  <1>6. ASSUME NEW w \in Workers, Flush(w) PROVE TypeOK'
    <2>0. /\ flush[w] \in FlushType
          /\ Batch(w) \subseteq flush[w].claimed /\ Batch(w) \subseteq Items
      BY BatchSmall
    <2>1. CASE Claim(w)
      <3>1. [pc |-> "loop", claimed |-> Pending, user |-> Null] \in FlushType
        BY DEF FlushType, Pending
      <3>2. Stamp(Pending) \in [Items -> RowType]
        BY DEF TypeOK, Stamp, RowType
      <3> QED BY <2>1, <3>1, <3>2 DEF TypeOK, Claim, bounds
    <2>2. CASE NextGroup(w)
      <3>1. PICK i \in flush[w].claimed :
              LET u == queue[i].user
                  theirs == ItemsOf(flush[w].claimed, u)
              IN IF users[u] = "on"
                 THEN /\ flush' = [flush EXCEPT ![w].pc = "send", ![w].user = u]
                      /\ UNCHANGED spared
                 ELSE /\ flush' = [flush EXCEPT ![w].claimed = @ \ theirs]
                      /\ spared' = spared \cup theirs
        BY <2>2 DEF NextGroup
      <3>2. queue[i].user \in Users \cup {Null}
        BY <2>0 DEF TypeOK, RowType, FlushType
      <3>3. ItemsOf(flush[w].claimed, queue[i].user) \subseteq Items
        BY <2>0 DEF ItemsOf, FlushType
      <3> QED BY <2>0, <2>2, <3>1, <3>2, <3>3 DEF TypeOK, NextGroup, FlushType, bounds
    <2>3. CASE SkipSend(w)
      BY <2>0, <2>3 DEF TypeOK, SkipSend, FlushType, bounds
    <2>4. CASE Send(w)
      <3>1. mailed' \in [Items -> Nat] /\ unheard' \in [Items -> Nat]
        BY <2>4 DEF TypeOK, Send, Counted
      <3>2. failures' \in 0..MaxFailures
        BY <2>4 DEF TypeOK, Send, DigestAssumption
      <3>3. flush' \in [Workers -> FlushType]
        <4>1. \E pc \in {"logSent", "logFailed"} : flush' = [flush EXCEPT ![w].pc = pc] BY <2>4 DEF Send
        <4> QED BY <2>0, <4>1 DEF TypeOK, FlushType
      <3> QED BY <2>4, <3>1, <3>2, <3>3 DEF TypeOK, Send
    <2>5. CASE LogSent(w)
      BY <2>0, <2>5 DEF TypeOK, LogSent, FlushType, bounds
    <2>6. CASE LogFailed(w)
      BY <2>0, <2>6 DEF TypeOK, LogFailed, FlushType, bounds
    <2>7. CASE FlushRaises(w)
      BY <1>1, <2>7 DEF TypeOK, FlushRaises, bounds
    <2>8. CASE Release(w)
      <3>1. queue' \in [Items -> RowType]
        BY <2>8 DEF TypeOK, Release, RowType
      <3> QED BY <2>0, <2>8, <3>1 DEF TypeOK, Release, FlushType, bounds
    <2>9. CASE EndFlush(w)
      BY <1>1, <2>9 DEF TypeOK, EndFlush, bounds
    <2> QED BY <1>6, <2>1, <2>2, <2>3, <2>4, <2>5, <2>6, <2>7, <2>8, <2>9 DEF Flush
  <1>7. ASSUME NEW w \in Workers, Crash(w) PROVE TypeOK'
    BY <1>1, <1>7 DEF TypeOK, Crash, DigestAssumption
  <1>8. CASE UNCHANGED vars
    BY <1>8 DEF TypeOK, vars
  <1> QED BY <1>2, <1>3, <1>4, <1>5, <1>6, <1>7, <1>8 DEF Next

LEMMA TypeInit == DigestAssumption /\ Init => TypeOK
  BY DEF DigestAssumption, Init, TypeOK, RowType, FlushType, Resting

\* Every reachable state has the types that the tables and the job allow.
THEOREM TypeCorrect == Spec => []TypeOK
  <1>1. TypeOK /\ [Next]_vars => TypeOK'
    BY TypeStep, DigestAssumption
  <1> QED BY <1>1, TypeInit, DigestAssumption, PTL DEF Spec

-----------------------------------------------------------------------------
(* At most once.  What holds the argument together is that an item waits in *)
(* the table or is held by one flush, never both.                           *)

OthersRest(w) == \A v \in Workers \ {w} : flush'[v] = flush[v]

\* The steps of a flush that write neither the queue nor a mailbox.
LEMMA FlushMoves ==
    ASSUME OnceInv, TypeOK', NEW w \in Workers, OthersRest(w),
           queue' = queue, mailed' = mailed, unheard' = unheard,
           flush'[w].claimed \subseteq flush[w].claimed,
           flush'[w].pc = "idle" => flush'[w].claimed = {},
           flush'[w].pc \notin {"idle", "loop"} => flush'[w].user \in Users,
           \A i \in flush'[w].claimed :
              ~(flush'[w].pc = "logSent" /\ queue[i].user = flush'[w].user) => mailed[i] <= unheard[i]
    PROVE  OnceInv'
  <1>1. HeldRows' /\ Owned'
    BY DEF OnceInv, HeldRows, Owned, OthersRest
  <1>2. HeldAlone'
    BY DEF OnceInv, HeldAlone, OthersRest
  <1>3. Stages'
    BY DEF OnceInv, Stages, OthersRest
  <1>4. Fresh'
    BY DEF OnceInv, Fresh, OthersRest
  <1>5. AtMostOnce'
    BY DEF OnceInv, AtMostOnce
  <1> QED BY <1>1, <1>2, <1>3, <1>4, <1>5 DEF OnceInv

\* The steps of users and administrators leave the flushes alone and keep the
\* owner of every row; a row that leaves "unborn" or "pending" is deleted.
LEMMA TableMoves ==
    ASSUME OnceInv, TypeOK', flush' = flush, mailed' = mailed, unheard' = unheard,
           \A i \in Items : queue[i].state \in {"sent", "gone"} =>
               queue'[i].state \in {"sent", "gone"} /\ queue'[i].user = queue[i].user,
           Owned'
    PROVE  OnceInv'
  <1>0. \A w \in Workers : flush[w].claimed \subseteq Items
    BY DEF OnceInv, TypeOK, FlushType
  <1>1. HeldRows'
    BY <1>0 DEF OnceInv, HeldRows
  <1>5. Owned'
    BY DEF OnceInv, Owned
  <1>2. HeldAlone' /\ Stages' /\ AtMostOnce'
    BY DEF OnceInv, HeldAlone, Stages, AtMostOnce
  <1>3. \A i \in Items : queue[i].state \in {"unborn", "pending", "sent", "gone"}
    BY DEF OnceInv, TypeOK, RowType
  <1>4. Fresh'
    <2>1. ASSUME NEW i \in Items, queue'[i].state \in {"unborn", "pending"}
          PROVE  mailed'[i] <= unheard'[i]
      BY <1>3, <2>1 DEF OnceInv, Fresh
    <2>2. ASSUME NEW w \in Workers, NEW i \in flush'[w].claimed,
                 ~(flush'[w].pc = "logSent" /\ queue'[i].user = flush'[w].user)
          PROVE  mailed'[i] <= unheard'[i]
      <3>1. i \in Items /\ i \in flush[w].claimed /\ queue[i].state \in {"sent", "gone"}
        BY <1>0, <2>2 DEF OnceInv, HeldRows
      <3>2. queue'[i].user = queue[i].user
        BY <3>1
      <3> QED BY <2>2, <3>1, <3>2 DEF OnceInv, Fresh
    <2> QED BY <2>1, <2>2 DEF Fresh
  <1> QED BY <1>1, <1>2, <1>4, <1>5 DEF OnceInv

LEMMA OnceStep ==
    ASSUME OnceInv, DigestAssumption, [Next]_vars
    PROVE  OnceInv'
  <1>0. TypeOK' /\ TypeOK
    BY TypeStep DEF OnceInv
  <1>1. ASSUME NEW i \in Items, NEW u \in Users, Queue(i, u) PROVE OnceInv'
    <2>1. Owned'
      BY <1>0, <1>1 DEF Queue, TypeOK, OnceInv, Owned
    <2>2. \A j \in Items : j # i => queue'[j] = queue[j]
      BY <1>0, <1>1 DEF Queue, TypeOK
    <2>3. queue[i].state = "unborn" /\ flush' = flush /\ mailed' = mailed /\ unheard' = unheard
      BY <1>1 DEF Queue
    <2> QED BY <1>0, <2>1, <2>2, <2>3, TableMoves
  <1>2. ASSUME NEW u \in Users, SetNotifications(u) \/ SetEmail(u) PROVE OnceInv'
    <2>1. Owned'
      BY <1>2 DEF SetNotifications, SetEmail, OnceInv, Owned
    <2> QED BY <1>0, <1>2, <2>1, TableMoves DEF SetNotifications, SetEmail
  <1>3. ASSUME NEW u \in Users, DeleteUser(u) PROVE OnceInv'
    <2>1. \A i \in Items : queue'[i].user = queue[i].user /\
            (queue'[i] = queue[i] \/ (queue'[i].state = "gone" /\ queue[i].user = u))
      BY <1>0, <1>3 DEF DeleteUser, TypeOK, RowType
    <2>2. Owned'
      BY <2>1 DEF OnceInv, Owned
    <2>3. flush' = flush /\ mailed' = mailed /\ unheard' = unheard
      BY <1>3 DEF DeleteUser
    <2> QED BY <1>0, <2>1, <2>2, <2>3, TableMoves
  <1>4. CASE SetSmtp
    <2>1. Owned'
      BY <1>4 DEF SetSmtp, OnceInv, Owned
    <2> QED BY <1>0, <1>4, <2>1, TableMoves DEF SetSmtp
  <1>5. ASSUME NEW w \in Workers, Flush(w) PROVE OnceInv'
    <2>0. /\ flush[w] \in FlushType
          /\ Batch(w) \subseteq flush[w].claimed /\ Batch(w) \subseteq Items
      BY <1>0, BatchSmall
    <2>1. CASE Claim(w)
      <3>1. /\ flush'[w] = [pc |-> "loop", claimed |-> Pending, user |-> Null]
            /\ OthersRest(w) /\ queue' = Stamp(Pending) /\ mailed' = mailed /\ unheard' = unheard
        BY <1>0, <2>1 DEF Claim, TypeOK, OthersRest
      <3>2. \A i \in Items : queue'[i].user = queue[i].user /\
              (i \notin Pending => queue'[i] = queue[i]) /\ (i \in Pending => queue'[i].state = "sent")
        BY <1>0, <3>1 DEF Stamp, TypeOK, RowType
      <3>3. \A v \in Workers : flush[v].claimed \subseteq Items /\ flush[v].claimed \cap Pending = {}
        BY <1>0 DEF OnceInv, HeldRows, Pending, TypeOK, FlushType
      <3>4. \A i \in Pending : i \in Items /\ queue[i].state = "pending" /\ mailed[i] <= unheard[i]
        BY DEF OnceInv, Fresh, Pending
      <3>5. Owned'
        BY <3>2, <3>4 DEF OnceInv, Owned
      <3>6. HeldRows'
        BY <3>1, <3>2, <3>3, <3>4 DEF OnceInv, HeldRows, OthersRest
      <3>7. HeldAlone'
        BY <3>1, <3>3 DEF OnceInv, HeldAlone, OthersRest
      <3>8. Stages'
        BY <3>1 DEF OnceInv, Stages, OthersRest
      <3>9. Fresh'
        <4>1. ASSUME NEW i \in Items, queue'[i].state \in {"unborn", "pending"}
              PROVE  mailed'[i] <= unheard'[i]
          BY <3>1, <3>2, <4>1 DEF OnceInv, Fresh
        <4>2. ASSUME NEW v \in Workers, NEW i \in flush'[v].claimed,
                     ~(flush'[v].pc = "logSent" /\ queue'[i].user = flush'[v].user)
              PROVE  mailed'[i] <= unheard'[i]
          <5>1. CASE v = w
            BY <3>1, <3>4, <4>2, <5>1
          <5>2. CASE v # w
            BY <3>1, <3>2, <3>3, <4>2, <5>2 DEF OnceInv, Fresh, OthersRest
          <5> QED BY <5>1, <5>2
        <4> QED BY <4>1, <4>2 DEF Fresh
      <3> QED BY <1>0, <3>1, <3>5, <3>6, <3>7, <3>8, <3>9 DEF OnceInv, AtMostOnce
    <2>2. CASE NextGroup(w)
      <3>1. PICK i \in flush[w].claimed :
              LET u == queue[i].user
                  theirs == ItemsOf(flush[w].claimed, u)
              IN IF users[u] = "on"
                 THEN /\ flush' = [flush EXCEPT ![w].pc = "send", ![w].user = u]
                      /\ UNCHANGED spared
                 ELSE /\ flush' = [flush EXCEPT ![w].claimed = @ \ theirs]
                      /\ spared' = spared \cup theirs
        BY <2>2 DEF NextGroup
      <3>2. queue[i].user \in Users
        BY <2>0 DEF OnceInv, Owned, HeldRows, FlushType
      <3>3. /\ OthersRest(w) /\ flush'[w].claimed \subseteq flush[w].claimed
            /\ flush'[w].pc \in {"loop", "send"}
            /\ flush'[w].pc = "send" => flush'[w].user \in Users
        BY <1>0, <2>0, <2>2, <3>1, <3>2 DEF TypeOK, OthersRest, NextGroup, FlushType
      <3>4. \A j \in flush'[w].claimed : mailed[j] <= unheard[j]
        BY <2>2, <3>3 DEF OnceInv, Fresh, NextGroup
      <3> QED BY <1>0, <2>2, <3>3, <3>4, FlushMoves DEF NextGroup
    <2>3. CASE SkipSend(w)
      <3>1. /\ OthersRest(w) /\ flush'[w].claimed = flush[w].claimed
            /\ flush'[w].pc = "logFailed" /\ flush'[w].user = flush[w].user
        BY <1>0, <2>0, <2>3 DEF TypeOK, OthersRest, SkipSend, FlushType
      <3>2. flush[w].user \in Users /\ \A j \in flush[w].claimed : mailed[j] <= unheard[j]
        BY <2>3 DEF OnceInv, Fresh, Stages, SkipSend
      <3> QED BY <1>0, <2>3, <3>1, <3>2, FlushMoves DEF SkipSend
    <2>4. CASE Send(w)
      <3>1. /\ OthersRest(w) /\ flush'[w].claimed = flush[w].claimed
            /\ flush'[w].user = flush[w].user /\ queue' = queue
            /\ flush[w].pc = "send" /\ flush'[w].pc \in {"logSent", "logFailed"}
        BY <1>0, <2>0, <2>4 DEF TypeOK, OthersRest, Send, FlushType
      <3>2. \/ flush'[w].pc = "logFailed" /\ mailed' = mailed /\ unheard' = unheard
            \/ /\ flush'[w].pc = "logFailed"
               /\ mailed' = Counted(mailed, Batch(w)) /\ unheard' = Counted(unheard, Batch(w))
            \/ /\ flush'[w].pc = "logSent"
               /\ mailed' = Counted(mailed, Batch(w)) /\ unheard' = unheard
        BY <1>0, <2>0, <2>4 DEF TypeOK, Send, DigestAssumption, FlushType
      <3>3. flush[w].user \in Users /\ \A j \in flush[w].claimed : mailed[j] <= unheard[j]
        BY <3>1 DEF OnceInv, Fresh, Stages
      <3>4. CASE mailed' = mailed /\ unheard' = unheard /\ flush'[w].pc = "logFailed"
        BY <1>0, <3>1, <3>3, <3>4, FlushMoves
      <3>5. CASE mailed' = Counted(mailed, Batch(w))
        <4>1. \A i \in Items : mailed[i] \in Nat /\ unheard[i] \in Nat
          BY <1>0 DEF TypeOK
        <4>2. \A i \in Items : /\ i \notin Batch(w) => mailed'[i] = mailed[i] /\ unheard'[i] = unheard[i]
                               /\ mailed[i] <= unheard[i] => mailed'[i] <= 1 + unheard'[i]
                               /\ flush'[w].pc = "logFailed" /\ mailed[i] <= unheard[i] =>
                                    mailed'[i] <= unheard'[i]
          BY <3>2, <3>5, <4>1 DEF Counted
        <4>3. Owned' /\ HeldRows'
          BY <3>1 DEF OnceInv, Owned, HeldRows, OthersRest
        <4>4. HeldAlone'
          BY <3>1 DEF OnceInv, HeldAlone, OthersRest
        <4>5. Stages'
          BY <3>1, <3>3 DEF OnceInv, Stages, OthersRest
        <4>6. AtMostOnce'
          BY <2>0, <3>3, <4>2 DEF OnceInv, AtMostOnce
        <4>7. \A v \in Workers : flush[v].claimed \subseteq Items
          BY <1>0 DEF TypeOK, FlushType
        <4>8. Fresh'
          <5>1. ASSUME NEW i \in Items, queue'[i].state \in {"unborn", "pending"}
                PROVE  mailed'[i] <= unheard'[i]
            <6>1. i \notin Batch(w)
              BY <2>0, <3>1, <5>1 DEF OnceInv, HeldRows
            <6> QED BY <3>1, <4>2, <5>1, <6>1 DEF OnceInv, Fresh
          <5>2. ASSUME NEW v \in Workers, NEW i \in flush'[v].claimed,
                       ~(flush'[v].pc = "logSent" /\ queue'[i].user = flush'[v].user)
                PROVE  mailed'[i] <= unheard'[i]
            <6>1. CASE v = w
              <7>1. i \in Items /\ i \in flush[w].claimed
                BY <3>1, <4>7, <5>2, <6>1
              <7>2. CASE flush'[w].pc = "logFailed"
                BY <3>3, <4>2, <7>1, <7>2
              <7>3. CASE flush'[w].pc = "logSent"
                <8>1. i \notin Batch(w)
                  BY <3>1, <5>2, <6>1, <7>1, <7>3 DEF Batch, ItemsOf
                <8> QED BY <3>3, <4>2, <7>1, <8>1
              <7> QED BY <3>1, <7>2, <7>3
            <6>2. CASE v # w
              <7>1. flush'[v] = flush[v]
                BY <3>1, <6>2 DEF OthersRest
              <7>2. i \in Items /\ i \notin Batch(w)
                BY <2>0, <4>7, <5>2, <6>2, <7>1 DEF OnceInv, HeldAlone
              <7>3. mailed[i] <= unheard[i]
                BY <3>1, <5>2, <7>1 DEF OnceInv, Fresh
              <7> QED BY <4>2, <7>2, <7>3
            <6> QED BY <6>1, <6>2
          <5> QED BY <5>1, <5>2 DEF Fresh
        <4> QED BY <1>0, <4>3, <4>4, <4>5, <4>6, <4>8 DEF OnceInv
      <3> QED BY <3>2, <3>4, <3>5
    <2>5. CASE LogSent(w)
      <3>1. /\ OthersRest(w) /\ flush'[w].claimed = flush[w].claimed \ Batch(w)
            /\ flush[w].pc = "logSent" /\ flush'[w].pc = "loop"
        BY <1>0, <2>0, <2>5 DEF TypeOK, OthersRest, LogSent, FlushType
      <3>2. \A j \in flush'[w].claimed : mailed[j] <= unheard[j]
        BY <3>1 DEF OnceInv, Fresh, Batch, ItemsOf
      <3> QED BY <1>0, <2>5, <3>1, <3>2, FlushMoves DEF LogSent
    <2>6. CASE LogFailed(w)
      <3>1. /\ OthersRest(w) /\ flush'[w].claimed = flush[w].claimed
            /\ flush'[w].pc = "release" /\ flush'[w].user = flush[w].user
        BY <1>0, <2>0, <2>6 DEF TypeOK, OthersRest, LogFailed, FlushType
      <3>2. flush[w].user \in Users /\ \A j \in flush[w].claimed : mailed[j] <= unheard[j]
        BY <2>6 DEF OnceInv, Fresh, Stages, LogFailed
      <3> QED BY <1>0, <2>6, <3>1, <3>2, FlushMoves DEF LogFailed
    <2>7. CASE FlushRaises(w)
      <3>1. OthersRest(w) /\ flush'[w].claimed = {} /\ flush'[w].pc = "idle"
        BY <1>0, <2>7 DEF TypeOK, OthersRest, FlushRaises, Resting
      <3> QED BY <1>0, <2>7, <3>1, FlushMoves DEF FlushRaises
    <2>8. CASE Release(w)
      <3>1. /\ OthersRest(w) /\ flush'[w].claimed = flush[w].claimed \ Batch(w)
            /\ flush[w].pc = "release" /\ flush'[w].pc = "loop" /\ mailed' = mailed /\ unheard' = unheard
        BY <1>0, <2>0, <2>8 DEF TypeOK, OthersRest, Release, FlushType
      <3>2. \A i \in Items : queue'[i].user = queue[i].user /\ (i \notin Batch(w) => queue'[i] = queue[i])
              /\ (queue[i].state # "unborn" => queue'[i].state # "unborn")
              /\ (queue'[i] # queue[i] => queue[i].state = "sent")
        BY <1>0, <2>8 DEF TypeOK, Release, RowType
      <3>3. \A j \in flush[w].claimed : mailed[j] <= unheard[j]
        BY <3>1 DEF OnceInv, Fresh
      <3>4. \A v \in Workers : flush[v].claimed \subseteq Items
        BY <1>0 DEF TypeOK, FlushType
      <3>5. \A v \in Workers : flush'[v].claimed \subseteq flush[v].claimed \ Batch(w)
        BY <2>0, <3>1 DEF OthersRest, OnceInv, HeldAlone
      <3>6. Owned'
        BY <3>2 DEF OnceInv, Owned
      <3>7. HeldRows'
        BY <3>2, <3>4, <3>5 DEF OnceInv, HeldRows
      <3>8. HeldAlone'
        BY <3>5 DEF OnceInv, HeldAlone
      <3>9. Stages'
        BY <3>1 DEF OnceInv, Stages, OthersRest
      <3>10. Fresh'
        <4>1. ASSUME NEW i \in Items, queue'[i].state \in {"unborn", "pending"}
              PROVE  mailed'[i] <= unheard'[i]
          BY <2>0, <3>1, <3>2, <3>3, <4>1 DEF OnceInv, Fresh
        <4>2. ASSUME NEW v \in Workers, NEW i \in flush'[v].claimed,
                     ~(flush'[v].pc = "logSent" /\ queue'[i].user = flush'[v].user)
              PROVE  mailed'[i] <= unheard'[i]
          <5>1. CASE v = w
            BY <3>1, <3>3, <4>2, <5>1
          <5>2. CASE v # w
            BY <3>1, <3>2, <3>4, <4>2, <5>2 DEF OnceInv, Fresh, OthersRest
          <5> QED BY <5>1, <5>2
        <4> QED BY <4>1, <4>2 DEF Fresh
      <3> QED BY <1>0, <3>1, <3>6, <3>7, <3>8, <3>9, <3>10 DEF OnceInv, AtMostOnce
    <2>9. CASE EndFlush(w)
      <3>1. OthersRest(w) /\ flush'[w].claimed = {} /\ flush'[w].pc = "idle"
        BY <1>0, <2>9 DEF TypeOK, OthersRest, EndFlush, Resting
      <3> QED BY <1>0, <2>9, <3>1, FlushMoves DEF EndFlush
    <2> QED BY <1>5, <2>1, <2>2, <2>3, <2>4, <2>5, <2>6, <2>7, <2>8, <2>9 DEF Flush
  <1>6. ASSUME NEW w \in Workers, Crash(w) PROVE OnceInv'
    <2>1. OthersRest(w) /\ flush'[w].claimed = {} /\ flush'[w].pc = "idle"
      BY <1>0, <1>6 DEF TypeOK, OthersRest, Crash, Resting
    <2> QED BY <1>0, <1>6, <2>1, FlushMoves DEF Crash
  <1>7. CASE UNCHANGED vars
    <2>1. Owned'
      BY <1>7 DEF vars, OnceInv, Owned
    <2> QED BY <1>0, <1>7, <2>1, TableMoves DEF vars
  <1> QED BY <1>1, <1>2, <1>3, <1>4, <1>5, <1>6, <1>7 DEF Next

LEMMA OnceInit == DigestAssumption /\ Init => OnceInv
  <1> SUFFICES ASSUME DigestAssumption, Init PROVE OnceInv
    OBVIOUS
  <1>1. TypeOK
    BY TypeInit
  <1> QED BY <1>1 DEF Init, OnceInv, Owned, HeldRows, HeldAlone, Stages, Fresh, AtMostOnce, Resting

\* However many workers flush at once, whoever crashes and whatever is
\* released and tried again, an item is mailed at most once more than it was
\* sent in messages that the SMTP server accepted without saying so.
THEOREM MailedAtMostOnce == Spec => []AtMostOnce
  <1>1. OnceInv /\ [Next]_vars => OnceInv'
    BY OnceStep, DigestAssumption
  <1>2. OnceInv => AtMostOnce
    BY DEF OnceInv
  <1> QED BY <1>1, <1>2, OnceInit, DigestAssumption, PTL DEF Spec

-----------------------------------------------------------------------------
(* Nothing is dropped: every way out of a flush settles the items it lets go. *)

LEMMA KeptMoves ==
    ASSUME KeptInv, TypeOK', NEW w \in Workers, OthersRest(w),
           queue' = queue, Calm', spared \subseteq spared',
           \A i \in Items : mailed[i] > 0 => mailed'[i] > 0,
           flush'[w].claimed \subseteq flush[w].claimed,
           flush'[w].pc = "idle" => flush'[w].claimed = {},
           flush'[w].pc \notin {"idle", "loop"} => flush'[w].user \in Users,
           \A i \in flush'[w].claimed :
              flush'[w].pc = "logSent" /\ queue[i].user = flush'[w].user => mailed'[i] > 0,
           \A i \in flush[w].claimed \ flush'[w].claimed : mailed'[i] > 0 \/ i \in spared'
    PROVE  KeptInv'
  <1>0. \A v \in Workers : flush[v].claimed \subseteq Items
    BY DEF KeptInv, TypeOK, FlushType
  <1>1. HeldRows' /\ Owned'
    BY DEF KeptInv, HeldRows, Owned, OthersRest
  <1>2. HeldAlone'
    BY DEF KeptInv, HeldAlone, OthersRest
  <1>3. Stages'
    BY DEF KeptInv, Stages, OthersRest
  <1>4. SentWasMailed'
    BY <1>0 DEF KeptInv, SentWasMailed, OthersRest
  <1>5. NothingDropped'
    BY DEF KeptInv, NothingDropped, OthersRest
  <1> QED BY <1>1, <1>2, <1>3, <1>4, <1>5 DEF KeptInv

LEMMA KeptTableMoves ==
    ASSUME KeptInv, TypeOK', Owned', flush' = flush, mailed' = mailed, spared' = spared,
           Calm',
           \A i \in Items : queue[i].state = "sent" => queue'[i] = queue[i],
           \A i \in Items : queue[i].state \in {"sent", "gone"} =>
               queue'[i].state \in {"sent", "gone"} /\ queue'[i].user = queue[i].user,
           \A i \in Items : queue'[i].state = "sent" => queue[i].state = "sent"
    PROVE  KeptInv'
  <1>0. \A w \in Workers : flush[w].claimed \subseteq Items
    BY DEF KeptInv, TypeOK, FlushType
  <1>1. HeldRows'
    BY <1>0 DEF KeptInv, HeldRows
  <1>2. HeldAlone' /\ Stages'
    BY DEF KeptInv, HeldAlone, Stages
  <1>3. SentWasMailed'
    BY <1>0 DEF KeptInv, SentWasMailed, HeldRows
  <1>4. NothingDropped'
    BY DEF KeptInv, NothingDropped
  <1> QED BY <1>1, <1>2, <1>3, <1>4 DEF KeptInv

LEMMA KeptStep ==
    ASSUME KeptInv, DigestAssumption, [Next]_vars, Calm'
    PROVE  KeptInv'
  <1>0. TypeOK' /\ TypeOK
    BY TypeStep DEF KeptInv
  <1>1. ASSUME NEW i \in Items, NEW u \in Users, Queue(i, u) PROVE KeptInv'
    <2>1. Owned'
      BY <1>0, <1>1 DEF Queue, TypeOK, KeptInv, Owned
    <2>2. \A j \in Items : j # i => queue'[j] = queue[j]
      BY <1>0, <1>1 DEF Queue, TypeOK
    <2>3. queue[i].state = "unborn" /\ queue'[i].state = "pending"
      BY <1>0, <1>1 DEF Queue, TypeOK
    <2>4. flush' = flush /\ mailed' = mailed /\ spared' = spared /\ users' = users
      BY <1>1 DEF Queue
    <2> QED BY <1>0, <2>1, <2>2, <2>3, <2>4, KeptTableMoves DEF KeptInv
  <1>2. ASSUME NEW u \in Users, SetNotifications(u) \/ SetEmail(u) PROVE KeptInv'
    <2>1. Owned'
      BY <1>2 DEF SetNotifications, SetEmail, KeptInv, Owned
    <2> QED BY <1>0, <1>2, <2>1, KeptTableMoves DEF SetNotifications, SetEmail
  <1>3. ASSUME NEW u \in Users, DeleteUser(u) PROVE KeptInv'
    BY <1>0, <1>3 DEF DeleteUser, TypeOK, Calm
  <1>4. CASE SetSmtp
    <2>1. Owned'
      BY <1>4 DEF SetSmtp, KeptInv, Owned
    <2> QED BY <1>0, <1>4, <2>1, KeptTableMoves DEF SetSmtp
  <1>5. ASSUME NEW w \in Workers, Flush(w) PROVE KeptInv'
    <2>0. /\ flush[w] \in FlushType
          /\ Batch(w) \subseteq flush[w].claimed /\ Batch(w) \subseteq Items
      BY <1>0, BatchSmall
    <2>1. CASE Claim(w)
      <3>1. /\ flush'[w] = [pc |-> "loop", claimed |-> Pending, user |-> Null]
            /\ flush[w].pc = "idle"
            /\ OthersRest(w) /\ queue' = Stamp(Pending) /\ mailed' = mailed
            /\ spared' = spared /\ users' = users
        BY <1>0, <2>1 DEF Claim, TypeOK, OthersRest
      <3>2. \A i \in Items : queue'[i].user = queue[i].user /\
              (i \notin Pending => queue'[i] = queue[i]) /\ (i \in Pending => queue'[i].state = "sent")
        BY <1>0, <3>1 DEF Stamp, TypeOK, RowType
      <3>3. \A v \in Workers : flush[v].claimed \subseteq Items /\ flush[v].claimed \cap Pending = {}
        BY <1>0 DEF KeptInv, HeldRows, Pending, TypeOK, FlushType
      <3>4. \A i \in Pending : i \in Items /\ queue[i].state = "pending"
        BY DEF Pending
      <3>5. Owned'
        BY <3>2, <3>4 DEF KeptInv, Owned
      <3>6. HeldRows'
        BY <3>1, <3>2, <3>3, <3>4 DEF KeptInv, HeldRows, OthersRest
      <3>7. HeldAlone'
        BY <3>1, <3>3 DEF KeptInv, HeldAlone, OthersRest
      <3>8. Stages'
        BY <3>1 DEF KeptInv, Stages, OthersRest
      <3>9. SentWasMailed'
        BY <3>1, <3>2, <3>3 DEF KeptInv, SentWasMailed, OthersRest
      <3>10. NothingDropped'
        <4>1. flush[w].claimed = {}
          BY <3>1 DEF KeptInv, Stages
        <4>2. ASSUME NEW i \in Items, queue'[i].state = "sent"
              PROVE  mailed'[i] > 0 \/ i \in spared' \/ \E v \in Workers : i \in flush'[v].claimed
          <5>1. CASE i \in Pending
            BY <3>1, <5>1
          <5>2. CASE i \notin Pending
            <6>1. queue[i].state = "sent"
              BY <3>2, <4>2, <5>2
            <6>2. CASE mailed[i] > 0 \/ i \in spared
              BY <3>1, <6>2
            <6>3. ASSUME NEW v \in Workers, i \in flush[v].claimed
                  PROVE  \E x \in Workers : i \in flush'[x].claimed
              BY <3>1, <4>1, <6>3 DEF OthersRest
            <6> QED BY <6>1, <6>2, <6>3 DEF KeptInv, NothingDropped
          <5> QED BY <5>1, <5>2
        <4> QED BY <4>2 DEF NothingDropped
      <3> QED BY <1>0, <3>1, <3>5, <3>6, <3>7, <3>8, <3>9, <3>10 DEF KeptInv
    <2>2. CASE NextGroup(w)
      <3>1. PICK i \in flush[w].claimed :
              LET u == queue[i].user
                  theirs == ItemsOf(flush[w].claimed, u)
              IN IF users[u] = "on"
                 THEN /\ flush' = [flush EXCEPT ![w].pc = "send", ![w].user = u]
                      /\ UNCHANGED spared
                 ELSE /\ flush' = [flush EXCEPT ![w].claimed = @ \ theirs]
                      /\ spared' = spared \cup theirs
        BY <2>2 DEF NextGroup
      <3>2. queue[i].user \in Users
        BY <2>0 DEF KeptInv, Owned, HeldRows, FlushType
      <3>3. /\ OthersRest(w) /\ flush'[w].claimed \subseteq flush[w].claimed
            /\ flush'[w].pc \in {"loop", "send"}
            /\ flush'[w].pc = "send" => flush'[w].user \in Users
            /\ spared \subseteq spared'
            /\ flush[w].claimed \ flush'[w].claimed \subseteq spared'
        BY <1>0, <2>0, <2>2, <3>1, <3>2 DEF TypeOK, OthersRest, NextGroup, FlushType
      <3> QED BY <1>0, <2>2, <3>3, KeptMoves DEF NextGroup
    <2>3. CASE SkipSend(w)
      <3>1. /\ OthersRest(w) /\ flush'[w].claimed = flush[w].claimed
            /\ flush'[w].pc = "logFailed" /\ flush'[w].user = flush[w].user
        BY <1>0, <2>0, <2>3 DEF TypeOK, OthersRest, SkipSend, FlushType
      <3>2. flush[w].user \in Users
        BY <2>3 DEF KeptInv, Stages, SkipSend
      <3> QED BY <1>0, <2>3, <3>1, <3>2, KeptMoves DEF SkipSend
    <2>4. CASE Send(w)
      <3>1. /\ OthersRest(w) /\ flush'[w].claimed = flush[w].claimed
            /\ flush'[w].user = flush[w].user /\ flush[w].pc = "send"
            /\ flush'[w].pc \in {"logSent", "logFailed"}
        BY <1>0, <2>0, <2>4 DEF TypeOK, OthersRest, Send, FlushType
      <3>2. /\ queue' = queue /\ users' = users /\ spared' = spared
        BY <2>4 DEF Send
      <3>3. /\ \A i \in Items : mailed[i] > 0 => mailed'[i] > 0
            /\ flush'[w].pc = "logSent" => \A i \in Batch(w) : mailed'[i] > 0
        <4>1. PICK heard \in Answers :
                /\ mailed' = IF heard = "refused" THEN mailed ELSE Counted(mailed, Batch(w))
                /\ flush' = [flush EXCEPT ![w].pc = IF heard = "ok" THEN "logSent" ELSE "logFailed"]
          BY <2>4 DEF Send
        <4>2. flush'[w].pc = "logSent" => heard = "ok"
          BY <1>0, <2>0, <4>1 DEF TypeOK, FlushType
        <4> QED BY <1>0, <2>0, <4>1, <4>2 DEF TypeOK, Counted
      <3>4. flush[w].user \in Users
        BY <3>1 DEF KeptInv, Stages
      <3>5. \A i \in flush'[w].claimed :
              flush'[w].pc = "logSent" /\ queue[i].user = flush'[w].user => mailed'[i] > 0
        BY <3>1, <3>3 DEF Batch, ItemsOf
      <3> QED BY <1>0, <3>1, <3>2, <3>3, <3>4, <3>5, KeptMoves
    <2>5. CASE LogSent(w)
      <3>1. /\ OthersRest(w) /\ flush'[w].claimed = flush[w].claimed \ Batch(w)
            /\ flush[w].pc = "logSent" /\ flush'[w].pc = "loop"
        BY <1>0, <2>0, <2>5 DEF TypeOK, OthersRest, LogSent, FlushType
      <3>2. \A j \in Batch(w) : mailed[j] > 0
        BY <2>0, <3>1 DEF KeptInv, SentWasMailed, Batch, ItemsOf
      <3> QED BY <1>0, <2>5, <3>1, <3>2, KeptMoves DEF LogSent
    <2>6. CASE LogFailed(w)
      <3>1. /\ OthersRest(w) /\ flush'[w].claimed = flush[w].claimed
            /\ flush'[w].pc = "release" /\ flush'[w].user = flush[w].user
        BY <1>0, <2>0, <2>6 DEF TypeOK, OthersRest, LogFailed, FlushType
      <3>2. flush[w].user \in Users
        BY <2>6 DEF KeptInv, Stages, LogFailed
      <3> QED BY <1>0, <2>6, <3>1, <3>2, KeptMoves DEF LogFailed
    <2>7. CASE FlushRaises(w)
      <3>1. flush[w].user \in Users
        BY <2>7 DEF KeptInv, Stages, FlushRaises
      <3> QED BY <2>7, <3>1 DEF KeptInv, FlushRaises, Calm
    <2>8. CASE Release(w)
      <3>1. /\ OthersRest(w) /\ flush'[w].claimed = flush[w].claimed \ Batch(w)
            /\ flush[w].pc = "release" /\ flush'[w].pc = "loop" /\ mailed' = mailed
            /\ spared' = spared /\ users' = users
        BY <1>0, <2>0, <2>8 DEF TypeOK, OthersRest, Release, FlushType
      <3>2. \A i \in Items : queue'[i].user = queue[i].user /\ (i \notin Batch(w) => queue'[i] = queue[i])
              /\ (queue'[i].state # "unborn" => queue[i].state # "unborn")
              /\ (queue'[i].state = "sent" => queue[i].state = "sent" /\ i \notin Batch(w))
        BY <1>0, <2>8 DEF TypeOK, Release, RowType
      <3>4. \A v \in Workers : flush[v].claimed \subseteq Items
        BY <1>0 DEF TypeOK, FlushType
      <3>5. \A v \in Workers : flush'[v].claimed = flush[v].claimed \ Batch(w)
        BY <2>0, <3>1 DEF OthersRest, KeptInv, HeldAlone
      <3>6. Owned'
        BY <3>2 DEF KeptInv, Owned
      <3>7. HeldRows'
        BY <3>2, <3>4, <3>5 DEF KeptInv, HeldRows
      <3>8. HeldAlone'
        BY <3>5 DEF KeptInv, HeldAlone
      <3>9. Stages'
        BY <3>1 DEF KeptInv, Stages, OthersRest
      <3>10. SentWasMailed'
        BY <3>1, <3>2, <3>4, <3>5 DEF KeptInv, SentWasMailed, OthersRest
      <3>11. NothingDropped'
        BY <3>1, <3>2, <3>5 DEF KeptInv, NothingDropped
      <3> QED BY <1>0, <3>1, <3>6, <3>7, <3>8, <3>9, <3>10, <3>11 DEF KeptInv
    <2>9. CASE EndFlush(w)
      <3>1. OthersRest(w) /\ flush'[w].claimed = {} /\ flush'[w].pc = "idle" /\ flush[w].claimed = {}
        BY <1>0, <2>9 DEF TypeOK, OthersRest, EndFlush, Resting
      <3> QED BY <1>0, <2>9, <3>1, KeptMoves DEF EndFlush
    <2> QED BY <1>5, <2>1, <2>2, <2>3, <2>4, <2>5, <2>6, <2>7, <2>8, <2>9 DEF Flush
  <1>6. ASSUME NEW w \in Workers, Crash(w) PROVE KeptInv'
    BY <1>0, <1>6 DEF Crash, TypeOK, Calm, KeptInv
  <1>7. CASE UNCHANGED vars
    <2>1. Owned'
      BY <1>7 DEF vars, KeptInv, Owned
    <2> QED BY <1>0, <1>7, <2>1, KeptTableMoves DEF vars
  <1> QED BY <1>1, <1>2, <1>3, <1>4, <1>5, <1>6, <1>7 DEF Next

LEMMA KeptInit == DigestAssumption /\ Init => KeptInv
  <1> SUFFICES ASSUME DigestAssumption, Init PROVE KeptInv
    OBVIOUS
  <1>1. TypeOK
    BY TypeInit
  <1> QED BY <1>1 DEF Init, KeptInv, Owned, HeldRows, HeldAlone, Stages, SentWasMailed,
                      NothingDropped, Calm, Resting

\* A calm system stays in KeptInv; after an accident it has nothing to keep.
LEMMA CalmEarlier ==
    ASSUME TypeOK, [Next]_vars, Calm'
    PROVE  Calm
  <1>1. ASSUME NEW u \in Users, SetNotifications(u) \/ SetEmail(u) \/ DeleteUser(u) PROVE Calm
    BY <1>1 DEF TypeOK, Calm, SetNotifications, SetEmail, DeleteUser
  <1>2. ASSUME NEW w \in Workers, Flush(w) PROVE Calm
    BY <1>2 DEF Calm, bounds, Flush, Claim, NextGroup, SkipSend, Send, LogSent, LogFailed,
                FlushRaises, Release, EndFlush
  <1>3. ASSUME NEW w \in Workers, Crash(w) PROVE Calm
    BY <1>3 DEF TypeOK, Calm, Crash
  <1>4. ASSUME NEW i \in Items, NEW u \in Users, Queue(i, u) PROVE Calm
    BY <1>4 DEF Calm, Queue, bounds
  <1>5. CASE SetSmtp
    BY <1>5 DEF Calm, SetSmtp
  <1>6. CASE UNCHANGED vars
    BY <1>6 DEF Calm, vars
  <1> QED BY <1>1, <1>2, <1>3, <1>4, <1>5, <1>6 DEF Next

\* While no worker has died and no user was deleted, a stamped item was mailed,
\* was not wanted any more, or is in the hands of a running flush: a failed
\* message is always released for the next flush.
THEOREM FailedIsReleased == Spec => []NothingDropped
  <1>1. TypeOK /\ (Calm => KeptInv) /\ [Next]_vars => TypeOK' /\ (Calm => KeptInv)'
    BY KeptStep, CalmEarlier, TypeStep, DigestAssumption
  <1>2. TypeOK /\ (Calm => KeptInv) => NothingDropped
    BY DEF KeptInv, NothingDropped
  <1> QED BY <1>1, <1>2, KeptInit, TypeInit, DigestAssumption, PTL DEF Spec

-----------------------------------------------------------------------------
(* Reads, and what they show *)

Rows(c) == [c.fields -> {rows[f] : rows \in c.rules, f \in c.fields} \cup {Absent}]
Statements == {"record", "sample", "org", "own"}
QueryType(c) ==
    [kind : c.kinds \cup {Absent}, left : Seq(Statements), id : Nat, org : SUBSET c.fields,
     own : Rows(c), during : [{"org", "own"} -> SUBSET Rows(c)]]
FormType(c) == [level : {"org", "own"}, rows : c.rules, left : SUBSET c.fields]
PurgeType == [days : Int, since : SUBSET (Int \cup {Absent})]

ViewTyped(p) ==
    /\ rule \in [{"org", "own"} -> Rows(ReadParts[p])]
    /\ form \in [ReadParts[p].admins -> FormType(ReadParts[p]) \cup {Absent}]
    /\ request \in [ReadParts[p].readers -> QueryType(ReadParts[p])]
    /\ log \subseteq [id : Nat, day : Nat]
    /\ retention \in Int \cup {Absent} /\ purge \in PurgeType \cup {Absent}
    /\ day \in Nat /\ tally \in [{"reads", "forms", "retentions"} -> Nat]

\* A statement that a request has yet to make, and the reads that are stored,
\* could not be, or were purged.
Ahead(q, what) == what \in {q.left[i] : i \in DOMAIN q.left}
Stored == {e.id : e \in log} \cup lost \cup {g.id : g \in gone}
Recorded(p, kind) == "record" \in {View(p)!Order[kind][i] : i \in DOMAIN View(p)!Order[kind]}

\* The rules that a request has read were in force during it, and what it must
\* store is stored or yet to be.
QueryFits(p, q, rules, stored) ==
    q.kind # Absent =>
        /\ \A l \in {"org", "own"} : rules[l] \in q.during[l]
        /\ Ahead(q, "org") \/ \E o \in q.during["org"] : q.org = View(p)!Effective(o)
        /\ Ahead(q, "own") \/ q.own \in q.during["own"]
        /\ Ahead(q, "record") \/ ~Recorded(p, q.kind) \/ q.id \in stored
QueriesFit(p) == \A r \in ReadParts[p].readers : QueryFits(p, request[r], rule, Stored)

\* What the nightly job has read was the retention since it began.
PurgeOK == purge # Absent => purge.days \in purge.since /\ purge.days # Absent

ViewInv(p) ==
    /\ ViewTyped(p) /\ PurgeOK /\ QueriesFit(p)
    /\ View(p)!Masked /\ View(p)!Logged /\ View(p)!Retained

LEMMA RestIsAhead ==
    ASSUME NEW S, NEW q, q.left \in Seq(S), q.left # <<>>, NEW x, Ahead(q, x), x # Head(q.left),
           NEW r, r.left = Tail(q.left)
    PROVE  Ahead(r, x)
  <1>1. PICK i \in DOMAIN q.left : q.left[i] = x BY DEF Ahead
  <1>2. i # 1 BY <1>1
  <1>3. i - 1 \in DOMAIN Tail(q.left) /\ Tail(q.left)[i - 1] = x BY <1>1, <1>2
  <1> QED BY <1>3 DEF Ahead

LEMMA OrderAsks ==
    ASSUME NEW p, NEW k \in {"page", "fetch", "list", "search", "export"}, NEW q, q.left = View(p)!Order[k]
    PROVE  /\ q.left \in Seq(Statements)
           /\ Ahead(q, "org") /\ Ahead(q, "own")
           /\ Ahead(q, "record") \/ ~Recorded(p, k)
  <1> DEFINE s == View(p)!Order[k]
  <1>1. s \in Seq(Statements)
    <2>1. k = "page" => s = <<"record", "org", "own">> BY DEF View!Order
    <2>2. k = "fetch" => s = <<"org", "own">> BY DEF View!Order
    <2>3. k = "list" => s = <<"sample", "org", "own">> BY DEF View!Order
    <2>4. k = "search" => s = <<"org", "own", "sample">> BY DEF View!Order
    <2>5. k = "export" => s = <<"org", "own", "record">> BY DEF View!Order
    <2>6. <<"record", "org", "own">> \in Seq(Statements) BY DEF Statements
    <2>7. <<"org", "own">> \in Seq(Statements) BY DEF Statements
    <2>8. <<"sample", "org", "own">> \in Seq(Statements) BY DEF Statements
    <2>9. <<"org", "own", "sample">> \in Seq(Statements) BY DEF Statements
    <2>10. <<"org", "own", "record">> \in Seq(Statements) BY DEF Statements
    <2> HIDE DEF s
    <2> QED BY <2>1, <2>2, <2>3, <2>4, <2>5, <2>6, <2>7, <2>8, <2>9, <2>10
  <1>2. \E i \in DOMAIN s : s[i] = "org"
    <2>1. CASE k \in {"page", "list"} BY <2>1, s[2] = "org" DEF View!Order
    <2>2. CASE k \in {"fetch", "search", "export"} BY <2>2, s[1] = "org" DEF View!Order
    <2> QED BY <2>1, <2>2
  <1>3. \E i \in DOMAIN s : s[i] = "own"
    <2>1. CASE k \in {"page", "list"} BY <2>1, s[3] = "own" DEF View!Order
    <2>2. CASE k \in {"fetch", "search", "export"} BY <2>2, s[2] = "own" DEF View!Order
    <2> QED BY <2>1, <2>2
  <1> QED BY <1>1, <1>2, <1>3 DEF Ahead, Recorded

\* What was stored stays so, in the log or among what was purged.
LEMMA StoredGrows ==
    ASSUME NEW p \in DOMAIN ReadParts, ViewTyped(p), [View(p)!Next]_ReadVars
    PROVE  Stored \subseteq Stored'
  <1>1. CASE View(p)!DeleteExpired
    <2> DEFINE old == {e \in log : e.day < day - purge.days}
               Entry(e) == [id |-> e.id, age |-> day - e.day, since |-> purge.since]
    <2>1. log' = log \ old /\ gone' = gone \cup {Entry(e) : e \in old} /\ lost' = lost
      BY <1>1 DEF View!DeleteExpired
    <2>2. \A e \in log : e.id \in Stored'
      <3> SUFFICES ASSUME NEW e \in log PROVE e.id \in Stored' OBVIOUS
      <3>1. CASE e \in old
        <4>1. Entry(e) \in gone' /\ Entry(e).id = e.id BY <2>1, <3>1
        <4> QED BY <4>1 DEF Stored
      <3>2. CASE e \notin old
        <4>1. e \in log' BY <2>1, <3>2
        <4> QED BY <4>1 DEF Stored
      <3> QED BY <3>1, <3>2
    <2>3. lost \subseteq Stored' BY <2>1 DEF Stored
    <2>4. \A g \in gone : g.id \in Stored' BY <2>1 DEF Stored
    <2> QED BY <2>2, <2>3, <2>4 DEF Stored
  <1>2. ASSUME NEW r \in ReadParts[p].readers, View(p)!Record(r) PROVE Stored \subseteq Stored'
    BY <1>2 DEF View!Record, Stored
  <1>3. CASE UNCHANGED <<log, lost, gone>>
    BY <1>3 DEF Stored
  <1> QED BY <1>1, <1>2, <1>3 DEF View!Next, View!PostForm, View!SaveField, View!Open, View!ReadOrgRules,
       View!ReadOwnRules, View!Skip, View!Answer, View!SetRetention, View!ReadRetention, View!NextDay, ReadVars

LEMMA ViewFacts ==
    ASSUME NEW p \in DOMAIN ReadParts
    PROVE  /\ ReadParts[p].kinds \subseteq {"page", "fetch", "list", "search", "export"}
           /\ ReadParts[p].retentions \subseteq Int \cup {Absent}
           /\ View(p)!Unset \in Rows(ReadParts[p])
           /\ \A o : View(p)!Effective(o) \in SUBSET ReadParts[p].fields
           /\ View(p)!Idle \in QueryType(ReadParts[p]) /\ View(p)!Idle.kind = Absent
  <1>1. View(p)!Unset \in Rows(ReadParts[p]) BY DEF View!Unset, Rows
  <1>2. View(p)!Idle \in QueryType(ReadParts[p]) /\ View(p)!Idle.kind = Absent
    BY <1>1 DEF View!Idle, QueryType, View!Levels
  <1>3. \A o : View(p)!Effective(o) \in SUBSET ReadParts[p].fields BY DEF View!Effective, View!Over
  <1> QED BY <1>1, <1>2, <1>3, DisclosureAssumption DEF ReadAssumption

LEMMA InitViewTyped ==
    ASSUME NEW p \in DOMAIN ReadParts, View(p)!Init PROVE ViewTyped(p)
  BY ViewFacts DEF ViewTyped, View!Init, View!Levels

LEMMA TallyTyped ==
    ASSUME NEW p \in DOMAIN ReadParts, ViewTyped(p), NEW what \in {"reads", "forms", "retentions"}, NEW most,
           View(p)!Tally(what, most)
    PROVE  tally' \in [{"reads", "forms", "retentions"} -> Nat] /\ tally[what] \in Nat
  BY DEF View!Tally, ViewTyped

\* What the form of an administrator does to the rules, and to the requests under way.
LEMMA SaveFieldMeans ==
    ASSUME NEW p \in DOMAIN ReadParts, ViewTyped(p), NEW a \in ReadParts[p].admins, View(p)!SaveField(a)
    PROVE  /\ rule' \in [{"org", "own"} -> Rows(ReadParts[p])]
           /\ form' \in [ReadParts[p].admins -> FormType(ReadParts[p]) \cup {Absent}]
           /\ request' \in [ReadParts[p].readers -> QueryType(ReadParts[p])]
           /\ \A r \in ReadParts[p].readers :
                /\ request'[r] = [request[r] EXCEPT !.during = request'[r].during]
                /\ \A l \in {"org", "own"} : request[r].during[l] \subseteq request'[r].during[l]
                /\ request[r].kind # Absent /\ (\A l \in {"org", "own"} : rule[l] \in request[r].during[l]) =>
                     \A l \in {"org", "own"} : rule'[l] \in request'[r].during[l]
  <1>1. form[a] \in FormType(ReadParts[p]) BY DEF View!SaveField, ViewTyped
  <1> DEFINE l == form[a].level
  <1>2. PICK f \in form[a].left :
          /\ rule' = [rule EXCEPT ![l][f] = form[a].rows[f]]
          /\ form' = [form EXCEPT ![a] = IF @.left = {f} THEN Absent ELSE [@ EXCEPT !.left = form[a].left \ {f}]]
          /\ request' = [r \in ReadParts[p].readers |-> IF request[r].kind = Absent THEN request[r]
               ELSE [request[r] EXCEPT !.during[l] = @ \cup {[rule EXCEPT ![l][f] = form[a].rows[f]][l]}]]
    BY DEF View!SaveField
  <1>3. l \in {"org", "own"} /\ form[a].rows \in ReadParts[p].rules /\ f \in ReadParts[p].fields
    BY <1>1 DEF FormType
  <1> HIDE DEF l
  <1>4. rule' \in [{"org", "own"} -> Rows(ReadParts[p])]
    <2>1. form[a].rows[f] \in {rows[g] : rows \in ReadParts[p].rules, g \in ReadParts[p].fields} BY <1>3
    <2>2. [rule[l] EXCEPT ![f] = form[a].rows[f]] \in Rows(ReadParts[p])
      BY <1>3, <2>1 DEF ViewTyped, Rows
    <2>3. rule' = [rule EXCEPT ![l] = [rule[l] EXCEPT ![f] = form[a].rows[f]]] BY <1>2
    <2> QED BY <1>3, <2>2, <2>3 DEF ViewTyped
  <1>5. form' \in [ReadParts[p].admins -> FormType(ReadParts[p]) \cup {Absent}]
    <2>1. /\ form' = [b \in ReadParts[p].admins |-> form'[b]]
          /\ \A b \in ReadParts[p].admins \ {a} : form'[b] = form[b]
      BY <1>2 DEF ViewTyped
    <2>2. CASE form[a].left = {f}
      <3>1. form'[a] = Absent BY <1>2, <2>2 DEF ViewTyped
      <3> QED BY <2>1, <3>1 DEF ViewTyped
    <2>3. CASE form[a].left # {f}
      <3>1. form'[a] = [level |-> form[a].level, rows |-> form[a].rows, left |-> form[a].left \ {f}]
        BY <1>1, <1>2, <2>3 DEF ViewTyped, FormType
      <3>2. form'[a] \in FormType(ReadParts[p]) BY <1>1, <3>1 DEF FormType
      <3> QED BY <2>1, <3>2 DEF ViewTyped
    <2> QED BY <2>2, <2>3
  <1>6. \A r \in ReadParts[p].readers : request'[r] \in QueryType(ReadParts[p])
                /\ request'[r] = [request[r] EXCEPT !.during = request'[r].during]
                /\ (\A m \in {"org", "own"} : request[r].during[m] \subseteq request'[r].during[m])
                /\ (request[r].kind # Absent /\ (\A m \in {"org", "own"} : rule[m] \in request[r].during[m]) =>
                     \A m \in {"org", "own"} : rule'[m] \in request'[r].during[m])
    <2> SUFFICES ASSUME NEW r \in ReadParts[p].readers
                 PROVE  /\ request'[r] \in QueryType(ReadParts[p])
                        /\ request'[r] = [request[r] EXCEPT !.during = request'[r].during]
                        /\ \A m \in {"org", "own"} : request[r].during[m] \subseteq request'[r].during[m]
                        /\ request[r].kind # Absent /\ (\A m \in {"org", "own"} : rule[m] \in request[r].during[m]) =>
                             \A m \in {"org", "own"} : rule'[m] \in request'[r].during[m]
      OBVIOUS
    <2>1. request[r] \in QueryType(ReadParts[p]) BY DEF ViewTyped
    <2>2. CASE request[r].kind = Absent
      <3>1. request'[r] = request[r] BY <1>2, <2>2
      <3> QED BY <2>1, <2>2, <3>1 DEF QueryType
    <2>3. CASE request[r].kind # Absent
      <3>1. request'[r] = [request[r] EXCEPT !.during = [request[r].during EXCEPT ![l] = @ \cup {rule'[l]}]]
        BY <1>2, <2>3
      <3>2. [request[r].during EXCEPT ![l] = @ \cup {rule'[l]}] \in [{"org", "own"} -> SUBSET Rows(ReadParts[p])]
        BY <1>3, <1>4, <2>1 DEF QueryType
      <3>3. /\ request'[r] \in QueryType(ReadParts[p])
            /\ request'[r].during = [request[r].during EXCEPT ![l] = @ \cup {rule'[l]}]
            /\ request'[r] = [request[r] EXCEPT !.during = request'[r].during]
        BY <2>1, <3>1, <3>2 DEF QueryType
      <3>4. \A m \in {"org", "own"} : request[r].during[m] \subseteq request'[r].during[m]
        BY <1>3, <2>1, <3>3 DEF QueryType
      <3>5. rule'[l] \in request'[r].during[l] BY <1>3, <2>1, <3>3 DEF QueryType
      <3>6. \A m \in {"org", "own"} \ {l} : rule'[m] = rule[m] BY <1>2, <1>3 DEF ViewTyped
      <3> QED BY <3>3, <3>4, <3>5, <3>6
    <2> QED BY <2>2, <2>3
  <1> QED BY <1>2, <1>4, <1>5, <1>6

\* A statement of a request, which may read the rules.
Moves(p, r, what) ==
    /\ request[r].left # <<>> /\ Head(request[r].left) = what
    /\ \E q \in QueryType(ReadParts[p]) :
         /\ request' = [request EXCEPT ![r] = q]
         /\ q.left = Tail(request[r].left) /\ q.kind = request[r].kind
         /\ q.id = request[r].id /\ q.during = request[r].during
         /\ q.org = IF what = "org" THEN View(p)!Effective(rule["org"]) ELSE request[r].org
         /\ q.own = IF what = "own" THEN rule["own"] ELSE request[r].own

LEMMA StatementsMove ==
    ASSUME NEW p \in DOMAIN ReadParts, ViewTyped(p), NEW r \in ReadParts[p].readers
    PROVE  /\ View(p)!ReadOrgRules(r) => Moves(p, r, "org")
           /\ View(p)!ReadOwnRules(r) => Moves(p, r, "own")
           /\ View(p)!Skip(r) => Moves(p, r, "sample")
           /\ View(p)!Record(r) => Moves(p, r, "record") \/ Moves(p, r, "sample")
  <1> DEFINE q == request[r]
             Stepped(o, w) == [[q EXCEPT !.left = Tail(@)] EXCEPT !.org = o, !.own = w]
  <1>1. q \in QueryType(ReadParts[p]) BY DEF ViewTyped
  <1>2. ASSUME q.left # <<>>, NEW o \in SUBSET ReadParts[p].fields, NEW w \in Rows(ReadParts[p])
        PROVE  /\ Stepped(o, w) \in QueryType(ReadParts[p])
               /\ Stepped(o, w).left = Tail(q.left) /\ Stepped(o, w).kind = q.kind
               /\ Stepped(o, w).id = q.id /\ Stepped(o, w).during = q.during
               /\ Stepped(o, w).org = o /\ Stepped(o, w).own = w
    <2>1. Tail(q.left) \in Seq(Statements) BY <1>1, <1>2 DEF QueryType
    <2> QED BY <1>1, <1>2, <2>1 DEF QueryType
  <1>3. q.org \in SUBSET ReadParts[p].fields /\ q.own \in Rows(ReadParts[p]) /\ rule["own"] \in Rows(ReadParts[p])
    BY <1>1 DEF QueryType, ViewTyped
  <1>4. Stepped(q.org, q.own) = [q EXCEPT !.left = Tail(@)] BY <1>1 DEF QueryType
  <1>5. \A o : Stepped(o, q.own) = [[q EXCEPT !.left = Tail(@)] EXCEPT !.org = o] BY <1>1 DEF QueryType
  <1>6. \A w : Stepped(q.org, w) = [[q EXCEPT !.left = Tail(@)] EXCEPT !.own = w] BY <1>1 DEF QueryType
  <1> HIDE DEF Stepped
  <1>7. View(p)!ReadOrgRules(r) => Moves(p, r, "org")
    <2> DEFINE o == View(p)!Effective(rule["org"])
    <2> SUFFICES ASSUME View(p)!ReadOrgRules(r) PROVE Moves(p, r, "org") OBVIOUS
    <2>1. q.left # <<>> /\ Head(q.left) = "org" /\ request' = [request EXCEPT ![r] = Stepped(o, q.own)]
      BY <1>5 DEF View!ReadOrgRules, View!Turn, View!Taken
    <2>2. o \in SUBSET ReadParts[p].fields BY ViewFacts
    <2>3. /\ Stepped(o, q.own) \in QueryType(ReadParts[p])
          /\ Stepped(o, q.own).left = Tail(q.left) /\ Stepped(o, q.own).kind = q.kind
          /\ Stepped(o, q.own).id = q.id /\ Stepped(o, q.own).during = q.during
          /\ Stepped(o, q.own).org = o /\ Stepped(o, q.own).own = q.own
      BY <1>2, <1>3, <2>1, <2>2
    <2> QED BY <2>1, <2>3 DEF Moves
  <1>8. View(p)!ReadOwnRules(r) => Moves(p, r, "own")
    <2> SUFFICES ASSUME View(p)!ReadOwnRules(r) PROVE Moves(p, r, "own") OBVIOUS
    <2>1. q.left # <<>> /\ Head(q.left) = "own" /\ request' = [request EXCEPT ![r] = Stepped(q.org, rule["own"])]
      BY <1>6 DEF View!ReadOwnRules, View!Turn, View!Taken
    <2>2. /\ Stepped(q.org, rule["own"]) \in QueryType(ReadParts[p])
          /\ Stepped(q.org, rule["own"]).left = Tail(q.left) /\ Stepped(q.org, rule["own"]).kind = q.kind
          /\ Stepped(q.org, rule["own"]).id = q.id /\ Stepped(q.org, rule["own"]).during = q.during
          /\ Stepped(q.org, rule["own"]).org = q.org /\ Stepped(q.org, rule["own"]).own = rule["own"]
      BY <1>2, <1>3, <2>1
    <2> QED BY <2>1, <2>2 DEF Moves
  <1>9. ASSUME NEW what \in {"record", "sample"}, View(p)!Turn(r, what), request' = [request EXCEPT ![r] = View(p)!Taken(r)]
        PROVE  Moves(p, r, what)
    <2>1. q.left # <<>> /\ Head(q.left) = what /\ request' = [request EXCEPT ![r] = Stepped(q.org, q.own)]
      BY <1>4, <1>9 DEF View!Turn, View!Taken
    <2>2. /\ Stepped(q.org, q.own) \in QueryType(ReadParts[p])
          /\ Stepped(q.org, q.own).left = Tail(q.left) /\ Stepped(q.org, q.own).kind = q.kind
          /\ Stepped(q.org, q.own).id = q.id /\ Stepped(q.org, q.own).during = q.during
          /\ Stepped(q.org, q.own).org = q.org /\ Stepped(q.org, q.own).own = q.own
      BY <1>2, <1>3, <2>1
    <2> QED BY <2>1, <2>2 DEF Moves
  <1>10. View(p)!Skip(r) => Moves(p, r, "sample") BY <1>9 DEF View!Skip
  <1>11. View(p)!Record(r) => Moves(p, r, "record") \/ Moves(p, r, "sample") BY <1>9 DEF View!Record
  <1> QED BY <1>7, <1>8, <1>10, <1>11

LEMMA NextViewTyped ==
    ASSUME NEW p \in DOMAIN ReadParts, ViewTyped(p), [View(p)!Next]_ReadVars PROVE ViewTyped(p)'
  <1>1. ASSUME NEW a \in ReadParts[p].admins, View(p)!PostForm(a) PROVE ViewTyped(p)'
    <2>1. tally' \in [{"reads", "forms", "retentions"} -> Nat] BY <1>1, TallyTyped DEF View!PostForm
    <2>2. form' \in [ReadParts[p].admins -> FormType(ReadParts[p]) \cup {Absent}]
      BY <1>1 DEF View!PostForm, View!Levels, ViewTyped, FormType
    <2> QED BY <1>1, <2>1, <2>2 DEF ViewTyped, View!PostForm
  <1>2. ASSUME NEW a \in ReadParts[p].admins, View(p)!SaveField(a) PROVE ViewTyped(p)'
    BY <1>2, SaveFieldMeans DEF ViewTyped, View!SaveField
  <1>3. ASSUME NEW r \in ReadParts[p].readers, View(p)!Open(r) PROVE ViewTyped(p)'
    <2>1. tally' \in [{"reads", "forms", "retentions"} -> Nat] /\ tally["reads"] \in Nat
      BY <1>3, TallyTyped DEF View!Open
    <2>2. PICK k \in ReadParts[p].kinds :
            request' = [request EXCEPT ![r] = [View(p)!Idle EXCEPT !.kind = k, !.left = View(p)!Order[k],
                          !.id = tally["reads"], !.during = [l \in View(p)!Levels |-> {rule[l]}]]]
      BY <1>3 DEF View!Open
    <2>3. [l \in View(p)!Levels |-> {rule[l]}] \in [{"org", "own"} -> SUBSET Rows(ReadParts[p])]
      BY DEF View!Levels, ViewTyped
    <2>4. View(p)!Order[k] \in Seq(Statements)
      <3>1. [left |-> View(p)!Order[k]].left \in Seq(Statements) BY ViewFacts, OrderAsks
      <3> QED BY <3>1
    <2> DEFINE n == [View(p)!Idle EXCEPT !.kind = k, !.left = View(p)!Order[k],
                       !.id = tally["reads"], !.during = [l \in View(p)!Levels |-> {rule[l]}]]
    <2>5. n \in QueryType(ReadParts[p])
      <3>1. k \in ReadParts[p].kinds \cup {Absent} OBVIOUS
      <3> QED BY <2>1, <2>3, <2>4, <3>1, ViewFacts DEF QueryType
    <2>6. request' = [request EXCEPT ![r] = n] BY <2>2
    <2> HIDE DEF n
    <2>7. request' \in [ReadParts[p].readers -> QueryType(ReadParts[p])] BY <2>5, <2>6 DEF ViewTyped
    <2> QED BY <1>3, <2>1, <2>7 DEF ViewTyped, View!Open
  <1>4. ASSUME NEW r \in ReadParts[p].readers, NEW what, Moves(p, r, what)
        PROVE  request' \in [ReadParts[p].readers -> QueryType(ReadParts[p])]
    BY <1>4 DEF Moves, ViewTyped
  <1>5. ASSUME NEW r \in ReadParts[p].readers,
               View(p)!ReadOrgRules(r) \/ View(p)!ReadOwnRules(r) \/ View(p)!Skip(r)
        PROVE  ViewTyped(p)'
    <2>1. request' \in [ReadParts[p].readers -> QueryType(ReadParts[p])] BY <1>4, <1>5, StatementsMove
    <2> QED BY <1>5, <2>1 DEF ViewTyped, View!ReadOrgRules, View!ReadOwnRules, View!Skip
  <1>6. ASSUME NEW r \in ReadParts[p].readers, View(p)!Record(r) PROVE ViewTyped(p)'
    <2>1. request' \in [ReadParts[p].readers -> QueryType(ReadParts[p])] BY <1>4, <1>6, StatementsMove
    <2>2. request[r].id \in Nat BY DEF ViewTyped, QueryType
    <2>3. log' \subseteq [id : Nat, day : Nat] BY <1>6, <2>2 DEF ViewTyped, View!Record
    <2> QED BY <1>6, <2>1, <2>3 DEF ViewTyped, View!Record
  <1>7. ASSUME NEW r \in ReadParts[p].readers, View(p)!Answer(r) PROVE ViewTyped(p)'
    <2>1. request' = [request EXCEPT ![r] = View(p)!Idle] BY <1>7 DEF View!Answer
    <2>2. request' \in [ReadParts[p].readers -> QueryType(ReadParts[p])] BY <2>1, ViewFacts DEF ViewTyped
    <2> QED BY <1>7, <2>2 DEF ViewTyped, View!Answer
  <1>8. CASE View(p)!SetRetention
    <2>1. tally' \in [{"reads", "forms", "retentions"} -> Nat] BY <1>8, TallyTyped DEF View!SetRetention
    <2>2. retention' \in Int \cup {Absent} BY <1>8, ViewFacts DEF View!SetRetention
    <2>3. purge' \in PurgeType \cup {Absent} BY <1>8, <2>2 DEF View!SetRetention, ViewTyped, PurgeType
    <2> QED BY <1>8, <2>1, <2>2, <2>3 DEF ViewTyped, View!SetRetention
  <1>9. CASE View(p)!ReadRetention
    BY <1>9 DEF ViewTyped, View!ReadRetention, PurgeType
  <1>10. CASE View(p)!DeleteExpired
    BY <1>10 DEF ViewTyped, View!DeleteExpired
  <1>11. CASE View(p)!NextDay
    BY <1>11 DEF ViewTyped, View!NextDay
  <1>12. CASE UNCHANGED ReadVars
    BY <1>12 DEF ViewTyped, ReadVars
  <1> QED BY <1>1, <1>2, <1>3, <1>5, <1>6, <1>7, <1>8, <1>9, <1>10, <1>11, <1>12 DEF View!Next

LEMMA NextQueriesFit ==
    ASSUME NEW p \in DOMAIN ReadParts, ViewTyped(p), QueriesFit(p), [View(p)!Next]_ReadVars PROVE QueriesFit(p)'
  <1> USE DEF QueriesFit
  <1>1. Stored \subseteq Stored' BY StoredGrows
  <1>2. ASSUME NEW q, NEW rules, QueryFits(p, q, rules, Stored) PROVE QueryFits(p, q, rules, Stored')
    BY <1>1, <1>2 DEF QueryFits
  <1>3. CASE UNCHANGED <<request, rule>>
    BY <1>2, <1>3
  <1>4. ASSUME NEW a \in ReadParts[p].admins, View(p)!SaveField(a) PROVE QueriesFit(p)'
    <2> SUFFICES ASSUME NEW r \in ReadParts[p].readers PROVE QueryFits(p, request'[r], rule', Stored')
      OBVIOUS
    <2> DEFINE q == request[r]
               n == request'[r]
    <2>1. /\ n = [q EXCEPT !.during = n.during]
          /\ \A l \in {"org", "own"} : q.during[l] \subseteq n.during[l]
          /\ q.kind # Absent /\ (\A l \in {"org", "own"} : rule[l] \in q.during[l]) =>
               \A l \in {"org", "own"} : rule'[l] \in n.during[l]
      BY <1>4, SaveFieldMeans
    <2>2. q \in QueryType(ReadParts[p]) BY DEF ViewTyped
    <2>3. n.kind = q.kind /\ n.left = q.left /\ n.id = q.id /\ n.org = q.org /\ n.own = q.own
      BY <2>1, <2>2 DEF QueryType
    <2>4. QueryFits(p, q, rule, Stored') BY <1>2
    <2> HIDE DEF q, n
    <2>5. \A x : Ahead(q, x) => Ahead(n, x) BY <2>3 DEF Ahead
    <2>6. ASSUME q.kind # Absent PROVE \A l \in {"org", "own"} : rule'[l] \in n.during[l]
      BY <2>1, <2>4, <2>6 DEF QueryFits
    <2>7. q.during["org"] \subseteq n.during["org"] /\ q.during["own"] \subseteq n.during["own"] BY <2>1
    <2>8. QueryFits(p, n, rule', Stored') BY <2>3, <2>4, <2>5, <2>6, <2>7 DEF QueryFits
    <2> QED BY <2>8 DEF n
  <1>5. ASSUME NEW r \in ReadParts[p].readers, View(p)!Open(r) PROVE QueriesFit(p)'
    <2>1. PICK k \in ReadParts[p].kinds :
            request' = [request EXCEPT ![r] = [View(p)!Idle EXCEPT !.kind = k, !.left = View(p)!Order[k],
                          !.id = tally["reads"], !.during = [l \in View(p)!Levels |-> {rule[l]}]]]
      BY <1>5 DEF View!Open
    <2> DEFINE n == request'[r]
    <2>2. DOMAIN request = ReadParts[p].readers BY DEF ViewTyped
    <2>3. n.kind = k /\ n.left = View(p)!Order[k] /\ n.during = [l \in {"org", "own"} |-> {rule[l]}]
      BY <2>1, <2>2 DEF View!Idle, View!Levels
    <2> HIDE DEF n
    <2>4. Ahead(n, "org") /\ Ahead(n, "own") /\ (Ahead(n, "record") \/ ~Recorded(p, k))
      BY <2>3, ViewFacts, OrderAsks
    <2>5. QueryFits(p, n, rule, Stored') BY <2>3, <2>4 DEF QueryFits
    <2>6. \A x \in ReadParts[p].readers \ {r} : request'[x] = request[x] BY <2>1, <2>2
    <2>7. rule' = rule BY <1>5 DEF View!Open
    <2> QED BY <1>2, <2>5, <2>6, <2>7 DEF n
  <1>6. ASSUME NEW r \in ReadParts[p].readers, NEW what, Moves(p, r, what), rule' = rule,
               what = "record" => request[r].id \in Stored'
        PROVE  QueriesFit(p)'
    <2> DEFINE q == request[r]
    <2>1. PICK n \in QueryType(ReadParts[p]) :
             /\ request' = [request EXCEPT ![r] = n]
             /\ n.left = Tail(q.left) /\ n.kind = q.kind /\ n.id = q.id /\ n.during = q.during
             /\ n.org = IF what = "org" THEN View(p)!Effective(rule["org"]) ELSE q.org
             /\ n.own = IF what = "own" THEN rule["own"] ELSE q.own
      BY <1>6 DEF Moves
    <2>2. q \in QueryType(ReadParts[p]) /\ DOMAIN request = ReadParts[p].readers BY DEF ViewTyped
    <2>3. q.left \in Seq(Statements) /\ q.left # <<>> /\ Head(q.left) = what BY <1>6, <2>2 DEF QueryType, Moves
    <2>4. QueryFits(p, q, rule, Stored') BY <1>2
    <2> HIDE DEF q
    <2>5. \A x : Ahead(q, x) /\ x # what => Ahead(n, x) BY <2>1, <2>3, RestIsAhead
    <2>6. what = "record" => n.id \in Stored' BY <1>6, <2>1 DEF q
    <2>7. QueryFits(p, n, rule, Stored') BY <2>1, <2>4, <2>5, <2>6 DEF QueryFits
    <2>8. request'[r] = n /\ \A x \in ReadParts[p].readers \ {r} : request'[x] = request[x] BY <2>1, <2>2
    <2> QED BY <1>2, <1>6, <2>7, <2>8
  <1>7. ASSUME NEW r \in ReadParts[p].readers, View(p)!Answer(r) PROVE QueriesFit(p)'
    <2>1. request' = [request EXCEPT ![r] = View(p)!Idle] /\ rule' = rule BY <1>7 DEF View!Answer
    <2>2. DOMAIN request = ReadParts[p].readers BY DEF ViewTyped
    <2>3. request'[r].kind = Absent BY <2>1, <2>2 DEF View!Idle
    <2>4. \A x \in ReadParts[p].readers \ {r} : request'[x] = request[x] BY <2>1, <2>2
    <2>5. QueryFits(p, request'[r], rule', Stored') BY <2>3 DEF QueryFits
    <2> QED BY <1>2, <2>1, <2>4, <2>5
  <1>8. ASSUME NEW r \in ReadParts[p].readers, View(p)!Record(r) PROVE QueriesFit(p)'
    <2>1. request[r].id \in Stored' /\ rule' = rule
      <3>1. CASE log' = log \cup {[id |-> request[r].id, day |-> day]}
        <4>1. [id |-> request[r].id, day |-> day] \in log' BY <3>1
        <4> QED BY <1>8, <4>1 DEF Stored, View!Record
      <3>2. CASE lost' = lost \cup {request[r].id} BY <1>8, <3>2 DEF Stored, View!Record
      <3> QED BY <1>8, <3>1, <3>2 DEF View!Record
    <2> QED BY <1>6, <1>8, <2>1, StatementsMove
  <1>9. ASSUME NEW r \in ReadParts[p].readers, View(p)!ReadOrgRules(r) \/ View(p)!ReadOwnRules(r) \/ View(p)!Skip(r)
        PROVE  QueriesFit(p)'
    <2>1. rule' = rule BY <1>9 DEF View!ReadOrgRules, View!ReadOwnRules, View!Skip
    <2>2. \E what \in {"org", "own", "sample"} : Moves(p, r, what) BY <1>9, StatementsMove
    <2> QED BY <1>6, <2>1, <2>2
  <1> QED BY <1>3, <1>4, <1>5, <1>7, <1>8, <1>9 DEF View!Next, View!PostForm, View!SetRetention,
       View!ReadRetention, View!DeleteExpired, View!NextDay, ReadVars

LEMMA NextPurgeOK ==
    ASSUME NEW p \in DOMAIN ReadParts, ViewTyped(p), PurgeOK, [View(p)!Next]_ReadVars PROVE PurgeOK'
  <1>1. CASE View(p)!SetRetention
    <2>1. CASE purge = Absent BY <1>1, <2>1 DEF View!SetRetention, PurgeOK
    <2>2. CASE purge # Absent
      <3>1. purge \in PurgeType BY <2>2 DEF ViewTyped
      <3>2. purge' = [purge EXCEPT !.since = @ \cup {retention'}] BY <1>1, <2>2 DEF View!SetRetention
      <3>3. purge'.days = purge.days /\ purge'.since = purge.since \cup {retention'} BY <3>1, <3>2 DEF PurgeType
      <3> QED BY <2>2, <3>3 DEF PurgeOK
    <2> QED BY <2>1, <2>2
  <1>2. CASE View(p)!ReadRetention BY <1>2 DEF View!ReadRetention, PurgeOK
  <1>3. CASE View(p)!DeleteExpired BY <1>3 DEF View!DeleteExpired, PurgeOK
  <1>4. CASE UNCHANGED purge BY <1>4 DEF PurgeOK
  <1> QED BY <1>1, <1>2, <1>3, <1>4 DEF View!Next, View!PostForm, View!SaveField, View!Open, View!ReadOrgRules,
       View!ReadOwnRules, View!Record, View!Skip, View!Answer, View!NextDay, ReadVars

\* A response has been through all of its statements.
LEMMA AnswerKnows ==
    ASSUME NEW p \in DOMAIN ReadParts, ViewTyped(p), QueriesFit(p), NEW r \in ReadParts[p].readers, View(p)!Answer(r)
    PROVE  /\ request[r] \in QueryType(ReadParts[p])
           /\ \E o \in request[r].during["org"] : request[r].org = View(p)!Effective(o)
           /\ request[r].own \in request[r].during["own"]
           /\ Recorded(p, request[r].kind) => request[r].id \in Stored
  <1> DEFINE q == request[r]
  <1>1. q.kind # Absent /\ q.left = <<>> BY DEF View!Answer
  <1>2. q \in QueryType(ReadParts[p]) BY DEF ViewTyped
  <1>3. QueryFits(p, q, rule, Stored) BY DEF QueriesFit
  <1>4. \A x : ~Ahead(q, x) BY <1>1 DEF Ahead
  <1> HIDE DEF q
  <1>5. /\ \E o \in q.during["org"] : q.org = View(p)!Effective(o)
        /\ q.own \in q.during["own"]
        /\ Recorded(p, q.kind) => q.id \in Stored
    BY <1>1, <1>3, <1>4 DEF QueryFits
  <1> QED BY <1>2, <1>5 DEF q

LEMMA NextMasked ==
    ASSUME NEW p \in DOMAIN ReadParts, ViewTyped(p), QueriesFit(p), View(p)!Masked, [View(p)!Next]_ReadVars
    PROVE  View(p)!Masked'
  <1>1. ASSUME NEW r \in ReadParts[p].readers, View(p)!Answer(r) PROVE View(p)!Masked'
    <2> DEFINE q == request[r]
               page == ReadParts[p].fields \ View(p)!Over(q.org, q.own)
               v == [id |-> q.id, kind |-> q.kind, during |-> q.during,
                     clear |-> IF q.kind = "list" THEN page \ (q.org \cup ReadParts[p].sensitive) ELSE page]
               clear == {ReadParts[p].fields \ View(p)!Over(View(p)!Effective(org), w) :
                            org \in v.during["org"], w \in v.during["own"]}
               columns == {View(p)!Columns(org) : org \in v.during["org"]}
    <2>1. views' = views \cup {v} BY <1>1 DEF View!Answer
    <2>2. PICK o \in q.during["org"] : q.org = View(p)!Effective(o) BY <1>1, AnswerKnows
    <2>3. q.own \in q.during["own"] BY <1>1, AnswerKnows
    <2>4. page \in clear BY <2>2, <2>3
    <2>5. View(p)!Columns(o) \in columns BY <2>2
    <2>6. View(p)!Columns(o) = ReadParts[p].fields \ (ReadParts[p].sensitive \cup q.org) BY <2>2 DEF View!Columns
    <2>7. v.clear = IF v.kind = "list" THEN page \cap View(p)!Columns(o) ELSE page BY <2>6
    <2> HIDE DEF q, page, v, clear, columns
    <2>8. /\ v.clear \subseteq UNION clear
          /\ v.kind # "list" => \A f \in ReadParts[p].fields \ v.clear : \E c \in clear : f \notin c
          /\ v.kind = "list" => \A f \in ReadParts[p].fields \ v.clear : \E c \in clear \cup columns : f \notin c
      BY <2>4, <2>5, <2>7
    <2> QED BY <2>1, <2>8 DEF View!Masked, clear, columns
  <1>2. CASE UNCHANGED views BY <1>2 DEF View!Masked
  <1> QED BY <1>1, <1>2 DEF View!Next, View!PostForm, View!SaveField, View!Open, View!ReadOrgRules,
       View!ReadOwnRules, View!Record, View!Skip, View!SetRetention, View!ReadRetention, View!DeleteExpired,
       View!NextDay, ReadVars

LEMMA NextLogged ==
    ASSUME NEW p \in DOMAIN ReadParts, ViewTyped(p), QueriesFit(p), View(p)!Logged, [View(p)!Next]_ReadVars
    PROVE  View(p)!Logged'
  <1>1. \A v \in views : Recorded(p, v.kind) => v.id \in Stored BY DEF View!Logged, Stored, Recorded
  <1>2. Stored \subseteq Stored' BY StoredGrows
  <1>3. \A v \in views' \ views : Recorded(p, v.kind) => v.id \in Stored
    <2>1. ASSUME NEW r \in ReadParts[p].readers, View(p)!Answer(r), NEW v \in views' \ views
          PROVE  Recorded(p, v.kind) => v.id \in Stored
      <3>1. v.kind = request[r].kind /\ v.id = request[r].id BY <2>1 DEF View!Answer
      <3> QED BY <2>1, <3>1, AnswerKnows
    <2>2. CASE UNCHANGED views BY <2>2
    <2> QED BY <2>1, <2>2 DEF View!Next, View!PostForm, View!SaveField, View!Open, View!ReadOrgRules,
         View!ReadOwnRules, View!Record, View!Skip, View!SetRetention, View!ReadRetention, View!DeleteExpired,
         View!NextDay, ReadVars
  <1>4. \A v \in views' : Recorded(p, v.kind) => v.id \in Stored' BY <1>1, <1>2, <1>3
  <1> QED BY <1>4 DEF View!Logged, Stored, Recorded

LEMMA NextRetained ==
    ASSUME NEW p \in DOMAIN ReadParts, ViewTyped(p), PurgeOK, View(p)!Retained, [View(p)!Next]_ReadVars
    PROVE  View(p)!Retained'
  <1>1. CASE View(p)!DeleteExpired
    <2> DEFINE old == {e \in log : e.day < day - purge.days}
               Entry(e) == [id |-> e.id, age |-> day - e.day, since |-> purge.since]
    <2>1. gone' = gone \cup {Entry(e) : e \in old} /\ purge # Absent BY <1>1 DEF View!DeleteExpired
    <2>2. purge.days \in purge.since /\ purge.days # Absent /\ purge.days \in Int
      BY <2>1 DEF PurgeOK, ViewTyped, PurgeType
    <2>3. \A e \in old : Entry(e).age > purge.days
      <3> SUFFICES ASSUME NEW e \in old PROVE day - e.day > purge.days OBVIOUS
      <3>1. e.day \in Nat /\ day \in Nat BY DEF ViewTyped
      <3> QED BY <2>2, <3>1
    <2>4. \A e \in old : Entry(e).since = purge.since OBVIOUS
    <2> HIDE DEF old, Entry
    <2> QED BY <2>1, <2>2, <2>3, <2>4 DEF View!Retained
  <1>2. CASE UNCHANGED gone BY <1>2 DEF View!Retained
  <1> QED BY <1>1, <1>2 DEF View!Next, View!PostForm, View!SaveField, View!Open, View!ReadOrgRules,
       View!ReadOwnRules, View!Record, View!Skip, View!Answer, View!SetRetention, View!ReadRetention,
       View!NextDay, ReadVars

LEMMA InitViewInv ==
    ASSUME NEW p \in DOMAIN ReadParts, View(p)!Init PROVE ViewInv(p)
  <1>1. ViewTyped(p) BY InitViewTyped
  <1>2. \A r \in ReadParts[p].readers : request[r].kind = Absent BY ViewFacts DEF View!Init
  <1>3. QueriesFit(p) BY <1>2 DEF QueriesFit, QueryFits
  <1>4. PurgeOK BY DEF View!Init, PurgeOK
  <1>5. View(p)!Masked /\ View(p)!Logged /\ View(p)!Retained
    BY DEF View!Init, View!Masked, View!Logged, View!Retained
  <1> QED BY <1>1, <1>3, <1>4, <1>5 DEF ViewInv

LEMMA NextViewInv ==
    ASSUME NEW p \in DOMAIN ReadParts, ViewInv(p), [View(p)!Next]_ReadVars PROVE ViewInv(p)'
  BY NextViewTyped, NextQueriesFit, NextPurgeOK, NextMasked, NextLogged, NextRetained DEF ViewInv

-----------------------------------------------------------------------------
(* Answers *)

Wording(c) == c.texts \cup {""}
EntryOf(c) == c.entries \cup {Absent}
FilledType(c) == [entry : EntryOf(c), text : Wording(c), status : {"reviewed", "filled", "unanswered"}]
PageType(c) == [of : c.responses, row : FilledType(c)]
PostedType(c) == [entry : EntryOf(c), text : Wording(c), reviewed : BOOLEAN]
ReadType(c) == [row : FilledType(c), text : Wording(c), own : BOOLEAN]
EditorType(c) == [phase : {"none", "open", "write"}, page : PageType(c) \cup {Absent},
                  posted : PostedType(c) \cup {Absent}, read : ReadType(c) \cup {Absent},
                  fill : Wording(c) \cup {Absent}]

ReplyTyped(p) ==
    /\ library \in [AnswerParts[p].entries -> AnswerParts[p].texts \cup {Absent}]
    /\ response \in [AnswerParts[p].responses -> FilledType(AnswerParts[p])]
    /\ editor \in [AnswerParts[p].editors -> EditorType(AnswerParts[p])]
    /\ \A e \in AnswerParts[p].editors :
         /\ editor[e].phase # "none" => editor[e].page \in PageType(AnswerParts[p])
         /\ editor[e].phase = "write" => /\ editor[e].posted \in PostedType(AnswerParts[p])
                                         /\ editor[e].read \in ReadType(AnswerParts[p])
                                         /\ editor[e].fill \in Wording(AnswerParts[p])

\* What is mapped is mapped to an entry that is there.
Mapped(p) == \A r \in AnswerParts[p].responses :
    response[r].entry # Absent => library[response[r].entry] # Absent

\* What a form that maps a response fills in: what it posts where the entry stays,
\* and the text that it read where another entry comes, or no text was posted.
Filled(p) == \A e \in AnswerParts[p].editors :
    LET f == editor[e] IN
    f.phase = "write" /\ f.posted.entry # Absent =>
        /\ f.posted.text = "" => f.fill = f.read.text
        /\ f.posted.text # "" /\ f.read.row.entry = f.posted.entry => f.fill = f.posted.text
        /\ /\ f.read.row.entry # f.posted.entry /\ f.read.row.entry # Absent
           /\ ~f.read.own /\ f.posted.text = f.read.row.text
           => f.fill = f.read.text

ReplyInv(p) == ReplyTyped(p) /\ Mapped(p) /\ Filled(p) /\ Reply(p)!Attested

LEMMA InitReplyInv ==
    ASSUME NEW p \in DOMAIN AnswerParts, Reply(p)!Init PROVE ReplyInv(p)
  <1> DEFINE c == AnswerParts[p]
  <1>1. /\ library \in [c.entries -> c.texts \ {""}]
        /\ response = [r \in c.responses |-> Reply(p)!Blank] /\ editor = [e \in c.editors |-> Reply(p)!NoForm]
    BY DEF Reply!Init
  <1>2. Reply(p)!Blank \in FilledType(c) /\ Reply(p)!Blank.entry = Absent
    BY DEF Reply!Blank, FilledType, EntryOf, Wording
  <1>3. Reply(p)!NoForm \in EditorType(c) /\ Reply(p)!NoForm.phase = "none"
    BY DEF Reply!NoForm, EditorType
  <1> HIDE DEF c
  <1>4. \A e \in c.editors : editor[e].phase = "none" BY <1>1, <1>3
  <1>5. \A r \in c.responses : response[r].entry = Absent BY <1>1, <1>2
  <1>6. ReplyTyped(p) BY <1>1, <1>2, <1>3, <1>4 DEF ReplyTyped, c
  <1>7. Mapped(p) /\ Reply(p)!Attested BY <1>5 DEF Mapped, Reply!Attested, c
  <1>8. Filled(p) BY <1>4 DEF Filled, c
  <1> QED BY <1>6, <1>7, <1>8 DEF ReplyInv

LEMMA CanonicalWording ==
    ASSUME NEW p \in DOMAIN AnswerParts, ReplyTyped(p), NEW a \in EntryOf(AnswerParts[p])
    PROVE  /\ Reply(p)!Canonical(a) \in Wording(AnswerParts[p])
           /\ a # Absent /\ library[a] # Absent => Reply(p)!Canonical(a) = library[a]
  BY DEF Reply!Canonical, ReplyTyped, EntryOf, Wording

\* What a form that is posted leaves for its row.
LEMMA PostFormMeans ==
    ASSUME NEW p \in DOMAIN AnswerParts, ReplyInv(p), NEW e \in AnswerParts[p].editors, Reply(p)!PostForm(e)
    PROVE  /\ ReplyTyped(p)' /\ Filled(p)'
           /\ UNCHANGED <<library, response, own>>
  <1> DEFINE c == AnswerParts[p]
             page == editor[e].page
             now == response[page.of]
  <1>1. ReplyTyped(p) /\ editor[e] \in EditorType(c) /\ page \in PageType(c)
    BY DEF Reply!PostForm, ReplyInv, ReplyTyped
  <1>2. page.of \in c.responses /\ now \in FilledType(c) /\ page.row \in FilledType(c)
    BY <1>1 DEF ReplyTyped, PageType
  <1>3. PICK entry \in EntryOf(c), text \in c.texts \cup {page.row.text}, reviewed \in BOOLEAN :
          /\ entry # Absent => library[entry] # Absent
          /\ editor' = [editor EXCEPT ![e] = [@ EXCEPT !.phase = "write",
                 !.posted = [entry |-> entry, text |-> text, reviewed |-> reviewed],
                 !.read = [row |-> now, text |-> Reply(p)!Canonical(entry), own |-> page.of \in own],
                 !.fill = Reply(p)!Fill(now, [entry |-> entry, text |-> text, reviewed |-> reviewed])]]
    BY DEF Reply!PostForm, EntryOf
  <1> DEFINE posted == [entry |-> entry, text |-> text, reviewed |-> reviewed]
             fill == Reply(p)!Fill(now, posted)
             read == [row |-> now, text |-> Reply(p)!Canonical(entry), own |-> page.of \in own]
             f == [editor[e] EXCEPT !.phase = "write", !.posted = posted, !.read = read, !.fill = fill]
  <1>4. text \in Wording(c) BY <1>2 DEF Wording, FilledType
  <1>5. Reply(p)!Canonical(entry) \in Wording(c) BY <1>1, CanonicalWording
  <1>6. fill \in Wording(c) /\ fill = IF entry # Absent /\ (text = "" \/ (now.entry # entry /\
                     now.text \in {"", Reply(p)!Canonical(now.entry)} /\ text = now.text))
               THEN Reply(p)!Canonical(entry) ELSE text
    BY <1>4, <1>5 DEF Reply!Fill
  <1>7. posted \in PostedType(c) /\ read \in ReadType(c)
    BY <1>2, <1>4, <1>5 DEF PostedType, ReadType
  <1>8. ASSUME entry # Absent
        PROVE  /\ text = "" => fill = read.text
               /\ text # "" /\ now.entry = entry => fill = text
               /\ now.entry # entry /\ now.entry # Absent /\ ~read.own /\ text = now.text => fill = read.text
    <2>1. ASSUME now.entry # Absent, page.of \notin own PROVE now.text = Reply(p)!Canonical(now.entry)
      <3>1. library[now.entry] # Absent /\ now.text = library[now.entry]
        BY <1>2, <2>1 DEF ReplyInv, Mapped, Reply!Attested
      <3>2. now.entry \in EntryOf(c) BY <1>2 DEF FilledType
      <3> QED BY <1>1, <2>1, <3>1, <3>2, CanonicalWording
    <2> HIDE DEF c, now, fill
    <2> QED BY <1>6, <1>8, <2>1
  <1>9. editor' = [editor EXCEPT ![e] = f]
    <2> HIDE DEF now, page
    <2> QED BY <1>3
  <1>10. /\ f \in EditorType(c)
         /\ f.phase = "write" /\ f.page = page /\ f.posted = posted /\ f.read = read /\ f.fill = fill
    <2> HIDE DEF fill, posted, read, c
    <2> QED BY <1>1, <1>6, <1>7 DEF EditorType
  <1>11. editor'[e] = f /\ \A d \in c.editors \ {e} : editor'[d] = editor[d]
    <2> HIDE DEF f
    <2> QED BY <1>1, <1>9 DEF ReplyTyped
  <1>12. ReplyTyped(p)'
    <2> HIDE DEF f, fill, posted, read, page, now
    <2>1. UNCHANGED <<library, response>> BY DEF Reply!PostForm
    <2>2. editor' \in [c.editors -> EditorType(c)] BY <1>1, <1>9, <1>10 DEF ReplyTyped
    <2> QED BY <1>1, <1>6, <1>7, <1>10, <1>11, <2>1, <2>2 DEF ReplyTyped
  <1>13. Filled(p)'
    <2> HIDE DEF now, fill
    <2>1. /\ f.phase = "write" /\ f.posted.entry = entry /\ f.posted.text = text /\ f.fill = fill
          /\ f.read.row = now /\ f.read.text = read.text /\ f.read.own = read.own
      BY <1>10
    <2>2. Filled(p) BY DEF ReplyInv
    <2> HIDE DEF f, read, posted
    <2> SUFFICES ASSUME NEW d \in c.editors, editor'[d].phase = "write", editor'[d].posted.entry # Absent
                 PROVE  LET g == editor'[d] IN
                        /\ g.posted.text = "" => g.fill = g.read.text
                        /\ g.posted.text # "" /\ g.read.row.entry = g.posted.entry => g.fill = g.posted.text
                        /\ /\ g.read.row.entry # g.posted.entry /\ g.read.row.entry # Absent
                           /\ ~g.read.own /\ g.posted.text = g.read.row.text
                           => g.fill = g.read.text
      BY DEF Filled
    <2>3. CASE d = e BY <1>8, <1>11, <2>1, <2>3
    <2>4. CASE d # e BY <1>11, <2>2, <2>4 DEF Filled
    <2> QED BY <2>3, <2>4
  <1> QED BY <1>12, <1>13 DEF Reply!PostForm

LEMMA NoFormFits ==
    ASSUME NEW p \in DOMAIN AnswerParts, ReplyTyped(p), Filled(p), NEW e \in AnswerParts[p].editors,
           editor' = [editor EXCEPT ![e] = Reply(p)!NoForm]
    PROVE  /\ editor' \in [AnswerParts[p].editors -> EditorType(AnswerParts[p])]
           /\ \A d \in AnswerParts[p].editors : editor'[d].phase # "none" => editor'[d] = editor[d]
  <1>1. Reply(p)!NoForm \in EditorType(AnswerParts[p]) /\ Reply(p)!NoForm.phase = "none"
    BY DEF Reply!NoForm, EditorType
  <1> QED BY <1>1 DEF ReplyTyped

\* What a row says that is written: the text of its entry, unless somebody wrote
\* something else or was overtaken.
LEMMA WriteRowMeans ==
    ASSUME NEW p \in DOMAIN AnswerParts, ReplyInv(p), NEW e \in AnswerParts[p].editors, Reply(p)!WriteRow(e)
    PROVE  /\ response' \in [AnswerParts[p].responses -> FilledType(AnswerParts[p])]
           /\ \A r \in AnswerParts[p].responses :
                /\ response'[r].entry # Absent => library[response'[r].entry] # Absent
                /\ r \notin own' /\ response'[r].entry # Absent => response'[r].text = library[response'[r].entry]
  <1> DEFINE c == AnswerParts[p]
             f == editor[e]
             o == f.page.of
             x == response'[o]
  <1>1. /\ ReplyTyped(p) /\ f.phase = "write" /\ f.page \in PageType(c)
        /\ f.posted \in PostedType(c) /\ f.read \in ReadType(c) /\ f.fill \in Wording(c)
    BY DEF Reply!WriteRow, ReplyInv, ReplyTyped
  <1>2. o \in c.responses /\ response \in [c.responses -> FilledType(c)] BY <1>1 DEF ReplyTyped, PageType
  <1>3. /\ f.posted.entry # Absent => library[f.posted.entry] # Absent
        /\ response' = [response EXCEPT ![o] =
             [entry |-> f.posted.entry,
              text |-> IF f.posted.entry = Absent /\ f.posted.text = "" THEN @.text ELSE f.fill,
              status |-> IF f.posted.reviewed THEN "reviewed"
                         ELSE IF f.fill # "" \/ f.posted.entry # Absent THEN "filled" ELSE "unanswered"]]
        /\ own' = IF Reply(p)!OwnNow(e, o) THEN own \cup {o} ELSE own \ {o}
    BY DEF Reply!WriteRow
  <1>4. /\ x.entry = f.posted.entry
        /\ x.text = IF f.posted.entry = Absent /\ f.posted.text = "" THEN response[o].text ELSE f.fill
        /\ x.status \in {"reviewed", "filled", "unanswered"}
        /\ x = [entry |-> x.entry, text |-> x.text, status |-> x.status]
    <2> HIDE DEF f, o
    <2> QED BY <1>2, <1>3
  <1>5. x \in FilledType(c)
    <2>1. f.posted.entry \in EntryOf(c) BY <1>1 DEF PostedType
    <2>2. response[o].text \in Wording(c) BY <1>2 DEF FilledType
    <2> HIDE DEF f, o, x
    <2> QED BY <1>1, <1>4, <2>1, <2>2 DEF FilledType
  <1>6. /\ \A r \in c.responses \ {o} : response'[r] = response[r]
        /\ response' \in [c.responses -> FilledType(c)]
    <2> HIDE DEF f, o
    <2> QED BY <1>2, <1>3, <1>5 DEF x
  <1>7. \A r \in c.responses \ {o} : r \notin own' => r \notin own
    <2> HIDE DEF f, o
    <2> QED BY <1>3
  <1>8. ASSUME o \notin own', x.entry # Absent PROVE x.text = library[x.entry]
    <2>1. ~Reply(p)!OwnNow(e, o)
      <3> HIDE DEF f, o
      <3> QED BY <1>3, <1>8
    <2>2. /\ f.posted.text # "" =>
               f.posted.text = f.page.row.text /\ o \notin own /\ ~f.read.own /\ f.page.row.entry # Absent
          /\ f.read.row.entry = f.page.row.entry /\ f.read.row.text = f.page.row.text
          /\ response[o].entry = f.page.row.entry /\ response[o].text = f.page.row.text
          /\ Reply(p)!Canonical(f.posted.entry) = f.read.text
      BY <2>1 DEF Reply!OwnNow
    <2>3. f.posted.entry \in EntryOf(c) BY <1>1 DEF PostedType
    <2>4. f.posted.entry # Absent /\ x.text = f.fill
      <3> HIDE DEF f, o, x
      <3> QED BY <1>4, <1>8
    <2>5. f.read.text = library[f.posted.entry] BY <1>1, <1>3, <2>2, <2>3, <2>4, CanonicalWording
    <2>6. Filled(p) BY DEF ReplyInv
    <2>7. /\ f.posted.text = "" => f.fill = f.read.text
          /\ f.posted.text # "" /\ f.read.row.entry = f.posted.entry => f.fill = f.posted.text
          /\ /\ f.read.row.entry # f.posted.entry /\ f.read.row.entry # Absent
             /\ ~f.read.own /\ f.posted.text = f.read.row.text
             => f.fill = f.read.text
      BY <1>1, <2>4, <2>6 DEF Filled
    <2>8. o \notin own /\ response[o].entry # Absent => response[o].text = library[response[o].entry]
      BY <1>2 DEF ReplyInv, Reply!Attested
    <2> HIDE DEF f, o, x
    <2>9. CASE f.posted.text = "" BY <1>4, <2>4, <2>5, <2>7, <2>9
    <2>10. CASE f.posted.text # "" /\ f.read.row.entry = f.posted.entry
      BY <1>4, <2>2, <2>4, <2>7, <2>8, <2>10
    <2>11. CASE f.posted.text # "" /\ f.read.row.entry # f.posted.entry
      BY <1>4, <2>2, <2>4, <2>5, <2>7, <2>11
    <2> QED BY <2>9, <2>10, <2>11
  <1>9. ASSUME NEW r \in c.responses
        PROVE  /\ response'[r].entry # Absent => library[response'[r].entry] # Absent
               /\ r \notin own' /\ response'[r].entry # Absent => response'[r].text = library[response'[r].entry]
    <2>1. CASE r = o
      <3>1. x.entry # Absent => library[x.entry] # Absent
        <4> HIDE DEF f, o, x
        <4> QED BY <1>3, <1>4
      <3> QED BY <1>8, <2>1, <3>1
    <2>2. CASE r # o
      <3>1. response'[r] = response[r] /\ (r \notin own' => r \notin own) BY <1>6, <1>7, <2>2
      <3> QED BY <3>1 DEF ReplyInv, Mapped, Reply!Attested
    <2> QED BY <2>1, <2>2
  <1> QED BY <1>6, <1>9

LEMMA NextReplyInv ==
    ASSUME NEW p \in DOMAIN AnswerParts, ReplyInv(p), [Reply(p)!Next]_AnswerVars PROVE ReplyInv(p)'
  <1> DEFINE c == AnswerParts[p]
  <1>0. ReplyTyped(p) /\ Filled(p) BY DEF ReplyInv
  <1>1. CASE UNCHANGED <<library, response, editor, own>>
    BY <1>1 DEF ReplyInv, ReplyTyped, Mapped, Filled, Reply!Attested
  <1>2. ASSUME NEW e \in c.editors, NEW r \in c.responses, Reply(p)!OpenPage(e, r) PROVE ReplyInv(p)'
    <2> DEFINE f == [Reply(p)!NoForm EXCEPT !.phase = "open", !.page = [of |-> r, row |-> response[r]]]
    <2>1. editor' = [editor EXCEPT ![e] = f] /\ UNCHANGED <<library, response, own>> BY <1>2 DEF Reply!OpenPage
    <2>2. [of |-> r, row |-> response[r]] \in PageType(c) BY <1>0 DEF ReplyTyped, PageType
    <2>3. f \in EditorType(c) /\ f.phase = "open" /\ f.page \in PageType(c)
      BY <2>2 DEF Reply!NoForm, EditorType
    <2> HIDE DEF f
    <2>4. editor'[e] = f /\ \A d \in c.editors \ {e} : editor'[d] = editor[d] BY <1>0, <2>1 DEF ReplyTyped
    <2>5. ReplyTyped(p)' BY <1>0, <2>1, <2>3, <2>4 DEF ReplyTyped
    <2>6. Filled(p)' BY <1>0, <2>3, <2>4 DEF Filled
    <2> QED BY <2>1, <2>5, <2>6 DEF ReplyInv, Mapped, Reply!Attested
  <1>3. ASSUME NEW e \in c.editors, Reply(p)!PostForm(e) PROVE ReplyInv(p)'
    BY <1>3, PostFormMeans DEF ReplyInv, Mapped, Reply!Attested
  <1>4. ASSUME NEW e \in c.editors, editor' = [editor EXCEPT ![e] = Reply(p)!NoForm],
               response' \in [c.responses -> FilledType(c)], library' = library
        PROVE  ReplyTyped(p)' /\ Filled(p)'
    <2>1. /\ editor' \in [c.editors -> EditorType(c)]
          /\ \A d \in c.editors : editor'[d].phase # "none" => editor'[d] = editor[d]
      BY <1>0, <1>4, NoFormFits
    <2>2. ReplyTyped(p)' BY <1>0, <1>4, <2>1 DEF ReplyTyped
    <2>3. ASSUME NEW d \in AnswerParts[p].editors, editor'[d].phase = "write" PROVE editor'[d] = editor[d]
      BY <2>1, <2>3
    <2>4. Filled(p)'
      <3> HIDE DEF c
      <3> QED BY <1>0, <2>3 DEF Filled
    <2> QED BY <2>2, <2>4
  <1>5. ASSUME NEW e \in c.editors, Reply(p)!WriteRow(e) PROVE ReplyInv(p)'
    <2>1. editor' = [editor EXCEPT ![e] = Reply(p)!NoForm] /\ library' = library BY <1>5 DEF Reply!WriteRow
    <2>2. /\ response' \in [c.responses -> FilledType(c)]
          /\ \A r \in c.responses :
               /\ response'[r].entry # Absent => library[response'[r].entry] # Absent
               /\ r \notin own' /\ response'[r].entry # Absent => response'[r].text = library[response'[r].entry]
      BY <1>5, WriteRowMeans
    <2>3. ReplyTyped(p)' /\ Filled(p)' BY <1>4, <2>1, <2>2
    <2>4. Mapped(p)' /\ Reply(p)!Attested' BY <2>1, <2>2 DEF Mapped, Reply!Attested
    <2> QED BY <2>3, <2>4 DEF ReplyInv
  <1>6. ASSUME NEW e \in c.editors, Reply(p)!WriteFails(e) PROVE ReplyInv(p)'
    <2>1. editor' = [editor EXCEPT ![e] = Reply(p)!NoForm] /\ UNCHANGED <<library, response, own>>
      BY <1>6 DEF Reply!WriteFails
    <2>2. ReplyTyped(p)' /\ Filled(p)' BY <1>0, <1>4, <2>1 DEF ReplyTyped
    <2> QED BY <2>1, <2>2 DEF ReplyInv, Mapped, Reply!Attested
  <1>7. ASSUME NEW a \in c.entries, Reply(p)!EditEntry(a) PROVE ReplyInv(p)'
    <2>1. PICK text \in (c.texts \ {"", library[a]}) \cup {Absent} :
            /\ library' = [library EXCEPT ![a] = text]
            /\ response' = [r \in c.responses |-> IF response[r].entry = a /\ text = Absent
                              THEN [response[r] EXCEPT !.entry = Absent] ELSE response[r]]
      BY <1>7 DEF Reply!EditEntry
    <2>2. own' = own \cup {r \in c.responses : response[r].entry = a} /\ editor' = editor
      BY <1>7 DEF Reply!EditEntry
    <2>3. library' \in [c.entries -> c.texts \cup {Absent}] BY <1>0, <2>1 DEF ReplyTyped
    <2>4. ASSUME NEW r \in c.responses
          PROVE  /\ response'[r] \in FilledType(c)
                 /\ response[r].entry # a => response'[r] = response[r]
                 /\ response[r].entry = a => response'[r].entry = IF text = Absent THEN Absent ELSE a
      <3>1. response[r] \in FilledType(c) BY <1>0 DEF ReplyTyped
      <3>2. [response[r] EXCEPT !.entry = Absent] \in FilledType(c)
            /\ [response[r] EXCEPT !.entry = Absent].entry = Absent
        BY <3>1 DEF FilledType, EntryOf
      <3> QED BY <2>1, <3>1, <3>2
    <2>5. response' \in [c.responses -> FilledType(c)] BY <2>1, <2>4
    <2>6. library'[a] = text /\ \A b \in c.entries \ {a} : library'[b] = library[b]
      BY <1>0, <2>1 DEF ReplyTyped
    <2>7. ReplyTyped(p)' BY <1>0, <2>2, <2>3, <2>5 DEF ReplyTyped
    <2>8. Filled(p)' BY <1>0, <2>2 DEF Filled
    <2>9. ASSUME NEW r \in c.responses, response'[r].entry # Absent
          PROVE  /\ library'[response'[r].entry] # Absent
                 /\ r \notin own' => response'[r].text = library'[response'[r].entry]
      <3>1. CASE response[r].entry = a
        <4>1. text # Absent /\ response'[r].entry = a BY <2>4, <2>9, <3>1
        <4>2. r \in own' BY <2>2, <3>1
        <4> QED BY <2>6, <4>1, <4>2
      <3>2. CASE response[r].entry # a
        <4>1. response'[r] = response[r] BY <2>4, <3>2
        <4>2. response[r].entry \in c.entries BY <1>0, <2>9, <4>1 DEF ReplyTyped, FilledType, EntryOf
        <4>3. library'[response[r].entry] = library[response[r].entry] BY <2>6, <3>2, <4>2
        <4>4. r \notin own' => r \notin own BY <2>2
        <4> QED BY <2>9, <4>1, <4>3, <4>4 DEF ReplyInv, Mapped, Reply!Attested
      <3> QED BY <3>1, <3>2
    <2>10. Mapped(p)' /\ Reply(p)!Attested' BY <2>9 DEF Mapped, Reply!Attested
    <2> QED BY <2>7, <2>8, <2>10 DEF ReplyInv
  <1>8. CASE Reply(p)!AddQuestion \/ Reply(p)!SetStatus
    BY <1>1, <1>8 DEF Reply!AddQuestion, Reply!SetStatus, Reply!libraryVars
  <1>9. ASSUME NEW s \in c.staff, Reply(p)!BeginSend(s) \/ Reply(p)!EndSend(s) PROVE ReplyInv(p)'
    BY <1>1, <1>9 DEF Reply!BeginSend, Reply!EndSend, Reply!libraryVars
  <1>10. ASSUME NEW q \in c.posts, Reply(p)!Admit(q) \/ Reply(p)!Save(q) \/ Reply(p)!Submit(q) PROVE ReplyInv(p)'
    BY <1>1, <1>10 DEF Reply!Admit, Reply!Save, Reply!Saving, Reply!Submit, Reply!libraryVars
  <1>11. CASE UNCHANGED AnswerVars BY <1>1, <1>11 DEF AnswerVars, ReplyVars
  <1> QED BY <1>2, <1>3, <1>5, <1>6, <1>7, <1>8, <1>9, <1>10, <1>11 DEF Reply!Next

\* Only requests of the vendor change post, and they move an open campaign.
LEMMA VendorKeeps ==
    ASSUME NEW p \in DOMAIN AnswerParts, Reply(p)!Next PROVE Reply(p)!VendorKeepsClosed
  <1> DEFINE c == AnswerParts[p]
  <1>1. ASSUME NEW q \in c.posts, Reply(p)!Save(q) PROVE Reply(p)!VendorKeepsClosed
    BY <1>1 DEF Reply!Save, Reply!VendorKeepsClosed, Reply!Editable
  <1>2. ASSUME NEW q \in c.posts, Reply(p)!Submit(q) PROVE Reply(p)!VendorKeepsClosed
    BY <1>2 DEF Reply!Submit, Reply!VendorKeepsClosed
  <1>3. CASE UNCHANGED post \/ UNCHANGED status
    BY <1>3 DEF Reply!VendorKeepsClosed
  <1> QED BY <1>1, <1>2, <1>3 DEF Reply!Next, Reply!AddQuestion, Reply!SetStatus, Reply!BeginSend, Reply!EndSend,
       Reply!Admit, Reply!OpenPage, Reply!PostForm, Reply!WriteRow, Reply!WriteFails, Reply!EditEntry,
       Reply!campaignVars

-----------------------------------------------------------------------------
(* Every part keeps its promise: each is one of the two, by DisclosureAssumption *)

LEMMA DisclosureStarts ==
    ASSUME DisclosureInit
    PROVE  /\ \A p \in DOMAIN ReadParts : desk = p => View(p)!Init
           /\ \A p \in DOMAIN AnswerParts : desk = p => Reply(p)!Init
  BY DisclosureAssumption DEF DisclosureInit

LEMMA DisclosureGoes ==
    ASSUME [DisclosureNext]_<<desk, ReadVars, AnswerVars>>
    PROVE  /\ desk' = desk
           /\ \A p \in DOMAIN ReadParts : desk = p => [View(p)!Next]_ReadVars
           /\ \A p \in DOMAIN AnswerParts : desk = p => [Reply(p)!Next]_AnswerVars
  BY DisclosureAssumption DEF DisclosureNext

\* What is shown follows the rules that were in force and is logged unless it
\* could not be, a mapped answer says what its entry says unless somebody wrote
\* something else, and no vendor moves a campaign that was closed
\* (redaction_overrides, access_log_service, questionnaire_service,
\* vendor_campaign_service): for every part.
THEOREM DisclosuresAlwaysHold == DisclosureSpec => DisclosuresHold
  <1> DEFINE Inv == /\ \A p \in DOMAIN ReadParts : desk = p => ViewInv(p)
                    /\ \A p \in DOMAIN AnswerParts : desk = p => ReplyInv(p)
             Kept == /\ \A p \in DOMAIN ReadParts : desk = p => View(p)!ReadingHolds
                     /\ \A p \in DOMAIN AnswerParts : desk = p => Reply(p)!Attested
             Closed == \A p \in DOMAIN AnswerParts : desk = p => Reply(p)!VendorKeepsClosed
  <1>1. DisclosureInit => Inv BY DisclosureStarts, InitViewInv, InitReplyInv
  <1>2. Inv /\ [DisclosureNext]_<<desk, ReadVars, AnswerVars>> => Inv'
    <2> SUFFICES ASSUME Inv, [DisclosureNext]_<<desk, ReadVars, AnswerVars>> PROVE Inv' OBVIOUS
    <2>1. ASSUME NEW p \in DOMAIN ReadParts, desk' = p PROVE ViewInv(p)'
      <3>1. desk = p /\ [View(p)!Next]_ReadVars BY <2>1, DisclosureGoes
      <3>2. ViewInv(p) BY <3>1
      <3> QED BY <3>1, <3>2, NextViewInv
    <2>2. ASSUME NEW p \in DOMAIN AnswerParts, desk' = p PROVE ReplyInv(p)'
      <3>1. desk = p /\ [Reply(p)!Next]_AnswerVars BY <2>2, DisclosureGoes
      <3>2. ReplyInv(p) BY <3>1
      <3> QED BY <3>1, <3>2, NextReplyInv
    <2> QED BY <2>1, <2>2
  <1>3. Inv => Kept BY DEF ViewInv, ReplyInv, View!ReadingHolds
  <1>4. [DisclosureNext]_<<desk, ReadVars, AnswerVars>> => [Closed]_<<desk, AnswerVars>>
    <2> SUFFICES ASSUME [DisclosureNext]_<<desk, ReadVars, AnswerVars>>, NEW p \in DOMAIN AnswerParts, desk = p,
                        <<desk, AnswerVars>>' # <<desk, AnswerVars>>
                 PROVE  Reply(p)!VendorKeepsClosed
      OBVIOUS
    <2>1. [Reply(p)!Next]_AnswerVars /\ desk' = desk BY DisclosureGoes
    <2> QED BY <2>1, VendorKeeps
  <1> QED BY <1>1, <1>2, <1>3, <1>4, PTL DEF DisclosureSpec, DisclosuresHold
=============================================================================
