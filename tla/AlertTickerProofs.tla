-------------------------- MODULE AlertTickerProofs --------------------------
(***************************************************************************)
(* An alert is notified at most once for each time it is armed, whatever the *)
(* number of workers that tick, alerts, forms and cron expressions, with     *)
(* crashes and deletions anywhere.  Each arming is a token: it lies in the    *)
(* row while the row has that time, with the worker that has claimed it, or   *)
(* has been used up by a notification.  What then goes out to the webhooks     *)
(* comes last (Posts).                                                       *)
(***************************************************************************)
EXTENDS Alerting, FiniteSetTheorems, TLAPS

Busy == {"reschedule", "get", "insert"}

\* A form that is open is of an alert.
Filled == \A e \in Editors : forms[e].pc \in {"open", "save"} => forms[e].id \in Alerts

\* What a tick is at work on, apart from what it has yet to take: a claim has one
\* row of each alert.
Loaded ==
    \A w \in Workers :
        /\ ticks[w].now \in 0..MaxTime
        /\ \A r, s \in ticks[w].rows : r.id = s.id => r = s
        /\ ticks[w].pc \in Busy =>
             /\ ticks[w].row \in RowType
             /\ \A r \in ticks[w].rows : r.id # ticks[w].row.id
        /\ ticks[w].pc = "reschedule" => ticks[w].row.cron # Null

\* The tick of w still has the firing of a at t before it.
Holds(w, a, t) ==
    \/ \E r \in ticks[w].rows : r.id = a /\ r.at = t
    \/ ticks[w].pc \in Busy /\ ticks[w].row.id = a /\ ticks[w].row.at = t
Holders(a, t) == {w \in Workers : Holds(w, a, t)}
InRow(a, t) == IF alerts[a].next = t THEN 1 ELSE 0

Counted ==
    \A a \in Alerts, t \in Times :
        fired[a][t] + Cardinality(Holders(a, t)) + InRow(a, t) <= armed[a][t]

-----------------------------------------------------------------------------
(* Types *)

LEMMA Constants ==
    /\ MaxTime \in Nat /\ MaxCrashes \in Nat
    /\ \A p \in Periods : p \in Nat /\ p > 0 /\ p <= MaxTime + 1
    /\ IsFiniteSet(Workers)
    /\ Null \notin Nat /\ Null \notin Periods /\ Null \notin Times /\ Null \notin Alerts
    /\ 0..MaxTime \subseteq Times /\ Times \subseteq Nat
  BY AlertAssumption DEF Times

\* The next occurrence lies within one period.
LEMMA OccurrenceInTimes ==
    ASSUME NEW p \in Periods, NEW now \in 0..MaxTime
    PROVE  NextOccurrence(p, now) \in Times
  <1>1. p \in Nat /\ p > 0 /\ p <= MaxTime + 1 /\ now \in Nat /\ now <= MaxTime /\ MaxTime \in Nat
    BY Constants
  <1>2. PICK q \in Nat : q = now \div p
    BY <1>1
  <1>3. p * q <= now /\ p * q \in Nat
    BY <1>1, <1>2
  <1>4. p * (q + 1) = p * q + p
    BY <1>1, <1>2
  <1>5. p * (q + 1) \in Nat /\ p * (q + 1) <= MaxTime + MaxTime + 1
    BY <1>1, <1>3, <1>4
  <1> QED BY <1>1, <1>2, <1>5 DEF NextOccurrence, Times

\* Times are armed one by one.
LEMMA ArmTyped ==
    ASSUME TypeOK, NEW a \in Alerts, NEW next \in MaybeTime, Arm(a, next)
    PROVE  armed' \in [Alerts -> [Times -> Nat]]
  <1>1. CASE next \in {Null, alerts[a].next}
    BY <1>1 DEF Arm, TypeOK
  <1>2. CASE next \notin {Null, alerts[a].next}
    <2>1. next \in Times /\ armed[a][next] \in Nat /\ armed[a][next] + 1 \in Nat
      BY <1>2 DEF MaybeTime, TypeOK
    <2> QED BY <1>2, <2>1 DEF Arm, TypeOK
  <1> QED BY <1>1, <1>2

\* The due rows are rows that can be claimed, one of each alert.
LEMMA DueTyped ==
    ASSUME TypeOK
    PROVE  /\ DueRows \subseteq RowType
           /\ \A r, s \in DueRows : r.id = s.id => r = s
           /\ \A r \in DueRows : Due(r.id) /\ r.at = alerts[r.id].next
  BY DEF DueRows, Due, RowType, TypeOK, AlertType, MaybeTime

\* Types with Filled and the part of Loaded about the row in hand, which they rest on.
Shape == TypeOK /\ Filled /\ Loaded

LEMMA InitShape == Init => Shape
  <1> SUFFICES ASSUME Init PROVE Shape
    OBVIOUS
  <1>1. TypeOK
    BY Constants DEF Init, TypeOK, AlertType, TickType, FormType, MaybeTime, Crons, Times, Resting, Form
  <1>2. Filled /\ Loaded
    BY Constants DEF Init, Filled, Loaded, Resting, Form, Busy
  <1> QED BY <1>1, <1>2 DEF Shape

\* Steps of people.
LEMMA PeopleShape ==
    ASSUME Shape, Administer
    PROVE  Shape'
  <1> USE DEF Shape
  <1>1. CASE \E a \in Alerts : Create(a)
    <2>1. PICK a \in Alerts, cron \in Crons, at \in (clock + 1)..MaxTime :
            LET next == IF cron = Null THEN at ELSE NextOccurrence(cron, clock) IN
            /\ alerts' = [alerts EXCEPT ![a] =
                   [state |-> "live", enabled |-> TRUE, cron |-> cron, next |-> next]]
            /\ Arm(a, next)
      BY <1>1 DEF Create
    <2> DEFINE next == IF cron = Null THEN at ELSE NextOccurrence(cron, clock)
    <2>2. clock \in 0..MaxTime /\ at \in Times
      BY Constants DEF TypeOK
    <2>3. next \in MaybeTime
      BY <2>2, OccurrenceInTimes DEF Crons, MaybeTime
    <2> HIDE DEF next
    <2>4. armed' \in [Alerts -> [Times -> Nat]]
      BY <2>1, <2>3, ArmTyped DEF next
    <2>5. [state |-> "live", enabled |-> TRUE, cron |-> cron, next |-> next] \in AlertType
      BY <2>3 DEF AlertType
    <2>6. alerts' \in [Alerts -> AlertType]
      BY <2>1, <2>5 DEF TypeOK, next
    <2> QED BY <1>1, <2>4, <2>6 DEF Create, TypeOK, Filled, Loaded
  <1>2. CASE \E a \in Alerts : SetEnabled(a) \/ Delete(a)
    <2>1. PICK a \in Alerts : SetEnabled(a) \/ Delete(a)
      BY <1>2
    <2>2. alerts[a] \in AlertType /\ alerts \in [Alerts -> AlertType]
      BY DEF TypeOK
    <2>3. alerts' \in [Alerts -> AlertType]
      <3>1. CASE SetEnabled(a)
        <4>1. (~alerts[a].enabled) \in BOOLEAN
          OBVIOUS
        <4>2. [alerts[a] EXCEPT !.enabled = ~@] \in AlertType
          BY <2>2, <4>1 DEF AlertType
        <4>3. alerts' = [alerts EXCEPT ![a] = [alerts[a] EXCEPT !.enabled = ~@]]
          BY <3>1, <2>2 DEF SetEnabled
        <4> QED BY <2>2, <4>2, <4>3
      <3>2. CASE Delete(a)
        BY <2>2, <3>2 DEF Delete, AlertType
      <3> QED BY <2>1, <3>1, <3>2
    <2> QED BY <2>1, <2>3 DEF SetEnabled, Delete, TypeOK, Filled, Loaded
  <1>3. CASE \E e \in Editors, a \in Alerts : OpenForm(e, a)
    BY <1>3 DEF OpenForm, TypeOK, AlertType, FormType, Filled, Loaded
  <1>4. CASE \E e \in Editors : Submit(e)
    <2>1. PICK e \in Editors : Submit(e)
      BY <1>4
    <2>2. clock \in 0..MaxTime /\ forms[e] \in FormType
      BY DEF TypeOK
    <2>3. forms[e].cron # Null => NextOccurrence(forms[e].cron, clock) \in MaybeTime
      BY <2>2, OccurrenceInTimes DEF FormType, Crons, MaybeTime
    <2>4. Form("closed") \in FormType
      BY DEF Form, FormType, MaybeTime, Crons
    <2>5. \E f \in FormType :
            /\ forms' = [forms EXCEPT ![e] = f]
            /\ \/ f.pc = "save" /\ f.id = forms[e].id
               \/ f.pc = "closed"
      <3>1. CASE forms' = [forms EXCEPT ![e] = Form("closed")]
        BY <2>4, <3>1 DEF Form
      <3>2. CASE forms' # [forms EXCEPT ![e] = Form("closed")]
        <4> DEFINE next == IF forms[e].cron # Null /\ forms[e].next = Null
                           THEN NextOccurrence(forms[e].cron, clock) ELSE forms[e].next
                   f == [forms[e] EXCEPT !.pc = "save", !.next = next]
        <4>1. next \in MaybeTime
          BY <2>2, <2>3 DEF FormType
        <4>2. forms' = [forms EXCEPT ![e] = f]
          BY <2>1, <2>2, <3>2 DEF Submit, TypeOK, FormType
        <4> HIDE DEF next
        <4>3. f \in FormType /\ f.pc = "save" /\ f.id = forms[e].id
          BY <2>2, <4>1 DEF FormType
        <4> QED BY <4>2, <4>3
      <3> QED BY <3>1, <3>2
    <2>6. forms' \in [Editors -> FormType]
      BY <2>5 DEF TypeOK
    <2>7. Filled'
      BY <2>1, <2>5 DEF Submit, Filled, TypeOK
    <2> QED BY <2>1, <2>6, <2>7 DEF Submit, TypeOK, Loaded
  <1>5. CASE \E e \in Editors : Save(e)
    <2>1. PICK e \in Editors : Save(e)
      BY <1>5
    <2>2. forms[e] \in FormType /\ forms[e].id \in Alerts
      BY <2>1 DEF TypeOK, Filled, Save
    <2>3. alerts' \in [Alerts -> AlertType] /\ armed' \in [Alerts -> [Times -> Nat]]
      <3>1. CASE alerts[forms[e].id].state = "live"
        <4>0. forms[e].next \in MaybeTime /\ Arm(forms[e].id, forms[e].next)
          BY <2>1, <2>2, <3>1 DEF Save, FormType
        <4>1. armed' \in [Alerts -> [Times -> Nat]]
          BY <2>2, <4>0, ArmTyped
        <4>3. PICK on \in BOOLEAN : alerts' = [alerts EXCEPT ![forms[e].id] =
                [state |-> "live", enabled |-> on, cron |-> forms[e].cron, next |-> forms[e].next]]
          BY <2>1, <3>1 DEF Save
        <4>2. [state |-> "live", enabled |-> on, cron |-> forms[e].cron, next |-> forms[e].next]
                \in AlertType
          <5>2. forms[e].cron \in Crons
            BY <2>2 DEF FormType
          <5> QED BY <4>0, <5>2 DEF AlertType
        <4> QED BY <2>2, <4>1, <4>2, <4>3 DEF TypeOK
      <3>2. CASE alerts[forms[e].id].state # "live"
        BY <2>1, <3>2 DEF Save, TypeOK
      <3> QED BY <3>1, <3>2
    <2>4. Form("closed") \in FormType
      BY DEF Form, FormType, MaybeTime, Crons
    <2>5. forms' \in [Editors -> FormType] /\ Filled'
      BY <2>1, <2>4 DEF Save, TypeOK, Filled, Form
    <2> QED BY <2>1, <2>3, <2>5 DEF Save, TypeOK, Loaded
  <1>6. CASE \E e \in Editors, a \in Alerts : Update(e, a)
    <2>0. PICK e \in Editors, a \in Alerts : Update(e, a)
      BY <1>6
    <2>1. PICK cron \in Crons, on \in BOOLEAN, next \in (clock..MaxTime) \cup {alerts[a].next} :
            /\ alerts' = [alerts EXCEPT ![a] =
                   [state |-> "live", enabled |-> on, cron |-> cron, next |-> next]]
            /\ Arm(a, next)
            /\ forms' = [forms EXCEPT ![e] = Form("closed")]
            /\ UNCHANGED <<clock, ticks, crashes, fired>>
      BY <2>0 DEF Update
    <2>2. next \in MaybeTime
      BY Constants DEF TypeOK, AlertType, MaybeTime, Times
    <2>3. armed' \in [Alerts -> [Times -> Nat]]
      BY <2>1, <2>2, ArmTyped
    <2>4. [state |-> "live", enabled |-> on, cron |-> cron, next |-> next] \in AlertType
      BY <2>2 DEF AlertType
    <2>5. alerts' \in [Alerts -> AlertType]
      BY <2>1, <2>4 DEF TypeOK
    <2>6. Form("closed") \in FormType
      BY DEF Form, FormType, MaybeTime, Crons
    <2>7. forms' \in [Editors -> FormType] /\ Filled'
      BY <2>1, <2>6 DEF TypeOK, Filled, Form
    <2> QED BY <2>1, <2>3, <2>5, <2>7 DEF TypeOK, Loaded
  <1> QED BY <1>1, <1>2, <1>3, <1>4, <1>5, <1>6 DEF Administer

\* Steps of a tick, a crash among them.
LEMMA TickShape ==
    ASSUME Shape, NEW w \in Workers, Tick(w) \/ Crash(w)
    PROVE  Shape'
  <1> USE DEF Shape
  <1>0. /\ ticks[w] \in TickType /\ ticks \in [Workers -> TickType]
        /\ clock \in 0..MaxTime /\ 0..MaxTime \subseteq Times
    BY Constants DEF TypeOK
  <1>1. CASE Claim(w)
    <2>1. alerts' \in [Alerts -> AlertType]
      <3>1. \A a \in Alerts : alerts[a] \in AlertType /\ [alerts[a] EXCEPT !.next = Null] \in AlertType
        BY DEF TypeOK, AlertType, MaybeTime
      <3> QED BY <1>1, <3>1 DEF Claim
    <2>2. [pc |-> "loop", now |-> clock, rows |-> DueRows, row |-> Null] \in TickType
      BY <1>0, DueTyped DEF TickType
    <2>3. TypeOK' /\ Filled'
      BY <1>1, <2>1, <2>2 DEF Claim, TypeOK, Filled
    <2>4. Loaded'
      BY <1>0, <1>1, DueTyped DEF Claim, Loaded, Busy
    <2> QED BY <2>3, <2>4
  <1>2. CASE NextRow(w)
    <2>1. PICK row \in ticks[w].rows :
            ticks' = [ticks EXCEPT ![w].pc = IF row.cron = Null THEN "get" ELSE "reschedule",
                                   ![w].rows = @ \ {row}, ![w].row = row]
      BY <1>2 DEF NextRow
    <2>2. row \in RowType
      BY <1>0 DEF TickType
    <2>3. ticks' \in [Workers -> TickType]
      BY <1>0, <2>1, <2>2 DEF TickType
    <2>4. Loaded'
      BY <1>0, <2>1, <2>2 DEF Loaded, Busy, TickType
    <2> QED BY <1>2, <2>3, <2>4 DEF NextRow, TypeOK, Filled
  <1>3. CASE Reschedule(w)
    <2> DEFINE row == ticks[w].row
               next == NextOccurrence(row.cron, ticks[w].now)
    <2>1. row \in RowType /\ row.cron # Null
      BY <1>3 DEF Reschedule, Loaded, Busy
    <2>2. row.id \in Alerts /\ row.cron \in Periods /\ ticks[w].now \in 0..MaxTime
      BY <2>1 DEF RowType, Crons, Loaded
    <2>3. next \in MaybeTime /\ next \in Times
      BY <2>2, OccurrenceInTimes DEF MaybeTime
    <2> HIDE DEF next, row
    <2>4. alerts' \in [Alerts -> AlertType] /\ armed' \in [Alerts -> [Times -> Nat]]
      <3>1. CASE alerts[row.id].state = "live"
        <4>1. alerts' = [alerts EXCEPT ![row.id].next = next] /\ Arm(row.id, next)
          BY <1>3, <3>1 DEF Reschedule, row, next
        <4>2. armed' \in [Alerts -> [Times -> Nat]]
          BY <2>2, <2>3, <4>1, ArmTyped
        <4> QED BY <2>2, <2>3, <4>1, <4>2 DEF TypeOK, AlertType
      <3>2. CASE alerts[row.id].state # "live"
        BY <1>3, <3>2 DEF Reschedule, TypeOK, row
      <3> QED BY <3>1, <3>2
    <2>5. ticks' \in [Workers -> TickType] /\ Loaded'
      BY <1>0, <1>3 DEF Reschedule, TickType, Loaded, Busy
    <2> QED BY <1>3, <2>4, <2>5 DEF Reschedule, TypeOK, Filled
  <1>4. CASE GetAlert(w)
    <2>1. ticks' \in [Workers -> TickType] /\ Loaded'
      BY <1>0, <1>4 DEF GetAlert, TickType, Loaded, Busy
    <2> QED BY <1>4, <2>1 DEF GetAlert, TypeOK, Filled
  <1>5. CASE Notify(w)
    <2>0. ticks' = [ticks EXCEPT ![w] = [ticks[w] EXCEPT !.pc = "loop"]]
      BY <1>5 DEF Notify
    <2>1. ticks' \in [Workers -> TickType] /\ Loaded'
      <3>1. [ticks[w] EXCEPT !.pc = "loop"] \in TickType
        BY <1>0 DEF TickType
      <3> QED BY <1>0, <2>0, <3>1 DEF TickType, Loaded, Busy
    <2>2. ticks[w].row \in RowType
      BY <1>5 DEF Notify, Loaded, Busy
    <2>3. ticks[w].row.id \in Alerts /\ ticks[w].row.at \in Times
      BY <2>2 DEF RowType
    <2>4. fired' \in [Alerts -> [Times -> Nat]]
      BY <1>5, <2>3 DEF Notify, TypeOK
    <2> QED BY <1>5, <2>1, <2>4 DEF Notify, TypeOK, Filled
  <1>6. CASE TickRaises(w) \/ EndTick(w) \/ Crash(w)
    <2>1. Resting \in TickType /\ Resting.now \in 0..MaxTime
      BY Constants DEF Resting, TickType, Times
    <2>2. ticks' \in [Workers -> TickType] /\ Loaded'
      <3>1. ticks' = [ticks EXCEPT ![w] = Resting]
        BY <1>6 DEF TickRaises, EndTick, Crash
      <3>2. Resting.rows = {} /\ Resting.pc = "idle"
        BY DEF Resting
      <3> HIDE DEF Resting
      <3> QED BY <1>0, <2>1, <3>1, <3>2 DEF Loaded, Busy
    <2>3. crashes' \in 0..MaxCrashes
      BY <1>6, Constants DEF TickRaises, EndTick, Crash, TypeOK
    <2> QED BY <1>6, <2>2, <2>3 DEF TickRaises, EndTick, Crash, TypeOK, Filled
  <1> QED BY <1>1, <1>2, <1>3, <1>4, <1>5, <1>6 DEF Tick

LEMMA NextShape == Shape /\ [Next]_vars => Shape'
  <1> SUFFICES ASSUME Shape, [Next]_vars PROVE Shape'
    OBVIOUS
  <1>1. CASE Advance
    BY <1>1, Constants DEF Advance, Shape, TypeOK, Filled, Loaded
  <1>2. CASE UNCHANGED vars
    BY <1>2 DEF vars, Shape, TypeOK, Filled, Loaded
  <1> QED BY <1>1, <1>2, PeopleShape, TickShape DEF Next

-----------------------------------------------------------------------------
(* Tokens *)

LEMMA HoldersFinite ==
    \A a, t : /\ IsFiniteSet(Holders(a, t)) /\ Cardinality(Holders(a, t)) \in Nat
  BY Constants, FS_Subset, FS_CardinalityType DEF Holders

\* Arming a row moves no more than one token into it, and that one is counted.
LEMMA Rearm ==
    ASSUME Shape, Counted, NEW a \in Alerts, NEW next \in MaybeTime, Arm(a, next),
           alerts' \in [Alerts -> AlertType],
           alerts'[a].next = next,
           \A b \in Alerts \ {a} : alerts'[b] = alerts[b],
           fired' = fired,
           \A b \in Alerts, t \in Times : Holders(b, t)' = Holders(b, t)
    PROVE  Counted'
  <1> SUFFICES ASSUME NEW b \in Alerts, NEW t \in Times
               PROVE  fired'[b][t] + Cardinality(Holders(b, t)') + InRow(b, t)' <= armed'[b][t]
    BY DEF Counted
  <1> DEFINE n == Cardinality(Holders(b, t))
  <1>1. /\ fired[b][t] \in Nat /\ armed[b][t] \in Nat /\ n \in Nat
        /\ fired[b][t] + n + InRow(b, t) <= armed[b][t]
    BY HoldersFinite DEF Shape, TypeOK, Counted
  <1>2. Cardinality(Holders(b, t)') = n
    OBVIOUS
  <1> HIDE DEF n
  <1>3. next \in Nat \/ next = Null
    BY Constants DEF MaybeTime
  <1>4. CASE b = a /\ t = next /\ alerts[a].next # next
    <2>1. armed'[b][t] = armed[b][t] + 1
      BY <1>4, Constants DEF Arm, Shape, TypeOK
    <2>2. InRow(b, t) = 0 /\ InRow(b, t)' = 1
      BY <1>4 DEF InRow
    <2> QED BY <1>1, <1>2, <2>1, <2>2
  <1>5. CASE ~(b = a /\ t = next /\ alerts[a].next # next)
    <2>1. armed'[b][t] = armed[b][t]
      BY <1>5 DEF Arm, Shape, TypeOK
    <2>2. InRow(b, t)' = InRow(b, t) \/ InRow(b, t)' = 0
      BY <1>5 DEF InRow
    <2>3. InRow(b, t) \in {0, 1}
      BY DEF InRow
    <2> QED BY <1>1, <1>2, <2>1, <2>2, <2>3
  <1> QED BY <1>4, <1>5

\* A step that only lets workers drop rows, and leaves the rest.
LEMMA Dropped ==
    ASSUME Shape, Counted, fired' = fired, armed' = armed,
           \A a \in Alerts : alerts'[a].next = alerts[a].next,
           \A a \in Alerts, t \in Times : Holders(a, t)' \subseteq Holders(a, t)
    PROVE  Counted'
  <1> SUFFICES ASSUME NEW a \in Alerts, NEW t \in Times
               PROVE  fired'[a][t] + Cardinality(Holders(a, t)') + InRow(a, t)' <= armed'[a][t]
    BY DEF Counted
  <1>1. /\ IsFiniteSet(Holders(a, t))
        /\ fired[a][t] \in Nat /\ armed[a][t] \in Nat /\ Cardinality(Holders(a, t)) \in Nat
        /\ fired[a][t] + Cardinality(Holders(a, t)) + InRow(a, t) <= armed[a][t]
    BY HoldersFinite DEF Shape, TypeOK, Counted
  <1>2. /\ Cardinality(Holders(a, t)') \in Nat
        /\ Cardinality(Holders(a, t)') <= Cardinality(Holders(a, t))
    BY <1>1, FS_Subset, FS_CardinalityType
  <1>3. InRow(a, t)' = InRow(a, t) /\ InRow(a, t) \in {0, 1}
    BY DEF InRow
  <1> QED BY <1>1, <1>2, <1>3

\* People arm rows, and take nothing from a worker.
LEMMA PeopleCounted ==
    ASSUME Shape, Shape', Counted, Administer
    PROVE  Counted'
  <1>1. ticks' = ticks /\ fired' = fired
    BY DEF Administer, Create, SetEnabled, Update, Delete, OpenForm, Submit, Save
  <1>2. \A a \in Alerts, t \in Times : Holders(a, t)' = Holders(a, t)
    BY <1>1 DEF Holders, Holds
  <1>3. alerts \in [Alerts -> AlertType] /\ alerts' \in [Alerts -> AlertType]
    BY DEF Shape, TypeOK
  <1>4. CASE \E a \in Alerts : Create(a)
    <2>1. PICK a \in Alerts, cron \in Crons, at \in (clock + 1)..MaxTime :
            LET next == IF cron = Null THEN at ELSE NextOccurrence(cron, clock) IN
            /\ alerts' = [alerts EXCEPT ![a] =
                   [state |-> "live", enabled |-> TRUE, cron |-> cron, next |-> next]]
            /\ Arm(a, next)
      BY <1>4 DEF Create
    <2> DEFINE next == IF cron = Null THEN at ELSE NextOccurrence(cron, clock)
    <2>2. Arm(a, next) /\ alerts'[a].next = next
      BY <1>3, <2>1
    <2>3. \A b \in Alerts \ {a} : alerts'[b] = alerts[b]
      BY <1>3, <2>1
    <2> HIDE DEF next
    <2>4. next \in MaybeTime
      BY <1>3, <2>2 DEF AlertType
    <2> QED BY <1>1, <1>2, <1>3, <2>2, <2>3, <2>4, Rearm
  <1>5. CASE \E e \in Editors : Save(e) /\ alerts[forms[e].id].state = "live"
    <2>1. PICK e \in Editors : Save(e) /\ alerts[forms[e].id].state = "live"
      BY <1>5
    <2> DEFINE a == forms[e].id
               next == forms[e].next
    <2>2. a \in Alerts /\ next \in MaybeTime
      BY <2>1 DEF Shape, TypeOK, FormType, Filled, Save
    <2>3. /\ Arm(a, next)
          /\ \E on \in BOOLEAN : alerts' = [alerts EXCEPT ![a] =
               [state |-> "live", enabled |-> on, cron |-> forms[e].cron, next |-> next]]
      BY <2>1 DEF Save
    <2> HIDE DEF a, next
    <2>4. alerts'[a].next = next /\ \A b \in Alerts \ {a} : alerts'[b] = alerts[b]
      BY <1>3, <2>2, <2>3
    <2> QED BY <1>1, <1>2, <1>3, <2>2, <2>3, <2>4, Rearm
  <1>7. CASE \E e \in Editors, a \in Alerts : Update(e, a)
    <2>0. PICK e \in Editors, a \in Alerts : Update(e, a)
      BY <1>7
    <2>1. PICK cron \in Crons, on \in BOOLEAN, next \in (clock..MaxTime) \cup {alerts[a].next} :
            /\ alerts' = [alerts EXCEPT ![a] =
                   [state |-> "live", enabled |-> on, cron |-> cron, next |-> next]]
            /\ Arm(a, next)
      BY <2>0 DEF Update
    <2>2. next \in MaybeTime
      BY <1>3, Constants DEF Shape, TypeOK, AlertType, MaybeTime, Times
    <2>3. alerts'[a].next = next /\ \A b \in Alerts \ {a} : alerts'[b] = alerts[b]
      BY <1>3, <2>1
    <2> QED BY <1>1, <1>2, <1>3, <2>1, <2>2, <2>3, Rearm
  <1>6. CASE ~(\E a \in Alerts : Create(a))
             /\ ~(\E e \in Editors : Save(e) /\ alerts[forms[e].id].state = "live")
             /\ ~(\E e \in Editors, a \in Alerts : Update(e, a))
    <2>1. armed' = armed /\ \A a \in Alerts : alerts'[a].next = alerts[a].next
      <3>1. CASE \E a \in Alerts : SetEnabled(a) \/ Delete(a)
        <4>1. PICK a \in Alerts : SetEnabled(a) \/ Delete(a)
          BY <3>1
        <4>2. alerts[a] \in AlertType /\ armed' = armed
          BY <1>3, <4>1 DEF SetEnabled, Delete
        <4>3. \A b \in Alerts \ {a} : alerts'[b] = alerts[b]
          BY <1>3, <4>1 DEF SetEnabled, Delete
        <4>4. alerts'[a].next = alerts[a].next
          BY <1>3, <4>1, <4>2 DEF SetEnabled, Delete, AlertType
        <4> QED BY <4>2, <4>3, <4>4
      <3>2. CASE ~(\E a \in Alerts : SetEnabled(a) \/ Delete(a))
        <4>1. armed' = armed /\ alerts' = alerts
          BY <1>6, <3>2 DEF Administer, OpenForm, Submit, Save
        <4> QED BY <4>1
      <3> QED BY <3>1, <3>2
    <2> QED BY <1>1, <1>2, <2>1, Dropped
  <1> QED BY <1>4, <1>5, <1>6, <1>7

\* Steps of a tick: a claim moves tokens from rows to the worker, a notification
\* uses up the one of the row in hand, a reschedule arms.
LEMMA TickCounted ==
    ASSUME Shape, Shape', Counted, NEW w \in Workers, Tick(w) \/ Crash(w)
    PROVE  Counted'
  <1>0. /\ ticks \in [Workers -> TickType] /\ ticks[w] \in TickType
        /\ alerts \in [Alerts -> AlertType] /\ alerts' \in [Alerts -> AlertType]
    BY DEF Shape, TypeOK
  <1>1. CASE Claim(w)
    <2> SUFFICES ASSUME NEW a \in Alerts, NEW t \in Times
                 PROVE  fired'[a][t] + Cardinality(Holders(a, t)') + InRow(a, t)' <= armed'[a][t]
      BY DEF Counted
    <2> DEFINE H == Holders(a, t)
               n == Cardinality(H)
    <2>1. /\ IsFiniteSet(H) /\ n \in Nat /\ fired[a][t] \in Nat /\ armed[a][t] \in Nat
          /\ fired[a][t] + n + InRow(a, t) <= armed[a][t]
          /\ fired' = fired /\ armed' = armed
      BY <1>1, HoldersFinite DEF Shape, TypeOK, Counted, Claim
    <2>2. ticks' = [ticks EXCEPT ![w] =
            [pc |-> "loop", now |-> clock, rows |-> DueRows, row |-> Null]]
      BY <1>1 DEF Claim
    <2>3. CASE Due(a) /\ alerts[a].next = t
      <3>1. InRow(a, t) = 1 /\ InRow(a, t)' = 0
        BY <1>0, <1>1, <2>3, Constants DEF InRow, Claim, AlertType
      <3>2. Holders(a, t)' \subseteq H \cup {w}
        BY <1>0, <2>2 DEF Holders, Holds
      <3>3. IsFiniteSet(H \cup {w}) /\ Cardinality(H \cup {w}) \in {n, n + 1}
        BY <2>1, FS_AddElement
      <3>4. Cardinality(Holders(a, t)') \in Nat /\ Cardinality(Holders(a, t)') <= n + 1
        BY <2>1, <3>2, <3>3, FS_Subset, FS_CardinalityType
      <3> HIDE DEF n
      <3> QED BY <2>1, <3>1, <3>4
    <2>4. CASE ~(Due(a) /\ alerts[a].next = t)
      <3>1. InRow(a, t)' = InRow(a, t) \/ InRow(a, t)' = 0
        BY <1>0, <1>1, <2>4, Constants DEF InRow, Claim, AlertType
      <3>2. Holders(a, t)' \subseteq H
        <4>1. ~\E r \in DueRows : r.id = a /\ r.at = t
          BY <2>4, DueTyped DEF Shape
        <4>2. /\ \A v \in Workers \ {w} : ticks'[v] = ticks[v]
              /\ ticks'[w].rows = DueRows /\ ticks'[w].pc = "loop"
          BY <1>0, <2>2
        <4>3. ~(Holds(w, a, t)')
          BY <4>1, <4>2 DEF Holds, Busy
        <4>4. \A v \in Workers \ {w} : Holds(v, a, t)' <=> Holds(v, a, t)
          BY <4>2 DEF Holds
        <4> QED BY <4>3, <4>4 DEF Holders
      <3>3. Cardinality(Holders(a, t)') \in Nat /\ Cardinality(Holders(a, t)') <= n
        BY <2>1, <3>2, FS_Subset, FS_CardinalityType
      <3>4. InRow(a, t) \in {0, 1}
        BY DEF InRow
      <3> HIDE DEF n
      <3> QED BY <2>1, <3>1, <3>3, <3>4
    <2> QED BY <2>3, <2>4
  <1>2. CASE NextRow(w)
    <2>1. PICK row \in ticks[w].rows :
            ticks' = [ticks EXCEPT ![w].pc = IF row.cron = Null THEN "get" ELSE "reschedule",
                                   ![w].rows = @ \ {row}, ![w].row = row]
      BY <1>2 DEF NextRow
    <2>2. \A a \in Alerts, t \in Times : Holders(a, t)' \subseteq Holders(a, t)
      BY <1>0, <2>1 DEF Holders, Holds, TickType
    <2> QED BY <1>2, <2>2, Dropped DEF NextRow
  <1>3. CASE Reschedule(w)
    <2> DEFINE row == ticks[w].row
               next == NextOccurrence(row.cron, ticks[w].now)
    <2>1. \A a \in Alerts, t \in Times : Holders(a, t)' = Holders(a, t)
      BY <1>0, <1>3 DEF Reschedule, Holders, Holds, Busy, TickType
    <2>2. fired' = fired
      BY <1>3 DEF Reschedule
    <2>3. CASE alerts[row.id].state = "live"
      <3>1. row.id \in Alerts
        BY <1>3 DEF Reschedule, Shape, Loaded, Busy, RowType
      <3>2. Arm(row.id, next) /\ alerts' = [alerts EXCEPT ![row.id].next = next]
        BY <1>3, <2>3 DEF Reschedule
      <3> HIDE DEF row, next
      <3>3. alerts'[row.id].next = next /\ \A b \in Alerts \ {row.id} : alerts'[b] = alerts[b]
        BY <1>0, <3>1, <3>2 DEF AlertType
      <3>4. next \in MaybeTime
        BY <1>0, <3>1, <3>3 DEF AlertType
      <3> QED BY <1>0, <2>1, <2>2, <3>1, <3>2, <3>3, <3>4, Rearm
    <2>4. CASE alerts[row.id].state # "live"
      BY <1>3, <2>1, <2>2, <2>4, Dropped DEF Reschedule
    <2> QED BY <2>3, <2>4
  <1>4. CASE GetAlert(w)
    <2>1. \A a \in Alerts, t \in Times : Holders(a, t)' \subseteq Holders(a, t)
      BY <1>0, <1>4 DEF GetAlert, Holders, Holds, Busy, TickType
    <2> QED BY <1>4, <2>1, Dropped DEF GetAlert
  <1>5. CASE Notify(w)
    <2> SUFFICES ASSUME NEW a \in Alerts, NEW t \in Times
                 PROVE  fired'[a][t] + Cardinality(Holders(a, t)') + InRow(a, t)' <= armed'[a][t]
      BY DEF Counted
    <2> DEFINE row == ticks[w].row
               H == Holders(a, t)
               n == Cardinality(H)
    <2>1. /\ IsFiniteSet(H) /\ n \in Nat /\ fired[a][t] \in Nat /\ armed[a][t] \in Nat
          /\ fired[a][t] + n + InRow(a, t) <= armed[a][t]
          /\ InRow(a, t)' = InRow(a, t) /\ InRow(a, t) \in {0, 1} /\ armed' = armed
      BY <1>5, HoldersFinite DEF Shape, TypeOK, Counted, Notify, InRow
    <2>2. /\ ticks' = [ticks EXCEPT ![w].pc = "loop"]
          /\ ticks[w].pc \in Busy /\ row.id \in Alerts /\ row.at \in Times
          /\ \A r \in ticks[w].rows : r.id # row.id
      BY <1>5 DEF Notify, Busy, Shape, Loaded, RowType
    <2>3. CASE row.id = a /\ row.at = t
      <3>1. w \in H
        BY <2>2, <2>3 DEF Holders, Holds
      <3>2. Holders(a, t)' \subseteq H \ {w}
        BY <1>0, <2>2, <2>3 DEF Holders, Holds, Busy, TickType
      <3>3. IsFiniteSet(H \ {w}) /\ Cardinality(H \ {w}) = n - 1
        BY <2>1, <3>1, FS_RemoveElement
      <3>4. Cardinality(Holders(a, t)') \in Nat /\ Cardinality(Holders(a, t)') <= n - 1
        BY <3>2, <3>3, FS_Subset, FS_CardinalityType
      <3>5. fired'[a][t] = fired[a][t] + 1
        BY <1>5, <2>3 DEF Notify, Shape, TypeOK
      <3> HIDE DEF n
      <3> QED BY <2>1, <3>4, <3>5
    <2>4. CASE ~(row.id = a /\ row.at = t)
      <3>1. Holders(a, t)' \subseteq H
        BY <1>0, <2>2 DEF Holders, Holds, Busy, TickType
      <3>2. Cardinality(Holders(a, t)') \in Nat /\ Cardinality(Holders(a, t)') <= n
        BY <2>1, <3>1, FS_Subset, FS_CardinalityType
      <3>3. fired'[a][t] = fired[a][t]
        BY <1>5, <2>2, <2>4 DEF Notify, Shape, TypeOK
      <3> HIDE DEF n
      <3> QED BY <2>1, <3>2, <3>3
    <2> QED BY <2>3, <2>4
  <1>6. CASE TickRaises(w) \/ EndTick(w) \/ Crash(w)
    <2>1. ticks' = [ticks EXCEPT ![w] = Resting]
      BY <1>6 DEF TickRaises, EndTick, Crash
    <2>2. Resting.rows = {} /\ Resting.pc = "idle"
      BY DEF Resting
    <2> HIDE DEF Resting
    <2>3. \A a \in Alerts, t \in Times : Holders(a, t)' \subseteq Holders(a, t)
      BY <1>0, <2>1, <2>2 DEF Holders, Holds, Busy
    <2> QED BY <1>6, <2>3, Dropped DEF TickRaises, EndTick, Crash
  <1> QED BY <1>1, <1>2, <1>3, <1>4, <1>5, <1>6 DEF Tick

LEMMA InitCounted == Init => Counted
  <1> SUFFICES ASSUME Init, NEW a \in Alerts, NEW t \in Times
               PROVE  fired[a][t] + Cardinality(Holders(a, t)) + InRow(a, t) <= armed[a][t]
    BY DEF Counted
  <1>1. Holders(a, t) = {} /\ InRow(a, t) = 0
    BY Constants DEF Init, Holders, Holds, Resting, Busy, InRow
  <1>2. fired[a][t] = 0 /\ armed[a][t] = 0
    BY DEF Init
  <1> QED BY <1>1, <1>2, FS_EmptySet

LEMMA NextInvariant == Shape /\ Counted /\ [Next]_vars => (Shape /\ Counted)'
  <1> SUFFICES ASSUME Shape, Counted, [Next]_vars PROVE Shape' /\ Counted'
    OBVIOUS
  <1>1. Shape'
    BY NextShape
  <1>2. CASE Advance \/ UNCHANGED vars
    <2>1. ticks' = ticks /\ fired' = fired /\ armed' = armed /\ alerts' = alerts
      BY <1>2 DEF Advance, vars
    <2>2. \A a \in Alerts, t \in Times : Holders(a, t)' \subseteq Holders(a, t)
      BY <2>1 DEF Holders, Holds
    <2> QED BY <1>1, <2>1, <2>2, Dropped
  <1> QED BY <1>1, <1>2, PeopleCounted, TickCounted DEF Next

\* Every row, tick and form has its type in all reachable states.
THEOREM TypeCorrect == Spec => []TypeOK
  <1>1. Shape => TypeOK
    BY DEF Shape
  <1> QED BY <1>1, InitShape, NextShape, PTL DEF Spec

\* However many workers tick at once, an alert is notified at most once for each
\* time its row was given a fire time: the claim parks the row (FOR UPDATE SKIP
\* LOCKED), so that no second worker takes the same time again.
THEOREM OncePerToken == Spec => []NotifiedOnce
  <1>1. Shape /\ Counted => NotifiedOnce
    <2> SUFFICES ASSUME Shape, Counted, NEW a \in Alerts, NEW t \in Times
                 PROVE  fired[a][t] <= armed[a][t]
      BY DEF NotifiedOnce, Shape
    <2>1. /\ fired[a][t] \in Nat /\ armed[a][t] \in Nat /\ InRow(a, t) \in {0, 1}
          /\ Cardinality(Holders(a, t)) \in Nat
          /\ fired[a][t] + Cardinality(Holders(a, t)) + InRow(a, t) <= armed[a][t]
      BY HoldersFinite DEF Shape, TypeOK, Counted, InRow
    <2> QED BY <2>1
  <1> QED BY <1>1, InitShape, InitCounted, NextInvariant, PTL DEF Spec

-----------------------------------------------------------------------------
(* What the alert goes out as, an event like any other (Webhooks): the log of  *)
(* a delivery is its story and no hook is passed over, for any numbers of      *)
(* events, hooks and attempts, whatever administrators edit and delete while   *)
(* dispatches run, and wherever workers end.  While a dispatch is at a hook,   *)
(* the attempts on record are those before its own; once it has left the hook  *)
(* behind, the last of them is final.  A deleted hook has no rows and gets none *)
(* again, which is why the log may be compared with hooks that are there.      *)

Pcs == {"none", "queued", "next", "post", "done", "lost"} \cup Posts!Outcomes
HookRecord == [there : BOOLEAN, enabled : BOOLEAN, filter : SUBSET Posts!Kinds]
RowRecord == [event : Events, hook : Hooks, attempt : 1..MaxAttempts, outcome : Posts!Outcomes]
TaskRecord == [pc : Pcs, left : SUBSET Hooks, at : Hooks \cup {Null}, attempt : 0..MaxAttempts]

\* A dispatch is between a hook's first post and the row of its last.
Trying(t, w) == t.pc \in {"post"} \cup Posts!Outcomes /\ t.at = w
\* It has left hook w behind it.
Behind(t, w) == t.pc \in {"next", "post", "done"} \cup Posts!Outcomes /\ w \notin t.left /\ ~Trying(t, w)

\* What a dispatch knows at each statement.
TaskOK(t) ==
    /\ t \in TaskRecord
    /\ t.pc \in {"post"} \cup Posts!Outcomes => t.at \in Hooks \ t.left /\ t.attempt \in 1..MaxAttempts
    /\ t.pc = "done" => t.left = {}

Kept ==
    /\ hook \in [Hooks -> HookRecord] /\ alert \in BOOLEAN /\ edits \in Nat
    /\ edits <= MaxEdits /\ crashes \in 0..MaxCrashes
    /\ rows \subseteq RowRecord
    /\ DOMAIN task = Events /\ \A e \in Events : TaskOK(task[e])

\* The attempts on record are 1..n, and all before the last were to be tried again.
Numbered(e, w, n) ==
    /\ {r.attempt : r \in Posts!Tries(e, w)} = 1..n
    /\ \A r, s \in Posts!Tries(e, w) : r.attempt = s.attempt => r = s
    /\ \A r \in Posts!Tries(e, w) : r.attempt < n => r.outcome \in Posts!Transient
Passing(e, w) == \A r \in Posts!Tries(e, w) : r.outcome \in Posts!Transient

\* The last attempt was final: by its answer or its number.
Ended(e, w) ==
    \A r \in Posts!Tries(e, w) : r.outcome \in Posts!Transient =>
        r.attempt = MaxAttempts \/ \E s \in Posts!Tries(e, w) : r.attempt < s.attempt

\* The alert of the event is gone.
Closed(e) == KindOf[e] = "alert" /\ ~alert

\* What the log has of a dispatch t of event e at hook w.
Told(e, t, w) ==
    /\ t.pc \in {"none", "queued"} \/ w \in t.left => Posts!Tries(e, w) = {}
    /\ Trying(t, w) /\ hook[w].there => Numbered(e, w, t.attempt - 1) /\ Passing(e, w)
    /\ Behind(t, w) /\ ~Closed(e) => Ended(e, w)

Story ==
    \A e \in Events, w \in Hooks :
        /\ \E n \in 0..MaxAttempts : Numbered(e, w, n)
        /\ ~hook[w].there => Posts!Tries(e, w) = {}
        /\ Told(e, task[e], w)

\* All that administrators did is delete hooks.
Deleted == {w \in Hooks : ~hook[w].there}
OnlyDeleted == edits <= Cardinality(Deleted)
AsMade(w) == hook[w] = [there |-> TRUE, enabled |-> TRUE, filter |-> {}]

\* A dispatch t of event e had its turn at hook w.
Turned(e, t, w) ==
    OnlyDeleted /\ KindOf[e] \in Posts!Kinds /\ hook[w].there /\ Behind(t, w) => Posts!Tries(e, w) # {}

Turns ==
    /\ Cardinality(Deleted) <= edits
    /\ OnlyDeleted => alert /\ \A w \in Hooks : hook[w].there => AsMade(w)
    /\ \A e \in Events, w \in Hooks : Turned(e, task[e], w)

LogInv == Kept /\ Story /\ Turns

-----------------------------------------------------------------------------
LEMMA IdleOK == TaskOK(Posts!Idle)
  <1>1. 0 \in 0..MaxAttempts
    BY AlertingAssumption, AlertAssumption
  <1>2. Posts!Idle \in TaskRecord
    BY <1>1 DEF Posts!Idle, TaskRecord, Pcs
  <1> QED BY <1>2 DEF TaskOK, Posts!Idle, Posts!Outcomes, Posts!Transient

LEMMA LogInit == Posts!Init => LogInv
  <1> SUFFICES ASSUME Posts!Init PROVE LogInv
    OBVIOUS
  <1>1. /\ \A e \in Events : task[e] = Posts!Idle
        /\ \A w \in Hooks : AsMade(w) /\ hook[w].there
        /\ \A e, w : Posts!Tries(e, w) = {}
    BY DEF Posts!Init, AsMade, Posts!Tries
  <1>2. TaskOK(Posts!Idle) /\ Posts!Idle.pc = "none" /\ Posts!Idle.left = {}
    BY IdleOK DEF Posts!Idle
  <1>3. Kept
    <2>1. hook \in [Hooks -> HookRecord]
      BY DEF Posts!Init, HookRecord
    <2>2. alert \in BOOLEAN /\ edits \in Nat /\ edits <= MaxEdits /\ crashes \in 0..MaxCrashes
      BY AlertingAssumption, AlertAssumption DEF Posts!Init
    <2>3. DOMAIN task = Events /\ \A e \in Events : TaskOK(task[e])
      BY <1>1, <1>2 DEF Posts!Init
    <2> QED BY <2>1, <2>2, <2>3 DEF Posts!Init, Kept
  <1>4. \A e, w : Numbered(e, w, 0)
    BY <1>1 DEF Numbered
  <1>5. \A w : ~Trying(Posts!Idle, w) /\ ~Behind(Posts!Idle, w)
    BY <1>2 DEF Trying, Behind, Posts!Outcomes, Posts!Transient
  <1>9. Story
    <2>1. 0 \in 0..MaxAttempts
      BY AlertingAssumption, AlertAssumption
    <2>2. \A e, w : Told(e, Posts!Idle, w)
      BY <1>1, <1>5 DEF Told
    <2> QED BY <1>1, <1>4, <2>1, <2>2 DEF Story
  <1>6. Deleted = {}
    BY <1>1 DEF Deleted
  <1>7. Cardinality(Deleted) = 0
    BY <1>6, FS_EmptySet
  <1>8. Turns
    <2>1. edits = 0 /\ alert
      BY DEF Posts!Init
    <2>2. \A e, w : Turned(e, Posts!Idle, w)
      BY <1>5 DEF Turned
    <2> QED BY <1>1, <1>7, <2>1, <2>2 DEF Turns
  <1> QED BY <1>3, <1>8, <1>9 DEF LogInv

LEMMA SameNumbers ==
    ASSUME NEW e, NEW w, Posts!Tries(e, w)' = Posts!Tries(e, w)
    PROVE  \A n : Numbered(e, w, n)' <=> Numbered(e, w, n)
  BY DEF Numbered

\* What holds of a dispatch where its log is the same, and hooks and alert are
\* there only if they were.
LEMMA Carried ==
    ASSUME NEW e, NEW w, NEW t, task'[e] = t, Posts!Tries(e, w)' = Posts!Tries(e, w),
           hook'[w].there => hook[w].there, alert' => alert, OnlyDeleted' => OnlyDeleted,
           Told(e, t, w), Turned(e, t, w)
    PROVE  Told(e, task[e], w)' /\ Turned(e, task[e], w)'
  <1>1. \A n : Numbered(e, w, n)' <=> Numbered(e, w, n)
    BY SameNumbers
  <1>2. (Ended(e, w)' <=> Ended(e, w)) /\ (Passing(e, w)' <=> Passing(e, w))
    BY DEF Ended, Passing
  <1>3. Closed(e) => Closed(e)'
    BY DEF Closed
  <1>4. \A v : (Trying(task[e], v)' <=> Trying(t, v)) /\ (Behind(task[e], v)' <=> Behind(t, v))
    BY DEF Trying, Behind
  <1>5. Told(e, task[e], w)'
    BY <1>1, <1>2, <1>3, <1>4 DEF Told
  <1>6. Turned(e, task[e], w)'
    BY <1>4 DEF Turned
  <1> QED BY <1>5, <1>6

\* A dispatch moves on and writes nothing.
LEMMA TaskMoves ==
    ASSUME LogInv, NEW e \in Events, NEW t, TaskOK(t), task' = [task EXCEPT ![e] = t],
           UNCHANGED <<hook, alert, rows, edits>>, crashes' \in 0..MaxCrashes,
           \A w \in Hooks : Told(e, t, w) /\ Turned(e, t, w)
    PROVE  LogInv'
  <1> USE DEF LogInv
  <1>1. DOMAIN task' = Events /\ task'[e] = t /\ \A f \in Events : f # e => task'[f] = task[f]
    BY DEF Kept
  <1>2. Kept'
    BY <1>1 DEF Kept, TaskOK
  <1>3. /\ \A f, w : Posts!Tries(f, w)' = Posts!Tries(f, w)
        /\ Deleted' = Deleted /\ (OnlyDeleted' <=> OnlyDeleted)
    BY DEF Posts!Tries, Deleted, OnlyDeleted
  <1>4. ASSUME NEW f \in Events, NEW w \in Hooks
        PROVE  Told(f, task[f], w)' /\ Turned(f, task[f], w)'
    <2>1. PICK u : u = task'[f]
      OBVIOUS
    <2>2. Told(f, u, w) /\ Turned(f, u, w)
      BY <1>1, <2>1 DEF Story, Turns
    <2> QED BY <1>3, <2>1, <2>2, Carried
  <1>5. Story'
    <2>1. \A f, w, n : Numbered(f, w, n)' <=> Numbered(f, w, n)
      BY <1>3, SameNumbers
    <2> QED BY <1>3, <1>4, <2>1 DEF Story
  <1>6. Turns'
    BY <1>3, <1>4 DEF Turns, AsMade
  <1> QED BY <1>2, <1>5, <1>6

LEMMA BeginsKeep ==
    ASSUME LogInv, NEW e \in Events, Posts!Emit(e) \/ Posts!Ping(e) \/ Posts!ReadHooks(e)
    PROVE  LogInv'
  <1>0. /\ TaskOK(task[e]) /\ UNCHANGED <<hook, alert, rows, edits>> /\ crashes' \in 0..MaxCrashes
        /\ task[e].pc \in {"none", "queued"}
    <2>1. TaskOK(task[e]) /\ crashes \in 0..MaxCrashes
      BY DEF LogInv, Kept
    <2>2. UNCHANGED <<hook, alert, rows, edits, crashes>> /\ (task[e] = Posts!Idle \/ task[e].pc = "queued")
      BY DEF Posts!Emit, Posts!Ping, Posts!ReadHooks, Posts!Quiet
    <2> QED BY <2>1, <2>2 DEF Posts!Idle
  <1>1. \A w \in Hooks : Posts!Tries(e, w) = {}
    BY <1>0 DEF LogInv, Story, Told
  <1>2. \A w \in Hooks : Ended(e, w)
    BY <1>1 DEF Ended
  <1>3. PICK t : /\ t.pc \in {"queued", "next"} /\ TaskOK(t) /\ task' = [task EXCEPT ![e] = t]
                 /\ t.pc = "next" /\ KindOf[e] \in Posts!Kinds => t.left = Posts!Matching(KindOf[e])
    <2>1. CASE Posts!Emit(e)
      <3>1. TaskOK([Posts!Idle EXCEPT !.pc = "queued"])
        BY IdleOK DEF TaskOK, TaskRecord, Pcs, Posts!Idle, Posts!Outcomes, Posts!Transient
      <3>2. [Posts!Idle EXCEPT !.pc = "queued"].pc = "queued"
        BY DEF Posts!Idle
      <3> QED BY <2>1, <3>1, <3>2 DEF Posts!Emit, Posts!Set
    <2>2. CASE Posts!Ping(e)
      <3>1. PICK w \in Hooks : task' = [task EXCEPT ![e] = [Posts!Idle EXCEPT !.pc = "next", !.left = {w}]]
        BY <2>2 DEF Posts!Ping, Posts!Set
      <3>2. TaskOK([Posts!Idle EXCEPT !.pc = "next", !.left = {w}])
        BY IdleOK DEF TaskOK, TaskRecord, Pcs, Posts!Idle, Posts!Outcomes, Posts!Transient
      <3>3. [Posts!Idle EXCEPT !.pc = "next", !.left = {w}].pc = "next" /\ KindOf[e] \notin Posts!Kinds
        BY <2>2 DEF Posts!Idle, Posts!Ping, Posts!Kinds
      <3> QED BY <3>1, <3>2, <3>3
    <2>3. CASE Posts!ReadHooks(e)
      <3> DEFINE t == [task[e] EXCEPT !.pc = "next", !.left = Posts!Matching(KindOf[e])]
      <3>1. t.pc = "next" /\ t.left = Posts!Matching(KindOf[e])
        BY <1>0 DEF TaskOK, TaskRecord
      <3>2. Posts!Matching(KindOf[e]) \subseteq Hooks
        BY DEF Posts!Matching
      <3>3. TaskOK(t)
        BY <1>0, <3>2 DEF TaskOK, TaskRecord, Pcs, Posts!Outcomes, Posts!Transient
      <3>4. task' = [task EXCEPT ![e] = t]
        BY <2>3 DEF Posts!ReadHooks, Posts!Set
      <3> QED BY <3>1, <3>3, <3>4
    <2> QED BY <2>1, <2>2, <2>3
  <1>4. ASSUME NEW w \in Hooks PROVE Told(e, t, w) /\ Turned(e, t, w)
    <2>1. ~Trying(t, w)
      BY <1>3 DEF Trying, Posts!Outcomes, Posts!Transient
    <2>2. Told(e, t, w)
      BY <1>1, <1>2, <2>1 DEF Told
    <2>3. OnlyDeleted /\ KindOf[e] \in Posts!Kinds /\ hook[w].there => w \in Posts!Matching(KindOf[e])
      BY DEF LogInv, Turns, AsMade, Posts!Matching
    <2>4. Turned(e, t, w)
      BY <1>3, <2>3 DEF Turned, Behind, Posts!Outcomes, Posts!Transient
    <2> QED BY <2>2, <2>4
  <1> QED BY <1>0, <1>3, <1>4, TaskMoves

LEMMA PostsKeep ==
    ASSUME LogInv, NEW e \in Events,
           Posts!NextHook(e) \/ Posts!Post(e) \/ Posts!LogFails(e) \/ Posts!Crash(e)
    PROVE  LogInv'
  <1>0. /\ TaskOK(task[e]) /\ UNCHANGED <<hook, alert, rows, edits>> /\ crashes' \in 0..MaxCrashes
    <2>1. TaskOK(task[e]) /\ crashes \in 0..MaxCrashes
      BY DEF LogInv, Kept
    <2>2. /\ UNCHANGED <<hook, alert, rows, edits>>
          /\ crashes' = crashes \/ (crashes < MaxCrashes /\ crashes' = crashes + 1)
      BY DEF Posts!NextHook, Posts!Post, Posts!LogFails, Posts!Crash, Posts!Quiet
    <2> QED BY <2>1, <2>2, AlertingAssumption, AlertAssumption
  <1>1. \A w \in Hooks : Told(e, task[e], w) /\ Turned(e, task[e], w)
    BY DEF LogInv, Story, Turns
  <1>2. CASE /\ task[e].pc = "next" /\ task[e].left = {}
             /\ Posts!Set(e, [task[e] EXCEPT !.pc = "done", !.at = Null])
    <2>1. PICK t : t = [task[e] EXCEPT !.pc = "done", !.at = Null]
      OBVIOUS
    <2>2. TaskOK(t) /\ t.pc = "done" /\ t.left = {}
      BY <1>0, <1>2, <2>1 DEF TaskOK, TaskRecord, Pcs, Posts!Outcomes, Posts!Transient
    <2>3. \A w : ~Trying(t, w) /\ Behind(task[e], w)
      BY <1>2, <2>2 DEF Trying, Behind, Posts!Outcomes, Posts!Transient
    <2>4. \A w \in Hooks : Told(e, t, w) /\ Turned(e, t, w)
      BY <1>1, <2>2, <2>3 DEF Told, Turned
    <2> QED BY <1>0, <1>2, <2>1, <2>2, <2>4, TaskMoves DEF Posts!Set
  <1>3. ASSUME NEW v \in task[e].left, task[e].pc = "next",
               Posts!Set(e, [pc |-> "post", left |-> task[e].left \ {v}, at |-> v, attempt |-> 1])
        PROVE  LogInv'
    <2>1. PICK t : t = [pc |-> "post", left |-> task[e].left \ {v}, at |-> v, attempt |-> 1]
      OBVIOUS
    <2>2. TaskOK(t) /\ v \in Hooks
      <3>1. 1 \in 1..MaxAttempts /\ 1 \in 0..MaxAttempts
        BY AlertingAssumption, AlertAssumption
      <3>2. v \in Hooks /\ task[e].left \subseteq Hooks
        BY <1>0 DEF TaskOK, TaskRecord
      <3> QED BY <2>1, <3>1, <3>2 DEF TaskOK, TaskRecord, Pcs
    <2>3. Posts!Tries(e, v) = {}
      BY <1>1, <2>2 DEF Told
    <2>4. Numbered(e, v, 0) /\ Passing(e, v) /\ t.attempt - 1 = 0
      BY <2>1, <2>3 DEF Numbered, Passing
    <2>5. ASSUME NEW w \in Hooks PROVE Told(e, t, w) /\ Turned(e, t, w)
      <3>1. Trying(t, w) => w = v
        BY <2>1 DEF Trying
      <3>2. Behind(t, w) => Behind(task[e], w)
        BY <1>3, <2>1 DEF Behind, Trying, Posts!Outcomes, Posts!Transient
      <3>3. t.pc = "post" /\ (w \in t.left => w \in task[e].left)
        BY <2>1
      <3> QED BY <1>1, <2>4, <3>1, <3>2, <3>3 DEF Told, Turned
    <2> QED BY <1>0, <1>3, <2>1, <2>2, <2>5, TaskMoves DEF Posts!Set
  <1>4. CASE Posts!Post(e)
    <2>1. PICK o \in Posts!Outcomes : task[e].pc = "post" /\ task' = [task EXCEPT ![e] = [task[e] EXCEPT !.pc = o]]
      BY <1>4 DEF Posts!Post, Posts!Set
    <2>2. PICK t : t = [task[e] EXCEPT !.pc = o]
      OBVIOUS
    <2>3. TaskOK(t) /\ t.pc = o /\ t.left = task[e].left /\ t.at = task[e].at /\ t.attempt = task[e].attempt
      BY <1>0, <2>1, <2>2 DEF TaskOK, TaskRecord, Pcs, Posts!Outcomes, Posts!Transient
    <2>4. \A w : (Trying(t, w) <=> Trying(task[e], w)) /\ (Behind(t, w) <=> Behind(task[e], w))
      BY <2>1, <2>3 DEF Trying, Behind
    <2>5. \A w \in Hooks : Told(e, t, w) /\ Turned(e, t, w)
      BY <1>1, <2>3, <2>4 DEF Told, Turned, Posts!Outcomes, Posts!Transient
    <2> QED BY <1>0, <2>1, <2>2, <2>3, <2>5, TaskMoves
  <1>5. CASE Posts!LogFails(e)
    <2>1. PICK t : t = [task[e] EXCEPT !.pc = "next"]
      OBVIOUS
    <2>2. task[e].pc \in Posts!Outcomes /\ ~Posts!Loggable(e) /\ task' = [task EXCEPT ![e] = t]
      BY <1>5, <2>1 DEF Posts!LogFails, Posts!Set
    <2>3. TaskOK(t) /\ t.pc = "next" /\ t.left = task[e].left
      BY <1>0, <2>1 DEF TaskOK, TaskRecord, Pcs, Posts!Outcomes, Posts!Transient
    <2>4. PICK v \in Hooks : v = task[e].at
      BY <1>0, <2>2 DEF TaskOK
    <2>5. (Closed(e) \/ ~hook[v].there) /\ (Closed(e) => ~alert)
      BY <2>2, <2>4 DEF Posts!Loggable, Closed
    <2>6. ~hook[v].there => Posts!Tries(e, v) = {} /\ Ended(e, v)
      BY DEF LogInv, Story, Ended
    <2>7. OnlyDeleted => alert
      BY DEF LogInv, Turns
    <2>8. ASSUME NEW w \in Hooks PROVE Told(e, t, w) /\ Turned(e, t, w)
      <3>1. ~Trying(t, w)
        BY <2>3 DEF Trying, Posts!Outcomes, Posts!Transient
      <3>2. Behind(t, w) => w = v \/ Behind(task[e], w)
        BY <2>2, <2>3, <2>4 DEF Behind, Trying
      <3>3. Told(e, t, w)
        BY <1>1, <2>3, <2>5, <2>6, <3>1, <3>2 DEF Told
      <3>4. Turned(e, t, w)
        BY <1>1, <2>5, <2>7, <3>2 DEF Turned
      <3> QED BY <3>3, <3>4
    <2> QED BY <1>0, <2>2, <2>3, <2>8, TaskMoves
  <1>6. CASE Posts!Crash(e)
    <2>1. PICK t : t = [task[e] EXCEPT !.pc = "lost"]
      OBVIOUS
    <2>3. TaskOK(t) /\ t.pc = "lost" /\ t.left = task[e].left
      BY <1>0, <2>1 DEF TaskOK, TaskRecord, Pcs, Posts!Outcomes, Posts!Transient
    <2>4. \A w : ~Trying(t, w) /\ ~Behind(t, w)
      BY <2>3 DEF Trying, Behind, Posts!Outcomes, Posts!Transient
    <2>5. \A w \in Hooks : Told(e, t, w) /\ Turned(e, t, w)
      BY <1>1, <2>3, <2>4 DEF Told, Turned
    <2>6. task' = [task EXCEPT ![e] = t]
      BY <1>6, <2>1 DEF Posts!Crash, Posts!Set
    <2> QED BY <1>0, <2>3, <2>5, <2>6, TaskMoves
  <1> QED BY <1>2, <1>3, <1>4, <1>5, <1>6 DEF Posts!NextHook

\* A row more, with the number that comes next.
LEMMA LogKeeps ==
    ASSUME LogInv, NEW e \in Events, Posts!Log(e)
    PROVE  LogInv'
  <1> USE DEF LogInv
  <1>0. /\ TaskOK(task[e]) /\ task[e].pc \in Posts!Outcomes /\ Posts!Loggable(e) /\ rows' = Posts!LogRow(e)
        /\ UNCHANGED <<hook, alert, edits, crashes>>
    BY DEF Kept, Posts!Log
  <1>1. PICK h \in Hooks, k \in 1..MaxAttempts, o \in Posts!Outcomes :
          h = task[e].at /\ k = task[e].attempt /\ o = task[e].pc /\ h \notin task[e].left
    BY <1>0 DEF TaskOK
  <1>2. PICK new : new = [event |-> e, hook |-> h, attempt |-> k, outcome |-> o]
    OBVIOUS
  <1>3. /\ new \in RowRecord /\ new.event = e /\ new.hook = h /\ new.attempt = k /\ new.outcome = o
        /\ rows' = rows \cup {new} /\ k \in Nat /\ k - 1 \in Nat
    BY <1>0, <1>1, <1>2 DEF RowRecord, Posts!LogRow
  <1>4. /\ Posts!Tries(e, h)' = Posts!Tries(e, h) \cup {new}
        /\ \A f, w : f # e \/ w # h => Posts!Tries(f, w)' = Posts!Tries(f, w)
    BY <1>3 DEF Posts!Tries
  <1>5. hook[h].there /\ Numbered(e, h, k - 1) /\ Passing(e, h)
    <2>1. hook[h].there
      BY <1>0, <1>1 DEF Posts!Loggable
    <2>2. Trying(task[e], h) /\ Told(e, task[e], h)
      BY <1>0, <1>1 DEF Trying, Story
    <2> QED BY <1>1, <2>1, <2>2 DEF Told
  <1>6. \A r \in Posts!Tries(e, h) : r.attempt \in 1..(k - 1) /\ r.outcome \in Posts!Transient
    BY <1>5 DEF Numbered, Passing
  <1>7. Numbered(e, h, k)'
    <2>1. {r.attempt : r \in Posts!Tries(e, h)} = 1..(k - 1)
      BY <1>5 DEF Numbered
    <2>2. {r.attempt : r \in Posts!Tries(e, h) \cup {new}} = 1..(k - 1) \cup {k}
      BY <1>3, <2>1
    <2>3. 1..(k - 1) \cup {k} = 1..k
      BY <1>3
    <2>4. \A r, s \in Posts!Tries(e, h)' : r.attempt = s.attempt => r = s
      BY <1>3, <1>4, <1>5, <1>6 DEF Numbered
    <2>5. \A r \in Posts!Tries(e, h)' : r.attempt < k => r.outcome \in Posts!Transient
      BY <1>3, <1>4, <1>6
    <2> QED BY <1>4, <2>2, <2>3, <2>4, <2>5 DEF Numbered
  <1>8. PICK t :
          /\ task' = [task EXCEPT ![e] = t] /\ TaskOK(t) /\ t.left = task[e].left /\ t.at = h
          /\ \/ t.pc = "post" /\ t.attempt = k + 1 /\ o \in Posts!Transient
             \/ t.pc = "next" /\ (o \notin Posts!Transient \/ k = MaxAttempts)
    <2>1. CASE o \in Posts!Transient /\ k < MaxAttempts
      <3> DEFINE t == [task[e] EXCEPT !.pc = "post", !.attempt = k + 1]
      <3>1. task' = [task EXCEPT ![e] = t]
        BY <1>0, <1>1, <2>1 DEF Posts!Log, Posts!Set
      <3>2. k + 1 \in 1..MaxAttempts
        BY <1>3, <2>1, AlertingAssumption, AlertAssumption
      <3>3. t.left = task[e].left /\ t.at = h /\ t.pc = "post" /\ t.attempt = k + 1
        BY <1>0, <1>1 DEF TaskOK, TaskRecord
      <3>4. t \in TaskRecord
        <4>1. k + 1 \in 0..MaxAttempts
          BY <3>2
        <4> QED BY <1>0, <4>1 DEF TaskOK, TaskRecord, Pcs
      <3>5. TaskOK(t)
        BY <1>1, <3>2, <3>3, <3>4 DEF TaskOK
      <3> QED BY <2>1, <3>1, <3>3, <3>5
    <2>2. CASE ~(o \in Posts!Transient /\ k < MaxAttempts)
      <3> DEFINE t == [task[e] EXCEPT !.pc = "next"]
      <3>1. task' = [task EXCEPT ![e] = t]
        BY <1>0, <1>1, <2>2 DEF Posts!Log, Posts!Set
      <3>2. o \notin Posts!Transient \/ k = MaxAttempts
        BY <1>1, <2>2, AlertingAssumption, AlertAssumption
      <3>3. t.left = task[e].left /\ t.at = h /\ t.pc = "next"
        BY <1>0, <1>1 DEF TaskOK, TaskRecord
      <3>4. TaskOK(t)
        BY <1>0, <1>1 DEF TaskOK, TaskRecord, Pcs, Posts!Outcomes, Posts!Transient
      <3> QED BY <3>1, <3>2, <3>3, <3>4
    <2> QED BY <2>1, <2>2
  <1>9. DOMAIN task' = Events /\ task'[e] = t /\ \A f \in Events : f # e => task'[f] = task[f]
    BY <1>8 DEF Kept
  <1>10. Kept'
    <2>1. rows' \subseteq RowRecord
      BY <1>3 DEF Kept
    <2>2. \A f \in Events : TaskOK(task'[f])
      BY <1>8, <1>9 DEF Kept
    <2> QED BY <1>0, <1>9, <2>1, <2>2 DEF Kept, TaskOK
  <1>11. Deleted' = Deleted /\ (OnlyDeleted' <=> OnlyDeleted)
    BY <1>0 DEF Deleted, OnlyDeleted
  <1>12. ASSUME NEW f \in Events, NEW w \in Hooks, f # e \/ w # h
         PROVE  Told(f, task[f], w)' /\ Turned(f, task[f], w)'
    <2>1. Told(f, task[f], w) /\ Turned(f, task[f], w)
      BY DEF Story, Turns
    <2>2. PICK u : u = task'[f]
      OBVIOUS
    <2>3. CASE f # e
      BY <1>0, <1>4, <1>9, <1>11, <2>1, <2>2, <2>3, Carried
    <2>4. CASE f = e
      <3>1. u = t /\ w # h
        BY <1>9, <1>12, <2>2, <2>4
      <3>2. ~Trying(u, w)
        BY <1>8, <3>1 DEF Trying
      <3>3. Behind(u, w) => Behind(task[e], w)
        BY <1>0, <1>1, <1>8, <3>1 DEF Behind, Trying
      <3>4. u.pc \notin {"none", "queued"} /\ u.left = task[e].left
        BY <1>8, <3>1
      <3>5. Told(f, u, w) /\ Turned(f, u, w)
        BY <2>1, <2>4, <3>2, <3>3, <3>4 DEF Told, Turned
      <3> QED BY <1>0, <1>4, <1>11, <1>12, <2>2, <3>5, Carried
    <2> QED BY <2>3, <2>4
  <1>13. Told(e, task[e], h)' /\ Turned(e, task[e], h)'
    <2>1. h \notin task'[e].left /\ task'[e].pc \notin {"none", "queued"}
      BY <1>1, <1>8, <1>9
    <2>2. CASE t.pc = "post" /\ t.attempt = k + 1 /\ o \in Posts!Transient
      <3>1. Numbered(e, h, task[e].attempt - 1)'
        <4>1. task'[e].attempt - 1 = k
          BY <1>3, <1>9, <2>2
        <4> QED BY <1>7, <4>1 DEF Numbered
      <3>2. Passing(e, h)'
        BY <1>3, <1>4, <1>6, <2>2 DEF Passing
      <3>3. ~Behind(task[e], h)'
        BY <1>8, <1>9, <2>2 DEF Behind, Trying
      <3> QED BY <2>1, <3>1, <3>2, <3>3 DEF Told, Turned
    <2>3. CASE t.pc = "next" /\ (o \notin Posts!Transient \/ k = MaxAttempts)
      <3>1. ~Trying(task[e], h)'
        BY <1>9, <2>3 DEF Trying, Posts!Outcomes, Posts!Transient
      <3>2. Ended(e, h)'
        BY <1>3, <1>4, <1>6, <2>3 DEF Ended
      <3>3. Posts!Tries(e, h)' # {}
        BY <1>4
      <3> QED BY <2>1, <3>1, <3>2, <3>3 DEF Told, Turned
    <2> QED BY <1>8, <2>2, <2>3
  <1>14. \A f \in Events, w \in Hooks : Told(f, task[f], w)' /\ Turned(f, task[f], w)'
    BY <1>12, <1>13
  <1>15. Story'
    <2>1. ASSUME NEW f \in Events, NEW w \in Hooks
          PROVE  \E n \in 0..MaxAttempts : Numbered(f, w, n)'
      <3>1. CASE f # e \/ w # h
        BY <1>4, <3>1, SameNumbers DEF Story
      <3>2. CASE f = e /\ w = h
        BY <1>3, <1>7, <3>2
      <3> QED BY <3>1, <3>2
    <2>2. \A f \in Events, w \in Hooks : ~hook'[w].there => Posts!Tries(f, w)' = {}
      BY <1>0, <1>4, <1>5 DEF Story
    <2> QED BY <1>14, <2>1, <2>2 DEF Story
  <1>16. Turns'
    BY <1>0, <1>11, <1>14 DEF Turns, AsMade
  <1> QED BY <1>10, <1>15, <1>16

\* A deleted hook takes its own rows with it; any other edit is more than that.
LEMMA EditsKeepLog ==
    ASSUME LogInv,
           Posts!DeleteAlert \/ \E w \in Hooks : Posts!UpdateHook(w) \/ Posts!DeleteHook(w)
    PROVE  LogInv'
  <1> USE DEF LogInv
  <1>0. edits < MaxEdits /\ edits' = edits + 1 /\ UNCHANGED <<task, crashes>>
    BY DEF Posts!DeleteAlert, Posts!UpdateHook, Posts!DeleteHook, Posts!Edit
  <1>1. /\ IsFiniteSet(Deleted) /\ Cardinality(Deleted) \in Nat
    <2>1. Deleted \subseteq Hooks
      BY DEF Deleted
    <2> QED BY <2>1, FS_Subset, FS_CardinalityType, AlertingAssumption, AlertAssumption
  <1>2. edits' \in Nat /\ edits' <= MaxEdits
    BY <1>0, AlertingAssumption, AlertAssumption DEF Kept
  <1>3. CASE Posts!DeleteAlert \/ \E w \in Hooks : Posts!UpdateHook(w)
    <2>1. /\ rows' = rows /\ hook' \in [Hooks -> HookRecord] /\ alert' \in BOOLEAN
          /\ \A w \in Hooks : hook'[w].there <=> hook[w].there
          /\ alert' => alert
      <3>1. CASE Posts!DeleteAlert
        BY <3>1 DEF Posts!DeleteAlert, Kept
      <3>2. ASSUME NEW v \in Hooks, Posts!UpdateHook(v)
            PROVE  /\ rows' = rows /\ alert' = alert /\ hook' \in [Hooks -> HookRecord]
                   /\ \A w \in Hooks : hook'[w].there <=> hook[w].there
        <4>1. PICK on \in BOOLEAN, filter \in {{}} \cup {{k} : k \in Posts!Kinds} :
                hook' = [hook EXCEPT ![v] = [there |-> TRUE, enabled |-> on, filter |-> filter]]
          BY <3>2 DEF Posts!UpdateHook
        <4>2. [there |-> TRUE, enabled |-> on, filter |-> filter] \in HookRecord
          BY DEF HookRecord
        <4> QED BY <3>2, <4>1, <4>2 DEF Posts!UpdateHook, Kept
      <3> QED BY <1>3, <3>1, <3>2 DEF Kept
    <2>2. Deleted' = Deleted /\ \A e, w : Posts!Tries(e, w)' = Posts!Tries(e, w)
      BY <2>1 DEF Deleted, Posts!Tries
    <2>3. ~OnlyDeleted' /\ Cardinality(Deleted)' <= edits'
      BY <1>0, <1>1, <2>2 DEF OnlyDeleted, Turns, Kept
    <2>4. Kept'
      BY <1>0, <1>2, <2>1 DEF Kept, TaskOK
    <2>5. ASSUME NEW e \in Events, NEW w \in Hooks PROVE Told(e, task[e], w)' /\ Turned(e, task[e], w)'
      <3>1. PICK u : u = task'[e]
        OBVIOUS
      <3>2. Told(e, u, w) /\ Turned(e, u, w)
        BY <1>0, <3>1 DEF Story, Turns
      <3> QED BY <2>1, <2>2, <2>3, <3>1, <3>2, Carried
    <2>6. \A e, w, n : Numbered(e, w, n)' <=> Numbered(e, w, n)
      BY <2>2, SameNumbers
    <2>7. Story'
      BY <2>1, <2>2, <2>5, <2>6 DEF Story
    <2>8. Turns'
      BY <2>3, <2>5 DEF Turns
    <2> QED BY <2>4, <2>7, <2>8
  <1>4. ASSUME NEW v \in Hooks, Posts!DeleteHook(v) PROVE LogInv'
    <2>1. /\ hook[v].there /\ hook' = [hook EXCEPT ![v].there = FALSE]
          /\ rows' = {r \in rows : r.hook # v} /\ alert' = alert
      BY <1>4 DEF Posts!DeleteHook
    <2>2. /\ hook' \in [Hooks -> HookRecord] /\ ~hook'[v].there
          /\ \A w \in Hooks : w # v => hook'[w] = hook[w]
      <3>1. hook[v] \in HookRecord /\ DOMAIN hook = Hooks
        BY DEF Kept
      <3>2. [hook[v] EXCEPT !.there = FALSE] \in HookRecord
        BY <3>1 DEF HookRecord
      <3>3. ~[hook[v] EXCEPT !.there = FALSE].there
        BY <3>1 DEF HookRecord
      <3>4. hook' = [hook EXCEPT ![v] = [hook[v] EXCEPT !.there = FALSE]]
        BY <2>1
      <3> QED BY <3>2, <3>3, <3>4 DEF Kept
    <2>3. /\ \A e : Posts!Tries(e, v)' = {}
          /\ \A e, w : w # v => Posts!Tries(e, w)' = Posts!Tries(e, w)
      BY <2>1 DEF Posts!Tries
    <2>4. Deleted' = Deleted \cup {v} /\ v \notin Deleted
      BY <2>1, <2>2 DEF Deleted
    <2>5. Cardinality(Deleted)' = Cardinality(Deleted) + 1
      BY <1>1, <2>4, FS_AddElement
    <2>6. /\ OnlyDeleted' <=> OnlyDeleted
          /\ Cardinality(Deleted)' <= edits'
      BY <1>0, <1>1, <2>5 DEF OnlyDeleted, Turns, Kept
    <2>7. Kept'
      BY <1>0, <1>2, <2>1, <2>2 DEF Kept, TaskOK
    <2>8. ASSUME NEW e \in Events, NEW w \in Hooks PROVE Told(e, task[e], w)' /\ Turned(e, task[e], w)'
      <3>1. CASE w = v
        <4>1. Posts!Tries(e, w)' = {} /\ ~hook'[w].there
          BY <2>2, <2>3, <3>1
        <4> QED BY <4>1 DEF Told, Turned, Ended
      <3>2. CASE w # v
        <4>1. PICK u : u = task'[e]
          OBVIOUS
        <4>2. Told(e, u, w) /\ Turned(e, u, w)
          BY <1>0, <4>1 DEF Story, Turns
        <4>3. Posts!Tries(e, w)' = Posts!Tries(e, w) /\ (hook'[w].there => hook[w].there)
          BY <2>2, <2>3, <3>2
        <4> QED BY <2>1, <2>6, <4>1, <4>2, <4>3, Carried
      <3> QED BY <3>1, <3>2
    <2>9. Story'
      <3>1. ASSUME NEW e \in Events, NEW w \in Hooks
            PROVE  \E n \in 0..MaxAttempts : Numbered(e, w, n)'
        <4>1. CASE w = v
          <5>1. Numbered(e, w, 0)'
            BY <2>3, <4>1 DEF Numbered
          <5>2. 0 \in 0..MaxAttempts
            BY AlertingAssumption, AlertAssumption
          <5> QED BY <5>1, <5>2
        <4>2. CASE w # v
          BY <2>3, <4>2, SameNumbers DEF Story
        <4> QED BY <4>1, <4>2
      <3>2. \A e \in Events, w \in Hooks : ~hook'[w].there => Posts!Tries(e, w)' = {}
        BY <2>2, <2>3 DEF Story
      <3> QED BY <2>8, <3>1, <3>2 DEF Story
    <2>10. Turns'
      BY <2>1, <2>2, <2>6, <2>8 DEF Turns, AsMade
    <2> QED BY <2>7, <2>9, <2>10
  <1> QED BY <1>3, <1>4

LEMMA LogNext ==
    ASSUME LogInv, [Posts!Next]_Posts!vars
    PROVE  LogInv'
  <1>1. CASE UNCHANGED Posts!vars
    BY <1>1 DEF Posts!vars, LogInv, Kept, TaskOK, Story, Told, Trying, Behind, Numbered, Passing, Ended,
                Closed, Posts!Tries, Turns, Turned, OnlyDeleted, Deleted, AsMade
  <1>2. ASSUME NEW e \in Events, Posts!Emit(e) \/ Posts!Ping(e) \/ Posts!Step(e) \/ Posts!Crash(e)
        PROVE  LogInv'
    BY <1>2, BeginsKeep, PostsKeep, LogKeeps DEF Posts!Step
  <1> QED BY <1>1, <1>2, EditsKeepLog DEF Posts!Next

\* As many rows as the last one's number says.
LEMMA Counting ==
    ASSUME LogInv, NEW e, NEW w, NEW n \in Nat, Numbered(e, w, n)
    PROVE  /\ Cardinality(Posts!Tries(e, w)) = n
           /\ Posts!Tries(e, w) # {} =>
                Posts!Last(e, w) \in Posts!Tries(e, w) /\ Posts!Last(e, w).attempt = n
  <1> DEFINE T == Posts!Tries(e, w)
  <1>1. \A r \in T : r.attempt \in 1..n
    BY DEF Numbered
  <1>2. \A k \in 1..n : \E r \in T : r.attempt = k
    BY DEF Numbered
  <1>3. Cardinality(T) = n
    <2> DEFINE f == [r \in T |-> r.attempt]
    <2>1. f \in [T -> 1..n]
      BY <1>1
    <2>2. f \in Injection(T, 1..n)
      BY <2>1 DEF Injection, IsInjective, Numbered
    <2>3. f \in Surjection(T, 1..n)
      BY <1>2, <2>1 DEF Surjection
    <2>4. IsFiniteSet(1..n) /\ Cardinality(1..n) = n
      BY FS_Interval
    <2> HIDE DEF f
    <2> QED BY <2>2, <2>3, <2>4, FS_Injection
  <1>4. ASSUME T # {} PROVE Posts!Last(e, w) \in T /\ Posts!Last(e, w).attempt = n
    <2>1. n \in 1..n
      BY <1>1, <1>4
    <2>2. PICK r \in T : r.attempt = n
      BY <1>2, <2>1
    <2>3. \A s \in T : s.attempt <= r.attempt
      BY <1>1, <2>2
    <2>4. Posts!Last(e, w) \in T /\ \A s \in T : s.attempt <= Posts!Last(e, w).attempt
      BY <2>2, <2>3 DEF Posts!Last
    <2> QED BY <1>1, <2>2, <2>4
  <1> QED BY <1>3, <1>4

\* The instance counts as this module does.
LEMMA PostsCount == \A S : Posts!Cardinality(S) = Cardinality(S)
  BY DEF Posts!Cardinality, Cardinality

LEMMA LogGives == LogInv => Posts!DeliveriesHold
  <1> SUFFICES ASSUME LogInv PROVE Posts!DeliveriesHold
    OBVIOUS
  <1>1. Posts!TypeOK
    BY AlertingAssumption, AlertAssumption DEF LogInv, Kept, Posts!TypeOK, TaskOK, TaskRecord, Pcs, HookRecord, RowRecord
  <1>2. ASSUME NEW e \in Events, NEW w \in Hooks
        PROVE  /\ {r.attempt : r \in Posts!Tries(e, w)} = 1..Cardinality(Posts!Tries(e, w))
               /\ \A r \in Posts!Tries(e, w) : r # Posts!Last(e, w) => r.outcome \in Posts!Transient
    <2>1. PICK n \in 0..MaxAttempts : Numbered(e, w, n)
      BY DEF LogInv, Story
    <2>2. n \in Nat
      OBVIOUS
    <2>3. {r.attempt : r \in Posts!Tries(e, w)} = 1..Cardinality(Posts!Tries(e, w))
      BY <2>1, <2>2, Counting DEF Numbered
    <2>4. ASSUME NEW r \in Posts!Tries(e, w), r # Posts!Last(e, w) PROVE r.outcome \in Posts!Transient
      <3>1. r.attempt \in 1..n
        BY <2>1 DEF Numbered
      <3>2. Posts!Last(e, w) \in Posts!Tries(e, w) /\ Posts!Last(e, w).attempt = n
        BY <2>1, <2>2, Counting
      <3>3. r.attempt # n
        BY <2>1, <2>4, <3>2 DEF Numbered
      <3> QED BY <2>1, <3>1, <3>3 DEF Numbered
    <2> QED BY <2>3, <2>4
  <1>3. ASSUME NEW e \in Events, task[e].pc = "done", NEW w \in Hooks PROVE Behind(task[e], w)
    BY <1>3 DEF LogInv, Kept, TaskOK, Behind, Trying, Posts!Outcomes, Posts!Transient
  <1>4. Posts!NoneStarves
    <2> SUFFICES ASSUME NEW e \in Events, task[e].pc = "done", NEW w \in Hooks,
                        Posts!Tries(e, w) # {}, KindOf[e] = "alert" => alert
                 PROVE  Posts!Last(e, w).outcome \notin Posts!Transient \/ Posts!Last(e, w).attempt = MaxAttempts
      BY DEF Posts!NoneStarves
    <2>1. Ended(e, w)
      BY <1>3 DEF LogInv, Story, Told, Closed
    <2>2. PICK n \in 0..MaxAttempts : Numbered(e, w, n)
      BY DEF LogInv, Story
    <2>3. Posts!Last(e, w) \in Posts!Tries(e, w) /\ Posts!Last(e, w).attempt = n
      BY <2>2, Counting
    <2>4. \A s \in Posts!Tries(e, w) : s.attempt \in 1..n
      BY <2>2 DEF Numbered
    <2> QED BY <2>1, <2>3, <2>4 DEF Ended
  <1>5. Posts!TurnsKept
    <2> SUFFICES ASSUME NEW e \in Events, task[e].pc = "done", KindOf[e] \in Posts!Kinds,
                        NEW w \in Hooks, hook[w] = [there |-> TRUE, enabled |-> TRUE, filter |-> {}],
                        edits <= Cardinality({v \in Hooks : ~hook[v].there})
                 PROVE  Posts!Tries(e, w) # {}
      BY PostsCount DEF Posts!TurnsKept
    <2>1. hook[w].there /\ OnlyDeleted
      BY DEF OnlyDeleted, Deleted
    <2>2. Turned(e, task[e], w)
      BY DEF LogInv, Turns
    <2> QED BY <1>3, <2>1, <2>2 DEF Turned
  <1>6. Posts!LogTellsAll
    BY <1>2, PostsCount DEF Posts!LogTellsAll
  <1> QED BY <1>1, <1>4, <1>5, <1>6 DEF Posts!DeliveriesHold

\* The delivery log is complete, every hook gets its turn, and none is given up on
\* before its last attempt (DeliveriesHold).
THEOREM LogIsTheStory == Posts!Spec => []Posts!DeliveriesHold
  <1>1. Posts!Init => LogInv
    BY LogInit
  <1>2. LogInv /\ [Posts!Next]_Posts!vars => LogInv'
    BY LogNext
  <1>3. LogInv => Posts!DeliveriesHold
    BY LogGives
  <1> QED BY <1>1, <1>2, <1>3, PTL DEF Posts!Spec

\* The same where the webhooks stand beside the alert job, as the run checks it.
THEOREM DeliveriesTold == SumSpec => []DeliveriesHold
  <1> DEFINE I == part \in DOMAIN KindsOf => LogInv
  <1>1. SumInit => I
    BY LogInit DEF SumInit, KindsOf
  <1>2. I /\ [SumNext]_AllVars => I'
    <2> SUFFICES ASSUME I, [SumNext]_AllVars, (part \in DOMAIN KindsOf)' PROVE LogInv'
      OBVIOUS
    <2>1. part \in DOMAIN KindsOf /\ [Posts!Next]_Posts!vars
      BY DEF SumNext, AllVars, HookVars, vars, Posts!vars, KindsOf
    <2> QED BY <2>1, LogNext
  <1>3. I => DeliveriesHold
    BY LogGives DEF DeliveriesHold
  <1> QED BY <1>1, <1>2, <1>3, PTL DEF SumSpec
=============================================================================
