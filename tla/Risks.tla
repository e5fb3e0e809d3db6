-------------------------------- MODULE Risks --------------------------------
(***************************************************************************)
(* The risk register and the figures that are made of it: the register page, *)
(* the summary, the heatmap, the top risks, the roll-up of the mitigating     *)
(* controls, the appetite of a category (risk_service.py,                    *)
(* appetite_service.py, board_service.py), and the nightly snapshots that     *)
(* each worker takes and the trend compares with.                            *)
(*                                                                           *)
(* Every figure is made by a query and a loop of its own.                     *)
(***************************************************************************)
EXTENDS Integers, Sequences, FiniteSets, FiniteSetsExt

CONSTANTS
    Names,         \* of the assets of type risk
    Metas,         \* what a form, an import or a connector may store in one
    Patches,       \* what a bulk update may: "treatment", "review_date" |-> a value
    Bands,         \* [max, warn] an administrator may set
    Categories,    \* "" is the default of the organization
    Workers,       \* each runs the nightly job
    LastDay, MaxSteps, MaxControls, \* bounds
    None

VARIABLES
    risk,     \* name |-> [meta, active]
    controls, \* name |-> the effectiveness of what mitigates it, an edge each
    appetite, \* category |-> its band, or None
    snaps,    \* day |-> the row of risk_snapshots, or None
    job,      \* worker |-> its capture: [phase, date, figures]
    today, steps,
    held      \* history: day |-> the summaries that held at some time of it

vars == <<risk, controls, appetite, snaps, job, today, steps, held>>

-----------------------------------------------------------------------------
(* Scores *)

\* compute_risk_score: the levels are 1 to 5, 0 is a missing or unknown one.
Score(meta) == IF meta.likelihood = 0 \/ meta.impact = 0 THEN None ELSE meta.likelihood * meta.impact

Severities == {"critical", "high", "medium", "low"}
Severity(score) ==
    CASE score >= 20 -> "critical" [] score >= 12 -> "high" [] score >= 6 -> "medium" [] OTHER -> "low"

Active == {n \in Names : risk[n].active}
Meta(n) == risk[n].meta
Scored == {n \in Active : Score(Meta(n)) # None}

\* A day that is not there is None.
Past(day) == day # None /\ (day # None => day < today)

-----------------------------------------------------------------------------
(* The figures *)

\* mutant: every risk is in the total, those without a score in no severity
Summary_AllRisks ==
    LET due(n) == IF Meta(n).review_date # None THEN Meta(n).review_date ELSE Meta(n).last_reviewed
    IN [total |-> Cardinality(Active),
        severity |-> [s \in Severities |-> Cardinality({n \in Scored : Severity(Score(Meta(n))) = s})],
        overdue |-> Cardinality({n \in Scored : Past(due(n))}),
        no_treatment |-> Cardinality({n \in Scored : Meta(n).treatment = None})]

\* get_risk_summary.  A risk without a next review is overdue by its last one.
Summary ==
    LET due(n) == IF Meta(n).review_date # None THEN Meta(n).review_date ELSE Meta(n).last_reviewed
    IN [total |-> Cardinality(Scored),
        severity |-> [s \in Severities |-> Cardinality({n \in Scored : Severity(Score(Meta(n))) = s})],
        overdue |-> Cardinality({n \in Scored : Past(due(n))}),
        no_treatment |-> Cardinality({n \in Scored : Meta(n).treatment = None})]

\* get_risk_heatmap
Heatmap == [cell \in (1..5) \X (1..5) |-> {n \in Active : <<Meta(n).likelihood, Meta(n).impact>> = cell}]

\* get_top_risks: the first of the scored ones by score, in any order of equals.
IsTop(list, limit) ==
    /\ list \subseteq Scored /\ Cardinality(list) = Min({limit, Cardinality(Scored)})
    /\ \A n \in list, o \in Scored \ list : Score(Meta(n)) >= Score(Meta(o))

\* get_risk_register: a risk without a score has 0, and only a next review can be overdue.
Row(n) ==
    LET score == Score(Meta(n))
    IN [score |-> IF score = None THEN 0 ELSE score,
        severity |-> IF score = None THEN "low" ELSE Severity(score),
        overdue |-> Past(Meta(n).review_date),
        category |-> Meta(n).category, treatment |-> Meta(n).treatment]

Register(wanted) ==
    {n \in Active : \A f \in DOMAIN wanted : Row(n)[f] = wanted[f]}

\* get_risk_control_rollup: the mean of the graded controls, in quarters.
Weight == [effective |-> 4, partially_effective |-> 2, not_tested |-> 1, ineffective |-> 0]
Graded(edges) == SelectSeq(edges, LAMBDA e : e \in DOMAIN Weight)
Quarters(edges) == LET g == Graded(edges) IN MapThenSumSet(LAMBDA i : Weight[g[i]], DOMAIN g)

\* _effectiveness_label, of the mean: .8 and above, .5, .25
Label(edges) ==
    LET sum == Quarters(edges) count == Len(Graded(edges))
    IN IF count = 0 THEN "none"
       ELSE IF 5 * sum >= 16 * count THEN "strong"
       ELSE IF sum >= 2 * count THEN "adequate"
       ELSE IF sum >= count THEN "weak" ELSE "none"

\* _risk_score: the residual score when there is one above 0.
Residual(meta) == IF meta.residual > 0 THEN meta.residual ELSE Score(meta)

\* evaluate_risks
Evaluate(n) ==
    LET score == Residual(Meta(n))
        c == Meta(n).category
        band == IF appetite[c] # None THEN appetite[c] ELSE appetite[""]
    IN IF score = None \/ band = None THEN "unknown"
       ELSE IF score > band.max THEN "out" ELSE IF score > band.warn THEN "near" ELSE "within"

BreachSummary == [out |-> {n \in Active : Evaluate(n) = "out"},
                  near |-> Cardinality({n \in Active : Evaluate(n) = "near"})]

\* get_severity_trend: what is now, less the last row of an earlier day.
Prior == {d \in DOMAIN snaps : d < today /\ snaps[d] # None}
Trend == IF Prior = {} THEN None ELSE [s \in Severities |-> Summary.severity[s] - snaps[Max(Prior)].severity[s]]

-----------------------------------------------------------------------------

Quiet == [phase |-> "idle", date |-> None, figures |-> None]

Init ==
    /\ risk \in [Names -> [meta : Metas, active : {TRUE}]]
    /\ controls = [n \in Names |-> <<>>]
    /\ appetite = [c \in Categories |-> None]
    /\ snaps = [d \in 1..LastDay |-> None]
    /\ job = [w \in Workers |-> Quiet]
    /\ today = 1 /\ steps = 0
    /\ held = [d \in 1..LastDay |-> IF d = 1 THEN {Summary} ELSE {}]

Count == steps < MaxSteps /\ steps' = steps + 1
Hold == held' = [held EXCEPT ![today'] = @ \cup {Summary'}]

\* A form, an import or a connector stores the metadata; an archived risk is
\* in no figure, and may come back.
Store(n) ==
    /\ Count
    /\ \E m \in Metas, active \in BOOLEAN : risk' = [risk EXCEPT ![n] = [meta |-> m, active |-> active]]
    /\ UNCHANGED <<controls, appetite, snaps, job, today>> /\ Hold

\* bulk_update_risks: the patch is merged into each of the selected ones, one
\* transaction for all.
BulkUpdate ==
    /\ Count
    /\ \E selected \in (SUBSET Names) \ {{}}, p \in Patches :
         risk' = [n \in Names |-> IF n \in selected
                    THEN [risk[n] EXCEPT !.meta = [f \in DOMAIN @ |-> IF f \in DOMAIN p THEN p[f] ELSE @[f]]]
                    ELSE risk[n]]
    /\ UNCHANGED <<controls, appetite, snaps, job, today>> /\ Hold

Mitigate(n) ==
    /\ Count /\ Len(controls[n]) < MaxControls
    /\ \E e \in DOMAIN Weight \cup {"ungraded"} : controls' = [controls EXCEPT ![n] = Append(@, e)]
    /\ UNCHANGED <<risk, appetite, snaps, job, today, held>>

\* set_appetite, delete_appetite
SetAppetite(c) ==
    /\ Count
    /\ \E b \in Bands \cup {None} : appetite' = [appetite EXCEPT ![c] = b]
    /\ UNCHANGED <<risk, controls, snaps, job, today, held>>

\* capture_risk_snapshot: the date, the figures, the row.
TakeDate(w) ==
    /\ job[w].phase = "idle"
    /\ job' = [job EXCEPT ![w] = [phase |-> "dated", date |-> today, figures |-> None]]
    /\ UNCHANGED <<risk, controls, appetite, snaps, today, steps, held>>

ReadFigures(w) ==
    /\ job[w].phase = "dated"
    /\ job' = [job EXCEPT ![w].phase = "read", ![w].figures = Summary]
    /\ UNCHANGED <<risk, controls, appetite, snaps, today, steps, held>>

\* mutant: the row is of the day on which it is stored
StoreRow_Today(w) ==
    /\ job[w].phase = "read"
    /\ snaps' = [snaps EXCEPT ![today] = job[w].figures]
    /\ job' = [job EXCEPT ![w] = Quiet]
    /\ UNCHANGED <<risk, controls, appetite, today, steps, held>>

\* On conflict the later writer of a day wins, whoever read first.
StoreRow(w) ==
    /\ job[w].phase = "read"
    /\ snaps' = [snaps EXCEPT ![job[w].date] = job[w].figures]
    /\ job' = [job EXCEPT ![w] = Quiet]
    /\ UNCHANGED <<risk, controls, appetite, today, steps, held>>

NextDay ==
    /\ today < LastDay /\ today' = today + 1
    /\ UNCHANGED <<risk, controls, appetite, snaps, job, steps>> /\ Hold

Next ==
    \/ BulkUpdate \/ NextDay
    \/ \E n \in Names : Store(n) \/ Mitigate(n)
    \/ \E c \in Categories : SetAppetite(c)
    \/ \E w \in Workers : TakeDate(w) \/ ReadFigures(w) \/ StoreRow(w)

Spec == Init /\ [][Next]_vars

-----------------------------------------------------------------------------
(* Properties *)

AddsUp(f) == f.total = MapThenSumSet(LAMBDA s : f.severity[s], Severities)

\* The figures of a page are of the same risks: the severities, the heatmap and
\* the list of all with a score add up to the total; a scored risk that the
\* register lists as overdue is counted as overdue; who is out of appetite is
\* so of any risk of the category that is worse.
FiguresAgree ==
    /\ AddsUp(Summary)
    /\ Summary.total = MapThenSumSet(LAMBDA cell : Cardinality(Heatmap[cell]), DOMAIN Heatmap)
    /\ \A cell \in DOMAIN Heatmap, n \in Names : n \in Heatmap[cell] => Row(n).score = cell[1] * cell[2]
    /\ \A list \in SUBSET Names : IsTop(list, Cardinality(Names)) => Cardinality(list) = Summary.total
    /\ \A s \in Severities : s # "low" => Cardinality(Register([severity |-> s])) = Summary.severity[s]
    /\ Cardinality(Register([overdue |-> TRUE]) \cap Scored) <= Summary.overdue
    /\ \A n \in Active, o \in Active :
         /\ Meta(n).category = Meta(o).category /\ Evaluate(n) = "out" /\ Evaluate(o) # "unknown"
         /\ Residual(Meta(o)) >= Residual(Meta(n))
         => Evaluate(o) = "out"
    /\ \A n \in Names : Label(controls[n]) = "strong" => \E e \in DOMAIN controls[n] : controls[n][e] = "effective"

\* The row of a day adds up and holds what was so on that day or after it, never
\* before, so that the trend compares with what was there, and its differences
\* add up to the difference of the totals.
SnapshotsTrue ==
    /\ \A d \in DOMAIN snaps : snaps[d] # None =>
         AddsUp(snaps[d]) /\ \E e \in d..today : snaps[d] \in held[e]
    /\ Trend # None => MapThenSumSet(LAMBDA s : Trend[s], Severities) = Summary.total - snaps[Max(Prior)].total

RisksHold == FiguresAgree /\ SnapshotsTrue
=============================================================================
