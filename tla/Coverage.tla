----------------------------- MODULE Coverage -----------------------------
(***************************************************************************)
(* Compliance coverage: the figures that framework_service computes from   *)
(* the graph of frameworks, requirements and controls, once with a         *)
(* statement for each step (list_frameworks, inside the nightly job of     *)
(* compliance_snapshot_service) and once for the page of a framework       *)
(* (get_framework_detail), while people edit the graph.                    *)
(* A link is a triple, because parallel links count once in every figure;  *)
(* a cross_maps link has its label for a type: "equivalent", the only one  *)
(* that lends coverage, or "related".  One organization.                   *)
(***************************************************************************)
EXTENDS Integers, FiniteSets

CONSTANTS
    Frameworks, Requirements, Controls,
    Others,       \* policies, systems: satisfy a requirement, cannot be graded
    Universe,     \* the links that people make and undo (bounds AddLink, RemoveLink)
    InitLinks,    \* the graphs to start from
    Names,        \* what frameworks are called, which is not unique in the code
    InitNames,    \* what they are called at first
    Renamable,    \* the frameworks that are ever renamed (bounds Rename)
    Deletable,    \* the assets that are ever deleted (bounds DeleteAsset)
    Gradings,     \* the test results that are recorded (bounds GradeControl)
    Workers,
    MaxEdits, MaxDay, MaxCrashes,
    Null

Assets == Frameworks \cup Requirements \cup Controls \cup Others
CrossMaps == {"equivalent", "related"}
LinkTypes == {"parent_of", "satisfied_by", "implemented_by", "satisfies"} \cup CrossMaps
Link == [src : Assets, type : LinkTypes, dst : Assets]

ASSUME CoverageAssumption ==
    /\ IsFiniteSet(Assets)
    /\ Universe \subseteq Link
    /\ InitLinks \subseteq SUBSET Link
    /\ Deletable \subseteq Assets
    /\ InitNames \in [Frameworks -> Names] /\ Null \notin Names
    /\ Gradings \subseteq {"effective", "partially_effective", "ineffective", "not_tested", Null}
    /\ MaxEdits \in Nat /\ MaxDay \in Nat /\ MaxCrashes \in Nat
    /\ Null \notin Assets

VARIABLES
    links, live,
    scope,       \* the requirements that the Statement of Applicability has in scope
    names,       \* the name of each framework
    grade,       \* the effectiveness in each control's metadata
    day,
    snapshots,   \* compliance_snapshots, by framework and date
    jobs,        \* the nightly job of each worker
    edits, crashes

vars == <<links, live, scope, names, grade, day, snapshots, jobs, edits, crashes>>

-----------------------------------------------------------------------------
(* What the statements read *)

OutboundSatisfies == {"satisfied_by", "implemented_by"}
InboundSatisfies == {"satisfies"}

\* _EFFECTIVENESS_WEIGHT, in quarters, and _STRONG_THRESHOLD
Weight == [effective |-> 4, partially_effective |-> 2, ineffective |-> 0, not_tested |-> 1]
Full == 4
Strong == 3

RequirementIds(f) == {l.dst : l \in {k \in links : k.src = f /\ k.type = "parent_of"}} \cap Requirements

Applicable(reqs) == reqs \cap live \cap scope

OutSatisfied(reqs) == {r \in reqs : \E l \in links : l.src = r /\ l.type \in OutboundSatisfies}
InSatisfied(reqs) == {r \in reqs : \E l \in links : l.dst = r /\ l.type \in InboundSatisfies}

Satisfiers(r) ==
    {l.dst : l \in {k \in links : k.src = r /\ k.type \in OutboundSatisfies}} \cup
    {l.src : l \in {k \in links : k.dst = r /\ k.type \in InboundSatisfies}}

\* The best grade of the controls that satisfy a requirement; one that no
\* graded control satisfies is not in the domain.
Strengths(reqs) ==
    LET weights(r) == {Weight[grade[c]] : c \in {d \in Satisfiers(r) \cap Controls : grade[d] # Null}}
    IN  [r \in {q \in reqs : weights(q) # {}} |->
            CHOOSE best \in weights(r) : \A w \in weights(r) : w <= best]

Parents(r) == {l.src : l \in {k \in links : k.dst = r /\ k.type = "parent_of"}}

\* The framework names that a requirement is listed with: Null where nothing,
\* or something else than a framework, is its parent.
Owners(r) == IF Parents(r) = {} THEN {Null}
             ELSE {IF p \in Frameworks THEN names[p] ELSE Null : p \in Parents(r)}

\* The requirements that these are mapped to in frameworks of another name, each
\* listed under the source of the link if that was asked for, else the target.
Crosswalks(reqs, name) ==
    LET anchor(l) == IF l.src \in reqs THEN l.src ELSE l.dst
        far(l) == IF l.src \in reqs THEN l.dst ELSE l.src
        asked == {l \in links : l.type \in CrossMaps /\ {l.src, l.dst} \cap reqs # {}
                                /\ far(l) \in Requirements}
    IN  UNION {{[of |-> anchor(l), is |-> far(l), label |-> l.type, framework |-> g] :
                   g \in Owners(far(l)) \ {name}} : l \in asked}

Equivalents(reqs, name) == {e \in Crosswalks(reqs, name) : e.label = "equivalent"}

\* Python's round(): to the even neighbour when in the middle
Round(n, d) ==
    LET q == n \div d
        twice == 2 * (n % d)
    IN  IF twice < d \/ (twice = d /\ q % 2 = 0) THEN q ELSE q + 1
Percent(n, d) == IF d = 0 THEN 0 ELSE Round(100 * n, d)

\* FrameworkSummary; health is health_adjusted_coverage_percent, for which the
\* weights of what is satisfied are summed up, a quarter at a time.
Figures(inScope, satisfied, strengths, borrowed) ==
    LET weight(r) == IF r \in DOMAIN strengths THEN strengths[r] ELSE Full
        earn(w) == Cardinality({r \in satisfied : weight(r) >= w})
        weights == earn(1) + earn(2) + earn(3) + earn(Full)
        n == Cardinality(inScope)
    IN  [count |-> n,
         satisfied |-> Cardinality(satisfied),
         borrowed |-> Cardinality(borrowed),
         weak |-> Cardinality({r \in satisfied \cap DOMAIN strengths : strengths[r] < Strong}),
         health |-> Percent(weights + Full * Cardinality(borrowed), Full * n),
         direct |-> Percent(Cardinality(satisfied), n),
         effective |-> Percent(Cardinality(satisfied) + Cardinality(borrowed), n)]

\* mutant: only what is well satisfied lends its coverage
Lenders_Strong(targets) ==
    LET satisfied == OutSatisfied(targets) \cup InSatisfied(targets)
        strengths == Strengths(satisfied)
    IN  {t \in satisfied : t \notin DOMAIN strengths \/ strengths[t] >= Strong}

\* _satisfied_equivalents on the page: what is directly satisfied lends
Lenders(targets) == OutSatisfied(targets) \cup InSatisfied(targets)

\* get_framework_detail: every requirement with its satisfiers, crosswalks and
\* what a gap borrows; the figures count those in scope.
Detail(f) ==
    LET reqs == RequirementIds(f)
        satisfied == {r \in reqs : Satisfiers(r) # {}}
        gapsEquivalents == {e \in Equivalents(reqs, names[f]) : e.of \notin satisfied}
        targets == {e.is : e \in gapsEquivalents}
        borrowed == {e.of : e \in {d \in gapsEquivalents : d.is \in Lenders(targets)}}
        inScope == reqs \cap scope
    IN  Figures(inScope, satisfied \cap inScope, Strengths(satisfied), borrowed \cap inScope)

\* mutant: implemented_by forgotten
ControlCovers_NotImplemented(c) ==
    LET touching == {l \in links : (l.src = c /\ l.type = "satisfies") \/ (l.dst = c /\ l.type = "satisfied_by")}
    IN  {IF l.src = c THEN l.dst ELSE l.src : l \in touching} \cap Requirements

\* list_controls_with_coverage: the requirements that each control covers
ControlCovers(c) ==
    LET touching == {l \in links : (l.src = c /\ l.type = "satisfies") \/ (l.dst = c /\ l.type \in OutboundSatisfies)}
    IN  {IF l.src = c THEN l.dst ELSE l.src : l \in touching} \cap Requirements

\* crosswalk_matrix counts a pair of requirements once, for the frameworks of
\* whichever of its rows comes first.
CrossedPairs == {{l.src, l.dst} : l \in {k \in links : k.type \in CrossMaps}}
Rows(pair) == UNION {Parents(l.src) \X Parents(l.dst) :
                        l \in {k \in links : k.type \in CrossMaps /\ {k.src, k.dst} = pair}}
CountedPairs == {p \in CrossedPairs : Rows(p) # {}}
FirstRows == {first \in [CountedPairs -> UNION {Rows(p) : p \in CountedPairs}] :
                 \A p \in CountedPairs : first[p] \in Rows(p)}
MatrixCell(first, f, g) == Cardinality({p \in CountedPairs : first[p] \in {<<f, g>>, <<g, f>>}})

-----------------------------------------------------------------------------
(* State *)

Figure == [count : Nat, satisfied : Nat, borrowed : Nat, weak : Nat,
           health : 0..100, direct : 0..100, effective : 0..100]
RowType == [count : Nat, satisfied : Nat, borrowed : Nat, open : Nat,
            direct : 0..100, effective : 0..100]
\* What list_frameworks returns; seen (history) is the number of edits before
\* its framework was read.
SummaryType == [fw : Frameworks, name : Names \cup {Null}, figures : Figure, seen : 0..MaxEdits]
JobType ==
    [pc : {"idle", "requirements", "scope", "outbound", "inbound", "strengths",
           "crosswalks", "lendersOut", "lendersIn", "insert"},
     last : -1..MaxDay,                    \* the last day it ran for
     todo : SUBSET Frameworks,
     called : [Frameworks -> Names \cup {Null}],  \* as the frameworks were listed
     fw : Frameworks \cup {Null},
     reqs : SUBSET Requirements,           \* the framework's, then those in scope
     satisfied : SUBSET Requirements,
     strengths : UNION {[S -> 0..Full] : S \in SUBSET Requirements},
     equivalents : SUBSET [of : Requirements, is : Requirements],
     lends : SUBSET Requirements,
     summaries : SUBSET SummaryType,
     seen : 0..MaxEdits]

TypeOK ==
    /\ links \subseteq Link /\ live \subseteq Assets
    /\ \A l \in links : {l.src, l.dst} \subseteq live
    /\ scope \subseteq Requirements
    /\ names \in [Frameworks -> Names]
    /\ grade \in [Controls -> DOMAIN Weight \cup {Null}]
    /\ day \in 0..MaxDay
    /\ snapshots \in [Frameworks -> [0..MaxDay -> RowType \cup {Null}]]
    /\ jobs \in [Workers -> JobType]
    /\ edits \in 0..MaxEdits /\ crashes \in 0..MaxCrashes

Resting(d) ==
    [pc |-> "idle", last |-> d, todo |-> {}, called |-> [f \in Frameworks |-> Null],
     fw |-> Null, reqs |-> {}, satisfied |-> {},
     strengths |-> <<>>, equivalents |-> {}, lends |-> {}, summaries |-> {}, seen |-> 0]

Init ==
    /\ links \in InitLinks
    /\ live = Assets
    /\ scope = Requirements
    /\ names = InitNames
    /\ grade = [c \in Controls |-> Null]
    /\ day = 0
    /\ snapshots = [f \in Frameworks |-> [d \in 0..MaxDay |-> Null]]
    /\ jobs = [w \in Workers |-> Resting(-1)]
    /\ edits = 0 /\ crashes = 0

-----------------------------------------------------------------------------
(* People *)

Edit == /\ edits < MaxEdits
        /\ edits' = edits + 1
        /\ UNCHANGED <<day, jobs, crashes>>

AddLink(l) ==
    /\ l \notin links
    /\ {l.src, l.dst} \subseteq live
    /\ links' = links \cup {l}
    /\ Edit /\ UNCHANGED <<live, scope, names, grade, snapshots>>

RemoveLink(l) ==
    /\ l \in links
    /\ links' = links \ {l}
    /\ Edit /\ UNCHANGED <<live, scope, names, grade, snapshots>>

\* POST /frameworks/{id}/soa
SetScope(r) ==
    /\ r \in live
    /\ scope' = IF r \in scope THEN scope \ {r} ELSE scope \cup {r}
    /\ Edit /\ UNCHANGED <<links, live, names, grade, snapshots>>

\* An edit of the framework: nothing keeps two from having one name.
Rename(f) ==
    /\ f \in Renamable \cap live
    /\ \E n \in Names \ {names[f]} : names' = [names EXCEPT ![f] = n]
    /\ Edit /\ UNCHANGED <<links, live, scope, grade, snapshots>>

\* A test of the control, or an edit of its metadata.
GradeControl(c) ==
    /\ c \in live
    /\ \E g \in Gradings \ {grade[c]} : grade' = [grade EXCEPT ![c] = g]
    /\ Edit /\ UNCHANGED <<links, live, scope, names, snapshots>>

\* ON DELETE CASCADE takes its links and a framework's snapshots with it.
DeleteAsset(a) ==
    /\ a \in Deletable \cap live
    /\ live' = live \ {a}
    /\ links' = {l \in links : a \notin {l.src, l.dst}}
    /\ snapshots' = [f \in Frameworks |->
           IF f = a THEN [d \in 0..MaxDay |-> Null] ELSE snapshots[f]]
    /\ Edit /\ UNCHANGED <<scope, names, grade>>

-----------------------------------------------------------------------------
(* The nightly job of one worker: list_frameworks, then the upserts *)

Graph == <<links, live, scope, names, grade, day, edits, crashes>>
Step(w, job) == jobs' = [jobs EXCEPT ![w] = job] /\ UNCHANGED <<Graph, snapshots>>

\* 00:10: date.today() and the list of frameworks, with their names
Start(w) ==
    /\ jobs[w].pc = "idle" /\ jobs[w].last < day
    /\ LET found == live \cap Frameworks IN
       Step(w, [Resting(day) EXCEPT !.todo = found, !.called = names,
                                    !.pc = IF found = {} THEN "idle" ELSE "requirements"])

ReadRequirements(w) ==
    /\ jobs[w].pc = "requirements"
    /\ \E f \in jobs[w].todo :
         Step(w, [jobs[w] EXCEPT !.pc = "scope", !.todo = @ \ {f}, !.fw = f,
                                 !.reqs = RequirementIds(f), !.seen = edits])

\* The summary is appended and the locals of this framework are gone.
Summarise(job, borrowed) ==
    [job EXCEPT !.pc = IF job.todo = {} THEN "insert" ELSE "requirements",
                !.summaries = @ \cup {[fw |-> job.fw, name |-> job.called[job.fw], seen |-> job.seen,
                    figures |-> Figures(job.reqs, job.satisfied, job.strengths, borrowed)]},
                !.fw = Null, !.reqs = {}, !.satisfied = {}, !.strengths = <<>>,
                !.equivalents = {}, !.lends = {}, !.seen = 0]

\* mutant: a framework with nothing in scope ends the listing
ReadScope_Ends(w) ==
    LET inScope == Applicable(jobs[w].reqs)
        job == [jobs[w] EXCEPT !.reqs = inScope, !.todo = IF inScope = {} THEN {} ELSE @]
    IN
    /\ jobs[w].pc = "scope"
    /\ Step(w, IF inScope = {} THEN Summarise(job, {}) ELSE [job EXCEPT !.pc = "outbound"])

\* A framework with nothing in scope is listed with zeros.
ReadScope(w) ==
    LET job == [jobs[w] EXCEPT !.reqs = Applicable(@)] IN
    /\ jobs[w].pc = "scope"
    /\ Step(w, IF job.reqs = {} THEN Summarise(job, {}) ELSE [job EXCEPT !.pc = "outbound"])

ReadOutbound(w) ==
    /\ jobs[w].pc = "outbound"
    /\ Step(w, [jobs[w] EXCEPT !.pc = "inbound", !.satisfied = OutSatisfied(jobs[w].reqs)])

ReadInbound(w) ==
    LET satisfied == jobs[w].satisfied \cup InSatisfied(jobs[w].reqs) IN
    /\ jobs[w].pc = "inbound"
    /\ Step(w, [jobs[w] EXCEPT !.satisfied = satisfied,
                               !.pc = IF satisfied = {} THEN "crosswalks" ELSE "strengths"])

\* mutant: borrowing is looked up for every requirement
Gaps_All(job) == job.reqs

Gaps(job) == job.reqs \ job.satisfied

ReadStrengths(w) ==
    LET job == [jobs[w] EXCEPT !.strengths = Strengths(jobs[w].satisfied)] IN
    /\ jobs[w].pc = "strengths"
    /\ Step(w, IF Gaps(job) = {} THEN Summarise(job, {}) ELSE [job EXCEPT !.pc = "crosswalks"])

ReadCrosswalks(w) ==
    LET job == jobs[w]
        found == {[of |-> e.of, is |-> e.is] : e \in Equivalents(Gaps(job), job.called[job.fw])}
    IN
    /\ job.pc = "crosswalks"
    /\ Step(w, IF found = {} THEN Summarise(job, {})
               ELSE [job EXCEPT !.pc = "lendersOut", !.equivalents = found])

Targets(job) == {e.is : e \in job.equivalents}

ReadLendersOut(w) ==
    /\ jobs[w].pc = "lendersOut"
    /\ Step(w, [jobs[w] EXCEPT !.pc = "lendersIn", !.lends = OutSatisfied(Targets(jobs[w]))])

ReadLendersIn(w) ==
    LET lends == jobs[w].lends \cup InSatisfied(Targets(jobs[w])) IN
    /\ jobs[w].pc = "lendersIn"
    /\ Step(w, Summarise(jobs[w], {e.of : e \in {d \in jobs[w].equivalents : d.is \in lends}}))

SnapshotRow(s) ==
    [count |-> s.count, satisfied |-> s.satisfied, borrowed |-> s.borrowed,
     open |-> s.count - s.satisfied - s.borrowed, direct |-> s.direct, effective |-> s.effective]

\* One upsert for each summary.  A framework that was deleted meanwhile is a
\* foreign key violation, which ends the job with the rest of its upserts.
Insert(w) ==
    /\ jobs[w].pc = "insert"
    /\ \E s \in jobs[w].summaries :
         LET rest == jobs[w].summaries \ {s} IN
         /\ jobs' = [jobs EXCEPT ![w] = IF s.fw \notin live \/ rest = {} THEN Resting(@.last)
                                        ELSE [@ EXCEPT !.summaries = rest]]
         /\ snapshots' = IF s.fw \notin live THEN snapshots
                         ELSE [snapshots EXCEPT ![s.fw][jobs[w].last] = SnapshotRow(s.figures)]
    /\ UNCHANGED Graph

\* The worker is killed in its job, or is down when it is due.
Crash(w) ==
    /\ crashes < MaxCrashes
    /\ jobs[w].pc # "idle" \/ jobs[w].last < day
    /\ crashes' = crashes + 1
    /\ jobs' = [jobs EXCEPT ![w] = Resting(day)]
    /\ UNCHANGED <<links, live, scope, names, grade, day, snapshots, edits>>

\* Every worker that is up has run the day's job, and a job ends within its day.
Advance ==
    /\ day < MaxDay
    /\ \A w \in Workers : jobs[w].pc = "idle" /\ jobs[w].last = day
    /\ day' = day + 1
    /\ UNCHANGED <<links, live, scope, names, grade, snapshots, jobs, edits, crashes>>

-----------------------------------------------------------------------------
Job(w) ==
    \/ Start(w) \/ ReadRequirements(w) \/ ReadScope(w) \/ ReadOutbound(w) \/ ReadInbound(w)
    \/ ReadStrengths(w) \/ ReadCrosswalks(w) \/ ReadLendersOut(w) \/ ReadLendersIn(w) \/ Insert(w)

People ==
    \/ \E l \in Universe : AddLink(l) \/ RemoveLink(l)
    \/ \E r \in Requirements : SetScope(r)
    \/ \E f \in Frameworks : Rename(f)
    \/ \E c \in Controls : GradeControl(c)
    \/ \E a \in Assets : DeleteAsset(a)

Next == Advance \/ People \/ \E w \in Workers : Job(w) \/ Crash(w)

Spec == Init /\ [][Next]_vars

\* The scheduler of every worker that is up runs its job.
FairSpec == Spec /\ \A w \in Workers : WF_vars(Job(w))

-----------------------------------------------------------------------------
(* Properties *)

\* Whatever changes between the statements of list_frameworks, its figures add
\* up: nothing is both satisfied and borrowed (open gaps are never negative),
\* and coverage grows from health-adjusted and direct to effective.
FiguresAddUp ==
    TypeOK /\ \A w \in Workers : \A s \in jobs[w].summaries :
        LET n == s.figures IN
        /\ n.satisfied + n.borrowed <= n.count
        /\ n.weak <= n.satisfied
        /\ n.direct <= n.effective /\ n.health <= n.effective

\* Each requirement has one parent at most.
OneParent == \A r \in Requirements : Cardinality(Parents(r)) <= 1

\* A cross_maps link joins requirements, as the crosswalks that are imported do
\* (catalog_sync.py:22); people can draw one between any two assets.
MapsRequirements == \A l \in links : l.type \in CrossMaps => {l.src, l.dst} \subseteq Requirements

\* No two frameworks have one name: the pages tell frameworks apart by their
\* names, the matrix by their ids.
DistinctNames == \A f, g \in Frameworks \cap live : names[f] = names[g] => f = g

\* A framework is listed (and its snapshot written) with the figures of its own
\* page, when nothing changed since it was read, it still has the name it was
\* listed with and no requirement has two parents ("so this matches the detail
\* path exactly").
ListedAsOnPage ==
    OneParent => \A w \in Workers : \A s \in jobs[w].summaries :
        s.seen = edits /\ s.name = names[s.fw] => s.figures = Detail(s.fw)

\* The views of the same links agree: a control covers the requirements that
\* it satisfies, and the matrix counts, whatever row comes first, the pairs
\* that the pages of both frameworks show, if only requirements are mapped and
\* no two frameworks have one name (their pages hide what maps them).
ViewsAgree ==
    /\ ListedAsOnPage
    /\ \A c \in Controls, r \in Requirements : r \in ControlCovers(c) <=> c \in Satisfiers(r)
    /\ OneParent /\ MapsRequirements /\ DistinctNames =>
         \A first \in FirstRows : \A f, g \in Frameworks \cap live :
           LET shown == {x \in Crosswalks(RequirementIds(f), names[f]) : x.framework = names[g]}
           IN  f # g => MatrixCell(first, f, g) = Cardinality({{x.of, x.is} : x \in shown})

ParentLinks == {l \in links : l.type = "parent_of"}
SameRequirements == scope' = scope /\ live' = live /\ names' = names /\ ParentLinks' = ParentLinks

\* A link that is added (or a test result) never lowers the effective coverage
\* of any framework, and one that is removed never raises it, as long as the
\* requirements, the scope and the names stay.
EffectiveMonotone ==
    [][links' # links /\ SameRequirements =>
         \A f \in Frameworks :
            /\ links \subseteq links' => Detail(f).effective <= Detail(f)'.effective
            /\ links' \subseteq links => Detail(f)'.effective <= Detail(f).effective
      ]_vars

\* Every framework has a snapshot for every day, unless a framework is deleted
\* after the day's jobs were due, or every worker died.
CapturedDaily ==
    \A f \in Frameworks : \A d \in 0..MaxDay : \A n \in 0..Cardinality(Frameworks \cap Deletable) :
        LET gone == Cardinality(Frameworks \ live) IN
        (day = d /\ f \in live /\ gone = n /\ \A w \in Workers : jobs[w].last < d) ~> (snapshots[f][d] # Null \/ gone > n \/ crashes >= Cardinality(Workers))
=============================================================================
