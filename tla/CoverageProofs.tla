--------------------------- MODULE CoverageProofs ---------------------------
(***************************************************************************)
(* The figures of compliance coverage, for every graph of frameworks,      *)
(* requirements and controls and any number of workers and edits: they add *)
(* up, the nightly listing, whose statements are apart, says what the page *)
(* of the framework says, and links only help effective coverage.          *)
(***************************************************************************)
EXTENDS Coverage, FiniteSetTheorems, TLAPS

-----------------------------------------------------------------------------
(* Rounded quotients *)

LEMMA Division ==
    ASSUME NEW n \in Nat, NEW d \in Nat \ {0}
    PROVE  /\ n \div d \in Nat /\ n % d \in Nat /\ n % d < d
           /\ n = d * (n \div d) + (n % d)
  <1>1. n \div d \in Int /\ n % d \in 0..(d - 1)
    OBVIOUS
  <1>2. n = d * (n \div d) + (n % d)
    OBVIOUS
  <1>3. n \div d \in Nat
    OBVIOUS
  <1> QED BY <1>1, <1>2, <1>3

LEMMA TimesLess ==
    ASSUME NEW d \in Nat \ {0}, NEW a \in Nat, NEW b \in Nat, a < b
    PROVE  d * a + d <= d * b
  <1>1. PICK c \in Nat : b = a + 1 + c
    <2>1. b - a - 1 \in Nat /\ b = a + 1 + (b - a - 1)
      OBVIOUS
    <2> QED BY <2>1
  <1>2. d * b = d * a + d + d * c /\ d * c \in Nat /\ d * a \in Nat
    BY <1>1
  <1> QED BY <1>2

\* There is one way to divide.
LEMMA DivisionUnique ==
    ASSUME NEW n \in Nat, NEW d \in Nat \ {0}, NEW q \in Nat, NEW r \in Nat,
           n = d * q + r, r < d
    PROVE  n \div d = q /\ n % d = r
  <1> DEFINE u == n \div d
             v == n % d
  <1>1. u \in Nat /\ v \in Nat /\ v < d /\ n = d * u + v
    BY Division
  <1> HIDE DEF u, v
  <1>2. d * u \in Nat /\ d * q \in Nat
    BY <1>1
  <1>3. ~(u < q)
    <2>1. u < q => d * u + d <= d * q
      BY <1>1, TimesLess
    <2> QED BY <1>1, <1>2, <2>1
  <1>4. ~(q < u)
    <2>1. q < u => d * q + d <= d * u
      BY <1>1, TimesLess
    <2> QED BY <1>1, <1>2, <2>1
  <1>5. u = q
    BY <1>1, <1>3, <1>4
  <1>6. v = r
    BY <1>1, <1>2, <1>5
  <1> QED BY <1>5, <1>6 DEF u, v

LEMMA RoundMonotone ==
    ASSUME NEW m \in Nat, NEW n \in Nat, m <= n, NEW d \in Nat \ {0}
    PROVE  Round(m, d) \in Nat /\ Round(m, d) <= Round(n, d)
  <1> DEFINE a == m \div d
             b == n \div d
             s == m % d
             t == n % d
  <1>1. /\ a \in Nat /\ s \in Nat /\ s < d /\ m = d * a + s
        /\ b \in Nat /\ t \in Nat /\ t < d /\ n = d * b + t
    BY Division
  <1>2. /\ Round(m, d) = IF 2 * s < d \/ (2 * s = d /\ a % 2 = 0) THEN a ELSE a + 1
        /\ Round(n, d) = IF 2 * t < d \/ (2 * t = d /\ b % 2 = 0) THEN b ELSE b + 1
    BY DEF Round
  <1> HIDE DEF a, b, s, t
  <1>3. d * a \in Nat /\ d * b \in Nat
    BY <1>1
  <1>4. ~(b < a)
    <2>1. b < a => d * b + d <= d * a
      BY <1>1, TimesLess
    <2> QED BY <1>1, <1>3, <2>1
  <1>5. CASE a < b
    BY <1>1, <1>2, <1>5
  <1>6. CASE a = b
    <2>1. s <= t
      BY <1>1, <1>3, <1>6
    <2> QED BY <1>1, <1>2, <1>6, <2>1
  <1> QED BY <1>1, <1>4, <1>5, <1>6

\* A quotient that goes up exactly.
LEMMA RoundExact ==
    ASSUME NEW a \in Nat, NEW d \in Nat \ {0}
    PROVE  Round(a * d, d) = a
  <1>1. a * d \in Nat /\ a * d = d * a + 0
    OBVIOUS
  <1>2. (a * d) \div d = a /\ (a * d) % d = 0
    BY <1>1, DivisionUnique
  <1> QED BY <1>2 DEF Round

\* Cancelling a common factor.
LEMMA RoundScaled ==
    ASSUME NEW n \in Nat, NEW d \in Nat \ {0}, NEW c \in Nat \ {0}
    PROVE  Round(c * n, c * d) = Round(n, d)
  <1> DEFINE q == n \div d
             r == n % d
  <1>1. q \in Nat /\ r \in Nat /\ r < d /\ n = d * q + r
    BY Division
  <1> HIDE DEF q, r
  <1>2. c * n \in Nat /\ c * d \in Nat \ {0} /\ c * r \in Nat /\ c * n = (c * d) * q + c * r
    BY <1>1
  <1>3. c * r < c * d
    <2>1. c * r + c <= c * d
      BY <1>1, TimesLess
    <2> QED BY <1>2, <2>1
  <1>4. (c * n) \div (c * d) = q /\ (c * n) % (c * d) = c * r
    <2>1. c * n \in Nat /\ c * d \in Nat \ {0} /\ q \in Nat /\ c * r \in Nat
      BY <1>1, <1>2
    <2> DEFINE N == c * n
               D == c * d
               R == c * r
    <2>2. N \in Nat /\ D \in Nat \ {0} /\ q \in Nat /\ R \in Nat /\ N = D * q + R /\ R < D
      BY <1>2, <1>3, <2>1
    <2> HIDE DEF N, D, R
    <2>3. N \div D = q /\ N % D = R
      BY <2>2, DivisionUnique
    <2> QED BY <2>3 DEF N, D, R
  <1>5. (2 * (c * r) < c * d <=> 2 * r < d) /\ (2 * (c * r) = c * d <=> 2 * r = d)
    <2>1. 2 * (c * r) = c * (2 * r) /\ 2 * r \in Nat
      BY <1>1
    <2>2. 2 * r < d => c * (2 * r) + c <= c * d
      BY <2>1, TimesLess
    <2>3. d < 2 * r => c * d + c <= c * (2 * r)
      BY <2>1, TimesLess
    <2>4. c * (2 * r) \in Nat
      BY <2>1
    <2> QED BY <1>2, <2>1, <2>2, <2>3, <2>4
  <1> QED BY <1>4, <1>5 DEF Round, q, r

LEMMA PercentFacts ==
    ASSUME NEW d \in Nat, NEW m \in 0..d, NEW n \in m..d
    PROVE  Percent(m, d) \in 0..100 /\ Percent(m, d) <= Percent(n, d)
  <1>1. CASE d = 0
    BY <1>1 DEF Percent
  <1>2. CASE d # 0
    <2>1. 100 * m \in Nat /\ 100 * n \in Nat /\ 100 * d \in Nat /\ d \in Nat \ {0}
          /\ 100 * m <= 100 * n /\ 100 * m <= 100 * d
      BY <1>2
    <2>2. Round(100 * m, d) \in Nat /\ Round(100 * m, d) <= Round(100 * n, d)
      BY <2>1, RoundMonotone
    <2>3. Round(100 * m, d) <= Round(100 * d, d)
      BY <2>1, RoundMonotone
    <2>4. Round(100 * d, d) = 100
      BY <2>1, RoundExact
    <2> QED BY <1>2, <2>2, <2>3, <2>4 DEF Percent
  <1> QED BY <1>1, <1>2

LEMMA PercentScaled ==
    ASSUME NEW d \in Nat, NEW n \in Nat, NEW c \in Nat \ {0}
    PROVE  Percent(c * n, c * d) = Percent(n, d)
  <1>1. CASE d = 0
    BY <1>1 DEF Percent
  <1>2. CASE d # 0
    <2>1. c * d \in Nat \ {0} /\ d \in Nat \ {0} /\ 100 * n \in Nat /\ 100 * (c * n) = c * (100 * n)
      BY <1>2
    <2>2. Round(c * (100 * n), c * d) = Round(100 * n, d)
      BY <2>1, RoundScaled
    <2> QED BY <1>2, <2>1, <2>2 DEF Percent
  <1> QED BY <1>1, <1>2

-----------------------------------------------------------------------------
(* Sets of requirements, and the figures about them *)

LEMMA Counted ==
    ASSUME NEW S \in SUBSET Requirements, NEW T \in SUBSET S
    PROVE  /\ IsFiniteSet(S) /\ Cardinality(S) \in Nat
           /\ Cardinality(T) \in Nat /\ Cardinality(T) <= Cardinality(S)
  <1>1. IsFiniteSet(Assets) /\ S \in SUBSET Assets
    BY CoverageAssumption DEF Assets
  <1>2. IsFiniteSet(S)
    BY <1>1, FS_Subset
  <1>3. IsFiniteSet(T) /\ Cardinality(T) <= Cardinality(S)
    BY <1>2, FS_Subset
  <1> QED BY <1>2, <1>3, FS_CardinalityType

\* Sets that have nothing in common.
LEMMA CountedApart ==
    ASSUME NEW S \in SUBSET Requirements, NEW T \in SUBSET Requirements, S \cap T = {}
    PROVE  Cardinality(S \cup T) = Cardinality(S) + Cardinality(T)
  <1>1. IsFiniteSet(S) /\ IsFiniteSet(T) /\ Cardinality(S) \in Nat /\ Cardinality(T) \in Nat
    BY Counted
  <1>2. Cardinality(S \cup T) = Cardinality(S) + Cardinality(T) - Cardinality(S \cap T)
    BY <1>1, FS_Union
  <1>3. Cardinality(S \cap T) = 0
    BY FS_EmptySet
  <1> QED BY <1>1, <1>2, <1>3

AddUp(n) ==
    /\ n.satisfied + n.borrowed <= n.count
    /\ n.weak <= n.satisfied
    /\ n.direct <= n.effective /\ n.health <= n.effective

\* The effective figure counts what is satisfied and what is borrowed together.
LEMMA FiguresFacts ==
    ASSUME NEW A \in SUBSET Requirements, NEW S \in SUBSET A, NEW B \in SUBSET (A \ S),
           NEW strengths
    PROVE  /\ Figures(A, S, strengths, B) \in Figure /\ AddUp(Figures(A, S, strengths, B))
           /\ Figures(A, S, strengths, B).effective = Percent(Cardinality(S \cup B), Cardinality(A))
  <1> DEFINE weight(r) == IF r \in DOMAIN strengths THEN strengths[r] ELSE Full
             earn(w) == Cardinality({r \in S : weight(r) >= w})
             weights == earn(1) + earn(2) + earn(3) + earn(Full)
             weak == Cardinality({r \in S \cap DOMAIN strengths : strengths[r] < Strong})
             n == Cardinality(A)
             s == Cardinality(S)
             b == Cardinality(B)
  <1>1. n \in Nat /\ s \in Nat /\ b \in Nat /\ s + b <= n /\ Cardinality(S \cup B) = s + b
    <2>1. Cardinality(S \cup B) = s + b
      BY CountedApart
    <2>2. s \in Nat /\ b \in Nat /\ n \in Nat /\ Cardinality(S \cup B) <= n
      BY Counted
    <2> QED BY <2>1, <2>2
  <1>2. weak \in Nat /\ weak <= s
    <2>1. {r \in S \cap DOMAIN strengths : strengths[r] < Strong} \in SUBSET S
      OBVIOUS
    <2> QED BY <2>1, Counted
  <1>3. \A w : earn(w) \in Nat /\ earn(w) <= s
    <2>1. \A w : {r \in S : weight(r) >= w} \in SUBSET S
      OBVIOUS
    <2> QED BY <2>1, Counted
  <1>4. weights \in Nat /\ weights <= 4 * s
    <2> HIDE DEF earn
    <2> QED BY <1>1, <1>3
  <1>5. Figures(A, S, strengths, B)
          = [count |-> n, satisfied |-> s, borrowed |-> b, weak |-> weak,
             health |-> Percent(weights + Full * b, Full * n),
             direct |-> Percent(s, n), effective |-> Percent(s + b, n)]
    BY DEF Figures
  <1> HIDE DEF weights, weak, n, s, b
  <1>6. /\ Percent(s, n) \in 0..100 /\ Percent(s + b, n) \in 0..100
        /\ Percent(s, n) <= Percent(s + b, n)
    <2>1. s \in 0..n /\ s + b \in 0..n /\ s + b \in s..n /\ s + b \in (s + b)..n
      BY <1>1
    <2> DEFINE t == s + b
    <2>2. s \in 0..n /\ t \in 0..n /\ t \in s..n /\ t \in t..n
      BY <2>1
    <2> HIDE DEF t
    <2>3. /\ Percent(s, n) \in 0..100 /\ Percent(s, n) <= Percent(t, n)
          /\ Percent(t, n) \in 0..100
      BY <1>1, <2>2, PercentFacts
    <2> QED BY <2>3 DEF t
  <1>7. /\ Percent(weights + Full * b, Full * n) \in 0..100
        /\ Percent(weights + Full * b, Full * n) <= Percent(s + b, n)
    <2>1. /\ Full * n \in Nat /\ weights + Full * b \in 0..(Full * n)
          /\ Full * (s + b) \in (weights + Full * b)..(Full * n)
      BY <1>1, <1>4 DEF Full
    <2>2. /\ Percent(weights + Full * b, Full * n) \in 0..100
          /\ Percent(weights + Full * b, Full * n) <= Percent(Full * (s + b), Full * n)
      BY <2>1, PercentFacts
    <2>3. Percent(Full * (s + b), Full * n) = Percent(s + b, n)
      BY <1>1, PercentScaled DEF Full
    <2> QED BY <2>2, <2>3
  <1> DEFINE h == Percent(weights + Full * b, Full * n)
             d == Percent(s, n)
             e == Percent(s + b, n)
  <1>8. h \in 0..100 /\ d \in 0..100 /\ e \in 0..100 /\ d <= e /\ h <= e
    BY <1>6, <1>7
  <1>9. Figures(A, S, strengths, B)
          = [count |-> n, satisfied |-> s, borrowed |-> b, weak |-> weak,
             health |-> h, direct |-> d, effective |-> e]
    BY <1>5
  <1>10. e = Percent(Cardinality(S \cup B), Cardinality(A))
    BY <1>1 DEF n
  <1> HIDE DEF h, d, e
  <1> QED BY <1>1, <1>2, <1>8, <1>9, <1>10 DEF Figure, AddUp

\* The strengths matter only for what is satisfied.
LEMMA FiguresAlike ==
    ASSUME NEW A, NEW S, NEW B, NEW s1, NEW s2,
           \A r \in S : (r \in DOMAIN s1 <=> r \in DOMAIN s2) /\ (r \in DOMAIN s1 => s1[r] = s2[r])
    PROVE  Figures(A, S, s1, B) = Figures(A, S, s2, B)
  <1> DEFINE weight1(r) == IF r \in DOMAIN s1 THEN s1[r] ELSE Full
             weight2(r) == IF r \in DOMAIN s2 THEN s2[r] ELSE Full
             earn1(w) == Cardinality({r \in S : weight1(r) >= w})
             earn2(w) == Cardinality({r \in S : weight2(r) >= w})
             weak1 == Cardinality({r \in S \cap DOMAIN s1 : s1[r] < Strong})
             weak2 == Cardinality({r \in S \cap DOMAIN s2 : s2[r] < Strong})
             n == Cardinality(A)
             s == Cardinality(S)
             b == Cardinality(B)
  <1>1. \A w : earn1(w) = earn2(w)
    <2>1. \A w : {r \in S : weight1(r) >= w} = {r \in S : weight2(r) >= w}
      OBVIOUS
    <2> QED BY <2>1
  <1>2. weak1 = weak2
    <2>1. {r \in S \cap DOMAIN s1 : s1[r] < Strong} = {r \in S \cap DOMAIN s2 : s2[r] < Strong}
      OBVIOUS
    <2> QED BY <2>1
  <1>3. Figures(A, S, s1, B)
          = [count |-> n, satisfied |-> s, borrowed |-> b, weak |-> weak1,
             health |-> Percent(earn1(1) + earn1(2) + earn1(3) + earn1(Full) + Full * b, Full * n),
             direct |-> Percent(s, n), effective |-> Percent(s + b, n)]
    BY DEF Figures
  <1>4. Figures(A, S, s2, B)
          = [count |-> n, satisfied |-> s, borrowed |-> b, weak |-> weak2,
             health |-> Percent(earn2(1) + earn2(2) + earn2(3) + earn2(Full) + Full * b, Full * n),
             direct |-> Percent(s, n), effective |-> Percent(s + b, n)]
    BY DEF Figures
  <1> HIDE DEF earn1, earn2, weak1, weak2, n, s, b
  <1> QED BY <1>1, <1>2, <1>3, <1>4

-----------------------------------------------------------------------------
(* What the statements read *)

\* A requirement that is directly satisfied lends its coverage.
Lends(L, r) == \E l \in L : \/ l.src = r /\ l.type \in OutboundSatisfies
                            \/ l.dst = r /\ l.type \in InboundSatisfies
\* The requirements that are listed under something else than a name.
Foreign(name) == {x \in Requirements : Owners(x) \ {name} # {}}
\* A requirement of R is mapped to one of O that lends.
Borrows(L, R, O, r) ==
    \E l \in L : /\ l.type = "equivalent"
                 /\ \/ l.src \in R /\ l.src = r /\ l.dst \in O /\ Lends(L, l.dst)
                    \/ l.src \notin R /\ l.dst \in R /\ l.dst = r /\ l.src \in O /\ Lends(L, l.src)
\* The requirements of A, out of R, that the effective coverage counts.
Covered(L, A, R, O) == {r \in A : Lends(L, r) \/ Borrows(L, R, O, r)}

LEMMA SatisfiedFacts ==
    ASSUME NEW reqs
    PROVE  /\ OutSatisfied(reqs) \cup InSatisfied(reqs) = {r \in reqs : Lends(links, r)}
           /\ \A r : Satisfiers(r) # {} <=> Lends(links, r)
  <1>1. OutSatisfied(reqs) \cup InSatisfied(reqs) = {r \in reqs : Lends(links, r)}
    BY DEF OutSatisfied, InSatisfied, Lends
  <1>2. ASSUME NEW r PROVE Satisfiers(r) # {} <=> Lends(links, r)
    <2>1. Satisfiers(r) # {} => Lends(links, r)
      BY DEF Satisfiers, Lends
    <2>2. ASSUME Lends(links, r) PROVE Satisfiers(r) # {}
      <3>1. PICK l \in links : \/ l.src = r /\ l.type \in OutboundSatisfies
                               \/ l.dst = r /\ l.type \in InboundSatisfies
        BY <2>2 DEF Lends
      <3>2. l.dst \in Satisfiers(r) \/ l.src \in Satisfiers(r)
        BY <3>1 DEF Satisfiers
      <3> QED BY <3>2
    <2> QED BY <2>1, <2>2
  <1> QED BY <1>1, <1>2

\* The crosswalks of reqs, link by link.
LEMMA CrosswalkFacts ==
    ASSUME NEW reqs, NEW name
    PROVE  /\ \A x \in Crosswalks(reqs, name) : \E l \in links :
                /\ l.type \in CrossMaps /\ x.label = l.type
                /\ \/ l.src \in reqs /\ x.of = l.src /\ x.is = l.dst
                   \/ l.src \notin reqs /\ l.dst \in reqs /\ x.of = l.dst /\ x.is = l.src
                /\ x.is \in Requirements /\ x.framework \in Owners(x.is) \ {name}
           /\ \A l \in links :
                l.type \in CrossMaps =>
                  /\ l.src \in reqs /\ l.dst \in Requirements => \A g \in Owners(l.dst) \ {name} :
                       [of |-> l.src, is |-> l.dst, label |-> l.type, framework |-> g]
                         \in Crosswalks(reqs, name)
                  /\ l.src \notin reqs /\ l.dst \in reqs /\ l.src \in Requirements =>
                       \A g \in Owners(l.src) \ {name} :
                         [of |-> l.dst, is |-> l.src, label |-> l.type, framework |-> g]
                           \in Crosswalks(reqs, name)
  <1> DEFINE anchor(l) == IF l.src \in reqs THEN l.src ELSE l.dst
             far(l) == IF l.src \in reqs THEN l.dst ELSE l.src
             asked == {l \in links : l.type \in CrossMaps /\ {l.src, l.dst} \cap reqs # {}
                                     /\ far(l) \in Requirements}
             row(l, g) == [of |-> anchor(l), is |-> far(l), label |-> l.type, framework |-> g]
  <1>1. Crosswalks(reqs, name) = UNION {{row(l, g) : g \in Owners(far(l)) \ {name}} : l \in asked}
    BY DEF Crosswalks
  <1>2. \A l \in asked : \A g \in Owners(far(l)) \ {name} : row(l, g) \in Crosswalks(reqs, name)
    <2> HIDE DEF asked, row, far
    <2> QED BY <1>1
  <1>3. ASSUME NEW x \in Crosswalks(reqs, name)
        PROVE  \E l \in links :
                /\ l.type \in CrossMaps /\ x.label = l.type
                /\ \/ l.src \in reqs /\ x.of = l.src /\ x.is = l.dst
                   \/ l.src \notin reqs /\ l.dst \in reqs /\ x.of = l.dst /\ x.is = l.src
                /\ x.is \in Requirements /\ x.framework \in Owners(x.is) \ {name}
    <2>1. PICK l \in asked : x \in {row(l, g) : g \in Owners(far(l)) \ {name}}
      BY <1>1
    <2>2. PICK g \in Owners(far(l)) \ {name} : x = row(l, g)
      BY <2>1
    <2>3. x.of = anchor(l) /\ x.is = far(l) /\ x.label = l.type /\ x.framework = g
      BY <2>2
    <2> QED BY <2>1, <2>2, <2>3
  <1>4. ASSUME NEW l \in links, l.type \in CrossMaps, l.src \in reqs, l.dst \in Requirements,
               NEW g \in Owners(l.dst) \ {name}
        PROVE  [of |-> l.src, is |-> l.dst, label |-> l.type, framework |-> g]
                 \in Crosswalks(reqs, name)
    <2>1. l \in asked /\ far(l) = l.dst /\ anchor(l) = l.src
      BY <1>4
    <2>2. row(l, g) \in Crosswalks(reqs, name)
      BY <1>2, <2>1
    <2> QED BY <2>1, <2>2
  <1>5. ASSUME NEW l \in links, l.type \in CrossMaps, l.src \notin reqs, l.dst \in reqs,
               l.src \in Requirements, NEW g \in Owners(l.src) \ {name}
        PROVE  [of |-> l.dst, is |-> l.src, label |-> l.type, framework |-> g]
                 \in Crosswalks(reqs, name)
    <2>1. l \in asked /\ far(l) = l.src /\ anchor(l) = l.dst
      BY <1>5
    <2>2. row(l, g) \in Crosswalks(reqs, name)
      BY <1>2, <2>1
    <2> QED BY <2>1, <2>2
  <1> QED BY <1>3, <1>4, <1>5

\* Who borrows among reqs.
LEMMA BorrowsFacts ==
    ASSUME NEW reqs, NEW name, NEW r
    PROVE  (\E e \in Equivalents(reqs, name) : e.of = r /\ Lends(links, e.is))
             <=> Borrows(links, reqs, Foreign(name), r)
  <1>1. ASSUME NEW e \in Equivalents(reqs, name), e.of = r, Lends(links, e.is)
        PROVE  Borrows(links, reqs, Foreign(name), r)
    <2>1. e \in Crosswalks(reqs, name) /\ e.label = "equivalent"
      BY DEF Equivalents
    <2>2. PICK l \in links :
                /\ l.type \in CrossMaps /\ e.label = l.type
                /\ \/ l.src \in reqs /\ e.of = l.src /\ e.is = l.dst
                   \/ l.src \notin reqs /\ l.dst \in reqs /\ e.of = l.dst /\ e.is = l.src
                /\ e.is \in Requirements /\ e.framework \in Owners(e.is) \ {name}
      BY <2>1, CrosswalkFacts
    <2>3. e.is \in Foreign(name)
      BY <2>2 DEF Foreign
    <2> QED BY <1>1, <2>1, <2>2, <2>3 DEF Borrows
  <1>2. ASSUME Borrows(links, reqs, Foreign(name), r)
        PROVE  \E e \in Equivalents(reqs, name) : e.of = r /\ Lends(links, e.is)
    <2>1. PICK l \in links : /\ l.type = "equivalent"
                 /\ \/ l.src \in reqs /\ l.src = r /\ l.dst \in Foreign(name) /\ Lends(links, l.dst)
                    \/ /\ l.src \notin reqs /\ l.dst \in reqs /\ l.dst = r /\ l.src \in Foreign(name)
                       /\ Lends(links, l.src)
      BY <1>2 DEF Borrows
    <2>2. "equivalent" \in CrossMaps
      BY DEF CrossMaps
    <2>3. CASE l.src \in reqs /\ l.src = r /\ l.dst \in Foreign(name) /\ Lends(links, l.dst)
      <3>1. PICK g \in Owners(l.dst) \ {name} : l.dst \in Requirements
        BY <2>3 DEF Foreign
      <3> DEFINE e == [of |-> l.src, is |-> l.dst, label |-> l.type, framework |-> g]
      <3>2. e \in Crosswalks(reqs, name)
        BY <2>1, <2>2, <2>3, <3>1, CrosswalkFacts
      <3>3. e.of = r /\ e.is = l.dst /\ e.label = "equivalent"
        BY <2>1, <2>3
      <3> HIDE DEF e
      <3> QED BY <2>3, <3>2, <3>3 DEF Equivalents
    <2>4. CASE /\ l.src \notin reqs /\ l.dst \in reqs /\ l.dst = r /\ l.src \in Foreign(name)
               /\ Lends(links, l.src)
      <3>1. PICK g \in Owners(l.src) \ {name} : l.src \in Requirements
        BY <2>4 DEF Foreign
      <3> DEFINE e == [of |-> l.dst, is |-> l.src, label |-> l.type, framework |-> g]
      <3>2. e \in Crosswalks(reqs, name)
        BY <2>1, <2>2, <2>4, <3>1, CrosswalkFacts
      <3>3. e.of = r /\ e.is = l.src /\ e.label = "equivalent"
        BY <2>1, <2>4
      <3> HIDE DEF e
      <3> QED BY <2>4, <3>2, <3>3 DEF Equivalents
    <2> QED BY <2>1, <2>3, <2>4
  <1> QED BY <1>1, <1>2

\* The figures of the page.
LEMMA DetailFacts ==
    ASSUME NEW f
    PROVE  LET R == RequirementIds(f)
               A == R \cap scope
               S == {r \in A : Lends(links, r)}
               B == {r \in A \ S : Borrows(links, R, Foreign(names[f]), r)}
           IN  Detail(f) = Figures(A, S, Strengths({r \in R : Lends(links, r)}), B)
  <1> DEFINE R == RequirementIds(f)
             A == R \cap scope
             S == {r \in A : Lends(links, r)}
             B == {r \in A \ S : Borrows(links, R, Foreign(names[f]), r)}
             satisfied == {r \in R : Satisfiers(r) # {}}
             gapsEquivalents == {e \in Equivalents(R, names[f]) : e.of \notin satisfied}
             targets == {e.is : e \in gapsEquivalents}
             borrowed == {e.of : e \in {d \in gapsEquivalents : d.is \in Lenders(targets)}}
  <1>1. Detail(f) = Figures(A, satisfied \cap A, Strengths(satisfied), borrowed \cap A)
    BY DEF Detail
  <1>2. satisfied = {r \in R : Lends(links, r)} /\ satisfied \cap A = S
    <2>1. \A r : Satisfiers(r) # {} <=> Lends(links, r)
      BY SatisfiedFacts
    <2> QED BY <2>1
  <1>3. Lenders(targets) = {x \in targets : Lends(links, x)}
    BY SatisfiedFacts DEF Lenders
  <1>4. \A r : r \in borrowed <=>
                 r \notin satisfied /\ \E e \in Equivalents(R, names[f]) : e.of = r /\ Lends(links, e.is)
    <2> HIDE DEF satisfied
    <2>1. ASSUME NEW r \in borrowed
          PROVE  r \notin satisfied /\ \E e \in Equivalents(R, names[f]) : e.of = r /\ Lends(links, e.is)
      BY <1>3, <2>1
    <2>2. ASSUME NEW r, r \notin satisfied,
                 NEW e \in Equivalents(R, names[f]), e.of = r, Lends(links, e.is)
          PROVE  r \in borrowed
      <3>1. e \in gapsEquivalents
        BY <2>2
      <3>2. e.is \in Lenders(targets)
        BY <1>3, <2>2, <3>1
      <3> QED BY <2>2, <3>1, <3>2
    <2> QED BY <2>1, <2>2
  <1>5. \A r : r \in borrowed <=> r \notin satisfied /\ Borrows(links, R, Foreign(names[f]), r)
    <2>1. \A r : (\E e \in Equivalents(R, names[f]) : e.of = r /\ Lends(links, e.is))
                   <=> Borrows(links, R, Foreign(names[f]), r)
      BY BorrowsFacts
    <2> HIDE DEF satisfied, borrowed, R
    <2> QED BY <1>4, <2>1
  <1>6. borrowed \cap A = B
    <2> HIDE DEF borrowed
    <2> QED BY <1>2, <1>5
  <1> HIDE DEF satisfied, borrowed
  <1> QED BY <1>1, <1>2, <1>6

LEMMA RequirementsOf ==
    ASSUME NEW f
    PROVE  RequirementIds(f) \in SUBSET Requirements
  BY DEF RequirementIds

LEMMA DetailEffective ==
    ASSUME NEW f
    PROVE  Detail(f).effective
             = Percent(Cardinality(Covered(links, RequirementIds(f) \cap scope, RequirementIds(f),
                                           Foreign(names[f]))),
                       Cardinality(RequirementIds(f) \cap scope))
  <1> DEFINE R == RequirementIds(f)
             A == R \cap scope
             S == {r \in A : Lends(links, r)}
             B == {r \in A \ S : Borrows(links, R, Foreign(names[f]), r)}
  <1>1. Detail(f) = Figures(A, S, Strengths({r \in R : Lends(links, r)}), B)
    BY DetailFacts
  <1>2. A \in SUBSET Requirements /\ S \in SUBSET A /\ B \in SUBSET (A \ S)
    BY RequirementsOf
  <1>3. S \cup B = Covered(links, A, R, Foreign(names[f]))
    BY DEF Covered
  <1> DEFINE X == Strengths({r \in R : Lends(links, r)})
  <1>4. Detail(f) = Figures(A, S, X, B)
    BY <1>1
  <1> HIDE DEF A, S, B, X
  <1>5. Figures(A, S, X, B).effective = Percent(Cardinality(S \cup B), Cardinality(A))
    BY <1>2, FiguresFacts
  <1> QED BY <1>3, <1>4, <1>5 DEF A

-----------------------------------------------------------------------------
(* Links and the effective coverage *)

LEMMA CoveredMonotone ==
    ASSUME NEW K, NEW L, K \subseteq L, NEW A, NEW R, NEW O
    PROVE  Covered(K, A, R, O) \subseteq Covered(L, A, R, O)
  <1>1. \A r : Lends(K, r) => Lends(L, r)
    BY DEF Lends
  <1>2. \A r : Borrows(K, R, O, r) => Borrows(L, R, O, r)
    <2> HIDE DEF Lends
    <2> QED BY <1>1 DEF Borrows
  <1> QED BY <1>1, <1>2 DEF Covered

\* The effective figure of a page, as the lemma above has it.
EffectiveCounts ==
    \A f : Detail(f).effective
             = Percent(Cardinality(Covered(links, RequirementIds(f) \cap scope, RequirementIds(f),
                                           Foreign(names[f]))),
                       Cardinality(RequirementIds(f) \cap scope))

LEMMA EffectiveAlways == EffectiveCounts /\ EffectiveCounts'
  <1>1. EffectiveCounts
    BY DetailEffective DEF EffectiveCounts
  <1>2. EffectiveCounts'
    BY <1>1, PTL
  <1> QED BY <1>1, <1>2

\* Requirements, and what they are listed under, are a matter of parent links.
LEMMA ParentFacts ==
    ASSUME NEW f
    PROVE  /\ RequirementIds(f) = {l.dst : l \in {k \in ParentLinks : k.src = f}} \cap Requirements
           /\ \A r : Parents(r) = {l.src : l \in {k \in ParentLinks : k.dst = r}}
  BY DEF RequirementIds, Parents, ParentLinks

ParentsCount ==
    \A f : /\ RequirementIds(f) = {l.dst : l \in {k \in ParentLinks : k.src = f}} \cap Requirements
           /\ \A r : Parents(r) = {l.src : l \in {k \in ParentLinks : k.dst = r}}

LEMMA ParentsAlways == ParentsCount /\ ParentsCount'
  <1>1. ParentsCount
    BY ParentFacts DEF ParentsCount
  <1>2. ParentsCount'
    BY <1>1, PTL
  <1> QED BY <1>1, <1>2

LEMMA SameFacts ==
    ASSUME SameRequirements, NEW f
    PROVE  RequirementIds(f)' = RequirementIds(f) /\ Foreign(names[f])' = Foreign(names[f])
  <1>1. ParentLinks' = ParentLinks
    BY DEF SameRequirements
  <1>2. RequirementIds(f)' = RequirementIds(f)
    BY <1>1, ParentsAlways DEF ParentsCount
  <1>3. \A r : Parents(r)' = Parents(r)
    BY <1>1, ParentsAlways DEF ParentsCount
  <1>4. names' = names /\ \A r : Owners(r)' = Owners(r)
    BY <1>3 DEF Owners, SameRequirements
  <1>5. Foreign(names[f])' = Foreign(names[f])
    BY <1>4 DEF Foreign
  <1> QED BY <1>2, <1>5

LEMMA PercentOfSubset ==
    ASSUME NEW A \in SUBSET Requirements, NEW T \in SUBSET A, NEW S \in SUBSET T
    PROVE  Percent(Cardinality(S), Cardinality(A)) <= Percent(Cardinality(T), Cardinality(A))
  <1> DEFINE s == Cardinality(S)
             t == Cardinality(T)
             n == Cardinality(A)
  <1>1. s \in Nat /\ t \in Nat /\ n \in Nat /\ s <= t /\ t <= n
    BY Counted
  <1> HIDE DEF s, t, n
  <1>2. n \in Nat /\ s \in 0..n /\ t \in s..n
    BY <1>1
  <1>3. Percent(s, n) <= Percent(t, n)
    BY <1>2, PercentFacts
  <1> QED BY <1>3 DEF s, t, n

\* EffectiveMonotone: a link that is added never lowers the effective coverage
\* of a framework and one that is removed never raises it, whatever the links.
THEOREM MoreLinksMoreCoverage == Spec => EffectiveMonotone
  <1>1. ASSUME SameRequirements, NEW f \in Frameworks
        PROVE  /\ links \subseteq links' => Detail(f).effective <= Detail(f)'.effective
               /\ links' \subseteq links => Detail(f)'.effective <= Detail(f).effective
    <2> DEFINE R == RequirementIds(f)
               O == Foreign(names[f])
               A == R \cap scope
               n == Cardinality(A)
               before == Covered(links, A, R, O)
               after == Covered(links', A, R, O)
    <2>1. Detail(f).effective = Percent(Cardinality(before), n)
      BY EffectiveAlways DEF EffectiveCounts
    <2>2. Detail(f)'.effective = Percent(Cardinality(after), n)
      <3>1. Detail(f)'.effective
              = Percent(Cardinality(Covered(links', RequirementIds(f)' \cap scope',
                                            RequirementIds(f)', Foreign(names[f])')),
                        Cardinality(RequirementIds(f)' \cap scope'))
        BY EffectiveAlways DEF EffectiveCounts, Covered, Borrows, Lends
      <3>2. scope' = scope /\ RequirementIds(f)' = RequirementIds(f) /\ Foreign(names[f])' = Foreign(names[f])
        BY <1>1, SameFacts DEF SameRequirements
      <3> QED BY <3>1, <3>2
    <2>3. A \in SUBSET Requirements /\ before \in SUBSET A /\ after \in SUBSET A
      BY RequirementsOf DEF Covered
    <2>4. links \subseteq links' => before \subseteq after
      BY CoveredMonotone
    <2>5. links' \subseteq links => after \subseteq before
      BY CoveredMonotone
    <2> HIDE DEF before, after, A
    <2>6. ASSUME links \subseteq links' PROVE Detail(f).effective <= Detail(f)'.effective
      <3>1. Percent(Cardinality(before), n) <= Percent(Cardinality(after), n)
        BY <2>3, <2>4, <2>6, PercentOfSubset
      <3> QED BY <2>1, <2>2, <3>1
    <2>7. ASSUME links' \subseteq links PROVE Detail(f)'.effective <= Detail(f).effective
      <3>1. Percent(Cardinality(after), n) <= Percent(Cardinality(before), n)
        BY <2>3, <2>5, <2>7, PercentOfSubset
      <3> QED BY <2>1, <2>2, <3>1
    <2> QED BY <2>6, <2>7
  <1>2. [links' # links /\ SameRequirements =>
           \A f \in Frameworks :
              /\ links \subseteq links' => Detail(f).effective <= Detail(f)'.effective
              /\ links' \subseteq links => Detail(f)'.effective <= Detail(f).effective]_vars
    BY <1>1
  <1> QED BY <1>2, PTL DEF Spec, EffectiveMonotone

-----------------------------------------------------------------------------
(* A job between two statements: what it holds is what it has read of one   *)
(* framework, so that its figures add up whatever was edited meanwhile.     *)

Midway == {"scope", "outbound", "inbound", "strengths", "crosswalks", "lendersOut", "lendersIn"}

JobOK(job) ==
    /\ job \in JobType
    /\ job.pc # "idle" => job.last \in 0..MaxDay
    /\ job.pc \in Midway => job.fw \in Frameworks
    /\ job.satisfied \subseteq job.reqs
    /\ job.pc \in {"requirements", "scope", "outbound"} => job.satisfied = {}
    /\ job.pc \in {"requirements", "scope", "outbound", "inbound", "strengths", "crosswalks"} =>
           job.equivalents = {}
    /\ \A e \in job.equivalents : e.of \in job.reqs \ job.satisfied
    /\ \A s \in job.summaries : AddUp(s.figures)

JobsOK == TypeOK /\ \A w \in Workers : JobOK(jobs[w])

\* Each set of weights has a best one.
LEMMA BestWeight ==
    ASSUME NEW W \in SUBSET {0, 1, 2, 4}, W # {}
    PROVE  (CHOOSE best \in W : \A w \in W : w <= best) \in 0..Full
  <1>1. \E best \in W : \A w \in W : w <= best
    <2>1. CASE 4 \in W
      BY <2>1
    <2>2. CASE 4 \notin W /\ 2 \in W
      BY <2>2
    <2>3. CASE 4 \notin W /\ 2 \notin W /\ 1 \in W
      BY <2>3
    <2>4. CASE 4 \notin W /\ 2 \notin W /\ 1 \notin W
      <3>1. \A w \in W : w = 0
        BY <2>4
      <3>2. 0 \in W
        BY <3>1
      <3> QED BY <3>1, <3>2
    <2> QED BY <2>1, <2>2, <2>3, <2>4
  <1> DEFINE b == CHOOSE best \in W : \A w \in W : w <= best
  <1>2. b \in W
    BY <1>1
  <1> HIDE DEF b
  <1>3. b \in 0..Full
    BY <1>2 DEF Full
  <1> QED BY <1>3 DEF b

StrengthType == UNION {[S -> 0..Full] : S \in SUBSET Requirements}

LEMMA StrengthTypes ==
    ASSUME TypeOK, NEW reqs \in SUBSET Requirements
    PROVE  Strengths(reqs) \in StrengthType
  <1> DEFINE weights(r) == {Weight[grade[c]] : c \in {d \in Satisfiers(r) \cap Controls : grade[d] # Null}}
             D == {q \in reqs : weights(q) # {}}
             best(r) == CHOOSE b \in weights(r) : \A w \in weights(r) : w <= b
  <1>1. Strengths(reqs) = [r \in D |-> best(r)]
    BY DEF Strengths
  <1>2. \A r : weights(r) \in SUBSET {0, 1, 2, 4}
    <2>1. \A c \in Controls : grade[c] # Null => grade[c] \in DOMAIN Weight
      BY DEF TypeOK
    <2>2. \A x \in DOMAIN Weight : Weight[x] \in {0, 1, 2, 4}
      BY DEF Weight
    <2> QED BY <2>1, <2>2
  <1>3. \A r \in D : best(r) \in 0..Full
    <2> HIDE DEF weights
    <2> QED BY <1>2, BestWeight
  <1> HIDE DEF best
  <1>4. D \in SUBSET Requirements
    OBVIOUS
  <1> HIDE DEF D
  <1>5. Strengths(reqs) \in [D -> 0..Full]
    BY <1>1, <1>3
  <1> QED BY <1>4, <1>5 DEF StrengthType

LEMMA RestingOK ==
    ASSUME NEW d \in -1..MaxDay
    PROVE  JobOK(Resting(d)) /\ Resting(d).pc = "idle" /\ Resting(d).last = d
  <1>1. <<>> \in StrengthType
    <2>1. <<>> \in [{} -> 0..Full]
      BY DEF Full
    <2> QED BY <2>1 DEF StrengthType
  <1>2. Resting(d) \in JobType
    <2>1. 0 \in 0..MaxEdits
      BY CoverageAssumption
    <2>2. [f \in Frameworks |-> Null] \in [Frameworks -> Names \cup {Null}]
      OBVIOUS
    <2> QED BY <1>1, <2>1, <2>2 DEF Resting, JobType, StrengthType
  <1> QED BY <1>2 DEF Resting, JobOK, Midway

LEMMA SummariseOK ==
    ASSUME NEW job, JobOK(job), job.pc \in Midway,
           NEW B \in SUBSET (job.reqs \ job.satisfied)
    PROVE  JobOK(Summarise(job, B))
  <1> DEFINE figures == Figures(job.reqs, job.satisfied, job.strengths, B)
             s == [fw |-> job.fw, name |-> job.called[job.fw], seen |-> job.seen, figures |-> figures]
             pc == IF job.todo = {} THEN "insert" ELSE "requirements"
  <1>1. job \in JobType /\ job.reqs \in SUBSET Requirements /\ job.satisfied \in SUBSET job.reqs
        /\ job.fw \in Frameworks /\ job.last \in 0..MaxDay
        /\ job.called[job.fw] \in Names \cup {Null}
    BY DEF JobOK, JobType, Midway
  <1>2. figures \in Figure /\ AddUp(figures)
    BY <1>1, FiguresFacts
  <1> HIDE DEF figures
  <1>3. s \in SummaryType /\ s.figures = figures
    BY <1>1, <1>2 DEF SummaryType, JobType
  <1>4. Summarise(job, B)
          = [job EXCEPT !.pc = pc, !.summaries = @ \cup {s},
                !.fw = Null, !.reqs = {}, !.satisfied = {}, !.strengths = <<>>,
                !.equivalents = {}, !.lends = {}, !.seen = 0]
    BY DEF Summarise, figures
  <1> HIDE DEF s, pc
  <1>5. pc \in {"insert", "requirements"}
    BY DEF pc
  <1>6. job.summaries \cup {s} \in SUBSET SummaryType /\ \A t \in job.summaries \cup {s} : AddUp(t.figures)
    BY <1>1, <1>2, <1>3 DEF JobOK, JobType
  <1>7. <<>> \in StrengthType /\ 0 \in 0..MaxEdits
    <2>1. <<>> \in [{} -> 0..Full]
      BY DEF Full
    <2>2. <<>> \in StrengthType
      BY <2>1 DEF StrengthType
    <2>3. 0 \in 0..MaxEdits
      BY CoverageAssumption
    <2> QED BY <2>2, <2>3
  <1> DEFINE new == [job EXCEPT !.pc = pc, !.summaries = @ \cup {s},
                !.fw = Null, !.reqs = {}, !.satisfied = {}, !.strengths = <<>>,
                !.equivalents = {}, !.lends = {}, !.seen = 0]
  <1>8. new \in JobType
    BY <1>1, <1>5, <1>6, <1>7 DEF JobType, StrengthType
  <1>9. /\ new.pc = pc /\ new.last = job.last /\ new.satisfied = {} /\ new.equivalents = {}
        /\ new.summaries = job.summaries \cup {s}
    BY <1>1 DEF JobType
  <1> HIDE DEF new
  <1>10. JobOK(new)
    BY <1>1, <1>5, <1>6, <1>8, <1>9 DEF JobOK, Midway
  <1> QED BY <1>4, <1>10 DEF new

LEMMA StepOK ==
    ASSUME JobsOK, NEW w \in Workers, NEW job, JobOK(job), Step(w, job)
    PROVE  JobsOK'
  <1>1. jobs' = [jobs EXCEPT ![w] = job] /\ jobs \in [Workers -> JobType] /\ job \in JobType
    BY DEF Step, JobsOK, TypeOK, JobOK
  <1>2. jobs' \in [Workers -> JobType] /\ \A v \in Workers : jobs'[v] = IF v = w THEN job ELSE jobs[v]
    BY <1>1
  <1>3. \A v \in Workers : JobOK(jobs'[v])
    BY <1>2 DEF JobsOK
  <1>4. UNCHANGED <<links, live, scope, names, grade, day, edits, crashes, snapshots>>
    BY DEF Step, Graph
  <1>5. TypeOK'
    BY <1>2, <1>4 DEF JobsOK, TypeOK
  <1> QED BY <1>3, <1>5 DEF JobsOK

LEMMA ReadRequirementsOK ==
    ASSUME JobsOK, NEW w \in Workers, ReadRequirements(w)
    PROVE  JobsOK'
  <1> DEFINE j == jobs[w]
  <1>1. JobOK(j) /\ j \in JobType /\ edits \in 0..MaxEdits /\ j.pc = "requirements"
    BY DEF JobsOK, JobOK, TypeOK, ReadRequirements
  <1>2. PICK f \in j.todo :
          Step(w, [j EXCEPT !.pc = "scope", !.todo = @ \ {f}, !.fw = f,
                            !.reqs = RequirementIds(f), !.seen = edits])
    BY DEF ReadRequirements
  <1> DEFINE R == RequirementIds(f)
             new == [j EXCEPT !.pc = "scope", !.todo = @ \ {f}, !.fw = f, !.reqs = R, !.seen = edits]
  <1>3. R \in SUBSET Requirements
    BY RequirementsOf
  <1> HIDE DEF j, R
  <1>4. f \in Frameworks /\ j.satisfied = {} /\ j.equivalents = {} /\ j.last \in 0..MaxDay
    BY <1>1, <1>2 DEF JobOK, JobType
  <1>5. new \in JobType
    BY <1>1, <1>3, <1>4 DEF JobType
  <1>6. /\ new.pc = "scope" /\ new.last = j.last /\ new.fw = f /\ new.satisfied = {}
        /\ new.equivalents = {} /\ new.summaries = j.summaries
    BY <1>1, <1>4 DEF JobType
  <1>7. Step(w, new)
    BY <1>2 DEF R
  <1> HIDE DEF new
  <1>8. JobOK(new)
    BY <1>1, <1>4, <1>5, <1>6 DEF JobOK, Midway
  <1> QED BY <1>7, <1>8, StepOK

LEMMA ReadScopeOK ==
    ASSUME JobsOK, NEW w \in Workers, ReadScope(w)
    PROVE  JobsOK'
  <1> DEFINE j == jobs[w]
             R == Applicable(j.reqs)
             job == [j EXCEPT !.reqs = R]
             next == [job EXCEPT !.pc = "outbound"]
  <1>1. JobOK(j) /\ j \in JobType /\ j.pc = "scope"
    BY DEF JobsOK, JobOK, ReadScope
  <1>2. Step(w, IF job.reqs = {} THEN Summarise(job, {}) ELSE next)
    BY DEF ReadScope
  <1>3. R \in SUBSET Requirements
    BY <1>1 DEF Applicable, JobType
  <1> HIDE DEF j, R
  <1>4. j.satisfied = {} /\ j.equivalents = {} /\ j.last \in 0..MaxDay /\ j.fw \in Frameworks
    BY <1>1 DEF JobOK, Midway
  <1>5. /\ job \in JobType /\ job.pc = "scope" /\ job.last = j.last /\ job.fw = j.fw
        /\ job.satisfied = {} /\ job.equivalents = {} /\ job.summaries = j.summaries
        /\ next \in JobType /\ next.pc = "outbound" /\ next.last = j.last /\ next.fw = j.fw
        /\ next.satisfied = {} /\ next.equivalents = {} /\ next.summaries = j.summaries
    BY <1>1, <1>3, <1>4 DEF JobType
  <1> HIDE DEF job, next
  <1>6. JobOK(job) /\ JobOK(next)
    BY <1>1, <1>4, <1>5 DEF JobOK, Midway
  <1>7. JobOK(Summarise(job, {}))
    BY <1>5, <1>6, SummariseOK DEF Midway
  <1> QED BY <1>2, <1>6, <1>7, StepOK

LEMMA ReadOutboundOK ==
    ASSUME JobsOK, NEW w \in Workers, ReadOutbound(w)
    PROVE  JobsOK'
  <1> DEFINE j == jobs[w]
             S == OutSatisfied(j.reqs)
             new == [j EXCEPT !.pc = "inbound", !.satisfied = S]
  <1>1. JobOK(j) /\ j \in JobType /\ j.pc = "outbound" /\ Step(w, new)
    BY DEF JobsOK, JobOK, ReadOutbound
  <1>2. S \subseteq j.reqs
    BY DEF OutSatisfied
  <1> HIDE DEF j, S
  <1>3. j.equivalents = {} /\ j.last \in 0..MaxDay /\ j.fw \in Frameworks
    BY <1>1 DEF JobOK, Midway
  <1>4. /\ new \in JobType /\ new.pc = "inbound" /\ new.last = j.last /\ new.fw = j.fw
        /\ new.satisfied = S /\ new.reqs = j.reqs /\ new.equivalents = {}
        /\ new.summaries = j.summaries
    BY <1>1, <1>2, <1>3 DEF JobType
  <1>5. Step(w, new)
    BY <1>1
  <1> HIDE DEF new
  <1>6. JobOK(new)
    BY <1>1, <1>2, <1>3, <1>4 DEF JobOK, Midway
  <1> QED BY <1>5, <1>6, StepOK

LEMMA ReadInboundOK ==
    ASSUME JobsOK, NEW w \in Workers, ReadInbound(w)
    PROVE  JobsOK'
  <1> DEFINE j == jobs[w]
             S == j.satisfied \cup InSatisfied(j.reqs)
             pc == IF S = {} THEN "crosswalks" ELSE "strengths"
             new == [j EXCEPT !.satisfied = S, !.pc = pc]
  <1>1. JobOK(j) /\ j \in JobType /\ j.pc = "inbound" /\ Step(w, new)
    BY DEF JobsOK, JobOK, ReadInbound
  <1>2. S \subseteq j.reqs
    BY <1>1 DEF InSatisfied, JobOK
  <1>3. pc \in {"crosswalks", "strengths"}
    OBVIOUS
  <1> HIDE DEF j, S, pc
  <1>4. j.equivalents = {} /\ j.last \in 0..MaxDay /\ j.fw \in Frameworks
    BY <1>1 DEF JobOK, Midway
  <1>5. /\ new \in JobType /\ new.pc = pc /\ new.last = j.last /\ new.fw = j.fw
        /\ new.satisfied = S /\ new.reqs = j.reqs /\ new.equivalents = {}
        /\ new.summaries = j.summaries
    BY <1>1, <1>2, <1>3, <1>4 DEF JobType
  <1>6. Step(w, new)
    BY <1>1
  <1> HIDE DEF new
  <1>7. JobOK(new)
    BY <1>1, <1>2, <1>3, <1>4, <1>5 DEF JobOK, Midway
  <1> QED BY <1>6, <1>7, StepOK

LEMMA ReadStrengthsOK ==
    ASSUME JobsOK, NEW w \in Workers, ReadStrengths(w)
    PROVE  JobsOK'
  <1> DEFINE j == jobs[w]
             X == Strengths(j.satisfied)
             job == [j EXCEPT !.strengths = X]
             next == [job EXCEPT !.pc = "crosswalks"]
  <1>1. JobOK(j) /\ j \in JobType /\ j.pc = "strengths"
    BY DEF JobsOK, JobOK, ReadStrengths
  <1>2. Step(w, IF Gaps(job) = {} THEN Summarise(job, {}) ELSE next)
    BY DEF ReadStrengths
  <1>3. X \in StrengthType
    <2>1. j.satisfied \in SUBSET Requirements
      BY <1>1 DEF JobType
    <2> QED BY <2>1, StrengthTypes DEF JobsOK
  <1> HIDE DEF j, X
  <1>4. j.equivalents = {} /\ j.last \in 0..MaxDay /\ j.fw \in Frameworks
        /\ j.satisfied \subseteq j.reqs
    BY <1>1 DEF JobOK, Midway
  <1>5. /\ job \in JobType /\ job.pc = "strengths" /\ job.last = j.last /\ job.fw = j.fw
        /\ job.satisfied = j.satisfied /\ job.reqs = j.reqs
        /\ job.equivalents = {} /\ job.summaries = j.summaries
        /\ next \in JobType /\ next.pc = "crosswalks" /\ next.last = j.last /\ next.fw = j.fw
        /\ next.satisfied = j.satisfied /\ next.reqs = j.reqs
        /\ next.equivalents = {} /\ next.summaries = j.summaries
    BY <1>1, <1>3, <1>4 DEF JobType, StrengthType
  <1> HIDE DEF job, next
  <1>6. JobOK(job) /\ JobOK(next)
    BY <1>1, <1>4, <1>5 DEF JobOK, Midway
  <1>7. JobOK(Summarise(job, {}))
    BY <1>5, <1>6, SummariseOK DEF Midway
  <1> QED BY <1>2, <1>6, <1>7, StepOK

LEMMA ReadCrosswalksOK ==
    ASSUME JobsOK, NEW w \in Workers, ReadCrosswalks(w)
    PROVE  JobsOK'
  <1> DEFINE j == jobs[w]
             found == {[of |-> e.of, is |-> e.is] : e \in Equivalents(Gaps(j), j.called[j.fw])}
             next == [j EXCEPT !.pc = "lendersOut", !.equivalents = found]
  <1>1. JobOK(j) /\ j \in JobType /\ j.pc = "crosswalks"
        /\ Step(w, IF found = {} THEN Summarise(j, {}) ELSE next)
    BY DEF JobsOK, JobOK, ReadCrosswalks
  <1>2. \A e \in found : e \in [of : Requirements, is : Requirements] /\ e.of \in j.reqs \ j.satisfied
    <2>1. \A e \in Equivalents(Gaps(j), j.called[j.fw]) : e.of \in Gaps(j) /\ e.is \in Requirements
      BY CrosswalkFacts DEF Equivalents
    <2>2. Gaps(j) = j.reqs \ j.satisfied /\ j.reqs \subseteq Requirements
      BY <1>1 DEF Gaps, JobType
    <2>3. \A e \in Equivalents(Gaps(j), j.called[j.fw]) :
            /\ [of |-> e.of, is |-> e.is] \in [of : Requirements, is : Requirements]
            /\ [of |-> e.of, is |-> e.is].of \in j.reqs \ j.satisfied
      BY <2>1, <2>2
    <2> QED BY <2>3
  <1> HIDE DEF j, found
  <1>3. /\ j.equivalents = {} /\ j.last \in 0..MaxDay /\ j.fw \in Frameworks
        /\ j.satisfied \subseteq j.reqs
    BY <1>1 DEF JobOK, Midway
  <1>4. /\ next \in JobType /\ next.pc = "lendersOut" /\ next.last = j.last /\ next.fw = j.fw
        /\ next.satisfied = j.satisfied /\ next.reqs = j.reqs /\ next.equivalents = found
        /\ next.summaries = j.summaries
    BY <1>1, <1>2, <1>3 DEF JobType
  <1> HIDE DEF next
  <1>5. JobOK(next)
    BY <1>1, <1>2, <1>3, <1>4 DEF JobOK, Midway
  <1>6. JobOK(Summarise(j, {}))
    BY <1>1, SummariseOK DEF Midway
  <1> QED BY <1>1, <1>5, <1>6, StepOK

LEMMA ReadLendersOutOK ==
    ASSUME JobsOK, NEW w \in Workers, ReadLendersOut(w)
    PROVE  JobsOK'
  <1> DEFINE j == jobs[w]
             L == OutSatisfied(Targets(j))
             new == [j EXCEPT !.pc = "lendersIn", !.lends = L]
  <1>1. JobOK(j) /\ j \in JobType /\ j.pc = "lendersOut" /\ Step(w, new)
    BY DEF JobsOK, JobOK, ReadLendersOut
  <1>2. L \subseteq Requirements
    BY <1>1 DEF OutSatisfied, Targets, JobType
  <1> HIDE DEF j, L
  <1>3. j.last \in 0..MaxDay /\ j.fw \in Frameworks
    BY <1>1 DEF JobOK, Midway
  <1>4. /\ new \in JobType /\ new.pc = "lendersIn" /\ new.last = j.last /\ new.fw = j.fw
        /\ new.satisfied = j.satisfied /\ new.reqs = j.reqs /\ new.equivalents = j.equivalents
        /\ new.summaries = j.summaries
    BY <1>1, <1>2 DEF JobType
  <1>5. Step(w, new)
    BY <1>1
  <1> HIDE DEF new
  <1>6. JobOK(new)
    BY <1>1, <1>3, <1>4 DEF JobOK, Midway
  <1> QED BY <1>5, <1>6, StepOK

LEMMA ReadLendersInOK ==
    ASSUME JobsOK, NEW w \in Workers, ReadLendersIn(w)
    PROVE  JobsOK'
  <1> DEFINE j == jobs[w]
             lends == j.lends \cup InSatisfied(Targets(j))
             B == {e.of : e \in {d \in j.equivalents : d.is \in lends}}
  <1>1. JobOK(j) /\ j.pc = "lendersIn" /\ Step(w, Summarise(j, B))
    BY DEF JobsOK, ReadLendersIn
  <1>2. B \in SUBSET (j.reqs \ j.satisfied)
    <2> HIDE DEF lends
    <2> QED BY <1>1 DEF JobOK
  <1> HIDE DEF j, B
  <1>3. JobOK(Summarise(j, B))
    BY <1>1, <1>2, SummariseOK DEF Midway
  <1> QED BY <1>1, <1>3, StepOK

LEMMA StartOK ==
    ASSUME JobsOK, NEW w \in Workers, Start(w)
    PROVE  JobsOK'
  <1> DEFINE found == live \cap Frameworks
             pc == IF found = {} THEN "idle" ELSE "requirements"
             r == Resting(day)
             new == [r EXCEPT !.todo = found, !.called = names, !.pc = pc]
  <1>1. day \in 0..MaxDay /\ day \in -1..MaxDay /\ Step(w, new)
    BY DEF JobsOK, TypeOK, Start
  <1>2. JobOK(r) /\ r.last = day
    BY <1>1, RestingOK
  <1>3. r.satisfied = {} /\ r.equivalents = {} /\ r.summaries = {}
    BY DEF Resting
  <1>4. pc \in {"idle", "requirements"} /\ found \in SUBSET Frameworks
        /\ names \in [Frameworks -> Names \cup {Null}]
    BY DEF JobsOK, TypeOK
  <1> HIDE DEF r, pc, found
  <1>5. /\ new \in JobType /\ new.pc = pc /\ new.last = day
        /\ new.satisfied = {} /\ new.equivalents = {} /\ new.summaries = {}
    BY <1>1, <1>2, <1>3, <1>4 DEF JobOK, JobType
  <1> HIDE DEF new
  <1>6. JobOK(new)
    BY <1>1, <1>4, <1>5 DEF JobOK, Midway
  <1> QED BY <1>1, <1>6, StepOK

LEMMA InsertOK ==
    ASSUME JobsOK, NEW w \in Workers, Insert(w)
    PROVE  JobsOK'
  <1> DEFINE j == jobs[w]
  <1>1. JobOK(j) /\ j \in JobType /\ j.pc = "insert" /\ j.last \in 0..MaxDay
    BY DEF JobsOK, JobOK, Insert
  <1>2. PICK s \in j.summaries :
          /\ jobs' = [jobs EXCEPT ![w] = IF s.fw \notin live \/ j.summaries \ {s} = {} THEN Resting(@.last)
                                         ELSE [@ EXCEPT !.summaries = j.summaries \ {s}]]
          /\ snapshots' = IF s.fw \notin live THEN snapshots
                          ELSE [snapshots EXCEPT ![s.fw][j.last] = SnapshotRow(s.figures)]
    BY DEF Insert
  <1>3. UNCHANGED <<links, live, scope, names, grade, day, edits, crashes>>
    BY DEF Insert, Graph
  <1>4. jobs \in [Workers -> JobType] /\ snapshots \in [Frameworks -> [0..MaxDay -> RowType \cup {Null}]]
    BY DEF JobsOK, TypeOK
  <1> DEFINE rest == [j EXCEPT !.summaries = j.summaries \ {s}]
             done == Resting(j.last)
             row == SnapshotRow(s.figures)
             new == IF s.fw \notin live \/ j.summaries \ {s} = {} THEN done ELSE rest
  <1>5. jobs' = [jobs EXCEPT ![w] = new]
    BY <1>2, <1>4
  <1>6. JobOK(done)
    BY <1>1, RestingOK
  <1>7. JobOK(rest)
    <2> HIDE DEF j
    <2>1. /\ rest \in JobType /\ rest.pc = "insert" /\ rest.last = j.last
          /\ rest.satisfied = j.satisfied /\ rest.reqs = j.reqs /\ rest.equivalents = j.equivalents
          /\ rest.summaries = j.summaries \ {s}
      BY <1>1 DEF JobType
    <2> HIDE DEF rest
    <2> QED BY <1>1, <2>1 DEF JobOK, Midway
  <1>8. s.fw \in Frameworks /\ row \in RowType
    <2> DEFINE n == s.figures
    <2>1. s.fw \in Frameworks /\ n \in Figure /\ AddUp(n)
      BY <1>1, <1>2 DEF JobOK, JobType, SummaryType
    <2> HIDE DEF n
    <2>2. /\ n.count \in Nat /\ n.satisfied \in Nat /\ n.borrowed \in Nat
          /\ n.direct \in 0..100 /\ n.effective \in 0..100 /\ n.satisfied + n.borrowed <= n.count
      BY <2>1 DEF Figure, AddUp
    <2>3. n.count - n.satisfied - n.borrowed \in Nat
      BY <2>2
    <2>4. SnapshotRow(n) \in RowType
      BY <2>2, <2>3 DEF SnapshotRow, RowType
    <2> QED BY <2>1, <2>4 DEF n
  <1> HIDE DEF new, done, rest, row
  <1>9. JobOK(new) /\ new \in JobType
    BY <1>6, <1>7 DEF new, JobOK
  <1>10. jobs' \in [Workers -> JobType] /\ \A v \in Workers : jobs'[v] = IF v = w THEN new ELSE jobs[v]
    BY <1>4, <1>5, <1>9
  <1>11. \A v \in Workers : JobOK(jobs'[v])
    BY <1>9, <1>10 DEF JobsOK
  <1>12. snapshots' \in [Frameworks -> [0..MaxDay -> RowType \cup {Null}]]
    <2>1. CASE s.fw \notin live
      BY <1>2, <1>4, <2>1
    <2>2. CASE s.fw \in live
      <3>1. snapshots' = [snapshots EXCEPT ![s.fw] = [@ EXCEPT ![j.last] = row]]
        BY <1>2, <2>2 DEF row
      <3>2. [snapshots[s.fw] EXCEPT ![j.last] = row] \in [0..MaxDay -> RowType \cup {Null}]
        BY <1>1, <1>4, <1>8
      <3> QED BY <1>4, <1>8, <3>1, <3>2
    <2> QED BY <2>1, <2>2
  <1>13. TypeOK'
    BY <1>3, <1>10, <1>12 DEF JobsOK, TypeOK
  <1> QED BY <1>11, <1>13 DEF JobsOK

LEMMA CrashOK ==
    ASSUME JobsOK, NEW w \in Workers, Crash(w)
    PROVE  JobsOK'
  <1> DEFINE r == Resting(day)
  <1>1. JobOK(r)
    BY RestingOK DEF JobsOK, TypeOK
  <1>2. jobs \in [Workers -> JobType] /\ jobs' = [jobs EXCEPT ![w] = r] /\ r \in JobType
    BY <1>1 DEF Crash, JobsOK, TypeOK, JobOK
  <1> HIDE DEF r
  <1>3. jobs' \in [Workers -> JobType] /\ \A v \in Workers : jobs'[v] = IF v = w THEN r ELSE jobs[v]
    BY <1>2
  <1>4. crashes' \in 0..MaxCrashes
    BY CoverageAssumption DEF Crash, JobsOK, TypeOK
  <1>5. UNCHANGED <<links, live, scope, names, grade, day, snapshots, edits>>
    BY DEF Crash
  <1>6. TypeOK'
    BY <1>3, <1>4, <1>5 DEF JobsOK, TypeOK
  <1> QED BY <1>1, <1>3, <1>6 DEF JobsOK

LEMMA PeopleOK ==
    ASSUME JobsOK, People
    PROVE  JobsOK'
  <1>1. TypeOK /\ IsFiniteSet(Assets)
    BY CoverageAssumption DEF JobsOK
  <1>2. ASSUME NEW l \in Universe, AddLink(l) \/ RemoveLink(l) PROVE TypeOK' /\ jobs' = jobs
    <2>1. l \in Link
      BY CoverageAssumption
    <2>2. edits' \in 0..MaxEdits /\ jobs' = jobs
      BY <1>1, <1>2, CoverageAssumption DEF TypeOK, AddLink, RemoveLink, Edit
    <2>3. links' \subseteq Link /\ \A k \in links' : {k.src, k.dst} \subseteq live
      BY <1>1, <1>2, <2>1 DEF TypeOK, AddLink, RemoveLink
    <2>4. UNCHANGED <<live, scope, names, grade, snapshots, day, crashes>>
      BY <1>2 DEF AddLink, RemoveLink, Edit
    <2> QED BY <1>1, <2>2, <2>3, <2>4 DEF TypeOK
  <1>3. ASSUME NEW r \in Requirements, SetScope(r) PROVE TypeOK' /\ jobs' = jobs
    BY <1>1, <1>3, CoverageAssumption DEF TypeOK, SetScope, Edit
  <1>4. ASSUME NEW c \in Controls, GradeControl(c) PROVE TypeOK' /\ jobs' = jobs
    <2>1. Gradings \subseteq DOMAIN Weight \cup {Null}
      BY CoverageAssumption DEF Weight
    <2> QED BY <1>1, <1>4, <2>1, CoverageAssumption DEF TypeOK, GradeControl, Edit
  <1>5. ASSUME NEW a \in Assets, DeleteAsset(a) PROVE TypeOK' /\ jobs' = jobs
    <2>1. snapshots' \in [Frameworks -> [0..MaxDay -> RowType \cup {Null}]]
      <3> DEFINE none == [d \in 0..MaxDay |-> Null]
                 row(f) == IF f = a THEN none ELSE snapshots[f]
      <3>1. none \in [0..MaxDay -> RowType \cup {Null}]
        OBVIOUS
      <3>2. snapshots' = [f \in Frameworks |-> row(f)]
        BY <1>5 DEF DeleteAsset
      <3> HIDE DEF none
      <3>3. \A f \in Frameworks : row(f) \in [0..MaxDay -> RowType \cup {Null}]
        BY <1>1, <3>1 DEF TypeOK
      <3> HIDE DEF row
      <3> QED BY <3>2, <3>3
    <2>2. links' \subseteq Link /\ live' \subseteq Assets /\ \A k \in links' : {k.src, k.dst} \subseteq live'
      BY <1>1, <1>5 DEF TypeOK, DeleteAsset
    <2>3. edits' \in 0..MaxEdits /\ jobs' = jobs
      BY <1>1, <1>5, CoverageAssumption DEF TypeOK, DeleteAsset, Edit
    <2>4. UNCHANGED <<scope, names, grade, day, crashes>>
      BY <1>5 DEF DeleteAsset, Edit
    <2> QED BY <1>1, <2>1, <2>2, <2>3, <2>4 DEF TypeOK
  <1>6. ASSUME NEW f \in Frameworks, Rename(f) PROVE TypeOK' /\ jobs' = jobs
    BY <1>1, <1>6, CoverageAssumption DEF TypeOK, Rename, Edit
  <1>7. TypeOK' /\ jobs' = jobs
    BY <1>2, <1>3, <1>4, <1>5, <1>6 DEF People
  <1> QED BY <1>7 DEF JobsOK

LEMMA AdvanceOK ==
    ASSUME JobsOK, Advance
    PROVE  JobsOK'
  <1>1. day' \in 0..MaxDay /\ jobs' = jobs
    BY CoverageAssumption DEF JobsOK, TypeOK, Advance
  <1>2. UNCHANGED <<links, live, scope, names, grade, snapshots, edits, crashes>>
    BY DEF Advance
  <1>3. TypeOK'
    BY <1>1, <1>2 DEF JobsOK, TypeOK
  <1> QED BY <1>1, <1>3 DEF JobsOK

LEMMA InitOK ==
    ASSUME Init
    PROVE  JobsOK
  <1>1. links \subseteq Link /\ live = Assets /\ \A l \in links : {l.src, l.dst} \subseteq live
    BY CoverageAssumption DEF Init, Link
  <1>2. -1 \in -1..MaxDay /\ 0 \in 0..MaxDay /\ 0 \in 0..MaxEdits /\ 0 \in 0..MaxCrashes
    BY CoverageAssumption
  <1>3. JobOK(Resting(-1))
    BY <1>2, RestingOK
  <1>4. jobs = [w \in Workers |-> Resting(-1)] /\ jobs \in [Workers -> JobType]
    BY <1>3 DEF Init, JobOK
  <1>5. \A w \in Workers : JobOK(jobs[w])
    BY <1>3, <1>4
  <1>6. snapshots \in [Frameworks -> [0..MaxDay -> RowType \cup {Null}]]
    BY DEF Init
  <1>7. scope \subseteq Requirements /\ names \in [Frameworks -> Names] /\ grade \in [Controls -> DOMAIN Weight \cup {Null}]
        /\ day \in 0..MaxDay /\ edits \in 0..MaxEdits /\ crashes \in 0..MaxCrashes
    BY <1>2, CoverageAssumption DEF Init
  <1>8. TypeOK
    BY <1>1, <1>4, <1>6, <1>7 DEF TypeOK
  <1> QED BY <1>5, <1>8 DEF JobsOK

LEMMA JobsStay ==
    ASSUME JobsOK, [Next]_vars
    PROVE  JobsOK'
  <1>1. ASSUME NEW w \in Workers, Job(w) PROVE JobsOK'
    BY <1>1, StartOK, ReadRequirementsOK, ReadScopeOK, ReadOutboundOK, ReadInboundOK,
       ReadStrengthsOK, ReadCrosswalksOK, ReadLendersOutOK, ReadLendersInOK, InsertOK DEF Job
  <1>2. ASSUME NEW w \in Workers, Crash(w) PROVE JobsOK'
    BY <1>2, CrashOK
  <1>3. CASE UNCHANGED vars
    BY <1>3 DEF vars, JobsOK, TypeOK
  <1> QED BY <1>1, <1>2, <1>3, AdvanceOK, PeopleOK DEF Next

LEMMA JobsAlways == Spec => []JobsOK
  <1>1. Init => JobsOK
    BY InitOK
  <1>2. JobsOK /\ [Next]_vars => JobsOK'
    BY JobsStay
  <1> QED BY <1>1, <1>2, PTL DEF Spec

\* FiguresAddUp: whatever is edited between the statements of the listing, its
\* figures add up: nothing is satisfied and borrowed too, and the effective
\* coverage is the highest.
THEOREM ListingAddsUp == Spec => []FiguresAddUp
  <1>1. JobsOK => FiguresAddUp
    <2> SUFFICES ASSUME JobsOK, NEW w \in Workers, NEW s \in jobs[w].summaries
                 PROVE  AddUp(s.figures)
      BY DEF FiguresAddUp, JobsOK, AddUp
    <2> QED BY DEF JobsOK, JobOK
  <1> QED BY <1>1, JobsAlways, PTL

-----------------------------------------------------------------------------
(* What the listing and the page read of a framework, if at once            *)

PageOf(f) ==
    LET R == RequirementIds(f)
        A == Applicable(R)
        S == OutSatisfied(A) \cup InSatisfied(A)
        E == {[of |-> e.of, is |-> e.is] : e \in Equivalents(A \ S, names[f])}
        T == {e.is : e \in E}
    IN  [listed |-> R, reqs |-> A, out |-> OutSatisfied(A), satisfied |-> S,
         strengths |-> Strengths(S), equivalents |-> E, lends |-> OutSatisfied(T),
         borrowed |-> {e.of : e \in {d \in E : d.is \in OutSatisfied(T) \cup InSatisfied(T)}},
         name |-> names[f], figures |-> Detail(f)]

LEMMA OnlyParent ==
    ASSUME TypeOK, OneParent, NEW r \in Requirements, NEW p \in Parents(r), NEW q \in Parents(r)
    PROVE  p = q
  <1>1. IsFiniteSet(Parents(r)) /\ Cardinality(Parents(r)) <= 1
    <2>1. Parents(r) \subseteq Assets
      BY DEF Parents, TypeOK, Link
    <2> QED BY <2>1, FS_Subset, CoverageAssumption DEF OneParent
  <1>2. SUFFICES ASSUME p # q PROVE FALSE
    OBVIOUS
  <1>3. IsFiniteSet({p}) /\ Cardinality({p}) = 1
    BY FS_Singleton
  <1>4. Cardinality({p} \cup {q}) = 2
    BY <1>2, <1>3, FS_AddElement
  <1>5. Cardinality({p} \cup {q}) <= Cardinality(Parents(r)) /\ Cardinality(Parents(r)) \in Nat
    <2>1. {p} \cup {q} \in SUBSET Parents(r)
      OBVIOUS
    <2> QED BY <1>1, <2>1, FS_Subset, FS_CardinalityType
  <1> QED BY <1>1, <1>4, <1>5

\* What is listed under a framework only is not foreign to it.
LEMMA OwnNotForeign ==
    ASSUME TypeOK, OneParent, NEW f \in Frameworks, NEW r \in RequirementIds(f)
    PROVE  r \notin Foreign(names[f])
  <1>1. r \in Requirements /\ f \in Parents(r)
    BY DEF RequirementIds, Parents
  <1>2. \A p \in Parents(r) : p = f
    BY <1>1, OnlyParent
  <1>3. Owners(r) = {names[f]}
    BY <1>1, <1>2 DEF Owners
  <1> QED BY <1>3 DEF Foreign

\* Looking up what the gaps borrow finds the same as looking it up for all.
LEMMA GapsBorrow ==
    ASSUME TypeOK, OneParent, NEW f \in Frameworks, NEW G \in SUBSET RequirementIds(f), NEW r \in G
    PROVE  Borrows(links, G, Foreign(names[f]), r) <=> Borrows(links, RequirementIds(f), Foreign(names[f]), r)
  <1> DEFINE R == RequirementIds(f)
             O == Foreign(names[f])
  <1>1. \A x \in R : x \notin O
    BY OwnNotForeign
  <1>2. G \subseteq R /\ r \in G
    OBVIOUS
  <1> HIDE DEF R, O
  <1>3. Borrows(links, G, O, r) <=> Borrows(links, R, O, r)
    <2>1. ASSUME Borrows(links, G, O, r) PROVE Borrows(links, R, O, r)
      BY <1>1, <1>2, <2>1 DEF Borrows
    <2>2. ASSUME Borrows(links, R, O, r) PROVE Borrows(links, G, O, r)
      BY <1>1, <1>2, <2>2 DEF Borrows
    <2> QED BY <2>1, <2>2
  <1> QED BY <1>3 DEF R, O

LEMMA StrengthsAlike ==
    ASSUME NEW S, NEW T, S \subseteq T, NEW r \in S
    PROVE  /\ r \in DOMAIN Strengths(S) <=> r \in DOMAIN Strengths(T)
           /\ r \in DOMAIN Strengths(S) => Strengths(S)[r] = Strengths(T)[r]
  <1> DEFINE weights(q) == {Weight[grade[c]] : c \in {d \in Satisfiers(q) \cap Controls : grade[d] # Null}}
             best(q) == CHOOSE b \in weights(q) : \A w \in weights(q) : w <= b
  <1>1. Strengths(S) = [q \in {p \in S : weights(p) # {}} |-> best(q)]
    BY DEF Strengths
  <1>2. Strengths(T) = [q \in {p \in T : weights(p) # {}} |-> best(q)]
    BY DEF Strengths
  <1> HIDE DEF weights, best
  <1> QED BY <1>1, <1>2

\* The fields of a page's record.
LEMMA PageFields ==
    ASSUME NEW f
    PROVE  LET A == Applicable(RequirementIds(f))
               S == OutSatisfied(A) \cup InSatisfied(A)
           IN  /\ PageOf(f).listed = RequirementIds(f)
               /\ PageOf(f).reqs = A
               /\ PageOf(f).out = OutSatisfied(A)
               /\ PageOf(f).satisfied = S
               /\ PageOf(f).strengths = Strengths(S)
               /\ PageOf(f).equivalents
                    = {[of |-> e.of, is |-> e.is] : e \in Equivalents(A \ S, names[f])}
               /\ PageOf(f).lends = OutSatisfied({e.is : e \in PageOf(f).equivalents})
               /\ PageOf(f).borrowed
                    = {e.of : e \in {d \in PageOf(f).equivalents :
                         d.is \in PageOf(f).lends
                                    \cup InSatisfied({e.is : e \in PageOf(f).equivalents})}}
               /\ PageOf(f).name = names[f]
               /\ PageOf(f).figures = Detail(f)
  BY DEF PageOf

\* The statements of the listing, on a graph that stays, find the page's figures.
LEMMA PageAgrees ==
    ASSUME TypeOK, OneParent, NEW f \in Frameworks, NEW strengths,
           PageOf(f).satisfied # {} => strengths = PageOf(f).strengths
    PROVE  Figures(PageOf(f).reqs, PageOf(f).satisfied, strengths, PageOf(f).borrowed)
             = PageOf(f).figures
  <1> DEFINE R == RequirementIds(f)
             A == R \cap scope
             S == {r \in A : Lends(links, r)}
             D == {r \in R : Lends(links, r)}
             B == {r \in A \ S : Borrows(links, R, Foreign(names[f]), r)}
             E == {[of |-> e.of, is |-> e.is] : e \in Equivalents(A \ S, names[f])}
             T == {e.is : e \in E}
  <1>1. Applicable(R) = A
    <2>1. R \subseteq live
      BY DEF RequirementIds, TypeOK
    <2> QED BY <2>1 DEF Applicable
  <1>2. OutSatisfied(A) \cup InSatisfied(A) = S
    BY SatisfiedFacts
  <1>3. /\ PageOf(f).reqs = A /\ PageOf(f).satisfied = S /\ PageOf(f).strengths = Strengths(S)
        /\ PageOf(f).figures = Detail(f) /\ PageOf(f).equivalents = E
    <2>1. /\ PageOf(f).reqs = A /\ PageOf(f).satisfied = S /\ PageOf(f).strengths = Strengths(S)
          /\ PageOf(f).figures = Detail(f)
      <3> DEFINE X == Applicable(R)
                 Y == OutSatisfied(X) \cup InSatisfied(X)
      <3>1. /\ PageOf(f).reqs = X /\ PageOf(f).satisfied = Y /\ PageOf(f).strengths = Strengths(Y)
            /\ PageOf(f).figures = Detail(f)
        BY PageFields
      <3>2. X = A /\ Y = S
        BY <1>1, <1>2
      <3> HIDE DEF X, Y, A, S
      <3> QED BY <3>1, <3>2
    <2>2. PageOf(f).equivalents = {[of |-> e.of, is |-> e.is] :
              e \in Equivalents(Applicable(R) \ (OutSatisfied(Applicable(R)) \cup InSatisfied(Applicable(R))), names[f])}
      BY PageFields
    <2>3. PageOf(f).equivalents = E
      BY <1>1, <1>2, <2>2
    <2> QED BY <2>1, <2>3
  <1>4. PageOf(f).borrowed = {e.of : e \in {d \in E : d.is \in {x \in T : Lends(links, x)}}}
    <2> HIDE DEF E
    <2>1. PageOf(f).borrowed = {e.of : e \in {d \in E : d.is \in OutSatisfied(T) \cup InSatisfied(T)}}
      BY <1>3, PageFields
    <2>2. OutSatisfied(T) \cup InSatisfied(T) = {x \in T : Lends(links, x)}
      BY SatisfiedFacts
    <2> QED BY <2>1, <2>2
  <1>5. PageOf(f).borrowed = B
    <2> DEFINE G == A \ S
               borrowed == {e.of : e \in {d \in E : d.is \in {x \in T : Lends(links, x)}}}
    <2>1. \A r : r \in borrowed <=> \E e \in Equivalents(G, names[f]) : e.of = r /\ Lends(links, e.is)
      <3> DEFINE pair(e) == [of |-> e.of, is |-> e.is]
      <3>1. \A e : pair(e).of = e.of /\ pair(e).is = e.is
        OBVIOUS
      <3>2. E = {pair(e) : e \in Equivalents(G, names[f])}
        OBVIOUS
      <3> HIDE DEF pair, E, G
      <3>3. \A r : r \in borrowed <=> \E e \in E : e.of = r /\ e.is \in T /\ Lends(links, e.is)
        OBVIOUS
      <3> QED BY <3>1, <3>2, <3>3
    <2>2. \A r : (\E e \in Equivalents(G, names[f]) : e.of = r /\ Lends(links, e.is))
                   <=> Borrows(links, G, Foreign(names[f]), r)
      BY BorrowsFacts
    <2>3. \A r : Borrows(links, G, Foreign(names[f]), r) => r \in G
      BY DEF Borrows
    <2>4. \A r \in G : Borrows(links, G, Foreign(names[f]), r) <=> Borrows(links, R, Foreign(names[f]), r)
      <3>1. G \in SUBSET R
        OBVIOUS
      <3> QED BY <3>1, GapsBorrow
    <2>5. PageOf(f).borrowed = borrowed
      BY <1>4
    <2> HIDE DEF borrowed, G
    <2>6. \A r : r \in borrowed <=> r \in G /\ Borrows(links, R, Foreign(names[f]), r)
      BY <2>1, <2>2, <2>3, <2>4
    <2>7. B = {r \in G : Borrows(links, R, Foreign(names[f]), r)}
      BY DEF G
    <2> HIDE DEF B
    <2> QED BY <2>5, <2>6, <2>7
  <1>6. Detail(f) = Figures(A, S, Strengths(D), B)
    BY DetailFacts
  <1>7. \A r \in S : /\ r \in DOMAIN strengths <=> r \in DOMAIN Strengths(D)
                     /\ r \in DOMAIN strengths => strengths[r] = Strengths(D)[r]
    <2>1. S \subseteq D
      OBVIOUS
    <2>2. S # {} => strengths = Strengths(S)
      BY <1>3
    <2> HIDE DEF S, D
    <2> QED BY <2>1, <2>2, StrengthsAlike
  <1> HIDE DEF A, S, B, D
  <1>8. Figures(A, S, strengths, B) = Figures(A, S, Strengths(D), B)
    BY <1>7, FiguresAlike
  <1> QED BY <1>3, <1>5, <1>6, <1>8

Pages == [f \in Frameworks |-> PageOf(f)]

SameGraph == UNCHANGED <<links, live, scope, names, grade>>

\* Each figure of the graph stays when the graph does.
LEMMA SameReads ==
    ASSUME SameGraph
    PROVE  /\ \A f : RequirementIds(f)' = RequirementIds(f)
           /\ \A R : Applicable(R)' = Applicable(R)
           /\ \A R : OutSatisfied(R)' = OutSatisfied(R)
           /\ \A R : InSatisfied(R)' = InSatisfied(R)
           /\ \A r : Satisfiers(r)' = Satisfiers(r)
           /\ \A r : Parents(r)' = Parents(r)
           /\ \A r : Owners(r)' = Owners(r)
           /\ \A R : Strengths(R)' = Strengths(R)
           /\ \A R, n : Equivalents(R, n)' = Equivalents(R, n)
  <1>1. links' = links /\ live' = live /\ scope' = scope /\ names' = names /\ grade' = grade
    BY DEF SameGraph
  <1>2. \A f : RequirementIds(f)' = RequirementIds(f)
    BY <1>1 DEF RequirementIds
  <1>3. \A R : Applicable(R)' = Applicable(R)
    BY <1>1 DEF Applicable
  <1>4. \A R : OutSatisfied(R)' = OutSatisfied(R)
    BY <1>1 DEF OutSatisfied
  <1>5. \A R : InSatisfied(R)' = InSatisfied(R)
    BY <1>1 DEF InSatisfied
  <1>6. \A r : Satisfiers(r)' = Satisfiers(r)
    BY <1>1 DEF Satisfiers
  <1>7. \A r : Parents(r)' = Parents(r)
    BY <1>1 DEF Parents
  <1>8. \A r : Owners(r)' = Owners(r)
    BY <1>1, <1>7 DEF Owners
  <1>9. \A R : Strengths(R)' = Strengths(R)
    BY <1>1, <1>6 DEF Strengths
  <1>10. \A R, n : Crosswalks(R, n)' = Crosswalks(R, n)
    BY <1>1, <1>8 DEF Crosswalks
  <1>11. \A R, n : Equivalents(R, n)' = Equivalents(R, n)
    BY <1>10 DEF Equivalents
  <1> QED BY <1>2, <1>3, <1>4, <1>5, <1>6, <1>7, <1>8, <1>9, <1>11

LEMMA SamePages ==
    ASSUME SameGraph
    PROVE  Pages' = Pages /\ (OneParent' <=> OneParent)
  <1>1. ASSUME NEW f PROVE Detail(f)' = Detail(f)
    <2> DEFINE reqs == RequirementIds(f)
               satisfied == {r \in reqs : Satisfiers(r) # {}}
               gapsEquivalents == {e \in Equivalents(reqs, names[f]) : e.of \notin satisfied}
               targets == {e.is : e \in gapsEquivalents}
               borrowed == {e.of : e \in {d \in gapsEquivalents : d.is \in Lenders(targets)}}
               inScope == reqs \cap scope
    <2>1. reqs' = reqs /\ inScope' = inScope
      BY SameReads DEF SameGraph
    <2>2. satisfied' = satisfied
      BY SameReads
    <2>3. Equivalents(reqs, names[f])' = Equivalents(reqs, names[f])
      BY SameReads DEF SameGraph
    <2>4. gapsEquivalents' = gapsEquivalents
      BY <2>2, <2>3
    <2>5. targets' = targets
      BY <2>4
    <2>6. Lenders(targets)' = Lenders(targets)
      BY <2>5, SameReads DEF Lenders
    <2>7. borrowed' = borrowed
      BY <2>4, <2>6
    <2>8. Strengths(satisfied)' = Strengths(satisfied)
      BY <2>2, SameReads
    <2> QED BY <2>1, <2>2, <2>7, <2>8 DEF Detail
  <1>2. \A f : PageOf(f)' = PageOf(f)
    BY <1>1, SameReads DEF PageOf, SameGraph
  <1>3. OneParent' <=> OneParent
    BY SameReads DEF OneParent
  <1> QED BY <1>2, <1>3 DEF Pages

-----------------------------------------------------------------------------
(* The listing, whose statements are apart, agrees with the page            *)

\* What a job has read is what the page has of its framework.
Fits(page, job) ==
    /\ job.pc = "scope" => job.reqs = page.listed
    /\ job.pc \in Midway \ {"scope"} => job.reqs = page.reqs
    /\ job.pc = "inbound" => job.satisfied = page.out
    /\ job.pc \in {"strengths", "crosswalks", "lendersOut", "lendersIn"} =>
           job.satisfied = page.satisfied
    /\ job.pc \in {"crosswalks", "lendersOut", "lendersIn"} /\ page.satisfied # {} =>
           job.strengths = page.strengths
    /\ job.pc \in {"lendersOut", "lendersIn"} => job.equivalents = page.equivalents
    /\ job.pc = "lendersIn" => job.lends = page.lends

\* Nobody edited since the job turned to its framework, which is still called
\* what it was listed as.
Fresh(pages, now, job) == job.seen = now /\ job.called[job.fw] = pages[job.fw].name

\* As long as nobody edits, a job and its summaries match the pages.
Listed(pages, one, now, summaries) ==
    \A s \in summaries :
        s.seen <= now /\ (one /\ s.seen = now /\ s.name = pages[s.fw].name =>
                              s.figures = pages[s.fw].figures)
Matches(pages, one, now, job) ==
    /\ job.pc \in Midway => job.seen <= now /\ (Fresh(pages, now, job) => Fits(pages[job.fw], job))
    /\ Listed(pages, one, now, job.summaries)

PagesMatch == JobsOK /\ \A w \in Workers : Matches(Pages, OneParent, edits, jobs[w])

LEMMA SummariseMatches ==
    ASSUME NEW pages, NEW one, NEW now, NEW job, job \in JobType, job.seen <= now,
           Listed(pages, one, now, job.summaries), NEW B,
           one /\ Fresh(pages, now, job) =>
               Figures(job.reqs, job.satisfied, job.strengths, B) = pages[job.fw].figures
    PROVE  Matches(pages, one, now, Summarise(job, B))
  <1> DEFINE figures == Figures(job.reqs, job.satisfied, job.strengths, B)
             s == [fw |-> job.fw, name |-> job.called[job.fw], seen |-> job.seen, figures |-> figures]
             new == Summarise(job, B)
  <1>1. new.summaries = job.summaries \cup {s} /\ new.pc \in {"insert", "requirements"}
    <2> HIDE DEF figures
    <2>1. new = [job EXCEPT !.pc = IF job.todo = {} THEN "insert" ELSE "requirements",
                !.summaries = @ \cup {s},
                !.fw = Null, !.reqs = {}, !.satisfied = {}, !.strengths = <<>>,
                !.equivalents = {}, !.lends = {}, !.seen = 0]
      BY DEF Summarise, figures
    <2> HIDE DEF s, new
    <2> QED BY <2>1 DEF JobType
  <1> HIDE DEF figures, new
  <1>2. /\ s.fw = job.fw /\ s.name = job.called[job.fw] /\ s.seen = job.seen
        /\ s.figures = figures
    OBVIOUS
  <1>3. s.seen <= now /\ (one /\ s.seen = now /\ s.name = pages[s.fw].name =>
                             s.figures = pages[s.fw].figures)
    BY <1>2 DEF figures, Fresh
  <1> HIDE DEF s
  <1>4. Matches(pages, one, now, new)
    BY <1>1, <1>3 DEF Matches, Listed, Midway
  <1> QED BY <1>4 DEF new

\* A statement of one job leaves the graph, and the other jobs, alone.
LEMMA StepMatches ==
    ASSUME PagesMatch, NEW w \in Workers, NEW job, Step(w, job),
           Matches(Pages, OneParent, edits, job)
    PROVE  \A v \in Workers : Matches(Pages, OneParent, edits, jobs[v])'
  <1>1. jobs' = [jobs EXCEPT ![w] = job] /\ jobs \in [Workers -> JobType] /\ edits' = edits /\ SameGraph
    BY DEF Step, Graph, SameGraph, PagesMatch, JobsOK, TypeOK
  <1>2. Pages' = Pages /\ (OneParent' <=> OneParent)
    BY <1>1, SamePages
  <1>3. \A v \in Workers : jobs'[v] = IF v = w THEN job ELSE jobs[v]
    BY <1>1
  <1>4. \A v \in Workers : Matches(Pages, OneParent, edits, jobs'[v])
    BY <1>3 DEF PagesMatch
  <1> DEFINE P == Pages
             one == OneParent
  <1>5. \A v \in Workers : Matches(P', one', edits', jobs'[v])
    BY <1>1, <1>2, <1>4 DEF Matches, Listed
  <1> QED BY <1>5

\* The page of a framework that a job reads.
LEMMA PagesOf ==
    ASSUME NEW f \in Frameworks
    PROVE  Pages[f] = PageOf(f)
  BY DEF Pages

LEMMA ReadRequirementsMatches ==
    ASSUME PagesMatch, NEW w \in Workers, ReadRequirements(w)
    PROVE  \A v \in Workers : Matches(Pages, OneParent, edits, jobs[v])'
  <1> DEFINE j == jobs[w]
  <1>1. JobOK(j) /\ j \in JobType /\ edits \in Nat /\ j.pc = "requirements"
        /\ Matches(Pages, OneParent, edits, j)
    BY CoverageAssumption DEF PagesMatch, JobsOK, JobOK, TypeOK, ReadRequirements
  <1>2. PICK f \in j.todo :
          Step(w, [j EXCEPT !.pc = "scope", !.todo = @ \ {f}, !.fw = f,
                            !.reqs = RequirementIds(f), !.seen = edits])
    BY DEF ReadRequirements
  <1> DEFINE R == RequirementIds(f)
             new == [j EXCEPT !.pc = "scope", !.todo = @ \ {f}, !.fw = f, !.reqs = R, !.seen = edits]
  <1>3. f \in Frameworks
    BY <1>1 DEF JobType
  <1>4. Pages[f].listed = R
    BY <1>3, PagesOf, PageFields
  <1> HIDE DEF j, R
  <1>5. /\ new.pc = "scope" /\ new.fw = f /\ new.reqs = R /\ new.seen = edits
        /\ new.summaries = j.summaries
    BY <1>1 DEF JobType
  <1>6. Step(w, new)
    BY <1>2 DEF R
  <1> HIDE DEF new
  <1>7. Fits(Pages[f], new)
    BY <1>4, <1>5 DEF Fits, Midway
  <1>8. Matches(Pages, OneParent, edits, new)
    BY <1>1, <1>5, <1>7 DEF Matches
  <1> QED BY <1>6, <1>8, StepMatches

\* Where the listing stops early, there is nothing to borrow.
LEMMA PageEnds ==
    ASSUME NEW f
    PROVE  /\ PageOf(f).reqs = {} => PageOf(f).satisfied = {}
           /\ PageOf(f).reqs \ PageOf(f).satisfied = {} => PageOf(f).equivalents = {}
           /\ PageOf(f).equivalents = {} => PageOf(f).borrowed = {}
  <1> DEFINE A == PageOf(f).reqs
             S == PageOf(f).satisfied
             E == PageOf(f).equivalents
  <1>1. S = OutSatisfied(A) \cup InSatisfied(A) /\ E = {[of |-> e.of, is |-> e.is] : e \in Equivalents(A \ S, names[f])}
    BY PageFields
  <1>2. S \subseteq A
    BY <1>1 DEF OutSatisfied, InSatisfied
  <1>3. ASSUME A \ S = {} PROVE E = {}
    <2>1. \A x \in Crosswalks({}, names[f]) : x.of \in {}
      BY CrosswalkFacts
    <2>2. Equivalents({}, names[f]) = {}
      BY <2>1 DEF Equivalents
    <2> QED BY <1>1, <1>3, <2>2
  <1>4. ASSUME E = {} PROVE PageOf(f).borrowed = {}
    <2>1. \A b \in PageOf(f).borrowed : \E e \in E : TRUE
      BY PageFields
    <2> QED BY <1>4, <2>1
  <1> QED BY <1>2, <1>3, <1>4

\* A job that fits, and has all it needs, lists what the page shows.
LEMMA FiguresMatch ==
    ASSUME TypeOK, NEW f \in Frameworks, NEW job, NEW B,
           job.reqs = PageOf(f).reqs, job.satisfied = PageOf(f).satisfied,
           PageOf(f).satisfied # {} => job.strengths = PageOf(f).strengths,
           B = PageOf(f).borrowed
    PROVE  OneParent => Figures(job.reqs, job.satisfied, job.strengths, B) = Pages[f].figures
  <1> SUFFICES ASSUME OneParent
               PROVE  Figures(job.reqs, job.satisfied, job.strengths, B) = PageOf(f).figures
    BY PagesOf
  <1> DEFINE X == job.strengths
  <1>1. PageOf(f).satisfied # {} => X = PageOf(f).strengths
    OBVIOUS
  <1> HIDE DEF X
  <1>2. Figures(PageOf(f).reqs, PageOf(f).satisfied, X, PageOf(f).borrowed) = PageOf(f).figures
    BY <1>1, PageAgrees
  <1> QED BY <1>2 DEF X

LEMMA ReadScopeMatches ==
    ASSUME PagesMatch, NEW w \in Workers, ReadScope(w)
    PROVE  \A v \in Workers : Matches(Pages, OneParent, edits, jobs[v])'
  <1> DEFINE j == jobs[w]
             f == j.fw
             R == Applicable(j.reqs)
             job == [j EXCEPT !.reqs = R]
             next == [job EXCEPT !.pc = "outbound"]
  <1>1. /\ TypeOK /\ JobOK(j) /\ j \in JobType /\ j.pc = "scope"
        /\ Matches(Pages, OneParent, edits, j)
    BY DEF PagesMatch, JobsOK, JobOK, ReadScope
  <1>2. Step(w, IF job.reqs = {} THEN Summarise(job, {}) ELSE next)
    BY DEF ReadScope
  <1>3. f \in Frameworks /\ j.satisfied = {}
    BY <1>1 DEF JobOK, Midway
  <1>4. Pages[f] = PageOf(f) /\ PageOf(f).reqs = Applicable(PageOf(f).listed)
    BY <1>3, PagesOf, PageFields
  <1>5. j.seen <= edits /\ Listed(Pages, OneParent, edits, j.summaries)
        /\ (Fresh(Pages, edits, j) => R = PageOf(f).reqs)
    BY <1>1, <1>4 DEF Matches, Fits, Fresh, Midway
  <1>6. R \in SUBSET Requirements
    BY <1>1 DEF Applicable, JobType
  <1> HIDE DEF j, R
  <1>7. /\ job \in JobType /\ job.seen = j.seen /\ job.called = j.called /\ job.fw = f /\ f = j.fw /\ job.reqs = R
        /\ job.satisfied = {} /\ job.summaries = j.summaries
        /\ next.pc = "outbound" /\ next.seen = j.seen /\ next.called = j.called /\ next.fw = f /\ f = j.fw /\ next.reqs = R
        /\ next.summaries = j.summaries
    BY <1>1, <1>3, <1>6 DEF JobType
  <1> HIDE DEF job, next, f
  <1>8. Matches(Pages, OneParent, edits, next)
    BY <1>4, <1>5, <1>7 DEF Matches, Fits, Fresh, Midway
  <1>9. ASSUME R = {} PROVE Matches(Pages, OneParent, edits, Summarise(job, {}))
    <2>1. ASSUME Fresh(Pages, edits, job)
          PROVE  OneParent => Figures(job.reqs, job.satisfied, job.strengths, {}) = Pages[f].figures
      <3>1. PageOf(f).reqs = {} /\ PageOf(f).satisfied = {} /\ PageOf(f).borrowed = {}
        <4>1. Fresh(Pages, edits, j)
          BY <1>7, <2>1 DEF Fresh
        <4> QED BY <1>5, <1>9, <4>1, PageEnds
      <3> DEFINE B == {}
      <3>2. /\ job.reqs = PageOf(f).reqs /\ job.satisfied = PageOf(f).satisfied
            /\ (PageOf(f).satisfied # {} => job.strengths = PageOf(f).strengths)
            /\ B = PageOf(f).borrowed /\ f \in Frameworks /\ TypeOK
        BY <1>1, <1>3, <1>7, <1>9, <3>1 DEF f
      <3> HIDE DEF B
      <3>3. OneParent => Figures(job.reqs, job.satisfied, job.strengths, B) = Pages[f].figures
        BY <3>2, FiguresMatch
      <3> QED BY <3>3 DEF B
    <2> QED BY <1>5, <1>7, <2>1, SummariseMatches
  <1> QED BY <1>2, <1>7, <1>8, <1>9, StepMatches

LEMMA ReadOutboundMatches ==
    ASSUME PagesMatch, NEW w \in Workers, ReadOutbound(w)
    PROVE  \A v \in Workers : Matches(Pages, OneParent, edits, jobs[v])'
  <1> DEFINE j == jobs[w]
             f == j.fw
             S == OutSatisfied(j.reqs)
             new == [j EXCEPT !.pc = "inbound", !.satisfied = S]
  <1>1. /\ JobOK(j) /\ j \in JobType /\ j.pc = "outbound" /\ Step(w, new)
        /\ Matches(Pages, OneParent, edits, j)
    BY DEF PagesMatch, JobsOK, JobOK, ReadOutbound
  <1>2. f \in Frameworks
    BY <1>1 DEF JobOK, Midway
  <1>3. Pages[f] = PageOf(f) /\ PageOf(f).out = OutSatisfied(PageOf(f).reqs)
    BY <1>2, PagesOf, PageFields
  <1>4. j.seen <= edits /\ Listed(Pages, OneParent, edits, j.summaries)
        /\ (Fresh(Pages, edits, j) => j.reqs = PageOf(f).reqs /\ S = PageOf(f).out)
    BY <1>1, <1>3 DEF Matches, Fits, Fresh, Midway
  <1> HIDE DEF j, S
  <1>5. /\ new.pc = "inbound" /\ new.seen = j.seen /\ new.called = j.called /\ new.fw = f /\ f = j.fw /\ new.reqs = j.reqs
        /\ new.satisfied = S /\ new.summaries = j.summaries
    BY <1>1 DEF JobType
  <1>6. Step(w, new)
    BY <1>1
  <1> HIDE DEF new, f
  <1>7. Matches(Pages, OneParent, edits, new)
    BY <1>3, <1>4, <1>5 DEF Matches, Fits, Fresh, Midway
  <1> QED BY <1>6, <1>7, StepMatches

LEMMA ReadInboundMatches ==
    ASSUME PagesMatch, NEW w \in Workers, ReadInbound(w)
    PROVE  \A v \in Workers : Matches(Pages, OneParent, edits, jobs[v])'
  <1> DEFINE j == jobs[w]
             f == j.fw
             S == j.satisfied \cup InSatisfied(j.reqs)
             pc == IF S = {} THEN "crosswalks" ELSE "strengths"
             new == [j EXCEPT !.satisfied = S, !.pc = pc]
  <1>1. /\ JobOK(j) /\ j \in JobType /\ j.pc = "inbound" /\ Step(w, new)
        /\ Matches(Pages, OneParent, edits, j)
    BY DEF PagesMatch, JobsOK, JobOK, ReadInbound
  <1>2. f \in Frameworks
    BY <1>1 DEF JobOK, Midway
  <1>3. /\ Pages[f] = PageOf(f) /\ PageOf(f).out = OutSatisfied(PageOf(f).reqs)
        /\ PageOf(f).satisfied = OutSatisfied(PageOf(f).reqs) \cup InSatisfied(PageOf(f).reqs)
    <2> HIDE DEF f
    <2> QED BY <1>2, PagesOf, PageFields
  <1>4. j.seen <= edits /\ Listed(Pages, OneParent, edits, j.summaries)
        /\ (Fresh(Pages, edits, j) => j.reqs = PageOf(f).reqs /\ S = PageOf(f).satisfied)
    BY <1>1, <1>3 DEF Matches, Fits, Fresh, Midway
  <1>5. pc \in {"crosswalks", "strengths"} /\ (pc = "crosswalks" => S = {})
    OBVIOUS
  <1> HIDE DEF j, S, pc
  <1>6. /\ new.pc = pc /\ new.seen = j.seen /\ new.called = j.called /\ new.fw = f /\ f = j.fw /\ new.reqs = j.reqs
        /\ new.satisfied = S /\ new.summaries = j.summaries
    BY <1>1 DEF JobType
  <1>7. Step(w, new)
    BY <1>1
  <1> HIDE DEF new, f
  <1>8. Matches(Pages, OneParent, edits, new)
    BY <1>3, <1>4, <1>5, <1>6 DEF Matches, Fits, Fresh, Midway
  <1> QED BY <1>7, <1>8, StepMatches

LEMMA ReadStrengthsMatches ==
    ASSUME PagesMatch, NEW w \in Workers, ReadStrengths(w)
    PROVE  \A v \in Workers : Matches(Pages, OneParent, edits, jobs[v])'
  <1> DEFINE j == jobs[w]
             f == j.fw
             X == Strengths(j.satisfied)
             job == [j EXCEPT !.strengths = X]
             next == [job EXCEPT !.pc = "crosswalks"]
  <1>1. /\ TypeOK /\ JobOK(j) /\ j \in JobType /\ j.pc = "strengths"
        /\ Matches(Pages, OneParent, edits, j)
    BY DEF PagesMatch, JobsOK, JobOK, ReadStrengths
  <1>2. Step(w, IF Gaps(job) = {} THEN Summarise(job, {}) ELSE next)
    BY DEF ReadStrengths
  <1>3. f \in Frameworks
    BY <1>1 DEF JobOK, Midway
  <1>4. Pages[f] = PageOf(f) /\ PageOf(f).strengths = Strengths(PageOf(f).satisfied)
    <2>1. Pages[f] = PageOf(f)
      BY <1>3, PagesOf
    <2>2. PageOf(f).strengths = Strengths(PageOf(f).satisfied)
      BY PageFields
    <2> QED BY <2>1, <2>2
  <1>5. j.seen <= edits /\ Listed(Pages, OneParent, edits, j.summaries)
        /\ (Fresh(Pages, edits, j) => /\ j.reqs = PageOf(f).reqs /\ j.satisfied = PageOf(f).satisfied
                              /\ X = PageOf(f).strengths)
    BY <1>1, <1>4 DEF Matches, Fits, Fresh, Midway
  <1>6. X \in StrengthType
    <2>1. j.satisfied \in SUBSET Requirements
      BY <1>1 DEF JobType
    <2> QED BY <1>1, <2>1, StrengthTypes
  <1> HIDE DEF j, X
  <1>7. /\ job \in JobType /\ job.seen = j.seen /\ job.called = j.called /\ job.fw = f /\ f = j.fw /\ job.reqs = j.reqs
        /\ job.satisfied = j.satisfied /\ job.strengths = X /\ job.summaries = j.summaries
        /\ next.pc = "crosswalks" /\ next.seen = j.seen /\ next.called = j.called /\ next.fw = f /\ f = j.fw /\ next.reqs = j.reqs
        /\ next.satisfied = j.satisfied /\ next.strengths = X /\ next.summaries = j.summaries
    BY <1>1, <1>6 DEF JobType, StrengthType
  <1> HIDE DEF job, next, f
  <1>8. Matches(Pages, OneParent, edits, next)
    BY <1>4, <1>5, <1>7 DEF Matches, Fits, Fresh, Midway
  <1>9. ASSUME Gaps(job) = {} PROVE Matches(Pages, OneParent, edits, Summarise(job, {}))
    <2>1. ASSUME Fresh(Pages, edits, job)
          PROVE  OneParent => Figures(job.reqs, job.satisfied, job.strengths, {}) = Pages[f].figures
      <3> Fresh(Pages, edits, j)
        BY <1>7, <2>1 DEF Fresh
      <3>1. PageOf(f).reqs \ PageOf(f).satisfied = {}
        BY <1>5, <1>7, <1>9 DEF Gaps
      <3>2. PageOf(f).borrowed = {}
        BY <3>1, PageEnds
      <3> DEFINE B == {}
      <3>3. /\ job.reqs = PageOf(f).reqs /\ job.satisfied = PageOf(f).satisfied
            /\ (PageOf(f).satisfied # {} => job.strengths = PageOf(f).strengths)
            /\ B = PageOf(f).borrowed /\ f \in Frameworks /\ TypeOK
        BY <1>1, <1>3, <1>5, <1>7, <3>2 DEF f
      <3> HIDE DEF B
      <3>4. OneParent => Figures(job.reqs, job.satisfied, job.strengths, B) = Pages[f].figures
        BY <3>3, FiguresMatch
      <3> QED BY <3>4 DEF B
    <2> QED BY <1>5, <1>7, <2>1, SummariseMatches
  <1> QED BY <1>2, <1>8, <1>9, StepMatches

LEMMA ReadCrosswalksMatches ==
    ASSUME PagesMatch, NEW w \in Workers, ReadCrosswalks(w)
    PROVE  \A v \in Workers : Matches(Pages, OneParent, edits, jobs[v])'
  <1> DEFINE j == jobs[w]
             f == j.fw
             found == {[of |-> e.of, is |-> e.is] : e \in Equivalents(Gaps(j), j.called[f])}
             next == [j EXCEPT !.pc = "lendersOut", !.equivalents = found]
  <1>1. /\ TypeOK /\ JobOK(j) /\ j \in JobType /\ j.pc = "crosswalks"
        /\ Step(w, IF found = {} THEN Summarise(j, {}) ELSE next)
        /\ Matches(Pages, OneParent, edits, j)
    BY DEF PagesMatch, JobsOK, JobOK, ReadCrosswalks
  <1>2. f \in Frameworks
    BY <1>1 DEF JobOK, Midway
  <1>3. Pages[f] = PageOf(f)
    BY <1>2, PagesOf
  <1>4. j.seen <= edits /\ Listed(Pages, OneParent, edits, j.summaries)
        /\ (Fresh(Pages, edits, j) => /\ j.reqs = PageOf(f).reqs /\ j.satisfied = PageOf(f).satisfied
                              /\ (PageOf(f).satisfied # {} => j.strengths = PageOf(f).strengths))
    BY <1>1, <1>3 DEF Matches, Fits, Fresh, Midway
  <1>5. Fresh(Pages, edits, j) => found = PageOf(f).equivalents
    <2> DEFINE A == PageOf(f).reqs
               S == PageOf(f).satisfied
    <2>1. PageOf(f).equivalents = {[of |-> e.of, is |-> e.is] : e \in Equivalents(A \ S, names[f])}
      BY PageFields
    <2>2. Fresh(Pages, edits, j) => Gaps(j) = A \ S /\ j.called[f] = names[f]
      <3>1. PageOf(f).name = names[f]
        BY PageFields
      <3> QED BY <1>3, <1>4, <3>1 DEF Gaps, Fresh
    <2> HIDE DEF A, S, j, f
    <2> QED BY <2>1, <2>2
  <1> HIDE DEF j, found
  <1>6. /\ next.pc = "lendersOut" /\ next.seen = j.seen /\ next.called = j.called /\ next.fw = f /\ f = j.fw /\ next.reqs = j.reqs
        /\ next.satisfied = j.satisfied /\ next.strengths = j.strengths
        /\ next.equivalents = found /\ next.summaries = j.summaries
    BY <1>1 DEF JobType
  <1> HIDE DEF next
  <1>7. Matches(Pages, OneParent, edits, next)
    BY <1>3, <1>4, <1>5, <1>6 DEF Matches, Fits, Fresh, Midway
  <1>8. ASSUME found = {} PROVE Matches(Pages, OneParent, edits, Summarise(j, {}))
    <2>1. ASSUME Fresh(Pages, edits, j)
          PROVE  OneParent => Figures(j.reqs, j.satisfied, j.strengths, {}) = Pages[f].figures
      <3>1. PageOf(f).borrowed = {}
        BY <1>5, <1>8, <2>1, PageEnds
      <3> DEFINE B == {}
      <3>2. /\ j.reqs = PageOf(f).reqs /\ j.satisfied = PageOf(f).satisfied
            /\ (PageOf(f).satisfied # {} => j.strengths = PageOf(f).strengths)
            /\ B = PageOf(f).borrowed /\ f \in Frameworks /\ TypeOK
        BY <1>1, <1>2, <1>4, <2>1, <3>1
      <3> HIDE DEF B, f
      <3>3. OneParent => Figures(j.reqs, j.satisfied, j.strengths, B) = Pages[f].figures
        BY <3>2, FiguresMatch
      <3> QED BY <3>3 DEF B
    <2> QED BY <1>1, <1>4, <2>1, SummariseMatches
  <1> QED BY <1>1, <1>7, <1>8, StepMatches

LEMMA ReadLendersOutMatches ==
    ASSUME PagesMatch, NEW w \in Workers, ReadLendersOut(w)
    PROVE  \A v \in Workers : Matches(Pages, OneParent, edits, jobs[v])'
  <1> DEFINE j == jobs[w]
             f == j.fw
             L == OutSatisfied(Targets(j))
             new == [j EXCEPT !.pc = "lendersIn", !.lends = L]
  <1>1. /\ JobOK(j) /\ j \in JobType /\ j.pc = "lendersOut" /\ Step(w, new)
        /\ Matches(Pages, OneParent, edits, j)
    BY DEF PagesMatch, JobsOK, JobOK, ReadLendersOut
  <1>2. f \in Frameworks
    BY <1>1 DEF JobOK, Midway
  <1>3. Pages[f] = PageOf(f)
    BY <1>2, PagesOf
  <1>4. j.seen <= edits /\ Listed(Pages, OneParent, edits, j.summaries)
        /\ (Fresh(Pages, edits, j) => /\ j.reqs = PageOf(f).reqs /\ j.satisfied = PageOf(f).satisfied
                              /\ (PageOf(f).satisfied # {} => j.strengths = PageOf(f).strengths)
                              /\ j.equivalents = PageOf(f).equivalents)
    BY <1>1, <1>3 DEF Matches, Fits, Fresh, Midway
  <1>5. Fresh(Pages, edits, j) => L = PageOf(f).lends
    <2> DEFINE E == PageOf(f).equivalents
    <2>1. PageOf(f).lends = OutSatisfied({e.is : e \in E})
      BY PageFields
    <2>2. Fresh(Pages, edits, j) => Targets(j) = {e.is : e \in E}
      BY <1>4 DEF Targets
    <2> HIDE DEF E, j, f
    <2> QED BY <2>1, <2>2
  <1> HIDE DEF j, L
  <1>6. /\ new.pc = "lendersIn" /\ new.seen = j.seen /\ new.called = j.called /\ new.fw = f /\ f = j.fw /\ new.reqs = j.reqs
        /\ new.satisfied = j.satisfied /\ new.strengths = j.strengths
        /\ new.equivalents = j.equivalents /\ new.lends = L /\ new.summaries = j.summaries
    BY <1>1 DEF JobType
  <1>7. Step(w, new)
    BY <1>1
  <1> HIDE DEF new, f
  <1>8. Matches(Pages, OneParent, edits, new)
    BY <1>3, <1>4, <1>5, <1>6 DEF Matches, Fits, Fresh, Midway
  <1> QED BY <1>7, <1>8, StepMatches

LEMMA ReadLendersInMatches ==
    ASSUME PagesMatch, NEW w \in Workers, ReadLendersIn(w)
    PROVE  \A v \in Workers : Matches(Pages, OneParent, edits, jobs[v])'
  <1> DEFINE j == jobs[w]
             f == j.fw
             lends == j.lends \cup InSatisfied(Targets(j))
             B == {e.of : e \in {d \in j.equivalents : d.is \in lends}}
  <1>1. /\ TypeOK /\ JobOK(j) /\ j \in JobType /\ j.pc = "lendersIn" /\ Step(w, Summarise(j, B))
        /\ Matches(Pages, OneParent, edits, j)
    BY DEF PagesMatch, JobsOK, JobOK, ReadLendersIn
  <1>2. f \in Frameworks
    BY <1>1 DEF JobOK, Midway
  <1>3. Pages[f] = PageOf(f)
    BY <1>2, PagesOf
  <1>4. j.seen <= edits /\ Listed(Pages, OneParent, edits, j.summaries)
        /\ (Fresh(Pages, edits, j) => /\ j.reqs = PageOf(f).reqs /\ j.satisfied = PageOf(f).satisfied
                              /\ (PageOf(f).satisfied # {} => j.strengths = PageOf(f).strengths)
                              /\ j.equivalents = PageOf(f).equivalents
                              /\ j.lends = PageOf(f).lends)
    BY <1>1, <1>3 DEF Matches, Fits, Fresh, Midway
  <1>5. Fresh(Pages, edits, j) => B = PageOf(f).borrowed
    <2> DEFINE E == PageOf(f).equivalents
               T == {e.is : e \in E}
               found == PageOf(f).lends \cup InSatisfied(T)
    <2>1. PageOf(f).borrowed = {e.of : e \in {d \in E : d.is \in found}}
      BY PageFields
    <2>2. Fresh(Pages, edits, j) => Targets(j) = T
      BY <1>4 DEF Targets
    <2>3. Fresh(Pages, edits, j) => lends = found
      BY <1>4, <2>2
    <2>4. Fresh(Pages, edits, j) => j.equivalents = E
      BY <1>4
    <2> HIDE DEF E, j, f, found, lends
    <2> QED BY <2>1, <2>3, <2>4
  <1> HIDE DEF j, B
  <1>6. ASSUME Fresh(Pages, edits, j)
        PROVE  OneParent => Figures(j.reqs, j.satisfied, j.strengths, B) = Pages[f].figures
    <2> HIDE DEF f
    <2> QED BY <1>1, <1>2, <1>4, <1>5, <1>6, FiguresMatch
  <1>7. Matches(Pages, OneParent, edits, Summarise(j, B))
    BY <1>1, <1>4, <1>6, SummariseMatches
  <1> QED BY <1>1, <1>7, StepMatches

LEMMA StartMatches ==
    ASSUME PagesMatch, NEW w \in Workers, Start(w)
    PROVE  \A v \in Workers : Matches(Pages, OneParent, edits, jobs[v])'
  <1> DEFINE found == live \cap Frameworks
             pc == IF found = {} THEN "idle" ELSE "requirements"
             r == Resting(day)
             new == [r EXCEPT !.todo = found, !.called = names, !.pc = pc]
  <1>1. day \in -1..MaxDay /\ Step(w, new)
    BY DEF PagesMatch, JobsOK, TypeOK, Start
  <1>2. r \in JobType /\ r.summaries = {}
    BY <1>1, RestingOK DEF JobOK, Resting
  <1>3. pc \in {"idle", "requirements"}
    OBVIOUS
  <1> HIDE DEF r, pc, found
  <1>4. new.pc = pc /\ new.summaries = {}
    BY <1>2 DEF JobType
  <1> HIDE DEF new
  <1>5. Matches(Pages, OneParent, edits, new)
    BY <1>3, <1>4 DEF Matches, Listed, Midway
  <1> QED BY <1>1, <1>5, StepMatches

\* Where the graph stays, and each job is left alone or has nothing more to list.
LEMMA QuietMatches ==
    ASSUME PagesMatch, SameGraph, edits' = edits,
           \A v \in Workers : \/ jobs'[v] = jobs[v]
                              \/ /\ jobs'[v].pc \notin Midway
                                 /\ jobs'[v].summaries \subseteq jobs[v].summaries
    PROVE  \A v \in Workers : Matches(Pages, OneParent, edits, jobs[v])'
  <1>1. Pages' = Pages /\ (OneParent' <=> OneParent)
    BY SamePages
  <1>2. ASSUME NEW v \in Workers PROVE Matches(Pages, OneParent, edits, jobs'[v])
    <2>1. Matches(Pages, OneParent, edits, jobs[v])
      BY DEF PagesMatch
    <2> QED BY <2>1 DEF Matches, Listed
  <1> DEFINE P == Pages
             one == OneParent
  <1>3. \A v \in Workers : Matches(P', one', edits', jobs'[v])
    BY <1>1, <1>2 DEF Matches, Listed
  <1> QED BY <1>3

LEMMA InsertMatches ==
    ASSUME PagesMatch, NEW w \in Workers, Insert(w)
    PROVE  \A v \in Workers : Matches(Pages, OneParent, edits, jobs[v])'
  <1> DEFINE j == jobs[w]
  <1>1. j \in JobType /\ j.pc = "insert" /\ jobs \in [Workers -> JobType]
    BY DEF PagesMatch, JobsOK, TypeOK, Insert
  <1>2. PICK s \in j.summaries :
          jobs' = [jobs EXCEPT ![w] = IF s.fw \notin live \/ j.summaries \ {s} = {} THEN Resting(@.last)
                                      ELSE [@ EXCEPT !.summaries = j.summaries \ {s}]]
    BY DEF Insert
  <1> DEFINE rest == [j EXCEPT !.summaries = j.summaries \ {s}]
             done == Resting(j.last)
  <1>3. jobs'[w] \in {done, rest} /\ \A v \in Workers \ {w} : jobs'[v] = jobs[v]
    BY <1>1, <1>2
  <1>4. done.pc = "idle" /\ done.summaries = {}
    BY DEF Resting
  <1>5. rest.pc = "insert" /\ rest.summaries \subseteq j.summaries
    <2> HIDE DEF j
    <2> QED BY <1>1 DEF JobType
  <1> HIDE DEF done, rest
  <1>6. jobs'[w].pc \notin Midway /\ jobs'[w].summaries \subseteq jobs[w].summaries
    BY <1>3, <1>4, <1>5 DEF Midway
  <1>7. SameGraph /\ edits' = edits
    BY DEF Insert, Graph, SameGraph
  <1> QED BY <1>3, <1>6, <1>7, QuietMatches

LEMMA CrashMatches ==
    ASSUME PagesMatch, NEW w \in Workers, Crash(w)
    PROVE  \A v \in Workers : Matches(Pages, OneParent, edits, jobs[v])'
  <1> DEFINE r == Resting(day)
  <1>1. r.pc = "idle" /\ r.summaries = {}
    BY DEF Resting
  <1>2. jobs' = [jobs EXCEPT ![w] = r] /\ jobs \in [Workers -> JobType] /\ SameGraph /\ edits' = edits
    BY DEF Crash, PagesMatch, JobsOK, TypeOK, SameGraph
  <1> HIDE DEF r
  <1>3. jobs'[w] = r /\ \A v \in Workers \ {w} : jobs'[v] = jobs[v]
    BY <1>2
  <1> QED BY <1>1, <1>2, <1>3, QuietMatches DEF Midway

\* An edit is counted, and so nothing that was read before has to match.
LEMMA PeopleMatch ==
    ASSUME PagesMatch, People
    PROVE  \A v \in Workers : Matches(Pages, OneParent, edits, jobs[v])'
  <1>1. edits' = edits + 1 /\ jobs' = jobs /\ edits \in Nat
    BY CoverageAssumption
       DEF People, AddLink, RemoveLink, SetScope, GradeControl, Rename, DeleteAsset, Edit,
           PagesMatch, JobsOK, TypeOK
  <1>2. ASSUME NEW v \in Workers
        PROVE  /\ jobs[v].pc \in Midway => jobs[v].seen <= edits
               /\ \A s \in jobs[v].summaries : s.seen <= edits
               /\ jobs[v].seen \in Nat /\ \A s \in jobs[v].summaries : s.seen \in Nat
    <2> DEFINE j == jobs[v]
    <2>1. Matches(Pages, OneParent, edits, j) /\ j \in JobType
      BY DEF PagesMatch, JobsOK, JobOK
    <2> HIDE DEF j
    <2>2. /\ j.pc \in Midway => j.seen <= edits
          /\ \A s \in j.summaries : s.seen <= edits
      BY <2>1 DEF Matches, Listed
    <2>3. j.seen \in Nat /\ \A s \in j.summaries : s.seen \in Nat
      BY <2>1 DEF JobType, SummaryType
    <2> QED BY <2>2, <2>3 DEF j
  <1> DEFINE P == Pages
             one == OneParent
  <1>3. \A v \in Workers : Matches(P', one', edits', jobs'[v])
    BY <1>1, <1>2 DEF Matches, Listed, Fresh
  <1> QED BY <1>3

LEMMA PagesMatchStays ==
    ASSUME PagesMatch, [Next]_vars
    PROVE  PagesMatch'
  <1>1. JobsOK'
    BY JobsStay DEF PagesMatch
  <1> DEFINE Agree == \A v \in Workers : Matches(Pages, OneParent, edits, jobs[v])
  <1>2. ASSUME NEW w \in Workers, Job(w) PROVE Agree'
    BY <1>2, StartMatches, ReadRequirementsMatches, ReadScopeMatches, ReadOutboundMatches,
       ReadInboundMatches, ReadStrengthsMatches, ReadCrosswalksMatches, ReadLendersOutMatches,
       ReadLendersInMatches, InsertMatches DEF Job
  <1>3. ASSUME NEW w \in Workers, Crash(w) PROVE Agree'
    BY <1>3, CrashMatches
  <1>4. ASSUME Advance PROVE Agree'
    BY <1>4, QuietMatches DEF Advance, SameGraph
  <1>5. ASSUME UNCHANGED vars PROVE Agree'
    BY <1>5, QuietMatches DEF vars, SameGraph
  <1>6. ASSUME People PROVE Agree'
    BY <1>6, PeopleMatch
  <1>7. Agree'
    <2> HIDE DEF Agree
    <2> QED BY <1>2, <1>3, <1>4, <1>5, <1>6 DEF Next
  <1> QED BY <1>1, <1>7 DEF PagesMatch

LEMMA PagesAlways == Spec => []PagesMatch
  <1>1. Init => PagesMatch
    <2> SUFFICES ASSUME Init PROVE PagesMatch
      OBVIOUS
    <2>1. JobsOK
      BY InitOK
    <2>2. Resting(-1).pc = "idle" /\ Resting(-1).summaries = {}
      BY DEF Resting
    <2>3. \A w \in Workers : jobs[w] = Resting(-1)
      BY DEF Init
    <2> QED BY <2>1, <2>2, <2>3 DEF PagesMatch, Matches, Listed, Midway
  <1>2. PagesMatch /\ [Next]_vars => PagesMatch'
    BY PagesMatchStays
  <1> QED BY <1>1, <1>2, PTL DEF Spec

-----------------------------------------------------------------------------
(* The other views of the links *)

\* A control is listed with the requirements that list it.
LEMMA ControlsAgree ==
    ASSUME NEW c \in Controls, NEW r \in Requirements
    PROVE  r \in ControlCovers(c) <=> c \in Satisfiers(r)
  <1> DEFINE touching == {l \in links : (l.src = c /\ l.type = "satisfies")
                                        \/ (l.dst = c /\ l.type \in OutboundSatisfies)}
  <1>1. r \in ControlCovers(c) <=> \E l \in touching : r = IF l.src = c THEN l.dst ELSE l.src
    BY DEF ControlCovers
  <1>2. c \in Satisfiers(r) <=> \E l \in links : \/ l.src = r /\ l.type \in OutboundSatisfies /\ c = l.dst
                                                 \/ l.dst = r /\ l.type = "satisfies" /\ c = l.src
    BY DEF Satisfiers, InboundSatisfies
  <1>3. ASSUME NEW l \in touching, r = IF l.src = c THEN l.dst ELSE l.src
        PROVE  \/ l.src = r /\ l.type \in OutboundSatisfies /\ c = l.dst
               \/ l.dst = r /\ l.type = "satisfies" /\ c = l.src
    BY <1>3
  <1>4. ASSUME NEW l \in links,
               \/ l.src = r /\ l.type \in OutboundSatisfies /\ c = l.dst
               \/ l.dst = r /\ l.type = "satisfies" /\ c = l.src
        PROVE  l \in touching /\ r = IF l.src = c THEN l.dst ELSE l.src
    BY <1>4
  <1> HIDE DEF touching
  <1>5. touching \subseteq links
    BY DEF touching
  <1> QED BY <1>1, <1>2, <1>3, <1>4, <1>5


LEMMA MatrixAgrees ==
    ASSUME TypeOK, OneParent, MapsRequirements, DistinctNames, NEW first \in FirstRows,
           NEW f \in Frameworks \cap live, NEW g \in Frameworks \cap live, f # g
    PROVE  {p \in CountedPairs : first[p] \in {<<f, g>>, <<g, f>>}}
             = {{x.of, x.is} : x \in {y \in Crosswalks(RequirementIds(f), names[f]) : y.framework = names[g]}}
  <1> DEFINE reqs == RequirementIds(f)
             shown == {y \in Crosswalks(reqs, names[f]) : y.framework = names[g]}
             counted == {p \in CountedPairs : first[p] \in {<<f, g>>, <<g, f>>}}
  <1>1. \A p \in CountedPairs : first[p] \in Rows(p)
    BY DEF FirstRows
  <1>2. \A r : r \in reqs <=> r \in Requirements /\ f \in Parents(r)
    BY DEF RequirementIds, Parents
  <1>3. \A r \in Requirements : \A p, q \in Parents(r) : p = q
    BY OnlyParent
  <1>4. \A r \in Requirements : g \in Parents(r) => names[g] \in Owners(r) \ {names[f]} /\ r \notin reqs
    <2>1. names[f] # names[g]
      BY DEF DistinctNames
    <2> QED BY <1>2, <1>3, <2>1 DEF Owners
  <1>5. ASSUME NEW p \in counted PROVE \E x \in shown : p = {x.of, x.is}
    <2>1. p \in CountedPairs /\ first[p] \in Rows(p) /\ first[p] \in {<<f, g>>, <<g, f>>}
      BY <1>1
    <2>2. PICK l \in links : /\ l.type \in CrossMaps /\ {l.src, l.dst} = p
                             /\ first[p] \in Parents(l.src) \X Parents(l.dst)
      BY <2>1 DEF Rows
    <2>3. l.src \in Requirements /\ l.dst \in Requirements
      BY <2>2 DEF MapsRequirements
    <2>4. CASE first[p] = <<f, g>>
      <3>1. f \in Parents(l.src) /\ g \in Parents(l.dst)
        BY <2>2, <2>4
      <3> DEFINE x == [of |-> l.src, is |-> l.dst, label |-> l.type, framework |-> names[g]]
      <3>2. x \in Crosswalks(reqs, names[f])
        BY <1>2, <1>4, <2>2, <2>3, <3>1, CrosswalkFacts
      <3>3. x.framework = names[g] /\ p = {x.of, x.is}
        BY <2>2
      <3> QED BY <3>2, <3>3
    <2>5. CASE first[p] = <<g, f>>
      <3>1. g \in Parents(l.src) /\ f \in Parents(l.dst)
        BY <2>2, <2>5
      <3> DEFINE x == [of |-> l.dst, is |-> l.src, label |-> l.type, framework |-> names[g]]
      <3>2. x \in Crosswalks(reqs, names[f])
        BY <1>2, <1>4, <2>2, <2>3, <3>1, CrosswalkFacts
      <3>3. x.framework = names[g] /\ p = {x.of, x.is}
        BY <2>2
      <3> QED BY <3>2, <3>3
    <2> QED BY <2>1, <2>4, <2>5
  <1>6. ASSUME NEW x \in shown PROVE {x.of, x.is} \in counted
    <2> DEFINE p == {x.of, x.is}
    <2>1. x \in Crosswalks(reqs, names[f]) /\ x.framework = names[g]
      OBVIOUS
    <2>2. PICK l \in links :
                /\ l.type \in CrossMaps
                /\ \/ l.src \in reqs /\ x.of = l.src /\ x.is = l.dst
                   \/ l.src \notin reqs /\ l.dst \in reqs /\ x.of = l.dst /\ x.is = l.src
                /\ x.is \in Requirements /\ x.framework \in Owners(x.is) \ {names[f]}
      BY <2>1, CrosswalkFacts
    <2>3. p = {l.src, l.dst} /\ x.of \in reqs
      BY <2>2
    <2>4. x.of \in Requirements /\ f \in Parents(x.of) /\ x.is \in Requirements /\ g \in Parents(x.is)
      <3>1. names[g] # Null
        BY CoverageAssumption DEF TypeOK
      <3>2. x.of \in Requirements /\ f \in Parents(x.of) /\ x.is \in Requirements
        BY <1>2, <2>2, <2>3
      <3>3. PICK q \in Parents(x.is) : q \in Frameworks /\ names[q] = names[g]
        BY <2>1, <2>2, <3>1 DEF Owners
      <3>4. q \in live
        BY <3>3 DEF Parents, TypeOK
      <3>5. q = g
        BY <3>3, <3>4 DEF DistinctNames
      <3> QED BY <3>2, <3>3, <3>5
    <2>5. p \in CountedPairs
      <3>1. p \in CrossedPairs
        BY <2>2, <2>3 DEF CrossedPairs
      <3>2. Parents(l.src) \X Parents(l.dst) \subseteq Rows(p)
        BY <2>2, <2>3 DEF Rows
      <3>3. PICK a \in Parents(l.src), b \in Parents(l.dst) : TRUE
        BY <2>2, <2>4
      <3>4. <<a, b>> \in Rows(p)
        BY <3>2, <3>3
      <3> QED BY <3>1, <3>4 DEF CountedPairs
    <2>6. PICK k \in links : /\ {k.src, k.dst} = p
                             /\ first[p] \in Parents(k.src) \X Parents(k.dst)
      <3>1. first[p] \in Rows(p)
        BY <1>1, <2>5
      <3> QED BY <3>1 DEF Rows
    <2>7. \/ k.src = x.of /\ k.dst = x.is
          \/ k.src = x.is /\ k.dst = x.of
      BY <2>6
    <2>8. \A q \in Parents(x.of) : q = f
      BY <1>3, <2>4
    <2>9. \A q \in Parents(x.is) : q = g
      BY <1>3, <2>4
    <2>10. first[p] \in {<<f, g>>, <<g, f>>}
      BY <2>6, <2>7, <2>8, <2>9
    <2> QED BY <2>5, <2>10
  <1> HIDE DEF counted, shown
  <1>7. counted = {{x.of, x.is} : x \in shown}
    BY <1>5, <1>6
  <1> QED BY <1>7 DEF counted, shown

\* ViewsAgree: the listing, whose statements are apart, says what the page says,
\* a control covers what it satisfies, and the matrix counts the crosswalks, if
\* (DistinctNames) no two frameworks have one name.
THEOREM ViewsOfTheGraphAgree == Spec => []ViewsAgree
  <1>1. PagesMatch => ViewsAgree
    <2> SUFFICES ASSUME PagesMatch PROVE ViewsAgree
      OBVIOUS
    <2>1. TypeOK
      BY DEF PagesMatch, JobsOK
    <2>2. ListedAsOnPage
      <3> SUFFICES ASSUME OneParent, NEW w \in Workers, NEW s \in jobs[w].summaries, s.seen = edits,
                          s.name = names[s.fw]
                   PROVE  s.figures = Detail(s.fw)
        BY DEF ListedAsOnPage
      <3> DEFINE j == jobs[w]
      <3>1. Matches(Pages, OneParent, edits, j) /\ j \in JobType
        BY <2>1 DEF PagesMatch, TypeOK
      <3> HIDE DEF j
      <3>2. s.fw \in Frameworks
        BY <3>1 DEF JobType, SummaryType, j
      <3>3. /\ Pages[s.fw] = PageOf(s.fw) /\ PageOf(s.fw).figures = Detail(s.fw)
            /\ PageOf(s.fw).name = names[s.fw]
        BY <3>2, PagesOf, PageFields
      <3>4. s.figures = Pages[s.fw].figures
        BY <3>1, <3>3 DEF Matches, Listed, j
      <3> QED BY <3>3, <3>4
    <2>3. \A c \in Controls, r \in Requirements : r \in ControlCovers(c) <=> c \in Satisfiers(r)
      BY ControlsAgree
    <2>4. ASSUME OneParent, MapsRequirements, DistinctNames, NEW first \in FirstRows,
                 NEW f \in Frameworks \cap live, NEW g \in Frameworks \cap live, f # g
          PROVE  MatrixCell(first, f, g)
                   = Cardinality({{x.of, x.is} :
                       x \in {y \in Crosswalks(RequirementIds(f), names[f]) : y.framework = names[g]}})
      BY <2>1, <2>4, MatrixAgrees DEF MatrixCell
    <2> QED BY <2>2, <2>3, <2>4 DEF ViewsAgree
  <1> QED BY <1>1, PagesAlways, PTL
=============================================================================
