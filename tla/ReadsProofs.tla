------------------------------ MODULE ReadsProofs ------------------------------
(***************************************************************************)
(* What clients read, for every table and number of writes: the numbers of *)
(* a report fit together up to the writes that overlapped it (Reports),    *)
(* and a walk over the pages of a listing errs only by what was written    *)
(* meanwhile (Listings).                                                   *)
(***************************************************************************)
EXTENDS MCReads, FiniteSetTheorems, TLAPS

\* The rows behind number q of a report.
Behind(name, t, q) == RowsOf(name, t)[q]

\* A number that is still to be asked stands for the rows of the moment.
FitsSoFar(answers, part, whole, touched) ==
  LET P == Behind(report.name, report.tenant, part)
      W == Behind(report.name, report.tenant, whole)
      asked == DOMAIN answers
  IN /\ part \in asked => answers[part] \in Nat
     /\ whole \in asked => answers[whole] \in Nat
     /\ part \in asked /\ whole \in asked => answers[part] <= answers[whole] + touched
     /\ part \in asked /\ whole \notin asked => answers[part] <= Cardinality(W) + touched
     /\ part \notin asked /\ whole \in asked => Cardinality(P) <= answers[whole] + touched

TableInv ==
  /\ rows = [r \in RowIds |-> rows[r]]
  /\ IsFiniteSet({r \in RowIds : rows[r] # NoRow})
ReportInv ==
  Running =>
    /\ report = [name |-> report.name, tenant |-> report.tenant,
                 touched |-> report.touched, answers |-> report.answers]
    /\ report.touched \in Nat
    /\ report.answers = [q \in Answered |-> report.answers[q]]
    /\ \A pair \in Parts(report.name) :
         FitsSoFar(report.answers, pair[1], pair[2], report.touched)
ReadsInv == TableInv /\ ReportInv

-----------------------------------------------------------------------------
(* The queries *)

\* A number counts existing rows, and the rows of a part are rows of its whole.
LEMMA PartsAreParts ==
  ASSUME NEW name, NEW t, NEW pair \in Parts(name)
  PROVE  /\ Behind(name, t, pair[1]) \subseteq Behind(name, t, pair[2])
         /\ Behind(name, t, pair[2]) \subseteq {r \in RowIds : rows[r] # NoRow}
         /\ {pair[1], pair[2]} \subseteq DOMAIN RowsOf(name, t)
<1> USE DEF Behind, RowsOf, Parts, Of, Standing, Enabled, Since, Ending, Day, Week, Month
<1>1. CASE name = "dashboard"
  BY <1>1 DEF GetDashboard
<1>2. CASE name = "usage"
  BY <1>2 DEF GetUsageReport
<1>3. CASE name = "compliance"
  BY <1>3 DEF GetComplianceReport
<1>4. CASE name = "security"
  BY <1>4 DEF GetSecurityReport
<1>5. CASE name = "tenantStats"
  BY <1>5 DEF GetStats
<1>6. CASE name = "policyStats"
  BY <1>6 DEF GetTenantPolicyStats
<1>7. CASE name = "usageStats"
  BY <1>7 DEF GetUsageStats
<1>8. CASE name = "documents"
  BY <1>8 DEF GetDocumentStats
<1> QED
  BY <1>1, <1>2, <1>3, <1>4, <1>5, <1>6, <1>7, <1>8

\* Whether a row is behind a number depends on that row alone, and a row that is
\* is one of the tenant the report is asked for.
Judged(name, t, q) ==
  \A i : /\ rows'[i] = rows[i] => (i \in Behind(name, t, q) <=> i \in Behind(name, t, q)')
         /\ i \in Behind(name, t, q) =>
              i \in RowIds /\ rows[i] # NoRow /\ (t # NoTenant => rows[i].tenant = t)
         /\ i \in Behind(name, t, q)' =>
              i \in RowIds /\ rows'[i] # NoRow /\ (t # NoTenant => rows'[i].tenant = t)

LEMMA RowsAreJudgedAlone ==
  ASSUME NEW name, NEW t, NEW pair \in Parts(name), NEW q \in {pair[1], pair[2]}
  PROVE  Judged(name, t, q)
<1> USE DEF Judged, Behind, RowsOf, Parts, Of, Standing, Enabled, Since, Ending
<1>1. CASE name = "dashboard"
  BY <1>1 DEF GetDashboard
<1>2. CASE name = "usage"
  BY <1>2 DEF GetUsageReport
<1>3. CASE name = "compliance"
  BY <1>3 DEF GetComplianceReport
<1>4. CASE name = "security"
  BY <1>4 DEF GetSecurityReport
<1>5. CASE name = "tenantStats"
  BY <1>5 DEF GetStats
<1>6. CASE name = "policyStats"
  BY <1>6 DEF GetTenantPolicyStats
<1>7. CASE name = "usageStats"
  BY <1>7 DEF GetUsageStats
<1>8. CASE name = "documents"
  BY <1>8 DEF GetDocumentStats
<1> QED
  BY <1>1, <1>2, <1>3, <1>4, <1>5, <1>6, <1>7, <1>8

\* What is behind a number is a matter of the rows.
LEMMA NumbersOfRows ==
  ASSUME UNCHANGED rows, NEW name, NEW t, NEW q
  PROVE  Behind(name, t, q)' = Behind(name, t, q)
  BY DEF Behind, RowsOf, GetDashboard, GetUsageReport, GetComplianceReport,
     GetSecurityReport, GetTenantReport, GetStats, GetTenantPolicyStats,
     GetUsageStats, GetDocumentStats, Of, Standing, Enabled, Since, Ending

-----------------------------------------------------------------------------
(* Counting *)

LEMMA SubsetCounts ==
  ASSUME NEW S, IsFiniteSet(S), NEW T \in SUBSET S
  PROVE  /\ IsFiniteSet(T) /\ Cardinality(S) \in Nat /\ Cardinality(T) \in Nat
         /\ Cardinality(T) <= Cardinality(S)
  BY FS_Subset, FS_CardinalityType

\* One row more or less is one more or less.
LEMMA OneRowCounts ==
  ASSUME NEW S, IsFiniteSet(S), NEW T, NEW r, T \subseteq S \cup {r}
  PROVE  /\ Cardinality(S) \in Nat /\ Cardinality(T) \in Nat
         /\ Cardinality(T) <= Cardinality(S) + 1
<1>0. Cardinality(S) \in Nat
  BY FS_CardinalityType
<1>1. /\ IsFiniteSet(S \cup {r})
      /\ Cardinality(S \cup {r}) = IF r \in S THEN Cardinality(S) ELSE Cardinality(S) + 1
  BY FS_AddElement
<1> QED
  BY <1>0, <1>1, SubsetCounts

\* Every set of rows that a number counts is finite.
LEMMA PartsAreFinite ==
  ASSUME TableInv, NEW name, NEW t, NEW pair \in Parts(name)
  PROVE  /\ IsFiniteSet(Behind(name, t, pair[1])) /\ IsFiniteSet(Behind(name, t, pair[2]))
         /\ Cardinality(Behind(name, t, pair[1])) \in Nat
         /\ Cardinality(Behind(name, t, pair[2])) \in Nat
         /\ Cardinality(Behind(name, t, pair[1])) <= Cardinality(Behind(name, t, pair[2]))
<1>1. IsFiniteSet(Behind(name, t, pair[2]))
  BY PartsAreParts, SubsetCounts DEF TableInv
<1> QED
  BY <1>1, PartsAreParts, SubsetCounts

Rewrites(r, row) == rows'[r] = row /\ \A i \in RowIds : i # r => rows'[i] = rows[i]

\* A write outside the report's scope leaves a number alone; one in its scope
\* changes it by one at most.
LEMMA WritesAreCounted ==
  ASSUME TableInv, NEW r \in RowIds, NEW row, Rewrites(r, row),
         NEW name, NEW t, name = report.name, t = report.tenant,
         NEW pair \in Parts(name), NEW q \in {pair[1], pair[2]}
  PROVE  LET before == Cardinality(Behind(name, t, q))
             after == Cardinality(Behind(name, t, q)')
         IN /\ before \in Nat /\ after \in Nat
            /\ before <= after + 1 /\ after <= before + 1
            /\ ~InScope(rows[r]) /\ ~InScope(row) => before = after
<1> DEFINE S == Behind(name, t, q)  T == Behind(name, t, q)'
<1>1. /\ rows'[r] = row /\ \A i \in RowIds : i # r => rows'[i] = rows[i]
  BY DEF Rewrites
<1>2. /\ \A i : rows'[i] = rows[i] => (i \in S <=> i \in T)
      /\ \A i : i \in S =>
                  i \in RowIds /\ rows[i] # NoRow /\ (t # NoTenant => rows[i].tenant = t)
      /\ \A i : i \in T =>
                  i \in RowIds /\ rows'[i] # NoRow /\ (t # NoTenant => rows'[i].tenant = t)
  <2>1. Judged(name, t, q)
    BY RowsAreJudgedAlone
  <2> QED
    BY <2>1 DEF Judged
<1>3. IsFiniteSet(S)
  BY PartsAreFinite
<1> HIDE DEF S, T
<1>4. T \subseteq S \cup {r} /\ S \subseteq T \cup {r}
  BY <1>1, <1>2
<1>5. ~InScope(rows[r]) /\ ~InScope(row) => S = T
  <2> SUFFICES ASSUME ~InScope(rows[r]), ~InScope(row) PROVE S = T
    OBVIOUS
  <2>1. r \notin S /\ r \notin T
    BY <1>1, <1>2 DEF InScope
  <2> QED
    BY <1>4, <2>1
<1>6. IsFiniteSet(T)
  BY <1>3, <1>4, FS_AddElement, SubsetCounts
<1>7. /\ Cardinality(S) \in Nat /\ Cardinality(T) \in Nat
      /\ Cardinality(S) <= Cardinality(T) + 1 /\ Cardinality(T) <= Cardinality(S) + 1
  BY <1>3, <1>4, <1>6, OneRowCounts
<1> QED
  BY <1>5, <1>7 DEF S, T

-----------------------------------------------------------------------------
(* Each step *)

LEMMA InitIsGood == Init => ReadsInv
  BY ReportsAssumption DEF Init, ReadsInv, TableInv, ReportInv, Running

LEMMA AskStep ==
  ASSUME ReadsInv, NEW name, NEW t, Ask(name, t)
  PROVE  ReadsInv'
<1>1. /\ report' = [name |-> name, tenant |-> t, touched |-> 0,
                    answers |-> [q \in {} |-> 0]]
      /\ UNCHANGED rows
  BY DEF Ask
<1>2. \A q : q \notin DOMAIN [p \in {} |-> 0]
  OBVIOUS
<1>3. TableInv'
  BY <1>1 DEF ReadsInv, TableInv
<1>4. ReportInv'
  BY <1>1, <1>2 DEF ReportInv, FitsSoFar, Answered
<1> QED
  BY <1>3, <1>4 DEF ReadsInv

\* A number takes the place of the rows behind it.
LEMMA AnswerStep ==
  ASSUME ReadsInv, Running, NEW q \in Questions, Answer(q)
  PROVE  ReadsInv'
<1> DEFINE number == Cardinality(RowsOf(report.name, report.tenant)[q])
<1>1. /\ report' = [report EXCEPT !.answers =
                      [p \in Answered \cup {q} |->
                         IF p = q THEN number ELSE report.answers[p]]]
      /\ UNCHANGED rows /\ q \notin Answered
  BY DEF Answer
<1>2. TableInv'
  BY <1>1 DEF ReadsInv, TableInv
<1>3. /\ report' = [name |-> report.name, tenant |-> report.tenant,
                    touched |-> report.touched, answers |-> report'.answers]
      /\ report'.answers = [p \in Answered \cup {q} |->
                              IF p = q THEN number ELSE report.answers[p]]
      /\ report'.name = report.name /\ report'.tenant = report.tenant
      /\ report'.touched = report.touched /\ report.touched \in Nat
  BY <1>1 DEF ReadsInv, ReportInv
<1>4. /\ DOMAIN report'.answers = Answered \cup {q}
      /\ report'.answers[q] = number
      /\ \A p \in Answered : report'.answers[p] = report.answers[p]
  BY <1>1, <1>3
<1>5. ASSUME NEW pair \in Parts(report.name)
      PROVE  FitsSoFar(report.answers, pair[1], pair[2], report.touched)'
  <2>1. FitsSoFar(report.answers, pair[1], pair[2], report.touched)
    BY DEF ReadsInv, ReportInv
  <2>2. PICK name, t : name = report.name /\ t = report.tenant
    OBVIOUS
  <2>3. /\ Cardinality(Behind(name, t, pair[1])) \in Nat
        /\ Cardinality(Behind(name, t, pair[2])) \in Nat
        /\ Cardinality(Behind(name, t, pair[1])) <= Cardinality(Behind(name, t, pair[2]))
    BY <2>2, PartsAreFinite DEF ReadsInv
  <2>4. \A p : Behind(name, t, p)' = Behind(name, t, p)
    BY <1>1, NumbersOfRows
  <2>5. number = Cardinality(Behind(name, t, q))
    BY <2>2 DEF Behind
  <2> HIDE DEF number
  <2> QED
    BY <1>3, <1>4, <2>1, <2>2, <2>3, <2>4, <2>5 DEF FitsSoFar, Answered
<1>6. ReportInv'
  BY <1>3, <1>4, <1>5 DEF ReportInv, Answered
<1> QED
  BY <1>2, <1>6 DEF ReadsInv

\* A write in scope moves a number that is still to be asked by one at most, and
\* is counted.
LEMMA WriteStep ==
  ASSUME ReadsInv, NEW r \in RowIds, NEW row, Write(r, row)
  PROVE  ReadsInv'
<1> DEFINE scoped == InScope(rows[r]) \/ InScope(row)
<1>1. /\ Running /\ rows' = [rows EXCEPT ![r] = row]
      /\ report' = [report EXCEPT !.touched = IF scoped THEN @ + 1 ELSE @]
  BY DEF Write
<1>2. TableInv'
  <2>1. rows' = [i \in RowIds |-> rows'[i]]
    BY <1>1 DEF ReadsInv, TableInv
  <2>2. {i \in RowIds : rows'[i] # NoRow} \subseteq {i \in RowIds : rows[i] # NoRow} \cup {r}
    BY <1>1 DEF ReadsInv, TableInv
  <2>3. IsFiniteSet({i \in RowIds : rows[i] # NoRow} \cup {r})
    BY FS_AddElement DEF ReadsInv, TableInv
  <2> QED
    BY <2>1, <2>2, <2>3, SubsetCounts DEF TableInv
<1> DEFINE touched == IF scoped THEN report.touched + 1 ELSE report.touched
<1>3. /\ report' = [name |-> report.name, tenant |-> report.tenant,
                    touched |-> touched, answers |-> report.answers]
      /\ report.touched \in Nat
      /\ report.answers = [q \in Answered |-> report.answers[q]]
  BY <1>1 DEF ReadsInv, ReportInv
<1>4. ASSUME NEW pair \in Parts(report.name)
      PROVE  FitsSoFar(report.answers, pair[1], pair[2], report.touched)'
  <2>1. FitsSoFar(report.answers, pair[1], pair[2], report.touched)
    BY <1>1 DEF ReadsInv, ReportInv
  <2>2. PICK name, t : name = report.name /\ t = report.tenant
    OBVIOUS
  <2>3. ASSUME NEW q \in {pair[1], pair[2]}
        PROVE  LET before == Cardinality(Behind(name, t, q))
                   after == Cardinality(Behind(name, t, q)')
               IN /\ before \in Nat /\ after \in Nat
                  /\ before <= after + 1 /\ after <= before + 1
                  /\ ~scoped => before = after
    <3>1. TableInv /\ pair \in Parts(name) /\ Rewrites(r, row)
      BY <1>1, <2>2 DEF ReadsInv, TableInv, Rewrites
    <3> QED
      BY <2>2, <3>1, WritesAreCounted
  <2> HIDE DEF scoped
  <2> QED
    BY <1>3, <2>1, <2>2, <2>3 DEF FitsSoFar
<1>5. ReportInv'
  <2> HIDE DEF scoped
  <2> QED
    BY <1>3, <1>4 DEF ReportInv, Answered
<1> QED
  BY <1>2, <1>5 DEF ReadsInv

\* Whenever a report runs, the numbers it has and the rows behind those it still
\* asks for fit together up to the writes so far.
LEMMA ReadsHold == Spec => []ReadsInv
<1>1. ReadsInv /\ [Next]_vars => ReadsInv'
  <2> SUFFICES ASSUME ReadsInv, [Next]_vars PROVE ReadsInv'
    OBVIOUS
  <2>1. CASE UNCHANGED vars
    <3>1. rows' = rows /\ report' = report
      BY <2>1 DEF vars
    <3>2. PICK name, t : name = report.name /\ t = report.tenant
      OBVIOUS
    <3>3. \A q : Behind(name, t, q)' = Behind(name, t, q)
      BY <3>1, NumbersOfRows
    <3> QED
      BY <3>1, <3>2, <3>3
      DEF ReadsInv, TableInv, ReportInv, Running, Answered, FitsSoFar
  <2> QED
    BY <2>1, AskStep, AnswerStep, WriteStep DEF Next
<1> QED
  BY <1>1, InitIsGood, PTL DEF Spec

\* The reports of MonitoringService and of the services: a part exceeds its
\* whole by no more than the rows of the report's own scope that were written
\* while it ran, and not at all in a quiet one, however many rows and writes
\* there are and in whatever order the queries are answered.
THEOREM PartsFitTogether == Spec => []PartsFit
<1>1. ReadsInv => PartsFit
  <2> SUFFICES ASSUME ReadsInv, Finished, NEW pair \in Parts(report.name)
               PROVE  report.answers[pair[1]] <= report.answers[pair[2]] + report.touched
    BY DEF PartsFit
  <2>1. {pair[1], pair[2]} \subseteq Answered
    BY PartsAreParts DEF Finished, Questions
  <2> QED
    BY <2>1 DEF ReadsInv, ReportInv, FitsSoFar, Finished, Answered
<1> QED
  BY <1>1, ReadsHold, PTL

-----------------------------------------------------------------------------
(* The place of a row among the rows of a listing *)

\* How many rows come no later than row r in a listing of the rows ids of table t.
NoLater(t, ids, r) == {q \in ids : t[q].key >= t[r].key}
Rank(t, ids, r) == Cardinality(NoLater(t, ids, r))
IsListing(t, ids) ==
  /\ ids \subseteq ListedIds /\ IsFiniteSet(ids)
  /\ \A r \in ids : t[r].key \in Int

\* The instance counts as this module does.
LEMMA SameCount == \A S : Lists!Cardinality(S) = Cardinality(S)
  BY DEF Cardinality, Lists!Cardinality

LEMMA RankIsNumber ==
  ASSUME NEW t, NEW ids, IsListing(t, ids), NEW r \in ids
  PROVE  /\ Rank(t, ids, r) \in Nat \ {0} /\ Cardinality(ids) \in Nat
         /\ Rank(t, ids, r) <= Cardinality(ids)
<1>1. NoLater(t, ids, r) \subseteq ids /\ r \in NoLater(t, ids, r)
  BY DEF NoLater, IsListing
<1>2. /\ IsFiniteSet(NoLater(t, ids, r))
      /\ Cardinality(NoLater(t, ids, r)) <= Cardinality(ids)
  BY <1>1, FS_Subset DEF IsListing
<1>3. Cardinality(NoLater(t, ids, r)) # 0
  BY <1>1, <1>2, FS_EmptySet
<1> QED
  BY <1>2, <1>3, FS_CardinalityType DEF Rank, IsListing

\* Two rows without ties have different ranks.
LEMMA RanksDiffer ==
  ASSUME NEW t, NEW ids, IsListing(t, ids),
         NEW r \in Lists!Untied(t, ids), NEW q \in Lists!Untied(t, ids),
         Rank(t, ids, r) = Rank(t, ids, q)
  PROVE  r = q
<1> SUFFICES ASSUME r # q PROVE FALSE
  OBVIOUS
<1>0. r \in ids /\ q \in ids /\ t[r].key \in Int /\ t[q].key \in Int
  BY DEF IsListing, Lists!Untied
<1>1. t[r].key # t[q].key
  BY DEF Lists!Untied
<1>2. ASSUME NEW a \in ids, NEW b \in ids, t[a].key > t[b].key,
             Rank(t, ids, a) = Rank(t, ids, b)
      PROVE  FALSE
  <2>1. \A c \in ids : t[c].key \in Int
    BY DEF IsListing
  <2>2. NoLater(t, ids, a) \subseteq NoLater(t, ids, b)
    BY <1>2, <2>1 DEF NoLater
  <2>3. b \in NoLater(t, ids, b) /\ b \notin NoLater(t, ids, a)
    BY <1>2, <2>1 DEF NoLater
  <2>4. IsFiniteSet(NoLater(t, ids, b))
    BY FS_Subset DEF NoLater, IsListing
  <2>5. NoLater(t, ids, b) = NoLater(t, ids, a)
    BY <1>2, <2>2, <2>4, FS_Subset DEF Rank
  <2> QED
    BY <2>3, <2>5
<1>3. t[r].key > t[q].key \/ t[q].key > t[r].key
  BY <1>0, <1>1
<1> QED
  BY <1>0, <1>2, <1>3

\* Rows without ties with n ranks are n at most.
LEMMA FewRanksFewRows ==
  ASSUME NEW t, NEW ids, IsListing(t, ids), NEW some, some \subseteq Lists!Untied(t, ids),
         NEW low \in Nat, NEW n \in Nat,
         \A r \in some : low < Rank(t, ids, r) /\ Rank(t, ids, r) <= low + n
  PROVE  Cardinality(some) <= n
<1> DEFINE f == [r \in some |-> Rank(t, ids, r)]
<1>0. some \subseteq ids
  BY DEF Lists!Untied
<1>1. \A r \in some : r \in ids /\ Rank(t, ids, r) \in low + 1 .. low + n
  BY <1>0, RankIsNumber
<1>2. f \in [some -> low + 1 .. low + n]
  BY <1>1
<1>3. \A r, q \in some : f[r] = f[q] => r = q
  BY RanksDiffer
<1>4. f \in Injection(some, low + 1 .. low + n)
  BY <1>2, <1>3 DEF Injection, IsInjective
<1>5. IsFiniteSet(low + 1 .. low + n) /\ Cardinality(low + 1 .. low + n) = n
  BY FS_Interval
<1> QED
  BY <1>4, <1>5, FS_Injection

\* A set and another that has one element more at most.
LEMMA OneMore ==
  ASSUME NEW S, NEW T, NEW r, IsFiniteSet(S), S \subseteq T, T \subseteq S \cup {r}
  PROVE  /\ IsFiniteSet(T) /\ Cardinality(S) \in Nat /\ Cardinality(T) \in Nat
         /\ Cardinality(S) <= Cardinality(T) /\ Cardinality(T) <= Cardinality(S) + 1
<1>1. IsFiniteSet(S \cup {r}) /\ Cardinality(S \cup {r}) <= Cardinality(S) + 1
      /\ Cardinality(S) \in Nat /\ Cardinality(S \cup {r}) \in Nat
  BY FS_AddElement, FS_CardinalityType
<1>2. IsFiniteSet(T) /\ Cardinality(T) <= Cardinality(S \cup {r}) /\ Cardinality(T) \in Nat
  BY <1>1, FS_Subset, FS_CardinalityType
<1>3. Cardinality(S) <= Cardinality(T)
  BY <1>2, FS_Subset
<1> QED
  BY <1>1, <1>2, <1>3

\* Another row in the listing pushes the rows back by one at most.
LEMMA RankGrows ==
  ASSUME NEW t, NEW u, NEW ids, IsListing(t, ids), NEW r,
         \A q \in ids : u[q].key = t[q].key, NEW q \in ids
  PROVE  /\ Rank(t, ids, q) <= Rank(u, ids \cup {r}, q)
         /\ Rank(u, ids \cup {r}, q) <= Rank(t, ids, q) + 1
         /\ Rank(t, ids, q) \in Nat /\ Rank(u, ids \cup {r}, q) \in Nat
<1>1. PICK S, T : S = NoLater(t, ids, q) /\ T = NoLater(u, ids \cup {r}, q)
  OBVIOUS
<1>2. S \subseteq T /\ T \subseteq S \cup {r}
  BY <1>1 DEF NoLater
<1>3. IsFiniteSet(S)
  BY <1>1, FS_Subset DEF NoLater, IsListing
<1>4. /\ Cardinality(S) \in Nat /\ Cardinality(T) \in Nat
      /\ Cardinality(S) <= Cardinality(T) /\ Cardinality(T) <= Cardinality(S) + 1
  BY <1>2, <1>3, OneMore
<1> QED
  BY <1>1, <1>4 DEF Rank

\* A row that gets a lower key moves back, and the others move up by one place at most.
LEMMA RankOfLowered ==
  ASSUME NEW t, NEW u, NEW ids, IsListing(t, ids), IsListing(u, ids), NEW r \in ids,
         \A q \in ids \ {r} : u[q].key = t[q].key, u[r].key < t[r].key, NEW q \in ids
  PROVE  /\ Rank(u, ids, q) \in Nat /\ Rank(t, ids, q) \in Nat
         /\ IF q = r THEN Rank(t, ids, q) <= Rank(u, ids, q)
            ELSE Rank(u, ids, q) <= Rank(t, ids, q) /\ Rank(t, ids, q) <= Rank(u, ids, q) + 1
<1>1. \A p \in ids : t[p].key \in Int /\ u[p].key \in Int
  BY DEF IsListing
<1>2. IsFiniteSet(NoLater(t, ids, q)) /\ IsFiniteSet(NoLater(u, ids, q))
  BY FS_Subset DEF NoLater, IsListing
<1>3. CASE q = r
  <2>1. NoLater(t, ids, q) \subseteq NoLater(u, ids, q)
    BY <1>1, <1>3 DEF NoLater
  <2> QED
    BY <1>2, <1>3, <2>1, FS_Subset, FS_CardinalityType DEF Rank
<1>4. CASE q # r
  <2>1. /\ NoLater(u, ids, q) \subseteq NoLater(t, ids, q)
        /\ NoLater(t, ids, q) \subseteq NoLater(u, ids, q) \cup {r}
    BY <1>1, <1>4 DEF NoLater
  <2> QED
    BY <1>2, <1>4, <2>1, OneMore DEF Rank
<1> QED
  BY <1>3, <1>4

\* A row that gets a higher key pushes the others back, or leaves them alone.
LEMMA RankOfRaised ==
  ASSUME NEW t, NEW u, NEW ids, IsListing(t, ids), IsListing(u, ids), NEW r \in ids,
         \A q \in ids \ {r} : u[q].key = t[q].key, t[r].key < u[r].key,
         NEW q \in ids, q # r
  PROVE  /\ Rank(u, ids, q) \in Nat /\ Rank(t, ids, q) \in Nat
         /\ Rank(t, ids, q) <= Rank(u, ids, q)
<1>1. \A p \in ids : t[p].key \in Int /\ u[p].key \in Int
  BY DEF IsListing
<1>2. IsFiniteSet(NoLater(t, ids, q)) /\ IsFiniteSet(NoLater(u, ids, q))
  BY FS_Subset DEF NoLater, IsListing
<1>3. NoLater(t, ids, q) \subseteq NoLater(u, ids, q)
  BY <1>1 DEF NoLater
<1> QED
  BY <1>2, <1>3, FS_Subset, FS_CardinalityType DEF Rank

-----------------------------------------------------------------------------
(* The pages *)

\* Whatever order the database likes, a row without ties stands at its rank.
LEMMA PlaceIsRank ==
  ASSUME NEW t, t = listed, NEW ids, IsListing(t, ids),
         NEW order \in Lists!Orders(ids)
  PROVE  /\ DOMAIN order = 1 .. Cardinality(ids)
         /\ \A i \in DOMAIN order : order[i] \in ids
         /\ \A r \in Lists!Untied(t, ids) :
              Rank(t, ids, r) \in DOMAIN order /\ order[Rank(t, ids, r)] = r
         /\ \A i \in DOMAIN order : order[i] \in Lists!Untied(t, ids) => Rank(t, ids, order[i]) = i
<1> DEFINE n == Cardinality(ids)
<1>0. Lists!Cardinality(ids) = n
  BY SameCount
<1>1. n \in Nat /\ \A q \in ids : t[q].key \in Int
  BY FS_CardinalityType DEF IsListing
<1>2. /\ order \in [1 .. n -> ids] /\ \A i, j \in 1 .. n : i # j => order[i] # order[j]
      /\ \A i, j \in 1 .. n : i < j => t[order[i]].key >= t[order[j]].key
  <2>1. order \in Lists!SetToSeqs(ids) /\ Lists!Sorted(order)
    BY DEF Lists!Orders
  <2>2. order \in [1 .. n -> ids] /\ \A i, j \in 1 .. n : i # j => order[i] # order[j]
    BY <1>0, <2>1 DEF Lists!SetToSeqs
  <2> QED
    BY <2>1, <2>2 DEF Lists!Sorted
<1>3. \A r \in ids : \E i \in 1 .. n : order[i] = r
  <2>1. order \in Injection(1 .. n, ids)
    BY <1>2 DEF Injection, IsInjective
  <2>2. IsFiniteSet(1 .. n) /\ Cardinality(1 .. n) = n
    BY <1>1, FS_Interval
  <2>3. order \in Surjection(1 .. n, ids)
    BY <2>1, <2>2, FS_Injection DEF IsListing
  <2> QED
    BY <2>3 DEF Surjection
<1> HIDE DEF n
<1>4. ASSUME NEW i \in 1 .. n, order[i] \in Lists!Untied(t, ids)
      PROVE  Rank(t, ids, order[i]) = i
  <2> DEFINE r == order[i]
             S == NoLater(t, ids, r)
             f == [j \in 1 .. i |-> order[j]]
  <2>1. r \in ids /\ r \in Lists!Untied(t, ids)
    BY <1>2, <1>4
  <2>2. \A j \in 1 .. n : order[j] \in ids /\ t[order[j]].key \in Int
    BY <1>1, <1>2
  <2>3. ASSUME NEW j \in 1 .. n PROVE order[j] \in S <=> j <= i
    <3>1. CASE j = i
      BY <1>1, <2>1, <2>2, <3>1 DEF NoLater
    <3>2. CASE j < i
      BY <1>1, <1>2, <2>2, <3>2 DEF NoLater
    <3>3. CASE j > i
      <4>1. t[r].key >= t[order[j]].key /\ order[j] # r
        BY <1>1, <1>2, <3>3
      <4>2. t[r].key # t[order[j]].key
        BY <2>1, <2>2, <4>1 DEF Lists!Untied
      <4> QED
        BY <1>1, <2>2, <3>3, <4>1, <4>2 DEF NoLater
    <3> QED
      BY <1>1, <3>1, <3>2, <3>3
  <2>4. \A j \in 1 .. i : j \in 1 .. n /\ f[j] = order[j]
    BY <1>1
  <2> HIDE DEF f
  <2>5. f \in [1 .. i -> S]
    BY <2>3, <2>4 DEF f
  <2>6. \A q \in S : \E j \in 1 .. i : f[j] = q
    <3> TAKE q \in S
    <3>1. q \in ids
      BY DEF NoLater
    <3>2. PICK j \in 1 .. n : order[j] = q
      BY <1>3, <3>1
    <3>3. j \in 1 .. i
      BY <1>1, <2>3, <3>2
    <3> QED
      BY <2>4, <3>2, <3>3
  <2>7. f \in Bijection(1 .. i, S)
    BY <1>2, <2>4, <2>5, <2>6 DEF Bijection, Injection, Surjection, IsInjective
  <2>8. IsFiniteSet(1 .. i) /\ Cardinality(1 .. i) = i
    BY <1>1, FS_Interval
  <2>9. Cardinality(S) = i
    BY <2>7, <2>8, FS_Bijection DEF ExistsBijection
  <2> QED
    BY <2>9 DEF Rank
<1>5. ASSUME NEW r \in Lists!Untied(t, ids)
      PROVE  Rank(t, ids, r) \in 1 .. n /\ order[Rank(t, ids, r)] = r
  <2>1. r \in ids
    BY DEF Lists!Untied
  <2> QED
    BY <1>3, <1>4, <2>1
<1> QED
  BY <1>2, <1>4, <1>5 DEF n


LEMMA LimitIsPositive == Lists!Limit \in Nat \ {0} /\ Lists!PageOf(Lists!Query) = 1
  BY ListsAssumption DEF Lists!Limit, Lists!LimitOf, Lists!Query, Lists!PageOf

\* The last position of a page.
Last(page) == page * Lists!Limit

LEMMA LastGrows ==
  ASSUME NEW page \in Nat \ {0}
  PROVE  Last(page) \in Nat /\ Last(page - 1) \in Nat /\ Last(0) = 0
         /\ Last(page) = Last(page - 1) + Lists!Limit
  BY LimitIsPositive DEF Last

LEMMA ProductsKeepOrder ==
  ASSUME NEW a \in Int, NEW b \in Int, NEW n \in Nat, a <= b
  PROVE  a * n <= b * n
  OBVIOUS

\* With or without the division, a next page is there to be asked for when rows
\* come after the last of this one.
LEMMA NextPageIsNeeded ==
  ASSUME NEW page \in Nat \ {0}, NEW total \in Nat
  PROVE  /\ Lists!HasNextPage(page, Lists!Limit, total) <=> Last(page) < total
         /\ Lists!HasNextLogs(page, Lists!Limit, total) <=> Last(page) < total
<1> DEFINE n == Lists!Limit
           d == (total + n - 1) \div n
<1>1. n \in Nat \ {0}
  BY LimitIsPositive
<1> HIDE DEF n
<1>2. d \in Int /\ d * n <= total + n - 1 /\ total + n - 1 < d * n + n
  BY <1>1
<1>3. page < d <=> page * n < total
  <2> HIDE DEF d
  <2>1. page * n \in Int /\ d * n \in Int /\ (page + 1) * n = page * n + n
    BY <1>1, <1>2
  <2>2. CASE page < d
    <3>1. (page + 1) * n <= d * n
      BY <1>1, <1>2, <2>2, ProductsKeepOrder
    <3> QED
      BY <1>1, <1>2, <2>1, <2>2, <3>1
  <2>3. CASE ~(page < d)
    <3>1. d * n <= page * n
      BY <1>1, <1>2, <2>3, ProductsKeepOrder
    <3> QED
      BY <1>1, <1>2, <2>1, <2>3, <3>1
  <2> QED
    BY <2>2, <2>3
<1> QED
  BY <1>3 DEF Lists!HasNextPage, Lists!TotalPages, Lists!HasNextLogs, Last, n

\* A page holds the rows without ties whose ranks are its positions.
LEMMA PageHoldsRanks ==
  ASSUME NEW t, t = listed, NEW ids, IsListing(t, ids),
         NEW order \in Lists!Orders(ids), NEW page \in Nat \ {0}
  PROVE  /\ Lists!PageRows(order, page) \subseteq ids
         /\ \A r \in Lists!Untied(t, ids) :
              r \in Lists!PageRows(order, page) <=>
                Last(page - 1) < Rank(t, ids, r) /\ Rank(t, ids, r) <= Last(page)
<1> DEFINE data == Lists!PageRows(order, page)
           n == Lists!Limit
<1>1. data = {order[i] : i \in ((page - 1) * n + 1 .. (page - 1) * n + n) \cap DOMAIN order}
  BY DEF Lists!PageRows, Lists!Positions, Lists!Skip
<1>2. /\ Last(page - 1) = (page - 1) * n /\ Last(page) = Last(page - 1) + n
      /\ n \in Nat /\ Last(page - 1) \in Nat
  BY LastGrows, LimitIsPositive DEF Last
<1> HIDE DEF data, n
<1>3. data = {order[i] : i \in (Last(page - 1) + 1 .. Last(page)) \cap DOMAIN order}
  BY <1>1, <1>2
<1>4. data \subseteq ids
  BY <1>3, PlaceIsRank
<1>5. ASSUME NEW r \in Lists!Untied(t, ids)
      PROVE  r \in data <=> Last(page - 1) < Rank(t, ids, r) /\ Rank(t, ids, r) <= Last(page)
  <2>1. Rank(t, ids, r) \in DOMAIN order /\ order[Rank(t, ids, r)] = r /\ Rank(t, ids, r) \in Nat
    BY PlaceIsRank, RankIsNumber
  <2>2. ASSUME r \in data PROVE Rank(t, ids, r) \in Last(page - 1) + 1 .. Last(page)
    <3>1. PICK i \in (Last(page - 1) + 1 .. Last(page)) \cap DOMAIN order : r = order[i]
      BY <1>3, <2>2
    <3>2. Rank(t, ids, r) = i
      BY <3>1, PlaceIsRank
    <3> QED
      BY <3>1, <3>2
  <2>3. ASSUME Rank(t, ids, r) \in Last(page - 1) + 1 .. Last(page) PROVE r \in data
    BY <1>3, <2>1, <2>3
  <2> QED
    BY <1>2, <2>1, <2>2, <2>3
<1> QED
  BY <1>4, <1>5 DEF data

-----------------------------------------------------------------------------
(* A walk w over a listing of the rows ids *)

\* How many positions were on the pages read.
Depth(w) == IF w.data = NoData THEN Last(w.page - 1) ELSE Last(w.page)
Missed(w) == {r \in w.stable : w.seen[r] = 0}
\* Rows that moved to a page already read.
Slipped(w, t, ids) == {r \in Missed(w) : Rank(t, ids, r) <= Depth(w)}
\* No row was pushed to a page yet to be read.
Unpushed(w) == w.inserted = 0 /\ w.moved = 0
Quiet(w) == Unpushed(w) /\ w.removed = 0

WalkTyped(w) ==
  /\ w.step \in {"asking", "ended"}
  /\ w = [step |-> w.step, list |-> w.list, scope |-> w.scope, page |-> w.page,
          data |-> w.data, total |-> w.total, seen |-> w.seen, stable |-> w.stable,
          removed |-> w.removed, inserted |-> w.inserted, late |-> w.late,
          moved |-> w.moved]
  /\ w.page \in Nat \ {0} /\ w.seen \in [ListedIds -> Nat]
  /\ w.data = NoData \/ w.data \in SUBSET ListedIds
  /\ w.total = NoData \/ w.total \in Nat
  /\ w.removed \in Nat /\ w.inserted \in Nat /\ w.late \in Nat /\ w.moved \in Nat
  /\ w.step = "ended" => /\ w.data # NoData /\ w.total # NoData
                         /\ w.total <= Last(w.page)

GoodWalk(w, t, ids) ==
  /\ WalkTyped(w) /\ IsListing(t, ids) /\ w.stable \subseteq Lists!Untied(t, ids)
  \* A row slips past the walk only when another one left or was sorted anew.
  /\ Cardinality(Slipped(w, t, ids)) <= w.removed + w.moved
  \* Rows that came after the count may stand behind its last page.
  /\ w.total # NoData /\ w.data = NoData => Cardinality(ids) <= w.total + w.late
  /\ w.total # NoData /\ w.data # NoData /\ w.total <= Last(w.page) =>
       Cardinality(Missed(w)) <= w.removed + w.late + w.moved
  /\ Unpushed(w) => \A r \in w.stable : /\ w.seen[r] <= 1
                                        /\ w.seen[r] > 0 => Rank(t, ids, r) <= Depth(w)
  /\ Quiet(w) =>
       /\ w.stable = Lists!Untied(t, ids)
       /\ \A r \in w.stable : w.seen[r] = IF Rank(t, ids, r) <= Depth(w) THEN 1 ELSE 0
       /\ \A r \in ListedIds \ ids : w.seen[r] = 0
       /\ w.total # NoData => w.total = Cardinality(ids)
       /\ w.page = 1 \/ Last(w.page - 1) < Cardinality(ids)

LEMMA MissedAreListed ==
  ASSUME NEW w, NEW t, NEW ids, GoodWalk(w, t, ids)
  PROVE  /\ w.stable \subseteq ids
         /\ IsFiniteSet(Missed(w)) /\ IsFiniteSet(Slipped(w, t, ids))
         /\ Cardinality(Missed(w)) \in Nat /\ Cardinality(Slipped(w, t, ids)) \in Nat
         /\ \A r \in w.stable : r \in ListedIds /\ w.seen[r] \in Nat
         /\ Depth(w) \in Nat /\ Cardinality(ids) \in Nat
<1>1. IsFiniteSet(ids) /\ ids \subseteq ListedIds /\ w.stable \subseteq ids
      /\ w.seen \in [ListedIds -> Nat] /\ w.page \in Nat \ {0}
  BY DEF GoodWalk, IsListing, WalkTyped, Lists!Untied
<1>2. Missed(w) \subseteq ids /\ Slipped(w, t, ids) \subseteq ids
  BY <1>1 DEF Missed, Slipped
<1>3. IsFiniteSet(Missed(w)) /\ IsFiniteSet(Slipped(w, t, ids))
  BY <1>1, <1>2, FS_Subset
<1>4. Depth(w) \in Nat
  BY <1>1, LastGrows DEF Depth
<1> QED
  BY <1>1, <1>3, <1>4, FS_CardinalityType

\* The walk begins.
LEMMA WalkBegins ==
  ASSUME NEW t, NEW ids, IsListing(t, ids), NEW list, NEW scope, NEW w,
         w = [step |-> "asking", list |-> list, scope |-> scope,
              page |-> Lists!PageOf(Lists!Query), data |-> NoData, total |-> NoData,
              seen |-> [r \in ListedIds |-> 0], stable |-> Lists!Untied(t, ids),
              removed |-> 0, inserted |-> 0, late |-> 0, moved |-> 0]
  PROVE  GoodWalk(w, t, ids)
<1>1. w = [step |-> "asking", list |-> list, scope |-> scope, page |-> 1,
           data |-> NoData, total |-> NoData, seen |-> [r \in ListedIds |-> 0],
           stable |-> Lists!Untied(t, ids),
           removed |-> 0, inserted |-> 0, late |-> 0, moved |-> 0]
  BY LimitIsPositive
<1>2. WalkTyped(w)
  BY <1>1 DEF WalkTyped
<1>3. Depth(w) = 0
  BY <1>1, LastGrows DEF Depth
<1>4. w.stable \subseteq ids /\ ids \subseteq ListedIds
  BY <1>1 DEF Lists!Untied, IsListing
<1>5. \A r \in ids : ~(Rank(t, ids, r) <= Depth(w))
  BY <1>3, RankIsNumber
<1>6. Slipped(w, t, ids) = {}
  BY <1>4, <1>5 DEF Slipped, Missed
<1>7. Cardinality(Slipped(w, t, ids)) <= w.removed + w.moved
  BY <1>1, <1>6, FS_EmptySet
<1>8. \A r \in ListedIds : w.seen[r] = 0
  BY <1>1
<1> QED
  BY <1>1, <1>2, <1>4, <1>5, <1>7, <1>8 DEF GoodWalk

\* Of two disjoint sets.
LEMMA TwoParts ==
  ASSUME NEW S, NEW A, NEW B, IsFiniteSet(A), IsFiniteSet(B), S \subseteq A \cup B
  PROVE  /\ Cardinality(S) \in Nat /\ Cardinality(A) \in Nat /\ Cardinality(B) \in Nat
         /\ Cardinality(S) <= Cardinality(A) + Cardinality(B)
<1>1. /\ IsFiniteSet(A \cup B)
      /\ Cardinality(A \cup B) = Cardinality(A) + Cardinality(B) - Cardinality(A \cap B)
  BY FS_Union
<1>2. IsFiniteSet(A \cap B)
  BY FS_Intersection
<1>3. IsFiniteSet(S) /\ Cardinality(S) <= Cardinality(A \cup B)
  BY <1>1, FS_Subset
<1> QED
  BY <1>1, <1>2, <1>3, FS_CardinalityType

\* findMany(): the rows of a page are seen.
LEMMA PageIsRead ==
  ASSUME NEW w, NEW t, t = listed, NEW ids, GoodWalk(w, t, ids),
         w.step = "asking", w.data = NoData,
         NEW order \in Lists!Orders(ids), NEW v,
         v = [w EXCEPT !.data = Lists!PageRows(order, w.page),
                !.seen = [r \in ListedIds |->
                            IF r \in Lists!PageRows(order, w.page) THEN @[r] + 1 ELSE @[r]]]
  PROVE  GoodWalk(v, t, ids)
<1> DEFINE data == Lists!PageRows(order, w.page)
           low == Last(w.page - 1)
           high == Last(w.page)
<1>1. /\ WalkTyped(w) /\ IsListing(t, ids) /\ ids \subseteq ListedIds /\ IsFiniteSet(ids)
      /\ w.stable \subseteq Lists!Untied(t, ids) /\ w.stable \subseteq ids
  BY MissedAreListed DEF GoodWalk, IsListing
<1>2. low \in Nat /\ high \in Nat /\ low <= high /\ w.page \in Nat \ {0}
  BY <1>1, LastGrows, LimitIsPositive DEF WalkTyped
<1>3. /\ data \subseteq ids
      /\ \A r \in w.stable : r \in data <=> low < Rank(t, ids, r) /\ Rank(t, ids, r) <= high
  BY <1>1, <1>2, PageHoldsRanks
<1> HIDE DEF data
<1>4. v = [w EXCEPT !.data = data,
             !.seen = [r \in ListedIds |-> IF r \in data THEN w.seen[r] + 1 ELSE w.seen[r]]]
  BY <1>1 DEF WalkTyped, data
<1>5. data # NoData /\ data \in SUBSET ListedIds
  BY <1>1, <1>3, ListsAssumption
<1>6. /\ v.step = w.step /\ v.page = w.page /\ v.data = data /\ v.total = w.total
      /\ v.stable = w.stable /\ v.removed = w.removed /\ v.inserted = w.inserted
      /\ v.late = w.late /\ v.moved = w.moved
      /\ v.seen = [r \in ListedIds |-> IF r \in data THEN w.seen[r] + 1 ELSE w.seen[r]]
  BY <1>1, <1>4 DEF WalkTyped
<1>7. WalkTyped(v)
  <2>1. v = [step |-> v.step, list |-> v.list, scope |-> v.scope, page |-> v.page,
             data |-> v.data, total |-> v.total, seen |-> v.seen, stable |-> v.stable,
             removed |-> v.removed, inserted |-> v.inserted, late |-> v.late,
             moved |-> v.moved]
    BY <1>1, <1>4 DEF WalkTyped
  <2>2. v.seen \in [ListedIds -> Nat]
    BY <1>1, <1>6 DEF WalkTyped
  <2> QED
    BY <1>1, <1>5, <1>6, <2>1, <2>2 DEF WalkTyped
<1>8. Depth(w) = low /\ Depth(v) = high
  BY <1>5, <1>6 DEF Depth
<1> HIDE DEF low, high
<1>9. \A r \in w.stable : Rank(t, ids, r) \in Nat /\ Rank(t, ids, r) <= Cardinality(ids)
  BY <1>1, RankIsNumber
<1>10. \A r \in w.stable :
         /\ w.seen[r] \in Nat
         /\ v.seen[r] = IF r \in data THEN w.seen[r] + 1 ELSE w.seen[r]
  <2> TAKE r \in w.stable
  <2>1. r \in ListedIds /\ w.seen[r] \in Nat
    BY MissedAreListed
  <2> QED
    BY <1>6, <2>1
<1>11. Missed(v) = {r \in Missed(w) : r \notin data} /\ Missed(w) \subseteq w.stable
  <2>1. ASSUME NEW r \in w.stable
        PROVE  v.seen[r] = 0 <=> w.seen[r] = 0 /\ r \notin data
    BY <1>10
  <2> QED
    BY <1>6, <2>1 DEF Missed
<1>12. Slipped(v, t, ids) \subseteq Slipped(w, t, ids)
  <2> SUFFICES ASSUME NEW r \in Slipped(v, t, ids) PROVE r \in Slipped(w, t, ids)
    OBVIOUS
  <2>1. /\ r \in Missed(w) /\ r \notin data /\ r \in w.stable
        /\ Rank(t, ids, r) <= high
    BY <1>8, <1>11 DEF Slipped
  <2>2. Rank(t, ids, r) <= low
    BY <1>2, <1>3, <1>9, <2>1
  <2> QED
    BY <1>8, <2>1, <2>2 DEF Slipped
<1>13. /\ Cardinality(Slipped(w, t, ids)) <= w.removed + w.moved
       /\ IsFiniteSet(Slipped(w, t, ids)) /\ Cardinality(Slipped(w, t, ids)) \in Nat
       /\ w.removed \in Nat /\ w.moved \in Nat
  BY <1>1, MissedAreListed DEF GoodWalk, WalkTyped
<1>14. Cardinality(Slipped(v, t, ids)) <= v.removed + v.moved
  <2>1. /\ IsFiniteSet(Slipped(v, t, ids)) /\ Cardinality(Slipped(v, t, ids)) \in Nat
        /\ Cardinality(Slipped(v, t, ids)) <= Cardinality(Slipped(w, t, ids))
    BY <1>12, <1>13, FS_Subset, FS_CardinalityType
  <2> QED
    BY <1>6, <1>13, <2>1
<1>15. ASSUME v.total # NoData, v.total <= high
       PROVE  Cardinality(Missed(v)) <= v.removed + v.late + v.moved
  <2> DEFINE behind == {r \in Missed(w) : high < Rank(t, ids, r)}
  <2>1. Missed(v) \subseteq Slipped(w, t, ids) \cup behind
    <3> SUFFICES ASSUME NEW r \in Missed(v) PROVE r \in Slipped(w, t, ids) \cup behind
      OBVIOUS
    <3>1. r \in Missed(w) /\ r \notin data /\ r \in w.stable
      BY <1>11
    <3>2. Rank(t, ids, r) <= low \/ high < Rank(t, ids, r)
      BY <1>2, <1>3, <1>9, <3>1
    <3> QED
      BY <1>8, <3>1, <3>2 DEF Slipped
  <2>2. /\ Cardinality(ids) <= w.total + w.late /\ w.total \in Nat /\ w.late \in Nat
        /\ Cardinality(ids) \in Nat
    BY <1>1, <1>6, <1>15, FS_CardinalityType DEF GoodWalk, WalkTyped
  <2>3. behind \subseteq w.stable
    BY <1>11
  <2>4. ASSUME NEW r \in behind
        PROVE  high < Rank(t, ids, r) /\ Rank(t, ids, r) <= high + w.late
    <3>1. Rank(t, ids, r) \in Nat /\ Rank(t, ids, r) <= Cardinality(ids)
      BY <1>9, <2>3
    <3>2. Cardinality(ids) <= high + w.late
      BY <1>2, <1>6, <1>15, <2>2
    <3> QED
      BY <1>2, <2>2, <3>1, <3>2
  <2> HIDE DEF behind
  <2>5. Cardinality(behind) <= w.late
    BY <1>1, <1>2, <2>2, <2>3, <2>4, FewRanksFewRows
  <2>6. IsFiniteSet(behind)
    BY <1>1, <2>3, FS_Subset
  <2>7. /\ Cardinality(Missed(v)) \in Nat /\ Cardinality(behind) \in Nat
        /\ Cardinality(Missed(v)) <= Cardinality(Slipped(w, t, ids)) + Cardinality(behind)
    BY <1>13, <2>1, <2>6, TwoParts
  <2> QED
    BY <1>6, <1>13, <2>2, <2>5, <2>7
<1>16. ASSUME Unpushed(v), NEW r \in w.stable
       PROVE  v.seen[r] <= 1 /\ (v.seen[r] > 0 => Rank(t, ids, r) <= high)
  <2>1. Unpushed(w)
    BY <1>6, <1>16 DEF Unpushed
  <2>2. /\ w.seen[r] <= 1 /\ w.seen[r] \in Nat
        /\ w.seen[r] > 0 => Rank(t, ids, r) <= low
    BY <1>8, <1>10, <2>1 DEF GoodWalk
  <2>3. r \in data <=> low < Rank(t, ids, r) /\ Rank(t, ids, r) <= high
    BY <1>3
  <2>4. /\ Rank(t, ids, r) \in Nat
        /\ v.seen[r] = IF r \in data THEN w.seen[r] + 1 ELSE w.seen[r]
    BY <1>9, <1>10
  <2> QED
    BY <1>2, <2>2, <2>3, <2>4
<1>17. ASSUME Quiet(v)
       PROVE  /\ v.stable = Lists!Untied(t, ids)
              /\ \A r \in v.stable : v.seen[r] = IF Rank(t, ids, r) <= Depth(v) THEN 1 ELSE 0
              /\ \A r \in ListedIds \ ids : v.seen[r] = 0
              /\ v.total # NoData => v.total = Cardinality(ids)
              /\ v.page = 1 \/ Last(v.page - 1) < Cardinality(ids)
  <2>1. Quiet(w)
    BY <1>6, <1>17 DEF Quiet, Unpushed
  <2>2. /\ w.stable = Lists!Untied(t, ids)
        /\ \A r \in w.stable : w.seen[r] = IF Rank(t, ids, r) <= low THEN 1 ELSE 0
        /\ \A r \in ListedIds \ ids : w.seen[r] = 0
        /\ w.total # NoData => w.total = Cardinality(ids)
        /\ w.page = 1 \/ Last(w.page - 1) < Cardinality(ids)
    BY <1>8, <2>1 DEF GoodWalk
  <2>3. ASSUME NEW r \in w.stable
        PROVE  v.seen[r] = IF Rank(t, ids, r) <= high THEN 1 ELSE 0
    <3>1. v.seen[r] = IF r \in data THEN w.seen[r] + 1 ELSE w.seen[r]
      BY <1>10
    <3>2. r \in data <=> low < Rank(t, ids, r) /\ Rank(t, ids, r) <= high
      BY <1>3
    <3>3. /\ w.seen[r] = IF Rank(t, ids, r) <= low THEN 1 ELSE 0
          /\ Rank(t, ids, r) \in Nat
      BY <1>9, <2>2
    <3> QED
      BY <1>2, <3>1, <3>2, <3>3
  <2>4. ASSUME NEW r \in ListedIds \ ids PROVE v.seen[r] = 0
    BY <1>3, <1>6, <2>2
  <2>5. \A r \in v.stable : v.seen[r] = IF Rank(t, ids, r) <= Depth(v) THEN 1 ELSE 0
    BY <1>6, <1>8, <2>3
  <2>6. v.stable = w.stable /\ v.total = w.total /\ v.page = w.page
    BY <1>6
  <2> QED
    BY <2>2, <2>4, <2>5, <2>6
<1>18. v.data # NoData /\ Last(v.page) = high
  BY <1>5, <1>6 DEF high
<1> QED
  BY <1>1, <1>6, <1>7, <1>8, <1>14, <1>15, <1>16, <1>17, <1>18 DEF GoodWalk

\* count(): the rows of the moment are counted.
LEMMA RowsAreCounted ==
  ASSUME NEW w, NEW t, NEW ids, GoodWalk(w, t, ids), w.step = "asking", w.total = NoData,
         NEW v, v = [w EXCEPT !.total = Cardinality(ids)]
  PROVE  GoodWalk(v, t, ids)
<1>1. /\ WalkTyped(w) /\ IsListing(t, ids) /\ w.stable \subseteq ids
      /\ Cardinality(ids) \in Nat /\ w.page \in Nat \ {0}
      /\ w.late \in Nat /\ w.removed \in Nat /\ w.moved \in Nat
  BY MissedAreListed DEF GoodWalk, WalkTyped
<1>2. /\ v.step = w.step /\ v.page = w.page /\ v.data = w.data
      /\ v.total = Cardinality(ids) /\ v.total # NoData
      /\ v.stable = w.stable /\ v.removed = w.removed /\ v.inserted = w.inserted
      /\ v.late = w.late /\ v.moved = w.moved /\ v.seen = w.seen
  BY <1>1, ListsAssumption DEF WalkTyped
<1>3. WalkTyped(v)
  <2>1. v = [step |-> v.step, list |-> v.list, scope |-> v.scope, page |-> v.page,
             data |-> v.data, total |-> v.total, seen |-> v.seen, stable |-> v.stable,
             removed |-> v.removed, inserted |-> v.inserted, late |-> v.late,
             moved |-> v.moved]
    BY <1>1 DEF WalkTyped
  <2> QED
    BY <1>1, <1>2, <2>1 DEF WalkTyped
<1>4. /\ Missed(v) = Missed(w) /\ Depth(v) = Depth(w)
      /\ (Unpushed(v) <=> Unpushed(w)) /\ (Quiet(v) <=> Quiet(w))
  BY <1>2 DEF Missed, Depth, Unpushed, Quiet
<1>5. Slipped(v, t, ids) = Slipped(w, t, ids)
  BY <1>4 DEF Slipped
<1>6. ASSUME w.data # NoData, Cardinality(ids) <= Last(w.page)
      PROVE  Cardinality(Missed(w)) <= w.removed + w.late + w.moved
  <2>1. ASSUME NEW r \in Missed(w) PROVE Rank(t, ids, r) <= Last(w.page)
    <3>1. r \in ids /\ Last(w.page) \in Nat
      BY <1>1, LastGrows DEF Missed
    <3> QED
      BY <1>1, <1>6, <3>1, RankIsNumber
  <2>2. Missed(w) = Slipped(w, t, ids)
    BY <1>6, <2>1 DEF Slipped, Depth
  <2>3. /\ Cardinality(Slipped(w, t, ids)) <= w.removed + w.moved
        /\ Cardinality(Slipped(w, t, ids)) \in Nat
    BY MissedAreListed DEF GoodWalk
  <2> QED
    BY <1>1, <2>2, <2>3
<1>7. Cardinality(ids) <= v.total + v.late
  BY <1>1, <1>2
<1> QED
  BY <1>1, <1>2, <1>3, <1>4, <1>5, <1>6, <1>7 DEF GoodWalk

\* The client goes on to the next page, or there is none.
LEMMA WalkGoesOn ==
  ASSUME NEW w, NEW t, NEW ids, GoodWalk(w, t, ids), w.step = "asking",
         w.data # NoData, w.total # NoData, Last(w.page) < w.total,
         NEW v, v = [w EXCEPT !.page = @ + 1, !.data = NoData, !.total = NoData]
  PROVE  GoodWalk(v, t, ids)
<1>1. WalkTyped(w) /\ IsListing(t, ids) /\ w.page \in Nat \ {0}
  BY DEF GoodWalk, WalkTyped
<1>2. /\ v.step = w.step /\ v.page = w.page + 1 /\ v.data = NoData /\ v.total = NoData
      /\ v.stable = w.stable /\ v.removed = w.removed /\ v.inserted = w.inserted
      /\ v.late = w.late /\ v.moved = w.moved /\ v.seen = w.seen /\ v.page - 1 = w.page
  BY <1>1 DEF WalkTyped
<1>3. WalkTyped(v)
  <2>1. v = [step |-> v.step, list |-> v.list, scope |-> v.scope, page |-> v.page,
             data |-> v.data, total |-> v.total, seen |-> v.seen, stable |-> v.stable,
             removed |-> v.removed, inserted |-> v.inserted, late |-> v.late,
             moved |-> v.moved]
    BY <1>1 DEF WalkTyped
  <2> QED
    BY <1>1, <1>2, <2>1 DEF WalkTyped
<1>4. /\ Missed(v) = Missed(w) /\ Depth(v) = Depth(w)
      /\ (Unpushed(v) <=> Unpushed(w)) /\ (Quiet(v) <=> Quiet(w))
  BY <1>2 DEF Missed, Depth, Unpushed, Quiet
<1>5. Slipped(v, t, ids) = Slipped(w, t, ids)
  BY <1>4 DEF Slipped
<1> QED
  BY <1>1, <1>2, <1>3, <1>4, <1>5 DEF GoodWalk

LEMMA WalkEnds ==
  ASSUME NEW w, NEW t, NEW ids, GoodWalk(w, t, ids), w.step = "asking",
         w.data # NoData, w.total # NoData, ~(Last(w.page) < w.total),
         NEW v, v = [w EXCEPT !.step = "ended"]
  PROVE  GoodWalk(v, t, ids)
<1>1. /\ WalkTyped(w) /\ IsListing(t, ids) /\ w.page \in Nat \ {0}
      /\ w.total \in Nat /\ Last(w.page) \in Nat
  BY LastGrows DEF GoodWalk, WalkTyped
<1>2. /\ v.step = "ended" /\ v.page = w.page /\ v.data = w.data /\ v.total = w.total
      /\ v.stable = w.stable /\ v.removed = w.removed /\ v.inserted = w.inserted
      /\ v.late = w.late /\ v.moved = w.moved /\ v.seen = w.seen
      /\ w.total <= Last(w.page)
  BY <1>1 DEF WalkTyped
<1>3. WalkTyped(v)
  <2>1. v = [step |-> v.step, list |-> v.list, scope |-> v.scope, page |-> v.page,
             data |-> v.data, total |-> v.total, seen |-> v.seen, stable |-> v.stable,
             removed |-> v.removed, inserted |-> v.inserted, late |-> v.late,
             moved |-> v.moved]
    BY <1>1 DEF WalkTyped
  <2> QED
    BY <1>1, <1>2, <2>1 DEF WalkTyped
<1>4. /\ Missed(v) = Missed(w) /\ Depth(v) = Depth(w)
      /\ (Unpushed(v) <=> Unpushed(w)) /\ (Quiet(v) <=> Quiet(w))
  BY <1>2 DEF Missed, Depth, Unpushed, Quiet
<1>5. Slipped(v, t, ids) = Slipped(w, t, ids)
  BY <1>4 DEF Slipped
<1> QED
  BY <1>1, <1>2, <1>3, <1>4, <1>5 DEF GoodWalk

-----------------------------------------------------------------------------
(* What other requests write *)

\* A write that lets the rows of a set slip, no more of them than it accounts for.
LEMMA WalkDisturbed ==
  ASSUME NEW w, NEW t, NEW ids, GoodWalk(w, t, ids), w.step = "asking",
         NEW v, NEW u, NEW now, WalkTyped(v), IsListing(u, now),
         v.step = w.step, v.page = w.page, v.data = w.data, v.total = w.total,
         v.seen = w.seen, v.stable \subseteq w.stable, v.stable \subseteq Lists!Untied(u, now),
         NEW slips, IsFiniteSet(slips),
         w.removed + w.moved + Cardinality(slips) <= v.removed + v.moved, w.late <= v.late,
         \A q \in v.stable \ slips :
           Rank(u, now, q) <= Depth(w) => Rank(t, ids, q) <= Depth(w),
         v.total # NoData /\ v.data = NoData =>
           Cardinality(now) <= Cardinality(ids) + v.late - w.late,
         Unpushed(v) => /\ Unpushed(w)
                        /\ \A q \in v.stable :
                             Rank(t, ids, q) <= Depth(w) => Rank(u, now, q) <= Depth(w),
         ~Quiet(v)
  PROVE  GoodWalk(v, u, now)
<1>1. /\ w.removed \in Nat /\ w.moved \in Nat /\ w.late \in Nat
      /\ v.removed \in Nat /\ v.moved \in Nat /\ v.late \in Nat
      /\ w.total = NoData \/ w.total \in Nat
  BY DEF GoodWalk, WalkTyped
<1>2. /\ IsFiniteSet(Missed(w)) /\ IsFiniteSet(Slipped(w, t, ids))
      /\ Cardinality(Missed(w)) \in Nat /\ Cardinality(Slipped(w, t, ids)) \in Nat
      /\ Cardinality(ids) \in Nat /\ Cardinality(now) \in Nat /\ Cardinality(slips) \in Nat
  BY MissedAreListed, FS_CardinalityType DEF IsListing
<1>3. Missed(v) \subseteq Missed(w) /\ Depth(v) = Depth(w)
  BY DEF Missed, Depth
<1>4. Cardinality(Missed(v)) <= Cardinality(Missed(w)) /\ Cardinality(Missed(v)) \in Nat
  BY <1>2, <1>3, FS_Subset, FS_CardinalityType
<1>5. Cardinality(Slipped(v, u, now)) <= v.removed + v.moved
  <2>1. Slipped(v, u, now) \subseteq Slipped(w, t, ids) \cup slips
    <3> SUFFICES ASSUME NEW q \in Slipped(v, u, now), q \notin slips
                 PROVE  q \in Slipped(w, t, ids)
      OBVIOUS
    <3>1. q \in Missed(w) /\ q \in v.stable /\ Rank(u, now, q) <= Depth(w)
      BY <1>3 DEF Slipped, Missed
    <3> QED
      BY <3>1 DEF Slipped
  <2>2. /\ Cardinality(Slipped(v, u, now)) \in Nat
        /\ Cardinality(Slipped(v, u, now))
             <= Cardinality(Slipped(w, t, ids)) + Cardinality(slips)
    BY <1>2, <2>1, TwoParts
  <2>3. Cardinality(Slipped(w, t, ids)) <= w.removed + w.moved
    BY DEF GoodWalk
  <2> QED
    BY <1>1, <1>2, <2>2, <2>3
<1>6. ASSUME v.total # NoData, v.data = NoData PROVE Cardinality(now) <= v.total + v.late
  <2>1. Cardinality(ids) <= w.total + w.late
    BY <1>6 DEF GoodWalk
  <2> QED
    BY <1>1, <1>2, <1>6, <2>1
<1>7. ASSUME v.total # NoData, v.data # NoData, v.total <= Last(v.page)
      PROVE  Cardinality(Missed(v)) <= v.removed + v.late + v.moved
  <2>1. Cardinality(Missed(w)) <= w.removed + w.late + w.moved
    BY <1>7 DEF GoodWalk
  <2> QED
    BY <1>1, <1>2, <1>4, <2>1
<1>8. ASSUME Unpushed(v), NEW q \in v.stable
      PROVE  v.seen[q] <= 1 /\ (v.seen[q] > 0 => Rank(u, now, q) <= Depth(v))
  BY <1>3, <1>8 DEF GoodWalk
<1> QED
  BY <1>5, <1>6, <1>7, <1>8 DEF GoodWalk

\* The rows a walk has not come to yet, of which the next may slip.
NextRow(w, t, ids) == {q \in w.stable : Rank(t, ids, q) = Depth(w) + 1}
LEMMA OneIsNext ==
  ASSUME NEW w, NEW t, NEW ids, GoodWalk(w, t, ids)
  PROVE  IsFiniteSet(NextRow(w, t, ids)) /\ Cardinality(NextRow(w, t, ids)) <= 1
         /\ Cardinality(NextRow(w, t, ids)) \in Nat
<1>1. /\ IsListing(t, ids) /\ w.stable \subseteq Lists!Untied(t, ids) /\ w.stable \subseteq ids
      /\ Depth(w) \in Nat
  BY MissedAreListed DEF GoodWalk
<1>2. \A q \in NextRow(w, t, ids) :
        Depth(w) < Rank(t, ids, q) /\ Rank(t, ids, q) <= Depth(w) + 1
  BY <1>1 DEF NextRow
<1>3. Cardinality(NextRow(w, t, ids)) <= 1
  BY <1>1, <1>2, FewRanksFewRows DEF NextRow
<1>4. IsFiniteSet(NextRow(w, t, ids))
  BY <1>1, FS_Subset DEF NextRow, IsListing
<1> QED
  BY <1>3, <1>4, FS_CardinalityType

\* A row comes into the listing: the others keep their places or are pushed back.
LEMMA RowComes ==
  ASSUME NEW w, NEW t, NEW ids, GoodWalk(w, t, ids), w.step = "asking",
         NEW r \in ListedIds, r \notin ids, NEW u, u[r].key \in Int,
         \A q \in ids : u[q].key = t[q].key, NEW v,
         v = [w EXCEPT !.stable = @ \cap Lists!Untied(u, ids \cup {r}),
                !.removed = @, !.inserted = @ + 1,
                !.late = IF w.total # NoData /\ w.data = NoData THEN @ + 1 ELSE @,
                !.moved = @]
  PROVE  GoodWalk(v, u, ids \cup {r})
<1> DEFINE more == ids \cup {r}
           late == IF w.total # NoData /\ w.data = NoData THEN w.late + 1 ELSE w.late
<1>1. /\ WalkTyped(w) /\ IsListing(t, ids) /\ w.stable \subseteq ids /\ Cardinality(ids) \in Nat
      /\ w.late \in Nat /\ w.removed \in Nat /\ w.inserted \in Nat /\ w.moved \in Nat
      /\ Depth(w) \in Nat
  BY MissedAreListed DEF GoodWalk, WalkTyped
<1>2. /\ v.stable = w.stable \cap Lists!Untied(u, more) /\ v.removed = w.removed
      /\ v.inserted = w.inserted + 1 /\ v.late = late /\ v.moved = w.moved
  BY <1>1 DEF WalkTyped
<1>3. w.inserted + 1 \in Nat /\ late \in Nat /\ w.late <= late
  BY <1>1
<1>4. /\ IsListing(u, more) /\ Cardinality(more) = Cardinality(ids) + 1
  BY <1>1, FS_AddElement DEF IsListing
<1>5. \A q \in ids : /\ Rank(t, ids, q) <= Rank(u, more, q)
                     /\ Rank(t, ids, q) \in Nat /\ Rank(u, more, q) \in Nat
  BY <1>1, RankGrows
<1> HIDE DEF more
<1>6. /\ WalkTyped(v) /\ Depth(v) = Depth(w) /\ v.step = w.step /\ v.page = w.page
      /\ v.data = w.data /\ v.total = w.total /\ v.seen = w.seen
  <2>1. v.removed \in Nat /\ v.inserted \in Nat /\ v.late \in Nat /\ v.moved \in Nat
    BY <1>1, <1>2, <1>3
  <2>2. /\ v.step = w.step /\ v.page = w.page /\ v.data = w.data /\ v.total = w.total
        /\ v.seen = w.seen
        /\ v = [step |-> v.step, list |-> v.list, scope |-> v.scope, page |-> v.page,
                data |-> v.data, total |-> v.total, seen |-> v.seen, stable |-> v.stable,
                removed |-> v.removed, inserted |-> v.inserted, late |-> v.late,
                moved |-> v.moved]
    BY <1>1 DEF WalkTyped
  <2> QED
    BY <1>1, <2>1, <2>2 DEF WalkTyped, Depth
<1>7. v.total # NoData /\ v.data = NoData =>
        Cardinality(more) <= Cardinality(ids) + v.late - w.late
  BY <1>1, <1>2, <1>4, <1>6
<1> HIDE DEF late
<1>8. IsFiniteSet({}) /\ Cardinality({}) = 0
  BY FS_EmptySet
<1>9. \A q \in v.stable \ {} : Rank(u, more, q) <= Depth(w) => Rank(t, ids, q) <= Depth(w)
  BY <1>1, <1>2, <1>5
<1>10. ~Unpushed(v) /\ ~Quiet(v)
  BY <1>1, <1>2 DEF Unpushed, Quiet
<1>11. /\ w.removed + w.moved + Cardinality({}) <= v.removed + v.moved /\ w.late <= v.late
       /\ v.stable \subseteq w.stable /\ v.stable \subseteq Lists!Untied(u, more)
  <2>1. w.removed + w.moved + 0 <= v.removed + v.moved /\ w.late <= v.late
    BY <1>1, <1>2, <1>3
  <2>2. v.stable \subseteq w.stable /\ v.stable \subseteq Lists!Untied(u, more)
    BY <1>2
  <2> QED
    BY <1>8, <2>1, <2>2
<1>12. GoodWalk(v, u, more)
  BY <1>4, <1>6, <1>7, <1>8, <1>9, <1>10, <1>11, WalkDisturbed
<1> QED
  BY <1>12 DEF more

\* A row leaves the listing: one row at most slips to a page already read.
LEMMA RowLeaves ==
  ASSUME NEW w, NEW t, NEW ids, GoodWalk(w, t, ids), w.step = "asking",
         NEW r \in ids, NEW u, \A q \in ids \ {r} : u[q].key = t[q].key, NEW v,
         v = [w EXCEPT !.stable = @ \cap Lists!Untied(u, ids \ {r}),
                !.removed = @ + 1, !.inserted = @, !.late = @, !.moved = @]
  PROVE  GoodWalk(v, u, ids \ {r})
<1>0. PICK rest, slips : rest = ids \ {r} /\ slips = NextRow(w, t, ids)
  OBVIOUS
<1>1. /\ WalkTyped(w) /\ IsListing(t, ids) /\ w.stable \subseteq ids /\ Cardinality(ids) \in Nat
      /\ w.late \in Nat /\ w.removed \in Nat /\ w.inserted \in Nat /\ w.moved \in Nat
      /\ Depth(w) \in Nat
  BY MissedAreListed DEF GoodWalk, WalkTyped
<1>2. /\ v.stable = w.stable \cap Lists!Untied(u, rest) /\ v.removed = w.removed + 1
      /\ v.inserted = w.inserted /\ v.late = w.late /\ v.moved = w.moved
  BY <1>0, <1>1 DEF WalkTyped
<1>3. /\ IsListing(u, rest) /\ ids = rest \cup {r}
      /\ Cardinality(rest) \in Nat /\ Cardinality(rest) <= Cardinality(ids)
  <2>1. IsFiniteSet(rest) /\ Cardinality(rest) \in Nat /\ Cardinality(rest) <= Cardinality(ids)
    BY <1>0, <1>1, FS_Subset, FS_CardinalityType DEF IsListing
  <2> QED
    BY <1>0, <1>1, <2>1 DEF IsListing
<1>4. ASSUME NEW q \in rest
      PROVE  /\ Rank(u, rest, q) <= Rank(t, ids, q) /\ Rank(t, ids, q) <= Rank(u, rest, q) + 1
             /\ Rank(t, ids, q) \in Nat /\ Rank(u, rest, q) \in Nat
  <2>1. \A p \in rest : t[p].key = u[p].key
    BY <1>0
  <2>2. /\ Rank(u, rest, q) <= Rank(t, rest \cup {r}, q)
        /\ Rank(t, rest \cup {r}, q) <= Rank(u, rest, q) + 1
        /\ Rank(u, rest, q) \in Nat /\ Rank(t, rest \cup {r}, q) \in Nat
    BY <1>3, <2>1, RankGrows
  <2> QED
    BY <1>3, <2>2
<1>5. /\ WalkTyped(v) /\ Depth(v) = Depth(w) /\ v.step = w.step /\ v.page = w.page
      /\ v.data = w.data /\ v.total = w.total /\ v.seen = w.seen
  <2>1. v.removed \in Nat /\ v.inserted \in Nat /\ v.late \in Nat /\ v.moved \in Nat
    BY <1>1, <1>2
  <2>2. /\ v.step = w.step /\ v.page = w.page /\ v.data = w.data /\ v.total = w.total
        /\ v.seen = w.seen
        /\ v = [step |-> v.step, list |-> v.list, scope |-> v.scope, page |-> v.page,
                data |-> v.data, total |-> v.total, seen |-> v.seen, stable |-> v.stable,
                removed |-> v.removed, inserted |-> v.inserted, late |-> v.late,
                moved |-> v.moved]
    BY <1>1 DEF WalkTyped
  <2> QED
    BY <1>1, <2>1, <2>2 DEF WalkTyped, Depth
<1>6. /\ v.stable \subseteq rest /\ v.stable \subseteq w.stable
      /\ v.stable \subseteq Lists!Untied(u, rest)
  BY <1>2 DEF Lists!Untied
<1>7. IsFiniteSet(slips) /\ Cardinality(slips) <= 1 /\ Cardinality(slips) \in Nat
  BY <1>0, OneIsNext
<1>8. ASSUME NEW q \in v.stable, q \notin slips, Rank(u, rest, q) <= Depth(w)
      PROVE  Rank(t, ids, q) <= Depth(w)
  <2>1. Rank(t, ids, q) # Depth(w) + 1
    BY <1>0, <1>6, <1>8 DEF NextRow
  <2>2. Rank(t, ids, q) <= Rank(u, rest, q) + 1 /\ Rank(t, ids, q) \in Nat
        /\ Rank(u, rest, q) \in Nat
    BY <1>4, <1>6
  <2> QED
    BY <1>1, <1>8, <2>1, <2>2
<1>9. ASSUME Unpushed(v), NEW q \in v.stable, Rank(t, ids, q) <= Depth(w)
      PROVE  Rank(u, rest, q) <= Depth(w)
  <2>1. Rank(u, rest, q) <= Rank(t, ids, q) /\ Rank(t, ids, q) \in Nat
        /\ Rank(u, rest, q) \in Nat
    BY <1>4, <1>6
  <2> QED
    BY <1>1, <1>9, <2>1
<1>10. (Unpushed(v) => Unpushed(w)) /\ ~Quiet(v)
  BY <1>1, <1>2 DEF Unpushed, Quiet
<1>11. /\ w.removed + w.moved + Cardinality(slips) <= v.removed + v.moved
       /\ Cardinality(rest) <= Cardinality(ids) + v.late - w.late /\ w.late <= v.late
  BY <1>1, <1>2, <1>3, <1>7
<1>12. GoodWalk(v, u, rest)
  BY <1>3, <1>5, <1>6, <1>7, <1>8, <1>9, <1>10, <1>11, WalkDisturbed
<1> QED
  BY <1>0, <1>12

\* The value a row is sorted by changes: it slips itself, or one other row does.
LEMMA RowMoves ==
  ASSUME NEW w, NEW t, NEW ids, GoodWalk(w, t, ids), w.step = "asking",
         NEW r \in ids, NEW u, \A q \in ids \ {r} : u[q].key = t[q].key,
         u[r].key \in Int, u[r].key # t[r].key, NEW v,
         v = [w EXCEPT !.stable = @ \cap Lists!Untied(u, ids),
                !.removed = @, !.inserted = @, !.late = @, !.moved = @ + 1]
  PROVE  GoodWalk(v, u, ids)
<1>0. PICK slips : slips = IF u[r].key < t[r].key THEN NextRow(w, t, ids) ELSE {r}
  OBVIOUS
<1>1. /\ WalkTyped(w) /\ IsListing(t, ids) /\ w.stable \subseteq ids /\ Cardinality(ids) \in Nat
      /\ w.late \in Nat /\ w.removed \in Nat /\ w.inserted \in Nat /\ w.moved \in Nat
      /\ Depth(w) \in Nat
  BY MissedAreListed DEF GoodWalk, WalkTyped
<1>2. /\ v.stable = w.stable \cap Lists!Untied(u, ids) /\ v.removed = w.removed
      /\ v.inserted = w.inserted /\ v.late = w.late /\ v.moved = w.moved + 1
  BY <1>1 DEF WalkTyped
<1>4. IsListing(u, ids)
  BY <1>1 DEF IsListing
<1>5. /\ WalkTyped(v) /\ Depth(v) = Depth(w) /\ v.step = w.step /\ v.page = w.page
      /\ v.data = w.data /\ v.total = w.total /\ v.seen = w.seen
  <2>1. v.removed \in Nat /\ v.inserted \in Nat /\ v.late \in Nat /\ v.moved \in Nat
    BY <1>1, <1>2
  <2>2. /\ v.step = w.step /\ v.page = w.page /\ v.data = w.data /\ v.total = w.total
        /\ v.seen = w.seen
        /\ v = [step |-> v.step, list |-> v.list, scope |-> v.scope, page |-> v.page,
                data |-> v.data, total |-> v.total, seen |-> v.seen, stable |-> v.stable,
                removed |-> v.removed, inserted |-> v.inserted, late |-> v.late,
                moved |-> v.moved]
    BY <1>1 DEF WalkTyped
  <2> QED
    BY <1>1, <2>1, <2>2 DEF WalkTyped, Depth
<1>6. /\ v.stable \subseteq ids /\ v.stable \subseteq w.stable
      /\ v.stable \subseteq Lists!Untied(u, ids)
  BY <1>1, <1>2
<1>7. IsFiniteSet(slips) /\ Cardinality(slips) <= 1 /\ Cardinality(slips) \in Nat
  <2>1. IsFiniteSet({r}) /\ Cardinality({r}) = 1
    BY FS_Singleton
  <2>2. CASE slips = {r}
    BY <2>1, <2>2
  <2>3. CASE slips = NextRow(w, t, ids)
    BY <2>3, OneIsNext
  <2> QED
    BY <1>0, <2>2, <2>3
<1>8. ASSUME NEW q \in v.stable, q \notin slips, Rank(u, ids, q) <= Depth(w)
      PROVE  Rank(t, ids, q) <= Depth(w)
  <2>1. CASE u[r].key < t[r].key
    <3>1. Rank(t, ids, q) \in Nat /\ Rank(u, ids, q) \in Nat
          /\ (Rank(t, ids, q) <= Rank(u, ids, q) \/ Rank(t, ids, q) <= Rank(u, ids, q) + 1)
      BY <1>1, <1>4, <1>6, <2>1, RankOfLowered
    <3>2. Rank(t, ids, q) # Depth(w) + 1
      BY <1>0, <1>6, <1>8, <2>1 DEF NextRow
    <3> QED
      BY <1>1, <1>8, <3>1, <3>2
  <2>2. CASE ~(u[r].key < t[r].key)
    <3>1. t[r].key < u[r].key /\ q # r /\ q \in ids
      BY <1>0, <1>1, <1>6, <1>8, <2>2 DEF IsListing
    <3>2. /\ Rank(t, ids, q) \in Nat /\ Rank(u, ids, q) \in Nat
          /\ Rank(t, ids, q) <= Rank(u, ids, q)
      BY <1>1, <1>4, <3>1, RankOfRaised
    <3> QED
      BY <1>1, <1>8, <3>2
  <2> QED
    BY <2>1, <2>2
<1>9. ~Unpushed(v) /\ ~Quiet(v)
  BY <1>1, <1>2 DEF Unpushed, Quiet
<1>10. /\ w.removed + w.moved + Cardinality(slips) <= v.removed + v.moved
       /\ Cardinality(ids) <= Cardinality(ids) + v.late - w.late /\ w.late <= v.late
  BY <1>1, <1>2, <1>7
<1> QED
  BY <1>4, <1>5, <1>6, <1>7, <1>8, <1>9, <1>10, WalkDisturbed

\* A write that leaves the listing and its keys as they are.
LEMMA RowStays ==
  ASSUME NEW w, NEW t, NEW ids, GoodWalk(w, t, ids),
         NEW u, \A q \in ids : u[q].key = t[q].key
  PROVE  GoodWalk(w, u, ids) /\ w.stable \cap Lists!Untied(u, ids) = w.stable
<1>1. /\ IsListing(u, ids) /\ Lists!Untied(u, ids) = Lists!Untied(t, ids)
      /\ w.stable \subseteq Lists!Untied(t, ids) /\ w.stable \subseteq ids
  BY MissedAreListed DEF GoodWalk, IsListing, Lists!Untied
<1>2. \A q \in ids : Rank(u, ids, q) = Rank(t, ids, q)
  BY DEF Rank, NoLater
<1>3. Slipped(w, u, ids) = Slipped(w, t, ids)
  BY <1>1, <1>2 DEF Slipped, Missed
<1>4. \A q \in w.stable : Rank(u, ids, q) = Rank(t, ids, q)
  BY <1>1, <1>2
<1>5. GoodWalk(w, u, ids)
  BY <1>1, <1>3, <1>4 DEF GoodWalk
<1> QED
  BY <1>1, <1>5

-----------------------------------------------------------------------------
(* The invariant *)

ListedTable ==
  /\ listed = [r \in ListedIds |-> listed[r]]
  /\ IsFiniteSet({r \in ListedIds : listed[r] # NoRow})
  /\ \A r \in ListedIds : listed[r] # NoRow => ListRow(listed[r])
ListsInv ==
  /\ ListedTable
  /\ walk # Lists!Idle =>
       GoodWalk(walk, listed, Lists!Listed(listed, walk.list, walk.scope))

LEMMA ListedAreFinite ==
  ASSUME ListedTable, NEW list, NEW scope
  PROVE  IsListing(listed, Lists!Listed(listed, list, scope))
<1>1. Lists!Listed(listed, list, scope) \subseteq {r \in ListedIds : listed[r] # NoRow}
  BY DEF Lists!Listed
<1>2. \A r \in Lists!Listed(listed, list, scope) : listed[r].key \in Int
  BY <1>1 DEF ListedTable, ListRow
<1>3. IsFiniteSet(Lists!Listed(listed, list, scope))
  BY <1>1, FS_Subset DEF ListedTable
<1> QED
  BY <1>1, <1>2, <1>3 DEF IsListing

LEMMA ListsInit == Lists!Init => ListsInv
  BY ListsAssumption DEF Lists!Init, ListsInv, ListedTable

LEMMA BeginStep ==
  ASSUME ListsInv, NEW list, NEW scope, Lists!Begin(list, scope)
  PROVE  ListsInv'
<1>1. PICK t, ids : t = listed /\ ids = Lists!Listed(listed, list, scope)
  OBVIOUS
<1>2. /\ walk' = [step |-> "asking", list |-> list, scope |-> scope,
                  page |-> Lists!PageOf(Lists!Query), data |-> NoData, total |-> NoData,
                  seen |-> [r \in ListedIds |-> 0], stable |-> Lists!Untied(t, ids),
                  removed |-> 0, inserted |-> 0, late |-> 0, moved |-> 0]
      /\ listed' = listed
  BY <1>1 DEF Lists!Begin
<1>3. ListedTable /\ ListedTable' /\ IsListing(t, ids)
  BY <1>1, <1>2, ListedAreFinite DEF ListsInv, ListedTable
<1>4. PICK w : w = walk'
  OBVIOUS
<1>5. GoodWalk(w, t, ids)
  BY <1>2, <1>3, <1>4, WalkBegins
<1>6. Lists!Listed(listed, walk.list, walk.scope)' = ids
  BY <1>1, <1>2 DEF Lists!Listed
<1> QED
  BY <1>1, <1>2, <1>3, <1>4, <1>5, <1>6 DEF ListsInv

\* A step of a walk, as a step from one record to another.
LEMMA WalkStep ==
  ASSUME ListsInv, UNCHANGED listed, walk'.list = walk.list, walk'.scope = walk.scope,
         NEW v, v = walk',
         GoodWalk(v, listed, Lists!Listed(listed, walk.list, walk.scope))
  PROVE  ListsInv'
<1>1. Lists!Listed(listed, walk.list, walk.scope)' = Lists!Listed(listed, walk.list, walk.scope)
  BY DEF Lists!Listed
<1>2. ListedTable'
  BY DEF ListsInv, ListedTable
<1> QED
  BY <1>1, <1>2 DEF ListsInv

\* What a request writes is a row of the same kind, or none.
LEMMA WrittenAreRows ==
  ASSUME ListsInv, NEW r \in ListedIds,
         (\E row \in Lists!Written : Lists!Create(r, row) \/ Lists!Update(r, row))
           \/ Lists!Delete(r) \/ Lists!SetDeleted(r)
  PROVE  \E row : (row # NoRow => ListRow(row)) /\ Lists!Write(r, row)
<1>1. \A q \in ListedIds : listed[q] # NoRow => ListRow(listed[q])
  BY DEF ListsInv, ListedTable
<1>2. ASSUME NEW row \in Lists!Written
      PROVE  ListRow(row) /\ ListRow([row EXCEPT !.deleted = FALSE])
  <2>1. PICK q \in ListedIds, key \in SortValues :
          listed[q] # NoRow /\ row = [listed[q] EXCEPT !.key = key]
    BY DEF Lists!Written, Lists!Likes
  <2>2. PICK old : old = listed[q]
    OBVIOUS
  <2>3. ListRow(old) /\ row = [old EXCEPT !.key = key] /\ key \in Int
    BY <1>1, <2>1, <2>2, ListsAssumption
  <2>4. ListRow(row)
    BY <2>3 DEF ListRow
  <2>5. PICK no, new : no = FALSE /\ new = [row EXCEPT !.deleted = no]
    OBVIOUS
  <2>6. ListRow(new)
    BY <2>4, <2>5 DEF ListRow
  <2> QED
    BY <2>4, <2>5, <2>6
<1>3. ASSUME NEW row \in Lists!Written, Lists!Create(r, row) \/ Lists!Update(r, row)
      PROVE  \E new : (new # NoRow => ListRow(new)) /\ Lists!Write(r, new)
  BY <1>2, <1>3 DEF Lists!Create, Lists!Update
<1>4. CASE Lists!Delete(r)
  BY <1>4 DEF Lists!Delete
<1>5. CASE Lists!SetDeleted(r)
  <2>1. PICK old : old = listed[r]
    OBVIOUS
  <2>2. ListRow(old) /\ Lists!Write(r, [old EXCEPT !.deleted = ~@])
    BY <1>1, <1>5, <2>1 DEF Lists!SetDeleted
  <2>3. ListRow([old EXCEPT !.deleted = ~@])
    BY <2>2 DEF ListRow
  <2> QED
    BY <2>2, <2>3
<1> QED
  BY <1>3, <1>4, <1>5

LEMMA ListedWriteStep ==
  ASSUME ListsInv, NEW r \in ListedIds, NEW row, row # NoRow => ListRow(row),
         Lists!Write(r, row)
  PROVE  ListsInv'
<1>1. PICK w, t, list, scope : /\ w = walk /\ t = listed
                               /\ list = walk.list /\ scope = walk.scope
  OBVIOUS
<1>2. PICK ids : ids = Lists!Listed(t, list, scope)
  OBVIOUS
<1>3. PICK u : u = [t EXCEPT ![r] = row]
  OBVIOUS
<1>4. PICK now : now = Lists!Listed(u, list, scope)
  OBVIOUS
<1>5. PICK v : v = walk'
  OBVIOUS
<1> DEFINE was == r \in ids
           is == r \in now
           counted == w.total # NoData /\ w.data = NoData
           changed == row.key # t[r].key
<1>6. /\ w.step = "asking" /\ listed' = u
      /\ v = [w EXCEPT !.stable = @ \cap Lists!Untied(u, now),
                !.removed = IF was /\ ~is THEN @ + 1 ELSE @,
                !.inserted = IF is /\ ~was THEN @ + 1 ELSE @,
                !.late = IF is /\ ~was /\ counted THEN @ + 1 ELSE @,
                !.moved = IF was /\ is /\ changed THEN @ + 1 ELSE @]
  BY <1>1, <1>2, <1>3, <1>4, <1>5 DEF Lists!Write, Lists!Asking
<1>7. GoodWalk(w, t, ids) /\ WalkTyped(w)
  <2>1. walk # Lists!Idle
    BY <1>1, <1>6 DEF Lists!Idle
  <2> QED
    BY <1>1, <1>2, <2>1 DEF ListsInv, GoodWalk
<1>8. /\ t = [q \in ListedIds |-> t[q]] /\ IsFiniteSet({q \in ListedIds : t[q] # NoRow})
      /\ \A q \in ListedIds : t[q] # NoRow => ListRow(t[q])
  BY <1>1 DEF ListsInv, ListedTable
<1>9. /\ \A q \in ListedIds : u[q] = IF q = r THEN row ELSE t[q]
      /\ u = [q \in ListedIds |-> u[q]]
  BY <1>3, <1>8
<1>10. ListedTable'
  <2>1. {q \in ListedIds : u[q] # NoRow} \subseteq {q \in ListedIds : t[q] # NoRow} \cup {r}
    BY <1>9
  <2>2. IsFiniteSet({q \in ListedIds : t[q] # NoRow} \cup {r})
    BY <1>8, FS_AddElement
  <2>3. IsFiniteSet({q \in ListedIds : u[q] # NoRow})
    BY <2>1, <2>2, FS_Subset
  <2>4. \A q \in ListedIds : u[q] # NoRow => ListRow(u[q])
    BY <1>8, <1>9
  <2> QED
    BY <1>6, <1>9, <2>3, <2>4 DEF ListedTable
<1>11. /\ ids = {q \in ListedIds : t[q] # NoRow /\ Lists!Where(list, t[q], scope)}
       /\ now = {q \in ListedIds : u[q] # NoRow /\ Lists!Where(list, u[q], scope)}
  BY <1>2, <1>4 DEF Lists!Listed
<1>12. /\ now = IF is THEN ids \cup {r} ELSE ids \ {r}
       /\ \A q \in ids \ {r} : u[q].key = t[q].key
       /\ is => row # NoRow /\ u[r].key = row.key
  BY <1>9, <1>11
<1>13. is => u[r].key \in Int
  BY <1>12 DEF ListRow
<1> HIDE DEF was, is
<1>14. GoodWalk(v, u, now)
  <2>1. CASE was /\ ~is
    <3>1. now = ids \ {r} /\ r \in ids
      BY <1>12, <2>1 DEF was
    <3>2. v = [w EXCEPT !.stable = @ \cap Lists!Untied(u, ids \ {r}),
                 !.removed = @ + 1, !.inserted = @, !.late = @, !.moved = @]
      BY <1>6, <2>1, <3>1
    <3>3. GoodWalk(v, u, ids \ {r})
      BY <1>6, <1>7, <1>12, <3>1, <3>2, RowLeaves
    <3> QED
      BY <3>1, <3>3
  <2>2. CASE is /\ ~was
    <3>1. now = ids \cup {r} /\ r \notin ids /\ \A q \in ids : u[q].key = t[q].key
      BY <1>12, <2>2 DEF was
    <3>2. v = [w EXCEPT !.stable = @ \cap Lists!Untied(u, ids \cup {r}),
                 !.removed = @, !.inserted = @ + 1,
                 !.late = IF w.total # NoData /\ w.data = NoData THEN @ + 1 ELSE @,
                 !.moved = @]
      BY <1>6, <2>2, <3>1
    <3> QED
      BY <1>6, <1>7, <1>13, <2>2, <3>1, <3>2, RowComes
  <2>3. CASE was /\ is /\ changed
    <3>1. now = ids /\ r \in ids /\ u[r].key # t[r].key /\ u[r].key \in Int
      BY <1>12, <1>13, <2>3 DEF was
    <3>2. v = [w EXCEPT !.stable = @ \cap Lists!Untied(u, ids),
                 !.removed = @, !.inserted = @, !.late = @, !.moved = @ + 1]
      BY <1>6, <2>3, <3>1
    <3>3. GoodWalk(v, u, ids)
      <4>1. GoodWalk(w, t, ids) /\ w.step = "asking" /\ \A q \in ids \ {r} : u[q].key = t[q].key
        BY <1>6, <1>7, <1>12
      <4> QED
        BY <3>1, <3>2, <4>1, RowMoves
    <3> QED
      BY <3>1, <3>3
  <2>4. CASE (was /\ is /\ ~changed) \/ (~was /\ ~is)
    <3>1. now = ids /\ \A q \in ids : u[q].key = t[q].key
      BY <1>12, <2>4 DEF was
    <3>2. GoodWalk(w, u, ids) /\ w.stable \cap Lists!Untied(u, ids) = w.stable
      BY <1>7, <3>1, RowStays
    <3>3. v = w
      BY <1>6, <1>7, <2>4, <3>1, <3>2 DEF WalkTyped
    <3> QED
      BY <3>1, <3>2, <3>3
  <2> QED
    BY <2>1, <2>2, <2>3, <2>4
<1>15. v.list = list /\ v.scope = scope
  BY <1>1, <1>6, <1>7 DEF WalkTyped
<1>16. Lists!Listed(listed, walk.list, walk.scope)' = now
  BY <1>4, <1>5, <1>6, <1>15 DEF Lists!Listed
<1> QED
  BY <1>5, <1>6, <1>10, <1>14, <1>16 DEF ListsInv

LEMMA ListsStep == ListsInv /\ [Lists!Next]_lists => ListsInv'
<1> SUFFICES ASSUME ListsInv, [Lists!Next]_lists PROVE ListsInv'
  OBVIOUS
<1>1. PICK w, t, ids : /\ w = walk /\ t = listed
                       /\ ids = Lists!Listed(listed, walk.list, walk.scope)
  OBVIOUS
<1>2. w.step = "asking" => GoodWalk(w, t, ids) /\ WalkTyped(w)
  BY <1>1 DEF ListsInv, Lists!Idle, GoodWalk
<1>3. CASE UNCHANGED lists
  BY <1>3 DEF lists, ListsInv, ListedTable, Lists!Listed
<1>4. ASSUME NEW list, NEW scope, Lists!Begin(list, scope) PROVE ListsInv'
  BY <1>4, BeginStep
<1>5. CASE Lists!FindMany
  <2>1. PICK order \in Lists!Orders(ids) :
          walk' = [w EXCEPT !.data = Lists!PageRows(order, w.page),
                     !.seen = [r \in ListedIds |->
                       IF r \in Lists!PageRows(order, w.page) THEN @[r] + 1 ELSE @[r]]]
    <3>1. PICK order \in Lists!Orders(Lists!Listed(listed, walk.list, walk.scope)) :
            LET data == Lists!PageRows(order, walk.page) IN
            walk' = [walk EXCEPT !.data = data,
                       !.seen = [r \in ListedIds |-> IF r \in data THEN @[r] + 1 ELSE @[r]]]
      BY <1>5 DEF Lists!FindMany
    <3>2. order \in Lists!Orders(ids)
      BY <1>1, <3>1
    <3>3. walk' = [w EXCEPT !.data = Lists!PageRows(order, w.page),
                     !.seen = [r \in ListedIds |->
                       IF r \in Lists!PageRows(order, w.page) THEN @[r] + 1 ELSE @[r]]]
      BY <1>1, <3>1
    <3> QED
      BY <3>2, <3>3
  <2>2. w.step = "asking" /\ w.data = NoData /\ listed' = listed
    BY <1>1, <1>5 DEF Lists!FindMany, Lists!Asking
  <2>3. PICK v : v = walk'
    OBVIOUS
  <2>4. GoodWalk(v, t, ids)
    <3>1. /\ GoodWalk(w, t, ids) /\ t = listed /\ w.step = "asking" /\ w.data = NoData
          /\ v = [w EXCEPT !.data = Lists!PageRows(order, w.page),
                    !.seen = [r \in ListedIds |->
                      IF r \in Lists!PageRows(order, w.page) THEN @[r] + 1 ELSE @[r]]]
      BY <1>1, <1>2, <2>1, <2>2, <2>3
    <3> QED
      BY <3>1, PageIsRead
  <2>5. walk'.list = walk.list /\ walk'.scope = walk.scope
    BY <1>1, <1>2, <2>1, <2>2 DEF WalkTyped
  <2> QED
    BY <1>1, <2>2, <2>3, <2>4, <2>5, WalkStep
<1>6. CASE Lists!Count
  <2>1. /\ walk' = [w EXCEPT !.total = Cardinality(ids)] /\ listed' = listed
        /\ w.step = "asking" /\ w.total = NoData
    BY <1>1, <1>6, SameCount DEF Lists!Count, Lists!Asking
  <2>2. PICK v : v = walk'
    OBVIOUS
  <2>3. GoodWalk(v, t, ids)
    BY <1>2, <2>1, <2>2, RowsAreCounted
  <2>4. walk'.list = walk.list /\ walk'.scope = walk.scope
    BY <1>1, <1>2, <2>1 DEF WalkTyped
  <2> QED
    BY <1>1, <2>1, <2>2, <2>3, <2>4, WalkStep
<1>7. CASE Lists!Answer
  <2>1. /\ walk' = IF Last(w.page) < w.total
                   THEN [w EXCEPT !.page = @ + 1, !.data = NoData, !.total = NoData]
                   ELSE [w EXCEPT !.step = "ended"]
        /\ listed' = listed /\ w.step = "asking" /\ w.data # NoData /\ w.total # NoData
    <3>1. /\ w.step = "asking" /\ w.data # NoData /\ w.total # NoData
          /\ walk' = IF Lists!HasNext(w.page, w.total)
                     THEN [w EXCEPT !.page = @ + 1, !.data = NoData, !.total = NoData]
                     ELSE [w EXCEPT !.step = "ended"]
          /\ listed' = listed
      BY <1>1, <1>7 DEF Lists!Answer, Lists!Asking
    <3>2. w.page \in Nat \ {0} /\ w.total \in Nat
      BY <1>2, <3>1 DEF WalkTyped
    <3>3. Lists!HasNext(w.page, w.total) <=> Last(w.page) < w.total
      BY <3>2, NextPageIsNeeded DEF Lists!HasNext
    <3> QED
      BY <3>1, <3>3
  <2>2. PICK v : v = walk'
    OBVIOUS
  <2>3. GoodWalk(v, t, ids)
    BY <1>2, <2>1, <2>2, WalkGoesOn, WalkEnds
  <2>4. walk'.list = walk.list /\ walk'.scope = walk.scope
    BY <1>1, <1>2, <2>1 DEF WalkTyped
  <2> QED
    BY <1>1, <2>1, <2>2, <2>3, <2>4, WalkStep
<1>8. ASSUME NEW r \in ListedIds,
             (\E row \in Lists!Written : Lists!Create(r, row) \/ Lists!Update(r, row))
               \/ Lists!Delete(r) \/ Lists!SetDeleted(r)
      PROVE  ListsInv'
  BY <1>8, WrittenAreRows, ListedWriteStep
<1> QED
  BY <1>3, <1>4, <1>5, <1>6, <1>7, <1>8 DEF Lists!Next

\* Every listing: whatever the rows, the values they are sorted by, the order the
\* database gives to ties, the size of a page and the writes meanwhile, a walk
\* misses no more of the rows that were listed all the time and tied with no
\* other than rows left the listing, came between a count and its page, or had
\* the value they are sorted by changed; shows one of them again only when
\* another came or such a value changed; and when the listing does not change,
\* ends with the page of the last row, having shown each of them once.
THEOREM WalksErrOnlyByWrites == Lists!Spec => []WalksErrBoundedly
<1>1. ListsInv => WalksErrBoundedly
  <2> SUFFICES ASSUME ListsInv PROVE WalksErrBoundedly
    OBVIOUS
  <2>1. PICK w, t, ids : /\ w = walk /\ t = listed
                         /\ ids = Lists!Listed(listed, walk.list, walk.scope)
    OBVIOUS
  <2>2. w.step \in {"asking", "ended"} => GoodWalk(w, t, ids) /\ WalkTyped(w)
    BY <2>1 DEF ListsInv, Lists!Idle, GoodWalk
  <2>3. Lists!MissedBounded
    <3> SUFFICES ASSUME w.step = "ended"
                 PROVE  Cardinality(Missed(w)) <= w.removed + w.late + w.moved
      BY <2>1, SameCount DEF Lists!MissedBounded, Missed
    <3> QED
      BY <2>2 DEF GoodWalk, WalkTyped
  <2>4. Lists!RepeatsBounded
    <3> SUFFICES ASSUME w.step = "asking", NEW r \in w.stable, w.seen[r] > 1
                 PROVE  w.inserted > 0 \/ w.moved > 0
      BY <2>1 DEF Lists!RepeatsBounded, Lists!Asking
    <3>1. w.seen[r] \in Nat /\ w.inserted \in Nat /\ w.moved \in Nat
      BY <2>2, MissedAreListed DEF WalkTyped
    <3> QED
      BY <2>2, <3>1 DEF GoodWalk, Unpushed
  <2>5. Lists!QuietWalkIsExact
    <3> SUFFICES ASSUME w.step = "ended", w.removed = 0, w.inserted = 0, w.moved = 0
                 PROVE  LET total == Cardinality(ids) IN
                        /\ total = 0 => w.page = 1
                        /\ total > 0 => Last(w.page - 1) < total /\ total <= Last(w.page)
                        /\ \A r \in Lists!Untied(t, ids) : w.seen[r] = 1
                        /\ \A r \in ListedIds \ ids : w.seen[r] = 0
      BY <2>1, SameCount DEF Lists!QuietWalkIsExact, Last
    <3>1. /\ w.total = Cardinality(ids) /\ w.data # NoData
          /\ \A r \in Lists!Untied(t, ids) :
               w.seen[r] = IF Rank(t, ids, r) <= Last(w.page) THEN 1 ELSE 0
          /\ \A r \in ListedIds \ ids : w.seen[r] = 0
          /\ w.page = 1 \/ Last(w.page - 1) < Cardinality(ids)
          /\ w.total <= Last(w.page) /\ IsListing(t, ids) /\ w.page \in Nat \ {0}
      BY <2>2 DEF GoodWalk, WalkTyped, Quiet, Unpushed, Depth
    <3>2. /\ Cardinality(ids) \in Nat /\ Last(w.page) \in Nat /\ Last(w.page - 1) \in Nat
          /\ Last(0) = 0
      BY <3>1, LastGrows, FS_CardinalityType DEF IsListing
    <3>3. \A r \in Lists!Untied(t, ids) : Rank(t, ids, r) <= Last(w.page)
      <4>1. Lists!Untied(t, ids) \subseteq ids
        BY DEF Lists!Untied
      <4> QED
        BY <3>1, <3>2, <4>1, RankIsNumber
    <3> QED
      BY <3>1, <3>2, <3>3
  <2> QED
    BY <2>3, <2>4, <2>5 DEF WalksErrBoundedly, Lists!WalksErrBoundedly
<1> QED
  BY <1>1, ListsInit, ListsStep, PTL DEF Lists!Spec, Lists!vars, lists
=============================================================================
