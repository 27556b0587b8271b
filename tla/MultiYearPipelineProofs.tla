---------------------- MODULE MultiYearPipelineProofs ----------------------
(***************************************************************************)
(* Theorems about MultiYearPipeline, for every number of runs and of years *)
(* and every set of configurations and setups.                             *)
(*                                                                         *)
(* Everything a step of a year writes is made of the run's own number, of  *)
(* what the tables hold up to that year and of what the projections show.  *)
(* So a set that holds those three holds what is written (BuildKeeps), and *)
(* each theorem chooses the set: all runs, the runs a record accounts for, *)
(* the runs a clean year may contain.                                      *)
(***************************************************************************)
EXTENDS MultiYearPipeline, TLAPS

Builds ==
  \/ Purge \/ Project \/ Foundation \/ Generate \/ OpenAccumulation
  \/ BuildWorkforce \/ BuildBenefits \/ BuildSnapshot \/ EndYear

RowType        == [Tables -> [Years -> SUBSET Runs]]
ProjectionType == [workforce : SUBSET Runs, enrollment : SUBSET Runs]

\* The tables hold nothing but S in these years.
Within(S, years) == \A t \in Tables, y \in years : rows[t][y] \subseteq S

\* So do the projections, where a build is about to read them.
Fresh(S) ==
  phase \in {"foundation", "generating"} /\ ~request.dry =>
    projection.workforce \subseteq S /\ projection.enrollment \subseteq S

\* A run is at one of its years, at the last one when it has completed.
Position ==
  /\ phase # "idle" => year \in request.from..request.to
  /\ phase = "complete" => year = request.to

----------------------------------------------------------------------------
(* What the builds read *)

LEMMA YearsAreNaturals ==
  /\ FirstYear \in Years
  /\ \A y \in Years : y \in Nat /\ FirstYear <= y /\ y <= LastYear
  BY PipelineAssumption DEF Years

LEMMA YearsUpTo == \A y \in Years : FirstYear..y \subseteq Years
  BY PipelineAssumption DEF Years

LEMMA RowsAreRuns ==
  ASSUME TypeOK
  PROVE  Within(Runs, Years) /\ Within(Runs, FirstYear..year)
  BY YearsUpTo DEF TypeOK, Within

LEMMA PriorWithin ==
  ASSUME TypeOK, NEW S, Within(S, FirstYear..year), NEW t \in Tables
  PROVE  Prior(t) \subseteq S
  BY YearsAreNaturals DEF TypeOK, Within, Prior, IsFirstYear, Years

LEMMA BaselineWithin ==
  ASSUME TypeOK, NEW S, Within(S, FirstYear..year)
  PROVE  rows["baseline"][FirstYear] \subseteq S
  BY YearsAreNaturals DEF TypeOK, Within, Tables, Years

LEMMA EarlierEventsWithin ==
  ASSUME TypeOK, NEW S, Within(S, FirstYear..year)
  PROVE  EarlierEvents \subseteq S
  <1>1. \A y \in FirstYear..(year - 1) : rows["events"][y] \subseteq S
    BY YearsAreNaturals DEF TypeOK, Within, Tables, Years
  <1>2. QED
    BY <1>1 DEF EarlierEvents

LEMMA DecisionWithin ==
  ASSUME TypeOK, NEW S, Within(S, FirstYear..year)
  PROVE  EnrollmentDecision \subseteq S
  <1>1. Prior("benefits") \subseteq S
    BY PriorWithin DEF Tables
  <1>2. QED
    BY <1>1, EarlierEventsWithin, BaselineWithin DEF EnrollmentDecision

LEMMA InputsWithin ==
  ASSUME TypeOK, NEW S, n \in S, Within(S, FirstYear..year),
         projection.workforce \subseteq S, projection'.enrollment \subseteq S
  PROVE  EventInputs \subseteq S
  <1>1. Prior("benefits") \subseteq S
    BY PriorWithin DEF Tables
  <1>2. rows["needs"][year] \subseteq S
    BY YearsAreNaturals DEF TypeOK, Within, Tables, Years
  <1>3. QED
    BY <1>1, <1>2, BaselineWithin, EarlierEventsWithin DEF EventInputs

\* What a step writes into a table's rows of this year.
LEMMA HoldsWithin ==
  ASSUME TypeOK, NEW S, NEW years, Within(S, years),
         NEW t \in Tables, NEW origins, origins \subseteq S,
         Holds(t, origins)
  PROVE  Within(S, years)'
  BY DEF TypeOK, Within, Holds

LEMMA WithoutWithin ==
  ASSUME NEW S, NEW years \in SUBSET Years, Within(S, years),
         NEW tables, NEW cleared, rows' = Without(tables, cleared)
  PROVE  Within(S, years)'
  BY DEF Within, Without

LEMMA FirstFoundationWithin ==
  ASSUME TypeOK, NEW S, n \in S, NEW years \in SUBSET Years,
         Within(S, years), BuildFirstFoundation
  PROVE  Within(S, years)'
  BY DEF TypeOK, Within, BuildFirstFoundation, Tables

LEMMA CalibratedFoundationWithin ==
  ASSUME TypeOK, NEW S, n \in S, NEW years \in SUBSET Years,
         FirstYear..year \subseteq years,
         Within(S, years), RebuildFirstFoundation
  PROVE  Within(S, years)'
  <1>1. year \in years
    BY YearsAreNaturals DEF TypeOK, Years
  <1>2. PICK baseline \in Leftovers("baseline"), needs \in Leftovers("needs") :
          rows' = [rows EXCEPT !["baseline"][year] = baseline \cup {n},
                               !["needs"][year] = UNION {needs, baseline, {n}}]
    BY DEF RebuildFirstFoundation
  <1>3. baseline \subseteq S /\ needs \subseteq S
    BY <1>1 DEF Leftovers, Within, Tables
  <1>4. QED
    BY <1>2, <1>3 DEF TypeOK, Within, Tables

LEMMA LaterFoundationWithin ==
  ASSUME TypeOK, NEW S, n \in S, NEW years \in SUBSET Years,
         FirstYear..year \subseteq years, Within(S, years),
         projection.workforce \subseteq S, projection.enrollment \subseteq S,
         BuildLaterFoundation
  PROVE  Within(S, years)'
  <1>1. year \in years
    BY YearsAreNaturals DEF TypeOK, Years
  <1>2. PICK left \in Leftovers("needs") :
          Holds("needs", left \cup IF projection.workforce = {} THEN {}
                                   ELSE UNION {{n}, projection.workforce,
                                               projection.enrollment})
    BY DEF BuildLaterFoundation
  <1>3. left \subseteq S
    BY <1>1 DEF Leftovers, Within, Tables
  <1>4. QED
    BY <1>2, <1>3, HoldsWithin DEF Tables

(* A set that holds the run, what the tables hold up to this year and what *)
(* is read of the projections holds what a step of the year writes.        *)
LEMMA BuildKeeps ==
  ASSUME TypeOK, NEW S, n \in S, NEW years \in SUBSET Years,
         FirstYear..year \subseteq years, Within(S, years), Fresh(S), Builds
  PROVE  Within(S, years)' /\ Fresh(S)'
  <1>1. year \in years /\ Within(S, FirstYear..year)
    BY YearsAreNaturals DEF TypeOK, Years, Within
  <1>2. \A t \in Tables : rows[t][year] \subseteq S
    BY <1>1 DEF Within
  <1>3. CASE Purge
    BY <1>3, WithoutWithin DEF Purge, To, Fresh
  <1>4. CASE Project
    <2>1. Prior("workforce") \subseteq S /\ EnrollmentDecision \subseteq S
      BY <1>1, PriorWithin, DecisionWithin DEF Tables
    <2>2. QED
      BY <1>4, <2>1 DEF Project, To, Fresh, Within, database
  <1>5. CASE Foundation
    <2>1. Fresh(S)'
      BY <1>5 DEF Foundation, To, Fresh
    <2>2. CASE request.dry /\ UNCHANGED rows
      BY <2>1, <2>2 DEF Within
    <2>3. CASE ~request.dry /\ BuildFirstFoundation
      BY <2>1, <2>3, FirstFoundationWithin
    <2>4. CASE ~request.dry /\ RebuildFirstFoundation
      BY <2>1, <2>4, CalibratedFoundationWithin
    <2>5. CASE ~request.dry /\ BuildLaterFoundation
      <3>1. projection.workforce \subseteq S /\ projection.enrollment \subseteq S
        BY <1>5, <2>5 DEF Foundation, Fresh
      <3>2. QED
        BY <2>1, <2>5, <3>1, LaterFoundationWithin
    <2>6. QED
      BY <1>5, <2>2, <2>3, <2>4, <2>5 DEF Foundation
  <1>6. CASE Generate
    <2>1. Fresh(S)'
      BY <1>6 DEF Generate, To, Fresh
    <2>2. CASE request.dry /\ UNCHANGED <<rows, projection>>
      BY <2>1, <2>2 DEF Within
    <2>3. CASE ~request.dry /\ Simulates
      <3>1. projection' = [projection EXCEPT !.enrollment = EnrollmentDecision]
            /\ Holds("events", EventInputs)
            /\ projection.workforce \subseteq S
        BY <1>6, <2>3 DEF Generate, Fresh, Simulates, Calibrates
      <3>2. projection'.enrollment \subseteq S
        BY <1>1, <3>1, DecisionWithin DEF TypeOK
      <3>3. EventInputs \subseteq S
        BY <1>1, <3>1, <3>2, InputsWithin
      <3>4. QED
        BY <2>1, <3>1, <3>3, HoldsWithin DEF Tables
    <2>4. CASE ~request.dry /\ Calibrates
      <3>1. UNCHANGED projection
            /\ Holds("events", rows["events"][year] \cup EventInputs)
            /\ projection.workforce \subseteq S
            /\ projection.enrollment \subseteq S
        BY <1>6, <2>4 DEF Generate, Fresh, Simulates, Calibrates
      <3>2. EventInputs \subseteq S
        BY <1>1, <3>1, InputsWithin
      <3>3. rows["events"][year] \cup EventInputs \subseteq S
        BY <1>2, <3>2 DEF Tables
      <3>4. QED
        BY <2>1, <3>1, <3>3, HoldsWithin DEF Tables
    <2>5. request.dry => ~Calibrates
      BY <1>6 DEF Generate, TypeOK, Requests, NoRequest, Calibrates
    <2>6. QED
      BY <1>6, <2>2, <2>3, <2>4, <2>5 DEF Generate
  <1>7. CASE OpenAccumulation
    <2>1. Fresh(S)'
      BY <1>7 DEF OpenAccumulation, To, Fresh
    <2>2. CASE Simulates
      BY <1>7, <2>1, <2>2, WithoutWithin DEF OpenAccumulation
    <2>3. CASE ~Simulates
      BY <1>7, <2>1, <2>3 DEF OpenAccumulation, Within
    <2>4. QED
      BY <2>2, <2>3
  <1>8. CASE BuildWorkforce
    <2>1. UNION {{n}, rows["events"][year], BaselineOrPrior("workforce")}
            \subseteq S
      BY <1>1, <1>2, PriorWithin, BaselineWithin DEF BaselineOrPrior, Tables
    <2>2. QED
      BY <1>8, <2>1, HoldsWithin DEF BuildWorkforce, Model, Fresh, Tables
  <1>9. CASE BuildBenefits
    <2>1. PICK left \in Leftovers("benefits") :
            Holds("benefits", UNION {left, {n}, rows["events"][year],
                                     rows["needs"][year],
                                     BaselineOrPrior("benefits")})
      BY <1>9 DEF BuildBenefits
    <2>2. UNION {left, {n}, rows["events"][year], rows["needs"][year],
                 BaselineOrPrior("benefits")} \subseteq S
      BY <1>1, <1>2, PriorWithin, BaselineWithin
         DEF BaselineOrPrior, Leftovers, Tables
    <2>3. QED
      BY <1>9, <2>1, <2>2, HoldsWithin DEF BuildBenefits, Model, Fresh, Tables
  <1>10. CASE BuildSnapshot
    <2>1. PICK left \in Leftovers("snapshot") :
            Holds("snapshot", UNION {left, {n}, rows["workforce"][year],
                                     rows["benefits"][year],
                                     rows["events"][year], EarlierEvents,
                                     Prior("snapshot")})
      BY <1>10 DEF BuildSnapshot
    <2>2. UNION {left, {n}, rows["workforce"][year], rows["benefits"][year],
                 rows["events"][year], EarlierEvents, Prior("snapshot")}
            \subseteq S
      BY <1>1, <1>2, PriorWithin, EarlierEventsWithin DEF Leftovers, Tables
    <2>3. QED
      BY <1>10, <2>1, <2>2, HoldsWithin DEF BuildSnapshot, Model, Fresh, Tables
  <1>11. CASE EndYear
    BY <1>11 DEF EndYear, To, YearBegins, Simulates, Fresh, Within, database
  <1>12. QED
    BY <1>3, <1>4, <1>5, <1>6, <1>7, <1>8, <1>9, <1>10, <1>11 DEF Builds

----------------------------------------------------------------------------
(* Types *)

LEMMA WithoutShape ==
  ASSUME TypeOK, NEW tables, NEW cleared, rows' = Without(tables, cleared)
  PROVE  rows' \in RowType
  BY DEF TypeOK, Without, RowType

LEMMA HoldsShape ==
  ASSUME TypeOK, NEW t \in Tables, NEW origins \in SUBSET Runs, Holds(t, origins)
  PROVE  rows' \in RowType
  BY DEF TypeOK, Holds, RowType

\* The rows keep their type: what is written is made of runs.
LEMMA BuildRows ==
  ASSUME TypeOK, n \in Runs, Builds
  PROVE  rows' \in RowType
  <1>1. Fresh(Runs) /\ FirstYear..year \subseteq Years
    BY YearsUpTo DEF TypeOK, Fresh
  <1>2. Within(Runs, Years)'
    BY <1>1, RowsAreRuns, BuildKeeps
  <1>5. CASE UNCHANGED rows
    BY <1>5 DEF TypeOK, RowType
  <1>6. CASE Purge
    BY <1>6, WithoutShape DEF Purge
  <1>7. CASE Foundation
    <2>1. CASE BuildFirstFoundation
      BY <2>1, <1>7 DEF TypeOK, BuildFirstFoundation, RowType, Tables
    <2>2. CASE RebuildFirstFoundation
      BY <2>2, <1>2 DEF TypeOK, RebuildFirstFoundation, RowType, Within, Tables
    <2>3. CASE BuildLaterFoundation
      BY <2>3, <1>2 DEF TypeOK, BuildLaterFoundation, Holds, RowType, Within,
                        Tables
    <2>4. QED
      BY <1>5, <1>7, <2>1, <2>2, <2>3 DEF Foundation
  <1>8. CASE Generate
    BY <1>2, <1>5, <1>8 DEF Generate, TypeOK, Holds, RowType, Within, Tables
  <1>9. CASE OpenAccumulation
    BY <1>5, <1>9, WithoutShape DEF OpenAccumulation
  <1>10. CASE BuildWorkforce
    BY <1>2, <1>10 DEF BuildWorkforce, TypeOK, Holds, RowType, Within, Tables
  <1>11. CASE BuildBenefits
    BY <1>2, <1>11 DEF BuildBenefits, TypeOK, Holds, RowType, Within, Tables
  <1>12. CASE BuildSnapshot
    BY <1>2, <1>12 DEF BuildSnapshot, TypeOK, Holds, RowType, Within, Tables
  <1>13. QED
    BY <1>5, <1>6, <1>7, <1>8, <1>9, <1>10, <1>11, <1>12
       DEF Builds, Project, EndYear, database

LEMMA BuildProjection ==
  ASSUME TypeOK, n \in Runs, Builds
  PROVE  projection' \in ProjectionType
  <1>2. EnrollmentDecision \subseteq Runs /\ Prior("workforce") \subseteq Runs
    BY RowsAreRuns, DecisionWithin, PriorWithin DEF Tables
  <1>3. CASE Project
    BY <1>2, <1>3 DEF Project, TypeOK, ProjectionType
  <1>4. CASE Generate
    BY <1>2, <1>4 DEF Generate, TypeOK, ProjectionType
  <1>5. CASE UNCHANGED projection
    BY <1>5 DEF TypeOK, ProjectionType
  <1>6. QED
    BY <1>3, <1>4, <1>5
       DEF Builds, Purge, Foundation, OpenAccumulation, BuildWorkforce,
           BuildBenefits, BuildSnapshot, Model, EndYear

LEMMA InitType == Init => TypeOK /\ Position
  <1> SUFFICES ASSUME Init PROVE TypeOK /\ Position
    OBVIOUS
  <1>1. rows \in [Tables -> [Years -> SUBSET Runs]]
    BY DEF Init
  <1>2. projection \in [workforce : SUBSET Runs, enrollment : SUBSET Runs]
    BY DEF Init
  <1>3. n \in 0..MaxRuns /\ year \in Years
    BY PipelineAssumption, YearsAreNaturals DEF Init
  <1>4. QED
    BY <1>1, <1>2, <1>3 DEF Init, TypeOK, Position, Phases

LEMMA RequestIsValid ==
  ASSUME TypeOK, phase # "idle"
  PROVE  /\ request \in Requests
         /\ request.from \in Years /\ request.to \in Years
         /\ request.from <= request.to
         /\ request.kind \in {"simulate", "calibrate"}
         /\ request.setup \in Setups /\ request.config \in Configs
         /\ request.dry \in BOOLEAN
         /\ request.kind = "calibrate" => request.from = FirstYear /\ ~request.dry
  BY PipelineAssumption DEF TypeOK, Requests

LEMMA NextType == TypeOK /\ Position /\ [Next]_vars => TypeOK' /\ Position'
  <1> SUFFICES ASSUME TypeOK, Position, [Next]_vars PROVE TypeOK' /\ Position'
    OBVIOUS
  <1>1. CASE Begin
    <2>1. n' \in Runs /\ n' \in 0..MaxRuns
      BY <1>1, PipelineAssumption DEF Begin, TypeOK, Runs
    <2>2. request' \in Requests /\ request' # NoRequest
          /\ request'.from \in Years /\ request'.from \in request'.from..request'.to
      BY <1>1, PipelineAssumption DEF Begin, Requests, NoRequest, Years
    <2>3. phase' \in {"resetting", "stamping"}
      BY <1>1 DEF Begin, To
    <2>4. QED
      BY <1>1, <2>1, <2>2, <2>3
         DEF Begin, TypeOK, Position, Phases, database, provenance
  <1>2. CASE FullReset
    <2>1. rows' \in RowType
      BY <1>2, WithoutShape DEF FullReset, TypeOK, RowType
    <2>2. QED
      BY <1>2, <2>1 DEF FullReset, TypeOK, Position, RowType, Phases, To,
                        provenance
  <1>3. CASE Stamp
    <2>1. request.config \in Configs /\ n \in Runs
      BY <1>3, RequestIsValid DEF Stamp, TypeOK
    <2>2. QED
      BY <1>3, <2>1 DEF Stamp, TypeOK, Position, Phases, To, YearBegins,
                        database
  <1>4. CASE StampSkipped
    BY <1>4 DEF StampSkipped, TypeOK, Position, Phases, To, YearBegins, database
  <1>5. CASE Builds
    <2>1. n \in Runs
      BY <1>5 DEF Builds, Purge, Project, Foundation, Generate,
                  OpenAccumulation, BuildWorkforce, BuildBenefits,
                  BuildSnapshot, Model, EndYear, TypeOK
    <2>2. rows' \in RowType /\ projection' \in ProjectionType
      BY <1>5, <2>1, BuildRows, BuildProjection
    <2>3. CASE EndYear
      <3>1. year < request.to => year + 1 \in Years
                                 /\ year + 1 \in request.from..request.to
        BY <2>3, PipelineAssumption, RequestIsValid
           DEF EndYear, TypeOK, Position, Years
      <3>2. ~(year < request.to) => year = request.to
        BY <2>3, PipelineAssumption, RequestIsValid
           DEF EndYear, TypeOK, Position, Years
      <3>3. QED
        BY <2>3, <2>2, <3>1, <3>2
           DEF EndYear, TypeOK, Position, Phases, To, YearBegins, RowType,
               ProjectionType, database, provenance
    <2>4. CASE Purge \/ Project \/ Foundation \/ Generate \/ OpenAccumulation
      BY <2>4, <2>2
         DEF Purge, Project, Foundation, Generate, OpenAccumulation, TypeOK,
             Position, Phases, To, RowType, ProjectionType, database,
             provenance
    <2>5. CASE BuildWorkforce \/ BuildBenefits \/ BuildSnapshot
      BY <2>5, <2>2
         DEF BuildWorkforce, BuildBenefits, BuildSnapshot, Model, TypeOK,
             Position, RowType, ProjectionType, provenance
    <2>6. QED
      BY <1>5, <2>3, <2>4, <2>5 DEF Builds
  <1>6. CASE Fail
    BY <1>6 DEF Fail, Ended, TypeOK, Position, Phases, To, database, provenance
  <1>7. CASE Retune
    <2>1. request.from \in Years /\ request.from \in request.from..request.to
          /\ n \in Runs
      BY <1>7, RequestIsValid, PipelineAssumption DEF Retune, TypeOK, Years
    <2>2. QED
      BY <1>7, <2>1 DEF Retune, TypeOK, Position, Phases, To, database
  <1>8. CASE UNCHANGED vars
    BY <1>8 DEF vars, TypeOK, Position
  <1>9. QED
    BY <1>1, <1>2, <1>3, <1>4, <1>5, <1>6, <1>7, <1>8 DEF Next, Builds

(* Every variable has its type, and a run is always at one of its years.   *)
THEOREM PipelineTypeCorrect == Spec => []TypeOK /\ []Position
  <1>1. Init => TypeOK /\ Position
    BY InitType
  <1>2. TypeOK /\ Position /\ [Next]_vars => TypeOK' /\ Position'
    BY NextType
  <1>3. QED
    BY <1>1, <1>2, PTL DEF Spec

----------------------------------------------------------------------------
(* The years before the current one *)

LEMMA HoldsKeeps ==
  ASSUME TypeOK, NEW t \in Tables, NEW origins, Holds(t, origins),
         NEW u \in Tables, NEW y \in Years, y # year
  PROVE  rows'[u][y] = rows[u][y]
  BY DEF TypeOK, Holds

\* But for the full refresh of the first year, a build touches one year only.
LEMMA OtherYearsAreKept ==
  ASSUME TypeOK, Builds, ~(Foundation /\ BuildFirstFoundation),
         NEW u \in Tables, NEW y \in Years, y # year
  PROVE  rows'[u][y] = rows[u][y]
  <1>1. CASE UNCHANGED rows
    BY <1>1
  <1>2. CASE Purge
    BY <1>2 DEF Purge, Without
  <1>3. CASE Foundation
    <2>1. CASE RebuildFirstFoundation
      BY <2>1 DEF TypeOK, RebuildFirstFoundation, Tables
    <2>2. CASE BuildLaterFoundation
      BY <2>2, HoldsKeeps DEF BuildLaterFoundation, Tables
    <2>3. QED
      BY <1>1, <1>3, <2>1, <2>2 DEF Foundation
  <1>4. CASE Generate
    BY <1>1, <1>4, HoldsKeeps DEF Generate, Tables
  <1>5. CASE OpenAccumulation
    BY <1>1, <1>5 DEF OpenAccumulation, Without
  <1>6. CASE BuildWorkforce \/ BuildBenefits \/ BuildSnapshot
    BY <1>6, HoldsKeeps DEF BuildWorkforce, BuildBenefits, BuildSnapshot, Tables
  <1>7. QED
    BY <1>1, <1>2, <1>3, <1>4, <1>5, <1>6
       DEF Builds, Project, EndYear, database

LEMMA FirstFoundationIsFirst ==
  ASSUME TypeOK, Foundation, BuildFirstFoundation, ~IsFirstYear
  PROVE  \A u \in Tables, y \in Years : y < year => rows'[u][y] = rows[u][y]
  <1>1. CASE UNCHANGED rows
    BY <1>1
  <1>2. CASE BuildLaterFoundation
    BY <1>2, HoldsKeeps, YearsAreNaturals
       DEF BuildLaterFoundation, Tables, TypeOK
  <1>3. QED
    BY <1>1, <1>2 DEF Foundation

LEMMA BuildsKeepEarlierYears ==
  ASSUME TypeOK, Builds
  PROVE  \A u \in Tables, y \in FirstYear..(year - 1) : rows'[u][y] = rows[u][y]
  <1> SUFFICES ASSUME NEW u \in Tables, NEW y \in FirstYear..(year - 1)
               PROVE  rows'[u][y] = rows[u][y]
    OBVIOUS
  <1>1. y \in Years /\ y < year /\ ~IsFirstYear
    BY PipelineAssumption DEF TypeOK, Years, IsFirstYear
  <1>2. CASE Foundation /\ BuildFirstFoundation
    BY <1>1, <1>2, FirstFoundationIsFirst
  <1>3. CASE ~(Foundation /\ BuildFirstFoundation)
    <2>1. y # year
      BY <1>1, YearsAreNaturals DEF TypeOK
    <2>2. QED
      BY <1>1, <1>3, <2>1, OtherYearsAreKept
  <1>4. QED
    BY <1>2, <1>3

(* While a run builds, it never touches the years before the one it is at: *)
(* what its purge, the full refresh of FOUNDATION and the deletions of the *)
(* stages clear is of this year or later.                                  *)
THEOREM EarlierYearsStay == Spec => EarlierYearsAreKept
  <1>1. TypeOK /\ [Next]_vars =>
          [Stamped /\ ~Ended =>
             \A t \in Tables, y \in FirstYear..(year - 1) :
               rows'[t][y] = rows[t][y]]_vars
    <2> SUFFICES ASSUME TypeOK, [Next]_vars, Stamped, ~Ended,
                        NEW t \in Tables, NEW y \in FirstYear..(year - 1)
                 PROVE  rows'[t][y] = rows[t][y]
      OBVIOUS
    <2>1. CASE Builds
      BY <2>1, BuildsKeepEarlierYears
    <2>2. CASE Fail
      BY <2>2 DEF Fail, database
    <2>3. CASE UNCHANGED vars
      BY <2>3 DEF vars
    <2>4. ~(Begin \/ FullReset \/ Stamp \/ StampSkipped \/ Retune)
      BY DEF Begin, FullReset, Stamp, StampSkipped, Retune, Stamped, Ended
    <2>5. QED
      BY <2>1, <2>2, <2>3, <2>4 DEF Next, Builds
  <1>2. QED
    BY <1>1, PipelineTypeCorrect, PTL DEF Spec, EarlierYearsAreKept

----------------------------------------------------------------------------
(* Provenance *)

\* A run that resets everything resets every table: with narrower
\* setup.clear_table_patterns the theorem below does not hold.
ResetsAreWhole == \A s \in Setups : ResetsAll(s) => s.patterns = Prefixes

\* The runs whose work a record, or a report of drift, accounts for.
Accounted ==
  {q \in Runs : \/ q \in offRecord
                \/ stamp # NoConfig /\ recorded[q] = stamp
                \/ \E p \in reported : p > q}

Working ==
  /\ phase \in {"purging", "projecting", "foundation", "generating",
                "publishing", "accumulating"}
  /\ ~request.dry

NumbersInv ==
  /\ Within(1..n, Years) /\ Fresh(1..n)
  /\ phase \in {"resetting", "stamping"} => Within(1..(n - 1), Years)

AccountInv ==
  /\ Within(Accounted, Years) /\ Fresh(Accounted)
  /\ Working => n \in Accounted
  /\ phase = "stamping" /\ Downgraded => Within({}, Years)

LEMMA DryBuildsKeep ==
  ASSUME TypeOK, NEW S, Within(S, Years), request.dry, Builds
  PROVE  Within(S, Years)' /\ Fresh(S)'
  <1>1. request' = request /\ Fresh(S)'
    BY DEF Builds, Purge, Project, Foundation, Generate, OpenAccumulation,
           BuildWorkforce, BuildBenefits, BuildSnapshot, Model, EndYear, Fresh
  <1>2. phase # "idle" => ~Calibrates
    BY RequestIsValid DEF Calibrates
  <1>3. CASE UNCHANGED rows
    BY <1>1, <1>3 DEF Within
  <1>4. CASE Purge
    BY <1>1, <1>4, WithoutWithin DEF Purge
  <1>5. CASE OpenAccumulation
    BY <1>1, <1>3, <1>5, WithoutWithin DEF OpenAccumulation
  <1>6. QED
    BY <1>1, <1>2, <1>3, <1>4, <1>5
       DEF Builds, Project, Foundation, Generate, BuildWorkforce,
           BuildBenefits, BuildSnapshot, Model, EndYear, database

\* What the steps of a year leave alone.
LEMMA BuildsFrame ==
  ASSUME TypeOK, Builds
  PROVE  /\ UNCHANGED <<n, request, provenance>>
         /\ n \in Runs
         /\ phase \in {"purging", "projecting", "foundation", "generating",
                       "publishing", "accumulating"}
         /\ phase' \in {"purging", "projecting", "foundation", "generating",
                        "publishing", "accumulating", "complete"}
         /\ phase' \notin {"idle", "resetting", "stamping"}
  <1>1. CASE Purge \/ Project \/ Foundation \/ Generate \/ OpenAccumulation
    BY <1>1 DEF Purge, Project, Foundation, Generate, OpenAccumulation, To,
                TypeOK
  <1>2. CASE BuildWorkforce \/ BuildBenefits \/ BuildSnapshot
    BY <1>2 DEF BuildWorkforce, BuildBenefits, BuildSnapshot, Model, TypeOK
  <1>3. CASE EndYear
    BY <1>3 DEF EndYear, To, YearBegins, TypeOK
  <1>4. QED
    BY <1>1, <1>2, <1>3 DEF Builds

LEMMA InitAccount == Init => NumbersInv /\ AccountInv
  BY DEF Init, NumbersInv, AccountInv, Within, Fresh, Working

LEMMA NextNumbers ==
  ASSUME TypeOK, Position, NumbersInv, [Next]_vars
  PROVE  NumbersInv'
  <1>1. CASE Begin
    <2>1. n' - 1 = n /\ 1..n \subseteq 1..n'
      BY <1>1, PipelineAssumption DEF Begin, TypeOK
    <2>2. phase' \in {"resetting", "stamping"} /\ rows' = rows
      BY <1>1 DEF Begin, To, database
    <2>3. QED
      BY <2>1, <2>2 DEF NumbersInv, Within, Fresh
  <1>2. CASE FullReset
    <2>1. phase' \notin {"foundation", "generating"} /\ n' = n
          /\ phase = "resetting"
      BY <1>2 DEF FullReset, To
    <2>2. Within(1..n, Years)' /\ Within(1..(n - 1), Years)'
      <3>1. CASE rows' = rows
        BY <2>1, <3>1 DEF NumbersInv, Within
      <3>2. CASE rows' = Without(Matching(request.setup), Years)
        BY <2>1, <3>2 DEF NumbersInv, Within, Without
      <3>3. QED
        BY <1>2, <3>1, <3>2 DEF FullReset
    <2>3. QED
      BY <2>1, <2>2 DEF NumbersInv, Fresh
  <1>3. CASE Stamp \/ StampSkipped
    BY <1>3 DEF Stamp, StampSkipped, To, YearBegins, NumbersInv, Within, Fresh,
                database
  <1>4. CASE Builds
    <2>1. n \in 1..n /\ FirstYear..year \subseteq Years
      BY <1>4, BuildsFrame, YearsUpTo DEF TypeOK, Runs
    <2>2. Within(1..n, Years)' /\ Fresh(1..n)'
      <3>1. Within(1..n, Years) /\ Fresh(1..n)
        BY DEF NumbersInv
      <3>2. n' = n
        BY <1>4, BuildsFrame
      <3>3. ASSUME NEW S, S = 1..n
            PROVE  Within(S, Years)' /\ Fresh(S)'
        BY <1>4, <2>1, <3>1, <3>3, BuildKeeps
      <3>4. QED
        BY <3>2, <3>3 DEF Within, Fresh
    <2>3. QED
      BY <1>4, <2>2, BuildsFrame DEF NumbersInv
  <1>5. CASE Fail \/ Retune
    BY <1>5 DEF Fail, Retune, To, NumbersInv, Within, Fresh, database
  <1>6. CASE UNCHANGED vars
    BY <1>6 DEF vars, NumbersInv, Within, Fresh
  <1>7. QED
    BY <1>1, <1>2, <1>3, <1>4, <1>5, <1>6 DEF Next, Builds

LEMMA FullResetEmpties ==
  ASSUME TypeOK, ResetsAreWhole, FullReset, ResetsAll(request.setup)
  PROVE  Within({}, Years)'
  <1>1. request.setup.patterns = Prefixes
    BY RequestIsValid DEF FullReset, ResetsAreWhole
  <1>2. Matching(request.setup) = Tables
    BY <1>1 DEF Matching, Prefixes
  <1>3. QED
    BY <1>2 DEF FullReset, Without, Within

\* Stamping a configuration leaves accounted for what was written before it.
LEMMA StampAccounts ==
  ASSUME TypeOK, NumbersInv, AccountInv, Stamp
  PROVE  Within(Accounted, Years)' /\ n \in Accounted'
  <1>1. n \in Runs /\ request.config \in Configs /\ request.config # NoConfig
    BY RequestIsValid, PipelineAssumption DEF Stamp, TypeOK
  <1>2. n \in Accounted'
    BY <1>1 DEF Stamp, TypeOK, Accounted
  <1>3. CASE Downgraded
    <2>1. Within({}, Years)
      BY <1>3 DEF Stamp, AccountInv
    <2>2. QED
      BY <1>2, <2>1 DEF Stamp, Within, database
  <1>4. CASE ~Downgraded
    <2> SUFFICES ASSUME NEW t \in Tables, NEW y \in Years, NEW q \in rows[t][y]
                 PROVE  q \in Accounted'
      BY <1>2 DEF Stamp, Within, database
    <2>1. q \in Accounted /\ q \in 1..(n - 1)
      BY DEF AccountInv, NumbersInv, Within, Stamp
    <2>2. q \in Runs /\ n > q /\ q # n
      BY <1>1, <2>1 DEF Accounted, Runs
    <2>3. recorded'[q] = recorded[q]
      BY <2>2 DEF Stamp, TypeOK
    <2>4. CASE q \in offRecord \/ \E p \in reported : p > q
      BY <2>2, <2>4 DEF Stamp, Accounted
    <2>5. CASE stamp # NoConfig /\ recorded[q] = stamp
      <3>1. CASE stamp = request.config
        BY <2>2, <2>3, <2>5, <3>1 DEF Stamp, Accounted
      <3>2. CASE stamp # request.config
        BY <1>4, <2>2, <2>5, <3>2 DEF Stamp, Accounted
      <3>3. QED
        BY <3>1, <3>2
    <2>6. QED
      BY <2>1, <2>4, <2>5 DEF Accounted
  <1>5. QED
    BY <1>3, <1>4

LEMMA NextAccount ==
  ASSUME TypeOK, NumbersInv, AccountInv, ResetsAreWhole, [Next]_vars
  PROVE  AccountInv'
  <1>1. CASE Begin
    <2>1. phase' \in {"resetting", "stamping"} /\ Accounted' = Accounted
          /\ rows' = rows
      BY <1>1 DEF Begin, To, database, provenance, Accounted
    <2>2. phase' = "stamping" => ~Downgraded'
      BY <1>1 DEF Begin, To, Downgraded, Simulates
    <2>3. QED
      BY <2>1, <2>2 DEF AccountInv, Within, Fresh, Working
  <1>2. CASE FullReset
    <2>1. Accounted' = Accounted /\ phase' \in {"purging", "stamping"}
          /\ request' = request
          /\ (phase' = "purging" => request.dry)
      BY <1>2 DEF FullReset, To, provenance, Accounted
    <2>2. Within(Accounted, Years)'
      <3>1. CASE rows' = rows
        BY <2>1, <3>1 DEF AccountInv, Within
      <3>2. CASE rows' = Without(Matching(request.setup), Years)
        BY <2>1, <3>2 DEF AccountInv, Within, Without
      <3>3. QED
        BY <1>2, <3>1, <3>2 DEF FullReset
    <2>3. Downgraded' => Within({}, Years)'
      BY <1>2, <2>1, FullResetEmpties DEF Downgraded, ResetsAll
    <2>4. QED
      BY <2>1, <2>2, <2>3 DEF AccountInv, Fresh, Working
  <1>3. CASE Stamp
    <2>1. phase' \in {"purging", "projecting"} /\ n' = n
      BY <1>3 DEF Stamp, To, YearBegins
    <2>2. QED
      BY <1>3, <2>1, StampAccounts DEF AccountInv, Fresh
  <1>4. CASE StampSkipped \/ Retune
    <2>1. phase' \in {"purging", "projecting"} /\ n' = n /\ rows' = rows
          /\ n \in Runs
      BY <1>4 DEF StampSkipped, Retune, To, YearBegins, database, TypeOK
    <2>2. Accounted \subseteq Accounted' /\ n \in Accounted'
      BY <1>4, <2>1 DEF StampSkipped, Retune, Accounted
    <2>3. QED
      BY <2>1, <2>2 DEF AccountInv, Within, Fresh
  <1>5. CASE Builds
    <2>1. Accounted' = Accounted /\ n' = n /\ request' = request
          /\ FirstYear..year \subseteq Years
      BY <1>5, BuildsFrame, YearsUpTo DEF provenance, Accounted, TypeOK
    <2>2. Within(Accounted, Years) /\ Fresh(Accounted)
      BY DEF AccountInv
    <2>3. request.dry \/ n \in Accounted
      BY <1>5, BuildsFrame DEF AccountInv, Working
    <2>4. ASSUME NEW S, S = Accounted
          PROVE  Within(S, Years)' /\ Fresh(S)'
      BY <1>5, <2>1, <2>2, <2>3, <2>4, BuildKeeps, DryBuildsKeep
    <2>5. Within(Accounted, Years)' /\ Fresh(Accounted)'
      BY <2>1, <2>4 DEF Within, Fresh
    <2>6. QED
      BY <1>5, <2>1, <2>3, <2>5, BuildsFrame DEF AccountInv, Working
  <1>6. CASE Fail
    BY <1>6 DEF Fail, To, AccountInv, Within, Fresh, Working, Accounted,
                database, provenance
  <1>7. CASE UNCHANGED vars
    BY <1>7 DEF vars, AccountInv, Within, Fresh, Working, Accounted, Downgraded,
                Simulates
  <1>8. QED
    BY <1>1, <1>2, <1>3, <1>4, <1>5, <1>6, <1>7 DEF Next, Builds

(* Whatever runs completed, failed or were killed: when the database holds *)
(* work recorded under another configuration than the latest record, a run *)
(* since then has reported it.                                             *)
THEOREM MixturesAreReported ==
  ASSUME ResetsAreWhole
  PROVE  Spec => []NoSilentMixture
  <1>1. Init => TypeOK /\ Position /\ NumbersInv /\ AccountInv
    BY InitType, InitAccount
  <1>2. TypeOK /\ Position /\ NumbersInv /\ AccountInv /\ [Next]_vars
          => TypeOK' /\ Position' /\ NumbersInv' /\ AccountInv'
    BY NextType, NextNumbers, NextAccount
  <1>3. AccountInv => NoSilentMixture
    BY DEF AccountInv, Within, Accounted, NoSilentMixture
  <1>4. QED
    BY <1>1, <1>2, <1>3, PTL DEF Spec

----------------------------------------------------------------------------
(* Clean years *)

CleanRun ==
  phase # "idle" /\ Simulates /\ ~request.dry /\ Clears(request.setup)

InYears == phase \in {"purging", "projecting", "foundation", "generating",
                      "publishing", "accumulating", "complete"}

\* The years the run has cleared, and those before its first one.
Cleared == IF phase = "purging" THEN FirstYear..(year - 1) ELSE FirstYear..year

\* Where the run starts, and what it has cleared, whatever it will write.
ClearedInv ==
  /\ phase \in {"resetting", "stamping"} => year = request.from
  /\ CleanRun =>
       /\ phase \in {"stamping", "purging"} /\ ResetsAll(request.setup)
            => Within({}, year..LastYear)
       /\ InYears /\ ResetsAll(request.setup) => Within({}, (year + 1)..LastYear)
       /\ phase \in {"projecting", "foundation"} => Within({}, {year})

CleanInv ==
  CleanRun /\ InYears => Within(Allowed, Cleared) /\ Fresh(Allowed)

\* A build leaves the years after this one empty when they are.
LEMMA LaterYearsStayEmpty ==
  ASSUME TypeOK, Builds, Within({}, (year + 1)..LastYear)
  PROVE  \A t \in Tables, y \in (year + 1)..LastYear : rows'[t][y] = {}
  <1> SUFFICES ASSUME NEW t \in Tables, NEW y \in (year + 1)..LastYear
               PROVE  rows'[t][y] = {}
    OBVIOUS
  <1>1. rows[t][y] = {}
    BY DEF Within
  <1>2. y \in Years /\ y # year
    BY PipelineAssumption DEF TypeOK, Years
  <1>3. CASE Foundation /\ BuildFirstFoundation
    BY <1>1, <1>2, <1>3 DEF BuildFirstFoundation, TypeOK, Tables
  <1>4. CASE ~(Foundation /\ BuildFirstFoundation)
    BY <1>1, <1>2, <1>4, OtherYearsAreKept
  <1>5. QED
    BY <1>3, <1>4

LEMMA CleanRunStays ==
  ASSUME TypeOK, Builds
  PROVE  CleanRun' = CleanRun
  BY BuildsFrame DEF CleanRun, Simulates

LEMMA PurgeEmpties ==
  ASSUME TypeOK, ClearedInv, CleanRun, Purge
  PROVE  \A t \in Tables : rows'[t][year] = {}
  <1>1. request.setup.patterns = Prefixes
        /\ (PurgesYears(request.setup) \/ ResetsAll(request.setup))
    BY DEF CleanRun, Clears
  <1>2. Matching(request.setup) = Tables
    BY <1>1 DEF Matching, Prefixes
  <1>3. CASE PurgesYears(request.setup)
    BY <1>2, <1>3 DEF Purge, Without, TypeOK
  <1>4. CASE ResetsAll(request.setup)
    <2>1. Within({}, year..LastYear) /\ year \in year..LastYear
      BY <1>4, PipelineAssumption DEF ClearedInv, Purge, TypeOK, Years
    <2>2. QED
      BY <2>1 DEF Purge, Without, Within, TypeOK
  <1>5. QED
    BY <1>1, <1>3, <1>4

LEMMA InitCleared == Init => ClearedInv /\ CleanInv
  BY DEF Init, ClearedInv, CleanInv, CleanRun

LEMMA NextCleared ==
  ASSUME TypeOK, Position, ClearedInv, [Next]_vars
  PROVE  ClearedInv'
  <1>1. CASE Begin
    <2>1. phase' \in {"resetting", "stamping"} /\ year' = request'.from
          /\ (phase' = "stamping" => ~Simulates')
      BY <1>1 DEF Begin, To, Simulates
    <2>2. QED
      BY <2>1 DEF ClearedInv, CleanRun, InYears
  <1>2. CASE FullReset
    <2>1. phase' \in {"stamping", "purging"} /\ year' = year
          /\ request' = request /\ (phase' = "purging" => request.dry)
          /\ phase = "resetting"
      BY <1>2 DEF FullReset, To
    <2>2. ASSUME CleanRun', ResetsAll(request.setup) PROVE Within({}, Years)'
      <3>1. request.setup.patterns = Prefixes
        BY <2>1, <2>2 DEF CleanRun, Clears
      <3>2. Matching(request.setup) = Tables
        BY <3>1 DEF Matching, Prefixes
      <3>3. QED
        BY <1>2, <2>2, <3>2 DEF FullReset, Without, Within
    <2>3. year..LastYear \subseteq Years
      BY PipelineAssumption DEF TypeOK, Years
    <2>4. QED
      BY <2>1, <2>2, <2>3 DEF ClearedInv, CleanRun, InYears, Within
  <1>3. CASE Stamp
    <2>1. phase = "stamping" /\ year' = year /\ request' = request
          /\ rows' = rows
          /\ (Simulates => phase' = "purging")
          /\ phase' \in {"purging", "projecting"}
      BY <1>3 DEF Stamp, To, YearBegins, database
    <2>2. (year + 1)..LastYear \subseteq year..LastYear
      BY PipelineAssumption DEF TypeOK, Years
    <2>3. QED
      BY <2>1, <2>2 DEF ClearedInv, CleanRun, Simulates, InYears, Within
  <1>4. CASE StampSkipped \/ Retune
    <2>1. ~Simulates' /\ phase' \in {"purging", "projecting"}
      BY <1>4 DEF StampSkipped, Retune, Calibrates, Simulates, To, YearBegins
    <2>2. QED
      BY <2>1 DEF ClearedInv, CleanRun
  <1>5. CASE Builds
    <2>1. UNCHANGED request /\ phase' \notin {"resetting", "stamping"}
      BY <1>5, BuildsFrame
    <2> SUFFICES ASSUME CleanRun
                 PROVE  /\ phase' \in {"stamping", "purging"}
                             /\ ResetsAll(request.setup)
                             => Within({}, year..LastYear)'
                        /\ ResetsAll(request.setup)
                             => Within({}, (year + 1)..LastYear)'
                        /\ phase' \in {"projecting", "foundation"}
                             => Within({}, {year})'
      BY <1>5, <2>1, CleanRunStays DEF ClearedInv
    <2>2. InYears
      BY <1>5, BuildsFrame DEF InYears
    <2>3. ResetsAll(request.setup) =>
            \A t \in Tables, y \in (year + 1)..LastYear : rows'[t][y] = {}
      BY <1>5, <2>2, LaterYearsStayEmpty DEF ClearedInv
    <2>4. CASE EndYear
      <3>1. \/ year' = year + 1 /\ phase' \in {"purging", "projecting"}
            \/ year' = year /\ phase' = "complete"
        BY <2>4 DEF EndYear, To, YearBegins
      <3>2. Simulates
        BY DEF CleanRun
      <3>3. phase' # "projecting" /\ phase' # "foundation"
        BY <2>4, <3>2 DEF EndYear, To, YearBegins
      <3>4. (year + 2)..LastYear \subseteq (year + 1)..LastYear
            /\ year + 1 + 1 = year + 2
        BY PipelineAssumption DEF TypeOK, Years
      <3>5. QED
        BY <2>3, <3>1, <3>3, <3>4 DEF Within
    <2>5. CASE ~EndYear
      <3>1. year' = year /\ phase' # "purging"
            /\ (phase' \in {"projecting", "foundation"} => Purge \/ Project)
        BY <1>5, <2>5
           DEF Builds, Purge, Project, Foundation, Generate, OpenAccumulation,
               BuildWorkforce, BuildBenefits, BuildSnapshot, Model, To
      <3>2. Purge => \A t \in Tables : rows'[t][year] = {}
        BY PurgeEmpties
      <3>3. Project => \A t \in Tables : rows'[t][year] = {}
        BY DEF Project, database, ClearedInv, Within
      <3>4. QED
        BY <2>1, <2>3, <3>1, <3>2, <3>3 DEF Within
    <2>6. QED
      BY <2>4, <2>5
  <1>6. CASE Fail
    BY <1>6 DEF Fail, To, ClearedInv, InYears
  <1>7. CASE UNCHANGED vars
    BY <1>7 DEF vars, ClearedInv, CleanRun, Simulates, InYears, Within
  <1>8. QED
    BY <1>1, <1>2, <1>3, <1>4, <1>5, <1>6, <1>7 DEF Next, Builds

LEMMA AllowedStays ==
  ASSUME TypeOK, Position, Builds
  PROVE  Allowed' = Allowed
  <1>1. UNCHANGED <<n, request>> /\ phase # "idle"
    BY BuildsFrame
  <1>2. \A t \in Tables, y \in FirstYear..(request.from - 1) :
          rows'[t][y] = rows[t][y]
    <2>1. FirstYear..(request.from - 1) \subseteq FirstYear..(year - 1)
      BY <1>1, RequestIsValid, PipelineAssumption DEF Position, TypeOK, Years
    <2>2. QED
      BY <2>1, BuildsKeepEarlierYears
  <1>3. \A q : q \in Allowed <=>
          \/ q = n
          \/ \E t \in Tables, y \in FirstYear..(request.from - 1) : q \in rows[t][y]
    BY DEF Allowed
  <1>4. \A q : q \in Allowed' <=>
          \/ q = n
          \/ \E t \in Tables, y \in FirstYear..(request.from - 1) : q \in rows'[t][y]
    BY <1>1 DEF Allowed
  <1>5. \A q : q \in Allowed' <=> q \in Allowed
    BY <1>2, <1>3, <1>4
  <1>6. QED
    BY <1>5

LEMMA EarlierIsAllowed ==
  ASSUME TypeOK, phase # "idle"
  PROVE  Within(Allowed, FirstYear..(request.from - 1))
  BY DEF Within, Allowed

LEMMA NextClean ==
  ASSUME TypeOK, Position, ClearedInv, CleanInv, [Next]_vars
  PROVE  CleanInv'
  <1>1. CASE Begin
    BY <1>1 DEF Begin, To, CleanInv, InYears
  <1>2. CASE FullReset
    BY <1>2 DEF FullReset, To, CleanInv, CleanRun, InYears
  <1>3. CASE Stamp
    <2>1. phase = "stamping" /\ UNCHANGED <<n, rows, request, year>>
          /\ (Simulates => phase' = "purging")
      BY <1>3 DEF Stamp, To, YearBegins, database
    <2>2. Allowed' = Allowed
      BY <2>1 DEF Allowed
    <2>3. year = request.from
      BY <2>1 DEF ClearedInv
    <2>4. Within(Allowed, FirstYear..(year - 1))
      BY <2>1, <2>3, EarlierIsAllowed
    <2>5. QED
      BY <2>1, <2>2, <2>4
         DEF CleanInv, CleanRun, Simulates, Cleared, Fresh, Within
  <1>4. CASE StampSkipped \/ Retune
    BY <1>4 DEF StampSkipped, Retune, Calibrates, Simulates, CleanInv, CleanRun
  <1>5. CASE Builds
    <2> SUFFICES ASSUME CleanRun PROVE Within(Allowed, Cleared)' /\ Fresh(Allowed)'
      BY <1>5, CleanRunStays DEF CleanInv
    <2>1. Allowed' = Allowed /\ n \in Allowed /\ InYears
      BY <1>5, AllowedStays, BuildsFrame DEF Allowed, InYears
    <2>2. Within(Allowed, Cleared) /\ Fresh(Allowed)
      BY <2>1 DEF CleanInv
    <2>3. CASE Purge
      <3>1. Cleared = FirstYear..(year - 1) /\ Cleared' = FirstYear..year
            /\ FirstYear..year \subseteq FirstYear..(year - 1) \cup {year}
            /\ Fresh(Allowed)'
        BY <2>3, PipelineAssumption
           DEF Purge, To, Cleared, TypeOK, Years, Fresh
      <3>2. Within(Allowed, FirstYear..(year - 1))'
        BY <1>5, <2>1, <2>2, <3>1, BuildsKeepEarlierYears, <2>3
           DEF Within, Purge
      <3>3. \A t \in Tables : rows'[t][year] = {}
        BY <2>3, PurgeEmpties
      <3>4. QED
        BY <2>1, <3>1, <3>2, <3>3, <2>3 DEF Within, Purge
    <2>4. CASE ~Purge
      <3>1. Cleared = FirstYear..year
        BY <1>5, <2>4
           DEF Builds, Project, Foundation, Generate, OpenAccumulation,
               BuildWorkforce, BuildBenefits, BuildSnapshot, Model, EndYear,
               Cleared
      <3>2. FirstYear..year \in SUBSET Years
        BY YearsUpTo DEF TypeOK
      <3>3. ASSUME NEW S, S = Allowed, NEW years, years = FirstYear..year
            PROVE  Within(S, years)' /\ Fresh(S)'
        BY <1>5, <2>1, <2>2, <3>1, <3>2, <3>3, BuildKeeps
      <3>4. Cleared' = FirstYear..year
        <4>1. CASE EndYear
          <5>1. CASE year < request.to
            BY <4>1, <5>1, PipelineAssumption
               DEF EndYear, To, YearBegins, CleanRun, Cleared, TypeOK, Years
          <5>2. CASE ~(year < request.to)
            BY <4>1, <5>2 DEF EndYear, To, Cleared
          <5>3. QED
            BY <5>1, <5>2
        <4>2. CASE ~EndYear
          BY <1>5, <2>4, <4>2
             DEF Builds, Project, Foundation, Generate, OpenAccumulation,
                 BuildWorkforce, BuildBenefits, BuildSnapshot, Model, To,
                 Cleared
        <4>3. QED
          BY <4>1, <4>2
      <3>5. QED
        BY <2>1, <3>3, <3>4 DEF Within, Fresh
    <2>5. QED
      BY <2>3, <2>4
  <1>6. CASE Fail
    BY <1>6 DEF Fail, To, CleanInv, InYears
  <1>7. CASE UNCHANGED vars
    BY <1>7 DEF vars, CleanInv, CleanRun, Simulates, InYears, Within, Fresh,
                Cleared, Allowed
  <1>8. QED
    BY <1>1, <1>2, <1>3, <1>4, <1>5, <1>6, <1>7 DEF Next, Builds

(* In the years a completed simulation rebuilt nothing is left of the runs *)
(* before it, whatever they left behind, if its setup clears what it       *)
(* rebuilds.                                                               *)
THEOREM RebuiltYearsStayClean == Spec => []RebuiltYearsAreClean
  <1>1. Init => TypeOK /\ Position /\ ClearedInv /\ CleanInv
    BY InitType, InitCleared
  <1>2. TypeOK /\ Position /\ ClearedInv /\ CleanInv /\ [Next]_vars
          => TypeOK' /\ Position' /\ ClearedInv' /\ CleanInv'
    BY NextType, NextCleared, NextClean
  <1>3. TypeOK /\ Position /\ CleanInv => RebuiltYearsAreClean
    <2> SUFFICES ASSUME TypeOK, Position, CleanInv, CompletedSimulation,
                        Clears(request.setup), NEW t \in Tables,
                        NEW y \in request.from..request.to
                 PROVE  Owns(t, y)
      BY DEF RebuiltYearsAreClean
    <2>1. Within(Allowed, Cleared) /\ Cleared = FirstYear..year
      BY DEF CleanInv, CompletedSimulation, CleanRun, InYears, Cleared
    <2>2. y \in FirstYear..year
      BY RequestIsValid, PipelineAssumption
         DEF CompletedSimulation, Position, TypeOK, Years
    <2>3. QED
      BY <2>1, <2>2 DEF Within, Owns
  <1>4. QED
    BY <1>1, <1>2, <1>3, PTL DEF Spec

----------------------------------------------------------------------------
(* Chained years *)

\* The year before has a workforce and benefits.
Based(y) ==
  y > FirstYear => rows["workforce"][y - 1] # {} /\ rows["benefits"][y - 1] # {}

Chained(y) == (\A t \in Yearly : n \in rows[t][y]) /\ Based(y)

\* What a clean run has built of its current year, stage by stage.
Progress ==
  /\ phase = "foundation" =>
       PriorYearPresent /\ projection.workforce = Prior("workforce")
  /\ phase = "generating" /\ rows["needs"][year] # {} =>
       n \in rows["needs"][year] /\ Based(year)
  /\ phase \in {"publishing", "accumulating"} =>
       /\ n \in rows["needs"][year] /\ n \in rows["events"][year]
       /\ Based(year)
  /\ phase = "accumulating" =>
       /\ \A t \in built : n \in rows[t][year]
       /\ "snapshot" \in built => {"workforce", "benefits"} \subseteq built

ChainInv ==
  CleanRun =>
    /\ InYears => \A y \in request.from..(year - 1) : Chained(y)
    /\ phase = "complete" => Chained(year)
    /\ Progress

LEMMA BasedStays ==
  ASSUME TypeOK, Builds, NEW y \in Years, y <= year, Based(y)
  PROVE  Based(y)'
  <1>1. CASE y > FirstYear
    <2>1. y - 1 \in FirstYear..(year - 1)
      BY <1>1, PipelineAssumption DEF TypeOK, Years
    <2>2. \A t \in Tables : rows'[t][y - 1] = rows[t][y - 1]
      BY <2>1, BuildsKeepEarlierYears
    <2>3. QED
      BY <1>1, <2>2 DEF Based, Tables
  <1>2. CASE ~(y > FirstYear)
    BY <1>2 DEF Based
  <1>3. QED
    BY <1>1, <1>2

LEMMA ChainedStays ==
  ASSUME TypeOK, Position, Builds, ChainInv, CleanRun
  PROVE  \A y \in request.from..(year - 1) : Chained(y)'
  <1> SUFFICES ASSUME NEW y \in request.from..(year - 1) PROVE Chained(y)'
    OBVIOUS
  <1>1. phase # "idle" /\ InYears /\ n' = n
    BY BuildsFrame DEF InYears
  <1>2. Chained(y)
    BY <1>1 DEF ChainInv
  <1>3. y \in FirstYear..(year - 1) /\ y \in Years /\ y <= year
    BY <1>1, RequestIsValid, PipelineAssumption DEF TypeOK, Years
  <1>4. \A t \in Tables : rows'[t][y] = rows[t][y]
    BY <1>3, BuildsKeepEarlierYears
  <1>5. Based(y)'
    BY <1>2, <1>3, BasedStays DEF Chained
  <1>6. QED
    BY <1>1, <1>2, <1>4, <1>5 DEF Chained, Yearly

LEMMA YearCompletes ==
  ASSUME TypeOK, ChainInv, CleanRun, EndYear
  PROVE  Chained(year)
  <1>1. phase = "accumulating" /\ "snapshot" \in built
    BY DEF EndYear, CleanRun
  <1>2. {"workforce", "benefits", "snapshot"} \subseteq built
    BY <1>1 DEF ChainInv, Progress
  <1>3. QED
    BY <1>1, <1>2 DEF ChainInv, Progress, Chained, Yearly, Tables

\* The year's own progress, one stage at a time.
LEMMA FoundationProgress ==
  ASSUME TypeOK, ClearedInv, ChainInv, CleanRun, Foundation
  PROVE  Progress'
  <1>1. /\ phase = "foundation" /\ phase' = "generating" /\ Simulates
        /\ ~request.dry /\ n' = n /\ year' = year
    BY DEF Foundation, To, CleanRun
  <1>2. rows["needs"][year] = {} /\ PriorYearPresent
        /\ projection.workforce = Prior("workforce")
    BY <1>1 DEF ClearedInv, CleanRun, Within, Tables, ChainInv, Progress
  <1>3. CASE IsFirstYear
    <2>1. BuildFirstFoundation
      BY <1>1, <1>3 DEF Foundation, Simulates, Calibrates
    <2>2. n \in rows'["needs"][year]
      BY <2>1 DEF BuildFirstFoundation, TypeOK, Tables
    <2>3. QED
      BY <1>1, <1>3, <2>2, PipelineAssumption
         DEF Progress, Based, IsFirstYear
  <1>4. CASE ~IsFirstYear
    <2>1. PICK left \in Leftovers("needs") :
            Holds("needs", left \cup IF projection.workforce = {} THEN {}
                                     ELSE UNION {{n}, projection.workforce,
                                                 projection.enrollment})
      BY <1>1, <1>4 DEF Foundation, Simulates, Calibrates, BuildLaterFoundation
    <2>2. left = {}
      BY <1>2 DEF Leftovers
    <2>3. rows'["needs"][year] = IF projection.workforce = {} THEN {}
                                 ELSE UNION {{n}, projection.workforce,
                                             projection.enrollment}
      BY <2>1, <2>2 DEF Holds, TypeOK, Tables
    <2>4. rows'["workforce"][year - 1] = rows["workforce"][year - 1]
          /\ rows'["benefits"][year - 1] = rows["benefits"][year - 1]
      BY <2>1 DEF Holds, TypeOK, Tables
    <2>5. rows["benefits"][year - 1] # {}
          /\ projection.workforce = rows["workforce"][year - 1]
      BY <1>2, <1>4 DEF PriorYearPresent, Prior
    <2>6. rows'["needs"][year] # {} =>
            n \in rows'["needs"][year] /\ projection.workforce # {}
      BY <2>3
    <2>7. QED
      BY <1>1, <2>4, <2>5, <2>6 DEF Progress, Based
  <1>5. QED
    BY <1>3, <1>4

LEMMA GenerateProgress ==
  ASSUME TypeOK, ChainInv, CleanRun, Generate
  PROVE  Progress'
  <1>1. /\ phase = "generating" /\ phase' = "publishing" /\ Simulates
        /\ ~request.dry /\ n' = n /\ year' = year
    BY DEF Generate, To, CleanRun
  <1>2. FoundationIsSound /\ Holds("events", EventInputs)
    BY <1>1 DEF Generate, Simulates, Calibrates
  <1>3. n \in rows["needs"][year] /\ Based(year)
    BY <1>1, <1>2 DEF FoundationIsSound, ChainInv, Progress
  <1>4. rows'["needs"] = rows["needs"] /\ n \in rows'["events"][year]
    BY <1>2 DEF Holds, EventInputs, TypeOK, Tables
  <1>5. Based(year)'
    BY <1>1, <1>3, BasedStays DEF Builds, TypeOK, Years
  <1>6. QED
    BY <1>1, <1>3, <1>4, <1>5 DEF Progress

LEMMA AccumulationProgress ==
  ASSUME TypeOK, ChainInv, CleanRun,
         OpenAccumulation \/ BuildWorkforce \/ BuildBenefits \/ BuildSnapshot
  PROVE  Progress'
  <1>1. /\ phase \in {"publishing", "accumulating"} /\ phase' = "accumulating"
        /\ n' = n /\ year' = year /\ Builds /\ Simulates
    BY DEF OpenAccumulation, BuildWorkforce, BuildBenefits, BuildSnapshot,
           Model, To, Builds, CleanRun
  <1>2. n \in rows["needs"][year] /\ n \in rows["events"][year] /\ Based(year)
    BY <1>1 DEF ChainInv, Progress
  <1>3. Based(year)'
    BY <1>1, <1>2, BasedStays DEF TypeOK, Years
  <1>4. CASE OpenAccumulation
    <2>1. built' = {} /\ rows' = Without({"snapshot"}, {year})
      BY <1>1, <1>4 DEF OpenAccumulation
    <2>2. rows'["needs"][year] = rows["needs"][year]
          /\ rows'["events"][year] = rows["events"][year]
      BY <2>1 DEF Without, Tables, TypeOK
    <2>3. QED
      BY <1>1, <1>2, <1>3, <2>1, <2>2 DEF Progress
  <1>5. ASSUME NEW m \in {"workforce", "benefits", "snapshot"}, NEW needs,
               NEW origins, Model(m, needs), Holds(m, origins), n \in origins,
               m = "snapshot" => needs = {"workforce", "benefits"}
        PROVE  Progress'
    <2>1. rows'["needs"] = rows["needs"] /\ rows'["events"] = rows["events"]
          /\ n \in rows'[m][year]
          /\ \A t \in Tables \ {m} : rows'[t] = rows[t]
      BY <1>5 DEF Holds, TypeOK, Tables
    <2>2. phase = "accumulating" /\ built' = built \cup {m}
          /\ needs \subseteq built
      BY <1>5 DEF Model
    <2>3. \A t \in built : t \in Tables /\ n \in rows[t][year]
      BY <2>2 DEF ChainInv, Progress, TypeOK, Tables
    <2>4. \A t \in built' : n \in rows'[t][year]
      BY <2>1, <2>2, <2>3
    <2>5. "snapshot" \in built' => {"workforce", "benefits"} \subseteq built'
      BY <1>5, <2>2 DEF ChainInv, Progress
    <2>6. QED
      BY <1>1, <1>2, <1>3, <2>1, <2>4, <2>5 DEF Progress
  <1>6. CASE BuildWorkforce
    BY <1>6, <1>5 DEF BuildWorkforce
  <1>7. CASE BuildBenefits
    BY <1>7, <1>5 DEF BuildBenefits
  <1>8. CASE BuildSnapshot
    BY <1>8, <1>5 DEF BuildSnapshot
  <1>9. QED
    BY <1>4, <1>6, <1>7, <1>8

LEMMA InitChain == Init => ChainInv
  BY DEF Init, ChainInv, CleanRun

LEMMA NextChain ==
  ASSUME TypeOK, Position, ClearedInv, ChainInv, [Next]_vars
  PROVE  ChainInv'
  <1>1. CASE Begin
    BY <1>1 DEF Begin, To, ChainInv, CleanRun, Simulates, InYears, Progress
  <1>2. CASE FullReset
    BY <1>2 DEF FullReset, To, ChainInv, CleanRun, InYears, Progress
  <1>3. CASE Stamp
    <2>1. phase = "stamping" /\ UNCHANGED <<n, rows, request, year>>
          /\ (Simulates => phase' = "purging")
      BY <1>3 DEF Stamp, To, YearBegins, database
    <2>2. CleanRun' => phase' = "purging"
      BY <2>1 DEF CleanRun, Simulates
    <2>3. phase # "idle" => request.from..(request.from - 1) = {}
      BY RequestIsValid, PipelineAssumption DEF Years
    <2>4. request'.from..(year' - 1) = {}
      BY <2>1, <2>3 DEF ClearedInv
    <2>5. QED
      BY <2>2, <2>4 DEF ChainInv, Progress
  <1>4. CASE StampSkipped \/ Retune
    BY <1>4 DEF StampSkipped, Retune, Calibrates, Simulates, ChainInv, CleanRun
  <1>5. CASE Builds
    <2> SUFFICES ASSUME CleanRun
                 PROVE  /\ \A y \in request'.from..(year' - 1) : Chained(y)'
                        /\ phase' = "complete" => Chained(year)'
                        /\ Progress'
      BY <1>5, CleanRunStays DEF ChainInv
    <2>1. request' = request /\ \A y \in request.from..(year - 1) : Chained(y)'
      BY <1>5, ChainedStays, BuildsFrame
    <2>2. CASE EndYear
      <3>1. UNCHANGED <<n, rows, request>>
        BY <2>2 DEF EndYear, database
      <3>2. Chained(year) /\ \A y \in request.from..(year - 1) : Chained(y)
        BY <2>2, YearCompletes DEF ChainInv, InYears, EndYear
      <3>3. \A y \in request.from..year : Chained(y)
        <4>1. \A y \in request.from..year : y = year \/ y \in request.from..(year - 1)
          BY <1>5, BuildsFrame, RequestIsValid, PipelineAssumption
             DEF TypeOK, Years
        <4>2. QED
          BY <3>2, <4>1
      <3>4. \A y : Chained(y)' <=> Chained(y)
        BY <3>1 DEF Chained, Based
      <3>5. CASE year < request.to
        <4>1. year' - 1 = year /\ phase' = "purging"
          BY <2>2, <3>5, PipelineAssumption
             DEF EndYear, To, YearBegins, CleanRun, TypeOK, Years
        <4>2. QED
          BY <3>1, <3>3, <3>4, <4>1 DEF Progress
      <3>6. CASE ~(year < request.to)
        <4>1. year' = year /\ phase' = "complete"
          BY <2>2, <3>6 DEF EndYear, To
        <4>2. Chained(year)'
          BY <3>1, <3>2, <4>1 DEF Chained, Based
        <4>3. QED
          BY <2>1, <4>1, <4>2 DEF Progress
      <3>7. QED
        BY <3>5, <3>6
    <2>3. CASE Purge
      BY <2>1, <2>3 DEF Purge, To, Progress
    <2>4. CASE Project
      BY <2>1, <2>4
         DEF Project, To, Progress, CleanRun, database, PriorYearPresent,
             Prior, IsFirstYear
    <2>5. CASE Foundation
      BY <2>1, <2>5, FoundationProgress DEF Foundation, To
    <2>6. CASE Generate
      BY <2>1, <2>6, GenerateProgress DEF Generate, To
    <2>7. CASE OpenAccumulation \/ BuildWorkforce \/ BuildBenefits \/ BuildSnapshot
      BY <2>1, <2>7, AccumulationProgress
         DEF OpenAccumulation, BuildWorkforce, BuildBenefits, BuildSnapshot,
             Model, To
    <2>8. QED
      BY <1>5, <2>2, <2>3, <2>4, <2>5, <2>6, <2>7 DEF Builds
  <1>6. CASE Fail
    BY <1>6 DEF Fail, To, ChainInv, InYears, Progress
  <1>7. CASE UNCHANGED vars
    BY <1>7 DEF vars, ChainInv, CleanRun, Simulates, InYears, Progress, Chained,
                Based, PriorYearPresent, Prior, IsFirstYear
  <1>8. QED
    BY <1>1, <1>2, <1>3, <1>4, <1>5, <1>6, <1>7 DEF Next, Builds

(* A missing or half-built year before makes a run fail: a simulation that *)
(* clears what it rebuilds completes only with every table of each of its  *)
(* years built, each year on a workforce and on benefits of the year       *)
(* before.                                                                 *)
THEOREM CompletedYearsStayChained == Spec => []CompletedYearsAreChained
  <1>1. Init => TypeOK /\ Position /\ ClearedInv /\ ChainInv
    BY InitType, InitCleared, InitChain
  <1>2. TypeOK /\ Position /\ ClearedInv /\ ChainInv /\ [Next]_vars
          => TypeOK' /\ Position' /\ ClearedInv' /\ ChainInv'
    BY NextType, NextCleared, NextChain
  <1>3. TypeOK /\ Position /\ ChainInv => CompletedYearsAreChained
    <2> SUFFICES ASSUME TypeOK, Position, ChainInv, CompletedSimulation,
                        Clears(request.setup), NEW y \in request.from..request.to
                 PROVE  Chained(y)
      BY DEF CompletedYearsAreChained, Chained, Based
    <2>1. CleanRun /\ InYears /\ phase # "idle" /\ year = request.to
      BY DEF CompletedSimulation, CleanRun, InYears, Position
    <2>2. y = year \/ y \in request.from..(year - 1)
      BY <2>1, RequestIsValid, PipelineAssumption DEF Years
    <2>3. QED
      BY <2>1, <2>2 DEF ChainInv, CompletedSimulation
  <1>4. QED
    BY <1>1, <1>2, <1>3, PTL DEF Spec


----------------------------------------------------------------------------
(* Dry runs *)

\* The documentation promises that a dry run writes nothing.  It does delete,
\* but that is all: it builds no row, no projection, no table, no record.
DryRunOnlyDeletes ==
  [][~Ended /\ request.dry =>
       /\ \A t \in Tables, y \in Years : rows'[t][y] \in {rows[t][y], {}}
       /\ UNCHANGED <<projection, tablesExist, provenance>>]_vars

\* A dry run is a simulation that goes on without a record.
DryInv == ~Ended /\ request.dry => phase # "stamping"

LEMMA WithoutDeletes ==
  ASSUME NEW tables, NEW cleared, rows' = Without(tables, cleared)
  PROVE  \A t \in Tables, y \in Years : rows'[t][y] \in {rows[t][y], {}}
  BY DEF Without

LEMMA NextDry == TypeOK /\ DryInv /\ [Next]_vars => DryInv'
  <1> SUFFICES ASSUME TypeOK, DryInv, [Next]_vars, (~Ended)', request'.dry
               PROVE  phase' # "stamping"
    BY DEF DryInv
  <1>1. CASE Begin
    <2>1. request'.kind = "simulate"
      BY <1>1, PipelineAssumption DEF Begin, Requests
    <2>2. QED
      BY <1>1, <2>1 DEF Begin, To
  <1>2. CASE FullReset
    BY <1>2 DEF FullReset, To
  <1>3. CASE Stamp \/ StampSkipped \/ Retune
    BY <1>3 DEF Stamp, StampSkipped, Retune, To, YearBegins
  <1>4. CASE Builds
    BY <1>4, BuildsFrame
  <1>5. CASE Fail
    BY <1>5 DEF Fail, To
  <1>6. CASE UNCHANGED vars
    BY <1>6 DEF vars, DryInv, Ended
  <1>7. QED
    BY <1>1, <1>2, <1>3, <1>4, <1>5, <1>6 DEF Next, Builds

LEMMA DryStep ==
  ASSUME TypeOK, DryInv, [Next]_vars, ~Ended, request.dry
  PROVE  /\ \A t \in Tables, y \in Years : rows'[t][y] \in {rows[t][y], {}}
         /\ UNCHANGED <<projection, tablesExist, provenance>>
  <1>1. Simulates /\ ~Calibrates
    BY RequestIsValid DEF Ended, Simulates, Calibrates
  <1>2. CASE UNCHANGED <<rows, projection, tablesExist, provenance>>
    BY <1>2
  <1>3. CASE FullReset
    <2>1. UNCHANGED <<projection, tablesExist, provenance>>
      BY <1>3 DEF FullReset
    <2>2. QED
      BY <1>3, <2>1, WithoutDeletes DEF FullReset
  <1>4. CASE Purge
    BY <1>4, WithoutDeletes DEF Purge
  <1>5. CASE OpenAccumulation
    <2>1. rows' = Without({"snapshot"}, {year})
      BY <1>1, <1>5 DEF OpenAccumulation
    <2>2. QED
      BY <1>5, <2>1, WithoutDeletes DEF OpenAccumulation
  <1>6. CASE Project \/ Foundation \/ Generate
    BY <1>1, <1>2, <1>6 DEF Project, Foundation, Generate, database
  <1>7. ~(BuildWorkforce \/ BuildBenefits \/ BuildSnapshot)
    BY DEF BuildWorkforce, BuildBenefits, BuildSnapshot, Model
  <1>8. CASE EndYear \/ Fail
    BY <1>2, <1>8 DEF EndYear, Fail, database
  <1>9. ~(Begin \/ Stamp \/ StampSkipped \/ Retune)
    BY DEF Begin, Stamp, StampSkipped, Retune, DryInv, Ended
  <1>10. CASE UNCHANGED vars
    BY <1>2, <1>10 DEF vars, provenance
  <1>11. QED
    BY <1>3, <1>4, <1>5, <1>6, <1>7, <1>8, <1>9, <1>10 DEF Next

(* A step of a dry run leaves the rows of a table and a year as they are or *)
(* empties them, and leaves the projections, the benefit tables and the     *)
(* provenance alone: that its clearing is not skipped is the only way in    *)
(* which it writes.                                                         *)
THEOREM DryRunsOnlyDelete == Spec => DryRunOnlyDeletes
  <1>1. Init => DryInv
    BY DEF Init, DryInv, Ended
  <1>2. TypeOK /\ DryInv /\ [Next]_vars =>
          [~Ended /\ request.dry =>
             /\ \A t \in Tables, y \in Years : rows'[t][y] \in {rows[t][y], {}}
             /\ UNCHANGED <<projection, tablesExist, provenance>>]_vars
    BY DryStep
  <1>3. QED
    BY <1>1, <1>2, NextDry, PipelineTypeCorrect, PTL DEF Spec, DryRunOnlyDeletes
============================================================================
