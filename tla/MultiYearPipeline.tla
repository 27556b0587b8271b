------------------------- MODULE MultiYearPipeline -------------------------
(***************************************************************************)
(* PipelineOrchestrator.execute_multi_year_simulation, year after year, on *)
(* a database that earlier runs have written: what a run clears, what it   *)
(* builds from what, and what survives of the runs before it, whether they *)
(* completed, failed or were killed.  CalibrationRunner writes the same    *)
(* tables of the same database and is the second kind of run.              *)
(*                                                                         *)
(* Of a table's rows of one year only their origin is kept: the runs whose *)
(* work is in them, as the run that wrote a row or as one whose rows it    *)
(* was computed from.  Runs exclude each other (ExecutionMutex); dbt is    *)
(* external: a stage either builds its models or fails between two of      *)
(* them.                                                                   *)
(***************************************************************************)
EXTENDS Naturals

CONSTANTS
  MaxRuns,      \* bound on the number of runs
  FirstYear,    \* config.simulation.start_year
  LastYear,
  Configs,      \* configurations the fingerprint and the seed tell apart
  NoConfig,
  Setups,       \* the values of config.setup
  Kinds         \* "simulate" and "calibrate"

Years    == FirstYear..LastYear
Runs     == 1..MaxRuns
Prefixes == {"int_", "fct_"}

ASSUME PipelineAssumption ==
  /\ MaxRuns \in Nat /\ FirstYear \in Nat /\ LastYear \in Nat
  /\ FirstYear <= LastYear
  /\ NoConfig \notin Configs
  /\ Kinds \subseteq {"simulate", "calibrate"}
  /\ Setups \subseteq [clear_tables : {"unset", "true", "false"},
                       clear_mode : {"year", "all"},
                       patterns : SUBSET Prefixes]

(* The tables, grouped by who builds them and how.                         *)
(*   baseline   int_baseline_workforce, of the first year only             *)
(*   needs      int_employee_compensation_by_year, int_workforce_needs     *)
(*   events     fct_yearly_events                                          *)
(*   workforce  int_workforce_state_accumulator                            *)
(*   benefits   int_enrollment_state_accumulator and                       *)
(*              int_deferral_rate_state_accumulator, the registered ones   *)
(*   snapshot   fct_workforce_snapshot                                     *)
Tables  == {"baseline", "needs", "events", "workforce", "benefits",
            "snapshot"}
Facts   == {"events", "snapshot"}
Yearly  == Tables \ {"baseline"}

VARIABLES
  n,           \* the number of the latest run
  request,     \* its arguments and configuration
  phase,       \* where it stands, or how it ended
  year,        \* the year it is simulating
  built,       \* models of STATE_ACCUMULATION done in this year
  rows,        \* rows[t][y]: the runs whose work is in t's rows of y
  projection,  \* the same of the two projections, for the decision year
  tablesExist, \* the tables of the benefit models have been created
  \* run_metadata
  stamp,       \* the configuration of its latest record
  recorded,    \* the configuration of each run
  reported,    \* the runs that reported a drift
  offRecord    \* the runs that built under parameters no record shows

vars == <<n, request, phase, year, built, rows, projection, tablesExist,
          stamp, recorded, reported, offRecord>>

database   == <<rows, tablesExist>>
provenance == <<stamp, recorded, reported, offRecord>>

Requests ==
  {r \in [kind : Kinds, config : Configs, setup : Setups, from : Years,
          to : Years, dry : BOOLEAN] :
     /\ r.from <= r.to
     /\ r.kind = "calibrate" => r.from = FirstYear /\ ~r.dry}

NoRequest == [kind |-> "none"]

Ended       == phase \in {"idle", "complete", "failed"}
Simulates   == request.kind = "simulate"
Calibrates  == request.kind = "calibrate"
IsFirstYear == year = FirstYear

Init ==
  /\ n = 0
  /\ request = NoRequest
  /\ phase = "idle"
  /\ year = FirstYear
  /\ built = {}
  /\ rows = [t \in Tables |-> [y \in Years |-> {}]]
  /\ projection = [workforce |-> {}, enrollment |-> {}]
  /\ tablesExist = FALSE
  /\ stamp = NoConfig
  /\ recorded = [r \in Runs |-> NoConfig]
  /\ reported = {}
  /\ offRecord = {}

----------------------------------------------------------------------------
(* What is cleared, and what the builds read *)

Matching(setup) ==
  {t \in Tables : (IF t \in Facts THEN "fct_" ELSE "int_") \in setup.patterns}

\* maybe_full_reset, and _full_reset_active, which mirrors it.
ResetsAll(setup) == setup.clear_tables = "true" /\ setup.clear_mode = "all"

\* maybe_clear_year_data.
PurgesYears(setup) ==
  setup.clear_tables # "false" /\ setup.clear_mode = "year"

Without(tables, years) ==
  [t \in Tables |-> [y \in Years |->
     IF t \in tables /\ y \in years THEN {} ELSE rows[t][y]]]

Prior(t) == IF IsFirstYear THEN {} ELSE rows[t][year - 1]

\* YearDependencyValidator: rows of the year before, whoever wrote them.
PriorYearPresent == IsFirstYear \/ Prior("benefits") # {}

\* The events of the years before, which projections and builds read back to the
\* first one.
EarlierEvents == UNION {rows["events"][y] : y \in FirstYear..(year - 1)}

\* EnrollmentDecisionProjection.rebuild: the baseline, every event before the
\* decision year, and the enrollment state of the year before.
EnrollmentDecision ==
  UNION {rows["baseline"][FirstYear], Prior("benefits"), EarlierEvents}

\* Rows of t in this year that an incremental build with a key per employee
\* leaves: those of employees it does not regenerate.
Leftovers(t) == SUBSET rows[t][year]

\* The rows of t in this year become those with these origins.
Holds(t, origins) == rows' = [rows EXCEPT ![t][year] = origins]

To(where) == phase' = where

----------------------------------------------------------------------------
(* The start of a run *)

\* A calibration refuses a database without the tables it does not build.
Begin ==
  /\ Ended
  /\ n < MaxRuns
  /\ n' = n + 1
  /\ request' \in Requests
  /\ request'.kind = "calibrate" => tablesExist
  /\ year' = request'.from
  /\ built' = {}
  /\ To(IF request'.kind = "simulate" THEN "resetting" ELSE "stamping")
  /\ UNCHANGED <<database, projection, provenance>>

\* maybe_full_reset.  A dry run goes on without a record.
FullReset ==
  /\ phase = "resetting"
  /\ rows' = IF ResetsAll(request.setup)
             THEN Without(Matching(request.setup), Years)
             ELSE rows
  /\ To(IF request.dry THEN "purging" ELSE "stamping")
  /\ UNCHANGED <<n, request, year, built, projection, tablesExist,
                 provenance>>

YearBegins == IF Simulates THEN "purging" ELSE "projecting"

\* The drift message of a run that resets everything is downgraded: it says
\* that mixed generations are impossible.
Downgraded == Simulates /\ ResetsAll(request.setup)

\* Faulty variant: the run is recorded when it has completed, so the record
\* of one that failed is missing.
StampUnrecorded ==
  /\ phase = "stamping"
  /\ reported' = IF stamp \notin {NoConfig, request.config} /\ ~Downgraded
                 THEN reported \cup {n} ELSE reported
  /\ stamp' = IF stamp = NoConfig THEN request.config ELSE stamp
  /\ recorded' = [recorded EXCEPT ![n] = request.config]
  /\ To(YearBegins)
  /\ UNCHANGED <<n, request, year, built, database, projection, offRecord>>

\* check_and_record_run: compare with the latest record, then append one.
Stamp ==
  /\ phase = "stamping"
  /\ reported' = IF stamp \notin {NoConfig, request.config} /\ ~Downgraded
                 THEN reported \cup {n} ELSE reported
  /\ stamp' = request.config
  /\ recorded' = [recorded EXCEPT ![n] = request.config]
  /\ To(YearBegins)
  /\ UNCHANGED <<n, request, year, built, database, projection, offRecord>>

\* Without a construction signature a database error does not stop the run.
StampSkipped ==
  /\ phase = "stamping"
  /\ Calibrates
  /\ offRecord' = offRecord \cup {n}
  /\ To(YearBegins)
  /\ UNCHANGED <<n, request, year, built, database, projection, stamp,
                 recorded, reported>>

----------------------------------------------------------------------------
(* A year: _execute_year_workflow, CalibrationRunner._build_year *)

\* Faulty variant: only the fact tables are cleared.
PurgeFactsOnly ==
  /\ phase = "purging"
  /\ rows' = Without(Facts, {year})
  /\ To("projecting")
  /\ UNCHANGED <<n, request, year, built, projection, tablesExist,
                 provenance>>

\* maybe_clear_year_data and clear_year_fact_rows.
Purge ==
  /\ phase = "purging"
  /\ rows' = Without(Facts \cup (IF PurgesYears(request.setup)
                                 THEN Matching(request.setup) ELSE {}),
                     {year})
  /\ To("projecting")
  /\ UNCHANGED <<n, request, year, built, projection, tablesExist,
                 provenance>>

\* The projections expose the year before to the decision year.  A simulation
\* first checks that there is one; in its first year the enrollment projection
\* holds nothing for this year yet.  A dry run rebuilds neither.
Project ==
  /\ phase = "projecting"
  /\ Simulates /\ ~request.dry => PriorYearPresent
  /\ projection' =
       IF request.dry THEN projection
       ELSE [workforce |-> Prior("workforce"),
             enrollment |-> IF Simulates /\ IsFirstYear
                            THEN {} ELSE EnrollmentDecision]
  /\ To("foundation")
  /\ UNCHANGED <<n, request, year, built, database, provenance>>

\* The first year of a simulation builds with --full-refresh, which drops the
\* rows of every year.
BuildFirstFoundation ==
  rows' = [rows EXCEPT
             !["baseline"] = [y \in Years |-> IF y = year THEN {n} ELSE {}],
             !["needs"]    = [y \in Years |-> IF y = year THEN {n} ELSE {}]]

\* Without a workforce of the year before there is no compensation row.
BuildLaterFoundation ==
  \E left \in Leftovers("needs") :
    Holds("needs", left \cup IF projection.workforce = {} THEN {}
                             ELSE UNION {{n}, projection.workforce,
                                         projection.enrollment})

\* A calibration builds its first year without a full refresh.
RebuildFirstFoundation ==
  \E baseline \in Leftovers("baseline"), needs \in Leftovers("needs") :
    rows' = [rows EXCEPT !["baseline"][year] = baseline \cup {n},
                         !["needs"][year] = UNION {needs, baseline, {n}}]

\* Faulty variant: every year is built with a full refresh.
FoundationRefreshed ==
  /\ phase = "foundation"
  /\ \/ request.dry /\ UNCHANGED rows
     \/ ~request.dry /\ Simulates /\ BuildFirstFoundation
     \/ ~request.dry /\ Calibrates /\ IsFirstYear /\ RebuildFirstFoundation
     \/ ~request.dry /\ Calibrates /\ ~IsFirstYear /\ BuildLaterFoundation
  /\ To("generating")
  /\ UNCHANGED <<n, request, year, built, projection, tablesExist,
                 provenance>>

\* INITIALIZATION and FOUNDATION.
Foundation ==
  /\ phase = "foundation"
  /\ \/ request.dry /\ UNCHANGED rows
     \/ ~request.dry /\ Simulates /\ IsFirstYear /\ BuildFirstFoundation
     \/ ~request.dry /\ Calibrates /\ IsFirstYear /\ RebuildFirstFoundation
     \/ ~request.dry /\ ~IsFirstYear /\ BuildLaterFoundation
  /\ To("generating")
  /\ UNCHANGED <<n, request, year, built, projection, tablesExist,
                 provenance>>

\* Faulty variant: the baseline is counted in place of this year's rows.
FoundationHasBaseline == rows["baseline"][FirstYear] # {}

\* StageValidator._validate_foundation.
FoundationIsSound == rows["needs"][year] # {}

EventInputs ==
  UNION {{n}, rows["needs"][year], projection.workforce,
         projection'.enrollment, Prior("benefits"), EarlierEvents,
         IF IsFirstYear THEN rows["baseline"][FirstYear] ELSE {}}

\* EVENT_GENERATION.  A calibration publishes its compensation events with the
\* benefit events of the build before it.
Generate ==
  /\ phase = "generating"
  /\ \/ /\ request.dry
        /\ UNCHANGED <<rows, projection>>
     \/ /\ Simulates /\ ~request.dry
        /\ FoundationIsSound
        /\ PriorYearPresent
        /\ projection' = [projection EXCEPT !.enrollment = EnrollmentDecision]
        /\ Holds("events", EventInputs)
     \/ /\ Calibrates
        /\ UNCHANGED projection
        /\ Holds("events", rows["events"][year] \cup EventInputs)
  /\ To("publishing")
  /\ UNCHANGED <<n, request, year, built, tablesExist, provenance>>

\* STATE_ACCUMULATION begins: the year before must be there, also for a dry
\* run, and the snapshot's rows of this year are deleted.
OpenAccumulation ==
  /\ phase = "publishing"
  /\ Simulates => PriorYearPresent
  /\ rows' = IF Simulates THEN Without({"snapshot"}, {year}) ELSE rows
  /\ built' = IF Simulates THEN {} ELSE {"benefits"}
  /\ To("accumulating")
  /\ UNCHANGED <<n, request, year, projection, tablesExist, provenance>>

\* One dbt run over the models: those that do not depend on each other are
\* built in either order, and one that fails leaves the others built.
Model(m, needs) ==
  /\ phase = "accumulating"
  /\ ~request.dry
  /\ m \notin built
  /\ needs \subseteq built
  /\ built' = built \cup {m}
  /\ UNCHANGED <<n, request, phase, year, projection, provenance>>

BaselineOrPrior(t) ==
  IF IsFirstYear THEN rows["baseline"][FirstYear] ELSE Prior(t)

BuildWorkforce ==
  /\ Model("workforce", {})
  /\ Holds("workforce", UNION {{n}, rows["events"][year],
                               BaselineOrPrior("workforce")})
  /\ UNCHANGED tablesExist

BuildBenefits ==
  /\ Model("benefits", {})
  /\ \E left \in Leftovers("benefits") :
       Holds("benefits", UNION {left, {n}, rows["events"][year],
                                rows["needs"][year],
                                BaselineOrPrior("benefits")})
  /\ tablesExist' = TRUE

BuildSnapshot ==
  /\ Model("snapshot", {"workforce", "benefits"})
  /\ \E left \in Leftovers("snapshot") :
       Holds("snapshot", UNION {left, {n}, rows["workforce"][year],
                                rows["benefits"][year], rows["events"][year],
                                EarlierEvents, Prior("snapshot")})
  /\ UNCHANGED tablesExist

\* Faulty variant: one year too many.
EndYearLate ==
  /\ phase = "accumulating"
  /\ request.dry \/ "snapshot" \in built
  /\ IF year <= request.to
     THEN year' = year + 1 /\ To(YearBegins)
     ELSE UNCHANGED year /\ To("complete")
  /\ UNCHANGED <<n, request, built, database, projection, provenance>>

\* VALIDATION and REPORTING build nothing.
EndYear ==
  /\ phase = "accumulating"
  /\ request.dry \/ "snapshot" \in built
  /\ IF year < request.to
     THEN year' = year + 1 /\ To(YearBegins)
     ELSE UNCHANGED year /\ To("complete")
  /\ UNCHANGED <<n, request, built, database, projection, provenance>>

----------------------------------------------------------------------------
(* The end of a run *)

\* A stage fails, a check raises, or the process is killed: what has been
\* built stays.
Fail ==
  /\ ~Ended
  /\ To("failed")
  /\ UNCHANGED <<n, request, year, built, database, projection, provenance>>

\* rerun_with_params: the same years under other parameters.
Retune ==
  /\ phase = "complete"
  /\ Calibrates
  /\ year' = request.from
  /\ offRecord' = offRecord \cup {n}
  /\ To("projecting")
  /\ UNCHANGED <<n, request, built, database, projection, stamp, recorded,
                 reported>>

Next ==
  \/ Begin \/ FullReset \/ Stamp \/ StampSkipped
  \/ Purge \/ Project \/ Foundation \/ Generate
  \/ OpenAccumulation \/ BuildWorkforce \/ BuildBenefits \/ BuildSnapshot
  \/ EndYear \/ Fail \/ Retune

Spec == Init /\ [][Next]_vars

\* A run that has begun goes on until it ends.
Proceed ==
  \/ FullReset \/ Stamp \/ Purge \/ Project \/ Foundation \/ Generate
  \/ OpenAccumulation \/ BuildWorkforce \/ BuildBenefits \/ BuildSnapshot
  \/ EndYear \/ Fail

FairSpec == Spec /\ WF_vars(Proceed)

----------------------------------------------------------------------------
(* Properties *)

Phases == {"idle", "resetting", "stamping", "purging", "projecting",
           "foundation", "generating", "publishing", "accumulating",
           "complete", "failed"}

\* Every variable has its type.
TypeOK ==
  /\ n \in 0..MaxRuns
  /\ phase \in Phases
  /\ request \in Requests \cup {NoRequest}
  /\ request = NoRequest => phase = "idle"
  /\ phase = "idle" => request = NoRequest
  /\ phase # "idle" => n \in Runs
  /\ year \in Years
  /\ built \in SUBSET {"workforce", "benefits", "snapshot"}
  /\ rows \in [Tables -> [Years -> SUBSET Runs]]
  /\ projection \in [workforce : SUBSET Runs, enrollment : SUBSET Runs]
  /\ tablesExist \in BOOLEAN
  /\ stamp \in Configs \cup {NoConfig}
  /\ recorded \in [Runs -> Configs \cup {NoConfig}]
  /\ reported \in SUBSET Runs
  /\ offRecord \in SUBSET Runs

\* What the run may have in the years it built: its own work, and that of the
\* years before its first one.
Allowed ==
  {n} \cup UNION {rows[t][y] : t \in Tables, y \in FirstYear..(request.from - 1)}

Owns(t, y) == rows[t][y] \subseteq Allowed

\* A setup with which every table of a simulated year is cleared first.
Clears(setup) ==
  (PurgesYears(setup) \/ ResetsAll(setup)) /\ setup.patterns = Prefixes

CompletedSimulation == phase = "complete" /\ Simulates /\ ~request.dry

\* In the years of a completed simulation that clears what it rebuilds, nothing
\* is left of an earlier run of those or later years, neither as a row nor as
\* something a row was computed from, whatever earlier runs, failed or
\* complete, left in the database (specs/108, FR-004 and FR-005).
RebuiltYearsAreClean ==
  CompletedSimulation /\ Clears(request.setup) =>
    \A t \in Tables, y \in request.from..request.to : Owns(t, y)

\* A simulation that clears what it rebuilds and completes has built every table
\* of each of its years, each on a year before with a workforce and with
\* benefits: a missing or half-built year makes it fail.
CompletedYearsAreChained ==
  CompletedSimulation /\ Clears(request.setup) =>
    \A y \in request.from..request.to :
      /\ \A t \in Yearly : n \in rows[t][y]
      /\ y > FirstYear => /\ rows["workforce"][y - 1] # {}
                          /\ rows["benefits"][y - 1] # {}

Stamped == phase \notin {"idle", "resetting", "stamping"}

\* When the database holds the work of a run recorded under another
\* configuration than the latest record, a run since then has said so.
NoSilentMixture ==
  \A t \in Tables, y \in Years : \A q \in rows[t][y] \ offRecord :
    recorded[q] = stamp \/ \E p \in reported : p > q

\* While a run is building years, the years before the current one stay as they
\* are.
EarlierYearsAreKept ==
  [][Stamped /\ ~Ended =>
       \A t \in Tables, y \in FirstYear..(year - 1) :
         rows'[t][y] = rows[t][y]]_vars

\* A dry run writes nothing (pipeline_orchestrator.py, specs/109 contract).
DryRunWritesNothing ==
  [][~Ended /\ request.dry => UNCHANGED rows]_vars
=============================================================================
