----------------------------- MODULE SignalStore -----------------------------
(***************************************************************************)
(* api/intelligence: the sweeps that investigate a KPI over a window and   *)
(* write what they conclude to the Signal Store, and the queries that pick *)
(* the finding a reader is shown.                                          *)
(*                                                                         *)
(* The model is of one KPI of one tenant, read by one persona: those three *)
(* lead the key of every table.  A window is its length in days and the    *)
(* midnight it ends at.  What a stage concludes from the data is a choice; *)
(* the order of the writes, the keys they go to, and what a re-run replaces*)
(* are the code's.  The service and POST /intelligence/rescore are separate*)
(* processes, so their sweeps interleave.  trust_findings and model_runs,  *)
(* which select no finding, are left out, and so are the factor rows of    *)
(* root_causes.                                                            *)
(*                                                                         *)
(* A table is the set of rows a SELECT ... FINAL returns: of the rows with *)
(* one key, the one of the largest version, the last inserted if they tie. *)
(***************************************************************************)
EXTENDS Naturals, FiniteSets

CONSTANTS
  Sweepers,              \* processes that sweep: the service, a rescore request
  WINDOW_CHOICES,        \* window lengths in days
  WINDOW_DAYS,           \* the length the hourly forecast batch fits for
  MAX_CAUSES,
  FirstDay, MaxDay,      \* bound: midnights
  MaxRuns                \* bound: investigations

ASSUME SignalStoreAssumption ==
  /\ FirstDay \in Nat /\ MaxDay \in Nat /\ FirstDay <= MaxDay
  /\ MaxRuns \in Nat /\ MAX_CAUSES \in Nat
  /\ WINDOW_CHOICES \subseteq 1 .. FirstDay
  /\ WINDOW_DAYS \in WINDOW_CHOICES

VARIABLES
  day,                   \* the last midnight
  runs,                  \* investigations begun
  job,                   \* job[s]: the investigation s is in
  forecasts,             \* gold.forecasts, unmerged: [as_of, horizon]
  anomalies,             \* gold.anomalies: [start, ver, run]
  causes,                \* gold.root_causes: [start, rank, run]
  effects,               \* gold.causal_effects: [start, run]
  recs,                  \* gold.recommendations: [start, lever, run]
  insights,              \* gold.insights
  verdicts,              \* gold.investigations: [start, ver, reason]
  ended,                 \* observed: how the last run over each window to end ended,
  disturbed              \* and the starts where runs overlapped, or one was cut short

evidence == <<anomalies, causes, effects, recs>>
store == <<forecasts, evidence, insights, verdicts>>
vars == <<day, runs, job, store, ended, disturbed>>

Quiet == {"no_anomaly", "immaterial"}
Blocked == {"blocked"}   \* "defect", "not_instrumented" or "ambiguous": no query tells them apart
Reasons == Quiet \cup Blocked \cup {"completed"}

\* anomaly_id and investigation_id are hashes of the window's start: not of its
\* length, and with a fixed method and trigger of nothing else that varies.
Start(j) == j.end - j.w
Idle == [pc |-> "idle", run |-> 0, w |-> 0, end |-> 0, band |-> 0, n |-> 0,
         lever |-> "none", reason |-> "none"]

\* Ctx: a run over the window of w days that ends at end.
Ctx(run, w, end) == [pc |-> "gate", run |-> run, w |-> w, end |-> end, band |-> 0, n |-> 0,
                     lever |-> "none", reason |-> "none"]

Init ==
  /\ day = FirstDay /\ runs = 0
  /\ job = [s \in Sweepers |-> Idle]
  /\ forecasts = {} /\ anomalies = {} /\ causes = {} /\ effects = {} /\ recs = {}
  /\ insights = {} /\ verdicts = {}
  /\ ended = {} /\ disturbed = {}

\* Inserting into a ReplacingMergeTree(ver), given the rows with the same key.
Put(table, same, row) ==
  IF \E old \in same : old.ver > row.ver THEN table ELSE (table \ same) \cup {row}

Goto(s, label) == job' = [job EXCEPT ![s].pc = label]
-----------------------------------------------------------------------------
(* A sweep, seen from the KPI.                                              *)

\* run_forecast_batch, as the service's hourly loop calls it.
ForecastBatch ==
  /\ forecasts' = forecasts \cup {[as_of |-> day - WINDOW_DAYS, horizon |-> WINDOW_DAYS]}
  /\ UNCHANGED <<day, runs, job, evidence, insights, verdicts, ended, disturbed>>

\* sweep: pin the window, refit the band that ends where it begins, and investigate.
Begin(s, w) ==
  /\ job[s].pc = "idle" /\ runs < MaxRuns
  /\ runs' = runs + 1
  /\ job' = [job EXCEPT ![s] = Ctx(runs + 1, w, day)]
  /\ forecasts' = forecasts \cup {[as_of |-> day - w, horizon |-> w]}
  /\ disturbed' = disturbed \cup
       {Start(job[t]) : t \in {t \in Sweepers : job[t].pc # "idle" /\ Start(job[t]) = day - w}}
  /\ UNCHANGED <<day, evidence, insights, verdicts, ended>>

\* trust_gate.run: a fail or an ambiguous check ends the business path.
Gate(s) ==
  /\ job[s].pc = "gate"
  /\ \/ Goto(s, "detect")
     \/ \E why \in Blocked :
          job' = [job EXCEPT ![s] = [@ EXCEPT !.pc = "narrate", !.reason = why]]
  /\ UNCHANGED <<day, runs, store, ended, disturbed>>

\* read_forecast: the newest band fitted up to as_of.
ReadForecast(as_of) ==
  {f.as_of : f \in {f \in forecasts :
     f.as_of <= as_of /\ \A g \in forecasts : g.as_of <= as_of => g.as_of <= f.as_of}}

\* detect.run: nothing fired, or an anomaly, which is written at once.
Detect(s) ==
  /\ job[s].pc = "detect"
  /\ \E band \in ReadForecast(Start(job[s])) :
       \/ \E why \in Quiet :
            /\ job' = [job EXCEPT ![s] = [@ EXCEPT !.pc = "narrate", !.reason = why, !.band = band]]
            /\ UNCHANGED anomalies
       \/ /\ job' = [job EXCEPT ![s] = [@ EXCEPT !.pc = "localize", !.reason = "completed", !.band = band]]
          /\ anomalies' = Put(anomalies, {a \in anomalies : a.start = Start(job[s])},
               [start |-> Start(job[s]), ver |-> job[s].end, run |-> job[s].run])
  /\ UNCHANGED <<day, runs, forecasts, causes, effects, recs, insights, verdicts, ended, disturbed>>

\* localize.run: the ranked cells, or none when it declines to name a driver.
Localize(s) ==
  /\ job[s].pc = "localize"
  /\ \E n \in 0 .. MAX_CAUSES :
       /\ job' = [job EXCEPT ![s] = [@ EXCEPT !.pc = "causal", !.n = n]]
       /\ causes' = {c \in causes : c.start # Start(job[s]) \/ c.rank > n} \cup
            [start : {Start(job[s])}, rank : 1 .. n, run : {job[s].run}]
  /\ UNCHANGED <<day, runs, forecasts, anomalies, effects, recs, insights, verdicts, ended, disturbed>>

\* Mutant: a re-run's verdict lands beside the old one, as when effect_id held the intervention.
EffectBeside(s) == effects \cup {[start |-> Start(job[s]), run |-> job[s].run]}

\* write_causal_effect: one verdict per anomaly, the last written.
EffectOf(s) ==
  {e \in effects : e.start # Start(job[s])} \cup {[start |-> Start(job[s]), run |-> job[s].run]}

\* Mutant: the finding is narrated before Decide has written its recommendation.
CausalThenNarrate(s) ==
  /\ job[s].pc = "causal"
  /\ effects' = EffectOf(s)
  /\ Goto(s, "narrate")
  /\ UNCHANGED <<day, runs, forecasts, anomalies, causes, recs, insights, verdicts, ended, disturbed>>

\* run_causal and the row of its verdict.
Causal(s) ==
  /\ job[s].pc = "causal"
  /\ effects' = EffectOf(s)
  /\ Goto(s, "decide")
  /\ UNCHANGED <<day, runs, forecasts, anomalies, causes, recs, insights, verdicts, ended, disturbed>>

\* run_decide: a lever needs a localized driver, and a contract that allows one.
Decide(s) ==
  /\ job[s].pc = "decide"
  /\ \E lever \in {"investigate"} \cup {l \in {"repair"} : job[s].n > 0} :
       /\ job' = [job EXCEPT ![s] = [@ EXCEPT !.pc = "narrate", !.lever = lever]]
       /\ recs' = {r \in recs : r.start # Start(job[s]) \/ r.lever # lever} \cup
            {[start |-> Start(job[s]), lever |-> lever, run |-> job[s].run]}
  /\ UNCHANGED <<day, runs, forecasts, anomalies, causes, effects, insights, verdicts, ended, disturbed>>

\* The insight a run writes: found is whether it bears an anomaly.
Insight(j) ==
  [w |-> j.w, start |-> Start(j), ver |-> j.end, found |-> j.reason = "completed",
   run |-> j.run, n |-> j.n, lever |-> j.lever]

\* Rows with the key of an insight; one that bears no anomaly has the anomaly id ''.
SameInsight(row) ==
  {i \in insights : i.w = row.w /\ i.found = row.found /\ (row.found => i.start = row.start)}

\* _narrate: the claims become a row the readers can select.
Narrate(s) ==
  /\ job[s].pc = "narrate"
  /\ insights' = Put(insights, SameInsight(Insight(job[s])), Insight(job[s]))
  /\ Goto(s, "finish")
  /\ UNCHANGED <<day, runs, forecasts, evidence, verdicts, ended, disturbed>>

\* finish: the investigation's verdict; started_at is the window's end.
Finish(s) ==
  /\ job[s].pc = "finish"
  /\ verdicts' = Put(verdicts, {v \in verdicts : v.start = Start(job[s])},
       [start |-> Start(job[s]), ver |-> job[s].end, reason |-> job[s].reason])
  /\ ended' = {e \in ended : e.w # job[s].w \/ e.start # Start(job[s])} \cup
       {[w |-> job[s].w, start |-> Start(job[s]), run |-> job[s].run, reason |-> job[s].reason]}
  /\ job' = [job EXCEPT ![s] = Idle]
  /\ UNCHANGED <<day, runs, forecasts, evidence, insights, disturbed>>

\* A stage raises, a query fails or the process dies: what was written stays.
Abort(s) ==
  /\ job[s].pc # "idle"
  /\ job' = [job EXCEPT ![s] = Idle]
  /\ disturbed' = disturbed \cup {Start(job[s])}
  /\ UNCHANGED <<day, runs, store, ended>>

Midnight ==
  /\ day < MaxDay
  /\ day' = day + 1
  /\ UNCHANGED <<runs, job, store, ended, disturbed>>

Next ==
  \/ ForecastBatch \/ Midnight
  \/ \E s \in Sweepers :
       \/ \E w \in WINDOW_CHOICES : Begin(s, w)
       \/ Gate(s) \/ Detect(s) \/ Localize(s) \/ Causal(s) \/ Decide(s)
       \/ Narrate(s) \/ Finish(s) \/ Abort(s)

Spec == Init /\ [][Next]_vars
-----------------------------------------------------------------------------
(* What readers are shown.                                                  *)

\* Mutant: every row of the table.
CandidatesAll(W) == {i \in insights : i.w \in W}

\* Rows that are not superseded: an insight bearing an anomaly is left out when the
\* verdict of its investigation is that there is none.
Candidates(W) ==
  {i \in insights :
     /\ i.w \in W
     /\ i.found => \A v \in verdicts : v.start = i.start => v.reason # "no_anomaly"}

\* The join with gold.anomalies finds the row's anomaly.
Live(i) == i.found /\ \E a \in anomalies : a.start = i.start

\* The ORDER BY of latest_insight: live first, then the later window, then the later run.
Before(i, k) ==
  \/ Live(i) /\ ~ Live(k)
  \/ Live(i) /\ Live(k) /\ i.start > k.start
  \/ (Live(i) <=> Live(k)) /\ (Live(i) => i.start = k.start) /\ i.ver > k.ver

\* Mutant: the newest insight, whether its anomaly is live or not.
Newest(W) == {i \in Candidates(W) : ~ \E k \in Candidates(W) : k.ver > i.ver}

\* latest_insight(window_days): any of the rows its ORDER BY leaves tied but for a hash.
LatestInsight(W) == {i \in Candidates(W) : ~ \E k \in Candidates(W) : Before(k, i)}

\* list_insights: live rows first, the newest of them, one for the KPI.
ListInsights(W) ==
  {i \in Candidates(W) : ~ \E k \in Candidates(W) :
     (Live(k) /\ ~ Live(i)) \/ ((Live(k) <=> Live(i)) /\ k.ver > i.ver)}
-----------------------------------------------------------------------------
(* Properties.                                                              *)

Days == 0 .. MaxDay
Started == 1 .. MaxRuns
Levers == {"investigate", "repair"}
Labels == {"idle", "gate", "detect", "localize", "causal", "decide", "narrate", "finish"}
Contexts ==
  [pc : Labels, run : 0 .. MaxRuns, w : {0} \cup WINDOW_CHOICES, end : Days, band : Days,
   n : 0 .. MAX_CAUSES, lever : Levers \cup {"none"}, reason : Reasons \cup {"none"}]

\* Every variable has its type.
TypeOK ==
  /\ day \in FirstDay .. MaxDay /\ runs \in 0 .. MaxRuns
  /\ job \in [Sweepers -> Contexts]
  /\ forecasts \subseteq [as_of : Days, horizon : WINDOW_CHOICES]
  /\ anomalies \subseteq [start : Days, ver : Days, run : Started]
  /\ causes \subseteq [start : Days, rank : 1 .. MAX_CAUSES, run : Started]
  /\ effects \subseteq [start : Days, run : Started]
  /\ recs \subseteq [start : Days, lever : Levers, run : Started]
  /\ insights \subseteq [w : WINDOW_CHOICES, start : Days, ver : Days, found : BOOLEAN,
       run : Started, n : 0 .. MAX_CAUSES, lever : Levers \cup {"none"}]
  /\ verdicts \subseteq [start : Days, ver : Days, reason : Reasons]
  /\ ended \subseteq [w : WINDOW_CHOICES, start : Days, run : Started, reason : Reasons]
  /\ disturbed \subseteq Days

\* Windows of two lengths that begin on one day share every id derived from it.
Shared(start) == \E f, g \in forecasts :
  f.as_of = start /\ g.as_of = start /\ f.horizon # g.horizon

\* An investigation of a window from this day is under way.
UnderWay(start) == \E s \in Sweepers : job[s].pc # "idle" /\ Start(job[s]) = start

\* A reader is never handed a finding before the evidence it cites: the anomaly, the
\* causal verdict and the recommendation of a finding are on record, whatever was cut
\* short or replaced (investigate writes them before _narrate).
EvidenceComesFirst ==
  \A i \in insights : i.found =>
    /\ \E a \in anomalies : a.start = i.start
    /\ \E e \in effects : e.start = i.start
    /\ \E r \in recs : r.start = i.start

\* A decision is made against a band whose history ends where its window begins, so the
\* band never contains the movement it judges (service.py 66-75, orchestrator.py 284-289).
BandEndsWhereTheWindowBegins ==
  \A s \in Sweepers : job[s].reason \in Quiet \cup {"completed"} => job[s].band = Start(job[s])

\* Once the last run over a window to end found no anomaly, no reader is handed a
\* finding from that window, although its row is still in the table; unless a window of
\* another length began on that day (the supersession rule of latest_insight).
QuietVerdictSilences ==
  \A W \in {{w} : w \in WINDOW_CHOICES} \cup {WINDOW_CHOICES} :
    \A i \in LatestInsight(W), e \in ended :
      i.found /\ e.start = i.start /\ e.w = i.w /\ e.reason = "no_anomaly" => Shared(i.start)

\* When the last run over a window to end found an anomaly, a reader of that window is
\* handed a live finding, from that window or a later one, however many quiet runs
\* wrote beside it.
FindingIsServed ==
  \A e \in ended : e.reason = "completed" /\ ~ Shared(e.start) =>
    /\ LatestInsight({e.w}) # {}
    /\ \A i \in LatestInsight({e.w}) : Live(i) /\ i.start >= e.start

\* The list of insights and the evidence page select the same row of a window.
PageAndListAgree ==
  \A w \in WINDOW_CHOICES : ListInsights({w}) = LatestInsight({w})

\* A finding is shown with the figures of the run that wrote it: its anomaly, its causal
\* verdict, the causes it ranked and the lever it chose are that run's, unless runs
\* over the window overlapped or were cut short, or it shares its day.
FiguresAreOneRuns ==
  \A w \in WINDOW_CHOICES : \A i \in LatestInsight({w}) :
    i.found /\ ~ UnderWay(i.start) /\ i.start \notin disturbed /\ ~ Shared(i.start) =>
      /\ \A a \in anomalies : a.start = i.start => a.run = i.run
      /\ \A e \in effects : e.start = i.start => e.run = i.run
      /\ \A c \in causes : c.start = i.start /\ c.rank <= i.n => c.run = i.run
      /\ \A r \in recs : r.start = i.start /\ r.lever = i.lever => r.run = i.run

\* "A superseded finding must never be served" (reader.py 79): no later run over its
\* window has ended since the run whose finding a reader is handed.
SupersededNeverServed ==
  \A w \in WINDOW_CHOICES : \A i \in LatestInsight({w}), e \in ended :
    i.found /\ e.start = i.start /\ e.w = w => e.run <= i.run
=============================================================================
