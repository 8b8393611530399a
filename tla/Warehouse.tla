------------------------------- MODULE Warehouse -------------------------------
(* The transforms of the pipeline service, bronze to silver to gold: the rounds *)
(* of the transform loop, of POST /refresh, of the dev seed and of its purge.   *)
(* Each statement is a query of its own to ClickHouse, with nothing around it,  *)
(* and rounds of different threads interleave at every one of them. The KYC     *)
(* rate and its fact table stand for the five KPIs and the six tables, which    *)
(* are rebuilt one after the other in the same four statements.                 *)
EXTENDS Naturals, FiniteSets, Sequences, FiniteSetsExt, SequencesExt

CONSTANTS
    Loop,        \* the thread of the transform loop
    Callers,     \* the threads of the requests
    Apps,        \* loan applications
    Events,      \* events: [id, user, name, at, seeded]
    SeededApps,  \* the applications the dev seed fabricates
    Funnel,      \* the stages of kyc_funnel, in order
    DateOf,      \* toDate: the date of each timestamp
    Backlog,     \* the events in bronze when the service first starts
    LimitRows,   \* limit_rows of silver_events.run, 2,000,000
    MaxCalls,    \* bound: requests
    MaxChanges,  \* bound: applications that move on and events that arrive
    MaxFaults    \* bound: statements that raise, and crashes of the service

Threads == {Loop} \cup Callers
ASSUME WarehouseAssumption ==
    /\ Loop \notin Callers /\ IsFiniteSet(Callers) /\ IsFiniteSet(Apps) /\ SeededApps \subseteq Apps
    /\ {LimitRows, MaxCalls, MaxChanges, MaxFaults} \subseteq Nat
    /\ \A d, e \in Events : d.id = e.id => d = e
    /\ \A e \in Events : e.at \in Nat /\ DateOf[e.at] \in Nat
    /\ \A d, e \in Events : d.at <= e.at => DateOf[d.at] <= DateOf[e.at]

VARIABLES
    core,       \* bronze.core_banking: the kyc_step in the latest row of each application, 0 without one
    arrived,    \* bronze.events in the order of _ingested_at
    loans,      \* silver.fact_loan_applications, a row for every writer not yet merged away
    events,     \* silver.events: the copies of each event
    rejects,    \* bronze.events_dead_letter: the rows of each unknown event, counted to 2
    sessions,   \* silver.sessions: event_count of each user's session, 0 without a row
    daily,      \* gold.kpi_daily: the value of each fundamental, 0 without a row
    funnel,     \* gold.funnel_daily: the users that entered each stage, <<user, date>>
    pc, runsFor,    \* the statement each thread is at, 0 between rounds, and what it runs for
    read,       \* the rows a thread has read and not yet written
    overlapped, \* ghost: two rounds once ran at the same time
    calls, changes, faults
warehouseVars == <<core, arrived, loans, events, rejects, sessions, daily, funnel, pc, runsFor, read,
          overlapped, calls, changes, faults>>
bronze == <<core, arrived>>
context == <<events, rejects, sessions, funnel>>
quiet == <<bronze, runsFor, overlapped, calls, changes>>

Users == {e.user : e \in Events}
SeededEvents == SetToSeq({e \in Events : e.seeded})
\* SPECS: the two fundamentals of kyc_completion_rate and the kyc_step each asks for
MinStep == [kyc_started |-> 1, kyc_completed |-> 3]
Funds == DOMAIN MinStep
\* FUNNELS: the stage that must come before, and its chain, earliest first
Requires == [kyc_started |-> "none", kyc_completed |-> "kyc_started", loan_applied |-> "kyc_completed",
             loan_approved |-> "loan_applied", kyc_abandoned |-> "kyc_started"]
Stages == Range(Funnel)
\* a stage is listed after the one that must come before it
ASSUME FunnelAssumption ==
    /\ Funnel \in Seq(DOMAIN Requires)
    /\ \A i \in DOMAIN Funnel :
           Requires[Funnel[i]] # "none" => \E j \in 1 .. (i - 1) : Funnel[j] = Requires[Funnel[i]]
Chain[s \in DOMAIN Requires] ==
    IF Requires[s] = "none" THEN <<s>> ELSE Append(Chain[Requires[s]], s)

(* ---- the statements of a round, in order ---- *)
KpiPath ==
    << <<"read", "loans">>, <<"truncate", "loans">>, <<"insert", "loans">>, <<"optimize", "loans">>,
       <<"delete", "daily">>, <<"daily", "kyc_started">>, <<"daily", "kyc_completed">> >>
ContextPath ==
    << <<"read", "events">>, <<"insert", "events">>, <<"insert", "rejects">>, <<"optimize", "events">>,
       <<"truncate", "sessions">>, <<"insert", "sessions">>, <<"delete", "funnel">> >>
    \o [i \in DOMAIN Funnel |-> <<"stage", Funnel[i]>>]
Path == KpiPath \o ContextPath
NoRows == [loans |-> {}, events |-> {}]
At(t, what, of) == pc[t] # 0 /\ Path[pc[t]] = <<what, of>>

WarehouseInit ==
    /\ \E before \in BOOLEAN :   \* an earlier run of the service seeded, or not
           /\ core = [a \in Apps |-> IF a \notin SeededApps THEN 1 ELSE IF before THEN 3 ELSE 0]
           /\ arrived = IF before THEN Backlog \o SeededEvents ELSE Backlog
    /\ loans = {} /\ events = [i \in {e.id : e \in Events} |-> 0]
    /\ rejects = events /\ sessions = [u \in Users |-> 0]
    /\ daily = [f \in Funds |-> 0]
    /\ funnel = [s \in Stages |-> {}]
    /\ pc = [t \in Threads |-> 0] /\ runsFor = [t \in Threads |-> "loop"] /\ read = [t \in Threads |-> NoRows]
    /\ overlapped = FALSE /\ calls = 0 /\ changes = 0 /\ faults = 0

(* ---- control ---- *)
\* run_transforms: a KPI path that raises leaves the context path to run, which may raise
\* in its turn; the dev seed's rounds end with the KPI path that raised
AfterError(t) == IF pc[t] <= Len(KpiPath) /\ runsFor[t] \in {"loop", "refresh"} THEN Len(KpiPath) + 1 ELSE 0
Return(t) == pc' = [pc EXCEPT ![t] = IF @ = Len(Path) THEN 0 ELSE @ + 1] /\ faults' = faults
Raise(t) == faults < MaxFaults /\ faults' = faults + 1 /\ pc' = [pc EXCEPT ![t] = AfterError(t)]
\* a statement took effect, and the answer may still be lost
Answered(t) == (Return(t) \/ Raise(t)) /\ UNCHANGED quiet
\* a statement that raised and did nothing
Refused(t) == /\ pc[t] # 0 /\ Raise(t)
              /\ read' = [read EXCEPT ![t] = NoRows]
              /\ UNCHANGED <<quiet, loans, context, daily>>

\* a round starts
BeginRound(t, kind) ==
    /\ pc[t] = 0 /\ pc' = [pc EXCEPT ![t] = 1] /\ runsFor' = [runsFor EXCEPT ![t] = kind]
    /\ overlapped' = (overlapped \/ \E v \in Threads : pc[v] # 0)
Tick == BeginRound(Loop, "loop") /\ UNCHANGED <<bronze, loans, context, daily, read, calls, changes, faults>>
Refresh(t) ==
    /\ calls < MaxCalls /\ calls' = calls + 1 /\ BeginRound(t, "refresh")
    /\ UNCHANGED <<bronze, loans, context, daily, read, changes, faults>>
\* generate() lands its batch in bronze, then the transforms run; bound: one batch
Seed(t) ==
    /\ calls < MaxCalls /\ calls' = calls + 1 /\ BeginRound(t, "seed")
    /\ \A a \in SeededApps : core[a] = 0 /\ \A e \in Events : e.seeded => events[e.id] = 0 /\ e \notin Range(arrived)
    /\ \E steps \in [SeededApps -> {1, 3}] :
           core' = [a \in Apps |-> IF a \in SeededApps THEN steps[a] ELSE core[a]]
    /\ arrived' = arrived \o SeededEvents
    /\ UNCHANGED <<loans, context, daily, read, changes, faults>>
\* purge() deletes what the seed landed in bronze, then the transforms run
Purge(t) ==
    /\ calls < MaxCalls /\ calls' = calls + 1 /\ BeginRound(t, "purge")
    /\ core' = [a \in Apps |-> IF a \in SeededApps THEN 0 ELSE core[a]]
    /\ arrived' = SelectSeq(arrived, LAMBDA e : ~ e.seeded)
    /\ UNCHANGED <<loans, context, daily, read, changes, faults>>

(* ---- silver_facts ---- *)
\* _latest_raws
Landed == {a \in Apps : core[a] # 0}
ReadFacts(t) ==
    /\ At(t, "read", "loans") /\ read' = [read EXCEPT ![t].loans = {<<a, core[a]>> : a \in Landed}]
    /\ Answered(t) /\ UNCHANGED <<loans, context, daily>>
\* mutant: the old rows stay, ReplacingMergeTree will replace them
TruncateNothing(t) ==
    /\ At(t, "truncate", "loans") /\ loans' = loans
    /\ Answered(t) /\ UNCHANGED <<context, daily, read>>
\* _write: the table is emptied, then filled with what was read
TruncateFacts(t) ==
    /\ At(t, "truncate", "loans") /\ loans' = {}
    /\ Answered(t) /\ UNCHANGED <<context, daily, read>>
InsertFacts(t) ==
    /\ At(t, "insert", "loans")
    /\ loans' = loans \cup {[by |-> t, app |-> r[1], step |-> r[2]] : r \in read[t].loans}
    /\ read' = [read EXCEPT ![t] = NoRows]
    /\ Answered(t) /\ UNCHANGED <<context, daily>>
\* OPTIMIZE ... FINAL: of the rows with one key the newest source version stays
NewestRows == {r \in loans : \A q \in loans : q.app = r.app => q.step <= r.step}
OptimizeFacts(t) ==
    /\ At(t, "optimize", "loans")
    /\ loans' = {CHOOSE r \in NewestRows : r.app = a : a \in {r.app : r \in loans}}
    /\ Answered(t) /\ UNCHANGED <<context, daily, read>>

(* ---- gold_kpi ---- *)
DeleteGold(t) ==
    /\ At(t, "delete", "daily") /\ daily' = [f \in Funds |-> 0]
    /\ Answered(t) /\ UNCHANGED <<loans, context, read>>
\* count() over the table, duplicates and all; a group that counts nothing has no row, and
\* of two rows the reader takes the later
CountOf(f) == Cardinality({r \in loans : r.step >= MinStep[f]})
InsertGold(t) ==
    /\ \E f \in Funds :
           /\ At(t, "daily", f)
           /\ daily' = IF CountOf(f) = 0 THEN daily ELSE [daily EXCEPT ![f] = CountOf(f)]
    /\ Answered(t) /\ UNCHANGED <<loans, context, read>>

(* ---- silver_events, silver_sessions, daily_funnel ---- *)
Known(e) == e.name \in DOMAIN Requires
ReadEvents(t) ==
    /\ At(t, "read", "events")
    /\ read' = [read EXCEPT ![t] =
           [NoRows EXCEPT !.events = {arrived[i] : i \in 1 .. Min({LimitRows, Len(arrived)})}]]
    /\ Answered(t) /\ UNCHANGED <<loans, context, daily>>
\* silver.events is never truncated: every round inserts every row again, and the merge that
\* follows keeps one of each; a batch that raises may have left some of its rows
Copied(ids) == [i \in DOMAIN events |-> IF i \in ids THEN events[i] + 1 ELSE events[i]]
InsertEvents(t) ==
    LET keep == {e.id : e \in {e \in read[t].events : Known(e)}} IN
    /\ At(t, "insert", "events")
    /\ \/ Return(t) /\ events' = Copied(keep)
       \/ Raise(t) /\ \E part \in SUBSET keep : events' = Copied(part)
    /\ UNCHANGED <<quiet, loans, daily, read, rejects, sessions, funnel>>
InsertRejects(t) ==
    LET dead == {e.id : e \in {e \in read[t].events : ~ Known(e)}} IN
    /\ At(t, "insert", "rejects")
    /\ rejects' = [i \in DOMAIN rejects |-> IF i \in dead THEN Min({2, rejects[i] + 1}) ELSE rejects[i]]
    /\ read' = [read EXCEPT ![t] = NoRows]
    /\ Answered(t) /\ UNCHANGED <<loans, daily, events, sessions, funnel>>
OptimizeEvents(t) ==
    /\ At(t, "optimize", "events") /\ events' = [i \in DOMAIN events |-> Min({1, events[i]})]
    /\ Answered(t) /\ UNCHANGED <<loans, daily, read, rejects, sessions, funnel>>
Of(u) == {e \in Events : e.user = u /\ events[e.id] > 0}
RebuildSessions(t) ==
    /\ \/ At(t, "truncate", "sessions") /\ sessions' = [u \in Users |-> 0]
       \/ /\ At(t, "insert", "sessions")
          /\ sessions' = [u \in Users |-> MapThenSumSet(LAMBDA e : events[e.id], Of(u))]
    /\ Answered(t) /\ UNCHANGED <<loans, daily, read, events, rejects, funnel>>
\* one first-touch time per user and step of the chain, each step reached after the one before
First(u, s) == Min({e.at : e \in {e \in Of(u) : e.name = s}})
\* mutant: every stage on its own
EnteredAlone(s) == {<<u, DateOf[First(u, s)]>> : u \in {u \in Users : \E e \in Of(u) : e.name = s}}
Passed(u, s) ==
    /\ \A i \in DOMAIN Chain[s] : \E e \in Of(u) : e.name = Chain[s][i]
    /\ \A i \in 2 .. Len(Chain[s]) : First(u, Chain[s][i]) >= First(u, Chain[s][i - 1])
\* a user counts on the date of the last step
Entered(s) == {<<u, DateOf[First(u, s)]>> : u \in {u \in Users : Passed(u, s)}}
\* a row per date; of two rows of a date the newer version stays
Newer(old, rows) == rows \cup {r \in old : \A q \in rows : q[2] # r[2]}
RebuildFunnel(t) ==
    /\ \/ At(t, "delete", "funnel") /\ funnel' = [s \in Stages |-> {}]
       \/ \E s \in Stages :
              /\ At(t, "stage", s)
              /\ funnel' = [funnel EXCEPT ![s] = Newer(@, Entered(s))]
    /\ Answered(t) /\ UNCHANGED <<loans, daily, read, events, rejects, sessions>>
\* GET /metric/funnel: the users of a stage in the rows dated in the reader's window
ReadFunnel(s, from, to) == {r[1] : r \in {r \in funnel[s] : from <= r[2] /\ r[2] < to}}

(* ---- the world ---- *)
\* the extract lands a later row of an application, the worker an event
Land == \E a \in Apps \ SeededApps : \E s \in {1, 3} :
            /\ core[a] < s /\ core' = [core EXCEPT ![a] = s] /\ UNCHANGED arrived
Arrive == \E e \in Events : /\ ~ e.seeded /\ e \notin Range(arrived)
                            /\ arrived' = Append(arrived, e) /\ UNCHANGED core
Change ==
    /\ changes < MaxChanges /\ changes' = changes + 1 /\ (Land \/ Arrive)
    /\ UNCHANGED <<loans, context, daily, pc, runsFor, read, overlapped, calls, faults>>
\* the service dies with its threads, and starts again
Crash ==
    /\ faults < MaxFaults /\ faults' = faults + 1
    /\ pc' = [t \in Threads |-> 0] /\ read' = [t \in Threads |-> NoRows]
    /\ UNCHANGED <<quiet, loans, context, daily>>

Statement(t) ==
    \/ ReadFacts(t) \/ TruncateFacts(t) \/ InsertFacts(t) \/ OptimizeFacts(t) \/ DeleteGold(t) \/ InsertGold(t)
    \/ ReadEvents(t) \/ InsertEvents(t) \/ InsertRejects(t) \/ OptimizeEvents(t) \/ RebuildSessions(t)
    \/ RebuildFunnel(t) \/ Refused(t)
Request(t) == Refresh(t) \/ Seed(t) \/ Purge(t)
WarehouseNext ==
    \/ Tick \/ Change \/ Crash
    \/ \E t \in Threads : Statement(t)
    \/ \E t \in Callers : Request(t)
WarehouseSpec == WarehouseInit /\ [][WarehouseNext]_warehouseVars
\* the loop comes round again, and every statement is answered
FairWarehouse == WarehouseSpec /\ WF_warehouseVars(Tick) /\ \A t \in Threads : WF_warehouseVars(Statement(t))

(* ---- properties ---- *)
\* Between rounds the warehouse says what bronze says: a row per application, the KPI
\* counted from them, every event within the limit in silver once, and the
\* sessions and stages those of the events there.
Exact ==
    /\ loans = {[by |-> r.by, app |-> r.app, step |-> core[r.app]] : r \in loans}
    /\ {r.app : r \in loans} = Landed /\ Cardinality(loans) = Cardinality(Landed)
    /\ \A f \in Funds : daily[f] = Cardinality({a \in Apps : core[a] >= MinStep[f]})
    /\ \A i \in 1 .. Min({LimitRows, Len(arrived)}) : Known(arrived[i]) => events[arrived[i].id] = 1
    /\ \A u \in Users : sessions[u] = Cardinality(Of(u))
    /\ \A s \in Stages : funnel[s] = Entered(s)
BetweenRounds == \A t \in Threads : pc[t] = 0
\* However rounds overlap, raise or die in the middle of a table: when bronze stands still
\* and the requests are over, the loop brings every table back to what bronze says.
WarehouseSettles == <>[](BetweenRounds => Exact)

\* "Nothing stopped a later stage from being larger than an earlier one, which is not a
\* funnel": no reader whose window goes back to the first date, wherever it ends, meets a
\* KYC rate above one or a stage larger than the one before, in the middle of a rebuild or
\* after one that raised, while rounds run singly.
Dates == {DateOf[e.at] : e \in Events}
Narrows(s, from, to) == ReadFunnel(s, from, to) \subseteq ReadFunnel(Requires[s], from, to)
LaterStagesAreSmaller ==
    ~ overlapped =>
        /\ daily["kyc_completed"] <= daily["kyc_started"]
        /\ \A s \in Stages, d \in Dates : Requires[s] # "none" => Narrows(s, 0, d + 1)

\* The same of whatever window the reader asks for.
EveryWindowNarrows ==
    ~ overlapped => \A s \in Stages, from, to \in Dates : Requires[s] # "none" => Narrows(s, from, to + 1)

\* "one row per event that failed the pipeline" (0003_events_dead_letter.sql)
OneRowPerReject == \A i \in DOMAIN rejects : rejects[i] <= 1
===============================================================================
