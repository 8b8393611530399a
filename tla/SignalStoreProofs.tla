-------------------------- MODULE SignalStoreProofs --------------------------
(***************************************************************************)
(* What holds of the Signal Store for any number of sweepers, windows and  *)
(* investigations: findings come with their evidence, bands end where the  *)
(* windows begin, a quiet verdict silences its finding, a standing finding *)
(* is served with one run's figures, and page and list show the same one.  *)
(* And of the warehouse the investigations read, for any number of threads *)
(* and any funnel: no stage is larger than the one before it, to a reader  *)
(* whose window goes back to the first date.                               *)
(***************************************************************************)
EXTENDS SignalStore, Warehouse, WellFoundedInduction, FiniteSetTheorems, SequenceTheorems, TLAPS

\* A run under way is over a window that ends at a midnight of the model, and has
\* fitted a band that ends where the window begins.
RunsHaveBands ==
  \A s \in Sweepers : job[s].pc # "idle" =>
    /\ job[s].w \in WINDOW_CHOICES /\ job[s].end \in FirstDay .. MaxDay /\ job[s].run \in Started
    /\ [as_of |-> Start(job[s]), horizon |-> job[s].w] \in forecasts

\* The rows a run has written by the time it is at pc.
EvidenceSoFar ==
  \A s \in Sweepers : job[s].reason = "completed" =>
    /\ job[s].pc \in {"localize", "causal", "decide", "narrate", "finish"}
    /\ \E a \in anomalies : a.start = Start(job[s])
    /\ job[s].pc \in {"decide", "narrate", "finish"} => \E e \in effects : e.start = Start(job[s])
    /\ job[s].pc \in {"narrate", "finish"} => \E r \in recs : r.start = Start(job[s])

\* Until the Trust Gate is passed, and Detect has decided, a run has no reason to end.
ReasonsSoFar ==
  \A s \in Sweepers :
    /\ job[s].pc \in {"idle", "gate", "detect"} => job[s].reason = "none"
    /\ job[s].pc \in {"localize", "causal", "decide"} => job[s].reason = "completed"
    /\ job[s].pc \in {"narrate", "finish"} => job[s].reason \in Reasons

\* The verdict of an investigation is that of a window on record, and unless windows
\* share their first day the last run to end is the one on record.
VerdictsAreOfWindows ==
  \A v \in verdicts : \E f \in forecasts : f.as_of = v.start /\ v.ver = v.start + f.horizon

EndedIsTheVerdict ==
  \A e \in ended :
    /\ [as_of |-> e.start, horizon |-> e.w] \in forecasts
    /\ ~ Shared(e.start) => \E v \in verdicts : v.start = e.start /\ v.reason = e.reason

IInv ==
  /\ TypeOK /\ RunsHaveBands /\ ReasonsSoFar
  /\ EvidenceSoFar /\ EvidenceComesFirst
  /\ BandEndsWhereTheWindowBegins
  /\ VerdictsAreOfWindows /\ EndedIsTheVerdict

(* Sharing a day is for ever: bands are not forgotten.                       *)
LEMMA SharedStays ==
    ASSUME forecasts \subseteq forecasts', NEW start, ~ Shared(start)'
    PROVE  ~ Shared(start)
BY DEF Shared

(* A window begins and ends on a day of the model.                           *)
LEMMA StartsAreDays ==
    ASSUME RunsHaveBands, NEW s \in Sweepers, job[s].pc # "idle"
    PROVE  /\ Start(job[s]) \in Days /\ job[s].end = Start(job[s]) + job[s].w
           /\ job[s].end \in Days /\ job[s].run \in Started
<1>1. job[s].w \in 1 .. FirstDay /\ job[s].end \in FirstDay .. MaxDay /\ job[s].run \in Started
    BY SignalStoreAssumption DEF RunsHaveBands
<1> QED
    BY <1>1, SignalStoreAssumption DEF Start, Days

(* The band a run reads ends where its window begins.                        *)
LEMMA BandRead ==
    ASSUME TypeOK, RunsHaveBands, NEW s \in Sweepers, job[s].pc # "idle",
           NEW band \in ReadForecast(Start(job[s]))
    PROVE  band = Start(job[s])
<1>1. PICK f \in forecasts :
        /\ band = f.as_of /\ f.as_of <= Start(job[s])
        /\ \A g \in forecasts : g.as_of <= Start(job[s]) => g.as_of <= f.as_of
    BY DEF ReadForecast
<1>2. f.as_of \in Nat /\ Start(job[s]) \in Nat
    BY StartsAreDays DEF TypeOK, Days
<1>3. DEFINE g == [as_of |-> Start(job[s]), horizon |-> job[s].w]
<1>4. g \in forecasts /\ g.as_of = Start(job[s])
    BY DEF RunsHaveBands
<1>5. g.as_of <= f.as_of
    BY <1>1, <1>2, <1>4
<1> QED
    BY <1>1, <1>2, <1>4, <1>5

(* Inserting a row leaves a row for every key that had one, and one for its own. *)
LEMMA PutKeeps ==
    ASSUME NEW table, NEW row, NEW same,
           \A old : old \in same <=> old \in table /\ old.start = row.start
    PROVE  /\ \A old \in table : \E new \in Put(table, same, row) : new.start = old.start
           /\ (\A old \in same : ~ (old.ver > row.ver)) =>
                 \A new \in Put(table, same, row) : new.start = row.start => new = row
           /\ Put(table, same, row) \subseteq table \cup {row}
           /\ \E new \in Put(table, same, row) : new.start = row.start
BY DEF Put

(* An empty store satisfies the invariant.                                   *)
THEOREM InitIInv == Init => IInv
<1> SUFFICES ASSUME Init PROVE IInv
    OBVIOUS
<1> USE DEF Init, Idle
<1>1. TypeOK
    BY SignalStoreAssumption DEF TypeOK, Contexts, Labels, Days, Levers, Reasons
<1>2. RunsHaveBands /\ ReasonsSoFar /\ EvidenceSoFar /\ EvidenceComesFirst
    BY DEF RunsHaveBands, ReasonsSoFar, EvidenceSoFar, EvidenceComesFirst
<1>3. BandEndsWhereTheWindowBegins /\ VerdictsAreOfWindows /\ EndedIsTheVerdict
    BY DEF BandEndsWhereTheWindowBegins, VerdictsAreOfWindows, EndedIsTheVerdict, Quiet
<1> QED
    BY <1>1, <1>2, <1>3 DEF IInv

(* The verdicts on record stay those of windows, and of the last runs to end, while *)
(* bands are only added.                                                     *)
LEMMA VerdictsStay ==
    ASSUME VerdictsAreOfWindows, EndedIsTheVerdict,
           forecasts \subseteq forecasts', UNCHANGED <<verdicts, ended>>
    PROVE  VerdictsAreOfWindows' /\ EndedIsTheVerdict'
<1>1. VerdictsAreOfWindows'
    BY DEF VerdictsAreOfWindows
<1>2. EndedIsTheVerdict'
    <2> SUFFICES ASSUME NEW e \in ended
                 PROVE  /\ [as_of |-> e.start, horizon |-> e.w] \in forecasts'
                        /\ ~ Shared(e.start)' => \E v \in verdicts : v.start = e.start /\ v.reason = e.reason
        BY DEF EndedIsTheVerdict, Shared
    <2> QED BY DEF EndedIsTheVerdict, Shared
<1> QED BY <1>1, <1>2

(* Evidence that is only replaced by rows of the same start is still there.  *)
LEMMA EvidenceStays ==
    ASSUME EvidenceComesFirst, insights' = insights,
           \A a \in anomalies : \E b \in anomalies' : b.start = a.start,
           \A a \in effects : \E b \in effects' : b.start = a.start,
           \A a \in recs : \E b \in recs' : b.start = a.start
    PROVE  EvidenceComesFirst'
BY DEF EvidenceComesFirst

(* Every write of a sweep, wherever it is cut short, keeps the invariant.    *)
LEMMA StepIInv == IInv /\ [Next]_vars => IInv'
<1> SUFFICES ASSUME IInv, [Next]_vars PROVE IInv'
    OBVIOUS
<1> USE DEF IInv
<1>1. CASE UNCHANGED vars
    <2> USE <1>1 DEF vars, store, evidence
    <2>1. TypeOK'
        BY DEF TypeOK
    <2>2. RunsHaveBands' /\ ReasonsSoFar' /\ BandEndsWhereTheWindowBegins'
        BY DEF RunsHaveBands, ReasonsSoFar, BandEndsWhereTheWindowBegins
    <2>3. EvidenceSoFar' /\ EvidenceComesFirst'
        BY DEF EvidenceSoFar, EvidenceComesFirst
    <2>4. VerdictsAreOfWindows' /\ EndedIsTheVerdict'
        BY VerdictsStay
    <2> QED BY <2>1, <2>2, <2>3, <2>4
<1>2. CASE ForecastBatch
    <2> USE <1>2 DEF ForecastBatch, evidence
    <2>1. TypeOK'
        <3>1. day - WINDOW_DAYS \in Days
            <4>1. day \in FirstDay .. MaxDay /\ WINDOW_DAYS \in 1 .. FirstDay
                BY SignalStoreAssumption DEF TypeOK
            <4> QED BY <4>1, SignalStoreAssumption DEF Days
        <3> QED BY <3>1, SignalStoreAssumption DEF TypeOK
    <2>2. RunsHaveBands' /\ ReasonsSoFar' /\ BandEndsWhereTheWindowBegins'
        BY DEF RunsHaveBands, ReasonsSoFar, BandEndsWhereTheWindowBegins
    <2>3. EvidenceSoFar' /\ EvidenceComesFirst'
        BY DEF EvidenceSoFar, EvidenceComesFirst
    <2>4. VerdictsAreOfWindows' /\ EndedIsTheVerdict'
        BY VerdictsStay
    <2> QED BY <2>1, <2>2, <2>3, <2>4
<1>3. CASE Midnight
    <2> USE <1>3 DEF Midnight, store, evidence
    <2>1. TypeOK'
        BY SignalStoreAssumption DEF TypeOK
    <2>2. RunsHaveBands' /\ ReasonsSoFar' /\ BandEndsWhereTheWindowBegins'
        BY DEF RunsHaveBands, ReasonsSoFar, BandEndsWhereTheWindowBegins
    <2>3. EvidenceSoFar' /\ EvidenceComesFirst'
        BY DEF EvidenceSoFar, EvidenceComesFirst
    <2>4. VerdictsAreOfWindows' /\ EndedIsTheVerdict'
        BY VerdictsStay
    <2> QED BY <2>1, <2>2, <2>3, <2>4
<1>4. ASSUME NEW s \in Sweepers, NEW w \in WINDOW_CHOICES, Begin(s, w)
      PROVE  IInv'
    <2> USE <1>4 DEF Begin, evidence
    <2> DEFINE j == Ctx(runs + 1, w, day)
    <2>1. /\ day \in FirstDay .. MaxDay /\ w \in 1 .. FirstDay
          /\ day - w \in Days /\ runs + 1 \in Started
        <3>1. day \in FirstDay .. MaxDay /\ w \in 1 .. FirstDay /\ runs \in Nat /\ runs < MaxRuns
            BY SignalStoreAssumption DEF TypeOK
        <3> QED BY <3>1, SignalStoreAssumption DEF Days, Started
    <2>2. job' = [job EXCEPT ![s] = j]
        OBVIOUS
    <2>3. j = [pc |-> "gate", run |-> runs + 1, w |-> w, end |-> day, band |-> 0, n |-> 0,
               lever |-> "none", reason |-> "none"]
        BY DEF Ctx
    <2> HIDE DEF j
    <2>4. job'[s] = j /\ \A t \in Sweepers \ {s} : job'[t] = job[t]
        BY <2>2 DEF TypeOK
    <2>5. TypeOK'
        <3>1. j \in Contexts
            BY <2>1, <2>3, SignalStoreAssumption DEF Labels, Days, Started, Contexts
        <3>2. \A t \in Sweepers : job[t].pc # "idle" => Start(job[t]) \in Days
            BY StartsAreDays
        <3>3. disturbed' \subseteq Days
            BY <3>2 DEF TypeOK
        <3>4. job' \in [Sweepers -> Contexts]
            BY <2>2, <3>1 DEF TypeOK
        <3>5. forecasts' \subseteq [as_of : Days, horizon : WINDOW_CHOICES]
            BY <2>1 DEF TypeOK
        <3>6. runs' \in 0 .. MaxRuns
            BY <2>1, SignalStoreAssumption DEF Started
        <3> QED BY <3>3, <3>4, <3>5, <3>6 DEF TypeOK
    <2>6. RunsHaveBands'
        BY <2>1, <2>3, <2>4 DEF RunsHaveBands, Start
    <2>7. ReasonsSoFar' /\ BandEndsWhereTheWindowBegins' /\ EvidenceSoFar'
        BY <2>3, <2>4 DEF ReasonsSoFar, BandEndsWhereTheWindowBegins, EvidenceSoFar, Quiet
    <2>8. EvidenceComesFirst' /\ VerdictsAreOfWindows' /\ EndedIsTheVerdict'
        BY VerdictsStay DEF EvidenceComesFirst
    <2> QED BY <2>5, <2>6, <2>7, <2>8
<1>5. ASSUME NEW s \in Sweepers, Gate(s)
      PROVE  IInv'
    <2> USE <1>5 DEF Gate, store, evidence
    <2>1. PICK next \in {"detect", "narrate"}, why \in Blocked \cup {"none"} :
            /\ next = "detect" <=> why = "none"
            /\ job' = [job EXCEPT ![s] = [job[s] EXCEPT !.pc = next, !.reason = why]]
        <3>1. CASE Goto(s, "detect")
            <4>1. job[s].reason = "none"
                BY DEF ReasonsSoFar
            <4>2. [job[s] EXCEPT !.pc = "detect"] = [job[s] EXCEPT !.pc = "detect", !.reason = "none"]
                BY <4>1 DEF TypeOK, Contexts
            <4> QED BY <3>1, <4>2 DEF Goto
        <3>2. CASE \E why \in Blocked : job' = [job EXCEPT ![s] = [@ EXCEPT !.pc = "narrate", !.reason = why]]
            BY <3>2 DEF TypeOK, Blocked
        <3> QED BY <3>1, <3>2
    <2>2. /\ job' \in [Sweepers -> Contexts]
          /\ job'[s].pc = next /\ job'[s].reason = why
          /\ job'[s].w = job[s].w /\ job'[s].end = job[s].end /\ job'[s].run = job[s].run
          /\ \A t \in Sweepers \ {s} : job'[t] = job[t]
        BY <2>1 DEF TypeOK, Contexts, Labels, Reasons
    <2>3. TypeOK'
        BY <2>2 DEF TypeOK
    <2>4. RunsHaveBands'
        BY <2>2 DEF RunsHaveBands, Start
    <2>5. ReasonsSoFar'
        BY <2>1, <2>2 DEF ReasonsSoFar, Reasons
    <2>6. BandEndsWhereTheWindowBegins' /\ EvidenceSoFar'
        BY <2>1, <2>2 DEF BandEndsWhereTheWindowBegins, EvidenceSoFar, Quiet, Blocked
    <2>7. EvidenceComesFirst' /\ VerdictsAreOfWindows' /\ EndedIsTheVerdict'
        BY VerdictsStay DEF EvidenceComesFirst
    <2> QED BY <2>3, <2>4, <2>5, <2>6, <2>7
<1>6. ASSUME NEW s \in Sweepers, Detect(s)
      PROVE  IInv'
    <2> USE <1>6 DEF Detect, evidence
    <2> DEFINE row == [start |-> Start(job[s]), ver |-> job[s].end, run |-> job[s].run]
               same == {a \in anomalies : a.start = Start(job[s])}
    <2>1. PICK band \in ReadForecast(Start(job[s])), next \in {"narrate", "localize"},
               why \in Quiet \cup {"completed"} :
            /\ next = "localize" <=> why = "completed"
            /\ job' = [job EXCEPT ![s] = [@ EXCEPT !.pc = next, !.reason = why, !.band = band]]
            /\ anomalies' = IF why = "completed" THEN Put(anomalies, same, row) ELSE anomalies
        BY DEF Quiet
    <2>2. /\ band = Start(job[s]) /\ Start(job[s]) \in Days
          /\ job[s].end \in Days /\ job[s].run \in Started
        <3>1. job[s].end \in Days /\ job[s].run \in Started
            BY StartsAreDays
        <3>2. band = Start(job[s])
            BY BandRead
        <3>3. Start(job[s]) \in Days
            BY StartsAreDays
        <3> QED BY <3>1, <3>2, <3>3
    <2>3. /\ job' \in [Sweepers -> Contexts]
          /\ job'[s].pc = next /\ job'[s].reason = why /\ job'[s].band = band
          /\ job'[s].w = job[s].w /\ job'[s].end = job[s].end /\ job'[s].run = job[s].run
          /\ \A t \in Sweepers \ {s} : job'[t] = job[t]
        BY <2>1, <2>2 DEF TypeOK, Contexts, Labels, Reasons, Quiet
    <2>4. Start(job'[s]) = Start(job[s])
        BY <2>3 DEF Start
    <2>5. /\ anomalies' \subseteq anomalies \cup {row}
          /\ \A a \in anomalies : \E b \in anomalies' : b.start = a.start
          /\ why = "completed" => \E b \in anomalies' : b.start = Start(job[s])
        <3>1. \A old : old \in same <=> old \in anomalies /\ old.start = row.start
            OBVIOUS
        <3>2. row.start = Start(job[s])
            OBVIOUS
        <3> HIDE DEF same, row
        <3>3. /\ Put(anomalies, same, row) \subseteq anomalies \cup {row}
              /\ \A a \in anomalies : \E b \in Put(anomalies, same, row) : b.start = a.start
              /\ \E b \in Put(anomalies, same, row) : b.start = row.start
            BY <3>1, PutKeeps
        <3>4. CASE why = "completed"
            BY <2>1, <3>2, <3>3, <3>4
        <3>5. CASE why # "completed"
            BY <2>1, <3>5
        <3> QED BY <3>4, <3>5
    <2>6. TypeOK'
        <3>1. row \in [start : Days, ver : Days, run : Started]
            BY <2>2
        <3> QED BY <2>3, <2>5, <3>1 DEF TypeOK
    <2>7. RunsHaveBands'
        BY <2>3, <2>4 DEF RunsHaveBands, Start
    <2>8. ReasonsSoFar' /\ BandEndsWhereTheWindowBegins'
        BY <2>1, <2>2, <2>3, <2>4 DEF ReasonsSoFar, Reasons, BandEndsWhereTheWindowBegins, Quiet
    <2>9. EvidenceSoFar'
        BY <2>1, <2>3, <2>4, <2>5 DEF EvidenceSoFar, Quiet
    <2>10. EvidenceComesFirst' /\ VerdictsAreOfWindows' /\ EndedIsTheVerdict'
        BY <2>5, VerdictsStay, EvidenceStays
    <2> QED BY <2>6, <2>7, <2>8, <2>9, <2>10
<1>7. ASSUME NEW s \in Sweepers, Localize(s)
      PROVE  IInv'
    <2> USE <1>7 DEF Localize
    <2>1. PICK n \in 0 .. MAX_CAUSES :
            /\ job' = [job EXCEPT ![s] = [@ EXCEPT !.pc = "causal", !.n = n]]
            /\ causes' = {c \in causes : c.start # Start(job[s]) \/ c.rank > n} \cup
                 [start : {Start(job[s])}, rank : 1 .. n, run : {job[s].run}]
        OBVIOUS
    <2>2. /\ job' \in [Sweepers -> Contexts]
          /\ job'[s].pc = "causal" /\ job'[s].reason = job[s].reason /\ job'[s].band = job[s].band
          /\ job'[s].w = job[s].w /\ job'[s].end = job[s].end /\ job'[s].run = job[s].run
          /\ \A t \in Sweepers \ {s} : job'[t] = job[t]
        <3> DEFINE c == [job[s] EXCEPT !.pc = "causal", !.n = n]
        <3>1. /\ c \in Contexts
              /\ c.pc = "causal" /\ c.reason = job[s].reason /\ c.band = job[s].band
              /\ c.w = job[s].w /\ c.end = job[s].end /\ c.run = job[s].run
            BY DEF TypeOK, Contexts, Labels
        <3>2. job' = [job EXCEPT ![s] = c]
            BY <2>1
        <3> HIDE DEF c
        <3> QED BY <3>1, <3>2 DEF TypeOK
    <2>3. Start(job'[s]) = Start(job[s])
        BY <2>2 DEF Start
    <2>4. TypeOK'
        <3>1. Start(job[s]) \in Days /\ job[s].run \in Started
            BY StartsAreDays DEF RunsHaveBands
        <3>2. 1 .. n \subseteq 1 .. MAX_CAUSES
            BY SignalStoreAssumption
        <3>3. causes' \subseteq [start : Days, rank : 1 .. MAX_CAUSES, run : Started]
            BY <2>1, <3>1, <3>2 DEF TypeOK
        <3> QED BY <2>2, <3>3 DEF TypeOK
    <2>5. RunsHaveBands'
        BY <2>2, <2>3 DEF RunsHaveBands, Start
    <2>6. ReasonsSoFar' /\ BandEndsWhereTheWindowBegins'
        BY <2>2, <2>3 DEF ReasonsSoFar, BandEndsWhereTheWindowBegins
    <2>7. EvidenceSoFar'
        BY <2>2, <2>3 DEF EvidenceSoFar
    <2>8. EvidenceComesFirst' /\ VerdictsAreOfWindows' /\ EndedIsTheVerdict'
        BY VerdictsStay, EvidenceStays
    <2> QED BY <2>4, <2>5, <2>6, <2>7, <2>8
<1>8. ASSUME NEW s \in Sweepers, Causal(s)
      PROVE  IInv'
    <2> USE <1>8 DEF Causal, Goto
    <2>1. /\ job' \in [Sweepers -> Contexts]
          /\ job'[s].pc = "decide" /\ job'[s].reason = job[s].reason /\ job'[s].band = job[s].band
          /\ job'[s].w = job[s].w /\ job'[s].end = job[s].end /\ job'[s].run = job[s].run
          /\ \A t \in Sweepers \ {s} : job'[t] = job[t]
        BY DEF TypeOK, Contexts, Labels
    <2>2. Start(job'[s]) = Start(job[s])
        BY <2>1 DEF Start
    <2>3. /\ \A e \in effects : \E f \in effects' : f.start = e.start
          /\ \E f \in effects' : f.start = Start(job[s])
        <3> DEFINE row == [start |-> Start(job[s]), run |-> job[s].run]
        <3>1. row \in effects' /\ row.start = Start(job[s])
            BY DEF EffectOf
        <3>2. \A e \in effects : e.start # Start(job[s]) => e \in effects'
            BY DEF EffectOf
        <3> HIDE DEF row
        <3> QED BY <3>1, <3>2
    <2>4. TypeOK'
        <3>1. Start(job[s]) \in Days /\ job[s].run \in Started
            BY StartsAreDays DEF RunsHaveBands
        <3> QED BY <2>1, <3>1 DEF TypeOK, EffectOf
    <2>5. RunsHaveBands'
        BY <2>1, <2>2 DEF RunsHaveBands, Start
    <2>6. ReasonsSoFar' /\ BandEndsWhereTheWindowBegins'
        BY <2>1, <2>2 DEF ReasonsSoFar, BandEndsWhereTheWindowBegins
    <2>7. EvidenceSoFar'
        BY <2>1, <2>2, <2>3 DEF EvidenceSoFar
    <2>8. EvidenceComesFirst' /\ VerdictsAreOfWindows' /\ EndedIsTheVerdict'
        BY <2>3, VerdictsStay, EvidenceStays
    <2> QED BY <2>4, <2>5, <2>6, <2>7, <2>8
<1>9. ASSUME NEW s \in Sweepers, Decide(s)
      PROVE  IInv'
    <2> USE <1>9 DEF Decide
    <2>1. PICK lever \in Levers :
            /\ job' = [job EXCEPT ![s] = [@ EXCEPT !.pc = "narrate", !.lever = lever]]
            /\ recs' = {r \in recs : r.start # Start(job[s]) \/ r.lever # lever} \cup
                 {[start |-> Start(job[s]), lever |-> lever, run |-> job[s].run]}
        BY DEF Levers
    <2>2. /\ job' \in [Sweepers -> Contexts]
          /\ job'[s].pc = "narrate" /\ job'[s].reason = job[s].reason /\ job'[s].band = job[s].band
          /\ job'[s].w = job[s].w /\ job'[s].end = job[s].end /\ job'[s].run = job[s].run
          /\ \A t \in Sweepers \ {s} : job'[t] = job[t]
        <3> DEFINE c == [job[s] EXCEPT !.pc = "narrate", !.lever = lever]
        <3>1. /\ c \in Contexts
              /\ c.pc = "narrate" /\ c.reason = job[s].reason /\ c.band = job[s].band
              /\ c.w = job[s].w /\ c.end = job[s].end /\ c.run = job[s].run
            BY DEF TypeOK, Contexts, Labels
        <3>2. job' = [job EXCEPT ![s] = c]
            BY <2>1
        <3> HIDE DEF c
        <3> QED BY <3>1, <3>2 DEF TypeOK
    <2>3. Start(job'[s]) = Start(job[s])
        BY <2>2 DEF Start
    <2>4. /\ \A r \in recs : \E q \in recs' : q.start = r.start
          /\ \E q \in recs' : q.start = Start(job[s])
        <3> DEFINE row == [start |-> Start(job[s]), lever |-> lever, run |-> job[s].run]
        <3>1. row \in recs' /\ row.start = Start(job[s])
            BY <2>1
        <3>2. \A r \in recs : r.start # Start(job[s]) => r \in recs'
            BY <2>1
        <3> HIDE DEF row
        <3> QED BY <3>1, <3>2
    <2>5. TypeOK'
        <3>1. Start(job[s]) \in Days /\ job[s].run \in Started
            BY StartsAreDays
        <3> QED BY <2>1, <2>2, <3>1 DEF TypeOK
    <2>6. RunsHaveBands'
        BY <2>2, <2>3 DEF RunsHaveBands, Start
    <2>7. ReasonsSoFar' /\ BandEndsWhereTheWindowBegins'
        BY <2>2, <2>3 DEF ReasonsSoFar, Reasons, BandEndsWhereTheWindowBegins
    <2>8. EvidenceSoFar'
        BY <2>2, <2>3, <2>4 DEF EvidenceSoFar
    <2>9. EvidenceComesFirst' /\ VerdictsAreOfWindows' /\ EndedIsTheVerdict'
        BY <2>4, VerdictsStay, EvidenceStays
    <2> QED BY <2>5, <2>6, <2>7, <2>8, <2>9
<1>10. ASSUME NEW s \in Sweepers, Narrate(s)
       PROVE  IInv'
    <2> USE <1>10 DEF Narrate, Goto, evidence
    <2> DEFINE row == Insight(job[s])
    <2>1. /\ job' \in [Sweepers -> Contexts]
          /\ job'[s].pc = "finish" /\ job'[s].reason = job[s].reason /\ job'[s].band = job[s].band
          /\ job'[s].w = job[s].w /\ job'[s].end = job[s].end /\ job'[s].run = job[s].run
          /\ \A t \in Sweepers \ {s} : job'[t] = job[t]
        BY DEF TypeOK, Contexts, Labels
    <2>2. Start(job'[s]) = Start(job[s])
        BY <2>1 DEF Start
    <2>3. insights' \subseteq insights \cup {row}
        BY DEF Put
    <2>4. /\ row \in [w : WINDOW_CHOICES, start : Days, ver : Days, found : BOOLEAN,
                       run : Started, n : 0 .. MAX_CAUSES, lever : Levers \cup {"none"}]
          /\ row.start = Start(job[s]) /\ (row.found <=> job[s].reason = "completed")
        <3>1. /\ job[s].w \in WINDOW_CHOICES /\ job[s].n \in 0 .. MAX_CAUSES
              /\ job[s].lever \in Levers \cup {"none"}
            BY DEF TypeOK, Contexts, RunsHaveBands
        <3>2. Start(job[s]) \in Days /\ job[s].end \in Days /\ job[s].run \in Started
            BY StartsAreDays
        <3> QED BY <3>1, <3>2 DEF Insight
    <2> HIDE DEF row
    <2>5. TypeOK'
        BY <2>1, <2>3, <2>4 DEF TypeOK
    <2>6. RunsHaveBands'
        BY <2>1, <2>2 DEF RunsHaveBands, Start
    <2>7. ReasonsSoFar' /\ BandEndsWhereTheWindowBegins'
        BY <2>1, <2>2 DEF ReasonsSoFar, BandEndsWhereTheWindowBegins
    <2>8. EvidenceSoFar'
        BY <2>1, <2>2 DEF EvidenceSoFar
    <2>9. EvidenceComesFirst'
        BY <2>3, <2>4 DEF EvidenceComesFirst, EvidenceSoFar
    <2>10. VerdictsAreOfWindows' /\ EndedIsTheVerdict'
        BY VerdictsStay
    <2> QED BY <2>5, <2>6, <2>7, <2>8, <2>9, <2>10
<1>11. ASSUME NEW s \in Sweepers, job[s].pc # "idle", job' = [job EXCEPT ![s] = Idle],
              UNCHANGED <<day, runs, forecasts, evidence, insights>>
       PROVE  /\ job' \in [Sweepers -> Contexts]
              /\ RunsHaveBands' /\ ReasonsSoFar' /\ EvidenceSoFar' /\ EvidenceComesFirst'
              /\ BandEndsWhereTheWindowBegins'
    <2> USE <1>11 DEF evidence
    <2>1. Idle \in Contexts /\ Idle.pc = "idle" /\ Idle.reason = "none"
        BY SignalStoreAssumption DEF Idle, Contexts, Labels, Days
    <2>2. /\ job' \in [Sweepers -> Contexts] /\ job'[s] = Idle
          /\ \A t \in Sweepers \ {s} : job'[t] = job[t]
        BY <2>1 DEF TypeOK
    <2>3. RunsHaveBands' /\ ReasonsSoFar' /\ EvidenceSoFar'
        BY <2>1, <2>2 DEF RunsHaveBands, ReasonsSoFar, EvidenceSoFar
    <2>4. EvidenceComesFirst' /\ BandEndsWhereTheWindowBegins'
        BY <2>1, <2>2 DEF EvidenceComesFirst, BandEndsWhereTheWindowBegins, Quiet
    <2> QED BY <2>2, <2>3, <2>4
<1>12. ASSUME NEW s \in Sweepers, Abort(s)
       PROVE  IInv'
    <2> USE <1>12 DEF Abort, store
    <2>1. disturbed' \subseteq Days
        BY StartsAreDays DEF TypeOK
    <2>2. /\ job' \in [Sweepers -> Contexts]
          /\ RunsHaveBands' /\ ReasonsSoFar' /\ EvidenceSoFar' /\ EvidenceComesFirst'
          /\ BandEndsWhereTheWindowBegins'
        BY <1>11
    <2>3. TypeOK'
        BY <2>1, <2>2 DEF TypeOK, evidence
    <2>4. VerdictsAreOfWindows' /\ EndedIsTheVerdict'
        BY VerdictsStay
    <2> QED BY <2>2, <2>3, <2>4
<1>13. ASSUME NEW s \in Sweepers, Finish(s)
       PROVE  IInv'
    <2> USE <1>13 DEF Finish
    <2> DEFINE row == [start |-> Start(job[s]), ver |-> job[s].end, reason |-> job[s].reason]
               same == {v \in verdicts : v.start = Start(job[s])}
               last == [w |-> job[s].w, start |-> Start(job[s]), run |-> job[s].run,
                        reason |-> job[s].reason]
    <2>1. /\ Start(job[s]) \in Days /\ job[s].end = Start(job[s]) + job[s].w
          /\ job[s].end \in Days /\ job[s].run \in Started
        BY StartsAreDays
    <2>2. /\ job[s].reason \in Reasons /\ job[s].w \in WINDOW_CHOICES
          /\ [as_of |-> Start(job[s]), horizon |-> job[s].w] \in forecasts
        BY DEF ReasonsSoFar, RunsHaveBands
    <2>3. /\ job' \in [Sweepers -> Contexts]
          /\ RunsHaveBands' /\ ReasonsSoFar' /\ EvidenceSoFar' /\ EvidenceComesFirst'
          /\ BandEndsWhereTheWindowBegins'
        BY <1>11
    <2>4. /\ row \in [start : Days, ver : Days, reason : Reasons]
          /\ row.start = Start(job[s]) /\ row.ver = job[s].end /\ row.reason = job[s].reason
          /\ \A v : v \in same <=> v \in verdicts /\ v.start = row.start
        BY <2>1, <2>2
    <2>5. /\ last \in [w : WINDOW_CHOICES, start : Days, run : Started, reason : Reasons]
          /\ last.w = job[s].w /\ last.start = Start(job[s]) /\ last.reason = job[s].reason
        BY <2>1, <2>2
    <2>6. /\ verdicts' = Put(verdicts, same, row)
          /\ ended' \subseteq ended \cup {last}
          /\ \A e \in ended' : e = last \/ e.w # job[s].w \/ e.start # Start(job[s])
        OBVIOUS
    <2> HIDE DEF row, same, last
    <2>7. verdicts' \subseteq verdicts \cup {row}
        BY <2>6 DEF Put
    <2>8. TypeOK'
        BY <2>3, <2>4, <2>5, <2>6, <2>7 DEF TypeOK, evidence
    <2>9. VerdictsAreOfWindows'
        BY <2>1, <2>2, <2>4, <2>7 DEF VerdictsAreOfWindows
    <2>10. ~ Shared(Start(job[s])) => \A v \in same : ~ (v.ver > row.ver)
        <3> SUFFICES ASSUME ~ Shared(Start(job[s])), NEW v \in same
                     PROVE  v.ver = row.ver
            BY <2>1, <2>4 DEF Days
        <3>1. PICK f \in forecasts : f.as_of = v.start /\ v.ver = v.start + f.horizon
            BY <2>4 DEF VerdictsAreOfWindows
        <3>2. f.horizon = job[s].w
            BY <2>2, <2>4, <3>1 DEF Shared
        <3> QED BY <2>1, <2>4, <3>1, <3>2
    <2>11. EndedIsTheVerdict'
        <3> SUFFICES ASSUME NEW e \in ended'
                     PROVE  /\ [as_of |-> e.start, horizon |-> e.w] \in forecasts
                            /\ ~ Shared(e.start) => \E v \in verdicts' : v.start = e.start /\ v.reason = e.reason
            BY DEF EndedIsTheVerdict, Shared
        <3>1. CASE e = last
            <4>1. ~ Shared(e.start) => row \in verdicts'
                BY <2>5, <2>6, <2>10, <3>1 DEF Put
            <4> QED BY <2>2, <2>4, <2>5, <3>1, <4>1
        <3>2. CASE e # last
            <4>1. e \in ended
                BY <2>6, <3>2
            <4>2. [as_of |-> e.start, horizon |-> e.w] \in forecasts
                BY <4>1 DEF EndedIsTheVerdict
            <4>3. ASSUME ~ Shared(e.start) PROVE e.start # Start(job[s])
                BY <2>2, <2>6, <3>2, <4>2, <4>3 DEF Shared
            <4>4. ASSUME ~ Shared(e.start)
                  PROVE  \E v \in verdicts' : v.start = e.start /\ v.reason = e.reason
                <5>1. PICK v \in verdicts : v.start = e.start /\ v.reason = e.reason
                    BY <4>1, <4>4 DEF EndedIsTheVerdict
                <5>2. v \notin same
                    BY <2>4, <4>3, <4>4, <5>1
                <5>3. v \in verdicts'
                    BY <2>6, <5>2 DEF Put
                <5> QED BY <5>1, <5>3
            <4> QED BY <4>2, <4>4
        <3> QED BY <3>1, <3>2
    <2> QED BY <2>3, <2>8, <2>9, <2>11
<1> QED
    BY <1>1, <1>2, <1>3, <1>4, <1>5, <1>6, <1>7, <1>8, <1>9, <1>10, <1>12, <1>13 DEF Next

(* The inductive invariant holds of every behaviour.                         *)
THEOREM SignalStoreInvariant == Spec => []IInv
BY InitIInv, StepIInv, PTL DEF Spec

(* Every variable keeps its type.                                            *)
THEOREM SignalTypes == Spec => []TypeOK
<1>1. IInv => TypeOK
    BY DEF IInv
<1> QED
    BY <1>1, SignalStoreInvariant, PTL

(* A reader is never handed a finding before the evidence it cites.          *)
THEOREM EvidenceFirst == Spec => []EvidenceComesFirst
<1>1. IInv => EvidenceComesFirst
    BY DEF IInv
<1> QED
    BY <1>1, SignalStoreInvariant, PTL

(* Every decision is made against a band that ends where its window begins.  *)
THEOREM BandsEndInTime == Spec => []BandEndsWhereTheWindowBegins
<1>1. IInv => BandEndsWhereTheWindowBegins
    BY DEF IInv
<1> QED
    BY <1>1, SignalStoreInvariant, PTL

(* A finding whose last run to end found no anomaly is handed to no reader:  *)
(* the verdict that run wrote is still the one on record, so the row is not  *)
(* a candidate.                                                              *)
THEOREM QuietSilences == Spec => []QuietVerdictSilences
<1>1. IInv => QuietVerdictSilences
    <2> SUFFICES ASSUME IInv, NEW W, NEW i \in LatestInsight(W), NEW e \in ended,
                        i.found, e.start = i.start, e.reason = "no_anomaly", ~ Shared(i.start)
                 PROVE  FALSE
        BY DEF QuietVerdictSilences
    <2>1. PICK v \in verdicts : v.start = e.start /\ v.reason = e.reason
        BY DEF IInv, EndedIsTheVerdict
    <2>2. i \in Candidates(W)
        BY DEF LatestInsight
    <2>3. v.reason # "no_anomaly"
        BY <2>1, <2>2 DEF Candidates
    <2> QED BY <2>1, <2>3
<1> QED
    BY <1>1, SignalStoreInvariant, PTL

-----------------------------------------------------------------------------
(* Which finding is served, and with whose figures.                          *)

\* The rows of anomalies and insights are of windows on record, and end where they do.
RowsAreOfWindows ==
  /\ \A a \in anomalies : \E f \in forecasts : f.as_of = a.start /\ a.ver = a.start + f.horizon
  /\ \A i \in insights : i.ver = i.start + i.w /\ [as_of |-> i.start, horizon |-> i.w] \in forecasts

VerdictsAreOne == \A u, v \in verdicts : u.start = v.start => u = v

\* A run that found an anomaly has written its finding when it ends, and no later one takes it away.
HasFinding(w, start) == \E i \in insights : i.w = w /\ i.found /\ i.start = start
FindingsAreWritten ==
  /\ \A s \in Sweepers :
       job[s].pc = "finish" /\ job[s].reason = "completed" => HasFinding(job[s].w, Start(job[s]))
  /\ \A e \in ended : e.reason = "completed" => HasFinding(e.w, e.start)

\* Runs over windows from one day come one after another, or the day is disturbed.
RunsAreAlone ==
  \A s, t \in Sweepers :
    job[s].pc # "idle" /\ job[t].pc # "idle" /\ Start(job[s]) = Start(job[t])
      /\ Start(job[s]) \notin disturbed => s = t

\* On a calm day what a run has written so far is the only such evidence of the day.
Calm(start) == start \notin disturbed /\ ~ Shared(start)
FiguresSoFarOf(s) ==
  job[s].reason = "completed" /\ Calm(Start(job[s])) =>
    /\ \A a \in anomalies : a.start = Start(job[s]) => a.run = job[s].run
    /\ job[s].pc # "localize" =>
         \A c \in causes : c.start = Start(job[s]) /\ c.rank <= job[s].n => c.run = job[s].run
    /\ job[s].pc \in {"decide", "narrate", "finish"} =>
         \A e \in effects : e.start = Start(job[s]) => e.run = job[s].run
    /\ job[s].pc \in {"narrate", "finish"} =>
         \A r \in recs : r.start = Start(job[s]) /\ r.lever = job[s].lever => r.run = job[s].run
FiguresSoFar == \A s \in Sweepers : FiguresSoFarOf(s)

\* So a finding has the figures of its run, unless another run is replacing them.
FiguresOf(i) ==
  /\ \A a \in anomalies : a.start = i.start => a.run = i.run
  /\ \A e \in effects : e.start = i.start => e.run = i.run
  /\ \A c \in causes : c.start = i.start /\ c.rank <= i.n => c.run = i.run
  /\ \A r \in recs : r.start = i.start /\ r.lever = i.lever => r.run = i.run
Replaces(s, start) ==
  /\ job[s].pc \in {"localize", "causal", "decide", "narrate"}
  /\ job[s].reason = "completed" /\ Start(job[s]) = start
FiguresAreKept ==
  \A i \in insights : i.found /\ Calm(i.start) =>
    FiguresOf(i) \/ \E s \in Sweepers : Replaces(s, i.start)

FindingsInv ==
  /\ RowsAreOfWindows /\ VerdictsAreOne /\ FindingsAreWritten
  /\ RunsAreAlone /\ FiguresSoFar /\ FiguresAreKept

(* An empty store has no findings.                                           *)
LEMMA InitFindings == Init => FindingsInv
<1> SUFFICES ASSUME Init PROVE FindingsInv
    OBVIOUS
<1> USE DEF Init, Idle
<1>1. RowsAreOfWindows /\ VerdictsAreOne /\ FindingsAreWritten
    BY DEF RowsAreOfWindows, VerdictsAreOne, FindingsAreWritten
<1>2. RunsAreAlone /\ FiguresSoFar /\ FiguresAreKept
    BY DEF RunsAreAlone, FiguresSoFar, FiguresSoFarOf, FiguresAreKept
<1> QED BY <1>1, <1>2 DEF FindingsInv

\* A step of s writes evidence of its own day alone.
WritesFor(d) ==
  /\ \A a \in anomalies' : a.start # d => a \in anomalies
  /\ \A c \in causes' : c.start # d => c \in causes
  /\ \A e \in effects' : e.start # d => e \in effects
  /\ \A r \in recs' : r.start # d => r \in recs
  /\ \A i \in insights' : i.start # d => i \in insights

\* A step of s leaves the other runs alone, and its own window where it is.
Steps(s) ==
  /\ \A t \in Sweepers \ {s} : job'[t] = job[t]
  /\ job'[s].pc = "idle" \/ Start(job'[s]) = Start(job[s])
  /\ job[s].pc # "idle" /\ job'[s].pc = "idle" => job'[s].reason = "none"
  /\ forecasts \subseteq forecasts' /\ disturbed \subseteq disturbed'

(* A day that is calm was calm.                                              *)
LEMMA CalmBefore ==
    ASSUME NEW s, Steps(s), NEW d, Calm(d)'
    PROVE  Calm(d)
<1>1. ~ Shared(d)
    BY SharedStays DEF Calm, Steps
<1> QED BY <1>1 DEF Calm, Steps

(* Runs stay alone when no run begins.                                       *)
LEMMA AloneStays ==
    ASSUME RunsAreAlone, NEW s \in Sweepers, job[s].pc # "idle", Steps(s)
    PROVE  RunsAreAlone'
<1>1. \A t \in Sweepers : job'[t].pc # "idle" => job[t].pc # "idle" /\ Start(job'[t]) = Start(job[t])
    BY DEF Steps
<1>2. Start(job[s])' = Start(job'[s]) /\ \A t : Start(job[t])' = Start(job'[t])
    BY DEF Start
<1> QED BY <1>1, <1>2 DEF RunsAreAlone, Steps

(* What a run writes does not touch the figures of other days, nor, on a     *)
(* calm day, those of other runs.                                            *)
LEMMA FiguresElsewhere ==
    ASSUME IInv, FindingsInv, NEW s \in Sweepers, job[s].pc # "idle", Steps(s), WritesFor(Start(job[s]))
    PROVE  /\ \A t \in Sweepers \ {s} : FiguresSoFarOf(t)'
           /\ \A i \in insights' : i.found /\ Calm(i.start)' /\ i.start # Start(job[s]) =>
                FiguresOf(i)' \/ \E t \in Sweepers : Replaces(t, i.start)'
<1> DEFINE d == Start(job[s])
<1>1. ASSUME NEW t \in Sweepers \ {s} PROVE FiguresSoFarOf(t)'
    <2> SUFFICES ASSUME job'[t].reason = "completed", Calm(Start(job[t]))'
                 PROVE  FiguresSoFarOf(t)'
        BY DEF FiguresSoFarOf
    <2>1. job'[t] = job[t] /\ Start(job[t])' = Start(job[t])
        BY DEF Steps, Start
    <2>2. Calm(Start(job[t]))
        <3>1. PICK e : e = Start(job[t])
            OBVIOUS
        <3>2. Calm(e)'
            BY <2>1, <3>1 DEF Calm, Shared
        <3>3. Calm(e)
            BY <3>2, CalmBefore
        <3> QED BY <3>1, <3>3
    <2>3. job[t].pc # "idle"
        BY <2>1 DEF IInv, EvidenceSoFar
    <2>4. Start(job[t]) # d
        BY <2>2, <2>3 DEF FindingsInv, RunsAreAlone, Calm
    <2>5. FiguresSoFarOf(t)
        BY DEF FindingsInv, FiguresSoFar
    <2> HIDE DEF d
    <2> QED BY <2>1, <2>2, <2>4, <2>5 DEF FiguresSoFarOf, WritesFor, d
<1>2. ASSUME NEW i \in insights', i.found, Calm(i.start)', i.start # d
      PROVE  FiguresOf(i)' \/ \E t \in Sweepers : Replaces(t, i.start)'
    <2>1. i \in insights /\ Calm(i.start)
        BY <1>2, CalmBefore DEF WritesFor
    <2>2. CASE FiguresOf(i)
        BY <1>2, <2>2 DEF FiguresOf, WritesFor
    <2>3. CASE \E t \in Sweepers : Replaces(t, i.start)
        <3>1. PICK t \in Sweepers : Replaces(t, i.start)
            BY <2>3
        <3>2. t # s
            BY <1>2, <3>1 DEF Replaces
        <3>3. Replaces(t, i.start)'
            BY <3>1, <3>2 DEF Replaces, Steps, Start
        <3> QED BY <3>3
    <2> QED BY <1>2, <2>1, <2>2, <2>3 DEF FindingsInv, FiguresAreKept
<1> QED BY <1>1, <1>2

(* On a calm day another run than s replaces nothing while s is under way.   *)
LEMMA NobodyElse ==
    ASSUME FindingsInv, NEW s \in Sweepers, job[s].pc # "idle", NEW i \in insights, i.found,
           i.start = Start(job[s]), Calm(i.start), ~ Replaces(s, i.start)
    PROVE  FiguresOf(i)
<1>1. ASSUME NEW t \in Sweepers, Replaces(t, i.start) PROVE FALSE
    <2>1. t = s
        BY <1>1 DEF FindingsInv, RunsAreAlone, Calm, Replaces
    <2> QED BY <1>1, <2>1
<1> QED BY <1>1 DEF FindingsInv, FiguresAreKept

(* Rows of windows stay so while bands are only added.                       *)
LEMMA RowsStay ==
    ASSUME RowsAreOfWindows, forecasts \subseteq forecasts', anomalies' = anomalies, insights' = insights
    PROVE  RowsAreOfWindows'
BY DEF RowsAreOfWindows

(* Two bands of an unshared day are of one length.                           *)
LEMMA OneLength ==
    ASSUME NEW start, ~ Shared(start), NEW f \in forecasts, NEW g \in forecasts,
           f.as_of = start, g.as_of = start
    PROVE  f.horizon = g.horizon
BY DEF Shared

(* One run moves.                                                            *)
LEMMA JobMoves ==
    ASSUME TypeOK, NEW s \in Sweepers, NEW c, job' = [job EXCEPT ![s] = c]
    PROVE  job'[s] = c /\ \A t \in Sweepers \ {s} : job'[t] = job[t]
BY DEF TypeOK

(* A midnight, the hourly bands and a pause keep the findings.               *)
LEMMA RestFindings ==
    ASSUME IInv, FindingsInv, UNCHANGED <<job, evidence, insights, verdicts, ended, disturbed>>,
           forecasts \subseteq forecasts'
    PROVE  FindingsInv'
<1> USE DEF FindingsInv, evidence
<1>1. RowsAreOfWindows'
    BY RowsStay
<1>2. VerdictsAreOne' /\ FindingsAreWritten' /\ RunsAreAlone'
    BY DEF VerdictsAreOne, FindingsAreWritten, HasFinding, RunsAreAlone, Start
<1>3. \A d : Calm(d)' => Calm(d)
    BY SharedStays DEF Calm
<1>4. FiguresSoFar'
    <2> SUFFICES ASSUME NEW s \in Sweepers, job[s].reason = "completed", Calm(Start(job[s]))'
                 PROVE  FiguresSoFarOf(s)'
        BY DEF FiguresSoFar, FiguresSoFarOf
    <2>1. PICK d : d = Start(job[s])
        OBVIOUS
    <2>2. Start(job[s])' = d
        BY <2>1 DEF Start
    <2>3. Calm(d)'
        BY <2>2 DEF Calm, Shared
    <2>4. FiguresSoFarOf(s) /\ Calm(d)
        BY <1>3, <2>3 DEF FiguresSoFar
    <2> QED BY <2>1, <2>2, <2>4 DEF FiguresSoFarOf
<1>5. FiguresAreKept'
    BY <1>3 DEF FiguresAreKept, FiguresOf, Replaces, Start
<1> QED BY <1>1, <1>2, <1>4, <1>5

(* A run that begins is alone on its day, or the day is disturbed.           *)
LEMMA BeginFindings ==
    ASSUME IInv, FindingsInv, NEW s \in Sweepers, NEW w \in WINDOW_CHOICES, Begin(s, w)
    PROVE  FindingsInv'
<1> USE DEF IInv
<1>1. /\ job[s].pc = "idle" /\ job' = [job EXCEPT ![s] = Ctx(runs + 1, w, day)]
      /\ forecasts \subseteq forecasts'
      /\ disturbed' = disturbed \cup
           {Start(job[t]) : t \in {t \in Sweepers : job[t].pc # "idle" /\ Start(job[t]) = day - w}}
      /\ UNCHANGED <<anomalies, causes, effects, recs, insights, verdicts, ended>>
    BY DEF Begin, evidence
<1>2. PICK c : c = Ctx(runs + 1, w, day)
    OBVIOUS
<1>3. c.pc = "gate" /\ c.reason = "none" /\ c.w = w /\ c.end = day
    BY <1>2 DEF Ctx
<1>4. job'[s] = c /\ \A t \in Sweepers \ {s} : job'[t] = job[t]
    BY <1>1, <1>2, JobMoves
<1>5. RowsAreOfWindows'
    BY <1>1, RowsStay DEF FindingsInv
<1>6. VerdictsAreOne' /\ FindingsAreWritten'
    BY <1>1, <1>3, <1>4 DEF FindingsInv, VerdictsAreOne, FindingsAreWritten, HasFinding, Start
<1>7. RunsAreAlone'
    <2> SUFFICES ASSUME NEW t \in Sweepers, NEW u \in Sweepers, t # u, job'[t].pc # "idle", job'[u].pc # "idle",
                        Start(job'[t]) = Start(job'[u]), Start(job'[t]) \notin disturbed'
                 PROVE  FALSE
        BY DEF RunsAreAlone, Start
    <2>1. Start(c) = day - w
        BY <1>3 DEF Start
    <2>2. \A v \in Sweepers \ {s} : job'[v] = job[v] /\ (job[v].pc # "idle" /\ Start(job[v]) = day - w =>
                Start(job[v]) \in disturbed')
        BY <1>1, <1>4
    <2>3. CASE t # s /\ u # s
        BY <1>1, <2>2, <2>3 DEF FindingsInv, RunsAreAlone
    <2>4. CASE t = s \/ u = s
        BY <1>4, <2>1, <2>2, <2>4
    <2> QED BY <2>3, <2>4
<1>8. \A d : Calm(d)' => Calm(d)
    BY <1>1, SharedStays DEF Calm
<1>9. FiguresSoFar'
    <2> SUFFICES ASSUME NEW t \in Sweepers, job'[t].reason = "completed", Calm(Start(job[t]))'
                 PROVE  FiguresSoFarOf(t)'
        BY DEF FiguresSoFar, FiguresSoFarOf
    <2>1. t # s /\ job'[t] = job[t]
        BY <1>3, <1>4
    <2>2. PICK d : d = Start(job[t])
        OBVIOUS
    <2>3. Start(job[t])' = d
        BY <2>1, <2>2 DEF Start
    <2>4. Calm(d)'
        BY <2>1, <2>2 DEF Calm, Shared, Start
    <2>5. FiguresSoFarOf(t) /\ Calm(d)
        BY <1>8, <2>4 DEF FindingsInv, FiguresSoFar
    <2> QED BY <1>1, <2>1, <2>2, <2>3, <2>5 DEF FiguresSoFarOf
<1>10. FiguresAreKept'
    <2> SUFFICES ASSUME NEW i \in insights, i.found, Calm(i.start)'
                 PROVE  FiguresOf(i)' \/ \E t \in Sweepers : Replaces(t, i.start)'
        BY <1>1 DEF FiguresAreKept
    <2>1. FiguresOf(i) \/ \E t \in Sweepers : Replaces(t, i.start)
        BY <1>8 DEF FindingsInv, FiguresAreKept
    <2>2. FiguresOf(i) => FiguresOf(i)'
        BY <1>1 DEF FiguresOf
    <2>3. ASSUME NEW t \in Sweepers, Replaces(t, i.start) PROVE Replaces(t, i.start)'
        <3>1. job'[t] = job[t]
            BY <1>1, <1>4, <2>3 DEF Replaces
        <3> QED BY <2>3, <3>1 DEF Replaces, Start
    <2> QED BY <2>1, <2>2, <2>3
<1> QED BY <1>5, <1>6, <1>7, <1>9, <1>10 DEF FindingsInv

(* A run that goes on leaves what it does not write.                         *)
LEMMA RunFindings ==
    ASSUME IInv, FindingsInv, NEW s \in Sweepers, job[s].pc # "idle", Steps(s), WritesFor(Start(job[s])),
           RowsAreOfWindows', VerdictsAreOne', FindingsAreWritten', FiguresSoFarOf(s)',
           \A i \in insights' : i.found /\ i.start = Start(job[s]) /\ Calm(i.start)' =>
               FiguresOf(i)' \/ Replaces(s, i.start)'
    PROVE  FindingsInv'
<1>1. RunsAreAlone'
    BY AloneStays DEF FindingsInv
<1>2. FiguresSoFar'
    BY FiguresElsewhere DEF FiguresSoFar
<1>3. FiguresAreKept'
    BY FiguresElsewhere DEF FiguresAreKept
<1> QED BY <1>1, <1>2, <1>3 DEF FindingsInv

(* Findings that are written stay written when insights and ends stand.      *)
LEMMA WrittenStays ==
    ASSUME FindingsAreWritten, NEW s \in Sweepers, Steps(s), insights' = insights, ended' = ended,
           job'[s].pc # "finish"
    PROVE  FindingsAreWritten'
BY DEF FindingsAreWritten, HasFinding, Steps, Start

(* On an unshared day a run over a window replaces what an earlier one wrote. *)
LEMMA SameVersion ==
    ASSUME IInv, FindingsInv, NEW s \in Sweepers, job[s].pc # "idle", ~ Shared(Start(job[s]))
    PROVE  /\ \A a \in anomalies : a.start = Start(job[s]) => a.ver = job[s].end
           /\ \A i \in insights : i.start = Start(job[s]) => i.w = job[s].w /\ i.ver = job[s].end
<1>1. /\ job[s].end = Start(job[s]) + job[s].w
      /\ [as_of |-> Start(job[s]), horizon |-> job[s].w] \in forecasts
    BY StartsAreDays DEF IInv, RunsHaveBands
<1>2. \A f \in forecasts : f.as_of = Start(job[s]) => f.horizon = job[s].w
    BY <1>1 DEF Shared
<1>3. ASSUME NEW a \in anomalies, a.start = Start(job[s]) PROVE a.ver = job[s].end
    <2>1. PICK f \in forecasts : f.as_of = a.start /\ a.ver = a.start + f.horizon
        BY DEF FindingsInv, RowsAreOfWindows
    <2> QED BY <1>1, <1>2, <1>3, <2>1
<1>4. ASSUME NEW i \in insights, i.start = Start(job[s]) PROVE i.w = job[s].w /\ i.ver = job[s].end
    <2>1. i.ver = i.start + i.w /\ [as_of |-> i.start, horizon |-> i.w] \in forecasts
        BY DEF FindingsInv, RowsAreOfWindows
    <2>2. i.w = job[s].w
        BY <1>2, <1>4, <2>1
    <2> QED BY <1>1, <1>4, <2>1, <2>2
<1> QED BY <1>3, <1>4

(* The Trust Gate writes nothing, and finds nothing.                         *)
LEMMA GateFindings ==
    ASSUME IInv, FindingsInv, NEW s \in Sweepers, Gate(s)
    PROVE  FindingsInv'
<1>1. /\ job[s].pc = "gate" /\ job[s] \in Contexts /\ job[s].reason = "none"
      /\ UNCHANGED <<forecasts, anomalies, causes, effects, recs, insights, verdicts, ended, disturbed>>
    BY DEF Gate, store, evidence, IInv, TypeOK, ReasonsSoFar
<1>2. PICK c : /\ job' = [job EXCEPT ![s] = c] /\ c.pc \in {"detect", "narrate"} /\ c.reason \in Blocked \cup {"none"}
               /\ c.w = job[s].w /\ c.end = job[s].end
    <2>1. CASE Goto(s, "detect")
        <3> DEFINE c == [job[s] EXCEPT !.pc = "detect"]
        <3>1. job' = [job EXCEPT ![s] = c]
            BY <2>1 DEF Goto
        <3>2. c.pc = "detect" /\ c.reason = "none" /\ c.w = job[s].w /\ c.end = job[s].end
            BY <1>1 DEF Contexts
        <3> HIDE DEF c
        <3> QED BY <3>1, <3>2
    <2>2. CASE \E why \in Blocked : job' = [job EXCEPT ![s] = [@ EXCEPT !.pc = "narrate", !.reason = why]]
        BY <1>1, <2>2 DEF Contexts
    <2> QED BY <2>1, <2>2 DEF Gate
<1>3. job'[s] = c /\ \A t \in Sweepers \ {s} : job'[t] = job[t]
    BY <1>2, JobMoves DEF IInv
<1>4. Steps(s) /\ WritesFor(Start(job[s]))
    BY <1>1, <1>2, <1>3 DEF Steps, WritesFor, Start
<1>5. RowsAreOfWindows' /\ VerdictsAreOne' /\ FindingsAreWritten'
    BY <1>1, <1>2, <1>3, <1>4, RowsStay, WrittenStays DEF FindingsInv, VerdictsAreOne
<1>6. FiguresSoFarOf(s)'
    BY <1>2, <1>3 DEF FiguresSoFarOf, Blocked
<1>7. ASSUME NEW i \in insights', i.found, i.start = Start(job[s]), Calm(i.start)'
      PROVE  FiguresOf(i)' \/ Replaces(s, i.start)'
    <2>1. FiguresOf(i)
        BY <1>1, <1>4, <1>7, CalmBefore, NobodyElse DEF Replaces
    <2> QED BY <1>1, <2>1 DEF FiguresOf
<1> QED BY <1>1, <1>4, <1>5, <1>6, <1>7, RunFindings

(* A run that finds an anomaly puts its row in the place of an earlier one.  *)
LEMMA DetectFindings ==
    ASSUME IInv, FindingsInv, NEW s \in Sweepers, Detect(s)
    PROVE  FindingsInv'
<1> DEFINE row == [start |-> Start(job[s]), ver |-> job[s].end, run |-> job[s].run]
           same == {a \in anomalies : a.start = Start(job[s])}
<1>1. /\ job[s].pc = "detect" /\ job[s] \in Contexts
      /\ UNCHANGED <<forecasts, causes, effects, recs, insights, verdicts, ended, disturbed>>
    BY DEF Detect, IInv, TypeOK
<1>2. PICK c : /\ job' = [job EXCEPT ![s] = c]
               /\ \/ c.pc = "narrate" /\ c.reason \in Quiet /\ anomalies' = anomalies
                  \/ c.pc = "localize" /\ c.reason = "completed" /\ anomalies' = Put(anomalies, same, row)
               /\ c.w = job[s].w /\ c.end = job[s].end /\ c.run = job[s].run
    BY <1>1 DEF Detect, Contexts
<1>3. job'[s] = c /\ \A t \in Sweepers \ {s} : job'[t] = job[t]
    BY <1>2, JobMoves DEF IInv
<1>4. /\ job[s].end = Start(job[s]) + job[s].w
      /\ [as_of |-> Start(job[s]), horizon |-> job[s].w] \in forecasts
    BY <1>1, StartsAreDays DEF IInv, RunsHaveBands
<1>5. /\ row.start = Start(job[s]) /\ row.ver = job[s].end /\ row.run = job[s].run
      /\ \A a : a \in same <=> a \in anomalies /\ a.start = Start(job[s])
    OBVIOUS
<1> HIDE DEF row, same
<1>6. anomalies' \subseteq anomalies \cup {row}
    BY <1>2 DEF Put
<1>7. Steps(s) /\ WritesFor(Start(job[s])) /\ Start(job'[s]) = Start(job[s])
    BY <1>1, <1>2, <1>3, <1>5, <1>6 DEF Steps, WritesFor, Start
<1>8. RowsAreOfWindows'
    BY <1>1, <1>4, <1>5, <1>6 DEF FindingsInv, RowsAreOfWindows
<1>9. VerdictsAreOne' /\ FindingsAreWritten'
    BY <1>1, <1>2, <1>3, <1>7, WrittenStays DEF FindingsInv, VerdictsAreOne
<1>10. FiguresSoFarOf(s)'
    <2> SUFFICES ASSUME c.reason = "completed", Calm(Start(job[s]))'
                 PROVE  FiguresSoFarOf(s)'
        BY <1>3 DEF FiguresSoFarOf
    <2>1. PICK d : d = Start(job[s])
        OBVIOUS
    <2>2. Start(job[s])' = d /\ c.pc = "localize"
        BY <1>2, <1>3, <1>7, <2>1 DEF Start, Quiet
    <2>3. Calm(d)'
        BY <2>1, <2>2 DEF Calm, Shared
    <2>4. ~ Shared(Start(job[s]))
        BY <1>7, <2>1, <2>3, CalmBefore DEF Calm
    <2>5. \A a \in same : ~ (a.ver > row.ver)
        <3> SUFFICES ASSUME NEW a \in same PROVE a.ver = row.ver /\ row.ver \in Nat
            OBVIOUS
        <3>1. job[s].end \in Nat
            BY <1>1, StartsAreDays DEF IInv, Days
        <3> QED BY <1>1, <1>5, <2>4, <3>1, SameVersion
    <2>6. anomalies' = (anomalies \ same) \cup {row}
        BY <1>2, <2>2, <2>5 DEF Put
    <2>7. \A a \in anomalies' : a.start = d => a = row
        BY <1>5, <2>1, <2>6
    <2> QED BY <1>2, <1>3, <1>5, <2>2, <2>7 DEF FiguresSoFarOf
<1>11. ASSUME NEW i \in insights', i.found, i.start = Start(job[s]), Calm(i.start)'
       PROVE  FiguresOf(i)' \/ Replaces(s, i.start)'
    <2>1. CASE c.pc = "localize"
        BY <1>2, <1>3, <1>7, <1>11, <2>1 DEF Replaces, Start, Quiet
    <2>2. CASE c.pc # "localize"
        <3>1. FiguresOf(i)
            BY <1>1, <1>7, <1>11, CalmBefore, NobodyElse DEF Replaces
        <3> QED BY <1>1, <1>2, <2>2, <3>1 DEF FiguresOf
    <2> QED BY <2>1, <2>2
<1> QED BY <1>1, <1>7, <1>8, <1>9, <1>10, <1>11, RunFindings

(* The causes of a run replace the day's earlier ones of their ranks.        *)
LEMMA LocalizeFindings ==
    ASSUME IInv, FindingsInv, NEW s \in Sweepers, Localize(s)
    PROVE  FindingsInv'
<1>1. /\ job[s].pc = "localize" /\ job[s] \in Contexts /\ job[s].reason = "completed"
      /\ UNCHANGED <<forecasts, anomalies, effects, recs, insights, verdicts, ended, disturbed>>
    BY DEF Localize, IInv, TypeOK, ReasonsSoFar
<1>2. PICK n, c :
        /\ n \in 0 .. MAX_CAUSES
        /\ job' = [job EXCEPT ![s] = c]
        /\ c.pc = "causal" /\ c.reason = "completed" /\ c.n = n /\ c.lever = job[s].lever
        /\ c.w = job[s].w /\ c.end = job[s].end /\ c.run = job[s].run
        /\ causes' = {q \in causes : q.start # Start(job[s]) \/ q.rank > n} \cup
             [start : {Start(job[s])}, rank : 1 .. n, run : {job[s].run}]
    <2>1. PICK n \in 0 .. MAX_CAUSES :
            /\ job' = [job EXCEPT ![s] = [@ EXCEPT !.pc = "causal", !.n = n]]
            /\ causes' = {q \in causes : q.start # Start(job[s]) \/ q.rank > n} \cup
                 [start : {Start(job[s])}, rank : 1 .. n, run : {job[s].run}]
        BY DEF Localize
    <2> DEFINE c == [job[s] EXCEPT !.pc = "causal", !.n = n]
    <2>2. job' = [job EXCEPT ![s] = c]
        BY <2>1
    <2>3. /\ c.pc = "causal" /\ c.reason = "completed" /\ c.n = n /\ c.lever = job[s].lever
          /\ c.w = job[s].w /\ c.end = job[s].end /\ c.run = job[s].run
        BY <1>1 DEF Contexts
    <2> HIDE DEF c
    <2> QED BY <2>1, <2>2, <2>3
<1>3. job'[s] = c /\ \A t \in Sweepers \ {s} : job'[t] = job[t]
    BY <1>2, JobMoves DEF IInv
<1>4. Steps(s) /\ WritesFor(Start(job[s])) /\ Start(job'[s]) = Start(job[s])
    BY <1>1, <1>2, <1>3 DEF Steps, WritesFor, Start
<1>5. RowsAreOfWindows' /\ VerdictsAreOne' /\ FindingsAreWritten'
    BY <1>1, <1>2, <1>3, <1>4, RowsStay, WrittenStays DEF FindingsInv, VerdictsAreOne
<1>6. FiguresSoFarOf(s)'
    <2> SUFFICES ASSUME Calm(Start(job[s]))'
                 PROVE  FiguresSoFarOf(s)'
        BY DEF FiguresSoFarOf
    <2>1. PICK d : d = Start(job[s])
        OBVIOUS
    <2>2. Start(job[s])' = d
        BY <1>4, <2>1 DEF Start
    <2>3. Calm(d)'
        BY <2>1, <2>2 DEF Calm, Shared
    <2>4. FiguresSoFarOf(s) /\ Calm(Start(job[s]))
        BY <1>4, <2>1, <2>3, CalmBefore DEF FindingsInv, FiguresSoFar
    <2>5. \A a \in anomalies' : a.start = d => a.run = c.run
        BY <1>1, <1>2, <2>1, <2>4 DEF FiguresSoFarOf
    <2>6. \A q \in causes' : q.start = d /\ q.rank <= n => q.run = c.run
        <3> SUFFICES ASSUME NEW q \in causes, q.start = d, q.rank > n PROVE ~ (q.rank <= n)
            BY <1>2, <2>1
        <3>1. q.rank \in Nat /\ n \in Nat
            <4>1. q.rank \in 1 .. MAX_CAUSES
                BY DEF IInv, TypeOK
            <4> QED BY <1>2, <4>1, SignalStoreAssumption
        <3> QED BY <3>1
    <2> QED BY <1>2, <1>3, <2>2, <2>5, <2>6 DEF FiguresSoFarOf
<1>7. \A i \in insights' : i.start = Start(job[s]) => Replaces(s, i.start)'
    BY <1>2, <1>3, <1>4 DEF Replaces, Start
<1> QED BY <1>1, <1>4, <1>5, <1>6, <1>7, RunFindings

(* The causal verdict of a run replaces the day's earlier one.               *)
LEMMA CausalFindings ==
    ASSUME IInv, FindingsInv, NEW s \in Sweepers, Causal(s)
    PROVE  FindingsInv'
<1>1. /\ job[s].pc = "causal" /\ job[s] \in Contexts /\ job[s].reason = "completed"
      /\ UNCHANGED <<forecasts, anomalies, causes, recs, insights, verdicts, ended, disturbed>>
    BY DEF Causal, IInv, TypeOK, ReasonsSoFar
<1>2. PICK c : /\ job' = [job EXCEPT ![s] = c]
               /\ c.pc = "decide" /\ c.reason = "completed" /\ c.n = job[s].n /\ c.lever = job[s].lever
               /\ c.w = job[s].w /\ c.end = job[s].end /\ c.run = job[s].run
               /\ effects' = EffectOf(s)
    BY <1>1 DEF Causal, Contexts, Goto
<1>3. job'[s] = c /\ \A t \in Sweepers \ {s} : job'[t] = job[t]
    BY <1>2, JobMoves DEF IInv
<1>4. Steps(s) /\ WritesFor(Start(job[s])) /\ Start(job'[s]) = Start(job[s])
    BY <1>1, <1>2, <1>3 DEF Steps, WritesFor, Start, EffectOf
<1>5. RowsAreOfWindows' /\ VerdictsAreOne' /\ FindingsAreWritten'
    BY <1>1, <1>2, <1>3, <1>4, RowsStay, WrittenStays DEF FindingsInv, VerdictsAreOne
<1>6. FiguresSoFarOf(s)'
    <2> SUFFICES ASSUME Calm(Start(job[s]))'
                 PROVE  FiguresSoFarOf(s)'
        BY DEF FiguresSoFarOf
    <2>1. PICK d : d = Start(job[s])
        OBVIOUS
    <2>2. Start(job[s])' = d
        BY <1>4, <2>1 DEF Start
    <2>3. Calm(d)'
        BY <2>1, <2>2 DEF Calm, Shared
    <2>4. FiguresSoFarOf(s) /\ Calm(Start(job[s]))
        BY <1>4, <2>1, <2>3, CalmBefore DEF FindingsInv, FiguresSoFar
    <2>5. /\ \A a \in anomalies' : a.start = d => a.run = c.run
          /\ \A q \in causes' : q.start = d /\ q.rank <= c.n => q.run = c.run
        BY <1>1, <1>2, <2>1, <2>4 DEF FiguresSoFarOf
    <2>6. \A e \in effects' : e.start = d => e.run = c.run
        BY <1>2, <2>1 DEF EffectOf
    <2> QED BY <1>2, <1>3, <2>2, <2>5, <2>6 DEF FiguresSoFarOf
<1>7. \A i \in insights' : i.start = Start(job[s]) => Replaces(s, i.start)'
    BY <1>2, <1>3, <1>4 DEF Replaces, Start
<1> QED BY <1>1, <1>4, <1>5, <1>6, <1>7, RunFindings

(* The recommendation of a run replaces the day's earlier one for its lever. *)
LEMMA DecideFindings ==
    ASSUME IInv, FindingsInv, NEW s \in Sweepers, Decide(s)
    PROVE  FindingsInv'
<1>1. /\ job[s].pc = "decide" /\ job[s] \in Contexts /\ job[s].reason = "completed"
      /\ UNCHANGED <<forecasts, anomalies, causes, effects, insights, verdicts, ended, disturbed>>
    BY DEF Decide, IInv, TypeOK, ReasonsSoFar
<1>2. PICK c : /\ job' = [job EXCEPT ![s] = c]
               /\ c.pc = "narrate" /\ c.reason = "completed" /\ c.n = job[s].n
               /\ c.w = job[s].w /\ c.end = job[s].end /\ c.run = job[s].run
               /\ recs' = {r \in recs : r.start # Start(job[s]) \/ r.lever # c.lever} \cup
                    {[start |-> Start(job[s]), lever |-> c.lever, run |-> job[s].run]}
    <2>1. PICK lever :
            /\ job' = [job EXCEPT ![s] = [@ EXCEPT !.pc = "narrate", !.lever = lever]]
            /\ recs' = {r \in recs : r.start # Start(job[s]) \/ r.lever # lever} \cup
                 {[start |-> Start(job[s]), lever |-> lever, run |-> job[s].run]}
        BY DEF Decide
    <2> DEFINE c == [job[s] EXCEPT !.pc = "narrate", !.lever = lever]
    <2>2. job' = [job EXCEPT ![s] = c]
        BY <2>1
    <2>3. /\ c.pc = "narrate" /\ c.reason = "completed" /\ c.n = job[s].n /\ c.lever = lever
          /\ c.w = job[s].w /\ c.end = job[s].end /\ c.run = job[s].run
        BY <1>1 DEF Contexts
    <2> HIDE DEF c
    <2> QED BY <2>1, <2>2, <2>3
<1>3. job'[s] = c /\ \A t \in Sweepers \ {s} : job'[t] = job[t]
    BY <1>2, JobMoves DEF IInv
<1>4. Steps(s) /\ WritesFor(Start(job[s])) /\ Start(job'[s]) = Start(job[s])
    BY <1>1, <1>2, <1>3 DEF Steps, WritesFor, Start
<1>5. RowsAreOfWindows' /\ VerdictsAreOne' /\ FindingsAreWritten'
    BY <1>1, <1>2, <1>3, <1>4, RowsStay, WrittenStays DEF FindingsInv, VerdictsAreOne
<1>6. FiguresSoFarOf(s)'
    <2> SUFFICES ASSUME Calm(Start(job[s]))'
                 PROVE  FiguresSoFarOf(s)'
        BY DEF FiguresSoFarOf
    <2>1. PICK d : d = Start(job[s])
        OBVIOUS
    <2>2. Start(job[s])' = d
        BY <1>4, <2>1 DEF Start
    <2>3. Calm(d)'
        BY <2>1, <2>2 DEF Calm, Shared
    <2>4. FiguresSoFarOf(s) /\ Calm(Start(job[s]))
        BY <1>4, <2>1, <2>3, CalmBefore DEF FindingsInv, FiguresSoFar
    <2>5. /\ \A a \in anomalies' : a.start = d => a.run = c.run
          /\ \A q \in causes' : q.start = d /\ q.rank <= c.n => q.run = c.run
          /\ \A e \in effects' : e.start = d => e.run = c.run
        BY <1>1, <1>2, <2>1, <2>4 DEF FiguresSoFarOf
    <2>6. \A r \in recs' : r.start = d /\ r.lever = c.lever => r.run = c.run
        BY <1>2, <2>1
    <2> QED BY <1>2, <1>3, <2>2, <2>5, <2>6 DEF FiguresSoFarOf
<1>7. \A i \in insights' : i.start = Start(job[s]) => Replaces(s, i.start)'
    BY <1>2, <1>3, <1>4 DEF Replaces, Start
<1> QED BY <1>1, <1>4, <1>5, <1>6, <1>7, RunFindings

(* A finding that is written takes the place of the day's earlier one, with   *)
(* the figures that its run has written; any other insight leaves it.        *)
LEMMA NarrateFindings ==
    ASSUME IInv, FindingsInv, NEW s \in Sweepers, Narrate(s)
    PROVE  FindingsInv'
<1>1. /\ job[s].pc = "narrate" /\ job[s] \in Contexts
      /\ UNCHANGED <<forecasts, anomalies, causes, effects, recs, verdicts, ended, disturbed>>
    BY DEF Narrate, evidence, IInv, TypeOK
<1>2. PICK c : /\ job' = [job EXCEPT ![s] = c]
               /\ c.pc = "finish" /\ c.reason = job[s].reason /\ c.n = job[s].n /\ c.lever = job[s].lever
               /\ c.w = job[s].w /\ c.end = job[s].end /\ c.run = job[s].run
    <2> DEFINE c == [job[s] EXCEPT !.pc = "finish"]
    <2>1. job' = [job EXCEPT ![s] = c]
        BY DEF Narrate, Goto
    <2>2. /\ c.pc = "finish" /\ c.reason = job[s].reason /\ c.n = job[s].n /\ c.lever = job[s].lever
          /\ c.w = job[s].w /\ c.end = job[s].end /\ c.run = job[s].run
        BY <1>1 DEF Contexts
    <2> HIDE DEF c
    <2> QED BY <2>1, <2>2
<1>3. job'[s] = c /\ \A t \in Sweepers \ {s} : job'[t] = job[t]
    BY <1>2, JobMoves DEF IInv
<1>4. PICK row : row = Insight(job[s])
    OBVIOUS
<1>5. /\ row.w = job[s].w /\ row.start = Start(job[s]) /\ row.ver = job[s].end
      /\ (row.found <=> job[s].reason = "completed")
      /\ row.run = job[s].run /\ row.n = job[s].n /\ row.lever = job[s].lever
    BY <1>4 DEF Insight
<1>6. /\ insights' = Put(insights, SameInsight(row), row)
      /\ \A i : i \in SameInsight(row) <=>
           i \in insights /\ i.w = row.w /\ i.found = row.found /\ (row.found => i.start = row.start)
    BY <1>4 DEF Narrate, SameInsight
<1>7. insights' \subseteq insights \cup {row}
    BY <1>6 DEF Put
<1>8. /\ job[s].end = Start(job[s]) + job[s].w
      /\ [as_of |-> Start(job[s]), horizon |-> job[s].w] \in forecasts
    BY <1>1, StartsAreDays DEF IInv, RunsHaveBands
<1>9. Steps(s) /\ WritesFor(Start(job[s])) /\ Start(job'[s]) = Start(job[s])
    BY <1>1, <1>2, <1>3, <1>5, <1>7 DEF Steps, WritesFor, Start
<1>10. RowsAreOfWindows' /\ VerdictsAreOne'
    <2>1. \A a \in anomalies' : \E f \in forecasts' : f.as_of = a.start /\ a.ver = a.start + f.horizon
        BY <1>1 DEF FindingsInv, RowsAreOfWindows
    <2>2. \A i \in insights' : i.ver = i.start + i.w /\ [as_of |-> i.start, horizon |-> i.w] \in forecasts'
        BY <1>1, <1>5, <1>7, <1>8 DEF FindingsInv, RowsAreOfWindows
    <2> QED BY <1>1, <2>1, <2>2 DEF FindingsInv, RowsAreOfWindows, VerdictsAreOne
<1>11. \A w, start : HasFinding(w, start) \/ (row.found /\ w = row.w /\ start = row.start) =>
         \E i \in insights' : i.w = w /\ i.found /\ i.start = start
    <2> SUFFICES ASSUME NEW w, NEW start,
                        HasFinding(w, start) \/ (row.found /\ w = row.w /\ start = row.start)
                 PROVE  \E i \in insights' : i.w = w /\ i.found /\ i.start = start
        OBVIOUS
    <2>1. CASE \E old \in SameInsight(row) : old.ver > row.ver
        <3>1. insights' = insights /\ \E old \in SameInsight(row) : TRUE
            BY <1>6, <2>1 DEF Put
        <3>2. row.found => \E i \in insights : i.w = row.w /\ i.found /\ i.start = row.start
            BY <1>6, <3>1
        <3> QED BY <3>1, <3>2 DEF HasFinding
    <2>2. CASE ~ \E old \in SameInsight(row) : old.ver > row.ver
        <3>1. row \in insights' /\ \A i \in insights : i \notin SameInsight(row) => i \in insights'
            BY <1>6, <2>2 DEF Put
        <3>2. CASE row.found /\ w = row.w /\ start = row.start
            BY <3>1, <3>2
        <3>3. CASE HasFinding(w, start)
            <4>1. PICK i \in insights : i.w = w /\ i.found /\ i.start = start
                BY <3>3 DEF HasFinding
            <4>2. CASE i \in SameInsight(row)
                <5>1. row.found
                    BY <1>6, <4>1, <4>2
                <5> QED BY <1>6, <3>1, <4>1, <4>2, <5>1
            <4> QED BY <3>1, <4>1, <4>2
        <3> QED BY <3>2, <3>3
    <2> QED BY <2>1, <2>2
<1>12. FindingsAreWritten'
    <2>1. ASSUME NEW t \in Sweepers, job'[t].pc = "finish", job'[t].reason = "completed"
          PROVE  \E i \in insights' : i.w = job'[t].w /\ i.found /\ i.start = Start(job'[t])
        <3>1. CASE t = s
            BY <1>2, <1>3, <1>5, <1>9, <1>11, <2>1, <3>1
        <3>2. CASE t # s
            <4>1. job'[t] = job[t] /\ HasFinding(job[t].w, Start(job[t]))
                BY <1>3, <2>1, <3>2 DEF FindingsInv, FindingsAreWritten
            <4> QED BY <1>11, <4>1
        <3> QED BY <3>1, <3>2
    <2>2. \A e \in ended' : e.reason = "completed" =>
            \E i \in insights' : i.w = e.w /\ i.found /\ i.start = e.start
        BY <1>1, <1>11 DEF FindingsInv, FindingsAreWritten
    <2> QED BY <2>1, <2>2 DEF FindingsAreWritten, HasFinding, Start
<1>13. FiguresSoFarOf(s)'
    <2> SUFFICES ASSUME c.reason = "completed", Calm(Start(job[s]))'
                 PROVE  FiguresSoFarOf(s)'
        BY <1>3 DEF FiguresSoFarOf
    <2>1. PICK d : d = Start(job[s])
        OBVIOUS
    <2>2. Start(job[s])' = d
        BY <1>9, <2>1 DEF Start
    <2>3. Calm(d)'
        BY <2>1, <2>2 DEF Calm, Shared
    <2>4. FiguresSoFarOf(s) /\ Calm(Start(job[s]))
        BY <1>9, <2>1, <2>3, CalmBefore DEF FindingsInv, FiguresSoFar
    <2> QED BY <1>1, <1>2, <1>3, <2>1, <2>2, <2>4 DEF FiguresSoFarOf
<1>14. ASSUME NEW i \in insights', i.found, i.start = Start(job[s]), Calm(i.start)'
       PROVE  FiguresOf(i)'
    <2>1. Calm(i.start)
        BY <1>9, <1>14, CalmBefore
    <2>2. CASE row.found
        <3>1. \A old \in insights : old.start = Start(job[s]) => old.w = row.w /\ old.ver = row.ver
            BY <1>1, <1>5, <1>14, <2>1, SameVersion DEF Calm
        <3>2. row.ver \in Nat
            BY <1>1, <1>5, StartsAreDays DEF IInv, Days
        <3>3. \A old \in SameInsight(row) : ~ (old.ver > row.ver)
            <4> SUFFICES ASSUME NEW old \in SameInsight(row) PROVE old.ver = row.ver
                BY <3>2
            <4>1. old \in insights /\ old.start = row.start
                BY <1>6, <2>2
            <4> QED BY <1>5, <3>1, <4>1
        <3>4. insights' = (insights \ SameInsight(row)) \cup {row}
            BY <1>6, <3>3 DEF Put
        <3>5. i = row
            <4>1. i \in insights => i.w = row.w /\ i.found = row.found
                <5>1. i.found \in BOOLEAN \/ i \notin insights
                    BY DEF IInv, TypeOK
                <5>2. row.found \in BOOLEAN
                    BY <1>4 DEF Insight
                <5> QED BY <1>14, <2>2, <3>1, <5>1, <5>2
            <4> QED BY <1>5, <1>6, <1>14, <3>4, <4>1
        <3>6. FiguresSoFarOf(s)
            BY DEF FindingsInv, FiguresSoFar
        <3> QED BY <1>1, <1>5, <1>14, <2>1, <2>2, <3>5, <3>6 DEF FiguresSoFarOf, FiguresOf
    <2>3. CASE ~ row.found
        <3>1. i \in insights
            BY <1>7, <1>14, <2>3
        <3>2. FiguresOf(i)
            BY <1>1, <1>5, <1>14, <2>1, <2>3, <3>1, NobodyElse DEF Replaces
        <3> QED BY <1>1, <3>2 DEF FiguresOf
    <2> QED BY <2>2, <2>3
<1> QED BY <1>1, <1>9, <1>10, <1>12, <1>13, <1>14, RunFindings

(* A run that ends, or is cut short, writes no figures.                      *)
LEMMA EndFindings ==
    ASSUME IInv, FindingsInv, NEW s \in Sweepers, Finish(s) \/ Abort(s)
    PROVE  FindingsInv'
<1>1. /\ job[s].pc # "idle" /\ job' = [job EXCEPT ![s] = Idle] /\ disturbed \subseteq disturbed'
      /\ UNCHANGED <<forecasts, anomalies, causes, effects, recs, insights>>
    BY DEF Finish, Abort, store, evidence
<1>2. job'[s] = Idle /\ \A t \in Sweepers \ {s} : job'[t] = job[t]
    BY <1>1, JobMoves DEF IInv
<1>3. Idle.pc = "idle" /\ Idle.reason = "none"
    BY DEF Idle
<1>4. Steps(s) /\ WritesFor(Start(job[s]))
    BY <1>1, <1>2, <1>3 DEF Steps, WritesFor
<1>5. RowsAreOfWindows'
    BY <1>1, RowsStay DEF FindingsInv
<1>6. VerdictsAreOne'
    <2>1. CASE Abort(s)
        BY <2>1 DEF Abort, store, FindingsInv, VerdictsAreOne
    <2>2. CASE Finish(s)
        <3> DEFINE row == [start |-> Start(job[s]), ver |-> job[s].end, reason |-> job[s].reason]
                   same == {v \in verdicts : v.start = Start(job[s])}
        <3>1. verdicts' = Put(verdicts, same, row)
            BY <2>2 DEF Finish
        <3>2. row.start = Start(job[s]) /\ \A v : v \in same <=> v \in verdicts /\ v.start = Start(job[s])
            OBVIOUS
        <3> HIDE DEF row, same
        <3> QED BY <3>1, <3>2 DEF Put, FindingsInv, VerdictsAreOne
    <2> QED BY <2>1, <2>2
<1>7. FindingsAreWritten'
    <2>1. \A w, start : HasFinding(w, start)' <=> HasFinding(w, start)
        BY <1>1 DEF HasFinding
    <2>2. \A e \in ended' : e.reason = "completed" => HasFinding(e.w, e.start)
        <3>1. CASE Abort(s)
            BY <3>1 DEF Abort, FindingsInv, FindingsAreWritten
        <3>2. CASE Finish(s)
            <4> DEFINE last == [w |-> job[s].w, start |-> Start(job[s]), run |-> job[s].run,
                                reason |-> job[s].reason]
            <4>1. ended' \subseteq ended \cup {last} /\ job[s].pc = "finish"
                BY <3>2 DEF Finish
            <4>2. last.w = job[s].w /\ last.start = Start(job[s]) /\ last.reason = job[s].reason
                OBVIOUS
            <4> HIDE DEF last
            <4> QED BY <4>1, <4>2 DEF FindingsInv, FindingsAreWritten
        <3> QED BY <3>1, <3>2
    <2>3. ASSUME NEW t \in Sweepers, job'[t].pc = "finish", job'[t].reason = "completed"
          PROVE  HasFinding(job'[t].w, Start(job'[t]))
        BY <1>2, <1>3, <2>3 DEF FindingsInv, FindingsAreWritten
    <2> QED BY <1>1, <2>2, <2>3 DEF FindingsAreWritten, HasFinding, Start
<1>8. FiguresSoFarOf(s)'
    BY <1>2, <1>3 DEF FiguresSoFarOf
<1>9. ASSUME NEW i \in insights', i.found, i.start = Start(job[s]), Calm(i.start)'
      PROVE  FiguresOf(i)'
    <2>1. Calm(i.start)
        BY <1>4, <1>9, CalmBefore
    <2>2. CASE Finish(s)
        <3>1. FiguresOf(i)
            BY <1>1, <1>9, <2>1, <2>2, NobodyElse DEF Replaces, Finish
        <3> QED BY <1>1, <3>1 DEF FiguresOf
    <2>3. CASE Abort(s)
        BY <1>9, <2>3 DEF Abort, Calm
    <2> QED BY <2>2, <2>3
<1> QED BY <1>1, <1>4, <1>5, <1>6, <1>7, <1>8, <1>9, RunFindings

(* Every step keeps the findings.                                            *)
LEMMA StepFindings == IInv /\ FindingsInv /\ [Next]_vars => FindingsInv'
<1> SUFFICES ASSUME IInv, FindingsInv, [Next]_vars PROVE FindingsInv'
    OBVIOUS
<1>1. CASE UNCHANGED vars
    BY <1>1, RestFindings DEF vars, store
<1>2. CASE ForecastBatch
    BY <1>2, RestFindings DEF ForecastBatch
<1>3. CASE Midnight
    BY <1>3, RestFindings DEF Midnight, store
<1>4. ASSUME NEW s \in Sweepers, NEW w \in WINDOW_CHOICES, Begin(s, w) PROVE FindingsInv'
    BY <1>4, BeginFindings
<1>5. ASSUME NEW s \in Sweepers,
             \/ Gate(s) \/ Detect(s) \/ Localize(s) \/ Causal(s) \/ Decide(s)
             \/ Narrate(s) \/ Finish(s) \/ Abort(s)
      PROVE  FindingsInv'
    BY <1>5, GateFindings, DetectFindings, LocalizeFindings, CausalFindings, DecideFindings,
       NarrateFindings, EndFindings
<1> QED BY <1>1, <1>2, <1>3, <1>4, <1>5 DEF Next

(* Both invariants hold of every behaviour.                                  *)
THEOREM FindingsInvariant == Spec => [](IInv /\ FindingsInv)
<1>1. Init => IInv /\ FindingsInv
    BY InitIInv, InitFindings
<1>2. IInv /\ FindingsInv /\ [Next]_vars => IInv' /\ FindingsInv'
    BY StepIInv, StepFindings
<1> QED BY <1>1, <1>2, PTL DEF Spec

\* Every set of naturals that is not empty has a least one.
LEMMA Least ==
  ASSUME NEW S, S \subseteq Nat, S # {}
  PROVE  \E x \in S : \A y \in S : x <= y
<1>1. PICK x \in S : \A y \in S : ~ (<<y, x>> \in OpToRel(<, Nat))
  <2> DEFINE R == OpToRel(<, Nat)
  <2>1. IsWellFoundedOn(R, Nat) BY NatLessThanWellFounded
  <2> HIDE DEF R
  <2>2. \E x \in S : \A y \in S : ~ (<<y, x>> \in R) BY <2>1, WFMin
  <2> QED BY <2>2 DEF R
<1>2. \A y \in S : ~(y < x)
  BY <1>1 DEF OpToRel
<1>3. x \in Nat /\ \A y \in S : y \in Nat
  OBVIOUS
<1> QED BY <1>2, <1>3

(* The two queries order the insights of one window alike: of two live rows the *)
(* later window ended later.                                                 *)
THEOREM PageAgreesWithList == Spec => []PageAndListAgree
<1>1. FindingsInv /\ IInv => PageAndListAgree
    <2> SUFFICES ASSUME FindingsInv, IInv, NEW w \in WINDOW_CHOICES
                 PROVE  ListInsights({w}) = LatestInsight({w})
        BY DEF PageAndListAgree
    <2>1. \A i \in Candidates({w}) : i \in insights /\ i.w = w /\ i.ver = i.start + w /\ i.start \in Nat
        <3> SUFFICES ASSUME NEW i \in insights, i.w = w
                     PROVE  i.ver = i.start + w /\ i.start \in Nat
            BY DEF Candidates
        <3>1. i.start \in 0 .. MaxDay
            BY DEF IInv, TypeOK, Days
        <3>2. i.ver = i.start + i.w
            BY DEF FindingsInv, RowsAreOfWindows
        <3> QED BY <3>1, <3>2, SignalStoreAssumption
    <2>2. w \in Nat
        BY SignalStoreAssumption
    <2>3. \A i, k \in Candidates({w}) :
            Before(k, i) <=> (Live(k) /\ ~ Live(i)) \/ ((Live(k) <=> Live(i)) /\ k.ver > i.ver)
        BY <2>1, <2>2 DEF Before
    <2> QED BY <2>3 DEF ListInsights, LatestInsight
<1> QED BY <1>1, FindingsInvariant, PTL

(* A reader is shown one run's figures: nothing of the finding's day has been *)
(* written since, or somebody is at it.                                      *)
THEOREM FiguresOneRuns == Spec => []FiguresAreOneRuns
<1>1. FindingsInv => FiguresAreOneRuns
    <2> SUFFICES ASSUME FindingsInv, NEW w \in WINDOW_CHOICES, NEW i \in LatestInsight({w}),
                        i.found, ~ UnderWay(i.start), Calm(i.start)
                 PROVE  FiguresOf(i)
        BY DEF FiguresAreOneRuns, FiguresOf, Calm
    <2>1. i \in insights
        BY DEF LatestInsight, Candidates
    <2>2. \A s \in Sweepers : ~ Replaces(s, i.start)
        BY DEF UnderWay, Replaces
    <2> QED BY <2>1, <2>2 DEF FindingsInv, FiguresAreKept
<1> QED BY <1>1, FindingsInvariant, PTL

(* A finding that stands is served, or a later one is: its run wrote it, its  *)
(* verdict is the one on record and its anomaly is live, so no row without   *)
(* one, and none of an earlier window, goes before it.                       *)
THEOREM FindingServed == Spec => []FindingIsServed
<1>1. IInv /\ FindingsInv => FindingIsServed
    <2> SUFFICES ASSUME IInv, FindingsInv, NEW e \in ended, e.reason = "completed", ~ Shared(e.start)
                 PROVE  /\ LatestInsight({e.w}) # {}
                        /\ \A i \in LatestInsight({e.w}) : Live(i) /\ i.start >= e.start
        BY DEF FindingIsServed
    <2>1. PICK j \in insights : j.w = e.w /\ j.found /\ j.start = e.start
        BY DEF FindingsInv, FindingsAreWritten, HasFinding
    <2>2. PICK v \in verdicts : v.start = e.start /\ v.reason = e.reason
        BY DEF IInv, EndedIsTheVerdict
    <2>3. j \in Candidates({e.w})
        <3>1. \A u \in verdicts : u.start = j.start => u.reason # "no_anomaly"
            BY <2>1, <2>2 DEF FindingsInv, VerdictsAreOne
        <3> QED BY <2>1, <3>1 DEF Candidates
    <2>4. \A i \in Candidates({e.w}) : i.start \in Nat /\ i.ver \in Nat /\ i.ver = i.start + i.w /\ i.w = e.w
        <3> SUFFICES ASSUME NEW i \in insights, i.w = e.w
                     PROVE  i.start \in Nat /\ i.ver \in Nat /\ i.ver = i.start + i.w
            BY DEF Candidates
        <3>1. i.start \in 0 .. MaxDay /\ i.ver \in 0 .. MaxDay
            BY DEF IInv, TypeOK, Days
        <3>2. i.ver = i.start + i.w
            BY DEF FindingsInv, RowsAreOfWindows
        <3> QED BY <3>1, <3>2, SignalStoreAssumption
    <2>5. Live(j)
        BY <2>1 DEF IInv, EvidenceComesFirst, Live
    <2>6. \A i \in LatestInsight({e.w}) : Live(i) /\ i.start >= e.start
        <3> SUFFICES ASSUME NEW i \in LatestInsight({e.w}), ~ Live(i) \/ ~ (i.start >= e.start)
                     PROVE  FALSE
            OBVIOUS
        <3>1. i \in Candidates({e.w}) /\ ~ Before(j, i)
            BY <2>3 DEF LatestInsight
        <3>2. i.start \in Nat /\ j.start \in Nat /\ j.start = e.start
            BY <2>1, <2>3, <2>4, <3>1
        <3> QED BY <2>5, <3>1, <3>2 DEF Before
    <2>7. LatestInsight({e.w}) # {}
        <3> DEFINE Lives == {i \in Candidates({e.w}) : Live(i)}
                   T == {MaxDay - i.start : i \in Lives}
        <3>1. T \subseteq Nat /\ T # {}
            <4>1. \A i \in Lives : i \in insights
                BY DEF Candidates
            <4>2. \A i \in Lives : i.start \in 0 .. MaxDay
                BY <4>1 DEF IInv, TypeOK, Days
            <4>3. j \in Lives /\ MaxDay \in Nat
                BY <2>3, <2>5, SignalStoreAssumption
            <4> HIDE DEF Lives
            <4>4. \A i \in Lives : MaxDay - i.start \in Nat
                BY <4>2, <4>3
            <4> QED BY <4>3, <4>4
        <3>2. PICK m \in T : \A n \in T : m <= n
            BY <3>1, Least
        <3>3. PICK i \in Lives : m = MaxDay - i.start
            BY <3>2
        <3>4. ASSUME NEW k \in Candidates({e.w}), Before(k, i) PROVE FALSE
            <4>1. Live(k) /\ k \in Lives
                BY <3>4 DEF Before
            <4>2. m <= MaxDay - k.start
                BY <3>2, <4>1
            <4>3. i.start \in Nat /\ k.start \in Nat /\ ~ (k.start > i.start)
                <5>1. i.start \in Nat /\ k.start \in Nat /\ MaxDay \in Nat
                    BY <2>4, <3>3, <4>1, SignalStoreAssumption
                <5> QED BY <3>3, <4>2, <5>1
            <4>4. k.start = i.start => k.ver = i.ver
                BY <2>4, <3>3, <4>1
            <4>5. i.ver \in Nat
                BY <2>4, <3>3
            <4> QED BY <3>3, <3>4, <4>3, <4>4, <4>5 DEF Before
        <3> QED BY <3>3, <3>4 DEF LatestInsight
    <2> QED BY <2>6, <2>7
<1> QED BY <1>1, FindingsInvariant, PTL

(***************************************************************************)
(* The warehouse.                                                          *)
(***************************************************************************)

\* What is at the seven places of a sequence of seven.
LEMMA Seven ==
  ASSUME NEW S, NEW a \in S, NEW b \in S, NEW c \in S, NEW d \in S, NEW e \in S, NEW f \in S, NEW g \in S
  PROVE  /\ Len(<<a, b, c, d, e, f, g>>) = 7 /\ <<a, b, c, d, e, f, g>> \in Seq(S)
         /\ <<a, b, c, d, e, f, g>>[1] = a /\ <<a, b, c, d, e, f, g>>[2] = b /\ <<a, b, c, d, e, f, g>>[3] = c
         /\ <<a, b, c, d, e, f, g>>[4] = d /\ <<a, b, c, d, e, f, g>>[5] = e /\ <<a, b, c, d, e, f, g>>[6] = f
         /\ <<a, b, c, d, e, f, g>>[7] = g
OBVIOUS

\* Three sequences, two of length seven, one after the other.
Joins(p, k, a, b) ==
  /\ Len(p) = 14 + Len(b) /\ DOMAIN p = 1 .. (14 + Len(b))
  /\ \A i \in 1 .. 7 : p[i] = k[i]
  /\ \A i \in 1 .. 7 : p[7 + i] = a[i]
  /\ \A i \in 1 .. Len(b) : p[14 + i] = b[i]
\* A round is its two paths and its stages, one after the other.
LEMMA Joined ==
  ASSUME NEW S, NEW k \in Seq(S), NEW a \in Seq(S), NEW b \in Seq(S), Len(k) = 7, Len(a) = 7,
         NEW p, p = k \o (a \o b)
  PROVE  Joins(p, k, a, b)
<1>1. PICK c : c = a \o b
  OBVIOUS
<1>2. /\ c \in Seq(S) /\ Len(c) = 7 + Len(b) /\ Len(b) \in Nat
      /\ \A i \in 1 .. (7 + Len(b)) : c[i] = IF i <= 7 THEN a[i] ELSE b[i - 7]
  <2>1. /\ c \in Seq(S) /\ Len(c) = Len(a) + Len(b)
        /\ \A i \in 1 .. Len(a) + Len(b) : c[i] = IF i <= Len(a) THEN a[i] ELSE b[i - Len(a)]
    BY <1>1, ConcatProperties, ZenonT(20)
  <2>2. Len(b) \in Nat
    OBVIOUS
  <2> QED BY <2>1, <2>2
<1>3. p = k \o c
  BY <1>1
<1>4. /\ p \in Seq(S) /\ Len(p) = 14 + Len(b)
      /\ \A i \in 1 .. (14 + Len(b)) : p[i] = IF i <= 7 THEN k[i] ELSE c[i - 7]
  <2>1. /\ p \in Seq(S) /\ Len(p) = Len(k) + Len(c)
        /\ \A i \in 1 .. Len(k) + Len(c) : p[i] = IF i <= Len(k) THEN k[i] ELSE c[i - Len(k)]
    <3>1. /\ k \o c \in Seq(S) /\ Len(k \o c) = Len(k) + Len(c)
          /\ \A i \in 1 .. Len(k) + Len(c) : (k \o c)[i] = IF i <= Len(k) THEN k[i] ELSE c[i - Len(k)]
      <4>1. c \in Seq(S)
        BY <1>2
      <4> QED BY <4>1, ConcatProperties, ZenonT(20)
    <3> QED BY <1>3, <3>1
  <2> QED BY <1>2, <2>1
<1>5. DOMAIN p = 1 .. (14 + Len(b))
  BY <1>4
<1>6. \A i \in 1 .. 7 : p[i] = k[i]
  BY <1>2, <1>4
<1>7. ASSUME NEW i \in 1 .. 7 PROVE p[7 + i] = a[i]
  <2>1. 7 + i \in 1 .. (14 + Len(b)) /\ ~ (7 + i <= 7) /\ (7 + i) - 7 = i /\ i \in 1 .. (7 + Len(b)) /\ i <= 7
    BY <1>2
  <2> QED BY <1>2, <1>4, <2>1
<1>8. ASSUME NEW i \in 1 .. Len(b) PROVE p[14 + i] = b[i]
  <2>1. 14 + i \in 1 .. (14 + Len(b)) /\ ~ (14 + i <= 7) /\ (14 + i) - 7 = 7 + i
        /\ 7 + i \in 1 .. (7 + Len(b)) /\ ~ (7 + i <= 7) /\ (7 + i) - 7 = i
    BY <1>2
  <2> QED BY <1>2, <1>4, <2>1
<1> QED BY <1>4, <1>5, <1>6, <1>7, <1>8 DEF Joins

\* Where the statements stand in a round.
LEMMA PathFacts ==
  /\ Len(Funnel) \in Nat /\ DOMAIN Funnel = 1 .. Len(Funnel)
  /\ \A i \in 1 .. Len(Funnel) : Funnel[i] \in DOMAIN Requires
  /\ Len(KpiPath) = 7 /\ Len(Path) = 14 + Len(Funnel) /\ DOMAIN Path = 1 .. (14 + Len(Funnel))
  /\ Path[1] = <<"read", "loans">> /\ Path[2] = <<"truncate", "loans">> /\ Path[3] = <<"insert", "loans">>
  /\ Path[4] = <<"optimize", "loans">> /\ Path[5] = <<"delete", "daily">> /\ Path[6] = <<"daily", "kyc_started">>
  /\ Path[7] = <<"daily", "kyc_completed">>
  /\ Path[8] = <<"read", "events">> /\ Path[9] = <<"insert", "events">> /\ Path[10] = <<"insert", "rejects">>
  /\ Path[11] = <<"optimize", "events">> /\ Path[12] = <<"truncate", "sessions">>
  /\ Path[13] = <<"insert", "sessions">> /\ Path[14] = <<"delete", "funnel">>
  /\ \A i \in 1 .. Len(Funnel) : Path[14 + i] = <<"stage", Funnel[i]>>
<1> DEFINE A == << <<"read", "events">>, <<"insert", "events">>, <<"insert", "rejects">>, <<"optimize", "events">>,
                   <<"truncate", "sessions">>, <<"insert", "sessions">>, <<"delete", "funnel">> >>
           B == [i \in DOMAIN Funnel |-> <<"stage", Funnel[i]>>]
           S == {<<"read", "loans">>, <<"truncate", "loans">>, <<"insert", "loans">>, <<"optimize", "loans">>,
                 <<"delete", "daily">>, <<"daily", "kyc_started">>, <<"daily", "kyc_completed">>,
                 <<"read", "events">>, <<"insert", "events">>, <<"insert", "rejects">>, <<"optimize", "events">>,
                 <<"truncate", "sessions">>, <<"insert", "sessions">>, <<"delete", "funnel">>}
                \cup {<<"stage", f>> : f \in DOMAIN Requires}
<1>1. Len(Funnel) \in Nat /\ DOMAIN Funnel = 1 .. Len(Funnel) /\ \A i \in 1 .. Len(Funnel) : Funnel[i] \in DOMAIN Requires
  <2>1. PICK D : D = DOMAIN Requires
    OBVIOUS
  <2>2. Funnel \in Seq(D)
    BY <2>1, FunnelAssumption
  <2>3. Len(Funnel) \in Nat /\ DOMAIN Funnel = 1 .. Len(Funnel) /\ \A i \in 1 .. Len(Funnel) : Funnel[i] \in D
    BY <2>2
  <2> QED BY <2>1, <2>3
<1>2. /\ Len(KpiPath) = 7 /\ KpiPath \in Seq(S)
      /\ KpiPath[1] = <<"read", "loans">> /\ KpiPath[2] = <<"truncate", "loans">> /\ KpiPath[3] = <<"insert", "loans">>
      /\ KpiPath[4] = <<"optimize", "loans">> /\ KpiPath[5] = <<"delete", "daily">> /\ KpiPath[6] = <<"daily", "kyc_started">>
      /\ KpiPath[7] = <<"daily", "kyc_completed">>
  BY Seven DEF KpiPath
<1>3. /\ Len(A) = 7 /\ A \in Seq(S)
      /\ A[1] = <<"read", "events">> /\ A[2] = <<"insert", "events">> /\ A[3] = <<"insert", "rejects">>
      /\ A[4] = <<"optimize", "events">> /\ A[5] = <<"truncate", "sessions">>
      /\ A[6] = <<"insert", "sessions">> /\ A[7] = <<"delete", "funnel">>
  BY Seven
<1>4. \A i \in 1 .. Len(Funnel) : <<"stage", Funnel[i]>> \in S
  BY <1>1
<1> HIDE DEF S
<1>5. Len(B) = Len(Funnel) /\ B \in Seq(S) /\ \A i \in 1 .. Len(Funnel) : B[i] = <<"stage", Funnel[i]>>
  BY <1>1, <1>4
<1>6. Path = KpiPath \o (A \o B)
  BY DEF Path, ContextPath
<1> HIDE DEF A, B
<1>7. PICK b : b = B
  OBVIOUS
<1>8. PICK a : a = A
  OBVIOUS
<1>9. /\ Len(Path) = 14 + Len(b) /\ DOMAIN Path = 1 .. (14 + Len(b))
      /\ \A i \in 1 .. 7 : Path[i] = KpiPath[i]
      /\ \A i \in 1 .. 7 : Path[7 + i] = a[i]
      /\ \A i \in 1 .. Len(b) : Path[14 + i] = b[i]
  <2>1. PICK k : k = KpiPath
    OBVIOUS
  <2>2. PICK T : T = S
    OBVIOUS
  <2>3. k \in Seq(T) /\ a \in Seq(T) /\ b \in Seq(T) /\ Len(k) = 7 /\ Len(a) = 7
    BY <1>2, <1>3, <1>5, <1>7, <1>8, <2>1, <2>2
  <2>4. Path = k \o (a \o b)
    BY <1>6, <1>7, <1>8, <2>1
  <2>5. PICK p : p = Path
    OBVIOUS
  <2>6. p = k \o (a \o b)
    BY <2>4, <2>5
  <2>7. Joins(p, k, a, b)
    BY <2>3, <2>6, Joined
  <2> QED BY <2>1, <2>5, <2>7 DEF Joins
<1>10. /\ Path[1] = KpiPath[1] /\ Path[2] = KpiPath[2] /\ Path[3] = KpiPath[3] /\ Path[4] = KpiPath[4]
       /\ Path[5] = KpiPath[5] /\ Path[6] = KpiPath[6] /\ Path[7] = KpiPath[7]
  BY <1>9
<1>11. /\ Path[7 + 1] = a[1] /\ Path[7 + 2] = a[2] /\ Path[7 + 3] = a[3] /\ Path[7 + 4] = a[4]
       /\ Path[7 + 5] = a[5] /\ Path[7 + 6] = a[6] /\ Path[7 + 7] = a[7]
  BY <1>9
<1>12. /\ Path[8] = a[1] /\ Path[9] = a[2] /\ Path[10] = a[3] /\ Path[11] = a[4]
       /\ Path[12] = a[5] /\ Path[13] = a[6] /\ Path[14] = a[7]
  BY <1>11
<1>13. \A i \in 1 .. Len(Funnel) : Path[14 + i] = <<"stage", Funnel[i]>>
  BY <1>5, <1>7, <1>9
<1>14. Len(Path) = 14 + Len(Funnel) /\ DOMAIN Path = 1 .. (14 + Len(Funnel))
  BY <1>5, <1>7, <1>9
<1>15. Len(KpiPath) = 7
  BY <1>2
<1>16. /\ Path[1] = <<"read", "loans">> /\ Path[2] = <<"truncate", "loans">> /\ Path[3] = <<"insert", "loans">>
       /\ Path[4] = <<"optimize", "loans">> /\ Path[5] = <<"delete", "daily">> /\ Path[6] = <<"daily", "kyc_started">>
       /\ Path[7] = <<"daily", "kyc_completed">>
  BY <1>2, <1>10
<1>17. /\ Path[8] = <<"read", "events">> /\ Path[9] = <<"insert", "events">> /\ Path[10] = <<"insert", "rejects">>
       /\ Path[11] = <<"optimize", "events">> /\ Path[12] = <<"truncate", "sessions">>
       /\ Path[13] = <<"insert", "sessions">> /\ Path[14] = <<"delete", "funnel">>
  BY <1>3, <1>8, <1>12
<1> QED BY <1>1, <1>13, <1>14, <1>15, <1>16, <1>17

\* A chain that goes back to a stage without a predecessor, for five stages that hang
\* together as those of the KYC funnel do.
Hangs(req, n, a, b, c, d, e) ==
  /\ DOMAIN req = {a, b, c, d, e}
  /\ n \notin {a, b, c, d, e}
  /\ a \notin {b, c, d, e} /\ b \notin {c, d, e} /\ c \notin {d, e} /\ d # e
  /\ req[a] = n /\ req[b] = a /\ req[c] = b /\ req[d] = c /\ req[e] = a
Chains(f, req, n) == f = [s \in DOMAIN req |-> IF req[s] = n THEN <<s>> ELSE Append(f[req[s]], s)]
\* The recursive definition of a chain has a solution.
LEMMA ChainExists ==
  ASSUME NEW req, NEW n, NEW a, NEW b, NEW c, NEW d, NEW e, Hangs(req, n, a, b, c, d, e)
  PROVE  \E f : Chains(f, req, n)
<1> DEFINE A == <<a>>
           B == Append(A, b)
           C == Append(B, c)
           D == Append(C, d)
           E == Append(A, e)
           f == [s \in DOMAIN req |-> IF s = a THEN A ELSE IF s = b THEN B ELSE IF s = c THEN C
                                      ELSE IF s = d THEN D ELSE E]
<1>1. f[a] = A /\ f[b] = B /\ f[c] = C /\ f[d] = D /\ f[e] = E
  <2> HIDE DEF A, B, C, D, E
  <2> QED BY DEF Hangs
<1>2. ASSUME NEW s \in DOMAIN req
      PROVE  f[s] = IF req[s] = n THEN <<s>> ELSE Append(f[req[s]], s)
  <2> DEFINE Is == f[s] = IF req[s] = n THEN <<s>> ELSE Append(f[req[s]], s)
  <2>1. s = a \/ s = b \/ s = c \/ s = d \/ s = e
    BY DEF Hangs
  <2>2. CASE s = a
    <3>1. f[s] = <<s>> /\ req[s] = n
      BY <1>1, <2>2 DEF Hangs
    <3> HIDE DEF f
    <3> QED BY <3>1
  <2>3. CASE s = b
    <3>1. f[s] = Append(f[a], s) /\ req[s] = a /\ a # n
      <4> HIDE DEF f
      <4> QED BY <1>1, <2>3 DEF Hangs
    <3> HIDE DEF f
    <3> QED BY <3>1
  <2>4. CASE s = c
    <3>1. f[s] = Append(f[b], s) /\ req[s] = b /\ b # n
      <4> HIDE DEF f
      <4> QED BY <1>1, <2>4 DEF Hangs
    <3> HIDE DEF f
    <3> QED BY <3>1
  <2>5. CASE s = d
    <3>1. f[s] = Append(f[c], s) /\ req[s] = c /\ c # n
      <4> HIDE DEF f
      <4> QED BY <1>1, <2>5 DEF Hangs
    <3> HIDE DEF f
    <3> QED BY <3>1
  <2>6. CASE s = e
    <3>1. f[s] = Append(f[a], s) /\ req[s] = a /\ a # n
      <4> HIDE DEF f
      <4> QED BY <1>1, <2>6 DEF Hangs
    <3> HIDE DEF f
    <3> QED BY <3>1
  <2> QED BY <2>1, <2>2, <2>3, <2>4, <2>5, <2>6
<1>3. DOMAIN f = DOMAIN req /\ f = [s \in DOMAIN f |-> f[s]]
  OBVIOUS
<1>4. f = [s \in DOMAIN req |-> IF req[s] = n THEN <<s>> ELSE Append(f[req[s]], s)]
  <2> HIDE DEF f
  <2> QED BY <1>2, <1>3
<1> HIDE DEF f
<1>5. Chains(f, req, n)
  BY <1>4 DEF Chains
<1> QED BY <1>5

\* What the chain of a stage looks like, and that it is a sequence of stages.
LEMMA ChainIsOne ==
  /\ Chains(Chain, Requires, "none")
  /\ Hangs(Requires, "none", "kyc_started", "kyc_completed", "loan_applied", "loan_approved", "kyc_abandoned")
<1>1. Hangs(Requires, "none", "kyc_started", "kyc_completed", "loan_applied", "loan_approved", "kyc_abandoned")
  BY DEF Hangs, Requires
<1>2. \E f : Chains(f, Requires, "none")
  BY <1>1, ChainExists
<1>3. Chain = CHOOSE f : Chains(f, Requires, "none")
  BY DEF Chain, Chains
<1> QED BY <1>1, <1>2, <1>3

Grows(f, req, n) ==
  \A s \in DOMAIN req : req[s] # n =>
    /\ req[s] \in DOMAIN req /\ f[req[s]] \in Seq(DOMAIN req) /\ f[s] = Append(f[req[s]], s)
\* Each chain is that of the stage before, with the stage itself at the end.
LEMMA ChainsGrow ==
  ASSUME NEW req, NEW n, NEW a, NEW b, NEW c, NEW d, NEW e, Hangs(req, n, a, b, c, d, e),
         NEW f, Chains(f, req, n)
  PROVE  Grows(f, req, n)
<1> DEFINE S == DOMAIN req
<1>1. \A s \in S : f[s] = IF req[s] = n THEN <<s>> ELSE Append(f[req[s]], s)
  BY DEF Chains
<1>2. a \in S /\ b \in S /\ c \in S /\ d \in S /\ e \in S
  BY DEF Hangs
<1>3. \A s \in S : req[s] # n => req[s] \in S /\ f[s] = Append(f[req[s]], s)
  BY <1>1, <1>2 DEF Hangs
<1>4. \A s \in S : req[s] = n => f[s] = <<s>>
  BY <1>1
<1>5. f[a] = <<a>> /\ f[b] = Append(f[a], b) /\ f[c] = Append(f[b], c) /\ f[d] = Append(f[c], d) /\ f[e] = Append(f[a], e)
  BY <1>1, <1>2 DEF Hangs
<1>6. \A s \in S : s = a \/ s = b \/ s = c \/ s = d \/ s = e
  BY DEF Hangs
<1> HIDE DEF S
<1>7. f[a] \in Seq(S)
  BY <1>2, <1>5
<1>8. f[b] \in Seq(S)
  BY <1>2, <1>5, <1>7
<1>9. f[c] \in Seq(S)
  BY <1>2, <1>5, <1>8
<1>10. f[d] \in Seq(S)
  BY <1>2, <1>5, <1>9
<1>11. f[e] \in Seq(S)
  BY <1>2, <1>5, <1>7
<1>12. \A s \in S : f[s] \in Seq(S)
  BY <1>6, <1>7, <1>8, <1>9, <1>10, <1>11
<1> QED BY <1>3, <1>12 DEF Grows, S

\* What a reader makes of the rows of a stage when the window goes back to the first date.
UpTo(rows, d) == {r[1] : r \in {r \in rows : 0 <= r[2] /\ r[2] < d + 1}}

\* A user's first touch of a stage is one of that user's events.
LEMMA FirstIsSeen ==
  ASSUME NEW u, NEW s, \E e \in Of(u) : e.name = s
  PROVE  \E e \in Events : e.at = First(u, s)
<1> DEFINE S == {e.at : e \in {e \in Of(u) : e.name = s}}
<1>1. \A x \in S : \E e \in Events : e.at = x
  BY DEF Of
<1>2. S \subseteq Nat
  BY <1>1, WarehouseAssumption
<1>3. S # {}
  OBVIOUS
<1>4. First(u, s) = Min(S)
  BY DEF First
<1> HIDE DEF S
<1>5. \E x \in S : \A y \in S : x <= y
  BY <1>2, <1>3, Least
<1>6. Min(S) \in S
  BY <1>5 DEF Min
<1> QED BY <1>1, <1>4, <1>6

\* Whoever passed a stage passed the one before it, and not later.
LEMMA PassedBefore ==
  ASSUME NEW s \in DOMAIN Requires, NEW r, Requires[s] = r, r # "none", NEW u, Passed(u, s)
  PROVE  /\ r \in DOMAIN Requires /\ Passed(u, r)
         /\ First(u, s) >= First(u, r)
         /\ \E e \in Of(u) : e.name = s
         /\ \E e \in Of(u) : e.name = r
<1>1. Grows(Chain, Requires, "none") /\ Chains(Chain, Requires, "none")
  BY ChainIsOne, ChainsGrow
<1>2. PICK p : p = Chain[r]
  OBVIOUS
<1>3. PICK q : q = Chain[s]
  OBVIOUS
<1>4. PICK S : S = DOMAIN Requires
  OBVIOUS
<1>5. r \in S /\ s \in S /\ p \in Seq(S) /\ q = Append(p, s)
  BY <1>1, <1>2, <1>3, <1>4 DEF Grows
<1>6. Len(p) \in Nat /\ Len(q) = Len(p) + 1 /\ DOMAIN q = 1 .. Len(p) + 1 /\ DOMAIN p = 1 .. Len(p)
      /\ q[Len(q)] = s /\ \A i \in 1 .. Len(p) : q[i] = p[i]
  BY <1>5
<1>7. Len(p) >= 1 /\ p[Len(p)] = r
  <2>1. CASE Requires[r] = "none"
    <3>1. p = <<r>>
      BY <1>1, <1>2, <1>4, <1>5, <2>1 DEF Chains
    <3> QED BY <3>1
  <2>2. CASE Requires[r] # "none"
    <3>1. PICK o : o = Chain[Requires[r]]
      OBVIOUS
    <3>2. p = Append(o, r) /\ o \in Seq(S)
      BY <1>1, <1>2, <1>4, <1>5, <2>2, <3>1 DEF Grows
    <3> QED BY <1>5, <3>2
  <2> QED BY <2>1, <2>2
<1>8. (\A i \in DOMAIN q : \E e \in Of(u) : e.name = q[i])
      /\ (\A i \in 2 .. Len(q) : First(u, q[i]) >= First(u, q[i - 1]))
  BY <1>3 DEF Passed
<1>9. \A i \in DOMAIN p : \E e \in Of(u) : e.name = p[i]
  BY <1>6, <1>8
<1>10. ASSUME NEW i \in 2 .. Len(p) PROVE First(u, p[i]) >= First(u, p[i - 1])
  <2>1. i \in 2 .. Len(q) /\ q[i] = p[i] /\ q[i - 1] = p[i - 1]
    BY <1>6
  <2>2. First(u, q[i]) >= First(u, q[i - 1])
    BY <1>8, <2>1
  <2> QED BY <2>1, <2>2
<1>11. Passed(u, r)
  BY <1>2, <1>9, <1>10 DEF Passed
<1>12. First(u, s) >= First(u, r)
  <2>1. Len(q) \in 2 .. Len(q) /\ q[Len(q)] = s /\ q[Len(q) - 1] = r
    BY <1>6, <1>7
  <2> QED BY <1>8, <2>1
<1>13. (\E e \in Of(u) : e.name = s) /\ (\E e \in Of(u) : e.name = r)
  <2>1. Len(q) \in DOMAIN q /\ Len(p) \in DOMAIN p
    BY <1>6, <1>7
  <2> QED BY <1>6, <1>7, <1>8, <1>9, <2>1
<1> QED BY <1>4, <1>5, <1>11, <1>12, <1>13

\* Whoever entered a stage entered the one before it, on that date or an earlier one.
LEMMA EnteredShrinks ==
  ASSUME NEW s \in DOMAIN Requires, NEW r, Requires[s] = r, r # "none", NEW d \in Dates
  PROVE  UpTo(Entered(s), d) \subseteq UpTo(Entered(r), d)
<1> SUFFICES ASSUME NEW u \in UpTo(Entered(s), d) PROVE u \in UpTo(Entered(r), d)
  OBVIOUS
<1>1. PICK x \in Entered(s) : u = x[1] /\ 0 <= x[2] /\ x[2] < d + 1
  BY DEF UpTo
<1>2. u \in Users /\ Passed(u, s) /\ x[2] = DateOf[First(u, s)]
  BY <1>1 DEF Entered
<1>3. Passed(u, r) /\ First(u, s) >= First(u, r)
      /\ (\E e \in Of(u) : e.name = s) /\ (\E e \in Of(u) : e.name = r)
  BY <1>2, PassedBefore
<1>4. PICK e \in Events : e.at = First(u, s)
  BY <1>3, FirstIsSeen
<1>5. PICK f \in Events : f.at = First(u, r)
  BY <1>3, FirstIsSeen
<1>6. DateOf[f.at] <= DateOf[e.at] /\ DateOf[f.at] \in Nat /\ DateOf[e.at] \in Nat
  <2>1. f.at <= e.at
    BY <1>3, <1>4, <1>5, WarehouseAssumption
  <2> QED BY <2>1, WarehouseAssumption
<1>7. PICK y : y = <<u, DateOf[First(u, r)]>>
  OBVIOUS
<1>8. y \in Entered(r) /\ y[1] = u /\ y[2] = DateOf[f.at]
  BY <1>2, <1>3, <1>5, <1>7 DEF Entered
<1>9. d \in Nat
  BY WarehouseAssumption DEF Dates
<1>10. 0 <= y[2] /\ y[2] < d + 1
  BY <1>1, <1>2, <1>4, <1>6, <1>8, <1>9
<1> QED BY <1>8, <1>10 DEF UpTo

\* Which statements a thread may be at, by its place in a round.
Where(t) ==
  /\ At(t, "delete", "daily") => pc[t] = 5
  /\ At(t, "daily", "kyc_started") => pc[t] = 6
  /\ At(t, "daily", "kyc_completed") => pc[t] = 7
  /\ At(t, "delete", "funnel") => pc[t] = 14
  /\ \A s : At(t, "stage", s) => pc[t] \in 15 .. (14 + Len(Funnel)) /\ Funnel[pc[t] - 14] = s
  /\ At(t, "read", "loans") \/ At(t, "truncate", "loans") \/ At(t, "insert", "loans") \/ At(t, "optimize", "loans")
       => pc[t] \in 1 .. 4
  /\ (\/ At(t, "read", "events") \/ At(t, "insert", "events") \/ At(t, "insert", "rejects")
      \/ At(t, "optimize", "events") \/ At(t, "truncate", "sessions") \/ At(t, "insert", "sessions"))
       => pc[t] \in 8 .. 13
\* The statement a thread is at and its place in the round determine each other as far as needed.
LEMMA WhereAt ==
  ASSUME NEW t \in Threads, pc[t] \in 0 .. Len(Path)
  PROVE  Where(t)
<1>1. CASE pc[t] = 0
  BY <1>1 DEF Where, At
<1>2. CASE \E i \in 1 .. Len(Funnel) : pc[t] = 14 + i
  <2>1. PICK i \in 1 .. Len(Funnel) : pc[t] = 14 + i
    BY <1>2
  <2>2. Path[pc[t]] = <<"stage", Funnel[i]>> /\ Len(Funnel) \in Nat
    BY <2>1, PathFacts
  <2>3. pc[t] \in 15 .. (14 + Len(Funnel)) /\ pc[t] - 14 = i
    BY <2>1, <2>2
  <2> QED BY <2>2, <2>3 DEF Where, At
<1>3. CASE pc[t] \in 1 .. 7
  <2>1. pc[t] = 1 \/ pc[t] = 2 \/ pc[t] = 3 \/ pc[t] = 4 \/ pc[t] = 5 \/ pc[t] = 6 \/ pc[t] = 7
    BY <1>3
  <2> QED BY <2>1, PathFacts DEF Where, At
<1>4. CASE pc[t] \in 8 .. 14
  <2>1. pc[t] = 8 \/ pc[t] = 9 \/ pc[t] = 10 \/ pc[t] = 11 \/ pc[t] = 12 \/ pc[t] = 13 \/ pc[t] = 14
    BY <1>4
  <2> QED BY <2>1, PathFacts DEF Where, At
<1>5. pc[t] \in 0 .. (14 + Len(Funnel)) /\ Len(Funnel) \in Nat
  BY PathFacts
<1>6. pc[t] > 14 => pc[t] - 14 \in 1 .. Len(Funnel) /\ pc[t] = 14 + (pc[t] - 14)
  BY <1>5
<1> QED BY <1>1, <1>2, <1>3, <1>4, <1>5, <1>6

(* ---- the invariant ---- *)
LoanRows == [by : Threads, app : Apps, step : {1, 3}]
WarehouseTypes ==
  /\ core \in [Apps -> {0, 1, 3}]
  /\ loans \subseteq LoanRows
  /\ \A t \in Threads : read[t].loans \subseteq Apps \X {1, 3}
  /\ read = [t \in Threads |-> [loans |-> read[t].loans, events |-> read[t].events]]
  /\ daily \in [Funds -> Nat]
  /\ DOMAIN funnel = Stages
  /\ pc \in [Threads -> 0 .. Len(Path)]
RoundsAreSingle == \A t, v \in Threads : pc[t] # 0 /\ pc[v] # 0 => t = v
\* The funnel when its first n stages are rebuilt.
FunnelAt(n) == [s \in Stages |-> IF \E j \in 1 .. n : Funnel[j] = s THEN Entered(s) ELSE {}]
\* What a round that runs alone has left behind when it comes to its n-th statement.
RoundAt(n) ==
  /\ n = 6 => daily["kyc_started"] = 0 /\ daily["kyc_completed"] = 0
  /\ n = 7 => daily["kyc_started"] = CountOf("kyc_started") /\ daily["kyc_completed"] = 0
  /\ n >= 15 => funnel = FunnelAt(n - 15)
RoundKept(t) == \A n : pc[t] = n => RoundAt(n)
SingleRounds == ~ overlapped => RoundsAreSingle /\ \A t \in Threads : RoundKept(t)
WInv == WarehouseTypes /\ SingleRounds /\ LaterStagesAreSmaller

\* A statement that returns goes on to the next, one that raises to the context path or to
\* the end of the round.
Goes(t) ==
  /\ pc' \in [Threads -> 0 .. Len(Path)]
  /\ \A v \in Threads \ {t} : pc'[v] = pc[v]
  /\ pc'[t] \in {0, 8} \/ pc'[t] = pc[t] + 1
Fails(t) == Goes(t) /\ pc'[t] \in {0, 8}
\* A statement that raises sends its thread to the context path or out of the round.
LEMMA Raises ==
  ASSUME pc \in [Threads -> 0 .. Len(Path)], NEW t \in Threads, Raise(t)
  PROVE  Fails(t)
<1>1. Len(KpiPath) = 7 /\ Len(Path) = 14 + Len(Funnel) /\ Len(Funnel) \in Nat
  BY PathFacts
<1>2. AfterError(t) \in {0, 8}
  BY <1>1 DEF AfterError
<1>3. PICK n : n = AfterError(t)
  OBVIOUS
<1>4. n \in {0, 8} /\ n \in 0 .. Len(Path) /\ pc' = [pc EXCEPT ![t] = n]
  BY <1>1, <1>2, <1>3 DEF Raise
<1> QED BY <1>4 DEF Goes, Fails
\* A statement that is answered moves its thread and no other.
LEMMA Answers ==
  ASSUME pc \in [Threads -> 0 .. Len(Path)], NEW t \in Threads, Return(t) \/ Raise(t)
  PROVE  Goes(t)
<1>1. CASE Raise(t)
  BY <1>1, Raises DEF Fails
<1>2. CASE Return(t)
  <2>1. Len(Path) \in Nat
    BY PathFacts
  <2>2. PICK n : n = IF pc[t] = Len(Path) THEN 0 ELSE pc[t] + 1
    OBVIOUS
  <2>3. pc' = [pc EXCEPT ![t] = n]
    BY <1>2, <2>2 DEF Return
  <2>4. n \in 0 .. Len(Path) /\ (n = 0 \/ n = pc[t] + 1)
    BY <2>1, <2>2
  <2> QED BY <2>3, <2>4 DEF Goes
<1> QED BY <1>1, <1>2

\* There are finitely many loan rows, and those that completed KYC are among those that started.
LEMMA FewLoans ==
  ASSUME WarehouseTypes
  PROVE  /\ CountOf("kyc_started") \in Nat /\ CountOf("kyc_completed") \in Nat
         /\ CountOf("kyc_completed") <= CountOf("kyc_started")
         /\ \A f \in Funds : CountOf(f) \in Nat
<1>1. IsFiniteSet(Threads)
  BY WarehouseAssumption, FS_AddElement, FS_Union, FS_Singleton DEF Threads
<1>2. IsFiniteSet({1, 3})
  <2>1. {1, 3} = {1} \cup {3}
    OBVIOUS
  <2>2. IsFiniteSet({1}) /\ IsFiniteSet({3})
    BY FS_Singleton
  <2> QED BY <2>1, <2>2, FS_Union
<1>3. IsFiniteSet((Threads \X Apps) \X {1, 3})
  BY <1>1, <1>2, FS_Product, WarehouseAssumption
<1>4. IsFiniteSet(LoanRows)
  <2> DEFINE S == (Threads \X Apps) \X {1, 3}
             f == [p \in S |-> [by |-> p[1][1], app |-> p[1][2], step |-> p[2]]]
  <2>1. ASSUME NEW p \in S PROVE f[p] \in LoanRows
    BY DEF LoanRows
  <2>2. ASSUME NEW r \in LoanRows PROVE \E p \in S : f[p] = r
    <3>1. << <<r.by, r.app>>, r.step>> \in S /\ r = [by |-> r.by, app |-> r.app, step |-> r.step]
      BY DEF LoanRows
    <3>2. f[<< <<r.by, r.app>>, r.step>>] = [by |-> r.by, app |-> r.app, step |-> r.step]
      BY <3>1
    <3> QED BY <3>1, <3>2
  <2>3. f \in [S -> LoanRows]
    BY <2>1
  <2>4. f \in Surjection(S, LoanRows)
    <3> HIDE DEF f, S
    <3> QED BY <2>2, <2>3 DEF Surjection
  <2>5. PICK T : T = S
    OBVIOUS
  <2>6. PICK g : g = f
    OBVIOUS
  <2>7. IsFiniteSet(T) /\ g \in Surjection(T, LoanRows)
    BY <1>3, <2>4, <2>5, <2>6
  <2> HIDE DEF f, S
  <2> QED BY <2>7, FS_Surjection
<1>5. IsFiniteSet(loans)
  BY <1>4, FS_Subset DEF WarehouseTypes
<1>6. PICK kc : kc = "kyc_completed"
  OBVIOUS
<1>7. PICK ks : ks = "kyc_started"
  OBVIOUS
<1>8. MinStep[ks] = 1 /\ MinStep[kc] = 3 /\ Funds = {ks, kc}
  BY <1>6, <1>7 DEF MinStep, Funds
<1>9. PICK A : A = {r \in loans : r.step >= MinStep[ks]}
  OBVIOUS
<1>10. PICK B : B = {r \in loans : r.step >= MinStep[kc]}
  OBVIOUS
<1>11. \A r \in loans : r.step \in {1, 3}
  BY DEF WarehouseTypes, LoanRows
<1>12. A \subseteq loans /\ B \subseteq A
  BY <1>8, <1>9, <1>10, <1>11
<1>13. IsFiniteSet(A) /\ Cardinality(A) \in Nat /\ Cardinality(B) \in Nat /\ Cardinality(B) <= Cardinality(A)
  <2>1. IsFiniteSet(A)
    BY <1>5, <1>12, FS_Subset
  <2>2. IsFiniteSet(B) /\ Cardinality(B) <= Cardinality(A)
    BY <2>1, <1>12, FS_Subset
  <2> QED BY <2>1, <2>2, FS_CardinalityType
<1>14. CountOf(ks) = Cardinality(A) /\ CountOf(kc) = Cardinality(B)
  BY <1>9, <1>10 DEF CountOf
<1>15. CountOf(ks) \in Nat /\ CountOf(kc) \in Nat /\ CountOf(kc) <= CountOf(ks)
  BY <1>13, <1>14
<1> QED BY <1>6, <1>7, <1>8, <1>15

\* What a thread has read keeps its type when it is replaced.
LEMMA ReadGiven ==
  ASSUME WarehouseTypes, NEW t \in Threads, NEW x, NEW y, x \subseteq Apps \X {1, 3},
         read' = [read EXCEPT ![t] = [loans |-> x, events |-> y]]
  PROVE  /\ \A v \in Threads : read'[v].loans \subseteq Apps \X {1, 3}
         /\ read' = [v \in Threads |-> [loans |-> read'[v].loans, events |-> read'[v].events]]
<1>1. DOMAIN read = Threads
  BY DEF WarehouseTypes
<1>2. \A v \in Threads : read'[v] = IF v = t THEN [loans |-> x, events |-> y] ELSE read[v]
  BY <1>1
<1>3. \A v \in Threads : read[v].loans \subseteq Apps \X {1, 3}
                         /\ read[v] = [loans |-> read[v].loans, events |-> read[v].events]
  BY DEF WarehouseTypes
<1>4. ASSUME NEW v \in Threads
      PROVE  read'[v].loans \subseteq Apps \X {1, 3}
             /\ read'[v] = [loans |-> read'[v].loans, events |-> read'[v].events]
  <2>1. CASE v = t
    BY <1>2, <2>1
  <2>2. CASE v # t
    BY <1>2, <1>3, <2>2
  <2> QED BY <2>1, <2>2
<1>5. DOMAIN read' = Threads /\ read' = [v \in Threads |-> read'[v]]
  BY <1>1
<1> QED BY <1>4, <1>5

ReadOk ==
  /\ \A t \in Threads : read[t].loans \subseteq Apps \X {1, 3}
  /\ read = [t \in Threads |-> [loans |-> read[t].loans, events |-> read[t].events]]
\* Every statement keeps the types, moves one thread, and overlaps with nothing new.
LEMMA StatementTypes ==
  ASSUME WarehouseTypes, NEW t \in Threads, Statement(t)
  PROVE  WarehouseTypes' /\ Goes(t) /\ overlapped' = overlapped
<1>0. pc \in [Threads -> 0 .. Len(Path)]
  BY DEF WarehouseTypes
<1>1. CASE ReadFacts(t)
  <2>1. Goes(t) /\ UNCHANGED <<quiet, loans, context, daily>>
    BY <1>0, <1>1, Answers DEF ReadFacts, Answered
  <2>2. PICK x : x = {<<a, core[a]>> : a \in Landed}
    OBVIOUS
  <2>3. x \subseteq Apps \X {1, 3}
    BY <2>2 DEF Landed, WarehouseTypes
  <2>4. read[t] = [loans |-> read[t].loans, events |-> read[t].events]
    BY DEF WarehouseTypes
  <2>5. [read[t] EXCEPT !.loans = x] = [loans |-> x, events |-> read[t].events]
    BY <2>4
  <2>6. read' = [read EXCEPT ![t] = [read[t] EXCEPT !.loans = x]]
    BY <1>1, <2>2 DEF ReadFacts
  <2>7. ReadOk'
    BY <2>3, <2>5, <2>6, ReadGiven DEF ReadOk
  <2> QED BY <2>1, <2>7 DEF WarehouseTypes, ReadOk, Goes, quiet, bronze, context
<1>2. CASE TruncateFacts(t)
  BY <1>0, <1>2, Answers DEF TruncateFacts, Answered, WarehouseTypes, Goes, quiet, bronze, context
<1>3. CASE InsertFacts(t)
  <2>1. Goes(t) /\ UNCHANGED <<quiet, context, daily>>
    BY <1>0, <1>3, Answers DEF InsertFacts, Answered
  <2>2. read' = [read EXCEPT ![t] = [loans |-> {}, events |-> {}]]
    BY <1>3 DEF InsertFacts, NoRows
  <2>3. ReadOk'
    BY <2>2, ReadGiven DEF ReadOk
  <2>4. read[t].loans \subseteq Apps \X {1, 3}
    BY DEF WarehouseTypes
  <2>5. {[by |-> t, app |-> r[1], step |-> r[2]] : r \in read[t].loans} \subseteq LoanRows
    BY <2>4 DEF LoanRows
  <2>6. loans' \subseteq LoanRows
    BY <1>3, <2>5 DEF InsertFacts, WarehouseTypes
  <2> QED BY <2>1, <2>3, <2>6 DEF WarehouseTypes, ReadOk, Goes, quiet, bronze, context
<1>4. CASE OptimizeFacts(t)
  <2>1. Goes(t) /\ UNCHANGED <<quiet, context, daily, read>>
    BY <1>0, <1>4, Answers DEF OptimizeFacts, Answered
  <2>2. loans \subseteq LoanRows /\ \A r \in loans : r.step \in {1, 3}
    BY DEF WarehouseTypes, LoanRows
  <2>3. ASSUME NEW a \in {r.app : r \in loans}
        PROVE  (CHOOSE r \in NewestRows : r.app = a) \in LoanRows
    <3>1. PICK p \in loans : p.app = a
      OBVIOUS
    <3>2. \E r \in NewestRows : r.app = a
      <4>1. CASE \E r \in loans : r.app = a /\ r.step = 3
        BY <2>2, <4>1 DEF NewestRows
      <4>2. CASE ~ \E r \in loans : r.app = a /\ r.step = 3
        <5>1. \A q \in loans : q.app = p.app => q.step <= p.step
          BY <2>2, <3>1, <4>2
        <5> QED BY <3>1, <5>1 DEF NewestRows
      <4> QED BY <4>1, <4>2
    <3> QED BY <2>2, <3>2 DEF NewestRows
  <2>4. loans' \subseteq LoanRows
    BY <1>4, <2>3 DEF OptimizeFacts
  <2> QED BY <2>1, <2>4 DEF WarehouseTypes, ReadOk, Goes, quiet, bronze, context
<1>5. CASE DeleteGold(t)
  BY <1>0, <1>5, Answers DEF DeleteGold, Answered, WarehouseTypes, Goes, quiet, bronze, context
<1>6. CASE InsertGold(t)
  <2>1. Goes(t) /\ UNCHANGED <<quiet, loans, context, read>>
    BY <1>0, <1>6, Answers DEF InsertGold, Answered
  <2>2. PICK f \in Funds : daily' = IF CountOf(f) = 0 THEN daily ELSE [daily EXCEPT ![f] = CountOf(f)]
    BY <1>6 DEF InsertGold
  <2>3. CountOf(f) \in Nat /\ daily \in [Funds -> Nat]
    BY FewLoans DEF WarehouseTypes
  <2>4. daily' \in [Funds -> Nat]
    BY <2>2, <2>3
  <2> QED BY <2>1, <2>4 DEF WarehouseTypes, Goes, quiet, bronze, context
<1>7. CASE ReadEvents(t)
  <2>1. Goes(t) /\ UNCHANGED <<quiet, loans, context, daily>>
    BY <1>0, <1>7, Answers DEF ReadEvents, Answered
  <2>2. PICK y : read' = [read EXCEPT ![t] = [NoRows EXCEPT !.events = y]]
    BY <1>7 DEF ReadEvents
  <2>3. [NoRows EXCEPT !.events = y] = [loans |-> {}, events |-> y]
    BY DEF NoRows
  <2>4. read' = [read EXCEPT ![t] = [loans |-> {}, events |-> y]]
    BY <2>2, <2>3
  <2>5. ReadOk'
    BY <2>4, ReadGiven DEF ReadOk
  <2> QED BY <2>1, <2>5 DEF WarehouseTypes, ReadOk, Goes, quiet, bronze, context
<1>8. CASE InsertEvents(t)
  <2>1. Goes(t) /\ UNCHANGED <<quiet, loans, daily, read, rejects, sessions, funnel>>
    BY <1>0, <1>8, Answers DEF InsertEvents
  <2> QED BY <2>1 DEF WarehouseTypes, Goes, quiet, bronze
<1>9. CASE InsertRejects(t)
  <2>1. Goes(t) /\ UNCHANGED <<quiet, loans, daily, events, sessions, funnel>>
    BY <1>0, <1>9, Answers DEF InsertRejects, Answered
  <2>2. read' = [read EXCEPT ![t] = [loans |-> {}, events |-> {}]]
    BY <1>9 DEF InsertRejects, NoRows
  <2>3. ReadOk'
    BY <2>2, ReadGiven DEF ReadOk
  <2> QED BY <2>1, <2>3 DEF WarehouseTypes, ReadOk, Goes, quiet, bronze
<1>10. CASE OptimizeEvents(t)
  BY <1>0, <1>10, Answers DEF OptimizeEvents, Answered, WarehouseTypes, Goes, quiet, bronze
<1>11. CASE RebuildSessions(t)
  <2>1. Goes(t) /\ UNCHANGED <<quiet, loans, daily, read, events, rejects, funnel>>
    BY <1>0, <1>11, Answers DEF RebuildSessions, Answered
  <2> QED BY <2>1 DEF WarehouseTypes, Goes, quiet, bronze
<1>12. CASE RebuildFunnel(t)
  <2>1. Goes(t) /\ UNCHANGED <<quiet, loans, daily, read, events, rejects, sessions>>
    BY <1>0, <1>12, Answers DEF RebuildFunnel, Answered
  <2>2. DOMAIN funnel' = Stages
    BY <1>12 DEF RebuildFunnel, WarehouseTypes
  <2> QED BY <2>1, <2>2 DEF WarehouseTypes, Goes, quiet, bronze
<1>13. CASE Refused(t)
  <2>1. Goes(t) /\ UNCHANGED <<quiet, loans, context, daily>>
    BY <1>0, <1>13, Raises DEF Refused, Fails
  <2>2. read' = [read EXCEPT ![t] = [loans |-> {}, events |-> {}]]
    BY <1>13 DEF Refused, NoRows
  <2>3. ReadOk'
    BY <2>2, ReadGiven DEF ReadOk
  <2> QED BY <2>1, <2>3 DEF WarehouseTypes, ReadOk, Goes, quiet, bronze, context
<1> QED BY <1>1, <1>2, <1>3, <1>4, <1>5, <1>6, <1>7, <1>8, <1>9, <1>10, <1>11, <1>12, <1>13 DEF Statement

\* So does the beginning of a round, which starts at its first statement.
LEMMA RequestTypes ==
  ASSUME WarehouseTypes, NEW t \in Threads, (Tick /\ t = Loop) \/ Request(t)
  PROVE  /\ WarehouseTypes' /\ pc[t] = 0 /\ pc' = [pc EXCEPT ![t] = 1]
         /\ UNCHANGED <<loans, daily, funnel>>
         /\ overlapped' = (overlapped \/ \E v \in Threads : pc[v] # 0)
<1>1. \E kind : BeginRound(t, kind)
  BY DEF Tick, Request, Refresh, Seed, Purge
<1>2. /\ pc[t] = 0 /\ pc' = [pc EXCEPT ![t] = 1]
      /\ overlapped' = (overlapped \/ \E v \in Threads : pc[v] # 0)
  BY <1>1 DEF BeginRound
<1>3. pc' \in [Threads -> 0 .. Len(Path)]
  <2>1. 1 \in 0 .. Len(Path)
    BY PathFacts
  <2>2. pc \in [Threads -> 0 .. Len(Path)]
    BY DEF WarehouseTypes
  <2> QED BY <1>2, <2>1, <2>2
<1>4. UNCHANGED <<loans, context, daily, read>>
  BY DEF Tick, Request, Refresh, Seed, Purge
<1>5. core' \in [Apps -> {0, 1, 3}]
  <2>0. core \in [Apps -> {0, 1, 3}]
    BY DEF WarehouseTypes
  <2>1. CASE core' = core
    BY <2>0, <2>1
  <2>2. CASE Seed(t)
    <3>1. PICK steps \in [SeededApps -> {1, 3}] :
             core' = [x \in Apps |-> IF x \in SeededApps THEN steps[x] ELSE core[x]]
      BY <2>2 DEF Seed
    <3>2. \A x \in Apps : (IF x \in SeededApps THEN steps[x] ELSE core[x]) \in {0, 1, 3}
      BY <2>0, <3>1
    <3> QED BY <3>1, <3>2
  <2>3. CASE Purge(t)
    BY <2>0, <2>3 DEF Purge
  <2> QED BY <2>1, <2>2, <2>3 DEF Tick, Request, Refresh, bronze
<1> QED BY <1>2, <1>3, <1>4, <1>5 DEF WarehouseTypes, context

\* Of the first stages of the funnel none is larger than the one that must come before,
\* whatever date the reader stops at.
LEMMA StagesShrink ==
  ASSUME NEW m \in 0 .. Len(Funnel), NEW s \in Stages, Requires[s] # "none", NEW d \in Dates
  PROVE  UpTo(FunnelAt(m)[s], d) \subseteq UpTo(FunnelAt(m)[Requires[s]], d)
<1>1. DOMAIN Funnel = 1 .. Len(Funnel) /\ Len(Funnel) \in Nat /\ \A i \in 1 .. Len(Funnel) : Funnel[i] \in DOMAIN Requires
  BY PathFacts
<1>2. PICK r : r = Requires[s]
  OBVIOUS
<1>3. Stages = {Funnel[i] : i \in 1 .. Len(Funnel)}
  BY <1>1 DEF Stages, Range
<1>4. \A i \in 1 .. Len(Funnel) : Funnel[i] = s => \E j \in 1 .. (i - 1) : Funnel[j] = r
  BY <1>1, <1>2, FunnelAssumption
<1>5. r \in Stages
  BY <1>1, <1>3, <1>4
<1>6. UpTo(Entered(s), d) \subseteq UpTo(Entered(r), d)
  <2>1. s \in DOMAIN Requires
    BY <1>1, <1>3
  <2>2. r # "none"
    BY <1>2
  <2> QED BY <1>2, <2>1, <2>2, EnteredShrinks
<1>7. (\E j \in 1 .. m : Funnel[j] = s) => (\E j \in 1 .. m : Funnel[j] = r)
  BY <1>1, <1>4
<1>8. \A x \in Stages : FunnelAt(m)[x] = IF \E j \in 1 .. m : Funnel[j] = x THEN Entered(x) ELSE {}
  BY DEF FunnelAt
<1>9. UpTo({}, d) = {}
  BY DEF UpTo
<1> QED BY <1>2, <1>5, <1>6, <1>7, <1>8, <1>9

\* One more stage of the funnel is rebuilt.
LEMMA StageIsRebuilt ==
  ASSUME NEW m \in 1 .. Len(Funnel), NEW s \in Stages, Funnel[m] = s, funnel = FunnelAt(m - 1),
         funnel' = [funnel EXCEPT ![s] = Newer(@, Entered(s))]
  PROVE  funnel' = FunnelAt(m)
<1>1. Len(Funnel) \in Nat
  BY PathFacts
<1>2. DOMAIN funnel = Stages /\ DOMAIN FunnelAt(m) = Stages
  BY DEF FunnelAt
<1>3. \A x \in Stages : funnel[x] = IF \E j \in 1 .. (m - 1) : Funnel[j] = x THEN Entered(x) ELSE {}
  BY DEF FunnelAt
<1>4. \A x \in Stages : FunnelAt(m)[x] = IF \E j \in 1 .. m : Funnel[j] = x THEN Entered(x) ELSE {}
  BY DEF FunnelAt
<1>5. \A x : (\E j \in 1 .. m : Funnel[j] = x) <=> ((\E j \in 1 .. (m - 1) : Funnel[j] = x) \/ x = s)
  BY <1>1
<1>6. \A x \in Stages : funnel'[x] = IF x = s THEN Newer(funnel[s], Entered(s)) ELSE funnel[x]
  BY <1>2
<1>7. ASSUME NEW x \in Stages PROVE funnel'[x] = FunnelAt(m)[x]
  <2>1. CASE x = s
    <3>1. PICK E : E = Entered(s)
      OBVIOUS
    <3>2. FunnelAt(m)[s] = E /\ (funnel[s] = E \/ funnel[s] = {})
      BY <1>3, <1>4, <1>5, <3>1
    <3>3. funnel'[s] = Newer(funnel[s], E)
      BY <1>6, <3>1
    <3>4. Newer(E, E) = E /\ Newer({}, E) = E
      BY DEF Newer
    <3> QED BY <2>1, <3>2, <3>3, <3>4
  <2>2. CASE x # s
    BY <1>3, <1>4, <1>5, <1>6, <2>2
  <2> QED BY <2>1, <2>2
<1>8. DOMAIN funnel' = Stages
  BY <1>2
<1>9. PICK g : g = FunnelAt(m)
  OBVIOUS
<1>10. g = [x \in Stages |-> g[x]]
  BY <1>9 DEF FunnelAt
<1>11. funnel' = [x \in Stages |-> funnel'[x]]
  BY <1>8, <1>2
<1> QED BY <1>7, <1>9, <1>10, <1>11

RowsNarrow(rows) ==
  \A s \in Stages, d \in Dates : Requires[s] # "none" => UpTo(rows[s], d) \subseteq UpTo(rows[Requires[s]], d)
FunnelNarrows == RowsNarrow(funnel)
RateIsOne == daily["kyc_completed"] <= daily["kyc_started"]
\* The invariant in the terms of the proof.
LEMMA NarrowRows == LaterStagesAreSmaller <=> (~ overlapped => RateIsOne /\ FunnelNarrows)
<1>1. \A s, d : ReadFunnel(s, 0, d + 1) = UpTo(funnel[s], d)
  BY DEF ReadFunnel, UpTo
<1> QED BY <1>1 DEF LaterStagesAreSmaller, Narrows, RateIsOne, FunnelNarrows, RowsNarrow

\* The property of the funnel in the next state, part by part.
LEMMA NarrowRowsNext == LaterStagesAreSmaller' <=> (~ overlapped' => RateIsOne' /\ FunnelNarrows')
<1>1. \A s, d : (ReadFunnel(s, 0, d + 1))' = UpTo(funnel'[s], d)
  BY DEF ReadFunnel, UpTo
<1> QED BY <1>1 DEF LaterStagesAreSmaller, Narrows, RateIsOne, FunnelNarrows, RowsNarrow

\* A round at its n-th statement, when it is the only one.
LEMMA StatementKeeps ==
  ASSUME WInv, NEW t \in Threads, Statement(t)
  PROVE  SingleRounds' /\ LaterStagesAreSmaller'
<1>1. WarehouseTypes /\ WarehouseTypes' /\ Goes(t) /\ overlapped' = overlapped
  BY StatementTypes DEF WInv
<1>2. SUFFICES ASSUME ~ overlapped
               PROVE  RoundsAreSingle' /\ (\A v \in Threads : RoundKept(v)') /\ RateIsOne' /\ FunnelNarrows'
  BY <1>1, NarrowRowsNext DEF SingleRounds
<1>3. RoundsAreSingle /\ RoundKept(t) /\ RateIsOne /\ FunnelNarrows
  BY <1>2, NarrowRows DEF WInv, SingleRounds
<1>4. pc[t] # 0
  BY DEF Statement, ReadFacts, TruncateFacts, InsertFacts, OptimizeFacts, DeleteGold, InsertGold, ReadEvents,
         InsertEvents, InsertRejects, OptimizeEvents, RebuildSessions, RebuildFunnel, Refused, At
<1>5. \A v \in Threads \ {t} : pc'[v] = 0
  BY <1>1, <1>3, <1>4 DEF RoundsAreSingle, Goes
<1>6. RoundsAreSingle'
  BY <1>5 DEF RoundsAreSingle
<1>7. \A v \in Threads \ {t} : RoundKept(v)'
  BY <1>5 DEF RoundKept, RoundAt
<1>8. PICK k : k = pc[t]
  OBVIOUS
<1>9. PICK n : n = pc'[t]
  OBVIOUS
<1>10. k \in 1 .. (14 + Len(Funnel)) /\ n \in 0 .. (14 + Len(Funnel)) /\ (n \in {0, 8} \/ n = k + 1) /\ Len(Funnel) \in Nat
  BY <1>1, <1>4, <1>8, <1>9, PathFacts DEF Goes, WarehouseTypes
<1>11. RoundAt(k)
  BY <1>3, <1>8 DEF RoundKept
<1>12. (RoundAt(n))' => RoundKept(t)'
  BY <1>9 DEF RoundKept
<1>13. n \in 0 .. 14 \ {6, 7} => (RoundAt(n))'
  BY <1>10 DEF RoundAt
<1>14. Where(t)
  BY <1>1, WhereAt DEF WarehouseTypes
<1>15. SUFFICES (RoundAt(n))' /\ RateIsOne' /\ FunnelNarrows'
  BY <1>6, <1>7, <1>12
<1>16. ASSUME k \in (1 .. 4) \cup (8 .. 13) \/ n \in {0, 8}, UNCHANGED <<daily, funnel>>
       PROVE  (RoundAt(n))' /\ RateIsOne' /\ FunnelNarrows'
  <2>1. n \in 0 .. 14 \ {6, 7}
    BY <1>10, <1>16
  <2> QED BY <1>3, <1>13, <1>16, <2>1 DEF RateIsOne, FunnelNarrows
<1>17. CASE ReadFacts(t) \/ TruncateFacts(t) \/ InsertFacts(t) \/ OptimizeFacts(t)
  <2>1. k \in 1 .. 4
    BY <1>8, <1>14, <1>17 DEF Where, ReadFacts, TruncateFacts, InsertFacts, OptimizeFacts
  <2>2. UNCHANGED <<daily, funnel>>
    BY <1>17 DEF ReadFacts, TruncateFacts, InsertFacts, OptimizeFacts, context
  <2> QED BY <1>16, <2>1, <2>2
<1>18. CASE ReadEvents(t) \/ InsertEvents(t) \/ InsertRejects(t) \/ OptimizeEvents(t) \/ RebuildSessions(t)
  <2>1. k \in 8 .. 13
    <3>1. \/ At(t, "read", "events") \/ At(t, "insert", "events") \/ At(t, "insert", "rejects")
          \/ At(t, "optimize", "events") \/ At(t, "truncate", "sessions") \/ At(t, "insert", "sessions")
      <4>1. CASE ReadEvents(t)
        BY <4>1 DEF ReadEvents
      <4>2. CASE InsertEvents(t)
        BY <4>2 DEF InsertEvents
      <4>3. CASE InsertRejects(t)
        BY <4>3 DEF InsertRejects
      <4>4. CASE OptimizeEvents(t)
        BY <4>4 DEF OptimizeEvents
      <4>5. CASE RebuildSessions(t)
        BY <4>5 DEF RebuildSessions
      <4> QED BY <1>18, <4>1, <4>2, <4>3, <4>4, <4>5
    <3> QED BY <1>8, <1>14, <3>1 DEF Where
  <2>2. UNCHANGED <<daily, funnel>>
    BY <1>18 DEF ReadEvents, InsertEvents, InsertRejects, OptimizeEvents, RebuildSessions, context
  <2> QED BY <1>16, <2>1, <2>2
<1>19. CASE Refused(t)
  <2>1. n \in {0, 8}
    BY <1>1, <1>9, <1>19, Raises DEF Refused, WarehouseTypes, Fails
  <2>2. UNCHANGED <<daily, funnel>>
    BY <1>19 DEF Refused, context
  <2> QED BY <1>16, <2>1, <2>2
<1>20. Funds = {"kyc_started", "kyc_completed"}
  BY DEF Funds, MinStep
<1>21. CASE DeleteGold(t)
  <2>1. k = 5
    BY <1>8, <1>14, <1>21 DEF Where, DeleteGold
  <2>2. daily' = [f \in Funds |-> 0] /\ funnel' = funnel
    BY <1>21 DEF DeleteGold, context
  <2>3. daily'["kyc_started"] = 0 /\ daily'["kyc_completed"] = 0
    BY <1>20, <2>2
  <2>4. n = 6 => (RoundAt(n))'
    BY <2>3 DEF RoundAt
  <2>5. n = 6 \/ n \in 0 .. 14 \ {6, 7}
    BY <1>10, <2>1
  <2> QED BY <1>3, <1>13, <2>2, <2>3, <2>4, <2>5 DEF RateIsOne, FunnelNarrows
<1>22. CASE InsertGold(t)
  <2>1. PICK f \in Funds : At(t, "daily", f) /\ daily' = IF CountOf(f) = 0 THEN daily ELSE [daily EXCEPT ![f] = CountOf(f)]
    BY <1>22 DEF InsertGold
  <2>2. funnel' = funnel /\ loans' = loans
    BY <1>22 DEF InsertGold, context
  <2>3. PICK kc : kc = "kyc_completed"
    OBVIOUS
  <2>4. PICK ks : ks = "kyc_started"
    OBVIOUS
  <2>5. ks # kc /\ Funds = {ks, kc}
    BY <1>20, <2>3, <2>4
  <2>6. daily \in [Funds -> Nat] /\ DOMAIN daily = Funds
    BY <1>1 DEF WarehouseTypes
  <2>7. CountOf(ks) \in Nat /\ CountOf(kc) \in Nat /\ CountOf(kc) <= CountOf(ks)
    BY <1>1, <2>3, <2>4, FewLoans
  <2>8. CASE f = ks
    <3>1. k = 6
      BY <1>8, <1>14, <2>1, <2>4, <2>8 DEF Where
    <3>2. daily[ks] = 0 /\ daily[kc] = 0
      BY <1>11, <2>3, <2>4, <3>1 DEF RoundAt
    <3>3. daily'[ks] = CountOf(ks) /\ daily'[kc] = 0
      BY <2>1, <2>5, <2>6, <2>8, <3>2
    <3>4. CountOf(ks)' = CountOf(ks)
      BY <2>2 DEF CountOf
    <3>5. n = 7 => (RoundAt(n))'
      BY <2>3, <2>4, <3>3, <3>4 DEF RoundAt
    <3>6. n = 7 \/ n \in 0 .. 14 \ {6, 7}
      BY <1>10, <3>1
    <3>7. RateIsOne'
      BY <2>3, <2>4, <2>7, <3>3 DEF RateIsOne
    <3>8. FunnelNarrows'
      BY <1>3, <2>2 DEF FunnelNarrows
    <3> QED BY <1>13, <3>5, <3>6, <3>7, <3>8
  <2>9. CASE f = kc
    <3>1. k = 7
      BY <1>8, <1>14, <2>1, <2>3, <2>9 DEF Where
    <3>2. daily[ks] = CountOf(ks) /\ daily[kc] = 0
      BY <1>11, <2>3, <2>4, <3>1 DEF RoundAt
    <3>3. daily'[ks] = CountOf(ks) /\ daily'[kc] = CountOf(kc)
      BY <2>1, <2>5, <2>6, <2>9, <3>2
    <3>4. n \in 0 .. 14 \ {6, 7}
      BY <1>10, <3>1
    <3>5. RateIsOne'
      BY <2>3, <2>4, <2>7, <3>3 DEF RateIsOne
    <3>6. FunnelNarrows'
      BY <1>3, <2>2 DEF FunnelNarrows
    <3> QED BY <1>13, <3>4, <3>5, <3>6
  <2> QED BY <2>5, <2>8, <2>9
<1>23. CASE RebuildFunnel(t)
  <2>1. daily' = daily /\ events' = events
    BY <1>23 DEF RebuildFunnel
  <2>2. RateIsOne'
    BY <1>3, <2>1 DEF RateIsOne
  <2>3. \A m : (FunnelAt(m))' = FunnelAt(m)
    BY <2>1 DEF FunnelAt, Entered, Passed, First, Of
  <2>4. SUFFICES \E m \in 0 .. Len(Funnel) : funnel' = FunnelAt(m) /\ (n = 15 + m \/ n \in {0, 8})
    <3>1. PICK m \in 0 .. Len(Funnel) : funnel' = FunnelAt(m) /\ (n = 15 + m \/ n \in {0, 8})
      BY <2>4
    <3>2. RowsNarrow(FunnelAt(m))
      BY StagesShrink DEF RowsNarrow
    <3>3. FunnelNarrows'
      BY <3>1, <3>2 DEF FunnelNarrows
    <3>4. n = 15 + m => (RoundAt(n))'
      <4>1. SUFFICES ASSUME n = 15 + m PROVE (RoundAt(n))'
        OBVIOUS
      <4>2. n - 15 = m /\ n # 6 /\ n # 7
        BY <1>10, <4>1
      <4>3. (FunnelAt(n - 15))' = FunnelAt(n - 15)
        BY <2>3
      <4>4. funnel' = (FunnelAt(n - 15))'
        BY <3>1, <4>2, <4>3
      <4> QED BY <4>2, <4>4 DEF RoundAt
    <3>5. n \in {0, 8} => n \in 0 .. 14 \ {6, 7}
      OBVIOUS
    <3> QED BY <1>13, <2>2, <3>1, <3>3, <3>4, <3>5
  <2>5. CASE At(t, "delete", "funnel") /\ funnel' = [s \in Stages |-> {}]
    <3>1. k = 14
      BY <1>8, <1>14, <2>5 DEF Where
    <3>2. funnel' = FunnelAt(0)
      BY <2>5 DEF FunnelAt
    <3> QED BY <1>10, <3>1, <3>2
  <2>6. CASE \E s \in Stages : /\ At(t, "stage", s)
                               /\ funnel' = [funnel EXCEPT ![s] = Newer(@, Entered(s))]
    <3>1. PICK s \in Stages : /\ At(t, "stage", s)
                              /\ funnel' = [funnel EXCEPT ![s] = Newer(@, Entered(s))]
      BY <2>6
    <3>2. k \in 15 .. (14 + Len(Funnel)) /\ Funnel[k - 14] = s
      BY <1>8, <1>14, <3>1 DEF Where
    <3>3. funnel = FunnelAt(k - 15)
      BY <1>11, <3>2 DEF RoundAt
    <3>4. PICK m : m = k - 14
      OBVIOUS
    <3>5. m \in 1 .. Len(Funnel) /\ k - 15 = m - 1 /\ Funnel[m] = s /\ m \in 0 .. Len(Funnel) /\ k + 1 = 15 + m
      BY <1>10, <3>2, <3>4
    <3>6. funnel = FunnelAt(m - 1)
      BY <3>3, <3>5
    <3>7. funnel' = FunnelAt(m)
      BY <3>1, <3>5, <3>6, StageIsRebuilt
    <3> QED BY <1>10, <3>5, <3>7
  <2> QED BY <1>23, <2>5, <2>6 DEF RebuildFunnel
<1> QED BY <1>17, <1>18, <1>19, <1>21, <1>22, <1>23 DEF Statement

\* The service starts with empty tables and nobody in a round.
LEMMA InitWInv == WarehouseInit => WInv
<1> SUFFICES ASSUME WarehouseInit PROVE WInv
  OBVIOUS
<1>1. Funds = {"kyc_started", "kyc_completed"}
  BY DEF Funds, MinStep
<1>2. daily \in [Funds -> Nat] /\ daily["kyc_completed"] <= daily["kyc_started"]
  BY <1>1 DEF WarehouseInit
<1>3. pc \in [Threads -> 0 .. Len(Path)] /\ \A t \in Threads : pc[t] = 0
  <2>1. 0 \in 0 .. Len(Path)
    BY PathFacts
  <2> QED BY <2>1 DEF WarehouseInit
<1>4. funnel = [s \in Stages |-> {}]
  BY DEF WarehouseInit
<1>5. FunnelNarrows
  <2> SUFFICES ASSUME NEW s \in Stages, NEW d \in Dates, Requires[s] # "none"
               PROVE  UpTo(funnel[s], d) \subseteq UpTo(funnel[Requires[s]], d)
    BY DEF FunnelNarrows, RowsNarrow
  <2> QED BY <1>4 DEF UpTo
<1>6. read = [t \in Threads |-> [loans |-> {}, events |-> {}]]
  BY DEF WarehouseInit, NoRows
<1>7. core \in [Apps -> {0, 1, 3}]
  BY DEF WarehouseInit
<1>8. loans = {}
  BY DEF WarehouseInit
<1>9. WarehouseTypes
  BY <1>2, <1>3, <1>4, <1>6, <1>7, <1>8 DEF WarehouseTypes
<1>10. SingleRounds
  BY <1>3 DEF SingleRounds, RoundsAreSingle, RoundKept, RoundAt
<1> QED BY <1>2, <1>5, <1>9, <1>10, NarrowRows DEF WInv, RateIsOne

\* A round that begins while no other runs is the only one.
LEMMA RequestKeeps ==
  ASSUME WInv, NEW t \in Threads, (Tick /\ t = Loop) \/ Request(t)
  PROVE  WInv'
<1>1. /\ WarehouseTypes' /\ pc[t] = 0 /\ pc' = [pc EXCEPT ![t] = 1]
      /\ UNCHANGED <<loans, daily, funnel>>
      /\ overlapped' = (overlapped \/ \E v \in Threads : pc[v] # 0)
  BY RequestTypes DEF WInv
<1>2. LaterStagesAreSmaller'
  BY <1>1, NarrowRows, NarrowRowsNext DEF WInv, RateIsOne, FunnelNarrows
<1>3. ASSUME ~ overlapped' PROVE RoundsAreSingle' /\ \A v \in Threads : RoundKept(v)'
  <2>1. \A v \in Threads : pc[v] = 0
    BY <1>1, <1>3
  <2>2. \A v \in Threads : pc'[v] = IF v = t THEN 1 ELSE 0
    BY <1>1, <2>1 DEF WInv, WarehouseTypes
  <2> QED BY <2>2 DEF RoundsAreSingle, RoundKept, RoundAt
<1> QED BY <1>1, <1>2, <1>3 DEF WInv, SingleRounds

\* What a round has left behind depends on four tables only.
LEMMA RoundStays ==
  ASSUME UNCHANGED <<loans, events, daily, funnel>>
  PROVE  \A n : RoundAt(n) => (RoundAt(n))'
<1>1. \A f : (CountOf(f))' = CountOf(f)
  BY DEF CountOf
<1>2. \A m : (FunnelAt(m))' = FunnelAt(m)
  BY DEF FunnelAt, Entered, Passed, First, Of
<1>3. (CountOf("kyc_started"))' = CountOf("kyc_started")
  BY <1>1
<1>4. ASSUME NEW n, RoundAt(n) PROVE (RoundAt(n))'
  <2>1. (FunnelAt(n - 15))' = FunnelAt(n - 15)
    BY <1>2
  <2> QED BY <1>3, <1>4, <2>1 DEF RoundAt
<1> QED BY <1>4

\* What bronze receives and a restart of the service disturb no table that a round rebuilds.
LEMMA WorldKeeps ==
  ASSUME WInv, Change \/ Crash \/ UNCHANGED warehouseVars
  PROVE  WInv'
<1>1. CASE Change
  <2>1. core' \in [Apps -> {0, 1, 3}]
    BY <1>1 DEF Change, Land, Arrive, WInv, WarehouseTypes
  <2>2. UNCHANGED <<loans, context, daily, pc, runsFor, read, overlapped>>
    BY <1>1 DEF Change
  <2>3. WarehouseTypes'
    BY <2>1, <2>2 DEF WInv, WarehouseTypes, context
  <2>4. RoundsAreSingle' = RoundsAreSingle
    BY <2>2 DEF RoundsAreSingle
  <2>5. \A t \in Threads : RoundKept(t) => RoundKept(t)'
    <3>1. \A m : RoundAt(m) => (RoundAt(m))'
      BY <2>2, RoundStays DEF context
    <3> QED BY <2>2, <3>1 DEF RoundKept
  <2>6. SingleRounds'
    BY <2>2, <2>4, <2>5 DEF WInv, SingleRounds
  <2>7. LaterStagesAreSmaller'
    BY <2>2, NarrowRows, NarrowRowsNext DEF WInv, RateIsOne, FunnelNarrows, context
  <2> QED BY <2>3, <2>6, <2>7 DEF WInv
<1>2. CASE Crash
  <2>1. pc' = [t \in Threads |-> 0] /\ read' = [t \in Threads |-> [loans |-> {}, events |-> {}]]
        /\ UNCHANGED <<core, loans, context, daily, overlapped>>
    BY <1>2 DEF Crash, NoRows, quiet, bronze
  <2>2. pc' \in [Threads -> 0 .. Len(Path)] /\ \A t \in Threads : pc'[t] = 0
    <3>1. 0 \in 0 .. Len(Path)
      BY PathFacts
    <3> QED BY <2>1, <3>1
  <2>3. WarehouseTypes'
    BY <2>1, <2>2 DEF WInv, WarehouseTypes, context
  <2>4. SingleRounds'
    BY <2>2 DEF SingleRounds, RoundsAreSingle, RoundKept, RoundAt
  <2>5. LaterStagesAreSmaller'
    BY <2>1, NarrowRows, NarrowRowsNext DEF WInv, RateIsOne, FunnelNarrows, context
  <2> QED BY <2>3, <2>4, <2>5 DEF WInv
<1>3. CASE UNCHANGED warehouseVars
  <2>1. UNCHANGED <<core, loans, events, funnel, daily, pc, read, overlapped>>
    BY <1>3 DEF warehouseVars
  <2>2. WarehouseTypes'
    BY <2>1 DEF WInv, WarehouseTypes
  <2>3. \A m : RoundAt(m) => (RoundAt(m))'
    BY <2>1, RoundStays
  <2>4. SingleRounds'
    BY <2>1, <2>3 DEF WInv, SingleRounds, RoundsAreSingle, RoundKept
  <2>5. LaterStagesAreSmaller'
    BY <2>1, NarrowRows, NarrowRowsNext DEF WInv, RateIsOne, FunnelNarrows
  <2> QED BY <2>2, <2>4, <2>5 DEF WInv
<1> QED BY <1>1, <1>2, <1>3

\* While rounds run singly, every prefix of a rebuild and every place at which one can
\* break off is accounted for.
THEOREM WarehouseInvariant == WarehouseSpec => []WInv
<1>1. WInv /\ [WarehouseNext]_warehouseVars => WInv'
  <2> SUFFICES ASSUME WInv, [WarehouseNext]_warehouseVars PROVE WInv'
    OBVIOUS
  <2>1. CASE \E t \in Threads : Statement(t)
    BY <2>1, StatementTypes, StatementKeeps DEF WInv
  <2>2. CASE Tick
    <3>1. Loop \in Threads
      BY DEF Threads
    <3> QED BY <2>2, <3>1, RequestKeeps
  <2>3. CASE \E t \in Callers : Request(t)
    <3>1. Callers \subseteq Threads
      BY DEF Threads
    <3> QED BY <2>3, <3>1, RequestKeeps
  <2>4. CASE Change \/ Crash \/ UNCHANGED warehouseVars
    BY <2>4, WorldKeeps
  <2> QED BY <2>1, <2>2, <2>3, <2>4 DEF WarehouseNext
<1> QED BY <1>1, InitWInv, PTL DEF WarehouseSpec

\* Whatever statement raises and wherever the service dies: as long as no two rounds have
\* overlapped, no reader whose window goes back to the first date meets a KYC rate above one
\* or a stage larger than the one before it, wherever the window ends.
THEOREM FunnelsNarrow == WarehouseSpec => []LaterStagesAreSmaller
<1>1. WInv => LaterStagesAreSmaller
  BY DEF WInv
<1> QED BY <1>1, WarehouseInvariant, PTL
=============================================================================
