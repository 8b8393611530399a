-------------------------------- MODULE Journey --------------------------------
(* The clickstream POST /events/simulate writes for one customer. Every day   *)
(* the customer logs in is a session; the blocks of the day emit events      *)
(* through simEmit, which asks the journey model whether the event's          *)
(* prerequisites were met in this session and back-fills those that were not. *)
(* The operator's override moves the traffic of chosen events inside a window *)
(* and a segment. Probabilities are percentages: only 0 and 100 decide.       *)
(* Timestamps are seconds after the start of the session's day. What the day  *)
(* does to the bank is SimulationRun's subject; balances are free choices.    *)
EXTENDS Integers, Sequences, FiniteSets, FiniteSetsExt, SequencesExt, Functions

CONSTANTS
    Overrides,   \* the behaviour overrides an operator may send
    Devices,     \* device types
    Cities,      \* the cities of each country in WORLDWIDE_CITIES
    NoCity,      \* the empty city of a forced country the table does not have
    MaxJoin,     \* the most days ago the customer joined, 59 in the code
    KycAfter,    \* KYC starts on later days only, 2 in the code
    LoanAfter,   \* loans are applied for on later days only, 5 in the code
    Cooldown,    \* days between two applications, 12 in the code
    MaxLoans     \* applications per customer, 3 in the code

Countries == DOMAIN Cities
VARIABLES
    override,   \* the request's behaviour override
    plan,       \* what was drawn for the customer: the tier of the persona, the join day
    block,      \* the block of the script that runs next
    day,        \* the day of the session, counted from the join day
    dims,       \* the dimensions lMeta carries
    inScope,    \* the override applies to this session
    emitted,    \* the journey runtime's set, each with the time it was stamped with
    pushed,     \* the events the last block wrote or added to pendingEvents
    kyc,        \* kycState
    loans,      \* [count, last]: loanApplicationCount and lastLoanDay
    pro         \* unlockedFeature, "" while isPro is false
journeyVars == <<override, plan, block, day, dims, inScope, emitted, pushed, kyc, loans, pro>>

(* ---- the catalogue and the journey graph ---- *)
Entries == <<"login", "register">>
ProAccess == <<"features", "unlocked", "crypto">>
ProGated == {"features", "unlocked", "unlock_failed", "crypto", "feeds", "feeds_failed", "portfolio",
             "traded", "trade_failed", "insights", "insights_failed", "rebalanced", "rebalance_failed",
             "payroll", "searched", "search_failed", "batch", "batch_failed", "stats", "book", "book_failed"}
Catalogue == Range(Entries) \cup ProGated \cup
    {"opt_in", "dashboard", "accounts", "transactions", "history", "profile", "payees", "payee_added",
     "paid", "payment_failed", "kyc_started", "kyc_completed", "kyc_failed", "kyc_abandoned", "loans",
     "applied", "approved", "violation"}
Names == Catalogue \cup {"disbursed"}   \* a script also names one that is in no list
Target == [events : SUBSET Names, traffic : 0..20, failure : 0..20]
Funnel == [kyc_completed |-> "kyc_started", applied |-> "kyc_completed", approved |-> "applied",
           unlocked |-> "features", unlock_failed |-> "features"]
\* the failures whose sibling is the view of a feature
ViewOf == [feeds_failed |-> "feeds", insights_failed |-> "insights"]
Only(graph, e) == IF e \in DOMAIN graph THEN <<<<graph[e]>>>> ELSE <<>>

\* the events that must already have happened: one of each group
ContextGroups(e) ==
    IF e \notin Catalogue \/ e \in Range(Entries) THEN <<>>
    ELSE <<Entries>>
         \o (IF e \in ProGated /\ e \notin Range(ProAccess) THEN <<ProAccess>> ELSE <<>>)
         \o Only(ViewOf, e)
\* mutant: the gate forgets the funnel
GroupsOfContext(e) == ContextGroups(e)
Groups(e) == Only(Funnel, e) \o ContextGroups(e)
Prerequisites == Range(Entries) \cup Range(ProAccess) \cup Range(Funnel) \cup Range(ViewOf)
Ancestors[e \in Names] == IF e \in DOMAIN Funnel THEN {Funnel[e]} \cup Ancestors[Funnel[e]] ELSE {}

\* planBackfill's visit of a list of groups: what is missing, a prerequisite before what needs it
Depth == 6   \* the longest visit is that of feeds_failed
Visit == [groups : Seq(Seq(Names) \ {<<>>}), done : SUBSET Names]
To(groups, done) == [groups |-> groups, done |-> done]
Missing[n \in 0..Depth] == [v \in Visit |->
    IF n = 0 \/ v.groups = <<>> THEN [done |-> v.done, out |-> <<>>]
    ELSE LET rep   == Head(v.groups)[1]
             inner == Missing[n - 1][To(Groups(rep), v.done \cup {rep})]
             after == Missing[n - 1][To(Tail(v.groups), inner.done)]
         IN  IF Range(Head(v.groups)) \cap v.done # {} THEN Missing[n - 1][To(Tail(v.groups), v.done)]
             ELSE [done |-> after.done, out |-> inner.out \o <<rep>> \o after.out]]
Relaxed == IF override.relax THEN UNION {t.events : t \in override.targets} ELSE {}
Backfill(e, done) == IF e \in Relaxed THEN <<>> ELSE Missing[Depth][To(Groups(e), done)].out

ASSUME JourneyAssumption ==
    /\ \E c \in Countries : Cities[c] # {}
    /\ \A c \in Countries : NoCity \notin Cities[c]
    /\ {MaxJoin, KycAfter, LoanAfter, Cooldown, MaxLoans} \subseteq Nat
    /\ Devices # {}
    /\ \A o \in Overrides : /\ o.window \in 1..60
                            /\ o.devices \subseteq Devices /\ o.countries \subseteq Countries
                            /\ o.segment.devices \subseteq Devices
                            /\ o.segment.countries \subseteq Countries /\ o.targets \subseteq Target
                            /\ o.relax \in BOOLEAN

(* ---- the override ---- *)
None == [window |-> 1, segment |-> [devices |-> {}, countries |-> {}], devices |-> {},
         countries |-> {}, targets |-> {}, relax |-> FALSE]
\* an empty set of the segment means that key was not given
InSegment(d) == /\ override.segment.devices # {} => d.device \in override.segment.devices
                /\ override.segment.countries # {} => d.country \in override.segment.countries
Applies(daysAgo, d) == override # None /\ daysAgo < override.window /\ InSegment(d)

Clamp(p) == IF p > 100 THEN 100 ELSE IF p < 0 THEN 0 ELSE p
Moved == {t \in override.targets : t.traffic # 1}
Direct(e) == {t.traffic : t \in {u \in Moved : e \in u.events}}
Upstream(e) == IF override.relax THEN {}
               ELSE {t.traffic : t \in {u \in Moved : /\ u.traffic > 1 /\ e \notin u.events
                                                     /\ \E c \in u.events : e \in Ancestors[c]}}
Multiplier(e) == LET all == Direct(e) \cup Upstream(e)
                 IN  Max({1} \cup {x \in all : x > 1}) * Min({1} \cup {x \in all : x < 1})
InjectFloor == 3
Effective(e, p) ==
    IF ~ inScope \/ override.targets = {} THEN p
    ELSE IF \E x \in Direct(e) : x > 1 /\ p < InjectFloor THEN Clamp(Max(Direct(e)) * InjectFloor)
    ELSE Clamp(p * Multiplier(e))
FailureRate(e, p) ==
    IF ~ inScope THEN p
    ELSE Clamp(FoldSet(LAMBDA t, acc : acc * t.failure, p, {t \in override.targets : e \in t.events}))

(* ---- scripts: the events a block may emit, each with its time ---- *)
Outcomes(p) == {b \in BOOLEAN : IF b THEN p > 0 ELSE p < 100}
Say(e, at) == <<<<e, at>>>>
Roll(e, p, at) == {IF b THEN Say(e, at) ELSE <<>> : b \in Outcomes(Effective(e, p))}
Gate(e, p) == Outcomes(Effective(e, p))
Fails(e, p) == Outcomes(FailureRate(e, p))
Then(first, second) == {a \o b : a \in first, b \in second}
\* the second script is reached when the first emitted
Follow(first, second) == {a \in first : a = <<>>} \cup Then(first \ {<<>>}, second)
\* an attempt behind a traffic gate, with one of two outcomes
Attempt(gate, p, good, bad, rate, at) ==
    UNION {IF g THEN {IF f THEN Say(bad, at) ELSE Say(good, at) : f \in Fails(bad, rate)} ELSE {<<>>} :
              g \in Gate(gate, p)}
Maybe == 50   \* a probability of the persona, strictly between 0 and 100
Perhaps(scripts) == scripts \cup {<<>>}

\* simEmit: the back-filled events a second before the event, then the event
SimEmit(rt, step) ==
    LET known == DOMAIN rt.emitted
        fill  == Backfill(step[1], known)
    IN  [emitted |-> [x \in known \cup Range(fill) \cup ({step[1]} \cap Prerequisites) |->
                         IF x \in known THEN rt.emitted[x]
                         ELSE IF x \in Range(fill) THEN step[2] - 1 ELSE step[2]],
         pushed  |-> rt.pushed \o [i \in DOMAIN fill |-> <<fill[i], step[2] - 1>>] \o <<step>>]
Played(script, done) ==
    LET rt[k \in 0..Len(script)] ==
            IF k = 0 THEN [emitted |-> done, pushed |-> <<>>] ELSE SimEmit(rt[k - 1], script[k])
    IN  rt[Len(script)]
\* every event of a block is emitted with what lMeta carries
Play(scripts) == \E rt \in {Played(script, emitted) : script \in scripts} :
    /\ emitted' = rt.emitted
    /\ pushed' = [i \in DOMAIN rt.pushed |->
                     [event |-> rt.pushed[i][1], at |-> rt.pushed[i][2], dims |-> dims]]
Said(e) == \E i \in DOMAIN pushed' : pushed'[i].event = e
Keep == UNCHANGED <<override, plan, day, dims, inScope>>
Step(here, next) == block = here /\ block' = next

(* ---- the blocks of runUser ---- *)
JourneyInit ==
    /\ override \in Overrides \cup {None}
    /\ plan \in [enterprise : BOOLEAN, joined : 0..MaxJoin]
    /\ \E c \in {x \in Countries : Cities[x] # {}}, v \in Devices :
          \E t \in Cities[c] : dims = [device |-> v, country |-> c, city |-> t]
    /\ block = "register" /\ day = 0 /\ emitted = <<>> /\ pushed = <<>>
    /\ inScope = Applies(plan.joined, dims)
    /\ kyc = "NOT_STARTED" /\ loans = [count |-> 0, last |-> -99] /\ pro = ""

\* the first session: a new customer registers, one who opted in says so
Register ==
    /\ Step("register", "open") /\ Keep /\ UNCHANGED <<kyc, loans, pro>>
    /\ Play(Then(Then(Perhaps(Roll("register", 100, 0)), Roll("login", 100, 60)),
                 Perhaps(Roll("opt_in", 100, 90))))

\* a day without a login
Absent ==
    /\ Step("open", "open") /\ day <= plan.joined /\ day' = day + 1 /\ pushed' = <<>>
    /\ UNCHANGED <<override, plan, dims, inScope, emitted, kyc, loans, pro>>

\* the session's mix: what the override forces on it, and what it leaves
ForcedDevices(daysAgo) ==
    IF Applies(daysAgo, dims) /\ override.devices # {} THEN override.devices ELSE {dims.device}
ForcedCountries(daysAgo) == IF Applies(daysAgo, dims) THEN override.countries ELSE {}
\* a forced country brings its own city with it, or none
Forced(daysAgo) ==
    (UNION {{[device |-> v, country |-> c, city |-> t] :
                v \in ForcedDevices(daysAgo), t \in IF Cities[c] = {} THEN {NoCity} ELSE Cities[c]} :
            c \in ForcedCountries(daysAgo)})
    \cup {[dims EXCEPT !.device = v] : v \in IF ForcedCountries(daysAgo) = {} THEN ForcedDevices(daysAgo) ELSE {}}

\* mutant: the scope is resolved before the mix shift
OpenScopedFirst ==
    /\ Step("open", "login") /\ day <= plan.joined
    /\ dims' \in Forced(plan.joined - day)
    /\ inScope' = Applies(plan.joined - day, dims)
    /\ emitted' = <<>> /\ pushed' = <<>>
    /\ UNCHANGED <<override, plan, day, kyc, loans, pro>>
\* a day with a login: a new session, its mix, and then its scope
Open ==
    /\ Step("open", "login") /\ day <= plan.joined
    /\ dims' \in Forced(plan.joined - day)
    /\ inScope' = Applies(plan.joined - day, dims')
    /\ emitted' = <<>> /\ pushed' = <<>>
    /\ UNCHANGED <<override, plan, day, kyc, loans, pro>>

Login ==
    /\ Step("login", "browse") /\ Keep /\ UNCHANGED <<kyc, loans, pro>>
    /\ Play(Roll("login", 100, 0))

\* dashboard, accounts, transactions; payees and what follows from them
Browse ==
    /\ Step("browse", "start_kyc") /\ Keep /\ UNCHANGED <<kyc, loans, pro>>
    /\ Play(Then(Then(Then(Roll("dashboard", 70, 200), Roll("accounts", 40, 400)),
                      Roll("transactions", 30, 800)),
                 Follow(Roll("payees", 15, 1000),
                        Then(Roll("payee_added", 30, 1100), Roll("paid", 25, 1150)))))

StartKyc ==
    /\ Step("start_kyc", "kyc") /\ Keep /\ UNCHANGED <<loans, pro>>
    /\ Play(IF kyc = "NOT_STARTED" /\ day > KycAfter THEN Roll("kyc_started", 25, 200) ELSE {<<>>})
    /\ kyc' = IF Said("kyc_started") THEN "PENDING" ELSE kyc

DecideKyc ==
    /\ Step("kyc", "spend") /\ Keep /\ UNCHANGED <<loans, pro>>
    /\ Play(IF kyc = "PENDING" THEN Attempt("kyc_completed", Maybe, "kyc_completed", "kyc_failed", 15, 500)
            ELSE {<<>>})
    /\ kyc' = IF Said("kyc_completed") THEN "VERIFIED" ELSE IF Said("kyc_failed") THEN "REJECTED" ELSE kyc

\* a purchase, behind the traffic gate of the whole block
NextSuite == IF plan.enterprise THEN "crypto" ELSE "violation"
Spend ==
    /\ block = "spend" /\ Keep /\ UNCHANGED <<kyc, loans, pro>>
    /\ \E g \in Gate("paid", Maybe) :
          /\ block' = IF g THEN "flight" ELSE NextSuite
          /\ Play(IF g THEN Perhaps({IF f THEN Say("payment_failed", 1205) ELSE Say("paid", 1205) :
                                        f \in Fails("payment_failed", Maybe)})
                  ELSE {<<>>})
\* the deposit flight: a payment sent by trackEvent itself, past the journey model, which
\* neither back-fills for it nor records it
Flight ==
    /\ Step("flight", "spend_more") /\ Keep /\ UNCHANGED <<emitted, kyc, loans, pro>>
    /\ pushed' \in {<<>>, <<[event |-> "paid", at |-> 6600, dims |-> dims]>>}
\* perhaps a second purchase
SpendMore ==
    /\ Step("spend_more", NextSuite) /\ Keep /\ UNCHANGED <<kyc, loans, pro>>
    /\ Play(Perhaps({Say("paid", 5005)}))

\* the suites an enterprise persona touches, from proTimelineBase = 1340
Suite(here, next, scripts) == Step(here, next) /\ Keep /\ UNCHANGED <<kyc, loans, pro>> /\ Play(scripts)
Crypto == Suite("crypto", "wealth",
    Then(Roll("features", 100, 1300),
    Then(Follow(Roll("crypto", 22, 1345), {Say("feeds", 1350)}),
    Then(Roll("portfolio", 14, 1360),
         Follow(Roll("traded", 11, 1370), {IF f THEN Say("trade_failed", 1375) ELSE <<>> :
                                               f \in Fails("trade_failed", 9)})))))
Wealth == Suite("wealth", "payroll",
    Then(Roll("insights", 16, 1385),
         Follow(Roll("rebalanced", 8, 1395), {IF f THEN Say("rebalance_failed", 1398) ELSE <<>> :
                                                  f \in Fails("rebalance_failed", 6)})))
Payroll == Suite("payroll", "books",
    Then(Roll("payroll", 13, 1410),
    Then(Attempt("searched", 10, "searched", "search_failed", 12, 1418),
         Attempt("batch", 7, "batch", "batch_failed", 10, 1426))))
Books == Suite("books", "violation", Then(Roll("stats", 15, 1436), Roll("book", 9, 1444)))

\* baseline behaviour never tries the admin routes: roleViolationRate is 0
Violation == Suite("violation", "loan", Roll("violation", 0, 2600))

\* an application, its KYC step, and perhaps its approval and disbursement
LoanScripts ==
    {Say("loans", 2800) \o Say("applied", 3000) \o rest : rest \in
        {Say("kyc_abandoned", 3500), Say("kyc_completed", 3500)}
        \cup {Say("kyc_completed", 3500) \o Say("approved", 4200) \o Say("disbursed", 4400) :
                 g \in Gate("approved", 72) \cap {TRUE}}}
Loan ==
    /\ Step("loan", "convert") /\ Keep /\ UNCHANGED <<kyc, pro>>
    /\ Play({<<>>} \cup (IF /\ loans.count < MaxLoans /\ day - loans.last >= Cooldown
                            /\ kyc = "VERIFIED" /\ day > LoanAfter /\ TRUE \in Gate("applied", 8)
                         THEN LoanScripts ELSE {}))
    /\ loans' = IF Said("applied") THEN [count |-> loans.count + 1, last |-> day] ELSE loans

\* a customer without a licence looks at the features and may unlock one
Features == {"book", "traded", "insights", "batch"}   \* each feature by the event of its use
Convert ==
    /\ Step("convert", "use") /\ Keep /\ UNCHANGED <<kyc, loans>>
    /\ Play({<<>>} \cup (IF pro = "" /\ TRUE \in Gate("features", 12)
                         THEN {Say("features", 4000) \o more : more \in
                                  {Say("unlocked", 4505), Say("unlock_failed", 4505), <<>>}}
                         ELSE {}))
    /\ IF pro = "" /\ Said("unlocked") THEN pro' \in Features ELSE pro' = pro

\* the licensed feature is used: its own events, then the pro dashboard
UseScripts ==
    CASE pro = "book" -> {Say(e, 6000) \o Say("stats", 6100) :
                             e \in {IF f THEN "book_failed" ELSE "book" : f \in Fails("book_failed", 3)}}
      [] pro = "traded" ->
           UNION {Then({Say("crypto", 5950) \o Say(IF f THEN "feeds_failed" ELSE "feeds", 6000)},
                       Then(Perhaps({Say(IF f THEN "trade_failed" ELSE "traded", 6200)}),
                            {Say("portfolio", 6300)})) : f \in Fails("feeds_failed", 3)}
      [] pro = "insights" -> Then({IF f THEN Say("insights_failed", 6000) ELSE Say("insights", 6000) :
                                      f \in Fails("insights_failed", 3)},
                                  Perhaps({Say("rebalanced", 6500)}))
      [] pro = "batch" -> Then({Say("payroll", 6000)},
                               Perhaps({IF f THEN Say("batch_failed", 6500) ELSE Say("batch", 6500) :
                                           f \in Fails("batch_failed", 3)}))
Use ==
    /\ Step("use", "leave") /\ Keep /\ UNCHANGED <<kyc, loans, pro>>
    /\ Play({<<>>} \cup (IF pro # "" /\ TRUE \in Gate(pro, 50)
                         THEN Then(UseScripts, {Say("dashboard", 6800)}) ELSE {}))

\* the profile and the payment history, and the day is over
Leave ==
    /\ Step("leave", "open") /\ day' = day + 1
    /\ Play(Then(Roll("profile", 8, 7000), Roll("history", 12, 7200)))
    /\ UNCHANGED <<override, plan, dims, inScope, kyc, loans, pro>>

\* the live pulse continues an authenticated session: its login is implied, not emitted
Pulse ==
    /\ Step("open", "pulse") /\ day > plan.joined
    /\ inScope' = Applies(0, dims)
    /\ emitted' = [e \in {"login"} \cup (IF plan.enterprise THEN {"features"} ELSE {}) |-> 0]
    /\ pushed' = <<>>
    /\ UNCHANGED <<override, plan, day, dims, kyc, loans, pro>>
LivePulse == Suite("pulse", "done",
    Then(Roll("dashboard", 100, 0), IF plan.enterprise THEN Perhaps(Roll("traded", 100, 15)) ELSE {<<>>}))
\* four in ten customers have no live session; then the batch is flushed
Finish == /\ Step("open", "done") /\ day > plan.joined /\ pushed' = <<>>
          /\ UNCHANGED <<override, plan, day, dims, inScope, emitted, kyc, loans, pro>>

JourneyNext == \/ Register \/ Absent \/ Open \/ Login \/ Browse \/ StartKyc \/ DecideKyc \/ Spend
               \/ Flight \/ SpendMore \/ Crypto \/ Wealth \/ Payroll \/ Books \/ Violation \/ Loan \/ Convert \/ Use
               \/ Leave \/ Pulse \/ LivePulse \/ Finish
JourneySpec == JourneyInit /\ [][JourneyNext]_journeyVars
(* ---- properties ---- *)
Mixes == [device : Devices, country : Countries, city : {NoCity} \cup UNION {Cities[c] : c \in Countries}]
JourneyTypes ==
    /\ override \in Overrides \cup {None}
    /\ plan \in [enterprise : BOOLEAN, joined : 0..MaxJoin]
    /\ day \in 0..(MaxJoin + 1) /\ inScope \in BOOLEAN
    /\ dims \in Mixes
    /\ kyc \in {"NOT_STARTED", "PENDING", "VERIFIED", "REJECTED"}
    /\ loans.count \in 0..MaxLoans /\ pro \in Features \cup {""}

\* The journey gate: unless the operator released it, every event a session sends through
\* simEmit follows one event of each of its prerequisites, emitted before it in the same
\* session, and none of them but the entry is stamped with a later time. (An operator who
\* silences logins gets the login back-filled a second before whichever event is emitted
\* first, and KYC is started after the payee pages but stamped before them.) The payment of
\* the deposit flight is the one event of a session that is not sent through simEmit.
Earned(i) ==
    LET e == pushed'[i].event
        needed == Only(Funnel, e) \o ContextGroups(e)
    IN  \A k \in DOMAIN needed :
            LET group == Range(needed[k])
            IN  /\ group \cap (DOMAIN emitted \cup {pushed'[j].event : j \in 1..(i - 1)}) # {}
                /\ \E m \in group \cap DOMAIN emitted' : m \in Range(Entries) \/ emitted'[m] <= pushed'[i].at
GatedEventsAreEarned ==
    [][block # "flight" => \A i \in DOMAIN pushed' : pushed'[i].event \in Relaxed \/ Earned(i)]_journeyVars

\* What the comment of simEmit says of every generator event: that the journey model sees
\* it and can back-fill a prerequisite it misses. The deposit flight's payment is sent past
\* the model, and may be the first event of a session whose login was silenced.
EveryEventIsEarned == [][\A i \in DOMAIN pushed' : pushed'[i].event \in Relaxed \/ Earned(i)]_journeyVars

\* An anomaly the operator plants stays inside its window and in the segment its
\* sessions ended up in: no other session tries the admin routes, at baseline nobody does.
PlantStaysInScope ==
    \A i \in DOMAIN pushed : pushed[i].event = "violation" =>
        /\ \E t \in override.targets : "violation" \in t.events /\ t.traffic > 1
        /\ plan.joined - day < override.window
        /\ InSegment(pushed[i].dims)

===============================================================================
