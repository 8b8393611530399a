------------------------------- MODULE ProDesk -------------------------------
(* The /pro-feature page of NexaBank in one tab, and the handlers of /pro that *)
(* answer it.  One component shows whichever feature the address names: it      *)
(* reads the licences, sells one, and mounts the feature's module, which reads  *)
(* and writes on its own while the page may go on to another feature.  Answers   *)
(* come back in any order.  Money and holdings are BankLedger's subject: here a   *)
(* portfolio is the number of times it changed, and a handler that may answer     *)
(* for want of money does so freely.                                               *)
EXTENDS Naturals, Sequences, FiniteSets, SequencesExt, Sifting

CONSTANTS
    People,      \* the accounts a batch can pay
    Mine,        \* those of the customer's own payees
    Found,       \* what a search of two letters or more finds, per query
    Short,       \* an empty or one-letter search box
    Nothing,     \* nothing read yet
    Static,      \* the fallback prices
    MaxBatch,    \* 20 in the code
    Period,      \* prices are read again after this, 30 seconds
    CacheTime,        \* and the server keeps them for this, 30 seconds
    Links,       \* the features each is left for
    Held,        \* the sets of licences a customer may start with
    MaxToday, MaxDeskFaults, MaxSent,  \* bounds: time and acts together, faults, calls in flight at an act
    MaxDeskActs  \* bound: acts, per feature

Features == {"ai-insights", "crypto-trading", "wealth-management-pro", "bulk-payroll-processing"}
ASSUME DeskAssumption ==
    /\ Mine \subseteq People /\ DOMAIN Found \subseteq STRING /\ Short \notin DOMAIN Found
    /\ \A q \in DOMAIN Found : Found[q] \subseteq People
    /\ {MaxBatch, Period, CacheTime, MaxToday, MaxDeskFaults, MaxSent} \subseteq Nat /\ CacheTime > 0
    /\ MaxDeskActs \in [Features -> Nat]
    /\ Held \subseteq SUBSET Features /\ Links \in [Features -> SUBSET Features] /\ {Nothing, Static} \cap Nat = {} /\ Nothing # Static

VARIABLES
    today,      \* the clock
    cache,      \* cryptoPriceCache: when the prices were fetched
    licensed,   \* the features with an active licence
    fees,       \* the PRO_LICENSE_FEE rows of each licence
    worth,      \* how often cash and holdings changed
    paid,       \* the payroll rows of each account
    desk,       \* the page and its mounted module
    sent,       \* the requests in flight
    shaky,      \* ghost: what is on the page and cannot be known to be current
    blind,      \* ghost: features bought while the page did not know
    wanted,     \* ghost: how often each account was put on a list and not taken off
    spoiled,    \* ghost: accounts whose list changed while it was being paid, or whose answer was lost
    deskActs, deskFaults
bankSide == <<cache, licensed, fees, worth, paid>>
ghosts == <<shaky, blind, wanted, spoiled>>
deskVars == <<today, desk, sent, ghosts, deskActs, deskFaults, bankSide>>

(* ---- the page ---- *)
\* what a module reads when it is mounted
ModuleReads(f) == CASE f = "ai-insights" -> <<"stats">>
                    [] f = "crypto-trading" -> <<"prices", "portfolio">>
                    [] f = "wealth-management-pro" -> <<"insights">>
                    [] f = "bulk-payroll-processing" -> <<"payees">>
NoModule == [busy |-> FALSE, working |-> FALSE, value |-> Nothing, price |-> Nothing, due |-> 0, existing |-> {},
             box |-> Short, timer |-> FALSE, results |-> {}, selected |-> {}]
Library == [NoModule EXCEPT !.busy = TRUE, !.value = 0]
Trading == [NoModule EXCEPT !.due = today + Period]
Wealth  == [NoModule EXCEPT !.busy = TRUE]
Payroll == [NoModule EXCEPT !.busy = TRUE]
Module(f) == CASE f = "ai-insights" -> Library
               [] f = "crypto-trading" -> Trading
               [] f = "wealth-management-pro" -> Wealth
               [] f = "bulk-payroll-processing" -> Payroll
Open(P) == ~ P.loading /\ P.unlocked
Shows(f) == Open(desk) /\ desk.feature = f

(* ---- calls ---- *)
OfPage == {"status", "unlock"}
Orders == {"book", "trade", "rebalance", "pay"}
About(kind) == CASE kind \in {"status", "unlock"} -> "licence"
                 [] kind \in {"portfolio", "insights"} -> "worth"
                 [] kind = "prices" -> "price"
                 [] kind = "search" -> "results"
                 [] OTHER -> kind
\* what an order changes
Changes(kind) == CASE kind = "unlock" -> {"licence", "worth"}
                   [] kind \in {"trade", "rebalance", "pay"} -> {"worth"}
                   [] OTHER -> {}
\* what the page reads again, or knows, when it is answered
Follows(kind) == CASE kind = "unlock" -> {"licence"}
                   [] kind \in {"trade", "rebalance"} -> {"worth"}
                   [] OTHER -> {}
Reading == {"status", "portfolio", "insights", "prices", "search"}
\* newest (ghost): no later read of the same was sent, and nothing it read changed since
Call(kind, arg) == [kind |-> kind, feature |-> desk'.feature, arg |-> arg, stage |-> "sent", ok |-> FALSE,
                    value |-> {}, number |-> Nothing, here |-> TRUE, newest |-> TRUE, at |-> 0]
Overtaken(pending, kinds) ==
    [j \in DOMAIN pending |-> [pending[j] EXCEPT !.newest =
        @ /\ ~ \E k \in kinds \cap Reading : pending[j].kind \in Reading /\ About(k) = About(pending[j].kind)]]
Post(pending, kinds, arg) ==
    Overtaken(pending, Range(kinds)) \o [j \in DOMAIN kinds |-> Call(kinds[j], arg)]
\* a module that goes leaves its reads without effect, and its orders without a page
Abandoned(pending) ==
    LET left == [j \in DOMAIN pending |-> [pending[j] EXCEPT !.here = @ /\ pending[j].kind \in OfPage]]
    IN  Sifted(left, {j \in DOMAIN left :
                         left[j].kind \in OfPage \/ (left[j].kind \in Orders /\ left[j].stage = "sent")})

Batches(pending) == {pending[j] : j \in {k \in DOMAIN pending : pending[k].kind = "pay"}}
\* the page becomes P: the module it no longer shows goes with its list, the one it now shows is mounted
Become(P, pending) ==
    LET turns == Open(P) # Open(desk) \/ P.feature # desk.feature
        being == UNION {c.arg : c \in Batches(pending)}
    IN  IF turns
        THEN /\ desk' = [P EXCEPT !.module = IF Open(P) THEN Module(P.feature) ELSE NoModule]
             /\ sent' = IF Open(P) THEN Post(Abandoned(pending), ModuleReads(P.feature), {})
                                   ELSE Abandoned(pending)
             /\ wanted' = [p \in People |-> IF p \in desk.module.selected THEN wanted[p] - 1 ELSE wanted[p]]
             /\ spoiled' = spoiled \cup being
        ELSE desk' = P /\ sent' = pending /\ UNCHANGED <<wanted, spoiled>>

DeskInit ==
    /\ today = 0 /\ cache = Nothing /\ licensed \in Held /\ worth = 0
    /\ fees = [f \in Features |-> IF f \in licensed THEN 1 ELSE 0] /\ paid = [p \in People |-> 0]
    /\ \E f \in Features : desk = [feature |-> f, loading |-> TRUE, unlocked |-> FALSE, unlocking |-> FALSE, module |-> NoModule]
    /\ sent = <<[kind |-> "status", feature |-> desk.feature, arg |-> {}, stage |-> "sent", ok |-> FALSE,
                 value |-> {}, number |-> Nothing, here |-> TRUE, newest |-> TRUE, at |-> 0]>>
    /\ shaky = {} /\ blind = {} /\ wanted = paid /\ spoiled = {} /\ deskActs = 0 /\ deskFaults = 0

(* ---- the customer ---- *)
Acts == /\ deskActs < MaxDeskActs[desk.feature] /\ Len(sent) < MaxSent /\ deskActs' = deskActs + 1
        /\ UNCHANGED <<today, bankSide, deskFaults>>
Orderly(kind, arg) ==
    /\ Acts /\ ~ desk.module.working
    /\ desk' = [desk EXCEPT !.module.working = TRUE] /\ sent' = Post(sent, <<kind>>, arg)
    /\ UNCHANGED ghosts
\* a link to another feature: the component stays, and so does what it knows of the licence
Goto(f) ==
    /\ Acts /\ f \in Links[desk.feature]
    /\ desk' = [desk EXCEPT !.feature = f, !.module = IF Open(desk) THEN Module(f) ELSE NoModule]
    /\ sent' = Post(Abandoned(sent), <<"status">> \o IF Open(desk) THEN ModuleReads(f) ELSE <<>>, {})
    /\ wanted' = [p \in People |-> IF p \in desk.module.selected THEN wanted[p] - 1 ELSE wanted[p]]
    /\ spoiled' = spoiled \cup UNION {c.arg : c \in Batches(sent)}
    /\ UNCHANGED <<shaky, blind>>

\* a button that is disabled while it is being paid
Unlock ==
    /\ ~ desk.loading /\ ~ desk.unlocked /\ ~ desk.unlocking
    /\ Acts /\ desk' = [desk EXCEPT !.unlocking = TRUE] /\ sent' = Post(sent, <<"unlock">>, {})
    /\ blind' = IF "licence" \in shaky \/ \E c \in Range(sent) : c.kind = "status"
                THEN blind \cup {desk.feature} ELSE blind
    /\ UNCHANGED <<shaky, wanted, spoiled>>

AccessBook ==
    /\ Shows("ai-insights") /\ Acts
    /\ UNCHANGED <<desk, ghosts>> /\ sent' = Post(sent, <<"book">>, {})
Trade == Shows("crypto-trading") /\ desk.module.price # Nothing /\ Orderly("trade", {})
Rebalance ==
    /\ Shows("wealth-management-pro") /\ ~ desk.module.busy /\ desk.module.value # Nothing
    /\ Orderly("rebalance", {})
Type(q) ==
    /\ Shows("bulk-payroll-processing") /\ q # desk.module.box /\ Acts
    /\ desk' = [desk EXCEPT !.module.box = q, !.module.timer = TRUE]
    /\ UNCHANGED <<sent, ghosts>>
\* adding empties the box and the results, which starts the timer again if there was something in it
PutOn(p) ==
    LET m == desk.module
    IN  /\ Shows("bulk-payroll-processing") /\ Acts
        /\ p \in m.results \/ (p \in m.existing /\ m.box = Short)
        /\ Cardinality(m.selected) < MaxBatch /\ p \notin m.selected
        /\ desk' = [desk EXCEPT !.module.selected = @ \cup {p}, !.module.results = {},
                               !.module.box = Short, !.module.timer = @ \/ m.box # Short]
        /\ wanted' = [wanted EXCEPT ![p] = @ + 1]
        /\ spoiled' = IF Batches(sent) = {} THEN spoiled ELSE spoiled \cup {p}
        /\ shaky' = IF m.box = Short THEN shaky \ {"results"} ELSE shaky
        /\ UNCHANGED <<sent, blind>>
TakeOff(p) ==
    /\ Shows("bulk-payroll-processing") /\ p \in desk.module.selected /\ Acts
    /\ desk' = [desk EXCEPT !.module.selected = @ \ {p}]
    /\ wanted' = [wanted EXCEPT ![p] = @ - 1]
    /\ spoiled' = IF \E c \in Batches(sent) : p \in c.arg THEN spoiled \cup {p} ELSE spoiled
    /\ UNCHANGED <<sent, shaky, blind>>
PayAll ==
    /\ Shows("bulk-payroll-processing") /\ desk.module.selected # {}
    /\ Orderly("pay", desk.module.selected)

\* the debounced search: two letters ask the server, fewer clear the results
TimerFires ==
    LET m == desk.module
    IN  /\ m.timer
        /\ IF m.box = Short
           THEN /\ desk' = [desk EXCEPT !.module.timer = FALSE, !.module.results = {}]
                /\ sent' = Overtaken(sent, {"search"}) /\ shaky' = shaky \ {"results"}
           ELSE /\ desk' = [desk EXCEPT !.module.timer = FALSE]
                /\ sent' = Post(sent, <<"search">>, {m.box}) /\ UNCHANGED shaky
        /\ UNCHANGED <<today, bankSide, blind, wanted, spoiled, deskActs, deskFaults>>
\* setInterval, cleared with the module
PricesDue == Shows("crypto-trading") /\ today >= desk.module.due
ReadPrices ==
    /\ PricesDue
    /\ desk' = [desk EXCEPT !.module.due = today + Period] /\ sent' = Post(sent, <<"prices">>, {})
    /\ UNCHANGED <<today, bankSide, ghosts, deskActs, deskFaults>>

(* ---- the handlers of /pro ---- *)
Replied(c, ok, value, number) == [c EXCEPT !.stage = "done", !.ok = ok, !.value = value, !.number = number, !.at = today]
\* an answer to a module that is gone does nothing
Put(i, c) == IF c.here THEN [sent EXCEPT ![i] = c] ELSE RemoveAt(sent, i)
Asked(i, kinds) == i \in DOMAIN sent /\ sent[i].stage = "sent" /\ sent[i].kind \in kinds
Handling == UNCHANGED <<today, desk, blind, wanted, spoiled, deskActs, deskFaults>>
Tells(i, value, number) ==
    /\ sent' = Put(i, Replied(sent[i], TRUE, value, number)) /\ Handling /\ UNCHANGED shaky
Declines(i) == sent' = Put(i, Replied(sent[i], FALSE, {}, Nothing)) /\ Handling /\ UNCHANGED <<shaky, bankSide>>
\* ghost: what an order changed is old where it was read and is under way
Changed(i) ==
    LET c == sent[i]
        old(d) == /\ d.stage = "done" /\ d.kind \in Reading /\ About(d.kind) \in Changes(c.kind)
                  /\ d.kind = "status" => d.feature = c.feature
        marked == [j \in DOMAIN sent |-> [sent[j] EXCEPT !.newest = @ /\ ~ old(sent[j])]]
    IN  /\ sent' = IF c.here THEN [marked EXCEPT ![i] = Replied(c, TRUE, {}, Nothing)] ELSE RemoveAt(marked, i)
        /\ shaky' = shaky \cup (Changes(c.kind) \ IF c.here THEN Follows(c.kind) ELSE {})
        /\ Handling

ServeStatus(i) == Asked(i, {"status"}) /\ Tells(i, licensed, Nothing) /\ UNCHANGED bankSide
ServeUnlock(i) ==
    /\ Asked(i, {"unlock"})
    /\ \/ Declines(i)
       \/ /\ licensed' = licensed \cup {sent[i].feature} /\ fees' = [fees EXCEPT ![sent[i].feature] = @ + 1]
          /\ worth' = worth + 1
          /\ Changed(i) /\ UNCHANGED <<cache, paid>>
\* an access is recorded under one name, and counted under another
ServeBook(i) == Asked(i, {"book"}) /\ Tells(i, {}, Nothing) /\ UNCHANGED bankSide
ServeStats(i) == Asked(i, {"stats"}) /\ Tells(i, {}, 0) /\ UNCHANGED bankSide
CacheHolds == cache # Nothing /\ today - cache < CacheTime
ServePrices(i) ==
    /\ Asked(i, {"prices"}) /\ UNCHANGED <<licensed, fees, worth, paid>>
    /\ IF CacheHolds THEN Tells(i, {}, cache) /\ UNCHANGED cache
                     ELSE Tells(i, {}, today) /\ cache' = today
ServePortfolio(i) == Asked(i, {"portfolio"}) /\ Tells(i, {}, worth) /\ UNCHANGED bankSide
ServeInsights(i) == Asked(i, {"insights"}) /\ Tells(i, {}, worth) /\ UNCHANGED bankSide
\* short of money or holdings, or done: no licence is asked for
ServeTrade(i) ==
    /\ Asked(i, {"trade"})
    /\ Declines(i) \/ (worth' = worth + 1 /\ Changed(i) /\ UNCHANGED <<cache, licensed, fees, paid>>)
ServeRebalance(i) ==
    /\ Asked(i, {"rebalance"})
    /\ IF "wealth-management-pro" \notin licensed THEN Declines(i)
       ELSE worth' = worth + 1 /\ Changed(i) /\ UNCHANGED <<cache, licensed, fees, paid>>
ServePayees(i) == Asked(i, {"payees"}) /\ Tells(i, Mine, Nothing) /\ UNCHANGED bankSide
ServeSearch(i) == Asked(i, {"search"}) /\ Tells(i, UNION {Found[q] : q \in sent[i].arg}, Nothing) /\ UNCHANGED bankSide
ServePayroll(i) ==
    /\ Asked(i, {"pay"})
    /\ \/ Declines(i)
       \/ /\ "bulk-payroll-processing" \in licensed /\ Cardinality(sent[i].arg) <= MaxBatch
          /\ paid' = [p \in People |-> IF p \in sent[i].arg THEN paid[p] + 1 ELSE paid[p]]
          /\ worth' = worth + 1 /\ Changed(i) /\ UNCHANGED <<cache, licensed, fees>>
Handled(i) == \/ ServeStatus(i) \/ ServeUnlock(i) \/ ServeBook(i) \/ ServeStats(i) \/ ServePrices(i)
             \/ ServePortfolio(i) \/ ServeTrade(i) \/ ServeInsights(i) \/ ServeRebalance(i)
             \/ ServePayees(i) \/ ServeSearch(i) \/ ServePayroll(i)

(* ---- faults and time ---- *)
Fault == deskFaults < MaxDeskFaults /\ deskFaults' = deskFaults + 1 /\ UNCHANGED <<today, desk, blind, wanted, deskActs>>
\* a handler's query fails, 500, or a request never arrives
QueryFails(i) ==
    /\ Fault /\ Asked(i, {sent[i].kind}) /\ sent[i].kind # "prices"
    /\ sent' = Put(i, Replied(sent[i], FALSE, {}, Nothing)) /\ UNCHANGED <<shaky, spoiled, bankSide>>
\* the price service fails: static prices, marked as such, and nothing is cached
ServiceFails(i) ==
    /\ Fault /\ Asked(i, {"prices"}) /\ ~ CacheHolds
    /\ sent' = Put(i, Replied(sent[i], TRUE, {}, Static)) /\ UNCHANGED <<shaky, spoiled, bankSide>>
\* an answer is lost on its way: the page is told of an error
AnswerLost(i) ==
    LET c == sent[i]
    IN  /\ Fault /\ c.stage = "done" /\ c.ok /\ UNCHANGED bankSide
        /\ sent' = [sent EXCEPT ![i] = [c EXCEPT !.ok = FALSE]]
        /\ shaky' = shaky \cup Changes(c.kind)
        /\ spoiled' = IF c.kind = "pay" THEN spoiled \cup c.arg ELSE spoiled
\* a licence ends after its month
Lapse(f) ==
    /\ f \in licensed /\ deskFaults < MaxDeskFaults /\ deskFaults' = deskFaults + 1
    /\ licensed' = licensed \ {f} /\ fees' = [fees EXCEPT ![f] = 0]
    /\ sent' = [j \in DOMAIN sent |-> [sent[j] EXCEPT !.newest = @ /\ ~ (sent[j].kind \in OfPage /\ sent[j].stage = "done")]]
    /\ shaky' = shaky \cup {"licence"}
    /\ UNCHANGED <<today, cache, worth, paid, desk, blind, wanted, spoiled, deskActs>>
\* time matters where prices are shown, and an interval that is due is not late; bound: few calls in flight
DeskTick ==
    /\ today + deskActs < MaxToday /\ Len(sent) < MaxSent /\ Shows("crypto-trading") /\ ~ PricesDue /\ today' = today + 1
    /\ UNCHANGED <<bankSide, desk, sent, ghosts, deskActs, deskFaults>>
\* another customer's page fills the cache
OthersRead ==
    /\ Shows("crypto-trading") /\ ~ CacheHolds /\ cache' = today /\ deskActs < MaxDeskActs[desk.feature] /\ deskActs' = deskActs + 1
    /\ UNCHANGED <<today, licensed, fees, worth, paid, desk, sent, ghosts, deskFaults>>

(* ---- the answers ---- *)
Judged(c, right) == LET r == About(c.kind) IN shaky' = IF right THEN shaky \ {r} ELSE shaky \cup {r}
Quietly == UNCHANGED <<today, bankSide, deskActs, deskFaults>>
Come(i, kinds) == i \in DOMAIN sent /\ sent[i].stage = "done" /\ sent[i].kind \in kinds
\* an answer and an error both end the spinner
OnStatus(i) ==
    LET c == sent[i]
    IN  /\ Come(i, {"status"}) /\ Quietly /\ UNCHANGED blind
        /\ Judged(c, c.ok /\ c.newest)
        /\ Become([desk EXCEPT !.loading = FALSE,
                              !.unlocked = IF c.ok THEN c.feature \in c.value ELSE @], RemoveAt(sent, i))
\* bought for the feature the page showed then
OnUnlock(i) ==
    LET c == sent[i]
    IN  /\ Come(i, {"unlock"}) /\ Quietly /\ UNCHANGED blind
        /\ IF c.ok THEN Judged(c, c.newest /\ c.feature = desk.feature) ELSE UNCHANGED shaky
        /\ Become([desk EXCEPT !.unlocking = FALSE, !.unlocked = @ \/ c.ok], RemoveAt(sent, i))
Shown(i, m) == desk' = [desk EXCEPT !.module = m] /\ sent' = RemoveAt(sent, i)
OnLibrary(i) ==
    LET c == sent[i]  m == desk.module
    IN  /\ Come(i, {"book", "stats"}) /\ Quietly /\ UNCHANGED ghosts
        /\ Shown(i, IF c.kind = "stats" THEN [m EXCEPT !.busy = FALSE, !.value = IF c.ok THEN c.number ELSE @]
                    ELSE [m EXCEPT !.value = IF c.ok THEN @ + 1 ELSE @])
OnPrices(i) ==
    LET c == sent[i]
    IN  /\ Come(i, {"prices"}) /\ Quietly /\ UNCHANGED <<blind, wanted, spoiled>>
        /\ Judged(c, c.ok /\ c.newest /\ c.at = today)
        /\ Shown(i, IF c.ok THEN [desk.module EXCEPT !.price = c.number] ELSE desk.module)
\* the portfolio of the trading page, the insights of the wealth page
OnWorth(i) ==
    LET c == sent[i]
    IN  /\ Come(i, {"portfolio", "insights"}) /\ Quietly /\ UNCHANGED <<blind, wanted, spoiled>>
        /\ Judged(c, c.ok /\ c.newest)
        /\ Shown(i, [desk.module EXCEPT !.busy = FALSE, !.value = IF c.ok THEN c.number ELSE @])
\* mutant: a rebalance does not read the insights again
AfterTrade(kind) == IF kind = "trade" THEN <<"portfolio">> ELSE <<>>
After(kind) == IF kind = "trade" THEN <<"portfolio">> ELSE <<"insights">>
OnOrder(i) ==
    LET c == sent[i]
    IN  /\ Come(i, {"trade", "rebalance"}) /\ Quietly /\ UNCHANGED ghosts
        /\ desk' = [desk EXCEPT !.module.working = FALSE]
        /\ sent' = Post(RemoveAt(sent, i), IF c.ok THEN After(c.kind) ELSE <<>>, {})
OnSearch(i) ==
    LET c == sent[i]
    IN  /\ Come(i, {"search"}) /\ Quietly /\ UNCHANGED <<blind, wanted, spoiled>>
        /\ Judged(c, c.ok /\ c.newest)
        /\ Shown(i, [desk.module EXCEPT !.results = IF c.ok THEN c.value ELSE @])
OnPayees(i) ==
    LET c == sent[i]
    IN  /\ Come(i, {"payees"}) /\ Quietly /\ UNCHANGED ghosts
        /\ Shown(i, [desk.module EXCEPT !.busy = FALSE, !.existing = IF c.ok THEN c.value ELSE @])
\* mutant: the list survives its payment
KeptList(m, ok) == m.selected
ListAfter(m, ok) == IF ok THEN {} ELSE m.selected
OnPayroll(i) ==
    LET c == sent[i]
    IN  /\ Come(i, {"pay"}) /\ Quietly /\ UNCHANGED ghosts
        /\ Shown(i, [desk.module EXCEPT !.working = FALSE, !.selected = ListAfter(desk.module, c.ok)])
Answered(i) == \/ OnStatus(i) \/ OnUnlock(i) \/ OnLibrary(i) \/ OnPrices(i) \/ OnWorth(i) \/ OnOrder(i)
               \/ OnSearch(i) \/ OnPayees(i) \/ OnPayroll(i)

Presses == \/ (\E f \in Features : Goto(f)) \/ Unlock \/ AccessBook \/ Trade \/ Rebalance
           \/ (\E q \in DOMAIN Found \cup {Short} : Type(q))
           \/ (\E p \in People : PutOn(p) \/ TakeOff(p)) \/ PayAll
Runs == \/ TimerFires \/ ReadPrices \/ \E i \in DOMAIN sent : Handled(i) \/ Answered(i)
DeskNext == \/ Presses \/ Runs \/ DeskTick \/ OthersRead
            \/ (\E i \in DOMAIN sent : QueryFails(i) \/ ServiceFails(i) \/ AnswerLost(i))
            \/ \E f \in Features : Lapse(f)
DeskSpec == DeskInit /\ [][DeskNext]_deskVars /\ WF_deskVars(Runs)

(* ---- properties ---- *)
\* A licence is paid once, although the page keeps what it knew of the last feature until the
\* answer for this one comes: only a click before it knows can buy a licence that is held.
LicenceIsPaidOnce == \A f \in Features : fees[f] > 1 => f \in blind

\* Whoever is put on the payroll list is paid once or still on it, whatever fails: only who joins
\* or leaves while a batch is being paid, or whose batch's answer is lost, can be dropped or
\* paid again.
PayrollPaysTheList ==
    Batches(sent) = {} => \A p \in People \ spoiled :
        wanted[p] = paid[p] + IF p \in desk.module.selected THEN 1 ELSE 0

\* A desk at rest shows what is stored: the licence of its feature, the holdings after every
\* trade and rebalance, what was found for the words in the box, and prices no older than a
\* period and the cache's time; an answer that was overtaken, lost or failed is excepted.
QuietDeskIsCurrent ==
    LET m == desk.module
    IN  (sent = <<>> /\ ~ m.timer) =>
          /\ "licence" \in shaky \/ desk.unlocked = (desk.feature \in licensed)
          /\ (\E f \in {"crypto-trading", "wealth-management-pro"} : Shows(f)) /\ "worth" \notin shaky =>
                m.value = worth
          /\ Shows("bulk-payroll-processing") /\ "results" \notin shaky =>
                m.results = IF m.box = Short THEN {} ELSE Found[m.box]
          /\ m.price \in Nat /\ "price" \notin shaky => today - m.price <= CacheTime - 1 + Period

\* The desk stops loading, unlocking and working, whatever fails on the way.
DeskWaits == desk.loading \/ desk.unlocking \/ desk.module.busy \/ desk.module.working
DeskSettles == DeskWaits ~> ~ DeskWaits
===============================================================================
