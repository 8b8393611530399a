------------------------------- MODULE LoanDesk -------------------------------
(* Loan applications between two kinds of pages: the loans page of one customer, *)
(* with its three-step form, and the loan administration of each administrator,   *)
(* with its list, its review dialog and the questions its rows ask in toasts.      *)
(* Answers come back in any order.  A decision is checked in one statement and      *)
(* made in another.  What a disbursal does to a balance is BankLedger's subject.     *)
EXTENDS Integers, Sequences, FiniteSets, SequencesExt

CONSTANTS
    Admins, Applicant,    \* the pages: one of each administrator, one of a customer
    Clients,              \* the customers, the applicant one of them
    Banked,               \* those with an active account; it is named by its customer
    Waiting,              \* the customers with an application from before
    Nobody,
    Budgets, Mishaps,     \* bound: how often each page is acted upon and how much goes wrong, in one of these ways
    MaxForms              \* bound: forms opened
ASSUME LoanAssumption ==
    /\ Applicant \in Clients \ Admins /\ Banked \subseteq Clients /\ Waiting \in Seq(Clients)
    /\ Nobody \notin Clients /\ MaxForms \in Nat /\ IsFiniteSet(Admins)
    /\ Mishaps \notin Admins \cup {Applicant} /\ Budgets \subseteq [Admins \cup {Applicant, Mishaps} -> Nat]

VARIABLES
    apps,      \* the LoanApplication rows: client, the form it came from, whole, state
    lent,      \* the disbursals: application, account, administrator
    hall,      \* the customer's page
    bench,     \* the administrators' pages
    toasts,    \* the questions on their screens, with the account each closure holds
    mail,      \* the requests in flight
    opened,    \* forms opened so far
    dim,       \* ghost: pages whose list cannot be known to be current
    doubled,     \* ghost: applications with two decisions under way at once
    unsure,    \* ghost: forms whose answer was lost
    hurried,   \* ghost: forms of which a step was used while it left the screen
    met,       \* ghost: whose accounts each administrator's page asked for
    left       \* what is left of the budget
loanRows == <<apps, lent>>
marks == <<dim, doubled, unsure, met>>
loanVars == <<loanRows, hall, bench, toasts, mail, opened, marks, hurried, left>>

Pages == Admins \cup {Applicant}
\* what a page lists: every application, or the customer's own
Listed(page) == LET all == IF page = Applicant THEN {i \in DOMAIN apps : apps[i].client = Applicant} ELSE DOMAIN apps
                IN  [i \in all |-> apps[i].state]
ListReads == {"first", "list"}
\* step is the form's state; shown is the step on the screen, which stays, as it was last
\* rendered, until its exit has been played; passes is what that rendering checks
NoForm == [no |-> 0, step |-> 0, shown |-> 0, passes |-> TRUE, good |-> FALSE, filled |-> FALSE, busy |-> FALSE]
Letter(from, kind, app, to) ==
    [from |-> from, kind |-> kind, app |-> app, to |-> to, form |-> NoForm, stage |-> "sent", ok |-> FALSE,
     list |-> <<>>, newest |-> TRUE]
\* ghost: a list that is asked for again overtakes the one before
Posted(letters, new) ==
    [k \in DOMAIN letters |-> [letters[k] EXCEPT !.newest =
        @ /\ ~ (new.kind \in ListReads /\ letters[k].kind \in ListReads /\ letters[k].from = new.from)]] \o <<new>>

\* a page that will not be acted upon is not opened
LoanInit ==
    /\ left \in Budgets
    /\ apps = [i \in DOMAIN Waiting |-> [client |-> Waiting[i], form |-> 0, whole |-> TRUE, state |-> "PENDING"]]
    /\ lent = <<>>
    /\ LET there == {p \in Pages : left[p] > 0}  order == SetToSeq(there)
       IN  /\ hall = [loading |-> Applicant \in there, fetching |-> Applicant \in there, list |-> <<>>, open |-> FALSE,
                      form |-> NoForm]
           /\ bench = [a \in Admins |-> [loading |-> a \in there, list |-> <<>>, open |-> FALSE, app |-> 0, state |-> "",
                                         target |-> Nobody, busy |-> 0]]
           /\ mail = [k \in DOMAIN order |->
                         Letter(order[k], IF order[k] = Applicant THEN "first" ELSE "list", 0, Nobody)]
           /\ dim = Pages \ there
    /\ toasts = {} /\ opened = 0
    /\ doubled = {} /\ unsure = {} /\ hurried = {} /\ met = [a \in Admins |-> {}]

(* ---- the customer's page ---- *)
Spends(page) == left[page] > 0 /\ left' = [left EXCEPT ![page] = @ - 1]
Busied(page) == Spends(page) /\ UNCHANGED <<loanRows, marks>>
Visits == Busied(Applicant) /\ ~ hall.loading /\ UNCHANGED <<bench, toasts>>
\* a form keeps its own state: one that is opened again starts afresh
ApplyNow ==
    /\ Visits /\ hall.form = NoForm /\ opened < MaxForms /\ opened' = opened + 1
    /\ hall' = [hall EXCEPT !.open = TRUE,
                          !.form = [NoForm EXCEPT !.no = opened + 1, !.step = 1, !.shown = 1, !.good = TRUE]]
    /\ UNCHANGED <<mail, hurried>>
CloseForm == /\ Visits /\ hall.open /\ hall' = [hall EXCEPT !.open = FALSE]
             /\ UNCHANGED <<mail, opened, hurried>>
\* the animations end: of a dialog that closes, of a step that gives way to the next
FadeOut == /\ ~ hall.open /\ hall.form # NoForm /\ hall' = [hall EXCEPT !.form = NoForm]
           /\ UNCHANGED <<loanRows, marks, bench, toasts, mail, opened, hurried, left>>
Leaving(f) == f.shown # f.step
ShowStep == /\ hall.open /\ Leaving(hall.form) /\ hall' = [hall EXCEPT !.form.shown = hall.form.step, !.form.passes = TRUE]
            /\ UNCHANGED <<loanRows, marks, bench, toasts, mail, opened, hurried, left>>
\* what is on the screen can be used to the end of its exit
Uses(steps) == /\ Visits /\ hall.form.shown \in steps /\ UNCHANGED opened
               /\ hurried' = IF Leaving(hall.form) \/ ~ hall.open THEN hurried \cup {hall.form.no} ELSE hurried
\* a step that leaves checks what it was last rendered with
Checked(f) == IF Leaving(f) THEN f.passes ELSE IF f.shown = 1 THEN f.good ELSE f.filled
Moved(f, by) == [f EXCEPT !.step = @ + by, !.passes = Checked(f)]
\* an amount on the first step, the customer's details on the second
Edit ==
    /\ Uses({1, 2}) /\ UNCHANGED mail
    /\ hall' = IF hall.form.shown = 1 THEN [hall EXCEPT !.form.good = ~ @] ELSE [hall EXCEPT !.form.filled = ~ @]
NextStep ==
    /\ Uses({1, 2}) /\ Checked(hall.form) /\ hall' = [hall EXCEPT !.form = Moved(@, 1)] /\ UNCHANGED mail
\* the buttons of the last step are disabled while a request runs, unless they are leaving
Enabled3(f) == f.shown = 3 => Leaving(f) \/ ~ f.busy
PrevStep ==
    /\ Uses({2, 3}) /\ Enabled3(hall.form) /\ hall' = [hall EXCEPT !.form = Moved(@, -1)] /\ UNCHANGED mail
SubmitForm ==
    /\ Uses({3}) /\ Enabled3(hall.form)
    /\ hall' = [hall EXCEPT !.form.busy = TRUE]
    /\ mail' = Posted(mail, [Letter(Applicant, "apply", 0, Nobody) EXCEPT
                                !.form = [NoForm EXCEPT !.no = hall.form.no, !.good = hall.form.good,
                                                        !.filled = hall.form.filled]])
Renew ==
    /\ Visits /\ ~ hall.fetching /\ hall' = [hall EXCEPT !.fetching = TRUE]
    /\ mail' = Posted(mail, Letter(Applicant, "list", 0, Nobody)) /\ UNCHANGED <<opened, hurried>>

(* ---- the administrators' pages ---- *)
Reviews(a) == Busied(a) /\ UNCHANGED <<hall, opened, hurried>>
\* the row of a list that is there, when no dialog covers it
Row(a, i) == ~ bench[a].loading /\ ~ bench[a].open /\ i \in DOMAIN bench[a].list
RefreshList(a) ==
    /\ Reviews(a) /\ ~ bench[a].open /\ bench' = [bench EXCEPT ![a].loading = TRUE]
    /\ mail' = Posted(mail, Letter(a, "list", 0, Nobody)) /\ UNCHANGED toasts
\* the dialog keeps the row it was opened on, and asks for its customer's accounts
OpenDetails(a, i) ==
    /\ Spends(a) /\ Row(a, i)
    /\ bench' = [bench EXCEPT ![a].open = TRUE, ![a].app = i, ![a].state = bench[a].list[i]]
    /\ mail' = Posted(mail, Letter(a, "details", i, Nobody)) /\ met' = [met EXCEPT ![a] = @ \cup {apps[i].client}]
    /\ UNCHANGED <<loanRows, hall, toasts, opened, dim, doubled, unsure, hurried>>
CloseDetails(a) == /\ Reviews(a) /\ bench[a].open /\ bench' = [bench EXCEPT ![a].open = FALSE]
                   /\ UNCHANGED <<mail, toasts>>
\* a toast holds what the page knew when it was asked
Ask(a, i, deed) ==
    /\ Reviews(a) /\ Row(a, i) /\ bench[a].list[i] = "PENDING"
    /\ toasts' = toasts \cup {[by |-> a, app |-> i, deed |-> deed, target |-> bench[a].target]}
    /\ UNCHANGED <<bench, mail>>
\* handleAction: an account is looked for only when none is known
FirstCall(t) == IF t.deed = "approve" /\ t.target = Nobody THEN "find" ELSE t.deed
Perform(t) ==
    /\ bench' = [bench EXCEPT ![t.by].busy = t.app]
    /\ mail' = Posted(mail, Letter(t.by, FirstCall(t), t.app, t.target))
Confirm(t) ==
    /\ t \in toasts /\ Reviews(t.by) /\ ~ bench[t.by].open
    /\ Perform(t) /\ toasts' = toasts \ {t}
Decide(a, deed) ==
    LET b == bench[a]
    IN  /\ Reviews(a) /\ b.open /\ b.state = "PENDING" /\ b.busy = 0 /\ (deed = "approve" => b.target # Nobody)
        /\ Perform([by |-> a, app |-> b.app, deed |-> deed, target |-> b.target]) /\ UNCHANGED toasts

(* ---- the handlers ---- *)
Asks(k, kinds) == k \in DOMAIN mail /\ mail[k].stage = "sent" /\ mail[k].kind \in kinds
Server == UNCHANGED <<hall, bench, toasts, opened, unsure, hurried, met, left>>
Filled(l, ok) == [l EXCEPT !.stage = "done", !.ok = ok]
\* ghost: a list that was read before a change is old
OldLists == [k \in DOMAIN mail |-> [mail[k] EXCEPT !.newest = @ /\ ~ (mail[k].kind \in ListReads /\ mail[k].stage = "done")]]
ServeList(k) ==
    /\ Asks(k, ListReads) /\ mail' = [mail EXCEPT ![k] = [Filled(@, TRUE) EXCEPT !.list = Listed(mail[k].from)]]
    /\ Server /\ UNCHANGED <<loanRows, dim, doubled>>
ServeAccounts(k) ==
    LET l == mail[k]
        owner == IF l.kind = "accounts" THEN Applicant ELSE apps[l.app].client
    IN  /\ Asks(k, {"accounts", "details", "find"})
        /\ mail' = [mail EXCEPT ![k] = [Filled(l, TRUE) EXCEPT !.to = IF owner \in Banked THEN owner ELSE Nobody]]
        /\ Server /\ UNCHANGED <<loanRows, dim, doubled>>
ServeApply(k) ==
    LET f == mail[k].form
    IN  /\ Asks(k, {"apply"})
        /\ apps' = Append(apps, [client |-> Applicant, form |-> f.no, whole |-> f.good /\ f.filled, state |-> "PENDING"])
        /\ mail' = [OldLists EXCEPT ![k] = Filled(@, TRUE)] /\ dim' = dim \cup Admins
        /\ Server /\ UNCHANGED <<lent, doubled>>
\* an amount that is out of range may be none at all: 400
RefuseApply(k) ==
    /\ Asks(k, {"apply"}) /\ ~ mail[k].form.good /\ mail' = [mail EXCEPT ![k] = Filled(@, FALSE)]
    /\ Server /\ UNCHANGED <<loanRows, dim, doubled>>
CheckDeed(k) ==
    LET l == mail[k]
    IN  /\ Asks(k, {"approve", "reject"})
        /\ mail' = [mail EXCEPT ![k] = IF apps[l.app].state = "PENDING" THEN [l EXCEPT !.stage = "checked"]
                                                                       ELSE Filled(l, FALSE)]
        /\ Server /\ UNCHANGED <<loanRows, dim, doubled>>
\* the row is written whatever it is by now; the money goes where the request says
DoDeed(k) ==
    LET l == mail[k]
    IN  /\ k \in DOMAIN mail /\ l.stage = "checked"
        /\ apps' = [apps EXCEPT ![l.app].state = IF l.kind = "approve" THEN "APPROVED" ELSE "REJECTED"]
        /\ lent' = IF l.kind = "approve" THEN Append(lent, [app |-> l.app, to |-> l.to, by |-> l.from]) ELSE lent
        /\ mail' = [OldLists EXCEPT ![k] = Filled(l, TRUE)]
        /\ dim' = dim \cup (Admins \ {l.from}) \cup {p \in {Applicant} : apps[l.app].client = p}
        /\ doubled' = IF \E j \in DOMAIN mail \ {k} : mail[j].stage = "checked" /\ mail[j].app = l.app
                    THEN doubled \cup {l.app} ELSE doubled
        /\ Server
Works(k) == ServeList(k) \/ ServeAccounts(k) \/ ServeApply(k) \/ RefuseApply(k) \/ CheckDeed(k) \/ DoDeed(k)

Hurt == Spends(Mishaps) /\ UNCHANGED <<loanRows, hall, bench, toasts, opened, doubled, hurried, met>>
\* a query fails: 500, and nothing of the request was written
FailQuery(k) ==
    /\ Hurt /\ k \in DOMAIN mail /\ mail[k].stage \in {"sent", "checked"}
    /\ mail' = [mail EXCEPT ![k] = Filled(@, FALSE)] /\ UNCHANGED <<dim, unsure>>
LoseReply(k) ==
    LET l == mail[k]
    IN  /\ Hurt /\ k \in DOMAIN mail /\ l.stage = "done" /\ l.ok
        /\ mail' = [mail EXCEPT ![k].ok = FALSE]
        /\ dim' = IF l.kind \in {"apply", "approve", "reject"} THEN dim \cup {l.from} ELSE dim
        /\ unsure' = IF l.kind = "apply" THEN unsure \cup {l.form.no} ELSE unsure

(* ---- the answers ---- *)
Comes(k, kinds) == k \in DOMAIN mail /\ mail[k].stage = "done" /\ mail[k].kind \in kinds
Taking == UNCHANGED <<loanRows, toasts, opened, doubled, unsure, hurried, met, left>>
Remaining(k) == RemoveAt(mail, k)
JudgedBy(l) == dim' = IF l.ok /\ l.newest THEN dim \ {l.from} ELSE dim \cup {l.from}
\* the first load reads the applications and then the accounts
OnFirst(k) ==
    LET l == mail[k]
        h == [hall EXCEPT !.list = IF l.ok THEN l.list ELSE @]
    IN  /\ Comes(k, {"first"}) /\ Taking /\ JudgedBy(l) /\ UNCHANGED bench
        /\ IF l.ok THEN hall' = h /\ mail' = Posted(Remaining(k), Letter(Applicant, "accounts", 0, Nobody))
                   ELSE hall' = [h EXCEPT !.loading = FALSE, !.fetching = FALSE] /\ mail' = Remaining(k)
OnAccounts(k) ==
    /\ Comes(k, {"accounts"}) /\ Taking /\ UNCHANGED <<bench, dim>>
    /\ hall' = [hall EXCEPT !.loading = FALSE, !.fetching = FALSE] /\ mail' = Remaining(k)
OnList(k) ==
    LET l == mail[k]
    IN  /\ Comes(k, {"list"}) /\ Taking /\ JudgedBy(l) /\ mail' = Remaining(k)
        /\ IF l.from = Applicant
           THEN /\ hall' = [hall EXCEPT !.fetching = FALSE, !.list = IF l.ok THEN l.list ELSE @] /\ UNCHANGED bench
           ELSE /\ bench' = [bench EXCEPT ![l.from].loading = FALSE, ![l.from].list = IF l.ok THEN l.list ELSE @]
                /\ UNCHANGED hall
\* whichever form is open by then is closed, and the button is there again while it fades
OnApply(k) ==
    LET l == mail[k]
        h == IF hall.form.no = l.form.no THEN [hall EXCEPT !.form.busy = FALSE] ELSE hall
    IN  /\ Comes(k, {"apply"}) /\ Taking /\ UNCHANGED <<bench, dim>>
        /\ IF l.ok THEN /\ hall' = [h EXCEPT !.open = FALSE, !.fetching = TRUE]
                        /\ mail' = Posted(Remaining(k), Letter(Applicant, "list", 0, Nobody))
                   ELSE hall' = h /\ mail' = Remaining(k)
\* whichever application is shown by then
OnDetails(k) ==
    LET l == mail[k]
    IN  /\ Comes(k, {"details"}) /\ Taking /\ UNCHANGED <<hall, dim>> /\ mail' = Remaining(k)
        /\ bench' = IF l.ok /\ l.to # Nobody THEN [bench EXCEPT ![l.from].target = l.to] ELSE bench
\* mutant: a return without its finally
EndIfAnswered(l) == IF l.ok /\ l.to = Nobody THEN l.app ELSE 0
EndOfAction(l) == 0
OnFind(k) ==
    LET l == mail[k]
    IN  /\ Comes(k, {"find"}) /\ Taking /\ UNCHANGED <<hall, dim>>
        /\ IF l.ok /\ l.to # Nobody
           THEN mail' = Posted(Remaining(k), Letter(l.from, "approve", l.app, l.to)) /\ UNCHANGED bench
           ELSE mail' = Remaining(k) /\ bench' = [bench EXCEPT ![l.from].busy = EndOfAction(l)]
OnDecided(k) ==
    LET l == mail[k]
    IN  /\ Comes(k, {"approve", "reject"}) /\ Taking /\ UNCHANGED <<hall, dim>>
        /\ IF l.ok THEN /\ bench' = [bench EXCEPT ![l.from].open = FALSE, ![l.from].loading = TRUE, ![l.from].busy = 0]
                        /\ mail' = Posted(Remaining(k), Letter(l.from, "list", 0, Nobody))
                   ELSE bench' = [bench EXCEPT ![l.from].busy = 0] /\ mail' = Remaining(k)
Answers(k) == OnFirst(k) \/ OnAccounts(k) \/ OnList(k) \/ OnApply(k) \/ OnDetails(k) \/ OnFind(k) \/ OnDecided(k)

Reviewing(a) == \/ RefreshList(a) \/ CloseDetails(a)
                \/ \E i \in DOMAIN apps : OpenDetails(a, i) \/ \E deed \in {"approve", "reject"} : Ask(a, i, deed)
                \/ \E deed \in {"approve", "reject"} : Decide(a, deed)
Turns == \E k \in DOMAIN mail : Works(k) \/ Answers(k)
LoanNext == \/ ApplyNow \/ CloseForm \/ FadeOut \/ ShowStep \/ Edit \/ NextStep \/ PrevStep \/ SubmitForm \/ Renew
            \/ (\E a \in Admins : Reviewing(a)) \/ (\E t \in toasts : Confirm(t))
            \/ Turns \/ \E k \in DOMAIN mail : FailQuery(k) \/ LoseReply(k)
LoanSpec == LoanInit /\ [][LoanNext]_loanVars /\ WF_loanVars(Turns)

(* ---- properties ---- *)
\* One form makes one application, and a whole one, however often its steps are walked, its dialog
\* closed and reopened and its button pressed, unless its answer was lost or a step of it was used
\* while it left the screen; and a loan is paid once, to an application that is approved, unless
\* two decisions were under way at once.
LoansAreMadeOnce ==
    /\ \A i \in DOMAIN apps : apps[i].whole \/ apps[i].form \in hurried
    /\ \A f \in 1 .. opened \ (unsure \cup hurried) : Cardinality({i \in DOMAIN apps : apps[i].form = f}) <= 1
    /\ \A i \in DOMAIN apps \ doubled :
          Cardinality({n \in DOMAIN lent : lent[n].app = i}) = IF apps[i].state = "APPROVED" THEN 1 ELSE 0

\* "Please fill in all details to proceed" (ApplyLoanForm.tsx:76): no application is sent without
\* an amount in range and the details of the second step. A step that leaves the screen keeps its
\* button, which checks that step again and moves the form on from whichever step it is at.
ApplicationsAreWhole == \A i \in DOMAIN apps : apps[i].whole

\* A loan goes to its own customer's account. It does not: the page keeps the account of the
\* dialog that was opened last, for every later approval, so the property is about a page
\* that has asked for one customer only.
LoansStayApart ==
    \A n \in DOMAIN lent : met[lent[n].by] \subseteq {apps[lent[n].app].client} => lent[n].to = apps[lent[n].app].client

\* "Fetch the customer's first account to pre-fill target account for disbursal"
\* (admin/loans/page.tsx:106): what is disbursed for an application reaches its customer.
LoansReachTheirCustomer == \A n \in DOMAIN lent : lent[n].to = apps[lent[n].app].client

\* A list at rest says what is stored, the applicant's after a form, an administrator's after a
\* decision, unless somebody else changed it since, or its last reading was overtaken or failed.
QuietListsAreCurrent ==
    \A p \in Pages \ dim : (\A k \in DOMAIN mail : mail[k].from # p) =>
        Listed(p) = IF p = Applicant THEN hall.list ELSE bench[p].list

\* Every list stops loading, every form and every decision ends.
LoanWaits == hall.loading \/ hall.fetching \/ hall.form.busy \/ \E a \in Admins : bench[a].loading \/ bench[a].busy # 0
LoansSettle == LoanWaits ~> ~ LoanWaits
===============================================================================
