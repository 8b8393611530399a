----------------------------- MODULE MCOnlineBanking -----------------------------
(* A browser at NexaBank that is at the customer's pages, at the pro features or    *)
(* at the loan pages; the three share no state here, so two of them stay as they     *)
(* are.                                                                               *)
(*                                                                                     *)
(* The pages: one customer and one who may register, a shop to pay, and two tabs       *)
(* of one browser.  The first rests on the payees of the customer and acts up to        *)
(* three times, with up to two calls in flight when it does; the second starts at        *)
(* the login page and acts once.  Forms may name an account of another IFSC.              *)
(*                                                                                         *)
(* The pro features: a customer who holds two licences and not the others, two people      *)
(* to pay and two searches that find them, and time enough for two refreshes.                *)
(*                                                                                             *)
(* The loans: an application of Ravi's and one of Asha's, who has no account yet, with two      *)
(* forms, an administrator who decides twice, two who decide at once, or all a little.            *)
EXTENDS OnlineBanking, ProDesk, LoanDesk
CONSTANTS shop, t1, t2, ana, raj, asha, ravi, admin, boss
VARIABLE view
TheForms == {[payee |-> shop, name |-> "Asha", good |-> g] : g \in BOOLEAN}
TheFlights == t1 :> 2 @@ t2 :> 1
TheOps == t1 :> 3 @@ t2 :> 1

TheFound == [an |-> {ana}, ra |-> {raj}]
TheHeld == {{"crypto-trading", "bulk-payroll-processing"}}
TheLinks == ("crypto-trading" :> {"wealth-management-pro"}) @@ ("wealth-management-pro" :> {"crypto-trading"})
            @@ ("ai-insights" :> {"bulk-payroll-processing"}) @@ ("bulk-payroll-processing" :> {"ai-insights"})
TheActs == [f \in Features |-> CASE f = "crypto-trading" -> 2 [] f = "wealth-management-pro" -> 2 [] OTHER -> 4]

TheWaiting == <<ravi, asha>>
Budget(customer, first, second, mishaps) ==
    asha :> customer @@ admin :> first @@ boss :> second @@ Mishaps :> mishaps
TheBudgets == {Budget(7, 0, 0, 0), Budget(6, 0, 0, 1), Budget(5, 1, 0, 0), Budget(1, 2, 0, 1), Budget(0, 4, 0, 1), Budget(0, 2, 2, 0)}

DeskClosed ==
    /\ today = 0 /\ cache = Nothing /\ licensed = {} /\ worth = 0 /\ sent = <<>>
    /\ fees = [f \in Features |-> 0] /\ paid = [p \in People |-> 0] /\ wanted = paid
    /\ desk = [feature |-> "ai-insights", loading |-> FALSE, unlocked |-> FALSE, unlocking |-> FALSE, module |-> NoModule]
    /\ shaky = {} /\ blind = {} /\ spoiled = {} /\ deskActs = 0 /\ deskFaults = 0
LoansClosed == LoanInit /\ left = Budget(1, 2, 0, 1)
BrowserInit == \/ view = "pages" /\ Init /\ DeskClosed /\ LoansClosed
               \/ view = "pro" /\ Init /\ DeskInit /\ LoansClosed
               \/ view = "loans" /\ Init /\ DeskClosed /\ LoanInit
BrowserNext == /\ UNCHANGED view
               /\ \/ view = "pages" /\ Next /\ UNCHANGED <<deskVars, loanVars>>
                  \/ view = "pro" /\ DeskNext /\ UNCHANGED <<vars, loanVars>>
                  \/ view = "loans" /\ LoanNext /\ UNCHANGED <<vars, deskVars>>
BrowserSpec == /\ BrowserInit /\ [][BrowserNext]_<<view, vars, deskVars, loanVars>>
               /\ WF_vars(view = "pages" /\ Serving) /\ WF_deskVars(view = "pro" /\ Runs)
               /\ WF_loanVars(view = "loans" /\ Turns)

\* What is pressed twice or tried again is done once: a payee is added once, a licence is paid
\* once, a payroll list is paid once, a form makes one application and a loan is paid out
\* once, save in the races and losses each of them names.
NothingIsDoneTwice == UnracedPayeesAreOnce /\ LicenceIsPaidOnce /\ PayrollPaysTheList /\ LoansAreMadeOnce

\* A page, a pro feature or a list of loans at rest shows what is stored, after every sequence
\* of visits, writes, trades, searches, decisions and refreshes, save what it cannot know.
QuietScreenIsCurrent == QuietPageIsCurrent /\ QuietDeskIsCurrent /\ QuietListsAreCurrent

\* What belongs to two customers stays apart: the profile that is read for one is not saved for
\* another, and a loan reaches the account of its own customer, save where the tabs or the
\* dialogs opened before have mixed them.
CustomersStayApart == ProfilesStayApart /\ LoansStayApart

\* Every page, pro feature and list ends its skeleton or its spinner, whatever fails on the way.
ScreensSettle ==
    \A t \in Tabs : LET waits == CASE view = "pages" -> TabWaits(t)
                                   [] view = "pro" -> DeskWaits
                                   [] view = "loans" -> LoanWaits
                    IN waits ~> ~ waits
=============================================================================
