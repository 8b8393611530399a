----------------------------- MODULE BankLedger -----------------------------
(* The money of NexaBank: the Express handlers that move balances, and the  *)
(* loan applications that pay out, over one PostgreSQL database.            *)
(* A request reads and checks, then runs its writes in one transaction. The *)
(* transaction updates its rows in order, holding each row's lock until it  *)
(* commits (READ COMMITTED, the default Prisma leaves in place), so checks  *)
(* and writes of different requests interleave. JSON columns are modelled   *)
(* by the set of requests whose change they still reflect.                  *)
EXTENDS Integers, FiniteSets, Sequences, FiniteSetsExt, Functions, SequencesExt

CONSTANTS
    Requests,   \* the requests served, each once
    Accounts,   \* the customers' accounts
    Owner,      \* the customer of each account
    Opening,    \* the balance each account starts with
    Apps,       \* loan applications
    Principal,  \* the amount an approved application pays out
    Amounts,    \* the amounts requests ask for
    PayLists,   \* the payee lists of payroll requests
    Fee,        \* the price of a licence, 2000 in the code
    Values,     \* what a portfolio that is not empty may be worth
    Licensed,   \* the customers who hold the payroll and rebalance licences at the start
    Kinds,      \* the handlers that are called
    NoRequest   \* no transaction holds the row

ASSUME LedgerAssumption ==
    /\ IsFiniteSet(Requests) /\ IsFiniteSet(Accounts) /\ IsFiniteSet(Apps)
    /\ Accounts # {} /\ Apps # {} /\ Accounts \cap Apps = {}
    /\ Opening \in [Accounts -> Nat] /\ DOMAIN Owner = Accounts
    /\ Principal \in [Apps -> Nat \ {0}] /\ Amounts \subseteq Nat \ {0}
    /\ PayLists \subseteq Seq(Accounts) \ {<<>>}
    /\ Fee \in Nat /\ Values \subseteq Nat /\ Licensed \subseteq Range(Owner)
    /\ Kinds \subseteq {"post", "self", "payee", "unlock", "payroll", "trade", "rebalance",
                        "approve", "reject", "kyc"}
    /\ NoRequest \notin Requests /\ "bank" \notin Accounts

VARIABLES
    balance,    \* Account.balance, committed
    document,   \* Account.investment and LoanApplication.kycData: the requests they reflect
    status,     \* LoanApplication.status, "none" before it is submitted
    licences,   \* the customers with an active licence
    book,       \* the Transaction table
    lock,       \* the transaction that holds each row's lock
    pc,         \* where each request is
    ask,        \* what it asks for
    seen,       \* what it read before it wrote
    locked,     \* how many of its rows its transaction has updated
    answer,     \* what its caller was told
    raced       \* ghost: a row it had read was changed before it committed
vars == <<balance, document, status, licences, book, lock, pc, ask, seen, locked, answer, raced>>

Rows == Accounts \cup Apps
Handlers == {"post", "self", "payee", "unlock", "payroll", "trade", "rebalance",
             "approve", "reject", "kyc"}
\* what a request may ask for; a field its handler does not have holds a fixed value
Question(kind, type, from, to, amount, app) ==
    [kind |-> kind, type |-> type, from |-> from, to |-> to, amount |-> amount, app |-> app]
SomeAccount == CHOOSE a \in Accounts : TRUE
SomeApp == CHOOSE p \in Apps : TRUE
\* one account of each customer, for handlers that are given the customer
Faces == {CHOOSE x \in Accounts : Owner[x] = customer : customer \in Range(Owner)}
TransferQuestions(kind, types) ==
    {Question(kind, t, a, <<b>>, n, SomeApp) :
        t \in types, a \in Accounts, b \in Accounts, n \in Amounts}
Transfers ==
    {q \in TransferQuestions("post", {"TRANSFER", "PAYMENT", "WITHDRAWAL"}) : q.to # <<q.from>>}
    \cup TransferQuestions("self", {"TRANSFER"})
    \cup TransferQuestions("payee", {"PAYMENT"})
ProRequests ==
    {Question("unlock", "PRO_LICENSE_FEE", a, <<>>, Fee, SomeApp) : a \in Faces}
    \cup {Question("payroll", "PAYMENT", a, to, n, SomeApp) :
             a \in Faces, to \in PayLists, n \in Amounts}
    \cup {Question("trade", side, a, <<>>, n, SomeApp) :
             side \in {"BUY", "SELL"}, a \in Faces, n \in Amounts}
    \cup {Question("rebalance", "PAYMENT", a, <<>>, 0, SomeApp) : a \in Faces}
LoanRequests ==
    {Question("approve", "TRANSFER", SomeAccount, <<a>>, Principal[p], p) :
        a \in Accounts, p \in Apps}
    \cup {Question(k, "none", SomeAccount, <<>>, 0, p) : k \in {"reject", "kyc"}, p \in Apps}
Questions == {q \in Transfers \cup ProRequests \cup LoanRequests : q.kind \in Kinds}

\* the account or application a request read
Subject(r) == IF ask[r].kind \in {"approve", "reject", "kyc"} THEN ask[r].app ELSE seen[r].account
\* mutant: a batch takes one payee's amount
DebitOnce(q) == q.amount
\* what the request takes from the account it read
Debit(q) == IF q.kind = "payroll" THEN q.amount * Len(q.to) ELSE q.amount
\* the handlers compare the balance with the debit, but a posted PAYMENT is never compared
IsChecked(q) == \/ q.kind \in {"self", "payee", "unlock", "payroll"}
                \/ q.kind = "post" /\ q.type = "TRANSFER"
                \/ q.kind = "trade" /\ q.type = "BUY"
\* mutant: the check asks for any money at all
CoversSomething(cash, q) == IsChecked(q) => cash > 0
Covers(cash, q) == IsChecked(q) => cash >= Debit(q)

\* the account a handler works on: the one named, or the customer's richest one
Candidates(q) ==
    LET own == {a \in Accounts : Owner[a] = Owner[q.from]}
    IN  CASE q.kind \in {"unlock", "payroll", "trade"} ->
               {a \in own : \A b \in own : balance[b] <= balance[a]}
          [] q.kind = "rebalance" -> own
          [] OTHER -> {q.from}

\* the early returns that answer 4xx before anything is written
Refused(q, a) ==
    \/ ~ Covers(balance[a], q)
    \/ q.kind = "self" /\ Owner[a] # Owner[q.to[1]]
    \/ q.kind \in {"payroll", "rebalance"} /\ Owner[a] \notin licences
    \/ q.kind = "trade" /\ q.type = "SELL" /\ document[a] = {}
    \/ q.kind \in {"approve", "reject"} /\ status[q.app] # "PENDING"
    \/ q.kind = "kyc" /\ status[q.app] = "none"

\* the holdings may be fewer than a SELL asks for; how many there are is not modelled
SellsTooMuch(q) == q.kind = "trade" /\ q.type = "SELL"

\* the rows the transaction updates, in the order of its statements
Updates(r) ==
    LET q == ask[r]
    IN  CASE q.kind \in {"self", "payee", "payroll"} -> <<seen[r].account>> \o q.to
          [] q.kind = "post" ->
               IF q.type \in {"TRANSFER", "PAYMENT"} THEN <<q.from>> \o q.to ELSE <<>>
          [] q.kind \in {"unlock", "trade", "rebalance"} -> <<seen[r].account>>
          [] q.kind = "approve" -> <<q.app>> \o q.to
          [] OTHER -> <<q.app>>

\* what the increments and decrements of the transaction add up to for account a
Change(r, a) ==
    LET q == ask[r]
        paid == Cardinality({i \in DOMAIN q.to : q.to[i] = a}) * q.amount
        taken == IF a = seen[r].account THEN Debit(q) ELSE 0
    IN  CASE q.kind = "post" -> IF q.type \in {"TRANSFER", "PAYMENT"} THEN paid - taken ELSE 0
          [] q.kind \in {"self", "payee", "payroll", "unlock"} -> paid - taken
          [] q.kind = "trade" -> IF q.type = "BUY" THEN - taken ELSE taken
          [] q.kind = "approve" -> paid
          [] OTHER -> 0
\* Math.round(15% of cash and investments), computed from what was read
CashReserve(r) == (15 * (seen[r].cash + seen[r].value) + 50) \div 100
BalanceAfter(r) ==
    [a \in Accounts |-> IF ask[r].kind = "rebalance" /\ a = seen[r].account
                        THEN CashReserve(r) ELSE balance[a] + Change(r, a)]

\* the JSON column is written as it was read with the request's own change
DocumentAfter(r) ==
    CASE ask[r].kind \in {"trade", "kyc"} -> [document EXCEPT ![Subject(r)] = seen[r].document \cup {r}]
      [] ask[r].kind = "rebalance" -> [document EXCEPT ![Subject(r)] = {r}]
      [] OTHER -> document

\* the Transaction rows created; system accounts are "bank"
Entry(r, i, from, to, amount, category) ==
    [by |-> r, no |-> i, from |-> from, to |-> to, amount |-> amount, category |-> category,
     moves |-> ask[r].type # "WITHDRAWAL", app |-> ask[r].app]
Abs(n) == IF n < 0 THEN - n ELSE n
Entries(r) ==
    LET q == ask[r]  a == seen[r].account
    IN  CASE q.kind \in {"post", "self", "payee", "payroll"} ->
               {Entry(r, i, a, q.to[i], q.amount, q.kind) : i \in DOMAIN q.to}
          [] q.kind = "unlock" -> {Entry(r, 1, a, "bank", Fee, "Service Fee")}
          [] q.kind = "trade" ->
               {IF q.type = "BUY" THEN Entry(r, 1, a, "bank", q.amount, "Crypto Trade")
                                  ELSE Entry(r, 1, "bank", a, q.amount, "Crypto Trade")}
          [] q.kind = "rebalance" ->
               {Entry(r, 1, a, "bank", Abs(seen[r].cash - CashReserve(r)), "Portfolio Rebalance")}
          [] q.kind = "approve" -> {Entry(r, 1, "bank", q.to[1], q.amount, "LOAN_DISBURSAL")}
          [] OTHER -> {}
\* mutant: the transaction forgets the application
StatusAfterForgotten(r) ==
    IF ask[r].kind = "reject" THEN [status EXCEPT ![ask[r].app] = "REJECTED"] ELSE status
StatusAfter(r) ==
    CASE ask[r].kind = "approve" -> [status EXCEPT ![ask[r].app] = "APPROVED"]
      [] ask[r].kind = "reject" -> [status EXCEPT ![ask[r].app] = "REJECTED"]
      [] OTHER -> status

-----------------------------------------------------------------------------
NothingSeen == [account |-> SomeAccount, cash |-> 0, document |-> {}, value |-> 0]

Init ==
    /\ balance = Opening
    /\ document = [row \in Rows |-> {}]
    /\ status = [p \in Apps |-> "none"]
    /\ licences = Licensed
    /\ book = {}
    /\ lock = [row \in Rows |-> NoRequest]
    /\ pc = [r \in Requests |-> "idle"]
    /\ ask = [r \in Requests |-> Question("kyc", "none", SomeAccount, <<>>, 0, SomeApp)]
    /\ seen = [r \in Requests |-> NothingSeen]
    /\ locked = [r \in Requests |-> 0]
    /\ answer = [r \in Requests |-> "none"]
    /\ raced = [r \in Requests |-> FALSE]

\* POST /loans/apply: one insert
Apply(p) ==
    /\ status[p] = "none"
    /\ status' = [status EXCEPT ![p] = "PENDING"]
    /\ UNCHANGED <<balance, document, licences, book, lock, pc, ask, seen, locked, answer, raced>>

\* a request arrives at its handler
Arrive(r) ==
    /\ pc[r] = "idle"
    /\ \E q \in Questions : ask' = [ask EXCEPT ![r] = q]
    /\ pc' = [pc EXCEPT ![r] = "read"]
    /\ UNCHANGED <<balance, document, status, licences, book, lock, seen, locked, answer, raced>>

Answer(r, a) ==
    /\ pc' = [pc EXCEPT ![r] = "done"]
    /\ answer' = [answer EXCEPT ![r] = a]

\* the handler reads, checks, and answers 4xx or goes on to write
Read(r) ==
    /\ pc[r] = "read"
    /\ \E a \in Candidates(ask[r]) :
         \/ (Refused(ask[r], a) \/ SellsTooMuch(ask[r])) /\ Answer(r, "refused") /\ UNCHANGED seen
         \/ /\ ~ Refused(ask[r], a)
            /\ \E v \in IF ask[r].kind = "rebalance" /\ document[a] # {} THEN Values ELSE {0} :
                 seen' = [seen EXCEPT ![r] =
                   [account |-> a, cash |-> balance[a], value |-> v,
                    document |-> document[IF ask[r].kind = "kyc" THEN ask[r].app ELSE a]]]
            /\ pc' = [pc EXCEPT ![r] = "write"]
            /\ UNCHANGED answer
    /\ UNCHANGED <<balance, document, status, licences, book, lock, ask, locked, raced>>

NextRow(r) == Updates(r)[locked[r] + 1]
\* the next UPDATE of the transaction gets its row's lock, or waits for it
Update(r) ==
    /\ pc[r] = "write" /\ locked[r] < Len(Updates(r))
    /\ lock[NextRow(r)] \in {NoRequest, r}
    /\ lock' = [lock EXCEPT ![NextRow(r)] = r]
    /\ locked' = [locked EXCEPT ![r] = @ + 1]
    /\ UNCHANGED <<balance, document, status, licences, book, pc, ask, seen, answer, raced>>

Unlocked(R) == [row \in Rows |-> IF lock[row] \in R THEN NoRequest ELSE lock[row]]

\* the transaction commits: all its writes at once, its locks released
Commit(r) ==
    /\ pc[r] = "write" /\ locked[r] = Len(Updates(r))
    /\ balance' = BalanceAfter(r)
    /\ document' = DocumentAfter(r)
    /\ status' = StatusAfter(r)
    /\ book' = book \cup Entries(r)
    /\ licences' = IF ask[r].kind = "unlock" THEN licences \cup {Owner[seen[r].account]} ELSE licences
    /\ lock' = Unlocked({r})
    /\ pc' = [pc EXCEPT ![r] = "tell"]
    /\ raced' = [s \in Requests |-> raced[s] \/ (s # r /\ pc[s] = "write" /\ Subject(s) \in Range(Updates(r)))]
    /\ UNCHANGED <<ask, seen, locked, answer>>

\* the database ends the transaction: an error, Prisma's timeout, a deadlock's victim
Abort(r) ==
    /\ pc[r] = "write"
    /\ lock' = Unlocked({r})
    /\ Answer(r, "error")
    /\ UNCHANGED <<balance, document, status, licences, book, ask, seen, locked, raced>>

\* mutant: a failure to track the event reaches the handler's catch
TellThrows(r) ==
    /\ pc[r] = "tell"
    /\ Answer(r, "ok") \/ Answer(r, "error")
    /\ UNCHANGED <<balance, document, status, licences, book, lock, ask, seen, locked, raced>>
\* mutant: a rejection is recorded and never answered
TellNotRejections(r) ==
    /\ pc[r] = "tell" /\ ask[r].kind # "reject"
    /\ Answer(r, "ok")
    /\ UNCHANGED <<balance, document, status, licences, book, lock, ask, seen, locked, raced>>
\* the analytics event is tracked, which never throws, and the caller is answered; a
\* rejection and a KYC update read the customer first, and that read may fail
Tell(r) ==
    /\ pc[r] = "tell"
    /\ \/ Answer(r, "ok")
       \/ ask[r].kind \in {"reject", "kyc"} /\ Answer(r, "error")
    /\ UNCHANGED <<balance, document, status, licences, book, lock, ask, seen, locked, raced>>

\* the process dies: what it was serving is never answered, open transactions roll back
Crash ==
    LET alive == {r \in Requests : pc[r] \in {"read", "write", "tell"}}
    IN  /\ alive # {}
        /\ pc' = [r \in Requests |-> IF r \in alive THEN "lost" ELSE pc[r]]
        /\ lock' = Unlocked(alive)
        /\ UNCHANGED <<balance, document, status, licences, book, ask, seen, locked, answer, raced>>

Next ==
    \/ \E p \in Apps : Apply(p)
    \/ \E r \in Requests : Arrive(r) \/ Read(r) \/ Update(r) \/ Commit(r) \/ Abort(r) \/ Tell(r)
    \/ Crash

Spec == Init /\ [][Next]_vars

\* r is on a cycle of transactions that wait for each other's rows
WaitsFor(r, s) ==
    /\ pc[r] = "write" /\ locked[r] < Len(Updates(r))
    /\ r # s /\ lock[NextRow(r)] = s
Deadlocked(r) ==
    \E W \in SUBSET Requests :
        /\ r \in W
        /\ \A s \in W : (\E t \in W : WaitsFor(s, t)) /\ (\E t \in W : WaitsFor(t, s))
\* PostgreSQL's deadlock detector picks a victim
Break(r) == Deadlocked(r) /\ Abort(r)

Fairness ==
    \A r \in Requests : WF_vars(Read(r)) /\ WF_vars(Update(r)) /\ WF_vars(Commit(r))
                        /\ WF_vars(Tell(r)) /\ WF_vars(Break(r))
FairSpec == Spec /\ Fairness

-----------------------------------------------------------------------------
(* Type invariant: the types of the tables and of the requests in flight.   *)
TypeOK ==
    /\ balance \in [Accounts -> Int]
    /\ document \in [Rows -> SUBSET Requests]
    /\ status \in [Apps -> {"none", "PENDING", "APPROVED", "REJECTED"}]
    /\ licences \subseteq Range(Owner)
    /\ \A e \in book : e.by \in Requests /\ e.amount \in Nat /\ {e.from, e.to} \subseteq Accounts \cup {"bank"}
    /\ lock \in [Rows -> Requests \cup {NoRequest}]
    /\ pc \in [Requests -> {"idle", "read", "write", "tell", "done", "lost"}]
    /\ \A r \in Requests : ask[r].kind \in Handlers /\ locked[r] \in 0..Len(Updates(r))
    /\ seen \in [Requests -> [account : Accounts, cash : Int, value : Nat, document : SUBSET Requests]]
    /\ answer \in [Requests -> {"none", "ok", "refused", "error"}]
    /\ raced \in [Requests -> BOOLEAN]

Sum(E) == MapThenSumSet(LAMBDA e : e.amount, E)
(* The Transaction table explains every balance: until a customer rebalances *)
(* a portfolio, an account holds its opening balance, plus what the rows pay *)
(* into it, less what they take out, whatever handlers ran interleaved, were *)
(* refused, aborted or died (POST /transactions, transferBetweenOwnAccounts, *)
(* payToPayee, unlockFeature, executeTrade, processPayroll, loan approval).  *)
BooksExplainBalances ==
    \A a \in Accounts :
        (\A e \in book : ~ (e.category = "Portfolio Rebalance" /\ e.from = a))
        => balance[a] = Opening[a] + Sum({e \in book : e.moves /\ e.to = a})
                                   - Sum({e \in book : e.moves /\ e.from = a})

(* Loan applications and payouts agree: one that is still open was never     *)
(* paid out, and one that stands APPROVED was (routes/loanRoutes.ts,         *)
(* /approve and /reject, also when they race).                               *)
PayoutsMatchApplications ==
    \A p \in Apps :
        LET paid == \E e \in book : e.category = "LOAN_DISBURSAL" /\ e.app = p
        IN  /\ status[p] \in {"none", "PENDING"} => ~ paid
            /\ status[p] = "APPROVED" => paid

(* A caller is told the truth: success means the money moved and is on the   *)
(* books, a refusal or an error means nothing did (every handler here; a     *)
(* rejection or a KYC update moves no money).                                *)
AnswersMatchTheBook ==
    \A r \in Requests :
        LET moved == \E e \in book : e.by = r
        IN  /\ answer[r] = "ok" /\ ask[r].kind \notin {"reject", "kyc"} => moved
            /\ answer[r] \in {"refused", "error"} => ~ moved

PaidOut(p) == {e \in book : e.category = "LOAN_DISBURSAL" /\ e.app = p}
(* A handler nobody raced does what it would do alone, although others ran    *)
(* beside it: what it checked still covers what it takes, a trade keeps the  *)
(* trades before it and a KYC step the steps before it, a rebalance books    *)
(* the cash it moves, and an application is paid out or rejected once.       *)
UnracedIsSerial ==
    [][\A r \in Requests :
        LET q == ask[r]  a == seen[r].account
        IN  pc[r] = "write" /\ pc'[r] = "tell" /\ ~ raced[r] =>
              /\ IsChecked(q) => balance'[a] >= 0
              /\ q.kind \in {"trade", "kyc"} => document'[Subject(r)] = document[Subject(r)] \cup {r}
              /\ q.kind = "rebalance" =>
                   \E e \in book' : e.by = r /\ e.amount = Abs(balance'[a] - balance[a])
              /\ q.kind = "approve" => PaidOut(q.app) = {}
              /\ q.kind = "reject" => PaidOut(q.app) = {}]_vars

(* Every request that reaches its handler is answered, unless the process    *)
(* dies: transactions that wait for each other's rows do not wait forever.   *)
EveryRequestIsAnswered ==
    \A r \in Requests : pc[r] = "read" ~> pc[r] \in {"done", "lost"}

(* What the comment in POST /transactions says of a TRANSFER: its sender's   *)
(* balance was verified inside the transaction, so it covers the transfer.   *)
TransfersAreCovered ==
    [][\A r \in Requests :
        pc[r] = "write" /\ pc'[r] = "tell" /\ ask[r].kind = "post" /\ ask[r].type = "TRANSFER"
        => balance'[ask[r].from] >= 0]_vars
=============================================================================
