----------------------------- MODULE SimulationRun -----------------------------
(* One slow-mode run of POST /events/simulate against the bank: the guards of  *)
(* the request, the pool that walks the customers, the rows runUser writes for *)
(* each of them, the payee pass and the answer. Every await is a step that may *)
(* fail, before or after the database took the row. What the run remembers of  *)
(* a balance it keeps in memory and writes once, at the end of the customer.   *)
(* The events are Journey's subject; money is in hundreds.                     *)
EXTENDS Integers, FiniteSets, Sequences

CONSTANTS
    Count,        \* how many customers the run walks, 1 to 100
    Workers,      \* SIM_CONCURRENCY of them
    Draws,        \* how much the days drawn for each customer hold
    Salary,       \* the first salary, and every later one
    ReusedBalance, \* what an existing account holds
    Spends,       \* the amounts of payments
    LoanAmount,   \* the amount of a loan
    LicenceFee, SpendAbove, LicenceAbove, TransferAbove,   \* 2000, 1000, 5000 and 5000 in the code
    TransferAmounts,   \* the amounts of payee transfers, 1000 to 5999
    MinPairing,   \* finished customers the payee pass needs, 3 in the code
    MaxFaults,    \* bound: awaits that fail
    MaxOutside,   \* bound: real transfers into the accounts during the run
    Nobody, Ended

Users == 1..Count
ASSUME RunAssumption ==
    /\ Count \in Nat \ {0} /\ IsFiniteSet(Workers) /\ Workers # {}
    /\ Draws \in [Users -> Nat]
    /\ {Salary, ReusedBalance, LoanAmount, LicenceFee, SpendAbove, LicenceAbove, TransferAbove,
        MinPairing, MaxFaults, MaxOutside} \subseteq Nat
    /\ Spends \subseteq Nat /\ TransferAmounts \subseteq Nat /\ Nobody \notin Users /\ Ended \notin Users /\ Nobody # Ended

VARIABLES
    request,   \* where the request is, or its answer
    creates,   \* createAccounts
    nextUser,  \* the counter the workers share
    worker,    \* the customer each worker runs, Nobody between two, or Ended
    stage,     \* the await each customer is at
    cash,      \* currentBalance, in memory
    accountBalance,   \* Account.balance
    booked,    \* what the successful rows of the Transaction table add up to
    draws,     \* what is left of the days drawn
    kyc,       \* kycState, in memory; the customer's row follows it
    apps,      \* [pending, approved]: the customer's loan applications
    loans,     \* the customer's Loan rows
    licensed,  \* isPro
    finished,  \* createdUsers
    skipped,   \* the customers skippedUsers counts
    pair,      \* the payee pass: its step, the shuffled customers so far, the amount
    torn,      \* ghost: customers a caught failure left with rows and no money moved
    faults, outside
runVars == <<request, creates, nextUser, worker, stage, cash, accountBalance, booked, draws, kyc, apps, loans,
          licensed, finished, skipped, pair, torn, faults, outside>>
bank == <<accountBalance, booked, apps, loans>>
memory == <<cash, draws, kyc, licensed>>
pool == <<request, creates, pair, torn, outside>>

NoPair == [step |-> "none", path |-> <<>>, amount |-> 0]
RunInit ==
    /\ request = "new" /\ creates \in BOOLEAN /\ nextUser = 1
    /\ worker = [w \in Workers |-> Nobody] /\ stage = [u \in Users |-> "waiting"]
    /\ cash = [u \in Users |-> 0] /\ accountBalance = [u \in Users |-> IF creates THEN 0 ELSE ReusedBalance]
    /\ booked = accountBalance /\ draws = Draws
    /\ kyc = [u \in Users |-> "NOT_STARTED"] /\ licensed = {}
    /\ apps = [u \in Users |-> [pending |-> 0, approved |-> 0]] /\ loans = [u \in Users |-> 0]
    /\ finished = <<>> /\ skipped = {} /\ pair = NoPair /\ torn = {}
    /\ faults = 0 /\ outside = 0

\* the guards before the first customer: tenant, branches, existing customers
Refuse == /\ request = "new" /\ request' = "refused"
          /\ UNCHANGED <<creates, nextUser, worker, stage, cash, accountBalance, booked, draws, kyc, apps, loans,
                         licensed, finished, skipped, pair, torn, faults, outside>>
\* fast mode: the pipeline seeds the warehouse, and its answer is passed on
Fast == /\ request = "new" /\ request' \in {"seeded", "seed_conflict", "seed_failed"}
        /\ UNCHANGED <<creates, nextUser, worker, stage, cash, accountBalance, booked, draws, kyc, apps, loans,
                       licensed, finished, skipped, pair, torn, faults, outside>>
Start == /\ request = "new" /\ request' = "running"
         /\ UNCHANGED <<creates, nextUser, worker, stage, cash, accountBalance, booked, draws, kyc, apps, loans,
                        licensed, finished, skipped, pair, torn, faults, outside>>

\* a worker takes the next customer, or ends when there is none
Take(w) ==
    /\ request = "running" /\ worker[w] = Nobody
    /\ worker' = [worker EXCEPT ![w] = IF nextUser > Count THEN Ended ELSE nextUser]
    /\ nextUser' = IF nextUser > Count THEN nextUser ELSE nextUser + 1
    /\ stage' = IF nextUser > Count THEN stage ELSE [stage EXCEPT ![nextUser] = "customer"]
    /\ UNCHANGED <<request, creates, bank, memory, finished, skipped, pair, torn, faults, outside>>

\* mutant: the pool does not catch what a customer throws, and the worker is lost
LeaveHanging(u) == skipped' = skipped \cup {u} /\ worker' = worker
\* a customer that fails is counted, and its worker goes on
LeaveSkipped(u) ==
    /\ skipped' = skipped \cup {u}
    /\ worker' = [w \in Workers |-> IF worker[w] = u THEN Nobody ELSE worker[w]]
\* an await of customer u: it succeeds, or it throws although the row was written
Await(u, here, next) ==
    /\ stage[u] = here
    /\ \/ stage' = [stage EXCEPT ![u] = next] /\ UNCHANGED <<faults, skipped, worker>>
       \/ /\ faults < MaxFaults /\ faults' = faults + 1
          /\ stage' = [stage EXCEPT ![u] = "skipped"] /\ LeaveSkipped(u)
    /\ UNCHANGED <<request, creates, nextUser, finished, pair, torn, outside>>
\* it throws and nothing was written: a duplicate customer, a lost connection
Throw(u) ==
    /\ stage[u] \notin {"waiting", "done", "skipped", "unlock", "flush"} /\ faults < MaxFaults /\ faults' = faults + 1
    /\ stage' = [stage EXCEPT ![u] = "skipped"] /\ LeaveSkipped(u)
    /\ UNCHANGED <<request, creates, nextUser, bank, memory, finished, pair, torn, outside>>

(* ---- what runUser writes ---- *)
Book(u, amount) == booked' = [booked EXCEPT ![u] = @ + amount]
Hold(u, amount) == cash' = [cash EXCEPT ![u] = @ + amount]
Draw(u) == draws[u] > 0 /\ draws' = [draws EXCEPT ![u] = @ - 1]

\* the customer's row and account: new ones, or the bank's own without any write
CreateCustomer(u) == creates /\ Await(u, "customer", "account") /\ UNCHANGED <<bank, memory>>
OpenAccount(u) == Await(u, "account", "salary") /\ UNCHANGED <<bank, memory>>
Reuse(u) ==
    /\ ~ creates /\ stage[u] = "customer" /\ stage' = [stage EXCEPT ![u] = "salary"]
    /\ UNCHANGED <<pool, bank, memory, worker, nextUser, finished, skipped, faults>>
\* the first salary; the balance in memory starts from it
FirstSalary(u) ==
    /\ Await(u, "salary", "issue") /\ Book(u, Salary) /\ cash' = [cash EXCEPT ![u] = Salary]
    /\ UNCHANGED <<accountBalance, apps, loans, draws, kyc, licensed>>
\* cards, the welcome notification, campaign interactions and the location
Issue(u) == Await(u, "issue", "days") /\ UNCHANGED <<bank, memory>>
PayDay(u) ==
    /\ Await(u, "days", "days") /\ Draw(u) /\ Book(u, Salary) /\ Hold(u, Salary)
    /\ UNCHANGED <<accountBalance, apps, loans, kyc, licensed>>
\* mutant: a failed payment takes the money all the same
SpendAnyway(u, amount) ==
    /\ cash[u] > SpendAbove /\ amount * 10 <= cash[u] * 3
    /\ Await(u, "days", "days") /\ Draw(u)
    /\ \E success \in BOOLEAN : Book(u, IF success THEN 0 - amount ELSE 0) /\ Hold(u, 0 - amount)
    /\ UNCHANGED <<accountBalance, apps, loans, kyc, licensed>>
\* a purchase: the row is FAILED or SUCCESS, and only a success is taken from the balance
Spend(u, amount) ==
    /\ cash[u] > SpendAbove /\ amount * 10 <= cash[u] * 3
    /\ Await(u, "days", "days") /\ Draw(u)
    /\ \E taken \in {0, amount} : Book(u, 0 - taken) /\ Hold(u, 0 - taken)
    /\ UNCHANGED <<accountBalance, apps, loans, kyc, licensed>>
\* deposit flight, at most 45 percent of the balance, and cash withdrawals below 30
Withdraw(u, amount) ==
    /\ cash[u] > LicenceAbove /\ amount * 100 <= cash[u] * 45
    /\ Await(u, "days", "days") /\ Draw(u) /\ Book(u, 0 - amount) /\ Hold(u, 0 - amount)
    /\ UNCHANGED <<accountBalance, apps, loans, kyc, licensed>>
\* KYC starts, and is verified or rejected
Kyc(u) ==
    /\ kyc[u] \in {"NOT_STARTED", "PENDING"} /\ Await(u, "days", "days") /\ Draw(u)
    /\ \E k \in IF kyc[u] = "PENDING" THEN {"VERIFIED", "REJECTED"} ELSE {"PENDING"} :
           kyc' = [kyc EXCEPT ![u] = k]
    /\ UNCHANGED <<bank, cash, licensed>>
\* an application, PENDING or KYC_PENDING; a PENDING one may go on to its approval
ApplyForLoan(u) ==
    /\ kyc[u] = "VERIFIED" /\ Draw(u)
    /\ \/ Await(u, "days", "approve") /\ apps' = [apps EXCEPT ![u].pending = @ + 1]
       \/ Await(u, "days", "days") /\ apps' = [apps EXCEPT ![u].pending = @ + 1]
       \/ Await(u, "days", "days") /\ apps' = apps
    /\ UNCHANGED <<accountBalance, booked, loans, cash, kyc, licensed>>
\* updateMany: every PENDING application of the customer is approved
Approve(u) ==
    /\ Await(u, "approve", "loan")
    /\ apps' = [apps EXCEPT ![u] = [pending |-> 0, approved |-> @.approved + @.pending]]
    /\ UNCHANGED <<accountBalance, booked, loans, memory>>
Grant(u) == /\ Await(u, "loan", "disburse") /\ loans' = [loans EXCEPT ![u] = @ + 1]
            /\ UNCHANGED <<accountBalance, booked, apps, memory>>
Disburse(u) == /\ Await(u, "disburse", "days") /\ Book(u, LoanAmount) /\ Hold(u, LoanAmount)
               /\ UNCHANGED <<accountBalance, apps, loans, draws, kyc, licensed>>
\* the licence row, then its fee; whatever throws here is taken for "licence exists"
License(u) ==
    /\ u \notin licensed /\ cash[u] > LicenceAbove /\ stage[u] = "days" /\ Draw(u)
    /\ \E next \in {"unlock", "days"} : stage' = [stage EXCEPT ![u] = next]
    /\ UNCHANGED <<pool, worker, nextUser, finished, skipped, faults, bank, cash, kyc, licensed>>
Unlock(u) ==
    /\ stage[u] = "unlock" /\ stage' = [stage EXCEPT ![u] = "days"]
    /\ \/ Book(u, 0 - LicenceFee) /\ Hold(u, 0 - LicenceFee) /\ licensed' = licensed \cup {u}
          /\ UNCHANGED <<faults, torn>>
       \/ /\ faults < MaxFaults /\ faults' = faults + 1
          /\ \/ Book(u, 0 - LicenceFee) /\ torn' = torn \cup {u}
             \/ booked' = booked /\ torn' = torn
          /\ UNCHANGED <<cash, licensed>>
    /\ UNCHANGED <<request, creates, nextUser, worker, accountBalance, apps, loans, draws, kyc, finished, skipped,
                   pair, outside>>
EndDays(u) == /\ stage[u] = "days" /\ stage' = [stage EXCEPT ![u] = "settle"]
              /\ UNCHANGED <<pool, bank, memory, worker, nextUser, finished, skipped, faults>>
\* one balance write per customer: what the run holds in memory
Settle(u) ==
    /\ stage[u] = "settle" /\ accountBalance' = [accountBalance EXCEPT ![u] = cash[u]]
    /\ \/ /\ stage' = [stage EXCEPT ![u] = "flush"] /\ finished' = Append(finished, u)
          /\ UNCHANGED <<faults, skipped, worker>>
       \/ /\ faults < MaxFaults /\ faults' = faults + 1 /\ finished' = finished
          /\ stage' = [stage EXCEPT ![u] = "skipped"] /\ LeaveSkipped(u)
    /\ UNCHANGED <<request, creates, nextUser, booked, apps, loans, memory, pair, torn, outside>>
\* the events go out in one batch, which swallows its failures, and the worker is free
Flush(u) ==
    /\ stage[u] = "flush" /\ stage' = [stage EXCEPT ![u] = "done"]
    /\ worker' = [w \in Workers |-> IF worker[w] = u THEN Nobody ELSE worker[w]]
    /\ UNCHANGED <<pool, bank, memory, nextUser, finished, skipped, faults>>

(* ---- the payee pass ---- *)
Payer == pair.path[Len(pair.path) - 1]
Payee == pair.path[Len(pair.path)]
Walking == UNCHANGED <<creates, nextUser, worker, stage, draws, kyc, licensed, apps, loans, finished, skipped,
                       outside>>
Caught == faults < MaxFaults /\ faults' = faults + 1
PairCount == IF Len(finished) < MinPairing THEN 0 ELSE (Len(finished) * 2) \div 5
PairsDone == IF pair.path = <<>> THEN 0 ELSE Len(pair.path) - 1
Finished == {finished[i] : i \in DOMAIN finished}
\* the next pair of neighbours of the shuffled customers, or the answer
NextPair ==
    /\ request = "running" /\ pair.step = "none" /\ \A w \in Workers : worker[w] = Ended
    /\ IF PairsDone = PairCount
       THEN pair' = [pair EXCEPT !.step = "answer"]
       ELSE \E p \in IF pair.path = <<>> THEN {<<u, v>> : u \in Finished, v \in Finished}
                     ELSE {Append(pair.path, v) : v \in Finished} :
               /\ \A i, j \in DOMAIN p : p[i] = p[j] => i = j
               /\ pair' = [step |-> "payee", path |-> p, amount |-> 0]
    /\ Walking /\ UNCHANGED <<request, cash, accountBalance, booked, torn, faults>>
AddPayee ==
    /\ pair.step = "payee"
    /\ \/ pair' = [pair EXCEPT !.step = "none"] /\ ((faults' = faults) \/ Caught)
       \/ /\ cash[Payer] > TransferAbove /\ faults' = faults
          /\ \E n \in TransferAmounts : pair' = [pair EXCEPT !.step = "row", !.amount = n]
    /\ Walking /\ UNCHANGED <<request, cash, accountBalance, booked, torn>>
BothBooked == [booked EXCEPT ![Payer] = @ - pair.amount, ![Payee] = @ + pair.amount]
TransferRow ==
    /\ pair.step = "row"
    /\ \/ pair' = [pair EXCEPT !.step = "debit"] /\ booked' = BothBooked /\ UNCHANGED <<torn, faults>>
       \/ /\ Caught /\ pair' = [pair EXCEPT !.step = "none"]
          /\ \/ booked' = BothBooked /\ torn' = torn \cup {Payer, Payee}
             \/ booked' = booked /\ torn' = torn
    /\ Walking /\ UNCHANGED <<request, cash, accountBalance>>
\* the two balances move in two statements of their own, with no transaction around them
Move(here, next, u, amount) ==
    /\ pair.step = here
    /\ \/ /\ accountBalance' = [accountBalance EXCEPT ![u] = @ + amount] /\ pair' = [pair EXCEPT !.step = next]
          /\ UNCHANGED <<torn, faults>>
       \/ /\ Caught /\ accountBalance' \in {accountBalance, [accountBalance EXCEPT ![u] = @ + amount]}
          /\ pair' = [pair EXCEPT !.step = "none"] /\ torn' = torn \cup {Payer, Payee}
    /\ cash' = IF pair'.step = "none" /\ faults' = faults
               THEN [cash EXCEPT ![Payer] = @ - pair.amount, ![Payee] = @ + pair.amount] ELSE cash
    /\ Walking /\ UNCHANGED <<request, booked>>
DebitPayer == pair.step = "debit" /\ Move("debit", "credit", Payer, 0 - pair.amount)
CreditPayee == pair.step = "credit" /\ Move("credit", "none", Payee, pair.amount)
\* the answer counts the customers first, and that too may fail
AnswerRun ==
    /\ pair.step = "answer" /\ request = "running" /\ pair' = NoPair
    /\ \/ request' = "ok" /\ faults' = faults
       \/ request' = "error" /\ Caught
    /\ Walking /\ UNCHANGED <<cash, accountBalance, booked, torn>>

\* a real transfer into an existing customer's account while the run goes on
Outside(u) ==
    /\ ~ creates /\ request = "running" /\ outside < MaxOutside /\ outside' = outside + 1
    /\ accountBalance' = [accountBalance EXCEPT ![u] = @ + 1] /\ Book(u, 1)
    /\ UNCHANGED <<request, creates, nextUser, worker, stage, memory, apps, loans, finished, skipped, pair,
                   torn, faults>>

Days(u) == \/ PayDay(u) \/ (\E n \in Spends : Spend(u, n) \/ Withdraw(u, n)) \/ Kyc(u) \/ ApplyForLoan(u)
           \/ Approve(u) \/ Grant(u) \/ Disburse(u) \/ License(u) \/ Unlock(u) \/ EndDays(u)
RunUser(u) == \/ CreateCustomer(u) \/ OpenAccount(u) \/ Reuse(u) \/ FirstSalary(u) \/ Issue(u)
              \/ Days(u) \/ Settle(u) \/ Flush(u) \/ Throw(u)
Handler == \/ Refuse \/ Fast \/ Start \/ (\E w \in Workers : Take(w)) \/ (\E u \in Users : RunUser(u))
           \/ NextPair \/ AddPayee \/ TransferRow \/ DebitPayer \/ CreditPayee \/ AnswerRun
RunNext == Handler \/ \E u \in Users : Outside(u)
\* every await of the handler settles
RunSpec == RunInit /\ [][RunNext]_runVars /\ WF_runVars(Handler)

(* ---- properties ---- *)
RunTypes ==
    /\ request \in {"new", "running", "refused", "seeded", "seed_conflict", "seed_failed", "ok", "error"}
    /\ nextUser \in 1..(Count + 1) /\ worker \in [Workers -> Users \cup {Nobody, Ended}]
    /\ cash \in [Users -> Int] /\ accountBalance \in [Users -> Int] /\ booked \in [Users -> Int]
    /\ draws \in [Users -> Nat] /\ loans \in [Users -> Nat]
    /\ skipped \subseteq Users /\ licensed \subseteq Users /\ torn \subseteq Users

\* What a payee transfer in progress has booked and not yet moved.
Due(u) == CASE pair.step = "debit" /\ u = Payer -> 0 - pair.amount
            [] pair.step \in {"debit", "credit"} /\ u = Payee -> pair.amount
            [] OTHER -> 0
\* Once a new customer's balance is written, the successful rows of the Transaction
\* table add up to it, although it was never read: only a failure the run swallows,
\* after the row and before the money, can break that.
BooksExplainNewAccounts ==
    creates => \A u \in Finished \ torn : accountBalance[u] + Due(u) = booked[u]

\* The pool walks every customer once: no two workers share one, a finished or skipped
\* one is not counted twice, and the answer is given when none is left.
EveryUserIsAccounted ==
    /\ \A v, w \in Workers : v # w /\ worker[v] \in Users => worker[v] # worker[w]
    /\ \A i, j \in DOMAIN finished : i # j => finished[i] # finished[j]
    /\ Finished \cap skipped = {}
    /\ request \in {"ok", "error"} => Finished \cup skipped = Users

\* Every request is answered: whatever customers fail, the pool runs dry.
EveryRunIsAnswered == <>(request \notin {"new", "running"})

\* "An approved application must become a real Loan and a real credit": after a run that
\* met no failure, a customer has a loan for every application the run approved.
ApprovedIsLent ==
    request = "ok" /\ faults = 0 => \A u \in Users : loans[u] = apps[u].approved

===============================================================================
