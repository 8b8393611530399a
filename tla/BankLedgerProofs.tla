-------------------------- MODULE BankLedgerProofs --------------------------
(* The bank's money.                                                         *)
(* Theorems about BankLedger, for any number of requests, accounts and loan  *)
(* applications, any amounts and any choice of handlers.                     *)
(* Sum is a fold over a set: what it does for every finite set of rows is    *)
(* proved by induction over the number of rows, put as a set of numbers.     *)
(* Theorems about SimulationRun, which writes the books of many customers    *)
(* at once, for any number of customers and workers, any draws and amounts,  *)
(* and any number of failures and real transfers.                            *)
EXTENDS BankLedger, SimulationRun, WellFoundedInduction, FiniteSetTheorems, SequenceTheorems, TLAPS

Points == {"idle", "read", "write", "tell", "done", "lost"}
Statuses == {"none", "PENDING", "APPROVED", "REJECTED"}
Moneyless == {"reject", "kyc"}

\* What the proof needs of the types.
Typed ==
    /\ pc \in [Requests -> Points]
    /\ answer \in [Requests -> {"none", "ok", "refused", "error"}]
    /\ status \in [Apps -> Statuses]
    /\ DOMAIN ask = Requests
    /\ \A r \in Requests :
         /\ ask[r].kind \in Handlers
         /\ ask[r].kind \in {"post", "self", "payee", "payroll"} => 1 \in DOMAIN ask[r].to

\* A request is on the books once its transaction has committed, and not before; only a
\* finished request has an answer.
OnTheBook(r) == \E e \in book : e.by = r
Evidence ==
    \A r \in Requests :
        /\ pc[r] \in {"idle", "read", "write"} => ~ OnTheBook(r)
        /\ ask[r].kind \in Moneyless => ~ OnTheBook(r)
        /\ pc[r] = "tell" /\ ask[r].kind \notin Moneyless => OnTheBook(r)
        /\ pc[r] # "done" => answer[r] = "none"
        /\ answer[r] = "ok" /\ ask[r].kind \notin Moneyless => OnTheBook(r)
        /\ answer[r] \in {"refused", "error"} => ~ OnTheBook(r)

IInv == Typed /\ Evidence /\ PayoutsMatchApplications

-----------------------------------------------------------------------------
(* Every question names a handler, and one that pays names whom.            *)
LEMMA QuestionsAreAnswerable ==
    ASSUME NEW q \in Questions
    PROVE  /\ q.kind \in Handlers
           /\ q.kind \in {"post", "self", "payee", "payroll"} => 1 \in DOMAIN q.to
<1>1. ASSUME NEW kind, NEW type, NEW from, NEW to, NEW amount, NEW app,
             q = Question(kind, type, from, to, amount, app)
      PROVE  q.kind = kind /\ q.to = to
    BY <1>1 DEF Question
<1>2. ASSUME NEW kind, NEW types, q \in TransferQuestions(kind, types)
      PROVE  q.kind = kind /\ 1 \in DOMAIN q.to
    <2>1. PICK t \in types, a \in Accounts, b \in Accounts, n \in Amounts :
            q = Question(kind, t, a, <<b>>, n, SomeApp)
        BY <1>2 DEF TransferQuestions, Question
    <2> QED BY <2>1, <1>1
<1>3. \A to \in PayLists : 1 \in DOMAIN to
    BY LedgerAssumption
<1>4. CASE q \in Transfers
    BY <1>2, <1>4 DEF Transfers, Handlers
<1>5. CASE q \in ProRequests
    <2>1. CASE \E a \in Faces, to \in PayLists, n \in Amounts :
                 q = Question("payroll", "PAYMENT", a, to, n, SomeApp)
        BY <2>1, <1>1, <1>3 DEF Handlers
    <2>2. CASE \E kind \in {"unlock", "trade", "rebalance"} :
                 \E type, a, n : q = Question(kind, type, a, <<>>, n, SomeApp)
        BY <2>2, <1>1 DEF Handlers
    <2> QED BY <1>5, <2>1, <2>2 DEF ProRequests
<1>6. CASE q \in LoanRequests
    <2>1. CASE \E a, n, p : q = Question("approve", "TRANSFER", SomeAccount, <<a>>, n, p)
        BY <2>1, <1>1 DEF Handlers
    <2>2. CASE \E kind \in {"reject", "kyc"}, p \in Apps : q = Question(kind, "none", SomeAccount, <<>>, 0, p)
        BY <2>2, <1>1 DEF Handlers
    <2> QED BY <1>6, <2>1, <2>2 DEF LoanRequests, Question
<1> QED
    BY <1>4, <1>5, <1>6 DEF Questions

(* The rows a request books carry its name and its application, and only an  *)
(* approval books a disbursal; a handler that moves money books at least one.*)
LEMMA EntriesOfARequest ==
    ASSUME Typed, NEW r \in Requests
    PROVE  /\ \A e \in Entries(r) :
                /\ e.by = r /\ e.app = ask[r].app
                /\ e.category = "LOAN_DISBURSAL" <=> ask[r].kind = "approve"
           /\ ask[r].kind \in Moneyless => Entries(r) = {}
           /\ ask[r].kind \notin Moneyless => Entries(r) # {}
<1>1. \A i, from, to, amount, category :
        LET e == Entry(r, i, from, to, amount, category)
        IN  e.by = r /\ e.app = ask[r].app /\ e.category = category
    BY DEF Entry
<1>2. ask[r].kind \in Handlers
    BY DEF Typed
<1>3. CASE ask[r].kind \in {"post", "self", "payee", "payroll"}
    <2>1. Entries(r) = {Entry(r, i, seen[r].account, ask[r].to[i], ask[r].amount, ask[r].kind) :
                          i \in DOMAIN ask[r].to}
        BY <1>3 DEF Entries
    <2>2. 1 \in DOMAIN ask[r].to
        BY <1>3 DEF Typed
    <2> QED BY <2>1, <2>2, <1>1, <1>3 DEF Moneyless
<1>4. CASE ask[r].kind = "unlock"
    <2> DEFINE e == Entry(r, 1, seen[r].account, "bank", Fee, "Service Fee")
    <2>1. Entries(r) = {e}
        BY <1>4 DEF Entries
    <2>2. e.by = r /\ e.app = ask[r].app /\ e.category = "Service Fee"
        BY DEF Entry
    <2> HIDE DEF e
    <2> QED BY <2>1, <2>2, <1>4 DEF Moneyless
<1>5. CASE ask[r].kind = "trade"
    <2> DEFINE e == IF ask[r].type = "BUY"
                    THEN Entry(r, 1, seen[r].account, "bank", ask[r].amount, "Crypto Trade")
                    ELSE Entry(r, 1, "bank", seen[r].account, ask[r].amount, "Crypto Trade")
    <2>1. Entries(r) = {e}
        BY <1>5 DEF Entries
    <2>2. e.by = r /\ e.app = ask[r].app /\ e.category = "Crypto Trade"
        BY DEF Entry
    <2> HIDE DEF e
    <2> QED BY <2>1, <2>2, <1>5 DEF Moneyless
<1>6. CASE ask[r].kind = "rebalance"
    <2> DEFINE e == Entry(r, 1, seen[r].account, "bank", Abs(seen[r].cash - CashReserve(r)), "Portfolio Rebalance")
    <2>1. Entries(r) = {e}
        BY <1>6 DEF Entries
    <2>2. e.by = r /\ e.app = ask[r].app /\ e.category = "Portfolio Rebalance"
        BY DEF Entry
    <2> HIDE DEF e
    <2> QED BY <2>1, <2>2, <1>6 DEF Moneyless
<1>7. CASE ask[r].kind = "approve"
    <2> DEFINE e == Entry(r, 1, "bank", ask[r].to[1], ask[r].amount, "LOAN_DISBURSAL")
    <2>1. Entries(r) = {e}
        BY <1>7 DEF Entries
    <2>2. e.by = r /\ e.app = ask[r].app /\ e.category = "LOAN_DISBURSAL"
        BY DEF Entry
    <2> HIDE DEF e
    <2> QED BY <2>1, <2>2, <1>7 DEF Moneyless
<1>8. CASE ask[r].kind \in Moneyless
    <2>1. Entries(r) = {}
        BY <1>8 DEF Entries, Moneyless
    <2> QED BY <2>1, <1>8
<1> QED
    BY <1>2, <1>3, <1>4, <1>5, <1>6, <1>7, <1>8 DEF Handlers, Moneyless

(* Answering a request whose evidence supports the answer keeps the invariant. *)
LEMMA AnswerStep ==
    ASSUME IInv, NEW r \in Requests, NEW a \in {"ok", "refused", "error"},
           pc[r] # "idle", Answer(r, a), UNCHANGED <<status, book, ask>>,
           a = "ok" /\ ask[r].kind \notin Moneyless => OnTheBook(r),
           a \in {"refused", "error"} => ~ OnTheBook(r)
    PROVE  IInv'
<1> USE DEF IInv
<1>1. Typed'
    BY DEF Typed, Points, Answer
<1>2. Evidence'
    BY DEF Typed, Evidence, OnTheBook, Answer, Moneyless, Points
<1>3. PayoutsMatchApplications'
    BY DEF PayoutsMatchApplications
<1> QED BY <1>1, <1>2, <1>3

(* A commit books what its request is worth and gives the application its     *)
(* new status.                                                               *)
LEMMA CommitStep ==
    ASSUME IInv, NEW r \in Requests, Commit(r)
    PROVE  IInv'
<1> USE DEF IInv
<1>1. /\ pc[r] = "write" /\ pc' = [pc EXCEPT ![r] = "tell"]
      /\ book' = book \cup Entries(r) /\ status' = StatusAfter(r)
      /\ UNCHANGED <<ask, answer>>
    BY DEF Commit
<1>2. /\ \A e \in Entries(r) :
           /\ e.by = r /\ e.app = ask[r].app
           /\ e.category = "LOAN_DISBURSAL" <=> ask[r].kind = "approve"
      /\ ask[r].kind \in Moneyless => Entries(r) = {}
      /\ ask[r].kind \notin Moneyless => Entries(r) # {}
    BY EntriesOfARequest
<1>3. /\ ask[r].kind = "approve" => status' = [status EXCEPT ![ask[r].app] = "APPROVED"]
      /\ ask[r].kind = "reject" => status' = [status EXCEPT ![ask[r].app] = "REJECTED"]
      /\ ask[r].kind \notin {"approve", "reject"} => status' = status
    BY <1>1 DEF StatusAfter
<1>4. Typed'
    <2>1. status' \in [Apps -> Statuses]
        BY <1>3 DEF Typed, Statuses
    <2> QED BY <1>1, <2>1 DEF Typed, Points
<1>5. Evidence'
    <2> SUFFICES ASSUME NEW s \in Requests
                 PROVE  /\ pc'[s] \in {"idle", "read", "write"} => ~ OnTheBook(s)'
                        /\ ask[s].kind \in Moneyless => ~ OnTheBook(s)'
                        /\ pc'[s] = "tell" /\ ask[s].kind \notin Moneyless => OnTheBook(s)'
                        /\ pc'[s] # "done" => answer[s] = "none"
                        /\ answer[s] = "ok" /\ ask[s].kind \notin Moneyless => OnTheBook(s)'
                        /\ answer[s] \in {"refused", "error"} => ~ OnTheBook(s)'
        BY <1>1 DEF Evidence
    <2>1. CASE s = r
        <3>1. answer[r] = "none"
            BY <1>1 DEF Evidence
        <3>2. pc'[r] = "tell"
            BY <1>1 DEF Typed
        <3>3. OnTheBook(r)' <=> ask[r].kind \notin Moneyless
            BY <1>1, <1>2 DEF Evidence, OnTheBook
        <3> QED BY <2>1, <3>1, <3>2, <3>3
    <2>2. CASE s # r
        <3>1. pc'[s] = pc[s]
            BY <1>1, <2>2 DEF Typed
        <3>2. OnTheBook(s)' <=> OnTheBook(s)
            BY <1>1, <1>2, <2>2 DEF OnTheBook
        <3> QED BY <3>1, <3>2 DEF Evidence
    <2> QED BY <2>1, <2>2
<1>6. PayoutsMatchApplications'
    <2> SUFFICES ASSUME NEW p \in Apps
                 PROVE  LET paid == \E e \in book' : e.category = "LOAN_DISBURSAL" /\ e.app = p
                        IN  /\ status'[p] \in {"none", "PENDING"} => ~ paid
                            /\ status'[p] = "APPROVED" => paid
        BY DEF PayoutsMatchApplications
    <2>1. CASE ask[r].kind = "approve"
        <3>1. \E e \in Entries(r) : e.category = "LOAN_DISBURSAL" /\ e.app = ask[r].app
            BY <2>1, <1>2 DEF Moneyless
        <3>2. p = ask[r].app => status'[p] = "APPROVED"
            BY <2>1, <1>3 DEF Typed
        <3>3. p # ask[r].app => status'[p] = status[p]
            BY <2>1, <1>3 DEF Typed
        <3> QED BY <1>1, <1>2, <3>1, <3>2, <3>3 DEF PayoutsMatchApplications
    <2>2. CASE ask[r].kind # "approve"
        <3>1. (\E e \in book' : e.category = "LOAN_DISBURSAL" /\ e.app = p)
                <=> (\E e \in book : e.category = "LOAN_DISBURSAL" /\ e.app = p)
            BY <1>1, <1>2, <2>2
        <3>2. status'[p] = status[p] \/ status'[p] = "REJECTED"
            BY <1>3, <2>2 DEF Typed
        <3> QED BY <3>1, <3>2 DEF PayoutsMatchApplications
    <2> QED BY <2>1, <2>2
<1> QED BY <1>4, <1>5, <1>6

(* The bank as seeded satisfies the invariant.                              *)
LEMMA InitIInv == Init => IInv
<1> SUFFICES ASSUME Init PROVE IInv
    OBVIOUS
<1>1. \A r \in Requests : ask[r].kind = "kyc"
    BY DEF Init, Question
<1>2. Typed
    BY <1>1 DEF Init, Typed, Points, Statuses, Handlers
<1>3. Evidence
    BY DEF Init, Evidence, OnTheBook
<1>4. PayoutsMatchApplications
    BY DEF Init, PayoutsMatchApplications
<1> QED BY <1>2, <1>3, <1>4 DEF IInv

(* Every step keeps it.                                                     *)
LEMMA StepIInv == IInv /\ [Next]_vars => IInv'
<1> SUFFICES ASSUME IInv, [Next]_vars PROVE IInv'
    OBVIOUS
<1> USE DEF IInv
<1>1. ASSUME NEW p \in Apps, Apply(p) PROVE IInv'
    <2>1. Typed'
        BY <1>1 DEF Apply, Typed, Statuses
    <2>2. Evidence'
        BY <1>1 DEF Apply, Evidence, OnTheBook
    <2>3. PayoutsMatchApplications'
        BY <1>1 DEF Apply, PayoutsMatchApplications, Typed
    <2> QED BY <2>1, <2>2, <2>3
<1>2. ASSUME NEW r \in Requests, Arrive(r) PROVE IInv'
    <2>1. PICK q \in Questions : ask' = [ask EXCEPT ![r] = q]
        BY <1>2 DEF Arrive
    <2>2. /\ q.kind \in Handlers
          /\ q.kind \in {"post", "self", "payee", "payroll"} => 1 \in DOMAIN q.to
        BY QuestionsAreAnswerable
    <2>3. /\ pc[r] = "idle" /\ pc' = [pc EXCEPT ![r] = "read"]
          /\ UNCHANGED <<status, book, answer>>
        BY <1>2 DEF Arrive
    <2>4. Typed'
        BY <2>1, <2>2, <2>3 DEF Typed, Points
    <2>5. Evidence'
        BY <2>1, <2>3 DEF Typed, Evidence, OnTheBook
    <2>6. PayoutsMatchApplications'
        BY <2>3 DEF PayoutsMatchApplications
    <2> QED BY <2>4, <2>5, <2>6
<1>3. ASSUME NEW r \in Requests, Read(r) PROVE IInv'
    <2>1. pc[r] = "read" /\ UNCHANGED <<status, book, ask>>
        BY <1>3 DEF Read
    <2>2. CASE Answer(r, "refused")
        <3>1. ~ OnTheBook(r)
            BY <2>1 DEF Evidence
        <3> QED BY <2>1, <2>2, <3>1, AnswerStep
    <2>3. CASE pc' = [pc EXCEPT ![r] = "write"] /\ UNCHANGED answer
        <3>1. Typed'
            BY <2>1, <2>3 DEF Typed, Points
        <3>2. Evidence'
            BY <2>1, <2>3 DEF Typed, Evidence, OnTheBook
        <3>3. PayoutsMatchApplications'
            BY <2>1 DEF PayoutsMatchApplications
        <3> QED BY <3>1, <3>2, <3>3
    <2> QED BY <1>3, <2>2, <2>3 DEF Read
<1>4. ASSUME NEW r \in Requests, Update(r) PROVE IInv'
    <2>1. UNCHANGED <<pc, answer, status, book, ask>>
        BY <1>4 DEF Update
    <2> QED BY <2>1 DEF Typed, Evidence, OnTheBook, PayoutsMatchApplications
<1>5. ASSUME NEW r \in Requests, Commit(r) PROVE IInv'
    BY <1>5, CommitStep
<1>6. ASSUME NEW r \in Requests, Abort(r) PROVE IInv'
    <2>1. pc[r] = "write" /\ Answer(r, "error") /\ UNCHANGED <<status, book, ask>>
        BY <1>6 DEF Abort
    <2>2. ~ OnTheBook(r)
        BY <2>1 DEF Evidence
    <2> QED BY <2>1, <2>2, AnswerStep
<1>7. ASSUME NEW r \in Requests, Tell(r) PROVE IInv'
    <2>1. pc[r] = "tell" /\ UNCHANGED <<status, book, ask>>
        BY <1>7 DEF Tell
    <2>2. CASE Answer(r, "ok")
        BY <2>1, <2>2, AnswerStep DEF Evidence
    <2>3. CASE ask[r].kind \in {"reject", "kyc"} /\ Answer(r, "error")
        BY <2>1, <2>3, AnswerStep DEF Evidence, Moneyless
    <2> QED BY <1>7, <2>2, <2>3 DEF Tell
<1>8. ASSUME Crash PROVE IInv'
    <2>1. /\ \A r \in Requests : pc'[r] = pc[r] \/ (pc'[r] = "lost" /\ pc[r] \in {"read", "write", "tell"})
          /\ pc' \in [Requests -> Points]
        BY <1>8 DEF Crash, Typed, Points
    <2>2. UNCHANGED <<answer, status, book, ask>>
        BY <1>8 DEF Crash
    <2>3. Typed'
        BY <2>1, <2>2 DEF Typed
    <2>4. Evidence'
        BY <2>1, <2>2 DEF Evidence, OnTheBook
    <2>5. PayoutsMatchApplications'
        BY <2>2 DEF PayoutsMatchApplications
    <2> QED BY <2>3, <2>4, <2>5
<1>9. CASE UNCHANGED vars
    BY <1>9 DEF vars, Typed, Evidence, OnTheBook, PayoutsMatchApplications
<1> QED
    BY <1>1, <1>2, <1>3, <1>4, <1>5, <1>6, <1>7, <1>8, <1>9 DEF Next

(* The invariant behind the two results below.                              *)
THEOREM LedgerInvariant == Spec => []IInv
<1>1. Init => IInv
    BY InitIInv
<1>2. IInv /\ [Next]_vars => IInv'
    BY StepIInv
<1> QED BY <1>1, <1>2, PTL DEF Spec

(* Loan applications and payouts agree, however approvals, rejections and    *)
(* crashes interleave (routes/loanRoutes.ts).                                *)
THEOREM PayoutsAgree == Spec => []PayoutsMatchApplications
<1>1. IInv => PayoutsMatchApplications
    BY DEF IInv
<1> QED BY <1>1, LedgerInvariant, PTL

(* No handler reports success without having booked the money, nor a refusal *)
(* or an error after having booked it.                                       *)
THEOREM AnswersTrue == Spec => []AnswersMatchTheBook
<1>1. IInv => AnswersMatchTheBook
    BY DEF IInv, Evidence, OnTheBook, AnswersMatchTheBook, Moneyless
<1> QED BY <1>1, LedgerInvariant, PTL

-----------------------------------------------------------------------------
\* Every set of naturals that is not empty has a least one.
LEMMA Least ==
  ASSUME NEW S, S \subseteq Nat, S # {}
  PROVE  \E x \in S : \A y \in S : x <= y
<1>1. PICK x \in S : \A y \in S : ~ (<<y, x>> \in OpToRel(<, Nat))
  <2> DEFINE R == OpToRel(<, Nat)
  <2>1. IsWellFoundedOn(R, Nat) BY NatLessThanWellFounded
  <2> HIDE DEF R
  <2>2. \E x \in S : \A y \in S : ~ (<<y, x>> \in R) BY <2>1, WFMin
  <2> QED BY <2>2 DEF R
<1>2. \A y \in S : ~(y < x)
  BY <1>1 DEF OpToRel
<1>3. x \in Nat /\ \A y \in S : y \in Nat
  OBVIOUS
<1> QED BY <1>2, <1>3

\* Induction over the naturals, for a set instead of a predicate.
LEMMA Induct ==
  ASSUME NEW S, 0 \in S, \A n \in Nat : n \in S => n + 1 \in S
  PROVE  Nat \subseteq S
<1> SUFFICES ASSUME Nat \ S # {} PROVE FALSE OBVIOUS
<1>1. PICK x \in Nat \ S : \A y \in Nat \ S : x <= y
  BY Least
<1>2. x # 0 /\ x \in Nat
  BY <1>1
<1>3. x - 1 \in Nat /\ (x - 1) + 1 = x /\ ~ (x <= x - 1)
  BY <1>2
<1>4. x - 1 \in S
  BY <1>1, <1>3
<1> QED BY <1>1, <1>3, <1>4

One(s) == CHOOSE x \in s : TRUE
Priced(E) == \A e \in E : e.amount \in Int
\* A function that sums the amounts of every subset of E, one chosen row after another.
Adder(g, E) ==
    g = [s \in SUBSET E |-> IF s = {} THEN 0 ELSE One(s).amount + g[s \ {One(s)}]]

\* Taking a row from a finite set leaves one fewer.
LEMMA OneLess ==
    ASSUME NEW s, NEW n \in Nat, IsFiniteSet(s), Cardinality(s) <= n + 1, NEW x \in s
    PROVE  /\ IsFiniteSet(s \ {x}) /\ Cardinality(s \ {x}) <= n
<1>1. IsFiniteSet(s \ {x}) /\ Cardinality(s \ {x}) = Cardinality(s) - 1 /\ Cardinality(s) \in Nat
    BY FS_RemoveElement, FS_CardinalityType
<1> QED BY <1>1

(* What the fold over a set of rows computes is the sum of its first chosen  *)
(* row and of the rest, whatever set it is a part of.                        *)
LEMMA AdderExists ==
    ASSUME NEW E, IsFiniteSet(E)
    PROVE  \E g : Adder(g, E)
<1> DEFINE Part(n) == {s \in SUBSET E : Cardinality(s) <= n}
           Next1(g, s) == IF s = {} THEN 0 ELSE One(s).amount + g[s \ {One(s)}]
           Good == {n \in Nat : \E g : g = [s \in Part(n) |-> Next1(g, s)]}
<1>0. \A s \in SUBSET E : IsFiniteSet(s) /\ Cardinality(s) \in Nat
    BY FS_Subset, FS_CardinalityType
<1>1. 0 \in Good
    <2> DEFINE g == [s \in Part(0) |-> 0]
               h == [s \in Part(0) |-> Next1(g, s)]
    <2>1. ASSUME NEW s \in Part(0) PROVE s = {}
        <3>1. Cardinality(s) = 0
            BY <1>0
        <3> QED BY <3>1, <1>0, FS_EmptySet
    <2>2. g = h
        BY <2>1
    <2> HIDE DEF g
    <2> QED BY <2>2
<1>2. ASSUME NEW n \in Nat, n \in Good PROVE n + 1 \in Good
    <2>1. PICK g : g = [s \in Part(n) |-> Next1(g, s)]
        BY <1>2
    <2> DEFINE h == [s \in Part(n + 1) |-> Next1(g, s)]
               k == [s \in Part(n + 1) |-> Next1(h, s)]
    <2>2. ASSUME NEW s \in Part(n + 1), s # {} PROVE h[s \ {One(s)}] = g[s \ {One(s)}]
        <3> DEFINE t == s \ {One(s)}
        <3>1. One(s) \in s
            BY <2>2 DEF One
        <3>2. t \in Part(n)
            BY <3>1, <1>0, OneLess
        <3>3. t \in Part(n + 1)
            BY <3>2, <1>0
        <3>4. g[t] = Next1(g, t)
            <4> HIDE DEF t
            <4> QED BY <2>1, <3>2
        <3>5. h[t] = Next1(g, t)
            <4> HIDE DEF t
            <4> QED BY <3>3
        <3> QED BY <3>4, <3>5
    <2>3. h = k
        <3>1. ASSUME NEW s \in Part(n + 1) PROVE Next1(g, s) = Next1(h, s)
            <4> HIDE DEF h
            <4> QED BY <2>2
        <3> DEFINE PP == Part(n + 1)
        <3> HIDE DEF PP
        <3> SUFFICES [s \in PP |-> Next1(g, s)] = [s \in PP |-> Next1(h, s)]
            BY DEF PP
        <3>2. \A s \in PP : Next1(g, s) = Next1(h, s)
            BY <3>1 DEF PP
        <3> HIDE DEF Next1, h
        <3> QED BY <3>2
    <2> HIDE DEF h
    <2>4. h = [s \in Part(n + 1) |-> Next1(h, s)]
        BY <2>3
    <2>5. \E f : f = [s \in Part(n + 1) |-> Next1(f, s)]
        <3> HIDE DEF Part, Next1
        <3> QED BY <2>4
    <2>6. n + 1 \in Nat
        OBVIOUS
    <2> HIDE DEF Part, Next1
    <2> QED BY <2>5, <2>6
<1>3. Nat \subseteq Good
    <2> HIDE DEF Good
    <2> QED BY <1>1, <1>2, Induct
<1>4. Cardinality(E) \in Nat /\ Part(Cardinality(E)) = SUBSET E
    BY <1>0, FS_Subset, FS_CardinalityType
<1>5. PICK g : g = [s \in Part(Cardinality(E)) |-> Next1(g, s)]
    BY <1>3, <1>4
<1>6. g = [s \in SUBSET E |-> Next1(g, s)]
    BY <1>4, <1>5
<1> QED BY <1>6 DEF Adder

(* However the rows are chosen, the sum is that of any row and of the rest.  *)
LEMMA AnyRowFirst ==
    ASSUME NEW E, IsFiniteSet(E), Priced(E), NEW g, Adder(g, E)
    PROVE  \A s \in SUBSET E : g[s] \in Int /\ \A y \in s : g[s] = y.amount + g[s \ {y}]
<1> DEFINE Good == {n \in Nat : \A s \in SUBSET E : Cardinality(s) <= n =>
                      g[s] \in Int /\ \A y \in s : g[s] = y.amount + g[s \ {y}]}
<1>0. \A s \in SUBSET E : IsFiniteSet(s) /\ Cardinality(s) \in Nat
    BY FS_Subset, FS_CardinalityType
<1>1. 0 \in Good
    <2> SUFFICES ASSUME NEW s \in SUBSET E, Cardinality(s) <= 0
                 PROVE  g[s] \in Int /\ \A y \in s : g[s] = y.amount + g[s \ {y}]
        OBVIOUS
    <2>1. Cardinality(s) = 0
        BY <1>0
    <2>2. s = {}
        BY <2>1, <1>0, FS_EmptySet
    <2>3. g[s] = 0
        BY <2>2 DEF Adder
    <2> QED BY <2>2, <2>3
<1>2. ASSUME NEW n \in Nat, n \in Good PROVE n + 1 \in Good
    <2> SUFFICES ASSUME NEW s \in SUBSET E, Cardinality(s) <= n + 1
                 PROVE  g[s] \in Int /\ \A y \in s : g[s] = y.amount + g[s \ {y}]
        OBVIOUS
    <2>1. CASE s = {}
        BY <2>1 DEF Adder
    <2>2. CASE s # {}
        <3> DEFINE x == One(s)
        <3>1. x \in s
            BY <2>2 DEF One
        <3>2. g[s] = x.amount + g[s \ {x}]
            BY <2>2 DEF Adder
        <3> HIDE DEF x
        <3>3. \A y \in s : y.amount \in Int /\ s \ {y} \in SUBSET E /\ Cardinality(s \ {y}) <= n
            BY <1>0, OneLess DEF Priced
        <3>4. \A y \in s : g[s \ {y}] \in Int /\ \A z \in s \ {y} : g[s \ {y}] = z.amount + g[(s \ {y}) \ {z}]
            BY <1>2, <3>3
        <3>5. ASSUME NEW y \in s, y # x PROVE g[s] = y.amount + g[s \ {y}]
            <4>1. (s \ {x}) \ {y} = (s \ {y}) \ {x}
                OBVIOUS
            <4> DEFINE rest == (s \ {x}) \ {y}
            <4>2. g[s \ {x}] = y.amount + g[rest]
                BY <3>1, <3>4, <3>5
            <4>3. g[s \ {y}] = x.amount + g[rest]
                BY <3>1, <3>4, <3>5, <4>1
            <4>4. g[rest] \in Int
                <5>1. rest \in SUBSET E /\ Cardinality(rest) <= n
                    <6>1. IsFiniteSet(s \ {x}) /\ Cardinality(s \ {x}) <= n /\ y \in s \ {x}
                        BY <3>1, <3>3, <3>5, <1>0
                    <6>2. Cardinality(rest) = Cardinality(s \ {x}) - 1 /\ Cardinality(s \ {x}) \in Nat
                        BY <6>1, FS_RemoveElement, FS_CardinalityType
                    <6> QED BY <6>1, <6>2
                <5> QED BY <5>1, <1>2
            <4>5. x.amount \in Int /\ y.amount \in Int
                BY <3>1, <3>3
            <4> HIDE DEF rest
            <4>6. y.amount + g[s \ {y}] = y.amount + (x.amount + g[rest])
                BY <4>3
            <4>7. g[s] = x.amount + (y.amount + g[rest])
                BY <4>2, <3>2
            <4> QED BY <4>4, <4>5, <4>6, <4>7
        <3>6. g[s] \in Int
            <4>1. x.amount \in Int /\ g[s \ {x}] \in Int
                BY <3>1, <3>3, <3>4
            <4> QED BY <4>1, <3>2
        <3> QED BY <3>2, <3>5, <3>6
    <2> QED BY <2>1, <2>2
<1>3. Nat \subseteq Good
    <2> HIDE DEF Good
    <2> QED BY <1>1, <1>2, Induct
<1> QED BY <1>0, <1>3

(* The sum of a set does not depend on the set it is a part of.              *)
LEMMA AddersAgree ==
    ASSUME NEW E, NEW F, IsFiniteSet(E), E \subseteq F, NEW g, Adder(g, E), NEW h, Adder(h, F)
    PROVE  g[E] = h[E]
<1> DEFINE Good == {n \in Nat : \A s \in SUBSET E : Cardinality(s) <= n => g[s] = h[s]}
<1>0. \A s \in SUBSET E : IsFiniteSet(s) /\ Cardinality(s) \in Nat
    BY FS_Subset, FS_CardinalityType
<1>1. 0 \in Good
    <2> SUFFICES ASSUME NEW s \in SUBSET E, Cardinality(s) <= 0 PROVE g[s] = h[s]
        OBVIOUS
    <2>1. Cardinality(s) = 0
        BY <1>0
    <2>2. s = {}
        BY <2>1, <1>0, FS_EmptySet
    <2> QED BY <2>2 DEF Adder
<1>2. ASSUME NEW n \in Nat, n \in Good PROVE n + 1 \in Good
    <2> SUFFICES ASSUME NEW s \in SUBSET E, Cardinality(s) <= n + 1 PROVE g[s] = h[s]
        OBVIOUS
    <2>1. CASE s = {}
        BY <2>1 DEF Adder
    <2>2. CASE s # {}
        <3> DEFINE x == One(s)
        <3>1. x \in s
            BY <2>2 DEF One
        <3>2. g[s] = x.amount + g[s \ {x}] /\ h[s] = x.amount + h[s \ {x}]
            BY <2>2 DEF Adder
        <3> HIDE DEF x
        <3>3. s \ {x} \in SUBSET E /\ Cardinality(s \ {x}) <= n
            BY <1>0, <3>1, OneLess
        <3>4. g[s \ {x}] = h[s \ {x}]
            BY <1>2, <3>3
        <3> QED BY <3>2, <3>4
    <2> QED BY <2>1, <2>2
<1>3. Nat \subseteq Good
    <2> HIDE DEF Good
    <2> QED BY <1>1, <1>2, Induct
<1> QED BY <1>0, <1>3

(* Sum is what any such function gives for the whole set.                    *)
LEMMA SumUnfolds ==
    ASSUME NEW E, IsFiniteSet(E)
    PROVE  \E g : Adder(g, E) /\ Sum(E) = g[E]
<1>1. Sum(E) = (CHOOSE g : Adder(g, E))[E]
    BY DEF Sum, MapThenSumSet, MapThenFoldSet, Adder, One
<1>2. Adder(CHOOSE g : Adder(g, E), E)
    BY AdderExists
<1> QED BY <1>1, <1>2

(* No rows sum to nothing.                                                   *)
LEMMA SumOfNone == Sum({}) = 0
<1>1. PICK g : Adder(g, {}) /\ Sum({}) = g[{}]
    BY SumUnfolds, FS_EmptySet
<1> QED BY <1>1 DEF Adder

(* One more row adds its amount.                                             *)
LEMMA SumOfOneMore ==
    ASSUME NEW E, IsFiniteSet(E), NEW y, y \notin E, Priced(E \cup {y})
    PROVE  Sum(E) \in Int /\ Sum(E \cup {y}) = Sum(E) + y.amount
<1> DEFINE F == E \cup {y}
<1>1. IsFiniteSet(F) /\ E = F \ {y} /\ y \in F /\ Priced(F) /\ E \subseteq F
    BY FS_AddElement
<1> HIDE DEF F
<1>2. PICK g : Adder(g, E) /\ Sum(E) = g[E]
    BY SumUnfolds
<1>3. PICK h : Adder(h, F) /\ Sum(F) = h[F]
    BY <1>1, SumUnfolds
<1>4. g[E] = h[E]
    BY <1>1, <1>2, <1>3, AddersAgree
<1>5. \A s \in SUBSET F : h[s] \in Int /\ \A z \in s : h[s] = z.amount + h[s \ {z}]
    BY <1>1, <1>3, AnyRowFirst
<1>6. h[E] \in Int /\ h[F] = y.amount + h[E] /\ y.amount \in Int
    BY <1>1, <1>5 DEF Priced
<1>7. Sum(F) = Sum(E) + y.amount
    BY <1>2, <1>3, <1>4, <1>6
<1> QED BY <1>2, <1>4, <1>6, <1>7 DEF F

(* A batch of new rows, all of one amount, adds that amount for each.        *)
LEMMA SumOfBatch ==
    ASSUME NEW E, IsFiniteSet(E), Priced(E), NEW F, IsFiniteSet(F), E \cap F = {},
           NEW n \in Int, \A f \in F : f.amount = n
    PROVE  Sum(E) \in Int /\ Sum(E \cup F) = Sum(E) + Cardinality(F) * n
<1>0. Sum(E) \in Int
    <2>1. PICK g : Adder(g, E) /\ Sum(E) = g[E]
        BY SumUnfolds
    <2> QED BY <2>1, AnyRowFirst
<1> DEFINE Good == {k \in Nat : \A s \in SUBSET F : Cardinality(s) = k =>
                       Sum(E \cup s) = Sum(E) + k * n}
<1>1. \A s \in SUBSET F : IsFiniteSet(s) /\ Cardinality(s) \in Nat
    BY FS_Subset, FS_CardinalityType
<1>2. 0 \in Good
    <2>1. \A s \in SUBSET F : Cardinality(s) = 0 => E \cup s = E
        BY <1>1, FS_EmptySet
    <2>2. Sum(E) = Sum(E) + 0 * n
        BY <1>0
    <2> QED BY <2>1, <2>2
<1>3. ASSUME NEW k \in Nat, k \in Good PROVE k + 1 \in Good
    <2> SUFFICES ASSUME NEW s \in SUBSET F, Cardinality(s) = k + 1
                 PROVE  Sum(E \cup s) = Sum(E) + (k + 1) * n
        OBVIOUS
    <2>1. PICK y : y \in s
        <3>1. s # {}
            BY FS_EmptySet
        <3> QED BY <3>1
    <2> DEFINE t == s \ {y}
    <2>2. IsFiniteSet(t) /\ Cardinality(t) = k /\ t \in SUBSET F /\ y.amount = n
        <3>1. IsFiniteSet(s) /\ Cardinality(t) = Cardinality(s) - 1
            BY <1>1, <2>1, FS_RemoveElement
        <3>2. k + 1 - 1 = k
            OBVIOUS
        <3> QED BY <3>1, <3>2, <1>1, <2>1, FS_RemoveElement
    <2>3. Sum(E \cup t) = Sum(E) + k * n
        BY <1>3, <2>2
    <2>4. IsFiniteSet(E \cup t) /\ y \notin E \cup t /\ Priced((E \cup t) \cup {y})
        BY <2>1, <2>2, FS_Union DEF Priced
    <2>5. (E \cup t) \cup {y} = E \cup s
        BY <2>1
    <2> HIDE DEF t
    <2>6. Sum(E \cup s) = Sum(E \cup t) + y.amount
        BY <2>4, <2>5, SumOfOneMore
    <2>7. Sum(E) + k * n + n = Sum(E) + (k + 1) * n
        BY <1>0
    <2> QED BY <2>2, <2>3, <2>6, <2>7
<1>4. Nat \subseteq Good
    <2> HIDE DEF Good
    <2> QED BY <1>2, <1>3, Induct
<1> QED BY <1>0, <1>1, <1>4

-----------------------------------------------------------------------------
Rebalanced(B, a) == \E e \in B : e.category = "Portfolio Rebalance" /\ e.from = a
Into(B, a) == {e \in B : e.moves /\ e.to = a}
OutOf(B, a) == {e \in B : e.moves /\ e.from = a}

\* What the proof needs of a question.
Asked(q) ==
    /\ q.kind \in Handlers /\ q.from \in Accounts /\ q.to \in Seq(Accounts)
    /\ q.amount \in Nat /\ q.app \in Apps
    /\ q.kind = "post" => q.type \in {"TRANSFER", "PAYMENT", "WITHDRAWAL"}
    /\ q.kind # "post" => q.type # "WITHDRAWAL"
    /\ q.kind = "unlock" => q.to = <<>> /\ q.amount = Fee
    /\ q.kind \in {"post", "self", "payee", "approve"} => Len(q.to) = 1

(* Whatever is asked names a handler, accounts of the bank and an amount.   *)
LEMMA QuestionsAreAsked == \A q \in Questions : Asked(q)
<1> SUFFICES ASSUME NEW q \in Questions PROVE Asked(q)
    OBVIOUS
<1>0. SomeAccount \in Accounts /\ SomeApp \in Apps
    BY LedgerAssumption DEF SomeAccount, SomeApp
<1>2. ASSUME NEW kind, NEW types, q \in TransferQuestions(kind, types)
      PROVE  /\ q.kind = kind /\ q.type \in types /\ q.from \in Accounts
             /\ q.to \in Seq(Accounts) /\ Len(q.to) = 1 /\ q.amount \in Nat /\ q.app \in Apps
    <2>1. PICK t \in types, a \in Accounts, b \in Accounts, n \in Amounts :
            q = Question(kind, t, a, <<b>>, n, SomeApp)
        BY <1>2 DEF TransferQuestions, Question
    <2>2. n \in Nat /\ <<b>> \in Seq(Accounts) /\ Len(<<b>>) = 1
        BY LedgerAssumption
    <2>3. q.kind = kind /\ q.type = t /\ q.from = a /\ q.to = <<b>> /\ q.amount = n /\ q.app = SomeApp
        BY <2>1 DEF Question
    <2> QED BY <1>0, <2>2, <2>3
<1>3. CASE q \in Transfers
    BY <1>2, <1>3 DEF Transfers, Asked, Handlers
<1>4. CASE q \in ProRequests
    <2>0. Faces \subseteq Accounts /\ Fee \in Nat /\ Amounts \subseteq Nat /\ PayLists \subseteq Seq(Accounts)
        BY LedgerAssumption DEF Faces, Range
    <2>1. CASE \E a \in Faces : q = Question("unlock", "PRO_LICENSE_FEE", a, <<>>, Fee, SomeApp)
        <3>1. PICK a \in Faces : q = Question("unlock", "PRO_LICENSE_FEE", a, <<>>, Fee, SomeApp)
            BY <2>1
        <3>2. q.kind = "unlock" /\ q.type = "PRO_LICENSE_FEE" /\ q.from = a /\ q.to = <<>> /\ q.amount = Fee /\ q.app = SomeApp
            BY <3>1 DEF Question
        <3> QED BY <1>0, <2>0, <3>2 DEF Handlers, Asked
    <2>2. CASE \E a \in Faces, to \in PayLists, n \in Amounts :
                 q = Question("payroll", "PAYMENT", a, to, n, SomeApp)
        <3>1. PICK a \in Faces, to \in PayLists, n \in Amounts :
                 q = Question("payroll", "PAYMENT", a, to, n, SomeApp)
            BY <2>2
        <3>2. q.kind = "payroll" /\ q.type = "PAYMENT" /\ q.from = a /\ q.to = to /\ q.amount = n /\ q.app = SomeApp
            BY <3>1 DEF Question
        <3> QED BY <1>0, <2>0, <3>2 DEF Handlers, Asked
    <2>3. CASE \E side \in {"BUY", "SELL"}, a \in Faces, n \in Amounts :
                 q = Question("trade", side, a, <<>>, n, SomeApp)
        <3>1. PICK side \in {"BUY", "SELL"}, a \in Faces, n \in Amounts :
                 q = Question("trade", side, a, <<>>, n, SomeApp)
            BY <2>3
        <3>2. q.kind = "trade" /\ q.type = side /\ q.from = a /\ q.to = <<>> /\ q.amount = n /\ q.app = SomeApp
            BY <3>1 DEF Question
        <3> QED BY <1>0, <2>0, <3>2 DEF Handlers, Asked
    <2>4. CASE \E a \in Faces : q = Question("rebalance", "PAYMENT", a, <<>>, 0, SomeApp)
        <3>1. PICK a \in Faces : q = Question("rebalance", "PAYMENT", a, <<>>, 0, SomeApp)
            BY <2>4
        <3>2. q.kind = "rebalance" /\ q.type = "PAYMENT" /\ q.from = a /\ q.to = <<>> /\ q.amount = 0 /\ q.app = SomeApp
            BY <3>1 DEF Question
        <3> QED BY <1>0, <2>0, <3>2 DEF Handlers, Asked
    <2> QED BY <1>4, <2>1, <2>2, <2>3, <2>4 DEF ProRequests
<1>5. CASE q \in LoanRequests
    <2>1. CASE \E a \in Accounts, p \in Apps :
                 q = Question("approve", "TRANSFER", SomeAccount, <<a>>, Principal[p], p)
        <3>1. PICK a \in Accounts, p \in Apps :
                 q = Question("approve", "TRANSFER", SomeAccount, <<a>>, Principal[p], p)
            BY <2>1
        <3>2. Principal[p] \in Nat /\ <<a>> \in Seq(Accounts) /\ Len(<<a>>) = 1
            BY LedgerAssumption
        <3>3. /\ q.kind = "approve" /\ q.type = "TRANSFER" /\ q.from = SomeAccount
              /\ q.to = <<a>> /\ q.amount = Principal[p] /\ q.app = p
            BY <3>1 DEF Question
        <3> QED BY <3>2, <3>3, <1>0 DEF Handlers, Asked
    <2>2. CASE \E kind \in {"reject", "kyc"}, p \in Apps : q = Question(kind, "none", SomeAccount, <<>>, 0, p)
        <3>1. PICK kind \in {"reject", "kyc"}, p \in Apps : q = Question(kind, "none", SomeAccount, <<>>, 0, p)
            BY <2>2
        <3>2. q.kind = kind /\ q.type = "none" /\ q.from = SomeAccount /\ q.to = <<>> /\ q.amount = 0 /\ q.app = p
            BY <3>1 DEF Question
        <3> QED BY <3>2, <1>0 DEF Handlers, Asked
    <2> QED BY <1>5, <2>1, <2>2 DEF LoanRequests
<1> QED
    BY <1>3, <1>4, <1>5 DEF Questions

\* What the proof needs of the accounts and of the requests in flight.
Worded ==
    /\ DOMAIN ask = Requests /\ DOMAIN seen = Requests
    /\ \A r \in Requests :
         /\ Asked(ask[r]) /\ seen[r].account \in Accounts
         /\ seen[r].cash \in Int /\ seen[r].value \in Int
    /\ balance \in [Accounts -> Int]
    /\ IsFiniteSet(book) /\ Priced(book)

(* As many rows as there are reasons for one, when each has its own.         *)
LEMMA OneRowEach ==
    ASSUME NEW I, IsFiniteSet(I), NEW T, NEW f \in [I -> T],
           \A i, j \in I : f[i] = f[j] => i = j, \A e \in T : \E i \in I : f[i] = e
    PROVE  IsFiniteSet(T) /\ Cardinality(T) = Cardinality(I)
<1>1. f \in Bijection(I, T)
    BY DEF Bijection, Injection, Surjection, IsInjective
<1>2. ExistsBijection(I, T)
    BY <1>1 DEF ExistsBijection
<1> QED BY <1>2, FS_Bijection

(* A posted WITHDRAWAL is recorded and moves nothing.                       *)
LEMMA WithdrawalsChangeNothing ==
    ASSUME NEW r, NEW a, ask[r].kind = "post", ask[r].type \notin {"TRANSFER", "PAYMENT"}
    PROVE  Change(r, a) = 0
BY DEF Change

\* A single row is paid to one side and by the other.
LEMMA SingleRow ==
    ASSUME NEW r, NEW a, NEW e, Entries(r) = {e}, e.moves
    PROVE  /\ IsFiniteSet(Entries(r)) /\ \A x \in Entries(r) : x.amount = e.amount
           /\ Cardinality(Into(Entries(r), a)) = IF e.to = a THEN 1 ELSE 0
           /\ Cardinality(OutOf(Entries(r), a)) = IF e.from = a THEN 1 ELSE 0
<1>1. Into(Entries(r), a) = IF e.to = a THEN {e} ELSE {}
    BY DEF Into
<1>2. OutOf(Entries(r), a) = IF e.from = a THEN {e} ELSE {}
    BY DEF OutOf
<1>3. Cardinality({e}) = 1 /\ IsFiniteSet({e}) /\ Cardinality({}) = 0
    BY FS_EmptySet, FS_Singleton
<1>4. IsFiniteSet(Entries(r)) /\ \A x \in Entries(r) : x.amount = e.amount
    BY <1>3
<1> QED BY <1>1, <1>2, <1>3, <1>4

(* What a request books adds up to what it does to an account, unless it     *)
(* rebalances that account.                                                  *)
LEMMA BookedIsChanged ==
    ASSUME Worded, NEW r \in Requests, NEW a \in Accounts
    PROVE  /\ IsFiniteSet(Entries(r))
           /\ \E n \in Int :
                /\ \A e \in Entries(r) : e.amount = n
                /\ ask[r].kind # "rebalance" \/ a # seen[r].account =>
                     Change(r, a) = Cardinality(Into(Entries(r), a)) * n
                                    - Cardinality(OutOf(Entries(r), a)) * n
<1> DEFINE q == ask[r]
           own == seen[r].account
           moves == q.type # "WITHDRAWAL"
           n == q.amount
<1>0. Asked(q) /\ own \in Accounts /\ seen[r].cash \in Int /\ seen[r].value \in Int
    BY DEF Worded
<1>2. "bank" \notin Accounts
    BY LedgerAssumption
<1>3. n \in Int /\ q.kind \in Handlers
    BY <1>0 DEF Asked
<1>4. 1 * n - 0 * n = n /\ 0 * n - 1 * n = - n /\ 0 * n - 0 * n = 0
    <2> HIDE DEF n
    <2> QED BY <1>3
<1>5. CASE q.kind \in {"post", "self", "payee", "payroll"}
    <2> DEFINE I == DOMAIN q.to
               J == {i \in I : q.to[i] = a}
               Row(i) == Entry(r, i, own, q.to[i], n, q.kind)
    <2>1. Entries(r) = {Row(i) : i \in I}
        BY <1>5 DEF Entries
    <2>2. \A i \in I : Row(i).from = own /\ Row(i).to = q.to[i] /\ Row(i).amount = n /\ (Row(i).moves <=> moves)
        BY DEF Entry
    <2>3. q.to \in Seq(Accounts) /\ I = 1 .. Len(q.to) /\ Len(q.to) \in Nat
        BY <1>0 DEF Asked
    <2>4. IsFiniteSet(I) /\ Cardinality(I) = Len(q.to)
        BY <2>3, FS_Interval
    <2>5. IsFiniteSet(J)
        BY <2>4, FS_Subset
    <2>6. IsFiniteSet(Entries(r)) /\ Cardinality(Entries(r)) = Len(q.to)
        <3> DEFINE f == [i \in I |-> Row(i)]
        <3>1. \A i, j \in I : Row(i) = Row(j) => i = j
            BY DEF Entry
        <3> HIDE DEF Row
        <3>2. /\ f \in [I -> Entries(r)] /\ \A i, j \in I : f[i] = f[j] => i = j
              /\ \A e \in Entries(r) : \E i \in I : f[i] = e
            BY <2>1, <3>1
        <3> HIDE DEF f, I
        <3> QED BY <2>4, <3>2, OneRowEach
    <2>7. Cardinality({Row(i) : i \in J}) = Cardinality(J) /\ Cardinality(J) \in Nat
        <3> DEFINE f == [i \in J |-> Row(i)]
                   T == {Row(i) : i \in J}
        <3>1. \A i, j \in J : Row(i) = Row(j) => i = j
            BY DEF Entry
        <3> HIDE DEF Row
        <3>2. /\ f \in [J -> T] /\ \A i, j \in J : f[i] = f[j] => i = j
              /\ \A e \in T : \E i \in J : f[i] = e
            BY <3>1
        <3> HIDE DEF f, J, T
        <3>3. Cardinality(T) = Cardinality(J)
            BY <2>5, <3>2, OneRowEach
        <3> QED BY <2>5, <3>3, FS_CardinalityType DEF T
    <2>8. \A e \in Entries(r) : e.amount = n
        BY <2>1, <2>2
    <2>9. CASE moves
        <3>1. Into(Entries(r), a) = {Row(i) : i \in J}
            BY <2>1, <2>2, <2>9 DEF Into
        <3>2. OutOf(Entries(r), a) = IF a = own THEN Entries(r) ELSE {}
            BY <2>1, <2>2, <2>9 DEF OutOf
        <3>3. Cardinality(OutOf(Entries(r), a)) = IF a = own THEN Len(q.to) ELSE 0
            BY <3>2, <2>6, FS_EmptySet
        <3>4. Change(r, a) = Cardinality(J) * n - (IF a = own THEN Debit(q) ELSE 0)
            <4>1. ~ (q.kind = "post" /\ q.type \notin {"TRANSFER", "PAYMENT"})
                BY <1>0, <2>9 DEF Asked
            <4> HIDE DEF J
            <4>2. Change(r, a) = Cardinality({i \in DOMAIN q.to : q.to[i] = a}) * q.amount
                                 - (IF a = own THEN Debit(q) ELSE 0)
                BY <4>1, <1>5 DEF Change
            <4> QED BY <4>2 DEF J
        <3>5. Debit(q) = Len(q.to) * n
            <4>1. CASE q.kind = "payroll"
                BY <4>1, <2>3, <1>3 DEF Debit
            <4>2. CASE q.kind # "payroll"
                <5>1. Debit(q) = n /\ Len(q.to) = 1
                    BY <4>2, <1>0, <1>5 DEF Debit, Asked
                <5> HIDE DEF q, n
                <5> QED BY <5>1, <1>3
            <4> QED BY <4>1, <4>2
        <3>6. Change(r, a) = Cardinality(Into(Entries(r), a)) * n - Cardinality(OutOf(Entries(r), a)) * n
            <4> HIDE DEF J, q, own, n, Row
            <4>1. CASE a = own
                BY <4>1, <3>1, <3>3, <3>4, <3>5, <2>7
            <4>2. CASE a # own
                BY <4>2, <3>1, <3>3, <3>4, <2>7, <1>3
            <4> QED BY <4>1, <4>2
        <3> QED BY <3>6, <2>6, <2>8, <1>3
    <2>10. CASE ~ moves
        <3>1. Into(Entries(r), a) = {} /\ OutOf(Entries(r), a) = {}
            BY <2>1, <2>2, <2>10 DEF Into, OutOf
        <3>2. q.kind = "post" /\ q.type \notin {"TRANSFER", "PAYMENT"}
            BY <1>0, <2>10 DEF Asked
        <3>3. Change(r, a) = 0
            BY <3>2, WithdrawalsChangeNothing
        <3>4. 0 * n - 0 * n = 0
            BY <1>3
        <3> HIDE DEF q, own, n
        <3> QED BY <3>1, <3>3, <3>4, <2>6, <2>8, <1>3, FS_EmptySet
    <2> QED BY <2>9, <2>10
<1>6. q.kind # "post" => moves
    BY <1>0 DEF Asked
<1>7. CASE q.kind = "unlock"
    <2>1. Entries(r) = {Entry(r, 1, own, "bank", Fee, "Service Fee")}
        BY <1>7 DEF Entries
    <2>2. q.to = <<>> /\ n = Fee
        BY <1>0, <1>7 DEF Asked
    <2>3. {i \in DOMAIN q.to : q.to[i] = a} = {}
        BY <2>2
    <2>4. Change(r, a) = IF a = own THEN - n ELSE 0
        <3>1. Cardinality({i \in DOMAIN q.to : q.to[i] = a}) * n = 0
            <4>1. 0 * n = 0
                BY <1>3
            <4> HIDE DEF q, n
            <4> QED BY <2>3, <4>1, FS_EmptySet
        <3>2. Debit(q) = n
            BY <1>7 DEF Debit
        <3>3. Change(r, a) = Cardinality({i \in DOMAIN q.to : q.to[i] = a}) * n
                             - (IF a = own THEN Debit(q) ELSE 0)
            BY <1>7 DEF Change
        <3> QED BY <3>1, <3>2, <3>3, <1>3
    <2>5. /\ IsFiniteSet(Entries(r)) /\ \A e \in Entries(r) : e.amount = n
          /\ Cardinality(Into(Entries(r), a)) = 0
          /\ Cardinality(OutOf(Entries(r), a)) = IF own = a THEN 1 ELSE 0
        <3>1. PICK c, e : e = Entry(r, 1, own, "bank", n, c) /\ Entries(r) = {e}
            BY <2>1, <2>2
        <3>2. ask[r].type # "WITHDRAWAL" /\ a # "bank"
            BY <1>2, <1>6, <1>7
        <3>3. e.from = own /\ e.to = "bank" /\ e.amount = n /\ e.moves
            BY <3>1, <3>2 DEF Entry
        <3> HIDE DEF q, own, n, moves
        <3> QED BY <3>1, <3>2, <3>3, SingleRow
    <2> HIDE DEF q, own, n
    <2>6. Change(r, a) = Cardinality(Into(Entries(r), a)) * n - Cardinality(OutOf(Entries(r), a)) * n
        BY <2>4, <2>5, <1>4
    <2> QED BY <2>6, <2>5, <1>3
<1>8. CASE q.kind = "trade"
    <2>1. Debit(q) = n
        BY <1>8 DEF Debit
    <2>2. CASE q.type = "BUY"
        <3>1. Entries(r) = {Entry(r, 1, own, "bank", n, "Crypto Trade")}
            BY <1>8, <2>2 DEF Entries
        <3>2. Change(r, a) = IF a = own THEN - n ELSE 0
            BY <1>8, <2>1, <2>2, <1>3 DEF Change
        <3>3. /\ IsFiniteSet(Entries(r)) /\ \A e \in Entries(r) : e.amount = n
              /\ Cardinality(Into(Entries(r), a)) = 0
              /\ Cardinality(OutOf(Entries(r), a)) = IF own = a THEN 1 ELSE 0
            <4>1. PICK c, e : e = Entry(r, 1, own, "bank", n, c) /\ Entries(r) = {e}
                BY <3>1
            <4>2. ask[r].type # "WITHDRAWAL" /\ a # "bank"
                BY <1>2, <1>6, <1>8
            <4>3. e.from = own /\ e.to = "bank" /\ e.amount = n /\ e.moves
                BY <4>1, <4>2 DEF Entry
            <4> HIDE DEF q, own, n, moves
            <4> QED BY <4>1, <4>2, <4>3, SingleRow
        <3> HIDE DEF q, own, n
        <3>4. Change(r, a) = Cardinality(Into(Entries(r), a)) * n - Cardinality(OutOf(Entries(r), a)) * n
            BY <3>2, <3>3, <1>4
        <3> QED BY <3>4, <3>3, <1>3
    <2>3. CASE q.type # "BUY"
        <3>1. Entries(r) = {Entry(r, 1, "bank", own, n, "Crypto Trade")}
            BY <1>8, <2>3 DEF Entries
        <3>2. Change(r, a) = IF a = own THEN n ELSE 0
            BY <1>8, <2>1, <2>3, <1>3 DEF Change
        <3>3. /\ IsFiniteSet(Entries(r)) /\ \A e \in Entries(r) : e.amount = n
              /\ Cardinality(Into(Entries(r), a)) = IF own = a THEN 1 ELSE 0
              /\ Cardinality(OutOf(Entries(r), a)) = 0
            <4>1. PICK c, e : e = Entry(r, 1, "bank", own, n, c) /\ Entries(r) = {e}
                BY <3>1
            <4>2. ask[r].type # "WITHDRAWAL" /\ a # "bank"
                BY <1>2, <1>6, <1>8
            <4>3. e.from = "bank" /\ e.to = own /\ e.amount = n /\ e.moves
                BY <4>1, <4>2 DEF Entry
            <4> HIDE DEF q, own, n, moves
            <4> QED BY <4>1, <4>2, <4>3, SingleRow
        <3> HIDE DEF q, own, n
        <3>4. Change(r, a) = Cardinality(Into(Entries(r), a)) * n - Cardinality(OutOf(Entries(r), a)) * n
            BY <3>2, <3>3, <1>4
        <3> QED BY <3>4, <3>3, <1>3
    <2> QED BY <2>2, <2>3
<1>9. CASE q.kind = "rebalance"
    <2> DEFINE m == Abs(seen[r].cash - CashReserve(r))
    <2>1. m \in Int
        <3>1. CashReserve(r) \in Int
            BY <1>0 DEF CashReserve
        <3> QED BY <3>1, <1>0 DEF Abs
    <2>2. Entries(r) = {Entry(r, 1, own, "bank", m, "Portfolio Rebalance")}
        BY <1>9 DEF Entries
    <2> HIDE DEF m
    <2>3. /\ IsFiniteSet(Entries(r)) /\ \A e \in Entries(r) : e.amount = m
          /\ Cardinality(Into(Entries(r), a)) = 0
          /\ Cardinality(OutOf(Entries(r), a)) = IF own = a THEN 1 ELSE 0
        <3>1. PICK c, e : e = Entry(r, 1, own, "bank", m, c) /\ Entries(r) = {e}
            BY <2>2
        <3>2. ask[r].type # "WITHDRAWAL" /\ a # "bank"
            BY <1>2, <1>6, <1>9
        <3>3. e.from = own /\ e.to = "bank" /\ e.amount = m /\ e.moves
            BY <3>1, <3>2 DEF Entry
        <3> HIDE DEF q, own, n, moves
        <3> QED BY <3>1, <3>2, <3>3, SingleRow
    <2>4. Change(r, a) = 0
        BY <1>9 DEF Change
    <2> HIDE DEF q, own, n
    <2>5. 0 * m - 0 * m = 0
        BY <2>1
    <2> QED BY <2>1, <2>3, <2>4, <2>5, <1>9 DEF q, own
<1>10. CASE q.kind = "approve"
    <2>1. Entries(r) = {Entry(r, 1, "bank", q.to[1], n, "LOAN_DISBURSAL")}
        BY <1>10 DEF Entries
    <2>2. q.to \in Seq(Accounts) /\ Len(q.to) = 1
        BY <1>0, <1>10 DEF Asked
    <2>3. {i \in DOMAIN q.to : q.to[i] = a} = IF q.to[1] = a THEN {1} ELSE {}
        BY <2>2
    <2>4. Change(r, a) = IF q.to[1] = a THEN n ELSE 0
        <3>1. Change(r, a) = Cardinality({i \in DOMAIN q.to : q.to[i] = a}) * n
            BY <1>10 DEF Change
        <3>2. Cardinality({i \in DOMAIN q.to : q.to[i] = a}) = IF q.to[1] = a THEN 1 ELSE 0
            <4> HIDE DEF q
            <4> QED BY <2>3, FS_EmptySet, FS_Singleton
        <3>3. 0 * n = 0 /\ 1 * n = n
            BY <1>3
        <3> HIDE DEF q, n
        <3> QED BY <3>1, <3>2, <3>3 DEF q
    <2>5. /\ IsFiniteSet(Entries(r)) /\ \A e \in Entries(r) : e.amount = n
          /\ Cardinality(Into(Entries(r), a)) = IF q.to[1] = a THEN 1 ELSE 0
          /\ Cardinality(OutOf(Entries(r), a)) = 0
        <3>1. PICK c, e : e = Entry(r, 1, "bank", q.to[1], n, c) /\ Entries(r) = {e}
            BY <2>1
        <3>2. ask[r].type # "WITHDRAWAL" /\ a # "bank"
            BY <1>2, <1>6, <1>10
        <3>3. e.from = "bank" /\ e.to = q.to[1] /\ e.amount = n /\ e.moves
            BY <3>1, <3>2 DEF Entry
        <3> HIDE DEF q, own, n, moves
        <3> QED BY <3>1, <3>2, <3>3, SingleRow
    <2> HIDE DEF q, own, n
    <2>6. Change(r, a) = Cardinality(Into(Entries(r), a)) * n - Cardinality(OutOf(Entries(r), a)) * n
        BY <2>4, <2>5, <1>4
    <2> QED BY <2>6, <2>5, <1>3
<1>11. CASE q.kind \in Moneyless
    <2>1. Entries(r) = {} /\ Change(r, a) = 0
        BY <1>11 DEF Entries, Change, Moneyless
    <2>2. Into(Entries(r), a) = {} /\ OutOf(Entries(r), a) = {}
        BY <2>1 DEF Into, OutOf
    <2>3. 0 * n - 0 * n = 0
        BY <1>3
    <2> HIDE DEF q, own, n
    <2> QED BY <2>1, <2>2, <2>3, <1>3, FS_EmptySet
<1> QED
    BY <1>3, <1>5, <1>7, <1>8, <1>9, <1>10, <1>11 DEF Handlers, Moneyless

(* Accounts open with whole amounts.                                        *)
LEMMA OpeningIsMoney == \A a \in Accounts : Opening[a] \in Int
<1>1. Opening \in [Accounts -> Nat]
    BY LedgerAssumption
<1> QED BY <1>1

(* A portfolio is worth a whole amount.                                     *)
LEMMA ValuesAreWhole == \A v \in Values : v \in Int
<1>1. Values \subseteq Nat
    BY LedgerAssumption
<1> QED BY <1>1

\* The invariant of the balances.
BInv == Worded /\ BooksExplainBalances

(* A commit keeps the books in step with the balances.                      *)
LEMMA CommitBalances ==
    ASSUME IInv, BInv, NEW r \in Requests, Commit(r)
    PROVE  BInv'
<1> USE DEF BInv, IInv
<1>1. /\ pc[r] = "write" /\ balance' = BalanceAfter(r) /\ book' = book \cup Entries(r)
      /\ UNCHANGED <<ask, seen>>
    BY DEF Commit
<1>2. ~ OnTheBook(r)
    BY <1>1 DEF Evidence
<1>3. \A e \in Entries(r) : e.by = r
    BY EntriesOfARequest
<1>4. book \cap Entries(r) = {}
    BY <1>2, <1>3 DEF OnTheBook
<1>5. PICK any \in Accounts : TRUE
    BY LedgerAssumption
<1>6. IsFiniteSet(Entries(r)) /\ Priced(Entries(r))
    BY <1>5, BookedIsChanged DEF Priced
<1>7. Worded'
    <2>1. IsFiniteSet(book') /\ Priced(book')
        BY <1>1, <1>6, FS_Union DEF Worded, Priced
    <2>2. balance' \in [Accounts -> Int]
        <3>1. CashReserve(r) \in Int
            BY DEF Worded, CashReserve
        <3>2. ASSUME NEW a \in Accounts, ask[r].kind # "rebalance" \/ a # seen[r].account
              PROVE  Change(r, a) \in Int
            <4>1. PICK n \in Int :
                    Change(r, a) = Cardinality(Into(Entries(r), a)) * n - Cardinality(OutOf(Entries(r), a)) * n
                BY <3>2, BookedIsChanged
            <4>2. Cardinality(Into(Entries(r), a)) \in Nat /\ Cardinality(OutOf(Entries(r), a)) \in Nat
                BY <1>6, FS_Subset, FS_CardinalityType DEF Into, OutOf
            <4> QED BY <4>1, <4>2
        <3> QED BY <1>1, <3>1, <3>2 DEF BalanceAfter, Worded
    <2> QED BY <1>1, <2>1, <2>2 DEF Worded
<1>8. BooksExplainBalances'
    <2> SUFFICES ASSUME NEW a \in Accounts, ~ Rebalanced(book', a)
                 PROVE  balance'[a] = Opening[a] + Sum(Into(book', a)) - Sum(OutOf(book', a))
        BY DEF BooksExplainBalances, Rebalanced, Into, OutOf
    <2>1. balance[a] = Opening[a] + Sum(Into(book, a)) - Sum(OutOf(book, a))
        BY <1>1 DEF BooksExplainBalances, Rebalanced, Into, OutOf
    <2>2. ask[r].kind # "rebalance" \/ a # seen[r].account
        <3> SUFFICES ASSUME ask[r].kind = "rebalance", a = seen[r].account PROVE FALSE
            OBVIOUS
        <3>1. PICK e : e = Entry(r, 1, a, "bank", Abs(seen[r].cash - CashReserve(r)), "Portfolio Rebalance")
            OBVIOUS
        <3>2. e \in Entries(r)
            BY <3>1 DEF Entries
        <3>3. e.category = "Portfolio Rebalance" /\ e.from = a
            BY <3>1 DEF Entry
        <3> QED BY <3>2, <3>3, <1>1 DEF Rebalanced
    <2>3. PICK n :
            /\ n \in Int /\ \A e \in Entries(r) : e.amount = n
            /\ Change(r, a) = Cardinality(Into(Entries(r), a)) * n - Cardinality(OutOf(Entries(r), a)) * n
        BY <2>2, BookedIsChanged
    <2> DEFINE in == Into(Entries(r), a)
               out == OutOf(Entries(r), a)
    <2>4. balance'[a] = balance[a] + Change(r, a)
        BY <1>1, <2>2 DEF BalanceAfter
    <2>5. Sum(Into(book, a)) \in Int /\ Sum(Into(book', a)) = Sum(Into(book, a)) + Cardinality(in) * n
        <3>1. Into(book', a) = Into(book, a) \cup in
            BY <1>1 DEF Into
        <3>2. IsFiniteSet(Into(book, a)) /\ Priced(Into(book, a)) /\ IsFiniteSet(in)
            BY <1>6, FS_Subset DEF Worded, Into, Priced
        <3>3. Into(book, a) \cap in = {} /\ \A e \in in : e.amount = n
            BY <1>4, <2>3 DEF Into
        <3> DEFINE old == Into(book, a)
        <3> HIDE DEF in, old
        <3>4. Sum(old) \in Int /\ Sum(old \cup in) = Sum(old) + Cardinality(in) * n
            BY <2>3, <3>2, <3>3, SumOfBatch DEF old
        <3> QED BY <3>1, <3>4 DEF old
    <2>6. Sum(OutOf(book, a)) \in Int /\ Sum(OutOf(book', a)) = Sum(OutOf(book, a)) + Cardinality(out) * n
        <3>1. OutOf(book', a) = OutOf(book, a) \cup out
            BY <1>1 DEF OutOf
        <3>2. IsFiniteSet(OutOf(book, a)) /\ Priced(OutOf(book, a)) /\ IsFiniteSet(out)
            BY <1>6, FS_Subset DEF Worded, OutOf, Priced
        <3>3. OutOf(book, a) \cap out = {} /\ \A e \in out : e.amount = n
            BY <1>4, <2>3 DEF OutOf
        <3> DEFINE old == OutOf(book, a)
        <3> HIDE DEF out, old
        <3>4. Sum(old) \in Int /\ Sum(old \cup out) = Sum(old) + Cardinality(out) * n
            BY <2>3, <3>2, <3>3, SumOfBatch DEF old
        <3> QED BY <3>1, <3>4 DEF old
    <2>7. Cardinality(in) \in Nat /\ Cardinality(out) \in Nat
        BY <1>6, FS_Subset, FS_CardinalityType DEF Into, OutOf
    <2>8. Opening[a] \in Int
        BY OpeningIsMoney
    <2> DEFINE more == Cardinality(in) * n
               less == Cardinality(out) * n
    <2>9. more \in Int /\ less \in Int
        <3>1. \A k \in Nat : k * n \in Int
            BY <2>3
        <3> HIDE DEF in, out
        <3> QED BY <3>1, <2>7
    <2>10. Change(r, a) = more - less
        BY <2>3
    <2>11. Sum(Into(book', a)) = Sum(Into(book, a)) + more /\ Sum(OutOf(book', a)) = Sum(OutOf(book, a)) + less
        BY <2>5, <2>6
    <2> DEFINE before == Sum(Into(book, a))
               spent == Sum(OutOf(book, a))
    <2>12. before \in Int /\ spent \in Int /\ balance[a] = Opening[a] + before - spent
        BY <2>1, <2>5, <2>6
    <2>13. Sum(Into(book', a)) = before + more /\ Sum(OutOf(book', a)) = spent + less
        BY <2>11
    <2> HIDE DEF more, less, before, spent
    <2>14. balance'[a] = Opening[a] + (before + more) - (spent + less)
        <3> DEFINE now == balance'[a]
                   start == Opening[a]
        <3>1. now = start + before - spent + (more - less) /\ start \in Int
            BY <2>4, <2>8, <2>10, <2>12
        <3> HIDE DEF now, start
        <3>2. now = start + (before + more) - (spent + less)
            BY <3>1, <2>9, <2>12
        <3> QED BY <3>2 DEF now, start
    <2> QED BY <2>13, <2>14
<1> QED BY <1>7, <1>8

(* The bank as seeded has empty books.                                      *)
LEMMA InitBInv == Init => BInv
<1> SUFFICES ASSUME Init PROVE BInv
    OBVIOUS
<1>1. SomeAccount \in Accounts /\ SomeApp \in Apps
    BY LedgerAssumption DEF SomeAccount, SomeApp
<1>2. Worded
    <2>1. \A r \in Requests : Asked(ask[r])
        <3>1. <<>> \in Seq(Accounts)
            OBVIOUS
        <3>2. PICK q : q = Question("kyc", "none", SomeAccount, <<>>, 0, SomeApp)
            OBVIOUS
        <3>3. q.kind = "kyc" /\ q.type = "none" /\ q.from = SomeAccount /\ q.to = <<>> /\ q.amount = 0
              /\ q.app = SomeApp
            BY <3>2 DEF Question
        <3>4. Asked(q)
            BY <3>1, <3>3, <1>1 DEF Asked, Handlers
        <3> QED BY <3>2, <3>4 DEF Init
    <2>2. balance \in [Accounts -> Int]
        BY LedgerAssumption DEF Init
    <2> QED BY <1>1, <2>1, <2>2, FS_EmptySet DEF Init, NothingSeen, Priced, Worded
<1>3. BooksExplainBalances
    <2> SUFFICES ASSUME NEW a \in Accounts
                 PROVE  balance[a] = Opening[a] + Sum({e \in book : e.moves /\ e.to = a})
                                     - Sum({e \in book : e.moves /\ e.from = a})
        BY DEF BooksExplainBalances
    <2>1. {e \in book : e.moves /\ e.to = a} = {} /\ {e \in book : e.moves /\ e.from = a} = {}
        BY DEF Init
    <2>2. Opening[a] \in Int /\ balance[a] = Opening[a]
        BY OpeningIsMoney DEF Init
    <2>3. Opening[a] = Opening[a] + 0 - 0
        BY <2>2
    <2> QED BY <2>1, <2>2, <2>3, SumOfNone
<1> QED BY <1>2, <1>3 DEF BInv

(* Only a commit touches the balances and the books.                        *)
LEMMA StepBInv == IInv /\ BInv /\ [Next]_vars => BInv'
<1> SUFFICES ASSUME IInv, BInv, [Next]_vars PROVE BInv'
    OBVIOUS
<1> USE DEF BInv
<1>1. ASSUME UNCHANGED <<balance, book, ask, seen>> PROVE BInv'
    BY <1>1 DEF Worded, BooksExplainBalances
<1>2. ASSUME NEW p \in Apps, Apply(p) PROVE BInv'
    BY <1>1, <1>2 DEF Apply
<1>3. ASSUME NEW r \in Requests, Arrive(r) PROVE BInv'
    <2>1. PICK q \in Questions : ask' = [ask EXCEPT ![r] = q]
        BY <1>3 DEF Arrive
    <2>2. Asked(q)
        BY QuestionsAreAsked
    <2>3. UNCHANGED <<balance, book, seen>>
        BY <1>3 DEF Arrive
    <2>4. Worded'
        BY <2>1, <2>2, <2>3 DEF Worded
    <2>5. BooksExplainBalances'
        BY <2>3 DEF BooksExplainBalances
    <2> QED BY <2>4, <2>5
<1>4. ASSUME NEW r \in Requests, Read(r) PROVE BInv'
    <2>1. UNCHANGED <<balance, book, ask>>
        BY <1>4 DEF Read
    <2>2. CASE UNCHANGED seen
        BY <1>1, <2>1, <2>2
    <2>3. CASE \E a \in Candidates(ask[r]) :
                 \E v \in IF ask[r].kind = "rebalance" /\ document[a] # {} THEN Values ELSE {0} :
                     seen' = [seen EXCEPT ![r] =
                       [account |-> a, cash |-> balance[a], value |-> v,
                        document |-> document[IF ask[r].kind = "kyc" THEN ask[r].app ELSE a]]]
        <3>1. PICK a \in Candidates(ask[r]) :
                 \E v \in IF ask[r].kind = "rebalance" /\ document[a] # {} THEN Values ELSE {0} :
                     seen' = [seen EXCEPT ![r] =
                       [account |-> a, cash |-> balance[a], value |-> v,
                        document |-> document[IF ask[r].kind = "kyc" THEN ask[r].app ELSE a]]]
            BY <2>3
        <3>2. PICK v \in IF ask[r].kind = "rebalance" /\ document[a] # {} THEN Values ELSE {0} :
                 seen' = [seen EXCEPT ![r] =
                   [account |-> a, cash |-> balance[a], value |-> v,
                    document |-> document[IF ask[r].kind = "kyc" THEN ask[r].app ELSE a]]]
            BY <3>1
        <3>3. v \in Int
            <4>1. v \in Values \/ v = 0
                BY <3>2
            <4> QED BY <4>1, ValuesAreWhole
        <3>4. a \in Accounts
            <4>1. ask[r].from \in Accounts
                BY DEF Worded, Asked
            <4> QED BY <4>1 DEF Candidates
        <3>5. PICK new : new = [account |-> a, cash |-> balance[a], value |-> v,
                   document |-> document[IF ask[r].kind = "kyc" THEN ask[r].app ELSE a]]
            OBVIOUS
        <3>6. new.account \in Accounts /\ new.cash \in Int /\ new.value \in Int
            BY <3>3, <3>4, <3>5 DEF Worded
        <3>7. seen' = [seen EXCEPT ![r] = new]
            BY <3>2, <3>5
        <3>8. Worded'
            BY <2>1, <3>6, <3>7 DEF Worded
        <3>9. BooksExplainBalances'
            BY <2>1 DEF BooksExplainBalances
        <3> QED BY <3>8, <3>9
    <2> QED BY <1>4, <2>2, <2>3 DEF Read
<1>5. ASSUME NEW r \in Requests, Update(r) PROVE BInv'
    BY <1>1, <1>5 DEF Update
<1>6. ASSUME NEW r \in Requests, Commit(r) PROVE BInv'
    BY <1>6, CommitBalances
<1>7. ASSUME NEW r \in Requests, Abort(r) PROVE BInv'
    BY <1>1, <1>7 DEF Abort
<1>8. ASSUME NEW r \in Requests, Tell(r) PROVE BInv'
    BY <1>1, <1>8 DEF Tell
<1>9. ASSUME Crash PROVE BInv'
    BY <1>1, <1>9 DEF Crash
<1>10. CASE UNCHANGED vars
    BY <1>1, <1>10 DEF vars
<1> QED
    BY <1>2, <1>3, <1>4, <1>5, <1>6, <1>7, <1>8, <1>9, <1>10 DEF Next

(* The books and the requests in flight keep what the proof needs of them.  *)
THEOREM BalancesInvariant == Spec => []BInv
<1>1. Init => BInv
    BY InitBInv
<1>2. IInv /\ BInv /\ [Next]_vars => BInv'
    BY StepBInv
<1> QED BY <1>1, <1>2, LedgerInvariant, PTL DEF Spec

(* The Transaction table explains every balance nobody rebalanced, for any   *)
(* number of requests, accounts and payees and however the handlers           *)
(* interleave, abort or die.                                                 *)
THEOREM BooksExplain == Spec => []BooksExplainBalances
<1>1. BInv => BooksExplainBalances
    BY DEF BInv
<1> QED BY <1>1, BalancesInvariant, PTL

-----------------------------------------------------------------------------
\* What a request read that nobody changed since.
AsRead(r) ==
    /\ ask[r].kind \notin {"approve", "reject", "kyc"} =>
         /\ seen[r].cash = balance[seen[r].account] /\ seen[r].document = document[seen[r].account]
         /\ Covers(seen[r].cash, ask[r])
    /\ ask[r].kind = "kyc" => seen[r].document = document[ask[r].app]
    /\ ask[r].kind \in {"approve", "reject"} => status[ask[r].app] = "PENDING"

\* Until it is raced, a request about to write has read the present.
Fresh ==
    /\ DOMAIN document = Rows /\ raced \in [Requests -> BOOLEAN]
    /\ \A r \in Requests :
         pc[r] = "write" => /\ ask[r].kind = "post" => seen[r].account = ask[r].from
                            /\ ~ raced[r] => AsRead(r)

(* The rows of a transfer: the account it is taken from, then the payees'.  *)
LEMMA FirstAndRest ==
    ASSUME NEW S, NEW x \in S, NEW s \in Seq(S)
    PROVE  x \in Range(<<x>> \o s) /\ \A i \in DOMAIN s : s[i] \in Range(<<x>> \o s)
<1> DEFINE all == <<x>> \o s
<1>1. DOMAIN all = 1 .. 1 + Len(s) /\ all[1] = x /\ \A i \in DOMAIN s : i + 1 \in DOMAIN all /\ all[i + 1] = s[i]
    OBVIOUS
<1>2. 1 \in DOMAIN all
    BY <1>1
<1> HIDE DEF all
<1>3. x \in Range(all) /\ \A i \in DOMAIN s : s[i] \in Range(all)
    BY <1>1, <1>2 DEF Range
<1> QED BY <1>3 DEF all

(* A trade moves the cash of the account it read, and of no other.          *)
LEMMA TradesTouchOneAccount ==
    ASSUME NEW r, NEW a, ask[r].kind = "trade", a # seen[r].account
    PROVE  Change(r, a) = 0
<1>0. 0 = IF a = seen[r].account THEN Debit(ask[r]) ELSE 0
    OBVIOUS
<1>1. PICK taken \in Int : taken = IF a = seen[r].account THEN Debit(ask[r]) ELSE 0
    BY <1>0
<1>2. Change(r, a) = - taken \/ Change(r, a) = taken
    BY <1>1 DEF Change
<1>3. taken \in Int /\ taken = 0
    BY <1>1
<1>4. \A n \in Int : - n = 0 - n
    OBVIOUS
<1>5. - taken = 0 - taken
    BY <1>3, <1>4
<1> QED BY <1>2, <1>3, <1>5

(* A transaction changes only the rows it updates.                          *)
LEMMA UpdatesCoverChanges ==
    ASSUME Worded, NEW r \in Requests, ask[r].kind = "post" => seen[r].account = ask[r].from
    PROVE  /\ \A a \in Accounts \ Range(Updates(r)) :
                Change(r, a) = 0 /\ (ask[r].kind = "rebalance" => a # seen[r].account)
           /\ ask[r].kind \in {"trade", "rebalance", "kyc"} => Subject(r) \in Range(Updates(r))
           /\ ask[r].kind \in {"approve", "reject"} => ask[r].app \in Range(Updates(r))
<1> DEFINE q == ask[r]
           own == seen[r].account
<1>0. Asked(q) /\ own \in Accounts
    BY DEF Worded
<1>1. q.to \in Seq(Accounts) /\ q.to \in Seq(Rows) /\ own \in Rows /\ q.app \in Rows /\ q.kind \in Handlers
      /\ q.amount \in Int
    BY <1>0 DEF Asked, Rows
<1>2. ASSUME NEW x \in Rows, Updates(r) = <<x>> \o q.to
      PROVE  x \in Range(Updates(r)) /\ \A i \in DOMAIN q.to : q.to[i] \in Range(Updates(r))
    <2> HIDE DEF q
    <2> QED BY <1>1, <1>2, FirstAndRest
<1>3. ASSUME NEW x, Updates(r) = <<x>>
      PROVE  x \in Range(Updates(r))
    BY <1>3 DEF Range
<1>4. ASSUME NEW a, \A i \in DOMAIN q.to : q.to[i] # a
      PROVE  Cardinality({i \in DOMAIN q.to : q.to[i] = a}) * q.amount = 0
    <2>1. {i \in DOMAIN q.to : q.to[i] = a} = {} /\ 0 * q.amount = 0
        BY <1>1, <1>4
    <2> HIDE DEF q
    <2> QED BY <2>1, FS_EmptySet
<1>5. ASSUME NEW a, \A i \in DOMAIN q.to : q.to[i] # a, a # own,
             q.kind \in {"self", "payee", "payroll", "unlock", "post", "trade"}
      PROVE  Change(r, a) = 0
    <2> DEFINE paid == Cardinality({i \in DOMAIN q.to : q.to[i] = a}) * q.amount
    <2>1. paid = 0 /\ paid - 0 = 0
        <3>1. paid = 0
            BY <1>4, <1>5
        <3> HIDE DEF paid
        <3> QED BY <3>1
    <2>2. CASE q.kind \in {"self", "payee", "payroll", "unlock"}
        <3>1. Change(r, a) = paid - 0
            BY <1>5, <2>2 DEF Change
        <3> QED BY <2>1, <3>1
    <2>3. CASE q.kind = "post"
        <3>1. Change(r, a) = IF q.type \in {"TRANSFER", "PAYMENT"} THEN paid - 0 ELSE 0
            BY <1>5, <2>3 DEF Change
        <3> QED BY <2>1, <3>1
    <2>4. CASE q.kind = "trade"
        BY <1>5, <2>4, TradesTouchOneAccount
    <2> QED BY <1>5, <2>2, <2>3, <2>4
<1>6. CASE q.kind \in {"self", "payee", "payroll"} \/ (q.kind = "post" /\ q.type \in {"TRANSFER", "PAYMENT"})
    <2>1. Updates(r) = <<own>> \o q.to
        BY <1>6 DEF Updates
    <2>2. own \in Range(Updates(r)) /\ \A i \in DOMAIN q.to : q.to[i] \in Range(Updates(r))
        BY <1>1, <1>2, <2>1
    <2>3. ASSUME NEW a \in Accounts \ Range(Updates(r)) PROVE Change(r, a) = 0
        BY <1>5, <1>6, <2>2
    <2> QED BY <2>3, <1>6
<1>7. CASE q.kind = "post" /\ q.type \notin {"TRANSFER", "PAYMENT"}
    BY <1>7, WithdrawalsChangeNothing
<1>8. CASE q.kind = "unlock"
    <2>1. Updates(r) = <<own>> /\ q.to = <<>>
        BY <1>0, <1>8 DEF Updates, Asked
    <2>2. own \in Range(Updates(r))
        BY <1>3, <2>1
    <2>3. ASSUME NEW a \in Accounts \ Range(Updates(r)) PROVE Change(r, a) = 0
        <3>1. a # own /\ \A i \in DOMAIN q.to : q.to[i] # a
            BY <2>1, <2>2
        <3> QED BY <1>5, <1>8, <3>1
    <2> QED BY <2>3, <1>8
<1>9. CASE q.kind \in {"trade", "rebalance"}
    <2>1. Updates(r) = <<own>>
        BY <1>9 DEF Updates
    <2>2. own \in Range(Updates(r))
        BY <1>3, <2>1
    <2>3. Subject(r) = own
        BY <1>9 DEF Subject
    <2>4. CASE q.kind = "rebalance"
        <3>1. \A a \in Accounts : Change(r, a) = 0
            BY <2>4 DEF Change
        <3> QED BY <2>2, <2>3, <2>4, <3>1
    <2>5. CASE q.kind = "trade"
        <3>1. ASSUME NEW a \in Accounts \ Range(Updates(r)) PROVE Change(r, a) = 0
            <4>1. a # own
                BY <2>2
            <4> QED BY <4>1, <2>5, TradesTouchOneAccount
        <3> QED BY <2>2, <2>3, <2>5, <3>1
    <2> QED BY <1>9, <2>4, <2>5
<1>10. CASE q.kind = "approve"
    <2>1. Updates(r) = <<q.app>> \o q.to
        BY <1>10 DEF Updates
    <2>2. q.app \in Range(Updates(r)) /\ \A i \in DOMAIN q.to : q.to[i] \in Range(Updates(r))
        BY <1>1, <1>2, <2>1
    <2>3. \A a : Change(r, a) = Cardinality({i \in DOMAIN q.to : q.to[i] = a}) * q.amount
        BY <1>10 DEF Change
    <2>4. ASSUME NEW a \in Accounts \ Range(Updates(r)) PROVE Change(r, a) = 0
        BY <1>4, <2>2, <2>3
    <2> QED BY <2>2, <2>4, <1>10
<1>11. CASE q.kind \in {"reject", "kyc"}
    <2>1. Updates(r) = <<q.app>>
        BY <1>11 DEF Updates
    <2>2. q.app \in Range(Updates(r))
        BY <1>3, <2>1
    <2>3. \A a : Change(r, a) = 0
        BY <1>11 DEF Change
    <2>4. Subject(r) = q.app
        BY <1>11 DEF Subject
    <2> QED BY <2>2, <2>3, <2>4, <1>11
<1>12. \/ q.kind \in {"self", "payee", "payroll"} \/ (q.kind = "post" /\ q.type \in {"TRANSFER", "PAYMENT"})
       \/ q.kind = "post" /\ q.type \notin {"TRANSFER", "PAYMENT"}
       \/ q.kind = "unlock" \/ q.kind \in {"trade", "rebalance"} \/ q.kind = "approve"
       \/ q.kind \in {"reject", "kyc"}
    BY <1>1 DEF Handlers
<1> HIDE DEF q
<1> QED
    BY <1>6, <1>7, <1>8, <1>9, <1>10, <1>11, <1>12

(* A commit leaves balances, documents and statuses of other rows alone.    *)
LEMMA CommitTouches ==
    ASSUME IInv, BInv, Fresh, NEW r \in Requests, Commit(r)
    PROVE  /\ \A a \in Accounts \ Range(Updates(r)) : balance'[a] = balance[a]
           /\ \A row \in Rows \ Range(Updates(r)) : document'[row] = document[row]
           /\ \A p \in Apps \ Range(Updates(r)) : status'[p] = status[p]
           /\ DOMAIN document' = Rows
<1>1. /\ pc[r] = "write" /\ balance' = BalanceAfter(r) /\ document' = DocumentAfter(r)
      /\ status' = StatusAfter(r)
    BY DEF Commit
<1>2. /\ \A a \in Accounts \ Range(Updates(r)) :
           Change(r, a) = 0 /\ (ask[r].kind = "rebalance" => a # seen[r].account)
      /\ ask[r].kind \in {"trade", "rebalance", "kyc"} => Subject(r) \in Range(Updates(r))
      /\ ask[r].kind \in {"approve", "reject"} => ask[r].app \in Range(Updates(r))
    BY <1>1, UpdatesCoverChanges DEF BInv, Fresh
<1>3. \A a \in Accounts \ Range(Updates(r)) : balance'[a] = balance[a]
    <2>1. balance \in [Accounts -> Int]
        BY DEF BInv, Worded
    <2>2. \A a \in Accounts \ Range(Updates(r)) : balance'[a] = balance[a] + Change(r, a)
        BY <1>1, <1>2 DEF BalanceAfter
    <2> QED BY <1>2, <2>1, <2>2
<1>4. /\ \A row \in Rows \ Range(Updates(r)) : document'[row] = document[row]
      /\ DOMAIN document' = Rows
    <2>1. DOMAIN document = Rows
        BY DEF Fresh
    <2>2. document' = document \/ \E d : document' = [document EXCEPT ![Subject(r)] = d]
                                        /\ ask[r].kind \in {"trade", "rebalance", "kyc"}
        BY <1>1 DEF DocumentAfter
    <2> QED BY <1>2, <2>1, <2>2
<1>5. \A p \in Apps \ Range(Updates(r)) : status'[p] = status[p]
    <2>1. status' = status \/ \E d : status' = [status EXCEPT ![ask[r].app] = d]
                                    /\ ask[r].kind \in {"approve", "reject"}
        BY <1>1 DEF StatusAfter
    <2> QED BY <1>2, <2>1 DEF IInv, Typed
<1> QED BY <1>3, <1>4, <1>5

(* A commit races whoever had read a row it changes, and nobody else.       *)
LEMMA CommitFresh ==
    ASSUME IInv, BInv, Fresh, NEW r \in Requests, Commit(r)
    PROVE  Fresh'
<1>1. /\ pc' = [pc EXCEPT ![r] = "tell"] /\ UNCHANGED <<ask, seen>>
      /\ raced' = [s \in Requests |-> raced[s] \/ (s # r /\ pc[s] = "write" /\ Subject(s) \in Range(Updates(r)))]
    BY DEF Commit
<1>2. /\ \A a \in Accounts \ Range(Updates(r)) : balance'[a] = balance[a]
      /\ \A row \in Rows \ Range(Updates(r)) : document'[row] = document[row]
      /\ \A p \in Apps \ Range(Updates(r)) : status'[p] = status[p]
      /\ DOMAIN document' = Rows
    BY CommitTouches
<1>3. raced' \in [Requests -> BOOLEAN]
    BY <1>1 DEF Fresh
<1>4. ASSUME NEW s \in Requests, pc'[s] = "write"
      PROVE  /\ ask[s].kind = "post" => seen[s].account = ask[s].from
             /\ ~ raced'[s] => AsRead(s)'
    <2>1. pc[s] = "write" /\ s # r
        BY <1>1, <1>4 DEF IInv, Typed
    <2>2. CASE Subject(s) \in Range(Updates(r))
        <3>1. raced'[s]
            BY <1>1, <2>1, <2>2
        <3> QED BY <2>1, <3>1 DEF Fresh
    <2>3. CASE Subject(s) \notin Range(Updates(r))
        <3>1. raced'[s] <=> raced[s]
            BY <1>1, <2>3 DEF Fresh
        <3>2. ~ raced[s] => AsRead(s)
            BY <2>1 DEF Fresh
        <3>3. ask[s].app \in Apps /\ seen[s].account \in Accounts
            BY DEF BInv, Worded, Asked
        <3>4. AsRead(s) => AsRead(s)'
            <4>1. ask[s].kind \notin {"approve", "reject", "kyc"} => Subject(s) = seen[s].account
                BY DEF Subject
            <4>2. ask[s].kind \in {"approve", "reject", "kyc"} => Subject(s) = ask[s].app
                BY DEF Subject
            <4> QED BY <1>1, <1>2, <2>3, <3>3, <4>1, <4>2 DEF AsRead, Rows, Covers, IsChecked, Debit
        <3> QED BY <2>1, <3>1, <3>2, <3>4 DEF Fresh
    <2> QED BY <2>2, <2>3
<1> QED BY <1>1, <1>2, <1>3, <1>4 DEF Fresh

(* What unraced requests have read stays the present until they write.      *)
LEMMA StepFresh == IInv /\ BInv /\ Fresh /\ [Next]_vars => Fresh'
<1> SUFFICES ASSUME IInv, BInv, Fresh, [Next]_vars PROVE Fresh'
    OBVIOUS
<1>0. /\ pc \in [Requests -> Points] /\ DOMAIN ask = Requests /\ DOMAIN seen = Requests
      /\ status \in [Apps -> Statuses]
    BY DEF IInv, BInv, Typed, Worded
<1>1. ASSUME UNCHANGED <<balance, document, status, ask, seen, raced>>,
             \A r \in Requests : pc'[r] = "write" => pc[r] = "write"
      PROVE  Fresh'
    BY <1>1 DEF Fresh, AsRead, Covers, IsChecked, Debit
<1>2. ASSUME NEW p \in Apps, Apply(p) PROVE Fresh'
    <2>1. /\ status[p] = "none" /\ status' = [status EXCEPT ![p] = "PENDING"]
          /\ UNCHANGED <<balance, document, pc, ask, seen, raced>>
        BY <1>2 DEF Apply
    <2>2. \A r \in Requests : status[ask[r].app] = "PENDING" => status'[ask[r].app] = "PENDING"
        BY <1>0, <2>1
    <2>3. \A r \in Requests : AsRead(r) => AsRead(r)'
        BY <2>1, <2>2 DEF AsRead, Covers, IsChecked, Debit
    <2> QED BY <2>1, <2>3 DEF Fresh
<1>3. ASSUME NEW r \in Requests, Arrive(r) PROVE Fresh'
    <2>1. PICK q \in Questions : ask' = [ask EXCEPT ![r] = q]
        BY <1>3 DEF Arrive
    <2>2. pc' = [pc EXCEPT ![r] = "read"] /\ UNCHANGED <<balance, document, status, seen, raced>>
        BY <1>3 DEF Arrive
    <2>3. ASSUME NEW s \in Requests, pc'[s] = "write"
          PROVE  /\ ask'[s].kind = "post" => seen[s].account = ask'[s].from
                 /\ ~ raced[s] => AsRead(s)'
        <3>1. s # r /\ pc[s] = "write" /\ ask'[s] = ask[s]
            BY <1>0, <2>1, <2>2, <2>3
        <3>2. AsRead(s) => AsRead(s)'
            BY <2>2, <3>1 DEF AsRead, Covers, IsChecked, Debit
        <3> QED BY <3>1, <3>2 DEF Fresh
    <2> QED BY <2>2, <2>3 DEF Fresh
<1>4. ASSUME NEW r \in Requests, Read(r) PROVE Fresh'
    <2>1. pc[r] = "read" /\ UNCHANGED <<balance, document, status, ask, raced>>
        BY <1>4 DEF Read
    <2>2. CASE Answer(r, "refused") /\ UNCHANGED seen
        BY <1>0, <1>1, <2>1, <2>2 DEF Answer
    <2>3. ASSUME NEW a \in Candidates(ask[r]), ~ Refused(ask[r], a),
                 \E v \in IF ask[r].kind = "rebalance" /\ document[a] # {} THEN Values ELSE {0} :
                     seen' = [seen EXCEPT ![r] =
                       [account |-> a, cash |-> balance[a], value |-> v,
                        document |-> document[IF ask[r].kind = "kyc" THEN ask[r].app ELSE a]]],
                 pc' = [pc EXCEPT ![r] = "write"]
          PROVE  Fresh'
        <3>a. PICK v :
                 seen' = [seen EXCEPT ![r] =
                   [account |-> a, cash |-> balance[a], value |-> v,
                    document |-> document[IF ask[r].kind = "kyc" THEN ask[r].app ELSE a]]]
            BY <2>3
        <3> DEFINE new0 == [account |-> a, cash |-> balance[a], value |-> v,
                    document |-> document[IF ask[r].kind = "kyc" THEN ask[r].app ELSE a]]
        <3>b. /\ seen' = [seen EXCEPT ![r] = new0] /\ new0.account = a /\ new0.cash = balance[a]
               /\ new0.document = document[IF ask[r].kind = "kyc" THEN ask[r].app ELSE a]
            BY <3>a
        <3> HIDE DEF new0
        <3>1. PICK new :
                /\ seen' = [seen EXCEPT ![r] = new] /\ new.account = a /\ new.cash = balance[a]
                /\ new.document = document[IF ask[r].kind = "kyc" THEN ask[r].app ELSE a]
            BY <3>b
        <3>2. seen'[r] = new /\ \A s \in Requests \ {r} : seen'[s] = seen[s] /\ pc'[s] = pc[s]
            BY <1>0, <2>3, <3>1
        <3>3. AsRead(r)'
            <4>1. Covers(balance[a], ask[r])
                BY <2>3 DEF Refused
            <4>2. ask[r].kind \in {"approve", "reject"} => status[ask[r].app] = "PENDING"
                BY <2>3 DEF Refused
            <4> QED BY <2>1, <3>1, <3>2, <4>1, <4>2 DEF AsRead, Covers, IsChecked, Debit
        <3>4. ask[r].kind = "post" => new.account = ask[r].from
            BY <2>3, <3>1 DEF Candidates
        <3>5. \A s \in Requests \ {r} : AsRead(s) => AsRead(s)'
            BY <2>1, <3>2 DEF AsRead, Covers, IsChecked, Debit
        <3> QED BY <2>1, <3>2, <3>3, <3>4, <3>5 DEF Fresh
    <2> QED BY <1>4, <2>2, <2>3 DEF Read
<1>5. ASSUME NEW r \in Requests, Update(r) PROVE Fresh'
    BY <1>1, <1>5 DEF Update
<1>6. ASSUME NEW r \in Requests, Commit(r) PROVE Fresh'
    BY <1>6, CommitFresh
<1>7. ASSUME NEW r \in Requests, Abort(r) PROVE Fresh'
    BY <1>0, <1>1, <1>7 DEF Abort, Answer
<1>8. ASSUME NEW r \in Requests, Tell(r) PROVE Fresh'
    BY <1>0, <1>1, <1>8 DEF Tell, Answer
<1>9. ASSUME Crash PROVE Fresh'
    <2>1. \A r \in Requests : pc'[r] = "write" => pc[r] = "write"
        BY <1>9 DEF Crash
    <2> QED BY <1>1, <1>9, <2>1 DEF Crash
<1>10. CASE UNCHANGED vars
    BY <1>1, <1>10 DEF vars
<1> QED
    BY <1>2, <1>3, <1>4, <1>5, <1>6, <1>7, <1>8, <1>9, <1>10 DEF Next

(* A commit nobody raced does what it would do alone.                       *)
LEMMA CommitIsSerial ==
    ASSUME IInv, BInv, Fresh, NEW r \in Requests, Commit(r), ~ raced[r]
    PROVE  LET q == ask[r]  a == seen[r].account
           IN  /\ IsChecked(q) => balance'[a] >= 0
               /\ q.kind \in {"trade", "kyc"} => document'[Subject(r)] = document[Subject(r)] \cup {r}
               /\ q.kind = "rebalance" =>
                    \E e \in book' : e.by = r /\ e.amount = Abs(balance'[a] - balance[a])
               /\ q.kind = "approve" => PaidOut(q.app) = {}
               /\ q.kind = "reject" => PaidOut(q.app) = {}
<1> DEFINE q == ask[r]
           a == seen[r].account
<1>1. /\ pc[r] = "write" /\ balance' = BalanceAfter(r) /\ document' = DocumentAfter(r)
      /\ book' = book \cup Entries(r)
    BY DEF Commit
<1>2. AsRead(r)
    BY <1>1 DEF Fresh
<1>3. Asked(q) /\ a \in Accounts /\ balance[a] \in Int /\ seen[r].cash \in Int /\ seen[r].value \in Int
    BY DEF BInv, Worded
<1>4. ASSUME IsChecked(q) PROVE balance'[a] >= 0
    <2>1. balance[a] >= Debit(q)
        BY <1>2, <1>4 DEF AsRead, Covers, IsChecked
    <2> DEFINE paid == Cardinality({i \in DOMAIN q.to : q.to[i] = a}) * q.amount
    <2>2. paid \in Nat /\ Debit(q) \in Nat
        <3>1. q.to \in Seq(Accounts) /\ q.amount \in Nat /\ DOMAIN q.to = 1 .. Len(q.to) /\ Len(q.to) \in Nat
            BY <1>3 DEF Asked
        <3>2. Cardinality({i \in DOMAIN q.to : q.to[i] = a}) \in Nat
            <4> DEFINE I == 1 .. Len(q.to)
                       J == {i \in I : q.to[i] = a}
            <4>1. IsFiniteSet(I) /\ J \in SUBSET I
                BY <3>1, FS_Interval
            <4>2. IsFiniteSet(J)
                <5> HIDE DEF I, J
                <5> QED BY <4>1, FS_Subset
            <4>3. Cardinality(J) \in Nat
                BY <4>2, FS_CardinalityType
            <4> QED BY <3>1, <4>3
        <3>3. \A m, n \in Nat : m * n \in Nat
            OBVIOUS
        <3>4. paid \in Nat
            BY <3>1, <3>2, <3>3
        <3> HIDE DEF paid
        <3> QED BY <3>1, <3>3, <3>4 DEF Debit
    <2>3. Change(r, a) = paid - Debit(q) \/ Change(r, a) = - Debit(q)
        BY <1>4 DEF IsChecked, Change
    <2>4. balance'[a] = balance[a] + Change(r, a)
        BY <1>1, <1>3, <1>4 DEF BalanceAfter, IsChecked
    <2> HIDE DEF paid, q, a
    <2> QED BY <2>1, <2>2, <2>3, <2>4, <1>3
<1>5. ASSUME q.kind \in {"trade", "kyc"} PROVE document'[Subject(r)] = document[Subject(r)] \cup {r}
    <2>1. document' = [document EXCEPT ![Subject(r)] = seen[r].document \cup {r}]
        BY <1>1, <1>5 DEF DocumentAfter
    <2>2. Subject(r) \in DOMAIN document
        BY <1>3, <1>5 DEF Fresh, Subject, Asked, Rows
    <2>3. seen[r].document = document[Subject(r)]
        BY <1>2, <1>5 DEF AsRead, Subject
    <2> QED BY <2>1, <2>2, <2>3
<1>6. ASSUME q.kind = "rebalance"
      PROVE  \E e \in book' : e.by = r /\ e.amount = Abs(balance'[a] - balance[a])
    <2>1. PICK e : e \in Entries(r) /\ e.by = r /\ e.amount = Abs(seen[r].cash - CashReserve(r))
        <3> DEFINE n == Abs(seen[r].cash - CashReserve(r))
        <3>1. PICK e, c : e = Entry(r, 1, a, "bank", n, c) /\ Entries(r) = {e}
            BY <1>6 DEF Entries
        <3> HIDE DEF n
        <3>2. e.by = r /\ e.amount = n
            BY <3>1 DEF Entry
        <3> QED BY <3>1, <3>2 DEF n
    <2>2. balance'[a] = CashReserve(r) /\ balance[a] = seen[r].cash
        BY <1>1, <1>2, <1>3, <1>6 DEF BalanceAfter, AsRead
    <2>3. CashReserve(r) \in Int
        BY <1>3 DEF CashReserve
    <2>4. \A m, n \in Int : Abs(m - n) = Abs(n - m)
        BY DEF Abs
    <2>5. e.amount = Abs(balance'[a] - balance[a])
        BY <2>1, <2>2, <2>3, <2>4, <1>3
    <2> QED BY <1>1, <2>1, <2>5
<1>7. ASSUME q.kind \in {"approve", "reject"} PROVE PaidOut(q.app) = {}
    <2>1. status[q.app] = "PENDING" /\ q.app \in Apps
        BY <1>2, <1>3, <1>7 DEF AsRead, Asked
    <2> QED BY <2>1 DEF IInv, PayoutsMatchApplications, PaidOut
<1> QED BY <1>4, <1>5, <1>6, <1>7

(* A handler nobody raced does what it would do alone, for any number of     *)
(* handlers beside it.                                                       *)
THEOREM UnracedSerial == Spec => UnracedIsSerial
<1>1. Init => Fresh
    BY DEF Init, Fresh
<1>2. IInv /\ BInv /\ Fresh /\ [Next]_vars => Fresh'
    BY StepFresh
<1>3. ASSUME IInv, BInv, Fresh, Next
      PROVE  \A r \in Requests :
                LET q == ask[r]  a == seen[r].account
                IN  pc[r] = "write" /\ pc'[r] = "tell" /\ ~ raced[r] =>
                      /\ IsChecked(q) => balance'[a] >= 0
                      /\ q.kind \in {"trade", "kyc"} => document'[Subject(r)] = document[Subject(r)] \cup {r}
                      /\ q.kind = "rebalance" =>
                           \E e \in book' : e.by = r /\ e.amount = Abs(balance'[a] - balance[a])
                      /\ q.kind = "approve" => PaidOut(q.app) = {}
                      /\ q.kind = "reject" => PaidOut(q.app) = {}
    <2> SUFFICES ASSUME NEW r \in Requests, pc[r] = "write", pc'[r] = "tell" PROVE Commit(r)
        BY <1>3, CommitIsSerial
    <2>1. pc \in [Requests -> Points]
        BY <1>3 DEF IInv, Typed
    <2>2. ASSUME NEW s \in Requests, Arrive(s) \/ Read(s) \/ Update(s) \/ Abort(s) \/ Tell(s)
          PROVE  FALSE
        BY <2>1, <2>2 DEF Arrive, Read, Update, Abort, Tell, Answer
    <2>3. ASSUME NEW s \in Requests, Commit(s), s # r PROVE FALSE
        BY <2>1, <2>3 DEF Commit
    <2>4. ASSUME NEW p \in Apps, Apply(p) PROVE FALSE
        BY <2>4 DEF Apply
    <2>5. ~ Crash
        BY DEF Crash
    <2> QED BY <1>3, <2>2, <2>3, <2>4, <2>5 DEF Next
<1> QED BY <1>1, <1>2, <1>3, BalancesInvariant, LedgerInvariant, PTL DEF Spec, UnracedIsSerial

(* ---- a run of the simulator ---- *)
\* The awaits of a customer whose worker is busy with it.
Pending == {"customer", "account", "salary", "issue", "days", "approve", "loan", "disburse",
            "unlock", "settle"}
Busy == Pending \cup {"flush"}
Stages == Busy \cup {"waiting", "done", "skipped"}
AllEnded == \A w \in Workers : worker[w] = Ended

\* Whose turn it is: the counter divides the customers that wait from those that were
\* taken, and a busy customer has exactly one worker.
PoolTypes ==
  /\ nextUser \in 1 .. (Count + 1)
  /\ worker \in [Workers -> Users \cup {Nobody, Ended}]
  /\ stage \in [Users -> Stages]
  /\ finished \in Seq(Users)
  /\ skipped \subseteq Users
Turns ==
  /\ \A u \in Users : stage[u] = "waiting" <=> u >= nextUser
  /\ \A w \in Workers : worker[w] \in Users => stage[worker[w]] \in Busy
  /\ \A v, w \in Workers : v # w /\ worker[v] \in Users => worker[v] # worker[w]
  /\ \A u \in Users : stage[u] \in Busy => \E w \in Workers : worker[w] = u
  /\ \A w \in Workers : worker[w] = Ended => nextUser = Count + 1
\* Where a customer that is through has been counted.
Counted ==
  /\ \A u \in Users : u \in Finished <=> stage[u] \in {"flush", "done"}
  /\ \A u \in Users : u \in skipped <=> stage[u] = "skipped"
  /\ \A i, j \in DOMAIN finished : i # j => finished[i] # finished[j]
\* The payee pass and the answer come after the last worker.
PassIsLast == pair.step # "none" \/ request \in {"ok", "error"} => AllEnded

PoolInv == PoolTypes /\ Turns /\ Counted /\ PassIsLast

\* What a step of one customer is to the pool.
rest == <<request, nextUser, pair>>
Advance(u) ==
  /\ stage[u] \in Pending
  /\ \E s \in Pending : stage' = [stage EXCEPT ![u] = s]
  /\ UNCHANGED <<rest, worker, finished, skipped>>
SkipIt(u) ==
  /\ stage[u] \in Pending /\ stage' = [stage EXCEPT ![u] = "skipped"] /\ LeaveSkipped(u)
  /\ UNCHANGED <<rest, finished>>
CountIt(u) ==
  /\ stage[u] \in Pending /\ stage' = [stage EXCEPT ![u] = "flush"]
  /\ finished' = Append(finished, u)
  /\ UNCHANGED <<rest, worker, skipped>>
FreeIt(u) ==
  /\ stage[u] = "flush" /\ stage' = [stage EXCEPT ![u] = "done"]
  /\ worker' = [w \in Workers |-> IF worker[w] = u THEN Nobody ELSE worker[w]]
  /\ UNCHANGED <<rest, finished, skipped>>

\* Every action of runUser is one of the four.
LEMMA RunUserView ==
  ASSUME PoolInv, NEW u \in Users, RunUser(u)
  PROVE  Advance(u) \/ SkipIt(u) \/ CountIt(u) \/ FreeIt(u)
<1> USE DEF PoolInv, PoolTypes, Stages, Busy, Pending, Advance, SkipIt, CountIt, FreeIt, rest,
         pool, bank, memory
<1>1. ASSUME NEW here \in Pending, NEW next \in Pending, Await(u, here, next)
      PROVE Advance(u) \/ SkipIt(u)
  BY <1>1 DEF Await
<1>2. CASE CreateCustomer(u) \/ OpenAccount(u) \/ FirstSalary(u) \/ Issue(u)
  BY <1>1, <1>2 DEF CreateCustomer, OpenAccount, FirstSalary, Issue
<1>3. CASE Reuse(u)
  BY <1>3 DEF Reuse
<1>4. CASE Days(u)
  <2>1. CASE PayDay(u) \/ Kyc(u) \/ ApplyForLoan(u) \/ Approve(u) \/ Grant(u) \/ Disburse(u)
    BY <1>1, <2>1 DEF PayDay, Kyc, ApplyForLoan, Approve, Grant, Disburse
  <2>2. CASE \E n \in Spends : Spend(u, n) \/ Withdraw(u, n)
    BY <1>1, <2>2 DEF Spend, Withdraw
  <2>3. CASE License(u)
    BY <2>3 DEF License
  <2>4. CASE Unlock(u)
    BY <2>4 DEF Unlock
  <2>5. CASE EndDays(u)
    BY <2>5 DEF EndDays
  <2> QED BY <1>4, <2>1, <2>2, <2>3, <2>4, <2>5 DEF Days
<1>5. CASE Settle(u)
  BY <1>5 DEF Settle
<1>6. CASE Flush(u)
  BY <1>6 DEF Flush
<1>7. CASE Throw(u)
  BY <1>7 DEF Throw
<1> QED BY <1>2, <1>3, <1>4, <1>5, <1>6, <1>7 DEF RunUser

\* Initially every customer waits.
LEMMA PoolInitInv ==
  ASSUME RunInit PROVE PoolInv
<1> USE RunAssumption DEF RunInit, Users
<1>1. PoolTypes
  BY DEF PoolTypes, Stages, Busy
<1>2. Turns
  BY DEF Turns, Busy, Pending
<1>3. Counted /\ PassIsLast
  BY DEF Counted, PassIsLast, Finished, NoPair
<1> QED BY <1>1, <1>2, <1>3 DEF PoolInv

\* A worker takes the customer the counter points at, which waits, so nobody has it.
LEMMA TakeInv ==
  ASSUME PoolInv, NEW w \in Workers, Take(w)
  PROVE  PoolInv'
<1> USE RunAssumption DEF PoolInv, Take
<1>1. PoolTypes'
  BY DEF PoolTypes, Users, Stages, Busy, Pending
<1>2. CASE nextUser > Count
  <2>1. worker' = [worker EXCEPT ![w] = Ended] /\ UNCHANGED <<nextUser, stage, request, pair,
             finished, skipped>>
    BY <1>2
  <2>2. nextUser = Count + 1
    BY <1>2 DEF PoolTypes, Users
  <2>3. Turns'
    BY <2>1, <2>2 DEF Turns, PoolTypes, Users
  <2>4. Counted' /\ PassIsLast'
    BY <2>1 DEF Counted, Finished, PassIsLast, AllEnded, PoolTypes
  <2> QED BY <1>1, <2>3, <2>4
<1>3. CASE ~(nextUser > Count)
  <2> DEFINE n == nextUser
  <2>1. /\ n \in Users /\ nextUser' = n + 1 /\ n \in Int
        /\ worker' = [worker EXCEPT ![w] = n] /\ stage' = [stage EXCEPT ![n] = "customer"]
        /\ UNCHANGED <<request, pair, finished, skipped>>
    BY <1>3 DEF PoolTypes, Users
  <2>2. stage[n] = "waiting" /\ n # Nobody /\ n # Ended
    BY <2>1 DEF Turns, Users
  <2>3. \A v \in Workers : worker[v] # n
    BY <2>1, <2>2 DEF Turns, Busy, Pending
  <2>4. Turns'
    <3>1. \A u \in Users : (stage[u] = "waiting")' <=> u >= nextUser'
      BY <2>1 DEF Turns, PoolTypes, Users
    <3>2. \A v \in Workers : worker'[v] \in Users => stage'[worker'[v]] \in Busy
      BY <2>1, <2>3 DEF Turns, PoolTypes, Busy, Pending
    <3>3. \A v, x \in Workers : v # x /\ worker'[v] \in Users => worker'[v] # worker'[x]
      BY <2>1, <2>3 DEF Turns, PoolTypes
    <3>4. \A u \in Users : stage'[u] \in Busy => \E v \in Workers : worker'[v] = u
      <4> TAKE u \in Users
      <4>1. CASE u = n
        BY <2>1, <4>1 DEF PoolTypes
      <4>2. CASE u # n
        <5> SUFFICES ASSUME stage[u] \in Busy PROVE \E v \in Workers : worker'[v] = u
          BY <2>1, <4>2 DEF PoolTypes
        <5>1. PICK v \in Workers : worker[v] = u
          BY DEF Turns
        <5>2. v # w
          BY <5>1 DEF Users
        <5> QED BY <2>1, <5>1, <5>2 DEF PoolTypes
      <4> QED BY <4>1, <4>2
    <3>5. \A v \in Workers : worker'[v] # Ended
      BY <1>3, <2>1, <2>2 DEF Turns, PoolTypes, Users
    <3> QED BY <3>1, <3>2, <3>3, <3>4, <3>5 DEF Turns
  <2>5. Counted'
    BY <2>1, <2>2 DEF Counted, Finished, PoolTypes
  <2>6. PassIsLast'
    BY <2>1 DEF PassIsLast, AllEnded
  <2> QED BY <1>1, <2>4, <2>5, <2>6
<1> QED BY <1>2, <1>3

\* A step of one customer, seen from the pool.
LEMMA AdvanceInv ==
  ASSUME PoolInv, NEW u \in Users, Advance(u)
  PROVE  PoolInv'
<1> USE DEF PoolInv, Advance, rest, PoolTypes
<1>1. PICK s \in Pending : stage' = [stage EXCEPT ![u] = s]
  OBVIOUS
<1>2. PoolTypes'
  BY <1>1 DEF Stages, Busy
<1>3. Turns'
  BY <1>1 DEF Turns, Busy, Pending
<1>4. Counted'
  BY <1>1 DEF Counted, Finished, Pending
<1>5. PassIsLast'
  BY DEF PassIsLast, AllEnded
<1> QED BY <1>2, <1>3, <1>4, <1>5

\* SkipIt keeps the invariant.
LEMMA SkipItInv ==
  ASSUME PoolInv, NEW u \in Users, SkipIt(u)
  PROVE  PoolInv'
<1> USE RunAssumption DEF PoolInv, SkipIt, LeaveSkipped, rest, PoolTypes
<1>1. PoolTypes'
  BY DEF Stages
<1>2. Turns'
  BY DEF Turns, Busy, Pending
<1>3. Counted'
  BY DEF Counted, Finished, Pending
<1>4. PassIsLast'
  BY DEF PassIsLast, AllEnded
<1> QED BY <1>1, <1>2, <1>3, <1>4

\* CountIt keeps the invariant.
LEMMA CountItInv ==
  ASSUME PoolInv, NEW u \in Users, CountIt(u)
  PROVE  PoolInv'
<1> USE DEF PoolInv, CountIt, rest, PoolTypes
<1>1. /\ finished' \in Seq(Users) /\ DOMAIN finished = 1 .. Len(finished)
      /\ DOMAIN finished' = 1 .. (Len(finished) + 1) /\ Len(finished) \in Nat
      /\ \A i \in 1 .. Len(finished) : finished'[i] = finished[i]
      /\ finished'[Len(finished) + 1] = u
  BY AppendProperties, LenProperties
<1>2. PoolTypes'
  BY <1>1 DEF Stages, Busy
<1>3. Turns'
  BY DEF Turns, Busy, Pending
<1>4. Counted'
  <2>1. u \notin Finished /\ Finished' = Finished \cup {u}
    BY <1>1 DEF Counted, Finished, Pending
  <2>2. \A i, j \in DOMAIN finished' : i # j => finished'[i] # finished'[j]
    BY <1>1, <2>1 DEF Counted, Finished
  <2>3. \A v \in Users : v \in Finished' <=> stage'[v] \in {"flush", "done"}
    BY <2>1 DEF Counted
  <2> QED BY <2>2, <2>3 DEF Counted, Pending
<1>5. PassIsLast'
  BY DEF PassIsLast, AllEnded
<1> QED BY <1>2, <1>3, <1>4, <1>5

\* FreeIt keeps the invariant.
LEMMA FreeItInv ==
  ASSUME PoolInv, NEW u \in Users, FreeIt(u)
  PROVE  PoolInv'
<1> USE RunAssumption DEF PoolInv, FreeIt, rest, PoolTypes
<1>1. PoolTypes'
  BY DEF Stages
<1>2. Turns'
  BY DEF Turns, Busy, Pending
<1>3. Counted'
  BY DEF Counted, Finished
<1>4. PassIsLast'
  BY DEF PassIsLast, AllEnded
<1> QED BY <1>1, <1>2, <1>3, <1>4

\* The request's other steps leave the pool alone, or wait for its end.
LEMMA RequestInv ==
  ASSUME PoolInv, Refuse \/ Fast \/ Start \/ NextPair \/ AddPayee \/ TransferRow \/ DebitPayer
               \/ CreditPayee \/ AnswerRun
  PROVE  PoolInv'
<1>1. UNCHANGED <<nextUser, worker, stage, finished, skipped>>
  <2>1. CASE Refuse \/ Fast \/ Start
    BY <2>1 DEF Refuse, Fast, Start
  <2>2. CASE Walking
    BY <2>2 DEF Walking
  <2>3. NextPair \/ AddPayee \/ TransferRow \/ DebitPayer \/ CreditPayee \/ AnswerRun => Walking
    <3>1. NextPair => Walking
      BY DEF NextPair
    <3>2. AddPayee => Walking
      BY Zenon DEF AddPayee
    <3>3. (TransferRow => Walking) /\ (AnswerRun => Walking)
      BY Zenon DEF TransferRow, AnswerRun
    <3>4. DebitPayer => Walking
      BY Zenon DEF DebitPayer, Move
    <3>5. CreditPayee => Walking
      BY Zenon DEF CreditPayee, Move
    <3> QED BY <3>1, <3>2, <3>3, <3>4, <3>5
  <2> QED BY <2>1, <2>2, <2>3
<1>2. PoolTypes' /\ Turns' /\ Counted'
  BY <1>1 DEF PoolInv, PoolTypes, Turns, Counted, Finished
<1>3. PassIsLast'
  <2>1. CASE Refuse \/ Fast \/ Start
    BY <1>1, <2>1 DEF PoolInv, PassIsLast, AllEnded, Refuse, Fast, Start
  <2>2. CASE NextPair \/ AddPayee \/ TransferRow \/ DebitPayer \/ CreditPayee \/ AnswerRun
    <3>1. AllEnded
      <4>1. CASE NextPair
        BY <4>1 DEF NextPair, AllEnded
      <4>2. CASE AddPayee \/ TransferRow \/ DebitPayer \/ CreditPayee \/ AnswerRun
        <5>1. pair.step \in {"payee", "row", "debit", "credit", "answer"}
          <6>1. AddPayee => pair.step = "payee"
            BY Zenon DEF AddPayee
          <6>2. TransferRow => pair.step = "row"
            BY Zenon DEF TransferRow
          <6>3. DebitPayer => pair.step = "debit"
            BY Zenon DEF DebitPayer
          <6>4. CreditPayee => pair.step = "credit"
            BY Zenon DEF CreditPayee
          <6>5. AnswerRun => pair.step = "answer"
            BY Zenon DEF AnswerRun
          <6> QED BY <4>2, <6>1, <6>2, <6>3, <6>4, <6>5
        <5> QED BY <5>1 DEF PoolInv, PassIsLast
      <4> QED BY <2>2, <4>1, <4>2
    <3> QED BY <1>1, <3>1 DEF PassIsLast, AllEnded
  <2> QED BY <2>1, <2>2
<1> QED BY <1>2, <1>3 DEF PoolInv

\* Every step of the request keeps the invariant.
LEMMA PoolStepInv ==
  ASSUME PoolInv, [RunNext]_runVars
  PROVE  PoolInv'
<1>1. ASSUME NEW w \in Workers, Take(w) PROVE PoolInv'
  BY <1>1, TakeInv
<1>2. ASSUME NEW u \in Users, RunUser(u) PROVE PoolInv'
  BY <1>2, RunUserView, AdvanceInv, SkipItInv, CountItInv, FreeItInv
<1>3. CASE \E u \in Users : Outside(u)
  BY <1>3 DEF Outside, memory, PoolInv, PoolTypes, Turns, Counted, PassIsLast, AllEnded, Finished
<1>4. CASE UNCHANGED runVars
  BY <1>4 DEF runVars, PoolInv, PoolTypes, Turns, Counted, PassIsLast, AllEnded, Finished
<1> QED BY <1>1, <1>2, <1>3, <1>4, RequestInv DEF RunNext, Handler

\* The pool walks every customer once: two workers never share one, nobody is counted
\* twice, and the run is answered when each customer was finished or skipped.
THEOREM PoolAccounts == RunSpec => []EveryUserIsAccounted
<1>1. PoolInv => EveryUserIsAccounted
  <2> SUFFICES ASSUME PoolInv PROVE EveryUserIsAccounted
    OBVIOUS
  <2>1. ASSUME request \in {"ok", "error"} PROVE Finished \cup skipped = Users
    <3>1. AllEnded
      BY <2>1 DEF PoolInv, PassIsLast
    <3>2. nextUser = Count + 1
      BY <3>1, RunAssumption DEF PoolInv, Turns, AllEnded
    <3>3. \A u \in Users : stage[u] # "waiting"
      BY <3>2, RunAssumption DEF PoolInv, Turns, Users
    <3>4. \A u \in Users : stage[u] \notin Busy
      BY <3>1, RunAssumption DEF PoolInv, Turns, AllEnded
    <3>5. \A u \in Users : stage[u] \in {"done", "skipped"}
      BY <3>3, <3>4 DEF PoolInv, PoolTypes, Stages
    <3>6. Finished \subseteq Users
      BY LenProperties DEF PoolInv, PoolTypes, Finished
    <3> QED BY <3>5, <3>6 DEF PoolInv, Counted, PoolTypes
  <2>2. Finished \cap skipped = {}
    BY DEF PoolInv, Counted, PoolTypes
  <2> QED BY <2>1, <2>2 DEF PoolInv, Turns, Counted, EveryUserIsAccounted
<1> QED BY <1>1, PoolInitInv, PoolStepInv, PTL DEF RunSpec

-----------------------------------------------------------------------------
(* The books. While a new customer's days go by, the rows add up to what   *)
(* the run holds in memory; once its balance is written, to the balance    *)
(* and what a payee transfer has booked and not yet moved.                 *)
Early == {"waiting", "customer", "account", "salary"}
Late == {"issue", "days", "approve", "loan", "disburse", "unlock", "settle"}
Through == {"flush", "done"}

MoneyTypes ==
  cash \in [Users -> Int] /\ accountBalance \in [Users -> Int] /\ booked \in [Users -> Int]
Books == creates =>
  /\ \A u \in Users : stage[u] \in Early => booked[u] = 0
  /\ \A u \in Users \ torn : stage[u] \in Late => booked[u] = cash[u]
  /\ \A u \in Users \ torn : stage[u] \in Through => accountBalance[u] + Due(u) = booked[u]
\* The shuffled customers so far are different and finished, two or more of them.
PairShape ==
  /\ pair \in [step : {"none", "payee", "row", "debit", "credit", "answer"},
              path : Seq(Finished), amount : Nat]
  /\ \A i, j \in DOMAIN pair.path : pair.path[i] = pair.path[j] => i = j
  /\ pair.path = <<>> \/ Len(pair.path) >= 2
  /\ pair.step \in {"payee", "row", "debit", "credit"} => pair.path # <<>>

MInv == MoneyTypes /\ Books /\ PairShape

\* What a step of one customer is to the books.
Quiet(u) ==
  /\ \/ stage[u] \in Early /\ stage'[u] \in Early \cup {"skipped"}
     \/ stage[u] \in Late /\ stage'[u] \in Late \cup {"skipped"}
     \/ stage[u] = "flush" /\ stage'[u] = "done"
  /\ UNCHANGED <<cash, accountBalance, booked, torn>>
Paid(u) ==
  /\ stage[u] = "salary" /\ stage'[u] \in {"issue", "skipped"}
  /\ Book(u, Salary) /\ cash' = [cash EXCEPT ![u] = Salary] /\ UNCHANGED <<accountBalance, torn>>
InStep(u) ==
  /\ stage[u] \in Late /\ stage'[u] \in Late \cup {"skipped"}
  /\ \E x \in Int : Book(u, x) /\ Hold(u, x)
  /\ UNCHANGED <<accountBalance, torn>>
Tears(u) ==
  /\ stage[u] = "unlock" /\ stage'[u] = "days"
  /\ \E x \in Int : Book(u, x)
  /\ torn' = torn \cup {u} /\ UNCHANGED <<cash, accountBalance>>
Writes(u) ==
  /\ stage[u] = "settle" /\ stage'[u] \in {"flush", "skipped"}
  /\ accountBalance' = [accountBalance EXCEPT ![u] = cash[u]] /\ UNCHANGED <<cash, booked, torn>>
OneStage(u) ==
  /\ stage' = [stage EXCEPT ![u] = stage'[u]] /\ stage[u] \in Busy
  /\ UNCHANGED <<creates, pair>>

\* The books in terms of one customer.
LEMMA BookView ==
  ASSUME PoolInv, NEW u \in Users, RunUser(u)
  PROVE  OneStage(u) /\ (Quiet(u) \/ Paid(u) \/ InStep(u) \/ Tears(u) \/ Writes(u))
<1> USE DEF OneStage, Busy, Pending, bank, memory, pool
<1>0. stage \in [Users -> Stages]
  BY DEF PoolInv, PoolTypes
<1>1. ASSUME NEW here, NEW next, Await(u, here, next), here \in Pending
      PROVE  /\ OneStage(u) /\ stage[u] = here /\ stage'[u] \in {next, "skipped"}
             /\ torn' = torn
  BY <1>0, <1>1 DEF Await
<1>2. CASE CreateCustomer(u) \/ OpenAccount(u) \/ Issue(u)
  BY <1>1, <1>2 DEF CreateCustomer, OpenAccount, Issue, Quiet, Early, Late
<1>3. CASE FirstSalary(u)
  BY <1>1, <1>3 DEF FirstSalary, Paid
<1>4. CASE Reuse(u)
  BY <1>0, <1>4 DEF Reuse, Quiet, Early
<1>5. CASE Days(u)
  <2>1. CASE PayDay(u) \/ Disburse(u)
    <3>1. Salary \in Int /\ LoanAmount \in Int
      BY RunAssumption
    <3> QED BY <1>1, <2>1, <3>1 DEF PayDay, Disburse, InStep, Late
  <2>2. ASSUME NEW n \in Spends, Spend(u, n) \/ Withdraw(u, n)
        PROVE  OneStage(u) /\ InStep(u)
    <3>1. n \in Nat /\ 0 - n \in Int /\ 0 - 0 \in Int
      BY RunAssumption
    <3>2. OneStage(u) /\ stage[u] \in Late /\ stage'[u] \in Late \cup {"skipped"} /\ torn' = torn
      BY <1>1, <2>2 DEF Spend, Withdraw, Late
    <3>3. accountBalance' = accountBalance /\ \E x \in Int : Book(u, x) /\ Hold(u, x)
      BY <2>2, <3>1 DEF Spend, Withdraw
    <3> QED BY <3>2, <3>3 DEF InStep
  <2>3. CASE Kyc(u) \/ ApplyForLoan(u) \/ Approve(u) \/ Grant(u)
    BY <1>1, <2>3 DEF Kyc, ApplyForLoan, Approve, Grant, Quiet, Late
  <2>4. CASE License(u) \/ EndDays(u)
    BY <1>0, <2>4 DEF License, EndDays, Quiet, Late
  <2>5. CASE Unlock(u)
    <3>1. LicenceFee \in Nat /\ 0 - LicenceFee \in Int
      BY RunAssumption
    <3>2. OneStage(u) /\ stage[u] = "unlock" /\ stage'[u] = "days" /\ accountBalance' = accountBalance
      BY <1>0, <2>5 DEF Unlock
    <3> QED BY <2>5, <3>1, <3>2 DEF Unlock, InStep, Tears, Quiet, Late
  <2> QED BY <1>5, <2>1, <2>2, <2>3, <2>4, <2>5 DEF Days
<1>6. CASE Settle(u)
  BY <1>0, <1>6 DEF Settle, Writes
<1>7. CASE Flush(u)
  BY <1>0, <1>7 DEF Flush, Quiet
<1>8. CASE Throw(u)
  BY <1>0, <1>8 DEF Throw, Quiet, Early, Late, Stages
<1> QED BY <1>2, <1>3, <1>4, <1>5, <1>6, <1>7, <1>8 DEF RunUser

\* While a customer is busy no pair is under way: nothing is due.
LEMMA NothingDue ==
  ASSUME PoolInv, PairShape, NEW u \in Users, stage[u] \in Busy
  PROVE  pair.step = "none" /\ \A v \in Users : Due(v) = 0
<1>1. PICK w \in Workers : worker[w] = u
  BY DEF PoolInv, Turns
<1>2. pair.step = "none"
  BY <1>1, RunAssumption DEF PoolInv, PassIsLast, AllEnded
<1> QED BY <1>2 DEF Due

\* A customer's statement keeps the books.
LEMMA CustomerKeepsBooks ==
  ASSUME PoolInv, PoolInv', MInv, NEW u \in Users, RunUser(u)
  PROVE  MInv'
<1> DEFINE Nothing == \A v \in Users : Due(v) = 0 /\ Due(v)' = 0
<1>1. /\ stage' = [stage EXCEPT ![u] = stage'[u]] /\ stage[u] \in Busy
      /\ creates' = creates /\ pair' = pair /\ stage \in [Users -> Stages]
  BY BookView DEF OneStage, PoolInv, PoolTypes
<1>2. Nothing
  BY <1>1, NothingDue DEF MInv, Due, Payer, Payee
<1>3. Quiet(u) \/ Paid(u) \/ InStep(u) \/ Tears(u) \/ Writes(u)
  BY BookView
<1>4. Salary \in Int
  BY RunAssumption
<1>5. MoneyTypes'
  BY <1>3, <1>4 DEF MInv, MoneyTypes, Quiet, Paid, InStep, Tears, Writes, Book, Hold
<1>6. PairShape'
  <2>1. Finished \subseteq Finished'
    <3>1. Finished \subseteq Users
      BY LenProperties DEF PoolInv, PoolTypes, Finished
    <3>2. \A v \in Finished : stage[v] \in Through
      BY <3>1 DEF PoolInv, Counted, Through
    <3>3. \A v \in Finished : stage'[v] \in Through
      BY <1>1, <1>3, <3>1, <3>2
         DEF Quiet, Paid, InStep, Tears, Writes, Early, Late, Through
    <3> QED BY <3>1, <3>3 DEF PoolInv, Counted, Through
  <2>2. pair.path \in Seq(Finished')
    BY <2>1 DEF MInv, PairShape
  <2> QED BY <1>1, <2>2 DEF MInv, PairShape
<1>7. Books'
  <2> HIDE DEF Nothing
  <2> SUFFICES ASSUME creates PROVE Books'
    BY <1>1 DEF Books
  <2>1. /\ \A v \in Users : stage[v] \in Early => booked[v] = 0
        /\ \A v \in Users \ torn : stage[v] \in Late => booked[v] = cash[v]
        /\ \A v \in Users \ torn : stage[v] \in Through => accountBalance[v] = booked[v]
    BY <1>2 DEF Nothing, MInv, Books, MoneyTypes
  <2>2. /\ \A v \in Users : stage'[v] \in Early => booked'[v] = 0
        /\ \A v \in Users \ torn' : stage'[v] \in Late => booked'[v] = cash'[v]
        /\ \A v \in Users \ torn' : stage'[v] \in Through => accountBalance'[v] = booked'[v]
    <3> USE <1>1, <2>1 DEF Early, Late, Through
    <3>1. CASE Quiet(u)
      BY <3>1 DEF Quiet
    <3>2. CASE Paid(u)
      BY <1>4, <3>2 DEF Paid, Book, MInv, MoneyTypes
    <3>3. CASE InStep(u)
      BY <3>3 DEF InStep, Book, Hold, MInv, MoneyTypes
    <3>4. CASE Tears(u)
      BY <3>4 DEF Tears, Book, MInv, MoneyTypes
    <3>5. CASE Writes(u)
      BY <3>5 DEF Writes, MInv, MoneyTypes
    <3> QED BY <1>3, <3>1, <3>2, <3>3, <3>4, <3>5
  <2> QED BY <1>2, <1>5, <2>2 DEF Nothing, Books, MoneyTypes
<1> QED BY <1>5, <1>6, <1>7 DEF MInv

\* A new account starts empty, and its stage is early.
LEMMA InitBooks ==
  ASSUME RunInit PROVE MInv
<1> USE RunAssumption DEF RunInit, NoPair
<1>1. MoneyTypes
  BY DEF MoneyTypes
<1>2. Books
  BY DEF Books, Early, Late, Through
<1>3. PairShape
  BY DEF PairShape
<1> QED BY <1>1, <1>2, <1>3 DEF MInv

\* A step that moves no money and no pair, and takes customers at most from waiting.
LEMMA StillBooks ==
  ASSUME MInv, UNCHANGED <<creates, cash, accountBalance, booked, torn, pair, finished>>,
         \A u \in Users : stage'[u] = stage[u] \/ (stage[u] \in Early /\ stage'[u] \in Early)
  PROVE  MInv'
<1>1. MoneyTypes' /\ PairShape'
  BY DEF MInv, MoneyTypes, PairShape, Finished
<1>2. \A u \in Users : Due(u)' = Due(u)
  BY DEF Due, Payer, Payee
<1>3. Books'
  BY <1>2 DEF MInv, Books, Early, Late, Through
<1> QED BY <1>1, <1>3 DEF MInv

\* Taking the next customer keeps the books.
LEMMA TakeKeepsBooks ==
  ASSUME PoolInv, MInv, NEW w \in Workers, Take(w)
  PROVE  MInv'
<1>1. UNCHANGED <<creates, cash, accountBalance, booked, torn, pair, finished>>
  BY DEF Take, bank, memory
<1>2. \A u \in Users : stage'[u] = stage[u] \/ (stage[u] \in Early /\ stage'[u] \in Early)
  <2>1. CASE nextUser > Count
    BY <2>1 DEF Take
  <2>2. CASE ~(nextUser > Count)
    <3>1. nextUser \in Users /\ stage[nextUser] = "waiting"
      BY <2>2, RunAssumption DEF PoolInv, PoolTypes, Turns, Users
    <3> QED BY <2>2, <3>1 DEF Take, PoolInv, PoolTypes, Early
  <2> QED BY <2>1, <2>2
<1> QED BY <1>1, <1>2, StillBooks

\* A payer and its payee are two customers whose balances are written.
LEMMA TwoOfThem ==
  ASSUME PoolInv, PairShape, pair.step \in {"row", "debit", "credit"}
  PROVE  /\ Payer \in Users /\ Payee \in Users /\ Payer # Payee
         /\ stage[Payer] \in Through /\ stage[Payee] \in Through
         /\ pair.amount \in Nat
<1>1. /\ Len(pair.path) \in Nat /\ Len(pair.path) >= 2
      /\ DOMAIN pair.path = 1 .. Len(pair.path)
      /\ \A i \in 1 .. Len(pair.path) : pair.path[i] \in Finished
  BY LenProperties DEF PairShape
<1>2. Payer \in Finished /\ Payee \in Finished
  BY <1>1 DEF Payer, Payee
<1>3. Payer # Payee
  BY <1>1 DEF PairShape, Payer, Payee
<1>4. Finished \subseteq Users
  BY LenProperties DEF PoolInv, PoolTypes, Finished
<1> QED BY <1>2, <1>3, <1>4 DEF PoolInv, Counted, Through, PairShape

\* The payee pass books both sides of a transfer before it moves either.
LEMMA NextPairKeepsBooks ==
  ASSUME PoolInv, MInv, NextPair \/ AddPayee \/ AnswerRun
  PROVE  MInv'
<1>1. /\ UNCHANGED <<creates, stage, finished, cash, accountBalance, booked, torn>>
      /\ Finished' = Finished
  <2>1. UNCHANGED <<creates, stage, finished>>
    <3>1. NextPair => Walking
      BY DEF NextPair
    <3>2. AddPayee => Walking
      BY Zenon DEF AddPayee
    <3>3. AnswerRun => Walking
      BY Zenon DEF AnswerRun
    <3> QED BY <3>1, <3>2, <3>3 DEF Walking
  <2>2. UNCHANGED <<cash, accountBalance, booked, torn>>
    <3>1. NextPair => UNCHANGED <<cash, accountBalance, booked, torn>>
      BY DEF NextPair
    <3>2. AddPayee => UNCHANGED <<cash, accountBalance, booked, torn>>
      BY Zenon DEF AddPayee
    <3>3. AnswerRun => UNCHANGED <<cash, accountBalance, booked, torn>>
      BY Zenon DEF AnswerRun
    <3> QED BY <3>1, <3>2, <3>3
  <2> QED BY <2>1, <2>2 DEF Finished
<1>2. PairShape' /\ pair.step \in {"none", "payee", "answer"}
      /\ pair'.step \in {"none", "payee", "answer", "row"}
  <2>1. CASE AddPayee
    BY <1>1, <2>1, RunAssumption DEF AddPayee, MInv, PairShape
  <2>2. CASE AnswerRun
    BY <1>1, <2>2 DEF AnswerRun, NoPair, MInv, PairShape
  <2>3. CASE NextPair
    <3>1. CASE PairsDone = PairCount
      BY <1>1, <2>3, <3>1 DEF NextPair, MInv, PairShape
    <3>2. CASE PairsDone # PairCount
      <4>1. PICK p \in IF pair.path = <<>> THEN {<<u, v>> : u \in Finished, v \in Finished}
                       ELSE {Append(pair.path, v) : v \in Finished} :
                 /\ \A i, j \in DOMAIN p : p[i] = p[j] => i = j
                 /\ pair' = [step |-> "payee", path |-> p, amount |-> 0]
        BY <2>3, <3>2 DEF NextPair
      <4>2. p \in Seq(Finished) /\ Len(p) >= 2 /\ p # <<>>
        <5>1. CASE pair.path = <<>>
          <6>1. p \in {<<u, v>> : u \in Finished, v \in Finished}
            BY <5>1
          <6>2. PICK u \in Finished, v \in Finished : p = <<u, v>>
            BY <6>1
          <6> QED BY <6>2
        <5>2. CASE pair.path # <<>>
          <6>1. PICK v \in Finished : p = Append(pair.path, v)
            BY <4>1, <5>2
          <6>2. pair.path \in Seq(Finished) /\ Len(pair.path) >= 2 /\ Len(pair.path) \in Nat
            BY <5>2, LenProperties DEF MInv, PairShape
          <6>3. p \in Seq(Finished) /\ Len(p) = Len(pair.path) + 1
            BY <6>1, <6>2, AppendProperties
          <6> QED BY <6>2, <6>3
        <5> QED BY <5>1, <5>2
      <4> QED BY <1>1, <2>3, <4>1, <4>2 DEF PairShape, NextPair
    <3> QED BY <3>1, <3>2
  <2> QED BY <2>1, <2>2, <2>3
<1>3. \A u \in Users : Due(u) = 0 /\ Due(u)' = 0
  BY <1>2 DEF Due
<1>4. Books'
  BY <1>1, <1>3 DEF MInv, Books
<1> QED BY <1>1, <1>2, <1>4 DEF MInv, MoneyTypes

\* The payee pass keeps the books.
LEMMA TransferKeepsBooks ==
  ASSUME PoolInv, MInv, TransferRow \/ DebitPayer \/ CreditPayee
  PROVE  MInv'
<1> DEFINE p == Payer
           q == Payee
           n == pair.amount
<1>1. UNCHANGED <<creates, stage, finished>> /\ pair.step \in {"row", "debit", "credit"}
  <2>1. TransferRow => Walking /\ pair.step = "row"
    BY Zenon DEF TransferRow
  <2>2. DebitPayer => Walking /\ pair.step = "debit"
    BY Zenon DEF DebitPayer, Move
  <2>3. CreditPayee => Walking /\ pair.step = "credit"
    BY Zenon DEF CreditPayee, Move
  <2> QED BY <2>1, <2>2, <2>3 DEF Walking
<1>2. /\ p \in Users /\ q \in Users /\ p # q /\ n \in Nat
      /\ stage[p] \in Through /\ stage[q] \in Through
  BY <1>1, TwoOfThem DEF MInv
<1>3. /\ pair' = [pair EXCEPT !.step = pair'.step]
      /\ pair'.step \in {"none", "debit", "credit"}
      /\ Payer' = p /\ Payee' = q /\ Finished' = Finished
  <2>1. /\ pair' = [pair EXCEPT !.step = pair'.step]
        /\ pair'.step \in {"none", "debit", "credit"}
    BY DEF TransferRow, DebitPayer, CreditPayee, Move, MInv, PairShape
  <2>2. pair'.path = pair.path
    BY <2>1 DEF MInv, PairShape
  <2> QED BY <1>1, <2>1, <2>2 DEF Payer, Payee, Finished
<1>4. PairShape'
  BY <1>1, <1>3 DEF MInv, PairShape
<1>5. /\ \A u \in Users : Due(u) = CASE pair.step = "debit" /\ u = p -> 0 - n
                                     [] pair.step \in {"debit", "credit"} /\ u = q -> n
                                     [] OTHER -> 0
      /\ \A u \in Users : Due(u)' = CASE pair'.step = "debit" /\ u = p -> 0 - n
                                      [] pair'.step \in {"debit", "credit"} /\ u = q -> n
                                      [] OTHER -> 0
  <2>1. pair'.amount = n
    BY <1>3 DEF MInv, PairShape
  <2> QED BY <1>3, <2>1 DEF Due
\* What each step does to the two accounts.
<1>6. \/ /\ pair.step = "row" /\ pair'.step = "debit" /\ booked' = BothBooked
         /\ UNCHANGED <<cash, accountBalance, torn>>
      \/ /\ pair.step = "row" /\ pair'.step = "none" /\ booked' = booked
         /\ UNCHANGED <<cash, accountBalance, torn>>
      \/ /\ pair.step = "debit" /\ pair'.step = "credit"
         /\ accountBalance' = [accountBalance EXCEPT ![p] = @ - n] /\ UNCHANGED <<cash, booked, torn>>
      \/ /\ pair.step = "credit" /\ pair'.step = "none" /\ UNCHANGED <<booked, torn>>
         /\ accountBalance' = [accountBalance EXCEPT ![q] = @ + n]
         /\ cash' \in {cash, [cash EXCEPT ![p] = @ - n, ![q] = @ + n]}
      \/ /\ torn' = torn \cup {p, q} /\ pair'.step = "none" /\ booked' \in {booked, BothBooked}
         /\ accountBalance' \in {accountBalance, [accountBalance EXCEPT ![p] = @ - n], [accountBalance EXCEPT ![q] = @ + n]}
         /\ cash' \in {cash, [cash EXCEPT ![p] = @ - n, ![q] = @ + n]}
  <2>1. CASE TransferRow
    BY <2>1 DEF TransferRow, MInv, PairShape
  <2>2. accountBalance[p] + (0 - n) = accountBalance[p] - n /\ accountBalance[q] + n = accountBalance[q] + n
    BY <1>2 DEF MInv, MoneyTypes
  <2>3. CASE DebitPayer
    BY <1>2, <2>2, <2>3 DEF DebitPayer, Move, MInv, PairShape
  <2>4. CASE CreditPayee
    BY <1>2, <2>4 DEF CreditPayee, Move, MInv, PairShape
  <2> QED BY <2>1, <2>3, <2>4
<1> HIDE DEF p, q, n
<1>7. BothBooked = [booked EXCEPT ![p] = @ - n, ![q] = @ + n]
  BY DEF BothBooked, p, q, n
<1>8. MoneyTypes'
  BY <1>2, <1>6, <1>7 DEF MInv, MoneyTypes
<1>9. Books'
  BY <1>1, <1>2, <1>5, <1>6, <1>7 DEF MInv, MoneyTypes, Books, Early, Late, Through
<1> QED BY <1>4, <1>8, <1>9 DEF MInv

\* A real transfer needs an account that was there before the run.
LEMMA OutsideKeepsBooks ==
  ASSUME MInv, NEW u \in Users, Outside(u)
  PROVE  MInv'
<1>1. ~ creates /\ creates' = creates /\ UNCHANGED <<cash, torn, pair, finished>>
  BY DEF Outside, memory
<1>2. MoneyTypes'
  BY <1>1 DEF MInv, MoneyTypes, Outside, Book
<1>3. PairShape'
  BY <1>1 DEF MInv, PairShape, Finished
<1> QED BY <1>1, <1>2, <1>3 DEF MInv, Books

\* Every step keeps the books.
LEMMA BooksStep ==
  ASSUME PoolInv, MInv, [RunNext]_runVars
  PROVE  MInv'
<1>1. ASSUME NEW w \in Workers, Take(w) PROVE MInv'
  BY <1>1, TakeKeepsBooks
<1>2. ASSUME NEW u \in Users, RunUser(u) PROVE MInv'
  <2>1. PoolInv'
    BY <1>2, RunUserView, AdvanceInv, SkipItInv, CountItInv, FreeItInv
  <2> QED BY <1>2, <2>1, CustomerKeepsBooks
<1>3. ASSUME NEW u \in Users, Outside(u) PROVE MInv'
  BY <1>3, OutsideKeepsBooks
<1>4. CASE Refuse \/ Fast \/ Start \/ UNCHANGED runVars
  <2>1. UNCHANGED <<creates, cash, accountBalance, booked, torn, pair, finished, stage>>
    BY <1>4 DEF Refuse, Fast, Start, runVars
  <2> QED BY <2>1, StillBooks
<1> QED BY <1>1, <1>2, <1>3, <1>4, NextPairKeepsBooks, TransferKeepsBooks DEF RunNext, Handler

\* The transaction rows of a new customer explain the balance the run wrote for it, up to
\* the transfer in progress, unless a failure the run swallows tore them apart.
THEOREM BooksBalance == RunSpec => []BooksExplainNewAccounts
<1>1. PoolInv /\ MInv => BooksExplainNewAccounts
  <2> SUFFICES ASSUME PoolInv, MInv, creates, NEW u \in Finished \ torn
               PROVE  accountBalance[u] + Due(u) = booked[u]
    BY DEF BooksExplainNewAccounts
  <2>1. u \in Users
    BY LenProperties DEF PoolInv, PoolTypes, Finished
  <2>2. stage[u] \in Through
    BY <2>1 DEF PoolInv, Counted, Through
  <2> QED BY <2>1, <2>2 DEF MInv, Books
<1>2. RunInit => PoolInv /\ MInv
  BY PoolInitInv, InitBooks
<1>3. PoolInv /\ MInv /\ [RunNext]_runVars => (PoolInv /\ MInv)'
  BY PoolStepInv, BooksStep
<1> QED BY <1>1, <1>2, <1>3, PTL DEF RunSpec
=============================================================================
