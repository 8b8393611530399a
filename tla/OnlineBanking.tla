----------------------------- MODULE OnlineBanking -----------------------------
(* NexaBank in the browser: tabs that share one session cookie, the pages of  *)
(* a customer (dashboard, accounts, transactions, payees, profile), the calls  *)
(* they have in flight, and the handlers that answer them: sign-in and         *)
(* registration, the session check with its rotation, payees, profile and      *)
(* accounts.  A handler checks first and writes in a later step, as its awaits *)
(* allow; answers come back in any order.  Amounts are BankLedger's subject:   *)
(* here the accounts and the history of a customer are the number of times     *)
(* they changed.  One payee form stands for one account of the payee.          *)
EXTENDS Naturals, Sequences, FiniteSets, SequencesExt, Sifting

CONSTANTS Tabs, Customers,
          Registered,   \* the customers there are at the start
          NoOne, Gone,  \* no customer; the document a call belonged to is gone
          Blank,        \* nothing read yet
          Payees, Forms, \* who can be paid, and the forms an addition may send
          Names,        \* what a payee can be renamed to
          Destinations, \* the pages links go to
          Life,         \* of a token, 12 hours
          Renewal,      \* a token with less than this left is rotated, 30 minutes
          SignedIn,     \* the tabs a customer is signed in at the start
          MaxClock, MaxFaults, MaxAll,  \* bounds: time with faults, faults with time, acts of all tabs
          MaxOps, MaxFlight,            \* bounds per tab: its acts, and the calls in flight at an act
          Faulty                        \* the tabs whose calls may fail

ASSUME OnlineBankingAssumption ==
    /\ Registered \subseteq Customers /\ SignedIn \cup Faulty \subseteq Tabs /\ NoOne \notin Customers /\ Gone \notin Tabs
    /\ Blank \notin [keys : Customers, rest : Customers \X Nat]
    /\ \A f \in Forms : f.payee \in Payees /\ f.good \in BOOLEAN
    /\ Destinations \subseteq {"dashboard", "accounts", "transactions", "payees", "profile"}
    /\ Renewal \in 1..Life /\ {MaxClock, MaxFaults, MaxAll} \subseteq Nat /\ {MaxOps, MaxFlight} \subseteq [Tabs -> Nat]

VARIABLES
    clock,
    jar,        \* the browser's cookie
    rows,       \* the Payee table
    books,      \* per customer, how often the accounts and the history changed
    details,    \* per customer, what the profile says: the unique keys and the rest
    tab,        \* the document of each tab
    calls,      \* the requests in flight, in the order they were sent
    last,       \* ghost: whom the last answered sign-in was for, NoOne after a logout
    raced,      \* ghost: it was answered while a call of another session was in flight
    overlapped, \* ghost: an add passed its check while another was between check and write
    doubt,      \* ghost: per tab, what its page cannot know to be current
    ops, faults
server == <<rows, books, details, overlapped>>
vars == <<clock, jar, tab, calls, last, raced, doubt, ops, faults, server>>

NoToken == [user |-> NoOne, exp |-> 0]
Fresh(u) == [user |-> u, exp |-> clock + Life]
Presented(cookie) == IF clock < cookie.exp THEN cookie ELSE NoToken

(* ---- pages and what they read ---- *)
Reads(page) == CASE page = "dashboard" -> <<"history">>
                 [] page = "transactions" -> <<"primary">>
                 [] page = "payees" -> <<"payees">>
                 [] page = "profile" -> <<"profile">>
                 [] OTHER -> <<>>
Visible == [login |-> {}, dashboard |-> {"accounts", "history"}, accounts |-> {"accounts"},
            transactions |-> {"history"}, payees |-> {"payees", "accounts"}, profile |-> {"form"}]
\* the resource a read brings; payees and accounts are kept by UserContext, above the pages
Resource == [payees |-> "payees", accounts |-> "accounts", boot |-> "accounts",
             history |-> "history", profile |-> "form"]
Kept == {"payees", "accounts"}
ResourceOf(kind) == IF kind \in DOMAIN Resource THEN Resource[kind] ELSE "nothing"

PayeesOf(c) == {r \in rows : r.payer = c}
Stored(r, c) == CASE r = "payees" -> PayeesOf(c)
                  [] r = "accounts" -> books[c].accounts
                  [] r = "history" -> books[c].history
                  [] r = "form" -> details[c]
Writes == {"add", "edit", "remove", "save", "open", "pay"}
Touches(kind) == CASE kind \in {"add", "edit", "remove"} -> {"payees"}
                   [] kind = "save" -> {"form"}
                   [] kind = "open" -> {"accounts"}
                   [] kind = "pay" -> {"accounts", "history"}
\* what the page reads again when a write is answered; errors of an edit or a removal are swallowed
Refetch(kind, ok) ==
    CASE kind = "add" /\ ok -> <<"payees">>
      [] kind \in {"edit", "remove"} -> <<"payees">>
      [] kind = "save" /\ ok -> <<"profile">>
      [] kind = "open" /\ ok -> <<"accounts">>
      [] kind = "pay" /\ ok -> <<"accounts", "accounts">>
      [] OTHER -> <<>>
\* ghost: the resources the tab itself is going to read again
Rereads(c) ==
    IF c.tab = Gone THEN {}
    ELSE (Touches(c.kind) \ IF c.kind = "pay" THEN {"history"} ELSE {}) \cap IF c.here THEN Touches(c.kind) ELSE Kept

(* ---- sending ---- *)
Guarded == {"auth", "boot", "payees", "accounts", "primary", "history", "profile"} \cup Writes
NewCall(t, kind, user, arg, cookie, here, lone) ==
    [tab |-> t, kind |-> kind, user |-> user, arg |-> arg, token |-> Presented(cookie),
     stage |-> "sent", ok |-> FALSE, value |-> Blank, cookie |-> <<>>, here |-> here, lone |-> lone]
\* lone (ghost): the only read of its resource in its tab while it was in flight
Issue(pending, t, user, kinds, arg, cookie, here) ==
    LET mine == {d \in Range(pending) : d.tab = t}
        same(k, d) == ResourceOf(k) = ResourceOf(d.kind)
        lone(k) == /\ \A d \in mine : ~ same(k, d)
                   /\ Cardinality({j \in DOMAIN kinds : ResourceOf(kinds[j]) = ResourceOf(k)}) = 1
    IN  [j \in DOMAIN pending |->
            [pending[j] EXCEPT !.lone = @ /\ ~ \E k \in Range(kinds) : pending[j] \in mine /\ same(k, pending[j])]]
        \o [j \in DOMAIN kinds |-> NewCall(t, kinds[j], user, arg, cookie, here, lone(kinds[j]))]

Empty == [r \in {"payees", "accounts", "history", "form"} |-> Blank]
Loaded(page) == [page |-> page, user |-> NoOne, busy |-> TRUE, settled |-> FALSE, shown |-> Empty]
\* the pages' own state starts afresh, the context's stays
Mounted(T, page) ==
    [T EXCEPT !.page = page, !.busy = FALSE, !.settled = Reads(page) = <<>>,
              !.shown = [r \in DOMAIN T.shown |-> IF r \in Kept THEN T.shown[r] ELSE Blank]]
\* the answers nobody waits for matter only for their cookie
Idle(c) == c.tab = Gone /\ c.stage = "done" /\ c.cookie = <<>>
Orphaned(pending, t) ==
    LET gone == [j \in DOMAIN pending |-> IF pending[j].tab = t THEN [pending[j] EXCEPT !.tab = Gone] ELSE pending[j]]
    IN  Sifted(gone, {j \in DOMAIN gone : ~ Idle(gone[j])})
Left(pending, t) ==
    [j \in DOMAIN pending |-> IF pending[j].tab = t THEN [pending[j] EXCEPT !.here = FALSE] ELSE pending[j]]

Resting == [page |-> "payees", user |-> NoOne, busy |-> FALSE, settled |-> TRUE, shown |-> Empty]
Init ==
    /\ clock = 0 /\ calls = <<>>
    /\ books = [c \in Customers |-> [accounts |-> 1, history |-> 0]]
    /\ details = [c \in Customers |-> IF c \in Registered THEN [keys |-> c, rest |-> <<c, 0>>] ELSE Blank]
    /\ \E c \in Registered, first \in Forms :
          /\ rows = {[payer |-> c, payee |-> first.payee, name |-> first.name, id |-> 1]}
          /\ jar = [user |-> c, exp |-> 1] /\ last = c
          /\ tab = [t \in Tabs |-> IF t \in SignedIn
                                   THEN [Resting EXCEPT !.user = c, !.shown["accounts"] = 1, !.shown["payees"] = rows]
                                   ELSE [Resting EXCEPT !.page = "login"]]
    /\ raced = FALSE /\ overlapped = FALSE /\ doubt = [t \in Tabs |-> {}]
    /\ ops = [t \in Tabs |-> 0] /\ faults = 0

Act(t) == /\ ops[t] < MaxOps[t] /\ FoldFunction(+, 0, ops) < MaxAll /\ Len(calls) < MaxFlight[t]
          /\ ops' = [ops EXCEPT ![t] = @ + 1]
          /\ UNCHANGED <<clock, jar, last, raced, faults, server>>

\* the page is loaded afresh: the calls of the old document have nobody to answer to
Load(t) ==
    /\ Act(t)
    /\ tab' = [tab EXCEPT ![t] = Loaded(tab[t].page)]
    /\ calls' = Issue(Orphaned(calls, t), t, NoOne, <<"auth">>, Blank, jar, TRUE)
    /\ doubt' = [doubt EXCEPT ![t] = {}]

\* a link to another page: the old one is unmounted, the new one reads what it shows
Visit(t) ==
    /\ Act(t) /\ tab[t].user # NoOne /\ ~ tab[t].busy
    /\ \E page \in Destinations \ {tab[t].page} :
          /\ tab' = [tab EXCEPT ![t] = Mounted(@, page)]
          /\ calls' = Issue(Left(calls, t), t, tab[t].user, Reads(page), Blank, jar, TRUE)
    /\ UNCHANGED doubt

Submit(t, kind, user, arg) ==
    /\ Act(t) /\ ~ tab[t].busy /\ tab[t].settled
    /\ calls' = Issue(calls, t, user, <<kind>>, arg, jar, TRUE)
    /\ UNCHANGED <<tab, doubt>>
\* a button that is disabled while its call is in flight
Enabled(t, kind) == ~ \E c \in Range(calls) : c.tab = t /\ c.kind = kind /\ c.here
On(t, page) == tab[t].page = page /\ (page = "login" <=> tab[t].user = NoOne)

SignIn(t) ==
    /\ On(t, "login")
    /\ \E kind \in {"login", "register"}, c \in Customers : Enabled(t, kind) /\ Submit(t, kind, c, Blank)
Logout(t) == tab[t].user # NoOne /\ Submit(t, "logout", tab[t].user, Blank)
\* good: the account exists and has the IFSC of the form
AddPayee(t) ==
    /\ On(t, "payees")
    /\ \E form \in Forms : Submit(t, "add", tab[t].user, form)
EditPayee(t) ==
    /\ On(t, "payees") /\ tab[t].shown["payees"] # Blank
    /\ \E r \in tab[t].shown["payees"] : \E n \in Names \ {r.name} :
          Submit(t, "edit", tab[t].user, [payee |-> r.payee, name |-> n, good |-> TRUE])
DeletePayee(t) ==
    /\ On(t, "payees") /\ tab[t].shown["payees"] # Blank
    /\ \E r \in tab[t].shown["payees"] :
          Submit(t, "remove", tab[t].user, [payee |-> r.payee, name |-> r.name, good |-> TRUE])
Pay(t) ==
    /\ On(t, "payees") /\ tab[t].shown["accounts"] # Blank
    /\ tab[t].shown["payees"] \notin {Blank, {}}
    /\ Enabled(t, "pay") /\ Submit(t, "pay", tab[t].user, Blank)
OpenAccount(t) == On(t, "accounts") /\ Enabled(t, "open") /\ Submit(t, "open", tab[t].user, Blank)
\* the form as it was read, with something changed that is not a key
SaveProfile(t) ==
    /\ On(t, "profile") /\ tab[t].shown["form"] # Blank
    /\ Submit(t, "save", tab[t].user,
              [tab[t].shown["form"] EXCEPT !.rest = <<@[1], @[2] + 1>>])

(* ---- the server ---- *)
Placed(pending, i, c) == IF Idle(c) THEN RemoveAt(pending, i) ELSE [pending EXCEPT ![i] = c]
Served(i, c) == calls' = Placed(calls, i, c)
Serve == UNCHANGED <<clock, jar, tab, last, raced, ops, faults>>
Answer(c, ok, value) == [c EXCEPT !.stage = "done", !.ok = ok, !.value = value]
\* isLoggedIn, CookieSend: the cookie of the answer when the session is near its end
Session(c) == c.token.user # NoOne /\ clock < c.token.exp
Rotated(c) == IF c.kind \in Guarded /\ c.token.exp - clock < Renewal
              THEN [c EXCEPT !.cookie = <<Fresh(c.token.user)>>] ELSE c
OfPayer(c) == c.kind \in {"payees", "add", "edit", "remove"} => c.token.user = c.user
Twins(c) == {r \in PayeesOf(c.user) : r.payee = c.arg.payee}

MayAdd(c) == Twins(c) = {} /\ c.arg.good

\* mutant: the keys of a customer are not unique
AnyKeys(c) == TRUE
KeysFree(c) == \A o \in Customers \ {c.user} : details[o] # Blank => details[o].keys # c.arg.keys

\* the session is refused, or what is asked for is
Refuse(i) ==
    LET c == calls[i]
    IN  /\ c.stage = "sent"
        /\ \/ c.kind \in Guarded /\ ~ Session(c) /\ Served(i, Answer(c, FALSE, Blank))
           \/ /\ c.kind \in Guarded => Session(c)
              /\ \/ ~ OfPayer(c)
                 \/ OfPayer(c) /\ c.kind = "add" /\ ~ MayAdd(c)
                 \/ OfPayer(c) /\ c.kind \in {"edit", "remove"} /\ Twins(c) = {}
                 \/ c.kind = "login" /\ details[c.user] = Blank
                 \/ c.kind = "register" /\ details[c.user] # Blank
                 \/ c.kind = "save" /\ ~ KeysFree(c)
              /\ Served(i, Answer(Rotated(c), FALSE, Blank))
        /\ Serve /\ UNCHANGED <<doubt, server>>

Value(c) == CASE c.kind = "auth" -> c.token.user
              [] c.kind = "primary" -> books[c.user].accounts
              [] c.kind = "profile" -> details[c.token.user]
              [] OTHER -> Stored(Resource[c.kind], c.user)
Read(i) ==
    LET c == calls[i]
    IN  /\ c.stage = "sent" /\ c.kind \in {"auth", "primary"} \cup DOMAIN Resource
        /\ Session(c) /\ OfPayer(c)
        /\ Served(i, Answer(Rotated(c), TRUE, Value(c)))
        /\ Serve /\ UNCHANGED <<doubt, server>>

\* mutant: the logout answer leaves the cookie
LogoutPlain(i) == /\ calls[i].stage = "sent" /\ calls[i].kind = "logout"
                  /\ Served(i, Answer(calls[i], TRUE, Blank)) /\ Serve /\ UNCHANGED <<doubt, server>>
ServeLogout(i) ==
    /\ calls[i].stage = "sent" /\ calls[i].kind = "logout"
    /\ Served(i, [Answer(calls[i], TRUE, Blank) EXCEPT !.cookie = <<NoToken>>])
    /\ Serve /\ UNCHANGED <<doubt, server>>

\* the look-ups before a payee is written; value holds the row an edit or a removal found
Check(i) ==
    LET c == calls[i]
        checked == [Rotated(c) EXCEPT !.stage = "checked"]
    IN  /\ c.stage = "sent" /\ c.kind \in {"add", "edit", "remove"} /\ Session(c) /\ OfPayer(c)
        /\ \/ /\ c.kind = "add" /\ MayAdd(c) /\ Served(i, checked)
              /\ overlapped' = (overlapped \/ \E d \in Range(calls) : d.kind = "add" /\ d.stage = "checked" /\ d.user = c.user)
           \/ /\ c.kind \in {"edit", "remove"} /\ UNCHANGED overlapped
              /\ \E r \in Twins(c) : Served(i, [checked EXCEPT !.value = r.id])
        /\ Serve /\ UNCHANGED <<rows, books, details, doubt>>

\* what a write makes doubtful: reads already answered, and pages that will not read again
Subject(d) == IF d.kind = "profile" THEN d.token.user ELSE d.user
Outdated(d, c) == d.stage = "done" /\ Subject(d) = c.user /\ ResourceOf(d.kind) \in Touches(c.kind)
Commit(i, done) ==
    LET c == calls[i]
        judged == [j \in DOMAIN calls |-> [calls[j] EXCEPT !.lone = @ /\ ~ Outdated(calls[j], c)]]
    IN  /\ calls' = Placed(judged, i, done)
        /\ doubt' = [t \in Tabs |-> doubt[t] \cup
                        IF tab[t].user # c.user THEN {}
                        ELSE Touches(c.kind) \ IF c.tab = t THEN Rereads(c) ELSE {}]
\* an id is never given twice, so that no call that found a row finds another under its id
Unused == CHOOSE k \in 1..(Cardinality(rows) + Len(calls) + 1) :
              (\A r \in rows : r.id # k) /\ \A d \in Range(calls) : d.stage = "checked" => d.value # k
WritePayee(i) ==
    LET c == calls[i]
    IN  /\ c.stage = "checked"
        /\ \/ /\ c.kind = "add"
              /\ rows' = rows \cup {[payer |-> c.user, payee |-> c.arg.payee, name |-> c.arg.name, id |-> Unused]}
           \/ /\ c.kind = "edit" /\ \E r \in rows : r.id = c.value
              /\ rows' = {IF r.id = c.value THEN [r EXCEPT !.name = c.arg.name] ELSE r : r \in rows}
           \/ /\ c.kind = "remove" /\ \E r \in rows : r.id = c.value
              /\ rows' = {r \in rows : r.id # c.value}
        /\ Commit(i, Answer(c, TRUE, Blank))
        /\ Serve /\ UNCHANGED <<books, details, overlapped>>
\* the row went away between look-up and write
RowIsGone(i) ==
    LET c == calls[i]
    IN  /\ c.stage = "checked" /\ c.kind \in {"edit", "remove"} /\ ~ \E r \in rows : r.id = c.value
        /\ Served(i, Answer(c, FALSE, Blank))
        /\ Serve /\ UNCHANGED <<doubt, server>>

Write(i) ==
    LET c == calls[i]
    IN  /\ c.stage = "sent" /\ c.kind \in {"save", "open", "pay"} /\ Session(c)
        /\ \/ /\ c.kind = "save" /\ KeysFree(c)
              /\ details' = [details EXCEPT ![c.user] = c.arg] /\ UNCHANGED books
           \/ /\ c.kind \in {"open", "pay"} /\ UNCHANGED details
              /\ books' = [books EXCEPT ![c.user] =
                              [r \in DOMAIN @ |-> IF r \in Touches(c.kind) THEN @[r] + 1 ELSE @[r]]]
        /\ Commit(i, Answer(Rotated(c), TRUE, Blank))
        /\ Serve /\ UNCHANGED <<rows, overlapped>>
\* login looks the customer up, registration creates one
ServeSignIn(i) ==
    LET c == calls[i]
    IN  /\ c.stage = "sent" /\ c.kind \in {"login", "register"}
        /\ c.kind = "login" <=> details[c.user] # Blank
        /\ details' = [details EXCEPT ![c.user] = IF @ = Blank THEN [keys |-> c.user, rest |-> <<c.user, 0>>] ELSE @]
        /\ Served(i, [Answer(c, TRUE, c.user) EXCEPT !.cookie = <<Fresh(c.user)>>])
        /\ Serve /\ UNCHANGED <<doubt, rows, books, overlapped>>

(* ---- faults ---- *)
Upset == clock + faults < MaxFaults /\ faults' = faults + 1 /\ UNCHANGED <<clock, jar, tab, last, raced, ops, server>>
\* a query fails: 500; a sign-in has set its cookie by then
DatabaseFails(i) ==
    LET c == calls[i]
    IN  /\ Upset /\ UNCHANGED doubt /\ c.tab \in Faulty
        /\ \/ c.stage = "sent" /\ c.kind # "logout" /\ (c.kind \in Guarded => Session(c))
              /\ Served(i, Answer(Rotated(c), FALSE, Blank))
           \/ c.stage = "sent" /\ c.kind = "login" /\ details[c.user] # Blank
              /\ Served(i, [Answer(c, FALSE, Blank) EXCEPT !.cookie = <<Fresh(c.user)>>])
           \/ c.stage = "checked" /\ Served(i, Answer(c, FALSE, Blank))
\* an answer is lost, or a request, which the page cannot tell apart; what a page reads after an edit it reads all the same
Lose(i) ==
    LET c == calls[i]
    IN  /\ Upset /\ c.stage = "done" /\ c.tab \in Faulty
        /\ Served(i, [Answer(c, FALSE, Blank) EXCEPT !.cookie = <<>>])
        /\ doubt' = IF c.ok /\ c.kind \in {"add", "save", "open", "pay"}
                    THEN [doubt EXCEPT ![c.tab] = @ \cup Touches(c.kind)] ELSE doubt

(* ---- answers ---- *)
Arrives(i) ==
    LET c == calls[i]
        signs == \/ c.kind \in {"login", "register"} /\ c.cookie # <<>>
                 \/ c.kind = "logout" /\ c.ok
        whom == IF c.kind = "logout" THEN NoOne ELSE c.user
    IN  /\ c.stage = "done"
        /\ jar' = IF c.cookie = <<>> THEN jar ELSE c.cookie[1]
        /\ last' = IF signs THEN whom ELSE last
        /\ raced' = (raced \/ (signs /\ \E d \in Range(RemoveAt(calls, i)) : d.token.user \notin {NoOne, whom}))
        /\ UNCHANGED <<clock, ops, faults, server>>
Replace(i, T, kinds, user) ==
    /\ tab' = [tab EXCEPT ![calls[i].tab] = T]
    /\ calls' = Issue(RemoveAt(calls, i), calls[i].tab, user, kinds, Blank, jar', TRUE)

\* the document that asked is gone: the browser keeps the cookie at most
DeliverGone(i) == /\ calls[i].tab = Gone /\ Arrives(i)
                  /\ calls' = RemoveAt(calls, i) /\ UNCHANGED <<tab, doubt>>
AbortGone(i) == /\ calls[i].tab = Gone /\ calls[i].stage = "done" /\ calls' = RemoveAt(calls, i)
                /\ UNCHANGED <<clock, jar, tab, last, raced, doubt, ops, faults, server>>

\* login and register ask who is signed in; the answer to a logout loads /login afresh
DeliverSignIn(i) ==
    LET c == calls[i]
        t == c.tab
    IN  /\ t # Gone /\ c.kind \in {"login", "register", "logout"} /\ Arrives(i)
        /\ IF ~ c.ok
           THEN calls' = RemoveAt(calls, i) /\ UNCHANGED <<tab, doubt>>
           ELSE IF c.kind = "logout"
           THEN /\ tab' = [tab EXCEPT ![t] = Loaded("login")]
                /\ calls' = Issue(Orphaned(RemoveAt(calls, i), t), t, NoOne, <<"auth">>, Blank, jar', TRUE)
                /\ doubt' = [doubt EXCEPT ![t] = {}]
           ELSE /\ tab' = [tab EXCEPT ![t].busy = TRUE]
                /\ calls' = Issue(Left(RemoveAt(calls, i), t), t, NoOne, <<"auth">>, Blank, jar', TRUE)
                /\ UNCHANGED doubt

\* Auth: who it is, then the accounts, and only then the page (ProtectedRoute)
DeliverAuth(i) ==
    LET c == calls[i]
        T == tab[c.tab]
    IN  /\ c.tab # Gone /\ c.kind = "auth" /\ Arrives(i) /\ UNCHANGED doubt
        /\ IF c.ok THEN Replace(i, [T EXCEPT !.user = c.value], <<"boot">>, c.value)
           ELSE Replace(i, [T EXCEPT !.user = NoOne, !.page = "login", !.busy = FALSE, !.settled = TRUE], <<>>, NoOne)
\* ghost: what a read leaves in doubt
Judge(c, r) ==
    doubt' = IF r \notin Kept /\ ~ c.here THEN doubt
             ELSE [doubt EXCEPT ![c.tab] = IF c.ok /\ c.lone /\ Subject(c) = tab[c.tab].user THEN @ \ {r} ELSE @ \cup {r}]
DeliverBoot(i) ==
    LET c == calls[i]
        T == tab[c.tab]
        page == IF T.page = "login" THEN "dashboard" ELSE T.page
        read == IF c.ok THEN [T EXCEPT !.shown["accounts"] = c.value] ELSE T
    IN  /\ c.tab # Gone /\ c.kind = "boot" /\ Arrives(i)
        /\ Judge(c, "accounts")
        /\ Replace(i, Mounted(read, page), Reads(page), c.user)

\* a page that was left only keeps what the context holds
Settles(T, c) == T.settled \/ c.here
DeliverRead(i) ==
    LET c == calls[i]
        T == tab[c.tab]
        r == ResourceOf(c.kind)
    IN  /\ c.tab # Gone /\ c.kind \in {"payees", "accounts", "history", "profile"} /\ Arrives(i)
        /\ Judge(c, r)
        /\ Replace(i, [T EXCEPT !.settled = Settles(T, c),
                               !.shown[r] = IF c.ok /\ (r \in Kept \/ c.here) THEN c.value ELSE @], <<>>, c.user)
\* the transactions page reads the accounts first, and shows no history when that fails
DeliverPrimary(i) ==
    LET c == calls[i]
        T == tab[c.tab]
    IN  /\ c.tab # Gone /\ c.kind = "primary" /\ Arrives(i)
        /\ IF c.ok
           THEN /\ tab' = tab /\ UNCHANGED doubt
                /\ calls' = Issue(RemoveAt(calls, i), c.tab, c.user, <<"history">>, Blank, jar', c.here)
           ELSE /\ Judge(c, "history")
                /\ Replace(i, [T EXCEPT !.settled = Settles(T, c)], <<>>, c.user)
DeliverWrite(i) ==
    LET c == calls[i]
    IN  /\ c.tab # Gone /\ c.kind \in Writes /\ Arrives(i) /\ UNCHANGED <<tab, doubt>>
        /\ calls' = Issue(RemoveAt(calls, i), c.tab, c.user, Refetch(c.kind, c.ok), Blank, jar', c.here)

Tick == clock + faults < MaxClock /\ clock' = clock + 1
        /\ UNCHANGED <<jar, tab, calls, last, raced, doubt, ops, faults, server>>

Customer(t) == Load(t) \/ Visit(t) \/ SignIn(t) \/ Logout(t) \/ AddPayee(t) \/ EditPayee(t)
               \/ DeletePayee(t) \/ Pay(t) \/ OpenAccount(t) \/ SaveProfile(t)
Handle(i) == Refuse(i) \/ Read(i) \/ ServeLogout(i) \/ Check(i)
             \/ WritePayee(i) \/ RowIsGone(i) \/ Write(i) \/ ServeSignIn(i)
Deliver(i) == DeliverGone(i) \/ AbortGone(i) \/ DeliverSignIn(i) \/ DeliverAuth(i) \/ DeliverBoot(i)
              \/ DeliverRead(i) \/ DeliverPrimary(i) \/ DeliverWrite(i)
Serving == \E i \in DOMAIN calls : Handle(i) \/ Deliver(i)
Next == \/ \E t \in Tabs : Customer(t)
        \/ Serving
        \/ \E i \in DOMAIN calls : DatabaseFails(i) \/ Lose(i)
        \/ Tick
Spec == Init /\ [][Next]_vars /\ WF_vars(Serving)

(* ---- properties ---- *)
\* Whoever signed in last is the one the cookie names, or nobody is: rotation never brings
\* back an earlier session, unless one of its calls was in flight when the sign-in or the
\* logout was answered.
SessionIsTheLastSignIn == ~ raced => jar.user \in {NoOne, last}

\* A payee is there once per customer, although the table has no key for it and the button
\* takes a second click: two rows need two additions between look-up and insert at once.
UnracedPayeesAreOnce ==
    \A r, s \in rows : r # s /\ r.payer = s.payer /\ r.payee = s.payee => overlapped

\* A page at rest shows what is stored for its customer, after every sequence of visits and
\* writes of the tab: only what another document wrote, a failed or an overtaken read, a
\* write whose answer was lost, or a read under another session may leave it behind.
QuietPageIsCurrent ==
    \A t \in Tabs :
        LET T == tab[t]
        IN  (T.user # NoOne /\ ~ T.busy /\ \A c \in Range(calls) : c.tab # t) =>
                \A r \in Visible[T.page] \ doubt[t] : T.shown[r] = Stored(r, T.user)

\* A profile only ever holds what was read from it, although the form is filled for the
\* session and saved for the tab's customer, and the two differ after a sign-in elsewhere.
ProfilesStayApart ==
    \A c \in Customers : details[c] # Blank => details[c].keys = c /\ details[c].rest[1] = c

\* Every load and every visit ends with the skeleton gone, whatever fails on the way.
TabWaits(t) == tab[t].busy \/ ~ tab[t].settled
PageSettles == \A t \in Tabs : TabWaits(t) ~> ~ TabWaits(t)
===============================================================================
