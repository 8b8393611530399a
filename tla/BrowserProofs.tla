------------------------------ MODULE BrowserProofs ------------------------------
(* What the pages of a NexaBank browser keep, for any number of tabs, customers, people to    *)
(* pay, administrators and applications, and any bounds: the customer's pages                 *)
(* (OnlineBanking), the loan pages (LoanDesk) and the pro features, of which DeskProofs says  *)
(* what they keep, each with an inductive invariant of its own, and the browser that is at    *)
(* any of the three.  For each, first what is done once and to whom, then what a screen at    *)
(* rest shows.                                                                                *)
EXTENDS MCOnlineBanking, DeskProofs

(***************************************************************************)
(* The customer's pages.                                                   *)
(***************************************************************************)
Whole(c) ==
  c = [tab |-> c.tab, kind |-> c.kind, user |-> c.user, arg |-> c.arg, token |-> c.token,
       stage |-> c.stage, ok |-> c.ok, value |-> c.value, cookie |-> c.cookie,
       here |-> c.here, lone |-> c.lone]
\* A call is the same but for the page that waits for it.
Alike(d, c) ==
  /\ Whole(d) /\ d.tab \in {c.tab, Gone}
  /\ d.kind = c.kind /\ d.user = c.user /\ d.arg = c.arg /\ d.token = c.token
  /\ d.stage = c.stage /\ d.ok = c.ok /\ d.value = c.value /\ d.cookie = c.cookie
\* ls is the calls of ms, some of them gone, and ones of new.
Succeeds(ls, ms, new) ==
  /\ Sequence(ls)
  /\ \E f \in [DOMAIN ls -> DOMAIN ms \cup {0}] :
       /\ \A j \in DOMAIN ls : IF f[j] = 0 THEN ls[j] \in new ELSE Alike(ls[j], ms[f[j]])
       /\ \A i, j \in DOMAIN ls : f[i] = f[j] => i = j \/ f[i] = 0
Calls(ms) == Sequence(ms) /\ \A j \in DOMAIN ms : Whole(ms[j])

\* Two steps of calls that succeed each other make one.
LEMMA SucceedsTwice ==
  ASSUME NEW ls, NEW ms, NEW ns, NEW new, Sequence(ns), Succeeds(ls, ms, new), Succeeds(ms, ns, {})
  PROVE  Succeeds(ls, ns, new)
<1>1. PICK f \in [DOMAIN ms -> DOMAIN ns \cup {0}] :
       /\ \A j \in DOMAIN ms : f[j] # 0 /\ Alike(ms[j], ns[f[j]])
       /\ \A i, j \in DOMAIN ms : f[i] = f[j] => i = j
  BY DEF Succeeds
<1>2. PICK g \in [DOMAIN ls -> DOMAIN ms \cup {0}] :
       /\ \A j \in DOMAIN ls : IF g[j] = 0 THEN ls[j] \in new ELSE Alike(ls[j], ms[g[j]])
       /\ \A i, j \in DOMAIN ls : g[i] = g[j] => i = j \/ g[i] = 0
  BY DEF Succeeds
<1> DEFINE h == [j \in DOMAIN ls |-> IF g[j] = 0 THEN 0 ELSE f[g[j]]]
<1>3. \A j \in DOMAIN ls : g[j] = 0 \/ (g[j] \in DOMAIN ms /\ f[g[j]] \in DOMAIN ns /\ f[g[j]] # 0)
  BY <1>1
<1>4. h \in [DOMAIN ls -> DOMAIN ns \cup {0}] BY <1>3
<1>5. \A j \in DOMAIN ls : IF h[j] = 0 THEN ls[j] \in new ELSE Alike(ls[j], ns[h[j]])
  BY <1>1, <1>2, <1>3 DEF Alike
<1>6. \A i, j \in DOMAIN ls : h[i] = h[j] => i = j \/ h[i] = 0
  BY <1>1, <1>2, <1>3
<1> HIDE DEF h
<1>7. Sequence(ls) BY DEF Succeeds
<1> QED BY <1>4, <1>5, <1>6, <1>7 DEF Succeeds

\* Calls of which some change in what does not matter here.
LEMMA MarkedSucceed ==
  ASSUME NEW ms, Calls(ms), NEW ls, DOMAIN ls = DOMAIN ms, ls = [j \in DOMAIN ms |-> ls[j]],
         \A j \in DOMAIN ms : Alike(ls[j], ms[j])
  PROVE  Succeeds(ls, ms, {}) /\ Calls(ls)
<1>1. Len(ms) \in Nat /\ DOMAIN ms = 1 .. Len(ms) BY SequenceFacts DEF Calls
<1>2. Sequence(ls) BY <1>1, SequenceMade
<1> DEFINE f == [j \in DOMAIN ms |-> j]
<1>3. f \in [DOMAIN ls -> DOMAIN ms \cup {0}] OBVIOUS
<1>4. \A j \in DOMAIN ls : f[j] # 0 /\ Alike(ls[j], ms[f[j]]) BY <1>1
<1>5. \A i, j \in DOMAIN ls : f[i] = f[j] => i = j OBVIOUS
<1> HIDE DEF f
<1> QED BY <1>2, <1>3, <1>4, <1>5 DEF Succeeds, Calls, Alike

\* Taking one call out leaves the others as they are.
LEMMA WithoutSucceeds ==
  ASSUME NEW ms, Calls(ms), NEW k \in DOMAIN ms
  PROVE  Succeeds(RemoveAt(ms, k), ms, {}) /\ Calls(RemoveAt(ms, k))
<1> DEFINE T == Range(ms)
           r == RemoveAt(ms, k)
           f == [j \in DOMAIN r |-> IF j < k THEN j ELSE j + 1]
<1>1. ms \in Seq(T) /\ Len(ms) \in Nat /\ DOMAIN ms = 1 .. Len(ms) BY SequenceFacts DEF Calls, Sequence
<1> HIDE DEF T
<1>2. /\ r \in Seq(T) /\ DOMAIN r = 1 .. (Len(ms) - 1)
      /\ \A j \in DOMAIN r : r[j] = ms[IF j < k THEN j ELSE j + 1]
  BY <1>1, Removed
<1> HIDE DEF r
<1>3. Sequence(r) BY <1>2, SequenceOf
<1>4. f \in [DOMAIN r -> DOMAIN ms \cup {0}] BY <1>1, <1>2
<1>5. \A j \in DOMAIN r : f[j] # 0 /\ f[j] \in DOMAIN ms /\ r[j] = ms[f[j]] BY <1>1, <1>2
<1>6. \A j \in DOMAIN r : Alike(r[j], ms[f[j]]) BY <1>5 DEF Alike, Calls
<1>7. \A i, j \in DOMAIN r : f[i] = f[j] => i = j BY <1>1, <1>2
<1> HIDE DEF f
<1>8. Calls(r) BY <1>3, <1>5 DEF Calls
<1> QED BY <1>3, <1>4, <1>5, <1>6, <1>7, <1>8 DEF Succeeds, r

\* So does keeping those at some positions.
LEMMA SiftedSucceeds ==
  ASSUME NEW ms, Calls(ms), NEW K \in SUBSET (DOMAIN ms)
  PROVE  Succeeds(Sifted(ms, K), ms, {}) /\ Calls(Sifted(ms, K))
<1> DEFINE r == Sifted(ms, K)
<1>1. Len(ms) \in Nat /\ DOMAIN ms = 1 .. Len(ms) BY SequenceFacts DEF Calls
<1>2. Sequence(r) BY SiftedFrom DEF Calls
<1>3. PICK f \in [DOMAIN r -> K] : /\ \A n \in DOMAIN r : r[n] = ms[f[n]]
                                  /\ \A m, n \in DOMAIN r : f[m] = f[n] => m = n
  BY SiftedFrom DEF Calls
<1> HIDE DEF r
<1>4. f \in [DOMAIN r -> DOMAIN ms \cup {0}] /\ \A j \in DOMAIN r : f[j] # 0 /\ f[j] \in DOMAIN ms
  BY <1>1, <1>3
<1>5. \A j \in DOMAIN r : Alike(r[j], ms[f[j]]) BY <1>3, <1>4 DEF Alike, Calls
<1>6. Calls(r) BY <1>2, <1>3, <1>4 DEF Calls
<1> QED BY <1>2, <1>3, <1>4, <1>5, <1>6 DEF Succeeds, r

\* Leaving a page keeps its calls in flight.
LEMMA LeftSucceeds ==
  ASSUME NEW ms, Calls(ms), NEW t
  PROVE  Succeeds(Left(ms, t), ms, {}) /\ Calls(Left(ms, t))
<1> DEFINE r == Left(ms, t)
<1>1. DOMAIN r = DOMAIN ms /\ r = [j \in DOMAIN ms |-> r[j]] BY DEF Left
<1>2. ASSUME NEW j \in DOMAIN ms PROVE Alike(r[j], ms[j])
  <2> DEFINE c == ms[j]
  <2>1. Whole(c) BY DEF Calls
  <2>2. r[j] = IF c.tab = t THEN [c EXCEPT !.here = FALSE] ELSE c BY DEF Left
  <2> HIDE DEF c, r
  <2>3. Alike(c, c) BY <2>1 DEF Alike
  <2>4. ASSUME NEW b PROVE Alike([c EXCEPT !.here = b], c) BY <2>1 DEF Alike, Whole
  <2> QED BY <2>2, <2>3, <2>4 DEF c
<1> HIDE DEF r
<1> QED BY <1>1, <1>2, MarkedSucceed DEF r

\* So does loading a document in its place.
LEMMA OrphanedSucceeds ==
  ASSUME NEW ms, Calls(ms), NEW t
  PROVE  Succeeds(Orphaned(ms, t), ms, {}) /\ Calls(Orphaned(ms, t))
<1> DEFINE r == [j \in DOMAIN ms |-> IF ms[j].tab = t THEN [ms[j] EXCEPT !.tab = Gone] ELSE ms[j]]
           K == {j \in DOMAIN r : ~ Idle(r[j])}
<1>1. DOMAIN r = DOMAIN ms /\ r = [j \in DOMAIN ms |-> r[j]] OBVIOUS
<1>2. ASSUME NEW j \in DOMAIN ms PROVE Alike(r[j], ms[j])
  <2> DEFINE c == ms[j]
  <2>1. Whole(c) BY DEF Calls
  <2>2. r[j] = IF c.tab = t THEN [c EXCEPT !.tab = Gone] ELSE c OBVIOUS
  <2> HIDE DEF c, r
  <2>3. Alike(c, c) /\ Alike([c EXCEPT !.tab = Gone], c) BY <2>1 DEF Alike, Whole
  <2> QED BY <2>2, <2>3 DEF c
<1>3. Orphaned(ms, t) = Sifted(r, K) BY DEF Orphaned
<1>4. K \in SUBSET (DOMAIN r) OBVIOUS
<1> HIDE DEF r, K
<1>5. Succeeds(r, ms, {}) /\ Calls(r) BY <1>1, <1>2, MarkedSucceed
<1>6. Succeeds(Sifted(r, K), r, {}) /\ Calls(Sifted(r, K)) BY <1>4, <1>5, SiftedSucceeds
<1>7. Sequence(ms) BY DEF Calls
<1> QED BY <1>3, <1>5, <1>6, <1>7, SucceedsTwice

\* What is sent joins what is in flight.
Sending(t, user, kinds, arg, cookie, here) ==
  {NewCall(t, p[1], user, arg, cookie, here, p[2]) : p \in Range(kinds) \X BOOLEAN}
\* Issuing calls keeps those in flight and adds fresh ones.
LEMMA IssueSucceeds ==
  ASSUME NEW ms, Calls(ms), NEW t, NEW user, NEW kinds, Sequence(kinds), NEW arg, NEW cookie, NEW here
  PROVE  Succeeds(Issue(ms, t, user, kinds, arg, cookie, here), ms, Sending(t, user, kinds, arg, cookie, here))
<1> DEFINE mine == {d \in Range(ms) : d.tab = t}
           same(k, d) == ResourceOf(k) = ResourceOf(d.kind)
           lone(k) == /\ \A d \in mine : ~ same(k, d)
                      /\ Cardinality({j \in DOMAIN kinds : ResourceOf(kinds[j]) = ResourceOf(k)}) = 1
           crossed(j) == \E k \in Range(kinds) : ms[j] \in mine /\ same(k, ms[j])
           old == [j \in DOMAIN ms |-> [ms[j] EXCEPT !.lone = @ /\ ~ crossed(j)]]
           fresh == [j \in DOMAIN kinds |-> NewCall(t, kinds[j], user, arg, cookie, here, lone(kinds[j]))]
           new == Sending(t, user, kinds, arg, cookie, here)
           T == Range(old) \cup Range(fresh)
           p == old \o fresh
<1>1. Issue(ms, t, user, kinds, arg, cookie, here) = p BY DEF Issue
<1>2. Len(ms) \in Nat /\ DOMAIN ms = 1 .. Len(ms) BY SequenceFacts DEF Calls
<1>3. Len(kinds) \in Nat /\ DOMAIN kinds = 1 .. Len(kinds) BY SequenceFacts
<1>4. \A j \in DOMAIN kinds : fresh[j] \in new
  <2>1. \A j \in DOMAIN kinds : lone(kinds[j]) \in BOOLEAN /\ kinds[j] \in Range(kinds) BY DEF Range
  <2> HIDE DEF lone
  <2>2. \A j \in DOMAIN kinds : <<kinds[j], lone(kinds[j])>> \in Range(kinds) \X BOOLEAN BY <2>1
  <2>3. \A j \in DOMAIN kinds :
          \E w \in Range(kinds) \X BOOLEAN : fresh[j] = NewCall(t, w[1], user, arg, cookie, here, w[2])
    BY <2>2
  <2> QED BY <2>3 DEF Sending
<1>5. ASSUME NEW j \in DOMAIN ms PROVE Alike(old[j], ms[j])
  <2> DEFINE c == ms[j]
  <2>1. Whole(c) BY DEF Calls
  <2> HIDE DEF crossed
  <2>2. old[j] = [c EXCEPT !.lone = @ /\ ~ crossed(j)] OBVIOUS
  <2> HIDE DEF c, old
  <2>3. Alike([c EXCEPT !.lone = @ /\ ~ crossed(j)], c) BY <2>1 DEF Alike, Whole
  <2> QED BY <2>2, <2>3 DEF c
<1>6. DOMAIN old = 1 .. Len(ms) /\ old = [j \in 1 .. Len(ms) |-> old[j]] BY <1>2
<1>7. DOMAIN fresh = 1 .. Len(kinds) /\ fresh = [j \in 1 .. Len(kinds) |-> fresh[j]] BY <1>3
<1> HIDE DEF old, fresh, new, lone
<1>8. Sequence(old) /\ Len(old) = Len(ms) /\ Sequence(fresh) /\ Len(fresh) = Len(kinds)
  BY <1>2, <1>3, <1>6, <1>7, SequenceMade
<1>9. old \in Seq(T) /\ fresh \in Seq(T)
  <2>1. \A j \in 1 .. Len(old) : old[j] \in T BY <1>6, <1>8 DEF Range
  <2>2. \A j \in 1 .. Len(fresh) : fresh[j] \in T BY <1>7, <1>8 DEF Range
  <2> HIDE DEF T
  <2>3. old \in [1 .. Len(old) -> T] /\ fresh \in [1 .. Len(fresh) -> T] BY <1>6, <1>7, <1>8, <2>1, <2>2
  <2> QED BY <1>2, <1>3, <1>8, <2>3, SeqDef
<1> HIDE DEF T
<1>10. /\ p \in Seq(T) /\ Len(p) = Len(ms) + Len(kinds)
       /\ \A j \in 1 .. (Len(ms) + Len(kinds)) : p[j] = IF j <= Len(ms) THEN old[j] ELSE fresh[j - Len(ms)]
  <2>1. /\ p \in Seq(T) /\ Len(p) = Len(old) + Len(fresh)
        /\ \A j \in 1 .. (Len(old) + Len(fresh)) : p[j] = IF j <= Len(old) THEN old[j] ELSE fresh[j - Len(old)]
    BY <1>9, ConcatProperties
  <2> HIDE DEF p
  <2> QED BY <1>8, <2>1
<1>11. Sequence(p) /\ DOMAIN p = 1 .. (Len(ms) + Len(kinds)) BY <1>10, SequenceOf, LenProperties
<1> DEFINE f == [j \in DOMAIN p |-> IF j <= Len(ms) THEN j ELSE 0]
<1> HIDE DEF p
<1>12. f \in [DOMAIN p -> DOMAIN ms \cup {0}] BY <1>2, <1>3, <1>11
<1>13. \A j \in DOMAIN p : IF f[j] = 0 THEN p[j] \in new ELSE Alike(p[j], ms[f[j]])
  <2>1. \A j \in DOMAIN p : j <= Len(ms) => j \in DOMAIN ms /\ f[j] = j /\ j # 0 /\ p[j] = old[j] BY <1>2, <1>3, <1>10, <1>11
  <2>2. \A j \in DOMAIN p : ~ (j <= Len(ms)) => f[j] = 0 /\ j - Len(ms) \in DOMAIN kinds /\ p[j] = fresh[j - Len(ms)]
    BY <1>2, <1>3, <1>10, <1>11
  <2> QED BY <1>4, <1>5, <2>1, <2>2
<1>14. \A i, j \in DOMAIN p : f[i] = f[j] => i = j \/ f[i] = 0 BY <1>2, <1>3, <1>11
<1> HIDE DEF f
<1> QED BY <1>1, <1>11, <1>12, <1>13, <1>14 DEF Succeeds, new

\* What joins may be of a larger set.
LEMMA SucceedsWider ==
  ASSUME NEW ls, NEW ms, NEW new, NEW more, Succeeds(ls, ms, new), new \subseteq more
  PROVE  Succeeds(ls, ms, more)
<1>1. PICK f \in [DOMAIN ls -> DOMAIN ms \cup {0}] :
       /\ \A j \in DOMAIN ls : IF f[j] = 0 THEN ls[j] \in new ELSE Alike(ls[j], ms[f[j]])
       /\ \A i, j \in DOMAIN ls : f[i] = f[j] => i = j \/ f[i] = 0
  BY DEF Succeeds
<1>2. \A j \in DOMAIN ls : IF f[j] = 0 THEN ls[j] \in more ELSE Alike(ls[j], ms[f[j]]) BY <1>1
<1> QED BY <1>1, <1>2 DEF Succeeds

\* ls is the calls of ms but the i-th, and d in its place or nowhere.
Succeeding(ls, ms, i, d) ==
  /\ Sequence(ls)
  /\ \E f \in [DOMAIN ls -> (DOMAIN ms \ {i}) \cup {0}] :
       /\ \A j \in DOMAIN ls : IF f[j] = 0 THEN ls[j] = d ELSE Alike(ls[j], ms[f[j]])
       /\ \A j, k \in DOMAIN ls : f[j] = f[k] => j = k \/ f[j] = 0

\* Replacing one call is a case of it.
LEMMA FollowsSucceeds ==
  ASSUME NEW ls, NEW ms, NEW i, NEW d, Succeeding(ls, ms, i, d)
  PROVE  Succeeds(ls, ms, {d})
<1>1. PICK f \in [DOMAIN ls -> (DOMAIN ms \ {i}) \cup {0}] :
       /\ \A j \in DOMAIN ls : IF f[j] = 0 THEN ls[j] = d ELSE Alike(ls[j], ms[f[j]])
       /\ \A j, k \in DOMAIN ls : f[j] = f[k] => j = k \/ f[j] = 0
  BY DEF Succeeding
<1>2. f \in [DOMAIN ls -> DOMAIN ms \cup {0}] OBVIOUS
<1>3. \A j \in DOMAIN ls : IF f[j] = 0 THEN ls[j] \in {d} ELSE Alike(ls[j], ms[f[j]]) BY <1>1
<1>4. Sequence(ls) BY DEF Succeeding
<1> QED BY <1>1, <1>2, <1>3, <1>4 DEF Succeeds

\* A call that is put back at its position.
LEMMA PlacedFollows ==
  ASSUME NEW ms, Calls(ms), NEW i \in DOMAIN ms, NEW d
  PROVE  Succeeding(Placed(ms, i, d), ms, i, d)
<1>1. Len(ms) \in Nat /\ DOMAIN ms = 1 .. Len(ms) BY SequenceFacts DEF Calls
<1>2. CASE Idle(d)
  <2> DEFINE T == Range(ms)
             r == RemoveAt(ms, i)
             f == [j \in DOMAIN r |-> IF j < i THEN j ELSE j + 1]
  <2>1. Placed(ms, i, d) = r BY <1>2 DEF Placed
  <2>2. ms \in Seq(T) BY DEF Calls, Sequence
  <2> HIDE DEF T
  <2>3. /\ r \in Seq(T) /\ DOMAIN r = 1 .. (Len(ms) - 1)
        /\ \A j \in DOMAIN r : r[j] = ms[IF j < i THEN j ELSE j + 1]
    BY <2>2, Removed
  <2> HIDE DEF r
  <2>4. Sequence(r) BY <2>3, SequenceOf
  <2>5. f \in [DOMAIN r -> (DOMAIN ms \ {i}) \cup {0}] BY <1>1, <2>3
  <2>6. \A j \in DOMAIN r : f[j] # 0 /\ f[j] \in DOMAIN ms /\ r[j] = ms[f[j]] BY <1>1, <2>3
  <2>7. \A j \in DOMAIN r : f[j] # 0 /\ Alike(r[j], ms[f[j]]) BY <2>6 DEF Alike, Calls
  <2>8. \A j, k \in DOMAIN r : f[j] = f[k] => j = k BY <1>1, <2>3
  <2> HIDE DEF f
  <2> QED BY <2>1, <2>4, <2>5, <2>7, <2>8 DEF Succeeding
<1>3. CASE ~ Idle(d)
  <2> DEFINE ls == [ms EXCEPT ![i] = d]
             f == [j \in DOMAIN ms |-> IF j = i THEN 0 ELSE j]
  <2>1. Placed(ms, i, d) = ls BY <1>3 DEF Placed
  <2>2. DOMAIN ls = DOMAIN ms /\ ls = [j \in DOMAIN ms |-> ls[j]] /\ ls[i] = d OBVIOUS
  <2>3. \A j \in DOMAIN ms \ {i} : Alike(ls[j], ms[j]) BY DEF Calls, Alike
  <2> HIDE DEF ls
  <2>4. Sequence(ls) BY <1>1, <2>2, SequenceMade
  <2>5. f \in [DOMAIN ls -> (DOMAIN ms \ {i}) \cup {0}] BY <2>2
  <2>6. \A j \in DOMAIN ls : IF f[j] = 0 THEN ls[j] = d ELSE Alike(ls[j], ms[f[j]]) BY <1>1, <2>2, <2>3
  <2>7. \A j, k \in DOMAIN ls : f[j] = f[k] => j = k \/ f[j] = 0 BY <1>1, <2>2
  <2> HIDE DEF f
  <2> QED BY <2>1, <2>4, <2>5, <2>6, <2>7 DEF Succeeding
<1> QED BY <1>2, <1>3

\* A write that commits changes its own call only.
LEMMA CommitFollows ==
  ASSUME Calls(calls), NEW i \in DOMAIN calls, NEW d, Commit(i, d)
  PROVE  Succeeding(calls', calls, i, d)
<1> DEFINE c == calls[i]
           past(j) == Outdated(calls[j], c)
           ls == [j \in DOMAIN calls |-> [calls[j] EXCEPT !.lone = @ /\ ~ past(j)]]
<1>1. calls' = Placed(ls, i, d) BY DEF Commit
<1> HIDE DEF past, c
<1>2. DOMAIN ls = DOMAIN calls /\ ls = [j \in DOMAIN calls |-> ls[j]] OBVIOUS
<1>3. ASSUME NEW j \in DOMAIN calls PROVE Alike(ls[j], calls[j])
  <2> DEFINE o == calls[j]
  <2>1. Whole(o) BY DEF Calls
  <2>2. ls[j] = [o EXCEPT !.lone = @ /\ ~ past(j)] OBVIOUS
  <2> HIDE DEF o, ls
  <2>3. Alike([o EXCEPT !.lone = @ /\ ~ past(j)], o) BY <2>1 DEF Alike, Whole
  <2> QED BY <2>2, <2>3 DEF o
<1> HIDE DEF ls
<1>4. Calls(ls) BY <1>2, <1>3, MarkedSucceed
<1>5. Succeeding(calls', ls, i, d) BY <1>1, <1>2, <1>4, PlacedFollows
<1>6. PICK f \in [DOMAIN calls' -> (DOMAIN calls \ {i}) \cup {0}] :
       /\ \A j \in DOMAIN calls' : IF f[j] = 0 THEN calls'[j] = d ELSE Alike(calls'[j], ls[f[j]])
       /\ \A j, k \in DOMAIN calls' : f[j] = f[k] => j = k \/ f[j] = 0
  BY <1>2, <1>5 DEF Succeeding
<1>7. \A j \in DOMAIN calls' : IF f[j] = 0 THEN calls'[j] = d ELSE Alike(calls'[j], calls[f[j]])
  <2>1. \A j \in DOMAIN calls' : f[j] # 0 => f[j] \in DOMAIN calls OBVIOUS
  <2> QED BY <1>3, <1>6, <2>1 DEF Alike
<1>8. Sequence(calls') BY <1>5 DEF Succeeding
<1> QED BY <1>6, <1>7, <1>8 DEF Succeeding

\* What a form or a call holds of a profile was read from one customer's.
Users == Customers \cup {NoOne}
Profiles == [keys : Customers, rest : Customers \X Nat]
Own(v) == \/ v = Blank
          \/ v \in Profiles /\ v.rest[1] = v.keys /\ details[v.keys] # Blank
\* whom the cookie of an answer names
Whom(c) == CASE c.kind = "logout" -> NoOne
             [] c.kind \in {"login", "register"} -> c.user
             [] OTHER -> c.token.user
Sound(c) ==
  /\ Whole(c) /\ c.tab \in Tabs \cup {Gone} /\ c.token.user \in Users
  /\ c.kind # "auth" => c.user \in Customers
  /\ c.kind = "auth" /\ c.ok => c.value \in Customers
  /\ c.kind = "profile" /\ c.ok => Own(c.value)
  /\ c.kind = "save" => Own(c.arg) /\ c.arg # Blank
  /\ c.cookie # <<>> => \E k : c.cookie = <<k>> /\ k.user = Whom(c)
  /\ c.kind = "logout" /\ c.ok => c.cookie # <<>>
Document(T) ==
  /\ T = [page |-> T.page, user |-> T.user, busy |-> T.busy, settled |-> T.settled, shown |-> T.shown]
  /\ DOMAIN T.shown = {"payees", "accounts", "history", "form"} /\ T.user \in Users /\ Own(T.shown["form"])
ProfilesKept ==
  /\ DOMAIN details = Customers /\ DOMAIN tab = Tabs /\ jar.user \in Users
  /\ \A c \in Customers : details[c] = Blank \/ (details[c] \in Profiles /\ details[c].keys = c /\ details[c].rest[1] = c)
  /\ \A t \in Tabs : Document(tab[t])
CallsKept == Sequence(calls) /\ \A j \in DOMAIN calls : Sound(calls[j])

\* Without a race every call of a session is of the last sign-in's.
SessionsKept ==
  ~ raced => /\ jar.user \in {NoOne, last}
             /\ \A j \in DOMAIN calls : calls[j].token.user \in {NoOne, last}

\* An addition that passed its check is the only one of its customer, and still right.
Adds(c) == c.kind = "add" /\ c.stage = "checked"
PayeesKept ==
  ~ overlapped =>
    /\ \A j \in DOMAIN calls : Adds(calls[j]) => Twins(calls[j]) = {}
    /\ \A i, j \in DOMAIN calls : Adds(calls[i]) /\ Adds(calls[j]) /\ calls[i].user = calls[j].user => i = j
    /\ \A r, s \in rows : r.payer = s.payer /\ r.payee = s.payee => r = s
RowsKept == \A r \in rows : r = [payer |-> r.payer, payee |-> r.payee, name |-> r.name, id |-> r.id]
PagesInv == CallsKept /\ ProfilesKept /\ SessionsKept /\ RowsKept /\ PayeesKept

\* The invariant gives every call its shape.
LEMMA CallsAre == PagesInv => Calls(calls)
BY DEF PagesInv, CallsKept, Calls, Sound

\* What is in flight stays sound when it is sound what joins it.
LEMMA CallsQuiet ==
  ASSUME CallsKept, NEW new, Succeeds(calls', calls, new), \A n \in new : Sound(n)',
         \A u \in Customers : details[u] # Blank => details'[u] # Blank
  PROVE  CallsKept'
<1>1. PICK f \in [DOMAIN calls' -> DOMAIN calls \cup {0}] :
       \A j \in DOMAIN calls' : IF f[j] = 0 THEN calls'[j] \in new ELSE Alike(calls'[j], calls[f[j]])
  BY DEF Succeeds
<1>2. \A j \in DOMAIN calls' : \/ calls'[j] \in new
                               \/ f[j] \in DOMAIN calls /\ f[j] # 0 /\ Alike(calls'[j], calls[f[j]])
  BY <1>1
<1>3. ASSUME NEW j \in DOMAIN calls', calls'[j] \in new PROVE Sound(calls[j])'
  BY <1>3 DEF Sound, Own, Whom
<1>4. ASSUME NEW j \in DOMAIN calls', NEW c, Sound(c), Alike(calls'[j], c) PROVE Sound(calls[j])'
  <2>1. \A v : Own(v) => Own(v)' BY DEF Own, Profiles
  <2> QED BY <1>4, <2>1 DEF Sound, Alike, Whom
<1>5. \A j \in DOMAIN calls' : Sound(calls[j])' BY <1>2, <1>3, <1>4 DEF CallsKept
<1>6. Sequence(calls') BY DEF Succeeds
<1> QED BY <1>5, <1>6 DEF CallsKept

\* A step that only sends, answers or forgets calls, none of them an addition's check.
LEMMA PagesQuiet ==
  ASSUME PagesInv, NEW new, Succeeds(calls', calls, new), ProfilesKept', SessionsKept',
         \A u \in Customers : details[u] # Blank => details'[u] # Blank,
         \A n \in new : Sound(n)' /\ ~ Adds(n), UNCHANGED <<rows, overlapped>>
  PROVE  PagesInv'
<1>1. PICK f \in [DOMAIN calls' -> DOMAIN calls \cup {0}] :
       /\ \A j \in DOMAIN calls' : IF f[j] = 0 THEN calls'[j] \in new ELSE Alike(calls'[j], calls[f[j]])
       /\ \A i, j \in DOMAIN calls' : f[i] = f[j] => i = j \/ f[i] = 0
  BY DEF Succeeds
<1>2. \A j \in DOMAIN calls' : \/ calls'[j] \in new
                               \/ f[j] \in DOMAIN calls /\ f[j] # 0 /\ Alike(calls'[j], calls[f[j]])
  BY <1>1
<1>3. CallsKept' BY CallsQuiet DEF PagesInv
<1>4. PayeesKept'
  <2>1. \A j \in DOMAIN calls' : Adds(calls'[j]) => f[j] \in DOMAIN calls /\ f[j] # 0 /\ Alike(calls'[j], calls[f[j]])
    BY <1>2
  <2>2. ASSUME ~ overlapped, NEW j \in DOMAIN calls', Adds(calls'[j]) PROVE Twins(calls[j])' = {}
    <3>1. Twins(calls[f[j]]) = {} /\ Alike(calls'[j], calls[f[j]])
      BY <2>1, <2>2 DEF PagesInv, PayeesKept, Alike, Adds
    <3> QED BY <3>1 DEF Twins, PayeesOf, Alike
  <2>3. ASSUME ~ overlapped, NEW i \in DOMAIN calls', NEW j \in DOMAIN calls', Adds(calls'[i]), Adds(calls'[j]),
               calls'[i].user = calls'[j].user
        PROVE  i = j
    <3>1. f[i] = f[j] BY <2>1, <2>3 DEF PagesInv, PayeesKept, Alike, Adds
    <3> QED BY <1>1, <2>1, <2>3, <3>1
  <2>4. ~ overlapped => \A r, s \in rows : r.payer = s.payer /\ r.payee = s.payee => r = s
    BY DEF PagesInv, PayeesKept
  <2> QED BY <2>2, <2>3, <2>4 DEF PayeesKept, Adds
<1>5. RowsKept' BY DEF PagesInv, RowsKept
<1> QED BY <1>3, <1>4, <1>5 DEF PagesInv

\* The session stays: what is sent presents the cookie, what is answered keeps its token.
LEMMA SessionQuiet ==
  ASSUME PagesInv, NEW new, Succeeds(calls', calls, new), UNCHANGED <<jar, last, raced>>,
         \A n \in new : n.token.user \in {NoOne, jar.user} \/ \E j \in DOMAIN calls : n.token = calls[j].token
  PROVE  SessionsKept'
<1>1. PICK f \in [DOMAIN calls' -> DOMAIN calls \cup {0}] :
       \A j \in DOMAIN calls' : IF f[j] = 0 THEN calls'[j] \in new ELSE Alike(calls'[j], calls[f[j]])
  BY DEF Succeeds
<1>2. \A j \in DOMAIN calls' : \/ calls'[j] \in new
                               \/ f[j] \in DOMAIN calls /\ calls'[j].token = calls[f[j]].token
  BY <1>1 DEF Alike
<1> QED BY <1>2 DEF PagesInv, SessionsKept

\* The page of a tab changes, and what is known of the profiles does not.
LEMMA ProfilesQuiet ==
  ASSUME PagesInv, UNCHANGED details, jar'.user \in Users, NEW t, NEW T, Document(T),
         tab' = tab \/ tab' = [tab EXCEPT ![t] = T]
  PROVE  ProfilesKept' /\ \A u \in Customers : details[u] # Blank => details'[u] # Blank
<1>1. DOMAIN tab' = Tabs /\ \A u \in Tabs : tab'[u] = tab[u] \/ tab'[u] = T
  BY DEF PagesInv, ProfilesKept
<1>2. \A u \in Tabs : Document(tab[u])' BY <1>1 DEF PagesInv, ProfilesKept, Document, Own
<1> QED BY <1>1, <1>2 DEF PagesInv, ProfilesKept

\* A call presents the cookie it was sent with, or none.
LEMMA PresentedUser ==
  ASSUME NEW k PROVE Presented(k).user \in {NoOne, k.user}
BY DEF Presented, NoToken

\* A call that is sent is sound, and presents the cookie or none.
LEMMA SentSound ==
  ASSUME NEW t \in Tabs, NEW kind, NEW user, NEW arg, NEW cookie, cookie.user \in Users, NEW here, NEW l,
         kind # "auth" => user \in Customers, kind = "save" => Own(arg) /\ arg # Blank
  PROVE  LET n == NewCall(t, kind, user, arg, cookie, here, l)
         IN  Sound(n) /\ ~ Adds(n) /\ n.token.user \in {NoOne, cookie.user}
<1> DEFINE n == NewCall(t, kind, user, arg, cookie, here, l)
           token == Presented(cookie)
<1>1. token.user \in {NoOne, cookie.user} /\ token.user \in Users BY PresentedUser DEF Users
<1>2. n = [tab |-> t, kind |-> kind, user |-> user, arg |-> arg, token |-> token,
           stage |-> "sent", ok |-> FALSE, value |-> Blank, cookie |-> <<>>, here |-> here, lone |-> l]
  BY DEF NewCall
<1> HIDE DEF token, n
<1>3. /\ Whole(n) /\ n.tab = t /\ n.kind = kind /\ n.user = user /\ n.arg = arg /\ n.token = token
      /\ n.stage = "sent" /\ ~ n.ok /\ n.cookie = <<>>
  BY <1>2 DEF Whole
<1>4. Sound(n) BY <1>1, <1>3 DEF Sound
<1> QED BY <1>1, <1>3, <1>4 DEF Adds, n

\* What is sent is sound, and presents the cookie or none.
LEMMA SendingSound ==
  ASSUME NEW t \in Tabs, NEW user, NEW kinds, NEW arg, NEW cookie, cookie.user \in Users, NEW here,
         \A k \in Range(kinds) : k # "auth" => user \in Customers,
         "save" \in Range(kinds) => Own(arg) /\ arg # Blank
  PROVE  \A n \in Sending(t, user, kinds, arg, cookie, here) :
            Sound(n) /\ ~ Adds(n) /\ n.token.user \in {NoOne, cookie.user}
<1>1. ASSUME NEW k \in Range(kinds), NEW l
      PROVE  LET n == NewCall(t, k, user, arg, cookie, here, l)
             IN  Sound(n) /\ ~ Adds(n) /\ n.token.user \in {NoOne, cookie.user}
  <2>1. k # "auth" => user \in Customers OBVIOUS
  <2>2. k = "save" => Own(arg) /\ arg # Blank OBVIOUS
  <2> QED BY <2>1, <2>2, SentSound
<1>2. ASSUME NEW n \in Sending(t, user, kinds, arg, cookie, here)
      PROVE  Sound(n) /\ ~ Adds(n) /\ n.token.user \in {NoOne, cookie.user}
  <2>1. PICK p \in Range(kinds) \X BOOLEAN : n = NewCall(t, p[1], user, arg, cookie, here, p[2])
    BY DEF Sending
  <2>2. p[1] \in Range(kinds) BY <2>1
  <2> QED BY <1>1, <2>1, <2>2
<1> QED BY <1>2

\* The customer acts, and the tab sends.
LEMMA ActedInv ==
  ASSUME PagesInv, NEW t \in Tabs, NEW T, Document(T), tab' = tab \/ tab' = [tab EXCEPT ![t] = T],
         NEW ms, Calls(ms), Succeeds(ms, calls, {}), NEW kinds, Sequence(kinds), NEW user, NEW arg,
         calls' = Issue(ms, t, user, kinds, arg, jar, TRUE), UNCHANGED <<jar, last, raced, details, rows, overlapped>>,
         \A k \in Range(kinds) : k # "auth" => user \in Customers,
         "save" \in Range(kinds) => Own(arg) /\ arg # Blank
  PROVE  PagesInv'
<1> DEFINE new == Sending(t, user, kinds, arg, jar, TRUE)
<1>1. jar.user \in Users /\ Sequence(calls) BY CallsAre DEF PagesInv, ProfilesKept, Calls
<1>2. Succeeds(calls', ms, new) BY IssueSucceeds
<1>3. \A n \in new : Sound(n) /\ ~ Adds(n) /\ n.token.user \in {NoOne, jar.user} BY <1>1, SendingSound
<1> HIDE DEF new
<1>4. Succeeds(calls', calls, new) BY <1>1, <1>2, SucceedsTwice
<1>5. ProfilesKept' /\ \A u \in Customers : details[u] # Blank => details'[u] # Blank BY <1>1, ProfilesQuiet
<1>6. \A n \in new : Sound(n)' /\ ~ Adds(n) BY <1>3 DEF Sound, Own, Whom
<1>7. SessionsKept' BY <1>3, <1>4, SessionQuiet
<1> QED BY <1>4, <1>5, <1>6, <1>7, PagesQuiet

\* Calls that stay as they are succeed themselves.
LEMMA SucceedsItself ==
  ASSUME NEW ms, Calls(ms)
  PROVE  Succeeds(ms, ms, {})
<1>1. ms = [j \in DOMAIN ms |-> ms[j]] BY SequenceFacts DEF Calls
<1>2. \A j \in DOMAIN ms : Alike(ms[j], ms[j]) BY DEF Alike, Calls
<1> QED BY <1>1, <1>2, MarkedSucceed

\* A customer's request keeps the invariant.
LEMMA SubmitInv ==
  ASSUME PagesInv, NEW t \in Tabs, NEW kind, NEW user \in Customers, NEW arg,
         kind = "save" => Own(arg) /\ arg # Blank, Submit(t, kind, user, arg)
  PROVE  PagesInv'
<1>1. /\ calls' = Issue(calls, t, user, <<kind>>, arg, jar, TRUE) /\ tab' = tab
      /\ UNCHANGED <<jar, last, raced, details, rows, overlapped>>
  BY DEF Submit, Act, server
<1>2. Document(tab[t]) BY DEF PagesInv, ProfilesKept
<1>3. Calls(calls) /\ Succeeds(calls, calls, {}) BY CallsAre, SucceedsItself
<1>4. Sequence(<<kind>>) BY ShortSequences
<1>5. \A k \in Range(<<kind>>) : k = kind BY DEF Range
<1> DEFINE T == tab[t]
           kinds == <<kind>>
           ms == calls
<1> HIDE DEF T, kinds, ms
<1>7. Document(T) /\ Sequence(kinds) /\ Calls(ms) /\ Succeeds(ms, calls, {})
  BY <1>2, <1>3, <1>4 DEF T, kinds, ms
<1>8. calls' = Issue(ms, t, user, kinds, arg, jar, TRUE) BY <1>1 DEF kinds, ms
<1>9. /\ \A k \in Range(kinds) : k # "auth" => user \in Customers
      /\ "save" \in Range(kinds) => Own(arg) /\ arg # Blank
  BY <1>5 DEF kinds
<1>10. tab' = tab \/ tab' = [tab EXCEPT ![t] = T] BY <1>1
<1>11. UNCHANGED <<jar, last, raced, details, rows, overlapped>> BY <1>1
<1> QED BY <1>7, <1>8, <1>9, <1>10, <1>11, ActedInv

\* Load keeps the invariant.
LEMMA LoadInv ==
  ASSUME PagesInv, NEW t \in Tabs, Load(t)
  PROVE  PagesInv'
<1> DEFINE T == Loaded(tab[t].page)
           ms == Orphaned(calls, t)
<1>1. /\ calls' = Issue(ms, t, NoOne, <<"auth">>, Blank, jar, TRUE) /\ tab' = [tab EXCEPT ![t] = T]
      /\ UNCHANGED <<jar, last, raced, details, rows, overlapped>>
  BY DEF Load, Act, server
<1>2. Document(T) BY DEF Loaded, Empty, Document, Own, Users
<1>3. Calls(ms) /\ Succeeds(ms, calls, {}) BY CallsAre, OrphanedSucceeds
<1> HIDE DEF T, ms
<1>4. Sequence(<<"auth">>) BY ShortSequences
<1>5. /\ \A k \in Range(<<"auth">>) : k # "auth" => NoOne \in Customers
      /\ "save" \in Range(<<"auth">>) => Own(Blank) /\ Blank # Blank
  BY DEF Range
<1> QED BY <1>1, <1>2, <1>3, <1>4, <1>5, ActedInv

\* A document that is mounted is whole.
LEMMA MountedDocument ==
  ASSUME NEW T, NEW page, Document(T)
  PROVE  Document(Mounted(T, page))
<1> DEFINE shown == [r \in DOMAIN T.shown |-> IF r \in Kept THEN T.shown[r] ELSE Blank]
<1>1. DOMAIN shown = {"payees", "accounts", "history", "form"} /\ Own(shown["form"])
  BY DEF Document, Kept, Own
<1>2. T = [page |-> T.page, user |-> T.user, busy |-> T.busy, settled |-> T.settled, shown |-> T.shown]
  BY DEF Document
<1> DEFINE read == Reads(page) = <<>>
<1>3. Mounted(T, page) = [T EXCEPT !.page = page, !.busy = FALSE, !.settled = read, !.shown = shown]
  BY DEF Mounted
<1> HIDE DEF shown, read
<1>4. Mounted(T, page) = [page |-> page, user |-> T.user, busy |-> FALSE, settled |-> read, shown |-> shown]
  BY <1>2, <1>3
<1> QED BY <1>1, <1>4 DEF Document

\* What a page reads on its own writes nothing.
LEMMA ReadsOnly ==
  ASSUME NEW page
  PROVE  Sequence(Reads(page)) /\ \A k \in Range(Reads(page)) : k \notin {"auth", "save"}
<1>1. Reads(page) \in {<<"history">>, <<"primary">>, <<"payees">>, <<"profile">>, <<>>} BY DEF Reads
<1>2. Sequence(Reads(page)) BY <1>1, ShortSequences
<1>3. \A k \in Range(Reads(page)) : k \notin {"auth", "save"} BY <1>1 DEF Range
<1> QED BY <1>2, <1>3

\* Visit keeps the invariant.
LEMMA VisitInv ==
  ASSUME PagesInv, NEW t \in Tabs, Visit(t)
  PROVE  PagesInv'
<1> DEFINE ms == Left(calls, t)
           user == tab[t].user
<1>1. PICK page \in Destinations \ {tab[t].page} :
          /\ tab' = [tab EXCEPT ![t] = Mounted(tab[t], page)]
          /\ calls' = Issue(ms, t, user, Reads(page), Blank, jar, TRUE)
  BY DEF Visit
<1>2. user # NoOne /\ UNCHANGED <<jar, last, raced, details, rows, overlapped>>
  BY DEF Visit, Act, server
<1>3. Document(tab[t]) /\ user \in Customers BY <1>2 DEF PagesInv, ProfilesKept, Document, Users
<1>4. Calls(ms) /\ Succeeds(ms, calls, {}) BY CallsAre, LeftSucceeds
<1> HIDE DEF ms, user
<1>5. Document(Mounted(tab[t], page)) BY <1>3, MountedDocument
<1>6. Sequence(Reads(page)) BY ReadsOnly
<1>7. /\ \A k \in Range(Reads(page)) : k # "auth" => user \in Customers
      /\ "save" \in Range(Reads(page)) => Own(Blank) /\ Blank # Blank
  BY <1>3, ReadsOnly
<1> DEFINE T == Mounted(tab[t], page)
<1> HIDE DEF T
<1>8. tab' = [tab EXCEPT ![t] = T] /\ Document(T) BY <1>1, <1>5 DEF T
<1> QED BY <1>1, <1>2, <1>4, <1>6, <1>7, <1>8, ActedInv

\* Whatever a customer does keeps the invariant.
LEMMA CustomerInv ==
  ASSUME PagesInv, NEW t \in Tabs, Customer(t)
  PROVE  PagesInv'
<1> DEFINE user == tab[t].user
<1>1. Document(tab[t]) BY DEF PagesInv, ProfilesKept
<1>2. \A page : page # "login" /\ On(t, page) => user \in Customers
  BY <1>1 DEF On, Document, Users
<1>3. CASE Load(t) BY <1>3, LoadInv
<1>4. CASE Visit(t) BY <1>4, VisitInv
<1>5. CASE SignIn(t)
  <2>1. PICK kind \in {"login", "register"}, c \in Customers : Submit(t, kind, c, Blank) BY <1>5 DEF SignIn
  <2>2. kind # "save" BY <2>1
  <2> QED BY <2>1, <2>2, SubmitInv
<1>6. CASE Logout(t)
  <2>1. user \in Customers /\ Submit(t, "logout", user, Blank) BY <1>1, <1>6 DEF Logout, Document, Users
  <2> HIDE DEF user
  <2> QED BY <2>1, SubmitInv
<1>7. CASE AddPayee(t)
  <2>1. user \in Customers /\ \E form \in Forms : Submit(t, "add", user, form) BY <1>2, <1>7 DEF AddPayee
  <2> HIDE DEF user
  <2> QED BY <2>1, SubmitInv
<1>8. CASE EditPayee(t)
  <2>1. user \in Customers /\ \E arg : Submit(t, "edit", user, arg) BY <1>2, <1>8 DEF EditPayee
  <2> HIDE DEF user
  <2> QED BY <2>1, SubmitInv
<1>9. CASE DeletePayee(t)
  <2>1. user \in Customers /\ \E arg : Submit(t, "remove", user, arg) BY <1>2, <1>9 DEF DeletePayee
  <2> HIDE DEF user
  <2> QED BY <2>1, SubmitInv
<1>10. CASE Pay(t)
  <2>1. user \in Customers /\ Submit(t, "pay", user, Blank) BY <1>2, <1>10 DEF Pay
  <2> HIDE DEF user
  <2> QED BY <2>1, SubmitInv
<1>11. CASE OpenAccount(t)
  <2>1. user \in Customers /\ Submit(t, "open", user, Blank) BY <1>2, <1>11 DEF OpenAccount
  <2> HIDE DEF user
  <2> QED BY <2>1, SubmitInv
<1>12. CASE SaveProfile(t)
  <2> DEFINE form == tab[t].shown["form"]
             arg == [form EXCEPT !.rest = <<@[1], @[2] + 1>>]
  <2>1. user \in Customers /\ form # Blank /\ Submit(t, "save", user, arg) BY <1>2, <1>12 DEF SaveProfile
  <2>2. form \in Profiles /\ form.rest[1] = form.keys /\ details[form.keys] # Blank
    BY <1>1, <2>1 DEF Document, Own
  <2> HIDE DEF form
  <2>3. arg \in Profiles /\ arg.keys = form.keys /\ arg.rest[1] = form.rest[1] BY <2>2 DEF Profiles
  <2> HIDE DEF user, arg
  <2>4. Own(arg) BY <2>2, <2>3 DEF Own
  <2>5. arg # Blank BY <2>3, OnlineBankingAssumption DEF Profiles
  <2> QED BY <2>1, <2>4, <2>5, SubmitInv
<1> QED BY <1>3, <1>4, <1>5, <1>6, <1>7, <1>8, <1>9, <1>10, <1>11, <1>12 DEF Customer

-----------------------------------------------------------------------------
(***************************************************************************)
(* The handlers.                                                           *)
(***************************************************************************)
LEMMA AnswerSound ==
  ASSUME NEW c, Sound(c), NEW ok, NEW value, c.kind = "auth" /\ ok => value \in Customers,
         c.kind = "profile" /\ ok => Own(value), c.kind = "logout" /\ ok => c.cookie # <<>>
  PROVE  /\ Sound(Answer(c, ok, value)) /\ ~ Adds(Answer(c, ok, value))
         /\ Answer(c, ok, value).token = c.token
<1> DEFINE d == Answer(c, ok, value)
<1>1. d = [tab |-> c.tab, kind |-> c.kind, user |-> c.user, arg |-> c.arg, token |-> c.token,
           stage |-> "done", ok |-> ok, value |-> value, cookie |-> c.cookie, here |-> c.here, lone |-> c.lone]
  <2>1. d = [c EXCEPT !.stage = "done", !.ok = ok, !.value = value] BY DEF Answer
  <2>2. c = [tab |-> c.tab, kind |-> c.kind, user |-> c.user, arg |-> c.arg, token |-> c.token,
             stage |-> c.stage, ok |-> c.ok, value |-> c.value, cookie |-> c.cookie, here |-> c.here, lone |-> c.lone]
    BY DEF Sound, Whole
  <2> HIDE DEF d
  <2> QED BY <2>1, <2>2
<1> HIDE DEF d
<1>2. /\ Whole(d) /\ d.tab = c.tab /\ d.kind = c.kind /\ d.user = c.user /\ d.arg = c.arg /\ d.token = c.token
      /\ d.stage = "done" /\ d.ok = ok /\ d.value = value /\ d.cookie = c.cookie
  BY <1>1 DEF Whole
<1>3. Sound(d) BY <1>2 DEF Sound, Whom
<1> QED BY <1>2, <1>3 DEF Adds, d

\* A new cookie in an answer names whom its sort of call is for.
LEMMA CookieSound ==
  ASSUME NEW c, Sound(c), NEW k, k.user = Whom(c)
  PROVE  LET d == [c EXCEPT !.cookie = <<k>>]
         IN  /\ Sound(d) /\ d.token = c.token /\ d.kind = c.kind /\ d.stage = c.stage /\ d.user = c.user
             /\ d.arg = c.arg /\ d.ok = c.ok /\ d.value = c.value /\ d.cookie # <<>>
<1> DEFINE d == [c EXCEPT !.cookie = <<k>>]
<1>1. d = [tab |-> c.tab, kind |-> c.kind, user |-> c.user, arg |-> c.arg, token |-> c.token,
           stage |-> c.stage, ok |-> c.ok, value |-> c.value, cookie |-> <<k>>, here |-> c.here, lone |-> c.lone]
  BY DEF Sound, Whole
<1> HIDE DEF d
<1>2. /\ Whole(d) /\ d.tab = c.tab /\ d.kind = c.kind /\ d.user = c.user /\ d.arg = c.arg /\ d.token = c.token
      /\ d.stage = c.stage /\ d.ok = c.ok /\ d.value = c.value /\ d.cookie = <<k>>
  BY <1>1 DEF Whole
<1>3. <<k>> # <<>> OBVIOUS
<1>4. Sound(d) BY <1>2, <1>3 DEF Sound, Whom
<1> QED BY <1>2, <1>3, <1>4 DEF d

\* An answer with a rotated cookie is sound.
LEMMA RotatedSound ==
  ASSUME NEW c, Sound(c)
  PROVE  LET d == Rotated(c)
         IN  /\ Sound(d) /\ d.token = c.token /\ d.kind = c.kind /\ d.stage = c.stage /\ d.user = c.user
             /\ d.arg = c.arg /\ d.ok = c.ok /\ d.value = c.value /\ (c.cookie # <<>> => d.cookie # <<>>)
<1> DEFINE k == Fresh(c.token.user)
<1>1. CASE c.kind \in Guarded /\ c.token.exp - clock < Renewal
  <2>1. Rotated(c) = [c EXCEPT !.cookie = <<k>>] BY <1>1 DEF Rotated
  <2>2. k.user = Whom(c) BY <1>1 DEF Fresh, Whom, Guarded, Writes
  <2> HIDE DEF k
  <2> QED BY <2>1, <2>2, CookieSound
<1>2. CASE ~ (c.kind \in Guarded /\ c.token.exp - clock < Renewal)
  <2>1. Rotated(c) = c BY <1>2 DEF Rotated
  <2> QED BY <2>1
<1> QED BY <1>1, <1>2

\* A handler's answer that writes nothing keeps the invariant.
LEMMA AnsweredInv ==
  ASSUME PagesInv, NEW i \in DOMAIN calls, NEW d, Served(i, d), Sound(d), ~ Adds(d), d.token = calls[i].token,
         UNCHANGED <<jar, last, raced, tab, details, rows, overlapped>>
  PROVE  PagesInv'
<1>1. Succeeds(calls', calls, {d}) BY CallsAre, PlacedFollows, FollowsSucceeds DEF Served
<1>2. SessionsKept' BY <1>1, SessionQuiet
<1>3. ProfilesKept' BY DEF PagesInv, ProfilesKept, Document, Own
<1>4. Sound(d)' BY DEF Sound, Own, Whom
<1> QED BY <1>1, <1>2, <1>3, <1>4, PagesQuiet

\* Refuse keeps the invariant.
LEMMA RefuseInv ==
  ASSUME PagesInv, NEW i \in DOMAIN calls, Refuse(i)
  PROVE  PagesInv'
<1> DEFINE c == calls[i]
           d == Answer(c, FALSE, Blank)
           e == Answer(Rotated(c), FALSE, Blank)
<1>1. Sound(c) /\ Sound(Rotated(c)) /\ Rotated(c).token = c.token
  BY RotatedSound DEF PagesInv, CallsKept
<1>2. Sound(d) /\ ~ Adds(d) /\ d.token = c.token BY <1>1, AnswerSound
<1>3. Sound(e) /\ ~ Adds(e) /\ e.token = c.token BY <1>1, AnswerSound
<1>4. UNCHANGED <<jar, last, raced, tab, details, rows, overlapped>> BY DEF Refuse, Serve, server
<1>5. Served(i, d) \/ Served(i, e) BY DEF Refuse
<1> HIDE DEF c, d, e
<1>6. calls[i] = c BY DEF c
<1> QED BY <1>2, <1>3, <1>4, <1>5, <1>6, AnsweredInv

\* Read keeps the invariant.
LEMMA ReadInv ==
  ASSUME PagesInv, NEW i \in DOMAIN calls, Read(i)
  PROVE  PagesInv'
<1> DEFINE c == calls[i]
           r == Rotated(c)
           d == Answer(r, TRUE, Value(c))
<1>1. /\ Sound(c) /\ Sound(r) /\ r.token = c.token /\ r.kind = c.kind
  BY RotatedSound DEF PagesInv, CallsKept
<1>2. c.token.user \in Customers BY <1>1 DEF Read, Session, Sound, Users
<1>3. c.kind = "auth" => Value(c) \in Customers BY <1>2 DEF Value
<1>4. c.kind = "profile" => Own(Value(c))
  <2>1. c.kind = "profile" => Value(c) = details[c.token.user] BY DEF Value
  <2> QED BY <1>2, <2>1 DEF PagesInv, ProfilesKept, Own
<1>5. c.kind # "logout" BY DEF Read, Resource
<1>6. Served(i, d) /\ UNCHANGED <<jar, last, raced, tab, details, rows, overlapped>> BY DEF Read, Serve, server
<1> DEFINE v == Value(c)
<1>7. calls[i] = c /\ d = Answer(r, TRUE, v) OBVIOUS
<1> HIDE DEF c, r, v, d
<1>8. (r.kind = "auth" => v \in Customers) /\ (r.kind = "profile" => Own(v)) /\ r.kind # "logout"
  BY <1>1, <1>3, <1>4, <1>5 DEF v
<1>9. Sound(d) /\ ~ Adds(d) /\ d.token = c.token
  <2>1. Sound(Answer(r, TRUE, v)) /\ ~ Adds(Answer(r, TRUE, v)) /\ Answer(r, TRUE, v).token = r.token
    BY <1>1, <1>8, AnswerSound
  <2> QED BY <1>1, <1>7, <2>1
<1> QED BY <1>6, <1>7, <1>9, AnsweredInv

WithCookie(a, v) == [a EXCEPT !.cookie = v]
\* An answer that sets the cookie names whom its call was for.
LEMMA AnswerWithCookie ==
  ASSUME NEW c, Sound(c), NEW ok, NEW value, NEW k, k.user = Whom(c), NEW v, v = <<k>>,
         c.kind \notin {"auth", "profile"}
  PROVE  LET d == WithCookie(Answer(c, ok, value), v)
         IN  Sound(d) /\ ~ Adds(d) /\ d.token = c.token
<1> DEFINE a == Answer(c, ok, value)
           d == WithCookie(a, v)
<1>1. a = [c EXCEPT !.stage = "done", !.ok = ok, !.value = value] BY DEF Answer
<1>2. c = [tab |-> c.tab, kind |-> c.kind, user |-> c.user, arg |-> c.arg, token |-> c.token,
           stage |-> c.stage, ok |-> c.ok, value |-> c.value, cookie |-> c.cookie, here |-> c.here, lone |-> c.lone]
  BY DEF Sound, Whole
<1>3. d = [a EXCEPT !.cookie = v] BY DEF WithCookie
<1> HIDE DEF a, d
<1>4. a = [tab |-> c.tab, kind |-> c.kind, user |-> c.user, arg |-> c.arg, token |-> c.token,
           stage |-> "done", ok |-> ok, value |-> value, cookie |-> c.cookie, here |-> c.here, lone |-> c.lone]
  BY <1>1, <1>2
<1>5. d = [tab |-> c.tab, kind |-> c.kind, user |-> c.user, arg |-> c.arg, token |-> c.token,
           stage |-> "done", ok |-> ok, value |-> value, cookie |-> v, here |-> c.here, lone |-> c.lone]
  BY <1>3, <1>4
<1>6. /\ Whole(d) /\ d.tab = c.tab /\ d.kind = c.kind /\ d.user = c.user /\ d.arg = c.arg /\ d.token = c.token
      /\ d.stage = "done" /\ d.ok = ok /\ d.value = value /\ d.cookie = v
  BY <1>5 DEF Whole
<1>7. v # <<>> OBVIOUS
<1>8. Sound(d) BY <1>6, <1>7 DEF Sound, Whom
<1> QED BY <1>6, <1>8 DEF Adds, a, d

\* ServeLogout keeps the invariant.
LEMMA ServeLogoutInv ==
  ASSUME PagesInv, NEW i \in DOMAIN calls, ServeLogout(i)
  PROVE  PagesInv'
<1>0. PICK ok : ok = TRUE OBVIOUS
<1> DEFINE c == calls[i]
           k == NoToken
           v == <<k>>
           d == WithCookie(Answer(c, ok, Blank), v)
<1>1. Sound(c) /\ c.kind = "logout" BY DEF PagesInv, CallsKept, ServeLogout
<1>2. Served(i, d) BY <1>0 DEF ServeLogout, WithCookie
<1>3. UNCHANGED <<jar, last, raced, tab, details, rows, overlapped>> BY DEF ServeLogout, Serve, server
<1>4. calls[i] = c OBVIOUS
<1>5. v = <<k>> /\ k.user = Whom(c) BY <1>1 DEF NoToken, Whom
<1> HIDE DEF c, v, k
<1>6. Sound(d) /\ ~ Adds(d) /\ d.token = c.token
  <2>1. c.kind \notin {"auth", "profile"} BY <1>1
  <2> QED BY <1>1, <1>5, <2>1, AnswerWithCookie
<1> HIDE DEF d
<1> QED BY <1>2, <1>3, <1>4, <1>6, AnsweredInv

\* RowIsGone keeps the invariant.
LEMMA RowIsGoneInv ==
  ASSUME PagesInv, NEW i \in DOMAIN calls, RowIsGone(i)
  PROVE  PagesInv'
<1> DEFINE c == calls[i]
           d == Answer(c, FALSE, Blank)
<1>1. Sound(c) BY DEF PagesInv, CallsKept
<1>2. Sound(d) /\ ~ Adds(d) /\ d.token = c.token BY <1>1, AnswerSound
<1>3. Served(i, d) /\ UNCHANGED <<jar, last, raced, tab, details, rows, overlapped>>
  BY DEF RowIsGone, Serve, server
<1>4. calls[i] = c OBVIOUS
<1> HIDE DEF c, d
<1> QED BY <1>2, <1>3, <1>4, AnsweredInv

\* DatabaseFails keeps the invariant.
LEMMA DatabaseFailsInv ==
  ASSUME PagesInv, NEW i \in DOMAIN calls, DatabaseFails(i)
  PROVE  PagesInv'
<1>0. PICK no : no = FALSE OBVIOUS
<1> DEFINE c == calls[i]
           r == Rotated(c)
           d == Answer(r, no, Blank)
           e == Answer(c, no, Blank)
           k == Fresh(c.user)
           v == <<k>>
           s == WithCookie(e, v)
<1>1. Sound(c) /\ Sound(r) /\ r.token = c.token BY RotatedSound DEF PagesInv, CallsKept
<1>2. Sound(d) /\ ~ Adds(d) /\ d.token = c.token BY <1>0, <1>1, AnswerSound
<1>3. Sound(e) /\ ~ Adds(e) /\ e.token = c.token BY <1>0, <1>1, AnswerSound
<1>4. UNCHANGED <<jar, last, raced, tab, details, rows, overlapped>> BY DEF DatabaseFails, Upset, server
<1>5. Served(i, d) \/ (c.kind = "login" /\ Served(i, s)) \/ Served(i, e) BY <1>0 DEF DatabaseFails, WithCookie
<1>6. calls[i] = c OBVIOUS
<1>7. v = <<k>> /\ (c.kind = "login" => k.user = Whom(c)) BY DEF Whom, Fresh
<1> HIDE DEF c, d, r, v, k
<1>8. c.kind = "login" => Sound(s) /\ ~ Adds(s) /\ s.token = c.token
  <2>1. c.kind = "login" => c.kind \notin {"auth", "profile"} OBVIOUS
  <2> QED BY <1>1, <1>7, <2>1, AnswerWithCookie
<1> HIDE DEF e, s
<1> QED BY <1>2, <1>3, <1>4, <1>5, <1>6, <1>8, AnsweredInv

\* Lose keeps the invariant.
LEMMA LoseInv ==
  ASSUME PagesInv, NEW i \in DOMAIN calls, Lose(i)
  PROVE  PagesInv'
<1> DEFINE c == calls[i]
           d == [Answer(c, FALSE, Blank) EXCEPT !.cookie = <<>>]
<1>1. Sound(c) BY DEF PagesInv, CallsKept
<1>2. d = [tab |-> c.tab, kind |-> c.kind, user |-> c.user, arg |-> c.arg, token |-> c.token,
           stage |-> "done", ok |-> FALSE, value |-> Blank, cookie |-> <<>>, here |-> c.here, lone |-> c.lone]
  <2> DEFINE a == Answer(c, FALSE, Blank)
  <2>1. a = [c EXCEPT !.stage = "done", !.ok = FALSE, !.value = Blank] BY DEF Answer
  <2>2. c = [tab |-> c.tab, kind |-> c.kind, user |-> c.user, arg |-> c.arg, token |-> c.token,
             stage |-> c.stage, ok |-> c.ok, value |-> c.value, cookie |-> c.cookie, here |-> c.here, lone |-> c.lone]
    BY <1>1 DEF Sound, Whole
  <2>3. d = [a EXCEPT !.cookie = <<>>] OBVIOUS
  <2> HIDE DEF a, c, d
  <2>4. a = [tab |-> c.tab, kind |-> c.kind, user |-> c.user, arg |-> c.arg, token |-> c.token,
             stage |-> "done", ok |-> FALSE, value |-> Blank, cookie |-> c.cookie, here |-> c.here, lone |-> c.lone]
    BY <2>1, <2>2
  <2> QED BY <2>3, <2>4
<1>3. Served(i, d) /\ UNCHANGED <<jar, last, raced, tab, details, rows, overlapped>> BY DEF Lose, Upset, server
<1>4. calls[i] = c OBVIOUS
<1> HIDE DEF c, d
<1>5. /\ Whole(d) /\ d.tab = c.tab /\ d.kind = c.kind /\ d.user = c.user /\ d.arg = c.arg /\ d.token = c.token
      /\ d.stage = "done" /\ d.ok = FALSE /\ d.cookie = <<>>
  BY <1>2 DEF Whole
<1>6. Sound(d) /\ ~ Adds(d) BY <1>1, <1>5 DEF Sound, Whom, Adds
<1> QED BY <1>3, <1>4, <1>5, <1>6, AnsweredInv

\* The look-up of an addition or a change keeps the call, and the answer's cookie with it.
LEMMA CheckedSound ==
  ASSUME NEW c, Sound(c), c.kind \in {"add", "edit", "remove"}
  PROVE  LET d == [c EXCEPT !.stage = "checked"]
         IN  /\ Sound(d) /\ d.token = c.token /\ d.kind = c.kind /\ d.user = c.user /\ d.arg = c.arg
             /\ d.stage = "checked"
<1> DEFINE d == [c EXCEPT !.stage = "checked"]
<1>1. c = [tab |-> c.tab, kind |-> c.kind, user |-> c.user, arg |-> c.arg, token |-> c.token,
           stage |-> c.stage, ok |-> c.ok, value |-> c.value, cookie |-> c.cookie, here |-> c.here, lone |-> c.lone]
  BY DEF Sound, Whole
<1>2. d = [c EXCEPT !.stage = "checked"] OBVIOUS
<1> HIDE DEF d
<1>3. d = [tab |-> c.tab, kind |-> c.kind, user |-> c.user, arg |-> c.arg, token |-> c.token,
           stage |-> "checked", ok |-> c.ok, value |-> c.value, cookie |-> c.cookie, here |-> c.here, lone |-> c.lone]
  BY <1>1, <1>2
<1>4. /\ Whole(d) /\ d.tab = c.tab /\ d.kind = c.kind /\ d.user = c.user /\ d.arg = c.arg /\ d.token = c.token
      /\ d.stage = "checked" /\ d.ok = c.ok /\ d.value = c.value /\ d.cookie = c.cookie
  BY <1>3 DEF Whole
<1>5. Sound(d) BY <1>4 DEF Sound, Whom
<1> QED BY <1>4, <1>5 DEF d

\* What a payee's handler found changes nothing else of the call.
LEMMA FoundSound ==
  ASSUME NEW d, Sound(d), d.kind \in {"add", "edit", "remove"}, NEW value
  PROVE  LET e == [d EXCEPT !.value = value]
         IN  Sound(e) /\ e.token = d.token /\ e.kind = d.kind
<1> DEFINE e == [d EXCEPT !.value = value]
<1>1. e = [tab |-> d.tab, kind |-> d.kind, user |-> d.user, arg |-> d.arg, token |-> d.token,
           stage |-> d.stage, ok |-> d.ok, value |-> value, cookie |-> d.cookie, here |-> d.here, lone |-> d.lone]
  BY DEF Sound, Whole
<1> HIDE DEF e
<1>2. /\ Whole(e) /\ e.tab = d.tab /\ e.kind = d.kind /\ e.user = d.user /\ e.arg = d.arg /\ e.token = d.token
      /\ e.ok = d.ok /\ e.cookie = d.cookie
  BY <1>1 DEF Whole
<1>3. Sound(e) BY <1>2 DEF Sound, Whom
<1> QED BY <1>2, <1>3 DEF e

\* An addition that passes its check is alone, or another one overlaps it.
LEMMA CheckAddInv ==
  ASSUME PagesInv, NEW i \in DOMAIN calls, NEW d, Sound(d), d.token = calls[i].token, d.user = calls[i].user,
         d.arg = calls[i].arg, d.kind = "add", d.stage = "checked", Twins(calls[i]) = {},
         calls[i].stage = "sent", Served(i, d),
         overlapped' = (overlapped \/ \E e \in Range(calls) : e.kind = "add" /\ e.stage = "checked" /\ e.user = calls[i].user),
         UNCHANGED <<jar, last, raced, tab, details, rows>>
  PROVE  PagesInv'
<1>1. calls' = [calls EXCEPT ![i] = d] BY DEF Served, Placed, Idle
<1>2. Succeeds(calls', calls, {d}) BY CallsAre, PlacedFollows, FollowsSucceeds DEF Served
<1>3. SessionsKept' BY <1>2, SessionQuiet
<1>4. ProfilesKept' BY DEF PagesInv, ProfilesKept, Document, Own
<1>5. Sound(d)' BY DEF Sound, Own, Whom
<1>6. CallsKept' BY <1>2, <1>5, CallsQuiet DEF PagesInv
<1>7. DOMAIN calls' = DOMAIN calls /\ calls'[i] = d /\ \A j \in DOMAIN calls \ {i} : calls'[j] = calls[j] BY <1>1
<1>8. PayeesKept'
  <2>1. SUFFICES ASSUME ~ overlapped' PROVE PayeesKept' BY DEF PayeesKept
  <2>2. /\ ~ overlapped
        /\ \A j \in DOMAIN calls : Adds(calls[j]) => calls[j].user # calls[i].user /\ Twins(calls[j]) = {}
    BY <2>1 DEF Adds, Range, PagesInv, PayeesKept
  <2>3. ASSUME NEW j \in DOMAIN calls', Adds(calls'[j]) PROVE Twins(calls[j])' = {}
    <3>1. CASE j = i BY <1>7, <3>1 DEF Twins, PayeesOf
    <3>2. CASE j # i
      <4>1. j \in DOMAIN calls /\ calls'[j] = calls[j] BY <1>7, <3>2
      <4>2. Twins(calls[j]) = {} BY <2>2, <2>3, <4>1
      <4> QED BY <4>1, <4>2 DEF Twins, PayeesOf
    <3> QED BY <3>1, <3>2
  <2>4. ASSUME NEW j \in DOMAIN calls', NEW k \in DOMAIN calls', Adds(calls'[j]), Adds(calls'[k]),
               calls'[j].user = calls'[k].user
        PROVE  j = k
    <3>1. \A n \in DOMAIN calls \ {i} : Adds(calls'[n]) => calls'[n].user # d.user BY <1>7, <2>2
    <3>2. j = i <=> k = i BY <1>7, <2>4, <3>1
    <3>3. j # i /\ k # i => j = k BY <1>7, <2>2, <2>4 DEF PagesInv, PayeesKept
    <3> QED BY <3>2, <3>3
  <2>5. \A r, s \in rows : r.payer = s.payer /\ r.payee = s.payee => r = s
    BY <2>2 DEF PagesInv, PayeesKept
  <2> QED BY <2>3, <2>4, <2>5 DEF PayeesKept, Adds
<1>9. RowsKept' BY DEF PagesInv, RowsKept
<1> QED BY <1>3, <1>4, <1>6, <1>8, <1>9 DEF PagesInv

\* Check keeps the invariant.
LEMMA CheckInv ==
  ASSUME PagesInv, NEW i \in DOMAIN calls, Check(i)
  PROVE  PagesInv'
<1> DEFINE c == calls[i]
           r == Rotated(c)
           d == [r EXCEPT !.stage = "checked"]
<1>1. Sound(c) BY DEF PagesInv, CallsKept
<1>2. /\ Sound(r) /\ r.token = c.token /\ r.kind = c.kind /\ r.user = c.user /\ r.arg = c.arg
  BY <1>1, RotatedSound
<1>3. /\ c.stage = "sent" /\ c.kind \in {"add", "edit", "remove"}
      /\ UNCHANGED <<jar, last, raced, tab, details, rows>>
  BY DEF Check, Serve
<1>4. c = calls[i] OBVIOUS
<1>5. CASE c.kind = "add"
  <2>1. /\ Served(i, d) /\ Twins(c) = {}
        /\ overlapped' = (overlapped \/ \E e \in Range(calls) : e.kind = "add" /\ e.stage = "checked" /\ e.user = c.user)
    BY <1>5 DEF Check, MayAdd
  <2> HIDE DEF r, c
  <2>2. Sound(d) /\ d.token = r.token /\ d.kind = r.kind /\ d.user = r.user /\ d.arg = r.arg /\ d.stage = "checked"
    BY <1>2, <1>3, CheckedSound
  <2> HIDE DEF d
  <2>3. d.token = c.token /\ d.user = c.user /\ d.arg = c.arg /\ d.kind = "add" BY <1>2, <1>5, <2>2
  <2> QED BY <1>3, <1>4, <2>1, <2>2, <2>3, CheckAddInv
<1>6. CASE c.kind # "add"
  <2>1. UNCHANGED overlapped /\ \E s \in Twins(c) : Served(i, [d EXCEPT !.value = s.id])
    BY <1>3, <1>6 DEF Check
  <2>2. PICK value : Served(i, [d EXCEPT !.value = value]) BY <2>1
  <2> DEFINE e == [d EXCEPT !.value = value]
  <2> HIDE DEF r, c
  <2>3. Sound(d) /\ d.token = r.token /\ d.kind = r.kind BY <1>2, <1>3, CheckedSound
  <2>4. Served(i, e) BY <2>2
  <2> HIDE DEF d
  <2>6. Sound(e) /\ e.token = d.token /\ e.kind = d.kind BY <1>2, <1>3, <2>3, FoundSound
  <2> HIDE DEF e
  <2>5. e.token = c.token /\ ~ Adds(e) BY <1>2, <1>6, <2>3, <2>6 DEF Adds
  <2> QED BY <1>3, <1>4, <2>1, <2>4, <2>5, <2>6, AnsweredInv
<1> QED BY <1>5, <1>6

\* A payee is written: the addition is over, and a row keeps its customer and payee.
LEMMA WritePayeeInv ==
  ASSUME PagesInv, NEW i \in DOMAIN calls, WritePayee(i)
  PROVE  PagesInv'
<1> DEFINE c == calls[i]
           d == Answer(c, TRUE, Blank)
           row == [payer |-> c.user, payee |-> c.arg.payee, name |-> c.arg.name, id |-> Unused]
<1>1. Sound(c) /\ c.kind \in {"add", "edit", "remove"} /\ c.stage = "checked"
  BY DEF PagesInv, CallsKept, WritePayee
<1>2. Commit(i, d) /\ UNCHANGED <<jar, last, raced, tab, details, overlapped>> BY DEF WritePayee, Serve
<1>3. Sound(d) /\ ~ Adds(d) /\ d.token = c.token
  <2>1. ~ (c.kind = "auth") /\ ~ (c.kind = "profile") /\ ~ (c.kind = "logout") BY <1>1
  <2>2. Sound(d) BY <1>1, <2>1, AnswerSound
  <2>3. ~ Adds(d) BY <1>1, <2>1, AnswerSound
  <2>4. d.token = c.token BY <1>1, <2>1, AnswerSound
  <2> QED BY <2>2, <2>3, <2>4
<1>4. \/ c.kind = "add" /\ rows' = rows \cup {row}
      \/ c.kind = "edit" /\ rows' = {IF r.id = c.value THEN [r EXCEPT !.name = c.arg.name] ELSE r : r \in rows}
      \/ c.kind = "remove" /\ rows' = {r \in rows : r.id # c.value}
  BY DEF WritePayee
<1>5. calls[i] = c OBVIOUS
<1>6. row = [payer |-> c.user, payee |-> c.arg.payee, name |-> c.arg.name, id |-> Unused] OBVIOUS
<1> HIDE DEF c, d, row
<1>7. Succeeding(calls', calls, i, d) /\ Succeeds(calls', calls, {d}) BY <1>2, CallsAre, CommitFollows, FollowsSucceeds
<1>8. SessionsKept' BY <1>2, <1>3, <1>5, <1>7, SessionQuiet
<1>9. ProfilesKept' BY <1>2 DEF PagesInv, ProfilesKept, Document, Own
<1>10. CallsKept'
  <2>1. PICK e : e = d OBVIOUS
  <2>2. Sound(e) /\ Succeeds(calls', calls, {e}) BY <1>3, <1>7, <2>1
  <2>3. Sound(e)' BY <1>2, <2>2 DEF Sound, Own, Whom
  <2> QED BY <1>2, <2>2, <2>3, CallsQuiet DEF PagesInv
\* every row was there for the same customer and payee, or is the addition's
<1>11. \A s \in rows' : \/ c.kind = "add" /\ s = row
                        \/ \E r \in rows : s = IF c.kind = "edit" /\ r.id = c.value THEN [r EXCEPT !.name = c.arg.name] ELSE r
  BY <1>4
<1>12. \A s \in rows' :
         /\ s = [payer |-> s.payer, payee |-> s.payee, name |-> s.name, id |-> s.id]
         /\ \/ c.kind = "add" /\ s = row
            \/ \E r \in rows : /\ s.payer = r.payer /\ s.payee = r.payee
                               /\ s = IF c.kind = "edit" /\ r.id = c.value THEN [r EXCEPT !.name = c.arg.name] ELSE r
  <2>1. row = [payer |-> row.payer, payee |-> row.payee, name |-> row.name, id |-> row.id] BY <1>6
  <2>2. ASSUME NEW r \in rows, NEW n
        PROVE  LET s == [r EXCEPT !.name = n]
               IN  s = [payer |-> s.payer, payee |-> s.payee, name |-> s.name, id |-> s.id] /\ s.payer = r.payer /\ s.payee = r.payee
    BY DEF PagesInv, RowsKept
  <2> QED BY <1>11, <2>1, <2>2 DEF PagesInv, RowsKept
<1>13. RowsKept' BY <1>12 DEF RowsKept
<1>14. PayeesKept'
  <2>1. SUFFICES ASSUME ~ overlapped' PROVE PayeesKept' BY DEF PayeesKept
  <2>2. ~ overlapped BY <1>2, <2>1
  <2>3. PICK f \in [DOMAIN calls' -> (DOMAIN calls \ {i}) \cup {0}] :
         /\ \A j \in DOMAIN calls' : IF f[j] = 0 THEN calls'[j] = d ELSE Alike(calls'[j], calls[f[j]])
         /\ \A j, k \in DOMAIN calls' : f[j] = f[k] => j = k \/ f[j] = 0
    BY <1>7 DEF Succeeding
  <2>4. \A j \in DOMAIN calls' : Adds(calls'[j]) => f[j] \in DOMAIN calls \ {i} /\ f[j] # 0 /\ Alike(calls'[j], calls[f[j]])
    BY <1>3, <2>3
  <2>5. c.kind = "add" => Adds(c) /\ Twins(c) = {} BY <1>1, <1>5, <2>2 DEF Adds, PagesInv, PayeesKept
  <2>6. ASSUME NEW j \in DOMAIN calls', Adds(calls'[j]) PROVE Twins(calls[j])' = {}
    <3> DEFINE e == calls[f[j]]
    <3>1. /\ Adds(e) /\ calls'[j].user = e.user /\ calls'[j].arg = e.arg /\ f[j] \in DOMAIN calls \ {i} /\ calls[f[j]] = e
      BY <2>4, <2>6 DEF Alike, Adds
    <3> HIDE DEF e
    <3>2. Twins(e) = {} /\ (c.kind = "add" => e.user # c.user)
      BY <1>5, <2>2, <2>5, <3>1 DEF PagesInv, PayeesKept
    <3>3. ASSUME NEW s \in rows', s.payer = e.user, s.payee = e.arg.payee PROVE FALSE
      <4>1. ~ (c.kind = "add" /\ s = row) BY <1>6, <3>2, <3>3
      <4>2. PICK r \in rows : s.payer = r.payer /\ s.payee = r.payee BY <1>12, <4>1
      <4>3. r \in Twins(e) BY <3>3, <4>2 DEF Twins, PayeesOf
      <4> QED BY <3>2, <4>3
    <3> QED BY <3>1, <3>3 DEF Twins, PayeesOf
  <2>7. ASSUME NEW j \in DOMAIN calls', NEW k \in DOMAIN calls', Adds(calls'[j]), Adds(calls'[k]),
               calls'[j].user = calls'[k].user
        PROVE  j = k
    <3>1. f[j] = f[k] BY <2>2, <2>4, <2>7 DEF PagesInv, PayeesKept, Alike, Adds
    <3> QED BY <2>3, <2>4, <2>7, <3>1
  <2>8. ASSUME NEW s \in rows', NEW u \in rows', s.payer = u.payer, s.payee = u.payee PROVE s = u
    <3>1. ASSUME NEW r \in rows, r.payer = row.payer, r.payee = row.payee, c.kind = "add" PROVE FALSE
      <4>1. r \in Twins(c) BY <1>6, <3>1 DEF Twins, PayeesOf
      <4> QED BY <2>5, <3>1, <4>1
    <3>2. \A r, q \in rows : r.payer = q.payer /\ r.payee = q.payee => r = q BY <2>2 DEF PagesInv, PayeesKept
    <3> QED BY <1>12, <2>8, <3>1, <3>2
  <2> QED BY <2>6, <2>7, <2>8 DEF PayeesKept, Adds
<1> QED BY <1>8, <1>9, <1>10, <1>13, <1>14 DEF PagesInv

\* A profile is written: only with the keys of its own customer.
LEMMA WriteInv ==
  ASSUME PagesInv, NEW i \in DOMAIN calls, Write(i)
  PROVE  PagesInv'
<1> DEFINE c == calls[i]
           r == Rotated(c)
           d == Answer(r, TRUE, Blank)
<1>1. Sound(c) /\ c.kind \in {"save", "open", "pay"} BY DEF PagesInv, CallsKept, Write
<1>2. Sound(r) /\ r.token = c.token /\ r.kind = c.kind BY <1>1, RotatedSound
<1>3. Commit(i, d) /\ UNCHANGED <<jar, last, raced, tab, rows, overlapped>> BY DEF Write, Serve
<1>4. \/ c.kind = "save" /\ KeysFree(c) /\ details' = [details EXCEPT ![c.user] = c.arg]
      \/ UNCHANGED details
  BY DEF Write
<1>5. calls[i] = c OBVIOUS
<1> HIDE DEF c, r
<1>6. Sound(d) /\ ~ Adds(d) /\ d.token = c.token
  <2>1. ~ (r.kind = "auth") /\ ~ (r.kind = "profile") /\ ~ (r.kind = "logout") BY <1>1, <1>2
  <2>2. Sound(d) BY <1>2, <2>1, AnswerSound
  <2>3. ~ Adds(d) BY <1>2, <2>1, AnswerSound
  <2>4. d.token = r.token BY <1>2, <2>1, AnswerSound
  <2> QED BY <1>2, <2>2, <2>3, <2>4
<1> HIDE DEF d
<1>7. Succeeds(calls', calls, {d}) BY <1>3, CallsAre, CommitFollows, FollowsSucceeds
<1>8. SessionsKept' BY <1>3, <1>5, <1>6, <1>7, SessionQuiet
<1>9. \/ UNCHANGED details
      \/ c.user \in Customers /\ c.arg \in Profiles /\ c.arg.keys = c.user /\ c.arg.rest[1] = c.user
         /\ c.arg # Blank /\ details' = [details EXCEPT ![c.user] = c.arg]
  <2>1. CASE c.kind = "save" /\ KeysFree(c) /\ details' = [details EXCEPT ![c.user] = c.arg]
    <3>1. c.user \in Customers /\ Own(c.arg) /\ c.arg # Blank BY <1>1, <2>1 DEF Sound
    <3>2. c.arg \in Profiles /\ c.arg.rest[1] = c.arg.keys /\ c.arg.keys \in Customers /\ details[c.arg.keys] # Blank
      BY <3>1 DEF Own, Profiles
    <3>3. details[c.arg.keys].keys = c.arg.keys BY <3>2 DEF PagesInv, ProfilesKept
    <3>4. c.arg.keys = c.user BY <2>1, <3>2, <3>3 DEF KeysFree
    <3> QED BY <2>1, <3>1, <3>2, <3>4
  <2> QED BY <1>4, <2>1
<1>10. \A u \in Customers : details[u] # Blank => details'[u] # Blank BY <1>9 DEF PagesInv, ProfilesKept
<1>11. \A v : Own(v) => Own(v)' BY <1>10 DEF Own, Profiles
<1>12. ProfilesKept'
  <2>1. \A t \in Tabs : Document(tab[t])' BY <1>3, <1>11 DEF PagesInv, ProfilesKept, Document
  <2>2. \A u \in Customers : details'[u] = details[u] \/ (u = c.user /\ details'[u] = c.arg)
    BY <1>9 DEF PagesInv, ProfilesKept
  <2> QED BY <1>3, <1>9, <2>1, <2>2 DEF PagesInv, ProfilesKept
<1>13. PICK e : e = d OBVIOUS
<1>14. Sound(e) /\ ~ Adds(e) /\ Succeeds(calls', calls, {e}) BY <1>6, <1>7, <1>13
<1>15. Sound(e)' BY <1>11, <1>14 DEF Sound, Whom
<1> QED BY <1>3, <1>8, <1>10, <1>12, <1>14, <1>15, PagesQuiet

\* A sign-in finds the profile of its customer, a registration makes it.
LEMMA ServeSignInInv ==
  ASSUME PagesInv, NEW i \in DOMAIN calls, ServeSignIn(i)
  PROVE  PagesInv'
<1>0. PICK ok : ok = TRUE OBVIOUS
<1> DEFINE c == calls[i]
           k == Fresh(c.user)
           v == <<k>>
           d == WithCookie(Answer(c, ok, c.user), v)
           first == [keys |-> c.user, rest |-> <<c.user, 0>>]
<1>1. Sound(c) /\ c.kind \in {"login", "register"} BY DEF PagesInv, CallsKept, ServeSignIn
<1>2. Served(i, d) BY <1>0 DEF ServeSignIn, WithCookie
<1>3. UNCHANGED <<jar, last, raced, tab, rows, overlapped>> BY DEF ServeSignIn, Serve
<1>4. details' = [details EXCEPT ![c.user] = IF @ = Blank THEN first ELSE @] BY DEF ServeSignIn
<1>5. v = <<k>> /\ k.user = Whom(c) BY <1>1 DEF Fresh, Whom
<1>6. calls[i] = c OBVIOUS
<1>7. c.user \in Customers /\ first \in Profiles /\ first.keys = c.user /\ first.rest[1] = c.user
  BY <1>1 DEF Sound, Profiles
<1> HIDE DEF c, v, k, first
<1>8. Sound(d) /\ ~ Adds(d) /\ d.token = c.token
  <2>1. c.kind \notin {"auth", "profile"} BY <1>1
  <2> QED BY <1>1, <1>5, <2>1, AnswerWithCookie
<1> HIDE DEF d
<1>9. Succeeds(calls', calls, {d}) BY <1>2, CallsAre, PlacedFollows, FollowsSucceeds DEF Served
<1>10. SessionsKept' BY <1>3, <1>6, <1>8, <1>9, SessionQuiet
<1>11. first # Blank BY <1>7, OnlineBankingAssumption DEF Profiles
<1>12. \A u \in Customers : details'[u] = details[u] \/ (u = c.user /\ details'[u] = first)
  BY <1>4 DEF PagesInv, ProfilesKept
<1>13. \A u \in Customers : details[u] # Blank => details'[u] # Blank BY <1>11, <1>12
<1>14. \A w : Own(w) => Own(w)' BY <1>13 DEF Own, Profiles
<1>15. ProfilesKept'
  <2>1. \A t \in Tabs : Document(tab[t])' BY <1>3, <1>14 DEF PagesInv, ProfilesKept, Document
  <2>2. DOMAIN details' = Customers BY <1>4 DEF PagesInv, ProfilesKept
  <2> QED BY <1>3, <1>7, <1>12, <2>1, <2>2 DEF PagesInv, ProfilesKept
<1>16. PICK e : e = d OBVIOUS
<1>17. Sound(e) /\ ~ Adds(e) /\ Succeeds(calls', calls, {e}) BY <1>8, <1>9, <1>16
<1>18. Sound(e)' BY <1>14, <1>17 DEF Sound, Whom
<1> QED BY <1>3, <1>10, <1>13, <1>15, <1>17, <1>18, PagesQuiet

-----------------------------------------------------------------------------
(***************************************************************************)
(* The answers.                                                            *)
(***************************************************************************)
LEMMA ArrivedCookie ==
  ASSUME PagesInv, NEW i \in DOMAIN calls, Arrives(i)
  PROVE  jar'.user \in Users /\ (calls[i].cookie # <<>> => jar'.user = Whom(calls[i]))
<1> DEFINE c == calls[i]
<1>1. jar' = IF c.cookie = <<>> THEN jar ELSE c.cookie[1] BY DEF Arrives
<1>2. Sound(c) /\ jar.user \in Users BY DEF PagesInv, CallsKept, ProfilesKept
<1>3. c.cookie # <<>> => jar'.user = Whom(c)
  <2>1. c.cookie # <<>> => \E k : c.cookie = <<k>> /\ k.user = Whom(c) BY <1>2 DEF Sound
  <2> QED BY <1>1, <2>1
<1>4. Whom(c) \in Users
  <2>1. c.kind \in {"login", "register"} => c.user \in Customers BY <1>2 DEF Sound
  <2>2. c.token.user \in Users BY <1>2 DEF Sound
  <2> QED BY <2>1, <2>2 DEF Whom, Users
<1> QED BY <1>1, <1>2, <1>3, <1>4

\* The cookie of an answer is the last sign-in's, or no call of another session is left.
LEMMA ArrivedSession ==
  ASSUME PagesInv, NEW i \in DOMAIN calls, Arrives(i), NEW new, Succeeds(calls', RemoveAt(calls, i), new),
         \A n \in new : n.token.user \in {NoOne, jar'.user}
  PROVE  SessionsKept'
<1> DEFINE c == calls[i]
           rest == RemoveAt(calls, i)
           signs == \/ c.kind \in {"login", "register"} /\ c.cookie # <<>>
                    \/ c.kind = "logout" /\ c.ok
           whom == IF c.kind = "logout" THEN NoOne ELSE c.user
<1>1. /\ jar' = IF c.cookie = <<>> THEN jar ELSE c.cookie[1]
      /\ last' = IF signs THEN whom ELSE last
      /\ raced' = (raced \/ (signs /\ \E d \in Range(rest) : d.token.user \notin {NoOne, whom}))
  BY DEF Arrives
<1>2. Sound(c) /\ jar.user \in Users BY DEF PagesInv, CallsKept, ProfilesKept
<1>3. c.cookie # <<>> => jar'.user = Whom(c) BY ArrivedCookie
<1>6. Succeeds(rest, calls, {}) /\ Sequence(calls) BY CallsAre, WithoutSucceeds DEF Calls
<1>7. signs => c.cookie # <<>> /\ Whom(c) = whom BY <1>2 DEF Sound, Whom
<1>8. ~ signs /\ c.cookie # <<>> => Whom(c) \in {NoOne, c.token.user} BY DEF Whom
<1>9. c = calls[i] /\ rest = RemoveAt(calls, i) OBVIOUS
<1> HIDE DEF c, rest, signs, whom
<1>10. \A j \in DOMAIN rest : \E m \in DOMAIN calls : rest[j].token = calls[m].token
  BY <1>6 DEF Succeeds, Alike
<1>11. \A j \in DOMAIN calls' : calls'[j] \in new \/ \E m \in DOMAIN rest : calls'[j].token = rest[m].token
  BY <1>9 DEF Succeeds, Alike
<1>12. SessionsKept'
  <2>1. SUFFICES ASSUME ~ raced' PROVE SessionsKept' BY DEF SessionsKept
  <2>2. /\ ~ raced /\ jar.user \in {NoOne, last}
        /\ \A j \in DOMAIN calls : calls[j].token.user \in {NoOne, last}
    BY <1>1, <2>1 DEF PagesInv, SessionsKept
  <2>3. CASE signs
    <3>1. jar'.user = last' /\ last' = whom BY <1>1, <1>3, <1>7, <2>3
    <3>2. \A j \in DOMAIN rest : rest[j].token.user \in {NoOne, last'} BY <1>1, <2>1, <2>3, <3>1 DEF Range
    <3>3. \A j \in DOMAIN calls' : calls'[j].token.user \in {NoOne, last'} BY <1>11, <3>1, <3>2
    <3> QED BY <3>1, <3>3 DEF SessionsKept
  <2>4. CASE ~ signs
    <3>1. last' = last BY <1>1, <2>4
    <3>2. jar'.user \in {NoOne, last} BY <1>1, <1>3, <1>8, <1>9, <2>2, <2>4
    <3>3. \A j \in DOMAIN rest : rest[j].token.user \in {NoOne, last} BY <1>10, <2>2
    <3>4. \A j \in DOMAIN calls' : calls'[j].token.user \in {NoOne, last} BY <1>11, <3>2, <3>3
    <3> QED BY <3>1, <3>2, <3>4 DEF SessionsKept
  <2> QED BY <2>3, <2>4
<1> QED BY <1>12

\* An answer reaches its page, which may send more.
LEMMA RepliedInv ==
  ASSUME PagesInv, NEW i \in DOMAIN calls, Arrives(i), NEW t \in Tabs, NEW T, Document(T),
         tab' = tab \/ tab' = [tab EXCEPT ![t] = T], NEW ms, Calls(ms), Succeeds(ms, RemoveAt(calls, i), {}),
         NEW kinds, Sequence(kinds), NEW user, NEW here, calls' = Issue(ms, t, user, kinds, Blank, jar', here),
         \A k \in Range(kinds) : k # "auth" => user \in Customers,
         "save" \notin Range(kinds)
  PROVE  PagesInv'
<1>1. PICK cookie : cookie = jar' OBVIOUS
<1> DEFINE new == Sending(t, user, kinds, Blank, cookie, here)
           rest == RemoveAt(calls, i)
<1>2. calls' = Issue(ms, t, user, kinds, Blank, cookie, here) BY <1>1
<1>3. Calls(calls) /\ Calls(rest) /\ Sequence(rest) /\ Succeeds(rest, calls, {}) /\ Succeeds(ms, rest, {})
  BY CallsAre, WithoutSucceeds DEF Calls
<1>4. UNCHANGED <<details, rows, overlapped>> BY DEF Arrives, server
<1>5. Succeeds(calls', ms, new) BY <1>2, IssueSucceeds
<1>6. cookie.user \in Users BY <1>1, ArrivedCookie
<1>7. \A n \in new : Sound(n) /\ ~ Adds(n) /\ n.token.user \in {NoOne, cookie.user}
  <2>1. "save" \in Range(kinds) => Own(Blank) /\ Blank # Blank OBVIOUS
  <2> QED BY <1>6, <2>1, SendingSound
<1>8. tab' = tab \/ tab' = [tab EXCEPT ![t] = T] OBVIOUS
<1> HIDE DEF new, rest
<1>9. Succeeds(calls', rest, new) BY <1>3, <1>5, SucceedsTwice
<1>10. SessionsKept' BY <1>1, <1>7, <1>9, ArrivedSession DEF rest
<1>11. ProfilesKept' /\ \A u \in Customers : details[u] # Blank => details'[u] # Blank
  <2>1. UNCHANGED details /\ jar'.user \in Users BY <1>1, <1>4, <1>6
  <2> QED BY <1>8, <2>1, ProfilesQuiet
<1>12. Succeeds(calls', calls, new)
  <2>1. Sequence(calls) BY <1>3 DEF Calls
  <2> QED BY <1>3, <1>9, <2>1, SucceedsTwice
<1>13. \A n \in new : Sound(n)' /\ ~ Adds(n) BY <1>4, <1>7 DEF Sound, Own, Whom
<1> QED BY <1>4, <1>10, <1>11, <1>12, <1>13, PagesQuiet

\* An answer reaches a page that sends nothing, or nobody.
LEMMA ForgottenInv ==
  ASSUME PagesInv, NEW i \in DOMAIN calls, Arrives(i), tab' = tab, calls' = RemoveAt(calls, i)
  PROVE  PagesInv'
<1> DEFINE rest == RemoveAt(calls, i)
<1>1. Calls(calls) /\ Calls(rest) /\ Succeeds(rest, calls, {}) BY CallsAre, WithoutSucceeds
<1>2. Succeeds(rest, rest, {}) BY <1>1, SucceedsItself
<1>3. calls' = rest OBVIOUS
<1> HIDE DEF rest
<1>4. Succeeds(calls', rest, {}) /\ Succeeds(calls', calls, {}) BY <1>1, <1>2, <1>3
<1>5. SessionsKept' BY <1>4, ArrivedSession DEF rest
<1>6. jar'.user \in Users /\ UNCHANGED <<details, rows, overlapped>> BY ArrivedCookie DEF Arrives, server
<1>7. ProfilesKept' /\ \A u \in Customers : details[u] # Blank => details'[u] # Blank
  BY <1>6 DEF PagesInv, ProfilesKept, Document, Own
<1> QED BY <1>4, <1>5, <1>6, <1>7, PagesQuiet

\* AbortGone keeps the invariant.
LEMMA AbortGoneInv ==
  ASSUME PagesInv, NEW i \in DOMAIN calls, AbortGone(i)
  PROVE  PagesInv'
<1>1. Succeeds(calls', calls, {}) BY CallsAre, WithoutSucceeds DEF AbortGone
<1>2. UNCHANGED <<jar, tab, last, raced, rows, details, overlapped>> BY DEF AbortGone, server
<1>3. SessionsKept' BY <1>1, <1>2, SessionQuiet
<1>4. ProfilesKept' /\ \A u \in Customers : details[u] # Blank => details'[u] # Blank
  BY <1>2 DEF PagesInv, ProfilesKept, Document, Own
<1> QED BY <1>1, <1>2, <1>3, <1>4, PagesQuiet

\* A document that changes, with calls added, keeps the invariant.
LEMMA ReplaceInv ==
  ASSUME PagesInv, NEW i \in DOMAIN calls, Arrives(i), calls[i].tab # Gone, NEW T, Document(T),
         NEW kinds, Sequence(kinds), NEW user, Replace(i, T, kinds, user),
         \A k \in Range(kinds) : k # "auth" => user \in Customers, "save" \notin Range(kinds)
  PROVE  PagesInv'
<1> DEFINE ms == RemoveAt(calls, i)
           t == calls[i].tab
<1>1. t \in Tabs BY DEF PagesInv, CallsKept, Sound
<1>2. tab' = [tab EXCEPT ![t] = T] /\ calls' = Issue(ms, t, user, kinds, Blank, jar', TRUE) BY DEF Replace
<1>3. Calls(ms) /\ Succeeds(ms, RemoveAt(calls, i), {}) BY CallsAre, WithoutSucceeds, SucceedsItself
<1> HIDE DEF ms, t
<1>4. tab' = tab \/ tab' = [tab EXCEPT ![t] = T] BY <1>2
<1> QED BY <1>1, <1>2, <1>3, <1>4, RepliedInv

\* An answer after which the page sends what follows, and shows what it showed.
LEMMA FollowedInv ==
  ASSUME PagesInv, NEW i \in DOMAIN calls, Arrives(i), calls[i].tab # Gone, tab' = tab,
         NEW kinds, Sequence(kinds), NEW user, NEW here,
         calls' = Issue(RemoveAt(calls, i), calls[i].tab, user, kinds, Blank, jar', here),
         \A k \in Range(kinds) : k # "auth" => user \in Customers, "save" \notin Range(kinds)
  PROVE  PagesInv'
<1> DEFINE ms == RemoveAt(calls, i)
           t == calls[i].tab
           T == tab[t]
<1>1. t \in Tabs /\ Document(T) BY DEF PagesInv, CallsKept, ProfilesKept, Sound
<1>2. calls' = Issue(ms, t, user, kinds, Blank, jar', here) OBVIOUS
<1>3. Calls(ms) /\ Succeeds(ms, RemoveAt(calls, i), {}) BY CallsAre, WithoutSucceeds, SucceedsItself
<1> HIDE DEF ms, t, T
<1>4. tab' = tab \/ tab' = [tab EXCEPT ![t] = T] OBVIOUS
<1> QED BY <1>1, <1>2, <1>3, <1>4, RepliedInv

\* One call is sent,
LEMMA OneKind ==
  ASSUME NEW kind PROVE Sequence(<<kind>>) /\ Range(<<kind>>) = {kind}
BY ShortSequences DEF Range

\* or none.
LEMMA NoKind ==
  Sequence(<<>>) /\ Range(<<>>) = {}
BY ShortSequences DEF Range

\* What a page becomes keeps its customer's form.
LEMMA ShownDocument ==
  ASSUME NEW T, Document(T), NEW r \in {"payees", "accounts", "history", "form"}, NEW value,
         r = "form" => Own(value)
  PROVE  Document([T EXCEPT !.shown[r] = value])
<1> DEFINE shown == [T.shown EXCEPT ![r] = value]
<1>1. T = [page |-> T.page, user |-> T.user, busy |-> T.busy, settled |-> T.settled, shown |-> T.shown]
  BY DEF Document
<1>2. [T EXCEPT !.shown[r] = value] = [T EXCEPT !.shown = shown] BY <1>1
<1>3. DOMAIN shown = {"payees", "accounts", "history", "form"} /\ Own(shown["form"]) BY DEF Document
<1> HIDE DEF shown
<1>4. [T EXCEPT !.shown = shown] = [page |-> T.page, user |-> T.user, busy |-> T.busy, settled |-> T.settled, shown |-> shown]
  BY <1>1
<1> QED BY <1>2, <1>3, <1>4 DEF Document

\* A document stays whole when its wait begins or ends,
LEMMA BusyDocument ==
  ASSUME NEW T, Document(T), NEW b
  PROVE  Document([T EXCEPT !.busy = b])
<1> DEFINE D == [T EXCEPT !.busy = b]
<1>1. D = [page |-> T.page, user |-> T.user, busy |-> b, settled |-> T.settled, shown |-> T.shown] BY DEF Document
<1> HIDE DEF D
<1> QED BY <1>1 DEF Document, D

\* when its customer is sent to the login page,
LEMMA SentToLogin ==
  ASSUME NEW T, Document(T), NEW b, NEW s
  PROVE  Document([T EXCEPT !.user = NoOne, !.page = "login", !.busy = b, !.settled = s])
<1> DEFINE D == [T EXCEPT !.user = NoOne, !.page = "login", !.busy = b, !.settled = s]
<1>1. T = [page |-> T.page, user |-> T.user, busy |-> T.busy, settled |-> T.settled, shown |-> T.shown]
  BY DEF Document
<1>2. D = [page |-> "login", user |-> NoOne, busy |-> b, settled |-> s, shown |-> T.shown]
  <2> DEFINE A == [T EXCEPT !.user = NoOne]
             B == [A EXCEPT !.page = "login"]
  <2>1. D = [B EXCEPT !.busy = b, !.settled = s] OBVIOUS
  <2>2. A = [page |-> T.page, user |-> NoOne, busy |-> T.busy, settled |-> T.settled, shown |-> T.shown] BY <1>1
  <2> HIDE DEF D, A
  <2>3. B = [page |-> "login", user |-> NoOne, busy |-> T.busy, settled |-> T.settled, shown |-> T.shown] BY <2>2
  <2> HIDE DEF B
  <2> QED BY <2>1, <2>3
<1> HIDE DEF D
<1>3. Document(D) BY <1>2 DEF Document, Users
<1> QED BY <1>3 DEF D

\* and when a customer is signed in.
LEMMA RestingDocument ==
  ASSUME NEW T, Document(T), NEW u \in Users, NEW a, NEW p
  PROVE  /\ Document([T EXCEPT !.page = p])
         /\ Document([T EXCEPT !.user = u, !.shown["accounts"] = a, !.shown["payees"] = p])
<1> DEFINE D == [T EXCEPT !.user = u, !.shown["accounts"] = a, !.shown["payees"] = p]
           E == [T EXCEPT !.page = p]
           shown == [T.shown EXCEPT !["accounts"] = a, !["payees"] = p]
<1>1. T = [page |-> T.page, user |-> T.user, busy |-> T.busy, settled |-> T.settled, shown |-> T.shown]
  BY DEF Document
<1>2. D = [page |-> T.page, user |-> u, busy |-> T.busy, settled |-> T.settled, shown |-> shown]
  <2> DEFINE A == [T EXCEPT !.user = u]
             s == [T.shown EXCEPT !["accounts"] = a]
             B == [A EXCEPT !.shown["accounts"] = a]
  <2>1. D = [B EXCEPT !.shown["payees"] = p] /\ shown = [s EXCEPT !["payees"] = p] OBVIOUS
  <2>2. A = [page |-> T.page, user |-> u, busy |-> T.busy, settled |-> T.settled, shown |-> T.shown] BY <1>1
  <2> HIDE DEF D, A, shown
  <2>3. B = [page |-> T.page, user |-> u, busy |-> T.busy, settled |-> T.settled, shown |-> s] BY <2>2
  <2> HIDE DEF B, s
  <2>4. [B EXCEPT !.shown["payees"] = p]
        = [page |-> T.page, user |-> u, busy |-> T.busy, settled |-> T.settled, shown |-> [s EXCEPT !["payees"] = p]]
    BY <2>3
  <2> QED BY <2>1, <2>4
<1>3. E = [page |-> p, user |-> T.user, busy |-> T.busy, settled |-> T.settled, shown |-> T.shown] BY <1>1
<1>4. DOMAIN shown = {"payees", "accounts", "history", "form"} /\ shown["form"] = T.shown["form"] BY DEF Document
<1> HIDE DEF D, E, shown
<1>5. Document(D) BY <1>2, <1>4 DEF Document
<1>6. Document(E) BY <1>3 DEF Document
<1> QED BY <1>5, <1>6 DEF D, E

\* DeliverAuth keeps the invariant.
LEMMA DeliverAuthInv ==
  ASSUME PagesInv, NEW i \in DOMAIN calls, DeliverAuth(i)
  PROVE  PagesInv'
<1> DEFINE c == calls[i]
           T == tab[c.tab]
           A == [T EXCEPT !.user = c.value]
           B == [T EXCEPT !.user = NoOne, !.page = "login", !.busy = FALSE, !.settled = TRUE]
<1>1. Arrives(i) /\ c.tab # Gone /\ c.kind = "auth" BY DEF DeliverAuth
<1>2. Sound(c) /\ Document(T) BY <1>1 DEF PagesInv, CallsKept, ProfilesKept, Sound
<1>3. T = [page |-> T.page, user |-> T.user, busy |-> T.busy, settled |-> T.settled, shown |-> T.shown]
  BY <1>2 DEF Document
<1>4. CASE c.ok
  <2>1. Replace(i, A, <<"boot">>, c.value) BY <1>4 DEF DeliverAuth
  <2> DEFINE user == c.value
             kinds == <<"boot">>
  <2>2. user \in Customers BY <1>1, <1>2, <1>4 DEF Sound
  <2>3. A = [page |-> T.page, user |-> user, busy |-> T.busy, settled |-> T.settled, shown |-> T.shown] BY <1>3
  <2>4. Replace(i, A, kinds, user) /\ calls[i].tab # Gone BY <1>1, <2>1
  <2>5. Sequence(kinds) /\ "save" \notin Range(kinds) BY OneKind
  <2> HIDE DEF c, T, user, kinds
  <2>6. Document(A) BY <1>2, <2>2, <2>3 DEF Document, Users
  <2> HIDE DEF A
  <2> QED BY <1>1, <2>2, <2>4, <2>5, <2>6, ReplaceInv
<1>5. CASE ~ c.ok
  <2> DEFINE kinds == <<>>
  <2>1. Replace(i, B, kinds, NoOne) /\ calls[i].tab # Gone BY <1>1, <1>5 DEF DeliverAuth
  <2>2. Sequence(kinds) /\ Range(kinds) = {} BY NoKind
  <2> HIDE DEF c, kinds
  <2> HIDE DEF T
  <2>4. Document(B) BY <1>2, SentToLogin
  <2> HIDE DEF B
  <2>5. (\A k \in Range(kinds) : k # "auth" => NoOne \in Customers) /\ "save" \notin Range(kinds) BY <2>2
  <2> QED BY <1>1, <2>1, <2>2, <2>4, <2>5, ReplaceInv
<1> QED BY <1>4, <1>5

\* DeliverBoot keeps the invariant.
LEMMA DeliverBootInv ==
  ASSUME PagesInv, NEW i \in DOMAIN calls, DeliverBoot(i)
  PROVE  PagesInv'
<1> DEFINE c == calls[i]
           T == tab[c.tab]
           page == IF T.page = "login" THEN "dashboard" ELSE T.page
           read == IF c.ok THEN [T EXCEPT !.shown["accounts"] = c.value] ELSE T
           kinds == Reads(page)
           user == c.user
           D == Mounted(read, page)
<1>1. Arrives(i) /\ c.tab # Gone /\ c.kind = "boot" /\ Replace(i, D, kinds, user) BY DEF DeliverBoot
<1>2. Sound(c) /\ Document(T) BY <1>1 DEF PagesInv, CallsKept, ProfilesKept, Sound
<1>3. user \in Customers /\ calls[i].tab # Gone BY <1>1, <1>2 DEF Sound
<1> HIDE DEF c, T
<1>4. Document(read)
  <2>1. Document([T EXCEPT !.shown["accounts"] = c.value]) BY <1>2, ShownDocument
  <2> QED BY <1>2, <2>1
<1> HIDE DEF read, page
<1>5. Document(D) BY <1>4, MountedDocument
<1>6. Sequence(kinds) /\ "save" \notin Range(kinds) BY ReadsOnly
<1> HIDE DEF D, kinds, user
<1> QED BY <1>1, <1>3, <1>5, <1>6, ReplaceInv

\* DeliverRead keeps the invariant.
LEMMA DeliverReadInv ==
  ASSUME PagesInv, NEW i \in DOMAIN calls, DeliverRead(i)
  PROVE  PagesInv'
<1> DEFINE c == calls[i]
           T == tab[c.tab]
           r == ResourceOf(c.kind)
           settled == Settles(T, c)
           value == IF c.ok /\ (r \in Kept \/ c.here) THEN c.value ELSE T.shown[r]
           D == [T EXCEPT !.settled = settled, !.shown[r] = value]
           kinds == <<>>
           user == c.user
<1>1. Arrives(i) /\ c.tab # Gone /\ c.kind \in {"payees", "accounts", "history", "profile"}
  BY DEF DeliverRead
<1>2. Sound(c) /\ Document(T) BY <1>1 DEF PagesInv, CallsKept, ProfilesKept, Sound
<1>3. r \in {"payees", "accounts", "history", "form"} /\ (r = "form" => c.kind = "profile")
  BY <1>1 DEF ResourceOf, Resource
<1>4. r = "form" => Own(value) BY <1>2, <1>3 DEF Sound, Document
<1>5. T = [page |-> T.page, user |-> T.user, busy |-> T.busy, settled |-> T.settled, shown |-> T.shown]
  BY <1>2 DEF Document
<1>6. Replace(i, [T EXCEPT !.settled = settled, !.shown[r] = IF c.ok /\ (r \in Kept \/ c.here) THEN c.value ELSE @], kinds, user)
      /\ calls[i].tab # Gone
  BY <1>1 DEF DeliverRead
<1> DEFINE O == [T EXCEPT !.settled = settled]
<1> HIDE DEF c, T, r, settled
<1>7. O = [page |-> T.page, user |-> T.user, busy |-> T.busy, settled |-> settled, shown |-> T.shown] BY <1>5
<1>8. [T EXCEPT !.settled = settled, !.shown[r] = IF c.ok /\ (r \in Kept \/ c.here) THEN c.value ELSE @]
      = [O EXCEPT !.shown[r] = value]
  BY <1>5
<1> HIDE DEF O, value
<1>9. Document(O) BY <1>2, <1>7 DEF Document
<1>10. Document([O EXCEPT !.shown[r] = value]) BY <1>3, <1>4, <1>9, ShownDocument
<1> DEFINE E == [O EXCEPT !.shown[r] = value]
<1>11. Document(E) /\ Replace(i, E, kinds, user) BY <1>6, <1>8, <1>10
<1>12. Sequence(kinds) /\ Range(kinds) = {} BY NoKind
<1> HIDE DEF E, kinds, user
<1>13. (\A k \in Range(kinds) : k # "auth" => user \in Customers) /\ "save" \notin Range(kinds) BY <1>12
<1> QED BY <1>1, <1>6, <1>11, <1>12, <1>13, ReplaceInv

\* DeliverPrimary keeps the invariant.
LEMMA DeliverPrimaryInv ==
  ASSUME PagesInv, NEW i \in DOMAIN calls, DeliverPrimary(i)
  PROVE  PagesInv'
<1> DEFINE c == calls[i]
           T == tab[c.tab]
           user == c.user
           here == c.here
<1>1. Arrives(i) /\ c.tab # Gone /\ c.kind = "primary" BY DEF DeliverPrimary
<1>2. Sound(c) /\ Document(T) BY <1>1 DEF PagesInv, CallsKept, ProfilesKept, Sound
<1>3. user \in Customers /\ calls[i].tab # Gone BY <1>1, <1>2 DEF Sound
<1>4. CASE c.ok
  <2> DEFINE kinds == <<"history">>
  <2>1. tab' = tab /\ calls' = Issue(RemoveAt(calls, i), calls[i].tab, user, kinds, Blank, jar', here)
    BY <1>4 DEF DeliverPrimary
  <2>2. Sequence(kinds) /\ "save" \notin Range(kinds) BY OneKind
  <2> HIDE DEF c, kinds, user, here
  <2> QED BY <1>1, <1>3, <2>1, <2>2, FollowedInv
<1>5. CASE ~ c.ok
  <2> DEFINE kinds == <<>>
             settled == Settles(T, c)
             D == [T EXCEPT !.settled = settled]
  <2>1. Replace(i, D, kinds, user) BY <1>5 DEF DeliverPrimary
  <2>2. Sequence(kinds) /\ Range(kinds) = {} BY NoKind
  <2>3. D = [page |-> T.page, user |-> T.user, busy |-> T.busy, settled |-> settled, shown |-> T.shown]
    <3> HIDE DEF T, settled
    <3> QED BY <1>2 DEF Document
  <2> HIDE DEF c, T, D, kinds, user, settled
  <2>4. Document(D) BY <1>2, <2>3 DEF Document
  <2>5. (\A k \in Range(kinds) : k # "auth" => user \in Customers) /\ "save" \notin Range(kinds) BY <2>2
  <2> QED BY <1>1, <1>3, <2>1, <2>2, <2>4, <2>5, ReplaceInv
<1> QED BY <1>4, <1>5

\* What is read again after a write saves no profile.
LEMMA RefetchOnly ==
  ASSUME NEW kind, NEW ok
  PROVE  Sequence(Refetch(kind, ok)) /\ "save" \notin Range(Refetch(kind, ok))
<1>1. Refetch(kind, ok) \in {<<"payees">>, <<"profile">>, <<"accounts">>, <<"accounts", "accounts">>, <<>>}
  BY DEF Refetch
<1>2. Sequence(Refetch(kind, ok)) BY <1>1, ShortSequences
<1>3. "save" \notin Range(Refetch(kind, ok)) BY <1>1 DEF Range
<1> QED BY <1>2, <1>3

\* DeliverWrite keeps the invariant.
LEMMA DeliverWriteInv ==
  ASSUME PagesInv, NEW i \in DOMAIN calls, DeliverWrite(i)
  PROVE  PagesInv'
<1> DEFINE c == calls[i]
           user == c.user
           here == c.here
           kinds == Refetch(c.kind, c.ok)
<1>1. Arrives(i) /\ c.tab # Gone /\ c.kind \in Writes /\ tab' = tab BY DEF DeliverWrite
<1>2. Sound(c) BY DEF PagesInv, CallsKept
<1>3. user \in Customers /\ calls[i].tab # Gone BY <1>1, <1>2 DEF Sound, Writes
<1>4. calls' = Issue(RemoveAt(calls, i), calls[i].tab, user, kinds, Blank, jar', here) BY DEF DeliverWrite
<1>5. Sequence(kinds) /\ "save" \notin Range(kinds) BY RefetchOnly
<1> HIDE DEF c, kinds, user, here
<1> QED BY <1>1, <1>3, <1>4, <1>5, FollowedInv

\* DeliverSignIn keeps the invariant.
LEMMA DeliverSignInInv ==
  ASSUME PagesInv, NEW i \in DOMAIN calls, DeliverSignIn(i)
  PROVE  PagesInv'
<1> DEFINE c == calls[i]
           t == c.tab
           T == tab[t]
           rest == RemoveAt(calls, i)
           kinds == <<"auth">>
<1>1. Arrives(i) /\ c.tab # Gone BY DEF DeliverSignIn
<1>2. t \in Tabs /\ Document(T) BY <1>1 DEF PagesInv, CallsKept, ProfilesKept, Sound
<1>3. Calls(rest) BY CallsAre, WithoutSucceeds
<1>4. /\ Sequence(kinds) /\ "save" \notin Range(kinds)
      /\ \A k \in Range(kinds) : k # "auth" => NoOne \in Customers
  BY OneKind
<1>5. CASE ~ c.ok
  <2>1. calls' = rest /\ tab' = tab BY <1>5 DEF DeliverSignIn
  <2> QED BY <1>1, <2>1, ForgottenInv
<1>6. CASE c.ok /\ c.kind = "logout"
  <2> DEFINE D == Loaded("login")
             ms == Orphaned(rest, t)
  <2>1. tab' = [tab EXCEPT ![t] = D] /\ calls' = Issue(ms, t, NoOne, kinds, Blank, jar', TRUE)
    BY <1>6 DEF DeliverSignIn
  <2>2. Document(D) BY DEF Loaded, Empty, Document, Own, Users
  <2> HIDE DEF c, t, rest, kinds
  <2>3. Calls(ms) /\ Succeeds(ms, rest, {}) BY <1>3, OrphanedSucceeds
  <2> HIDE DEF D, ms
  <2>4. Succeeds(ms, RemoveAt(calls, i), {}) BY <2>3 DEF rest
  <2>5. tab' = tab \/ tab' = [tab EXCEPT ![t] = D] BY <2>1
  <2> QED BY <1>1, <1>2, <1>4, <2>1, <2>2, <2>3, <2>4, <2>5, RepliedInv
<1>7. CASE c.ok /\ c.kind # "logout"
  <2> DEFINE D == [T EXCEPT !.busy = TRUE]
             ms == Left(rest, t)
  <2>1. tab' = [tab EXCEPT ![t].busy = TRUE] /\ calls' = Issue(ms, t, NoOne, kinds, Blank, jar', TRUE)
    BY <1>7 DEF DeliverSignIn
  <2>2. tab' = [tab EXCEPT ![t] = D] BY <2>1
  <2> HIDE DEF c, t, rest, kinds, T
  <2>4. Document(D) BY <1>2, BusyDocument
  <2>5. Calls(ms) /\ Succeeds(ms, rest, {}) BY <1>3, LeftSucceeds
  <2> HIDE DEF D, ms
  <2>6. Succeeds(ms, RemoveAt(calls, i), {}) BY <2>5 DEF rest
  <2>7. tab' = tab \/ tab' = [tab EXCEPT ![t] = D] BY <2>2
  <2> QED BY <1>1, <1>2, <1>4, <2>1, <2>4, <2>5, <2>6, <2>7, RepliedInv
<1> QED BY <1>5, <1>6, <1>7

\* Any answer that arrives keeps the invariant.
LEMMA DeliverInv ==
  ASSUME PagesInv, NEW i \in DOMAIN calls, Deliver(i)
  PROVE  PagesInv'
<1>1. CASE DeliverGone(i) BY <1>1, ForgottenInv DEF DeliverGone
<1> QED BY <1>1, AbortGoneInv, DeliverSignInInv, DeliverAuthInv, DeliverBootInv, DeliverReadInv,
           DeliverPrimaryInv, DeliverWriteInv DEF Deliver

\* Any step of a handler keeps the invariant.
LEMMA HandleInv ==
  ASSUME PagesInv, NEW i \in DOMAIN calls, Handle(i)
  PROVE  PagesInv'
BY RefuseInv, ReadInv, ServeLogoutInv, CheckInv, WritePayeeInv, RowIsGoneInv, WriteInv, ServeSignInInv DEF Handle

\* The other state of the browser changes nothing here.
LEMMA PagesStutter ==
  ASSUME PagesInv, UNCHANGED <<jar, tab, calls, last, raced, rows, details, overlapped>>
  PROVE  PagesInv'
BY DEF PagesInv, CallsKept, Sound, Own, Whom, ProfilesKept, Document, SessionsKept, PayeesKept, Twins, PayeesOf,
       RowsKept, Adds

\* Every step of the pages keeps the invariant.
LEMMA PagesStepInv ==
  ASSUME PagesInv, Next
  PROVE  PagesInv'
<1>1. CASE \E t \in Tabs : Customer(t) BY <1>1, CustomerInv
<1>2. CASE Serving BY <1>2, HandleInv, DeliverInv DEF Serving
<1>3. CASE \E i \in DOMAIN calls : DatabaseFails(i) \/ Lose(i) BY <1>3, DatabaseFailsInv, LoseInv
<1>4. CASE Tick BY <1>4, PagesStutter DEF Tick, server
<1> QED BY <1>1, <1>2, <1>3, <1>4 DEF Next

\* The pages begin in the invariant.
LEMMA PagesInitInv ==
  Init => PagesInv
<1> SUFFICES ASSUME Init PROVE PagesInv OBVIOUS
<1>1. PICK c \in Registered, first \in Forms :
          /\ rows = {[payer |-> c, payee |-> first.payee, name |-> first.name, id |-> 1]}
          /\ jar = [user |-> c, exp |-> 1] /\ last = c
          /\ tab = [t \in Tabs |-> IF t \in SignedIn
                                   THEN [Resting EXCEPT !.user = c, !.shown["accounts"] = 1, !.shown["payees"] = rows]
                                   ELSE [Resting EXCEPT !.page = "login"]]
  BY DEF Init
<1>2. calls = <<>> /\ details = [u \in Customers |-> IF u \in Registered THEN [keys |-> u, rest |-> <<u, 0>>] ELSE Blank]
  BY DEF Init
<1>3. c \in Customers BY OnlineBankingAssumption
<1>4. CallsKept BY <1>2, ShortSequences DEF CallsKept
<1>5. SessionsKept BY <1>1, <1>2 DEF SessionsKept
<1>6. RowsKept BY <1>1 DEF RowsKept
<1>7. PayeesKept BY <1>1, <1>2 DEF PayeesKept
<1> DEFINE D == [Resting EXCEPT !.user = c, !.shown["accounts"] = 1, !.shown["payees"] = rows]
           E == [Resting EXCEPT !.page = "login"]
<1>8. Document(Resting) /\ c \in Users BY <1>3 DEF Resting, Empty, Document, Own, Users
<1>9. Document(D) /\ Document(E) BY <1>8, RestingDocument
<1>10. ProfilesKept
  <2>1. \A t \in Tabs : Document(tab[t])
    <3>1. \A t \in Tabs : tab[t] = D \/ tab[t] = E BY <1>1
    <3> HIDE DEF D, E
    <3> QED BY <1>9, <3>1
  <2>2. \A u \in Customers : details[u] = Blank \/ (details[u] \in Profiles /\ details[u].keys = u /\ details[u].rest[1] = u)
    BY <1>2 DEF Profiles
  <2>3. DOMAIN details = Customers /\ DOMAIN tab = Tabs /\ jar.user \in Users BY <1>1, <1>2, <1>3 DEF Users
  <2> QED BY <2>1, <2>2, <2>3 DEF ProfilesKept
<1> QED BY <1>4, <1>5, <1>6, <1>7, <1>10 DEF PagesInv

\* What the invariant of the pages says of their three properties.
LEMMA PagesPromise ==
  PagesInv => SessionIsTheLastSignIn /\ UnracedPayeesAreOnce /\ ProfilesStayApart
<1>1. PagesInv => SessionIsTheLastSignIn BY DEF PagesInv, SessionsKept, SessionIsTheLastSignIn
<1>2. PagesInv => UnracedPayeesAreOnce BY DEF PagesInv, PayeesKept, UnracedPayeesAreOnce
<1>3. PagesInv => ProfilesStayApart BY DEF PagesInv, ProfilesKept, ProfilesStayApart
<1> QED BY <1>1, <1>2, <1>3

-----------------------------------------------------------------------------
(***************************************************************************)
(* A page at rest.  What a page looks at is shown as it is stored, or a    *)
(* call of its tab will still bring it, or it is in doubt; and every       *)
(* answer that will be believed says what is stored.                       *)
(***************************************************************************)
Known(u) == u = NoOne \/ (u \in Customers /\ details[u] # Blank)
\* a call whose answer, or what is read after it, brings r to its tab
Covers(c, r) ==
  \/ c.kind \in {"auth", "boot"}
  \/ c.kind \in DOMAIN Resource /\ Resource[c.kind] = r /\ (r \in Kept \/ c.here)
  \/ c.kind = "primary" /\ r = "history" /\ c.here
  \/ /\ c.kind \in Writes /\ c.stage = "done" /\ (r \in Kept \/ c.here)
     /\ \E k \in Range(Refetch(c.kind, c.ok)) : k \in DOMAIN Resource /\ Resource[k] = r
Fetches(ms, t, r) == \E j \in DOMAIN ms : ms[j].tab = t /\ Covers(ms[j], r)
\* what an answer that will be believed says is what is stored
Faithful(c) ==
  c.stage = "done" /\ c.ok /\ c.lone /\ c.kind \in DOMAIN Resource
     => Subject(c) \in Customers /\ c.value = Stored(Resource[c.kind], Subject(c))
Finds(c) == c.kind \in {"edit", "remove"} /\ c.stage = "checked"
Fit(c) ==
  /\ Known(c.token.user) /\ (c.cookie # <<>> => Known(Whom(c)))
  /\ c.kind = "auth" /\ c.stage = "done" /\ c.ok => Known(c.value)
  /\ Finds(c) => \A r \in rows : r.id = c.value => r.payer = c.user
  /\ Faithful(c)
FitKept == \A j \in DOMAIN calls : Fit(calls[j])
TabsKept == Known(jar.user) /\ \A t \in Tabs : Known(tab[t].user) /\ tab[t].page \in DOMAIN Visible
IdsKept == IsFiniteSet(rows) /\ \A r, s \in rows : r.id = s.id => r.payer = s.payer
BooksKept == DOMAIN books = Customers /\ \A c \in Customers : DOMAIN books[c] = {"accounts", "history"}
Looks(T) == Visible[T.page] \cup {"accounts"}
ShowsStored(T, r) == T.shown[r] = Stored(r, T.user)
ShownKept ==
  \A t \in Tabs : tab[t].user # NoOne =>
     \A r \in Looks(tab[t]) \ doubt[t] : ShowsStored(tab[t], r) \/ Fetches(calls, t, r)
RestInv == FitKept /\ TabsKept /\ IdsKept /\ BooksKept /\ DOMAIN doubt = Tabs /\ ShownKept

\* d is the call c, for a page that may be gone, and believed only if c was.
Weaker(d, c) == Alike(d, c) /\ (d.lone => c.lone)
Yields(ls, ms, new) == \A j \in DOMAIN ls : ls[j] \in new \/ \E m \in DOMAIN ms : Weaker(ls[j], ms[m])

\* A call is no stronger than itself.
LEMMA WeakerSelf == ASSUME NEW c, Whole(c) PROVE Weaker(c, c)
BY DEF Weaker, Alike

\* Two steps of calls make one.
LEMMA YieldsTwice ==
  ASSUME NEW ls, NEW ms, NEW ns, NEW new, Yields(ls, ms, new), Yields(ms, ns, {})
  PROVE  Yields(ls, ns, new)
BY DEF Yields, Weaker, Alike

\* Calls that stay are no stronger.
LEMMA YieldsItself ==
  ASSUME NEW ms, Calls(ms)
  PROVE  Yields(ms, ms, {})
BY WeakerSelf DEF Yields, Calls

\* A call taken out leaves the others, and what they bring.
LEMMA WithoutYields ==
  ASSUME NEW ms, Calls(ms), NEW k \in DOMAIN ms
  PROVE  /\ Yields(RemoveAt(ms, k), ms, {})
         /\ \A t, r : Fetches(ms, t, r) => Fetches(RemoveAt(ms, k), t, r) \/ (ms[k].tab = t /\ Covers(ms[k], r))
<1> DEFINE T == Range(ms)
           q == RemoveAt(ms, k)
<1>1. ms \in Seq(T) /\ Len(ms) \in Nat /\ DOMAIN ms = 1 .. Len(ms) BY SequenceFacts DEF Calls, Sequence
<1> HIDE DEF T
<1>2. /\ DOMAIN q = 1 .. (Len(ms) - 1)
      /\ \A j \in DOMAIN q : q[j] = ms[IF j < k THEN j ELSE j + 1]
  BY <1>1, Removed
<1> HIDE DEF q
<1>3. \A j \in DOMAIN q : \E m \in DOMAIN ms : q[j] = ms[m] BY <1>1, <1>2
<1>4. Yields(q, ms, {}) BY <1>3, WeakerSelf DEF Yields, Calls
<1>5. ASSUME NEW m \in DOMAIN ms, m # k PROVE \E j \in DOMAIN q : q[j] = ms[m]
  <2>1. CASE m < k BY <1>1, <1>2, <2>1
  <2>2. CASE m > k
    <3>1. m - 1 \in DOMAIN q /\ ~ (m - 1 < k) /\ (m - 1) + 1 = m BY <1>1, <1>2, <2>2
    <3> QED BY <1>2, <3>1
  <2> QED BY <1>1, <1>5, <2>1, <2>2
<1>6. ASSUME NEW t, NEW r, Fetches(ms, t, r)
      PROVE  Fetches(q, t, r) \/ (ms[k].tab = t /\ Covers(ms[k], r))
  <2>1. PICK m \in DOMAIN ms : ms[m].tab = t /\ Covers(ms[m], r) BY <1>6 DEF Fetches
  <2>2. CASE m = k BY <2>1, <2>2
  <2>3. CASE m # k
    <3>1. PICK j \in DOMAIN q : q[j] = ms[m] BY <1>5, <2>3
    <3> QED BY <2>1, <3>1 DEF Fetches
  <2> QED BY <2>2, <2>3
<1> QED BY <1>4, <1>6 DEF q

\* A page that is left gets what the context keeps all the same.
LEMMA LeftYields ==
  ASSUME NEW ms, Calls(ms), NEW t
  PROVE  /\ Yields(Left(ms, t), ms, {})
         /\ \A u, r : Fetches(ms, u, r) /\ (u = t => r \in Kept) => Fetches(Left(ms, t), u, r)
<1> DEFINE q == Left(ms, t)
<1>1. DOMAIN q = DOMAIN ms BY DEF Left
<1>2. ASSUME NEW j \in DOMAIN ms
      PROVE  /\ Weaker(q[j], ms[j]) /\ q[j].tab = ms[j].tab
             /\ ms[j].tab # t => q[j] = ms[j]
  <2> DEFINE c == ms[j]
  <2>1. Whole(c) BY DEF Calls
  <2>2. q[j] = IF c.tab = t THEN [c EXCEPT !.here = FALSE] ELSE c BY DEF Left
  <2> HIDE DEF c, q
  <2>3. Weaker(c, c) BY <2>1, WeakerSelf
  <2>4. ASSUME NEW b PROVE Weaker([c EXCEPT !.here = b], c) /\ [c EXCEPT !.here = b].tab = c.tab
    BY <2>1 DEF Weaker, Alike, Whole
  <2> QED BY <2>2, <2>3, <2>4 DEF c
<1> HIDE DEF q
<1>3. Yields(q, ms, {}) BY <1>1, <1>2 DEF Yields
<1>4. ASSUME NEW u, NEW r, Fetches(ms, u, r), u = t => r \in Kept PROVE Fetches(q, u, r)
  <2>1. PICK j \in DOMAIN ms : ms[j].tab = u /\ Covers(ms[j], r) BY <1>4 DEF Fetches
  <2>2. CASE u # t BY <1>1, <1>2, <2>1, <2>2 DEF Fetches
  <2>3. CASE r \in Kept
    <3>1. r # "history" BY <2>3 DEF Kept
    <3>2. q[j].kind = ms[j].kind /\ q[j].stage = ms[j].stage /\ q[j].ok = ms[j].ok BY <1>2 DEF Weaker, Alike
    <3>3. Covers(q[j], r) BY <2>1, <2>3, <3>1, <3>2 DEF Covers
    <3> QED BY <1>1, <1>2, <2>1, <3>3 DEF Fetches
  <2> QED BY <1>4, <2>2, <2>3
<1> QED BY <1>3, <1>4 DEF q

\* A document that goes leaves the calls of the other tabs.
LEMMA OrphanedYields ==
  ASSUME NEW ms, Calls(ms), NEW t
  PROVE  /\ Yields(Orphaned(ms, t), ms, {})
         /\ \A u, r : Fetches(ms, u, r) /\ u \notin {t, Gone} => Fetches(Orphaned(ms, t), u, r)
<1> DEFINE q == [j \in DOMAIN ms |-> IF ms[j].tab = t THEN [ms[j] EXCEPT !.tab = Gone] ELSE ms[j]]
           K == {j \in DOMAIN q : ~ Idle(q[j])}
<1>1. DOMAIN q = DOMAIN ms /\ q = [j \in DOMAIN ms |-> q[j]] OBVIOUS
<1>2. ASSUME NEW j \in DOMAIN ms PROVE Weaker(q[j], ms[j]) /\ (ms[j].tab # t => q[j] = ms[j])
  <2> DEFINE c == ms[j]
  <2>1. Whole(c) BY DEF Calls
  <2>2. q[j] = IF c.tab = t THEN [c EXCEPT !.tab = Gone] ELSE c OBVIOUS
  <2> HIDE DEF c, q
  <2>3. Weaker(c, c) /\ Weaker([c EXCEPT !.tab = Gone], c) BY <2>1 DEF Weaker, Alike, Whole
  <2> QED BY <2>2, <2>3 DEF c
<1>3. Orphaned(ms, t) = Sifted(q, K) BY DEF Orphaned
<1>4. K \in SUBSET (DOMAIN q) OBVIOUS
<1>5. Calls(q)
  <2>1. \A j \in DOMAIN ms : Alike(q[j], ms[j]) BY <1>2 DEF Weaker
  <2> HIDE DEF q
  <2> QED BY <1>1, <2>1, MarkedSucceed
<1>6. \A j \in DOMAIN q : q[j].tab # Gone => j \in K BY DEF Idle
<1> HIDE DEF q, K
<1>7. PICK f \in [DOMAIN Sifted(q, K) -> K] :
              /\ \A n \in DOMAIN Sifted(q, K) : Sifted(q, K)[n] = q[f[n]]
              /\ \A j \in K : \E n \in DOMAIN Sifted(q, K) : f[n] = j
  BY <1>4, <1>5, SiftedFrom DEF Calls
<1>8. Yields(Sifted(q, K), ms, {}) BY <1>1, <1>2, <1>4, <1>7 DEF Yields
<1>9. ASSUME NEW u, NEW r, Fetches(ms, u, r), u \notin {t, Gone} PROVE Fetches(Sifted(q, K), u, r)
  <2>1. PICK j \in DOMAIN ms : ms[j].tab = u /\ Covers(ms[j], r) BY <1>9 DEF Fetches
  <2>2. q[j] = ms[j] /\ j \in K BY <1>1, <1>2, <1>6, <1>9, <2>1
  <2>3. PICK n \in DOMAIN Sifted(q, K) : f[n] = j BY <1>7, <2>2
  <2>4. Sifted(q, K)[n] = ms[j] BY <1>7, <2>2, <2>3
  <2> QED BY <2>1, <2>3, <2>4 DEF Fetches
<1> QED BY <1>3, <1>8, <1>9

\* What is sent joins what is in flight, and brings what its kind brings.
LEMMA IssueYields ==
  ASSUME NEW ms, Calls(ms), NEW t, NEW user, NEW kinds, Sequence(kinds), NEW arg, NEW cookie, NEW here
  PROVE  LET ls == Issue(ms, t, user, kinds, arg, cookie, here)
         IN  /\ Yields(ls, ms, Sending(t, user, kinds, arg, cookie, here))
             /\ \A u, r : Fetches(ms, u, r) => Fetches(ls, u, r)
             /\ \A r : \A k \in Range(kinds) :
                   (\A l : Covers(NewCall(t, k, user, arg, cookie, here, l), r)) => Fetches(ls, t, r)
<1> DEFINE mine == {d \in Range(ms) : d.tab = t}
           same(k, d) == ResourceOf(k) = ResourceOf(d.kind)
           lone(k) == /\ \A d \in mine : ~ same(k, d)
                      /\ Cardinality({j \in DOMAIN kinds : ResourceOf(kinds[j]) = ResourceOf(k)}) = 1
           crossed(j) == \E k \in Range(kinds) : ms[j] \in mine /\ same(k, ms[j])
           old == [j \in DOMAIN ms |-> [ms[j] EXCEPT !.lone = @ /\ ~ crossed(j)]]
           fresh == [j \in DOMAIN kinds |-> NewCall(t, kinds[j], user, arg, cookie, here, lone(kinds[j]))]
           new == Sending(t, user, kinds, arg, cookie, here)
           T == Range(old) \cup Range(fresh)
           p == old \o fresh
<1>1. Issue(ms, t, user, kinds, arg, cookie, here) = p BY DEF Issue
<1>2. Len(ms) \in Nat /\ DOMAIN ms = 1 .. Len(ms) BY SequenceFacts DEF Calls
<1>3. Len(kinds) \in Nat /\ DOMAIN kinds = 1 .. Len(kinds) BY SequenceFacts
<1>4. ASSUME NEW j \in DOMAIN kinds
      PROVE  fresh[j] \in new /\ \E l : fresh[j] = NewCall(t, kinds[j], user, arg, cookie, here, l)
  <2>1. \A n \in DOMAIN kinds : lone(kinds[n]) \in BOOLEAN /\ kinds[n] \in Range(kinds) BY DEF Range
  <2> HIDE DEF lone
  <2>2. <<kinds[j], lone(kinds[j])>> \in Range(kinds) \X BOOLEAN BY <2>1
  <2>3. \E w \in Range(kinds) \X BOOLEAN : fresh[j] = NewCall(t, w[1], user, arg, cookie, here, w[2])
    BY <2>2
  <2>4. fresh[j] = NewCall(t, kinds[j], user, arg, cookie, here, lone(kinds[j])) OBVIOUS
  <2> QED BY <2>3, <2>4 DEF Sending
<1>5. ASSUME NEW j \in DOMAIN ms
      PROVE  Weaker(old[j], ms[j]) /\ old[j].tab = ms[j].tab /\ old[j].here = ms[j].here
  <2> DEFINE c == ms[j]
  <2>1. Whole(c) BY DEF Calls
  <2> HIDE DEF crossed
  <2>2. old[j] = [c EXCEPT !.lone = @ /\ ~ crossed(j)] OBVIOUS
  <2> HIDE DEF c, old
  <2>3. PICK b : b = (c.lone /\ ~ crossed(j)) OBVIOUS
  <2>4. b => c.lone BY <2>3
  <2>5. old[j] = [c EXCEPT !.lone = b] BY <2>2, <2>3
  <2>6. Alike(old[j], c) /\ old[j].tab = c.tab /\ old[j].here = c.here /\ old[j].lone = b BY <2>1, <2>5 DEF Alike, Whole
  <2> QED BY <2>4, <2>6 DEF c, Weaker
<1>6. DOMAIN old = 1 .. Len(ms) /\ old = [j \in 1 .. Len(ms) |-> old[j]] BY <1>2
<1>7. DOMAIN fresh = 1 .. Len(kinds) /\ fresh = [j \in 1 .. Len(kinds) |-> fresh[j]] BY <1>3
<1> HIDE DEF old, fresh, new, lone
<1>8. Sequence(old) /\ Len(old) = Len(ms) /\ Sequence(fresh) /\ Len(fresh) = Len(kinds)
  BY <1>2, <1>3, <1>6, <1>7, SequenceMade
<1>9. old \in Seq(T) /\ fresh \in Seq(T)
  <2>1. \A j \in 1 .. Len(old) : old[j] \in T BY <1>6, <1>8 DEF Range
  <2>2. \A j \in 1 .. Len(fresh) : fresh[j] \in T BY <1>7, <1>8 DEF Range
  <2> HIDE DEF T
  <2>3. old \in [1 .. Len(old) -> T] /\ fresh \in [1 .. Len(fresh) -> T] BY <1>6, <1>7, <1>8, <2>1, <2>2
  <2> QED BY <1>2, <1>3, <1>8, <2>3, SeqDef
<1> HIDE DEF T
<1>10. /\ p \in Seq(T) /\ Len(p) = Len(ms) + Len(kinds)
       /\ \A j \in 1 .. (Len(ms) + Len(kinds)) : p[j] = IF j <= Len(ms) THEN old[j] ELSE fresh[j - Len(ms)]
  <2>1. /\ p \in Seq(T) /\ Len(p) = Len(old) + Len(fresh)
        /\ \A j \in 1 .. (Len(old) + Len(fresh)) : p[j] = IF j <= Len(old) THEN old[j] ELSE fresh[j - Len(old)]
    BY <1>9, ConcatProperties
  <2> HIDE DEF p
  <2> QED BY <1>8, <2>1
<1>11. DOMAIN p = 1 .. (Len(ms) + Len(kinds)) BY <1>10, LenProperties
<1> HIDE DEF p
<1>12. \A j \in DOMAIN ms : j \in DOMAIN p /\ p[j] = old[j] BY <1>2, <1>3, <1>10, <1>11
<1>13. ASSUME NEW j \in DOMAIN kinds PROVE \E m \in DOMAIN p : p[m] = fresh[j]
  <2>1. Len(ms) + j \in DOMAIN p /\ ~ (Len(ms) + j <= Len(ms)) /\ (Len(ms) + j) - Len(ms) = j BY <1>2, <1>3, <1>11
  <2> QED BY <1>10, <1>11, <2>1
<1>14. \A j \in DOMAIN p : (j \in DOMAIN ms /\ p[j] = old[j]) \/ \E m \in DOMAIN kinds : p[j] = fresh[m]
  <2>1. \A j \in DOMAIN p : ~ (j <= Len(ms)) => j - Len(ms) \in DOMAIN kinds /\ p[j] = fresh[j - Len(ms)]
    BY <1>2, <1>3, <1>10, <1>11
  <2>2. \A j \in DOMAIN p : j <= Len(ms) => j \in DOMAIN ms /\ p[j] = old[j] BY <1>2, <1>3, <1>10, <1>11
  <2> QED BY <2>1, <2>2
<1>15. Yields(p, ms, new) BY <1>4, <1>5, <1>14 DEF Yields
<1>16. ASSUME NEW u, NEW r, Fetches(ms, u, r) PROVE Fetches(p, u, r)
  <2>1. PICK j \in DOMAIN ms : ms[j].tab = u /\ Covers(ms[j], r) BY <1>16 DEF Fetches
  <2>2. Covers(old[j], r) /\ old[j].tab = u BY <1>5, <2>1 DEF Covers, Weaker, Alike
  <2> QED BY <1>12, <2>2 DEF Fetches
<1>17. ASSUME NEW k \in Range(kinds), NEW r, \A l : Covers(NewCall(t, k, user, arg, cookie, here, l), r)
       PROVE  Fetches(p, t, r)
  <2>1. PICK j \in DOMAIN kinds : kinds[j] = k BY DEF Range
  <2>2. PICK l : fresh[j] = NewCall(t, k, user, arg, cookie, here, l) BY <1>4, <2>1
  <2>3. PICK m \in DOMAIN p : p[m] = NewCall(t, k, user, arg, cookie, here, l) BY <1>13, <2>2
  <2>4. p[m].tab = t BY <2>3 DEF NewCall
  <2>5. Covers(p[m], r) BY <1>17, <2>3
  <2> QED BY <2>4, <2>5 DEF Fetches
<1> QED BY <1>1, <1>15, <1>16, <1>17 DEF new

\* A call put back keeps the others, and itself unless nobody waits.
LEMMA PlacedYields ==
  ASSUME NEW ms, Calls(ms), NEW i \in DOMAIN ms, NEW d
  PROVE  /\ Yields(Placed(ms, i, d), ms, {d})
         /\ \A t, r : Fetches(ms, t, r) => Fetches(Placed(ms, i, d), t, r) \/ (ms[i].tab = t /\ Covers(ms[i], r))
         /\ \A r : d.tab # Gone /\ Covers(d, r) => Fetches(Placed(ms, i, d), d.tab, r)
<1>1. CASE Idle(d)
  <2>1. Placed(ms, i, d) = RemoveAt(ms, i) /\ d.tab = Gone BY <1>1 DEF Placed, Idle
  <2>2. Yields(RemoveAt(ms, i), ms, {d}) BY WithoutYields DEF Yields
  <2> QED BY <2>1, <2>2, WithoutYields
<1>2. CASE ~ Idle(d)
  <2> DEFINE ls == [ms EXCEPT ![i] = d]
  <2>1. Placed(ms, i, d) = ls BY <1>2 DEF Placed
  <2>2. DOMAIN ls = DOMAIN ms /\ ls[i] = d /\ \A j \in DOMAIN ms \ {i} : ls[j] = ms[j] OBVIOUS
  <2> HIDE DEF ls
  <2>3. Yields(ls, ms, {d}) BY <2>2, WeakerSelf DEF Yields, Calls
  <2>4. ASSUME NEW t, NEW r, Fetches(ms, t, r)
        PROVE  Fetches(ls, t, r) \/ (ms[i].tab = t /\ Covers(ms[i], r))
    <3>1. PICK m \in DOMAIN ms : ms[m].tab = t /\ Covers(ms[m], r) BY <2>4 DEF Fetches
    <3>2. CASE m = i BY <3>1, <3>2
    <3>3. CASE m # i BY <2>2, <3>1, <3>3 DEF Fetches
    <3> QED BY <3>2, <3>3
  <2>5. \A r : Covers(d, r) => Fetches(ls, d.tab, r) BY <2>2 DEF Fetches
  <2> QED BY <2>1, <2>3, <2>4, <2>5
<1> QED BY <1>1, <1>2

\* A write that commits lets no answer be believed that it outdates.
LEMMA CommitYields ==
  ASSUME Calls(calls), NEW i \in DOMAIN calls, NEW d, Commit(i, d), d.tab = calls[i].tab
  PROVE  /\ \A j \in DOMAIN calls' :
              \/ calls'[j] = d
              \/ \E m \in DOMAIN calls : Weaker(calls'[j], calls[m]) /\ (calls'[j].lone => ~ Outdated(calls[m], calls[i]))
         /\ \A t, r : Fetches(calls, t, r) => Fetches(calls', t, r) \/ (calls[i].tab = t /\ Covers(calls[i], r))
         /\ \A r : d.tab # Gone /\ Covers(d, r) => Fetches(calls', d.tab, r)
<1> DEFINE c == calls[i]
           past(j) == Outdated(calls[j], c)
           ls == [j \in DOMAIN calls |-> [calls[j] EXCEPT !.lone = @ /\ ~ past(j)]]
<1>1. calls' = Placed(ls, i, d) BY DEF Commit
<1>2. c = calls[i] /\ \A j : past(j) <=> Outdated(calls[j], calls[i]) OBVIOUS
<1> HIDE DEF past, c
<1>3. DOMAIN ls = DOMAIN calls /\ ls = [j \in DOMAIN calls |-> ls[j]] OBVIOUS
<1>4. ASSUME NEW j \in DOMAIN calls
      PROVE  /\ Weaker(ls[j], calls[j]) /\ ls[j].tab = calls[j].tab /\ ls[j].here = calls[j].here
             /\ ls[j].lone => ~ past(j)
  <2> DEFINE o == calls[j]
  <2>1. Whole(o) BY DEF Calls
  <2>2. ls[j] = [o EXCEPT !.lone = @ /\ ~ past(j)] OBVIOUS
  <2> HIDE DEF o, ls
  <2>3. PICK b : b = (o.lone /\ ~ past(j)) OBVIOUS
  <2>4. (b => o.lone) /\ (b => ~ past(j)) BY <2>3
  <2>5. ls[j] = [o EXCEPT !.lone = b] BY <2>2, <2>3
  <2>6. Alike(ls[j], o) /\ ls[j].tab = o.tab /\ ls[j].here = o.here /\ ls[j].lone = b BY <2>1, <2>5 DEF Alike, Whole
  <2> QED BY <2>4, <2>6 DEF o, Weaker
<1> HIDE DEF ls
<1>5. Calls(ls)
  <2>1. \A j \in DOMAIN calls : Alike(ls[j], calls[j]) BY <1>4 DEF Weaker
  <2> QED BY <1>3, <2>1, MarkedSucceed
<1>6. /\ Yields(calls', ls, {d})
      /\ \A t, r : Fetches(ls, t, r) => Fetches(calls', t, r) \/ (ls[i].tab = t /\ Covers(ls[i], r))
      /\ \A r : d.tab # Gone /\ Covers(d, r) => Fetches(calls', d.tab, r)
  BY <1>1, <1>3, <1>5, PlacedYields
<1>7. \A r : \A j \in DOMAIN calls : Covers(ls[j], r) <=> Covers(calls[j], r) BY <1>4 DEF Covers, Weaker, Alike
<1>8. ASSUME NEW t, NEW r, Fetches(calls, t, r)
      PROVE  Fetches(calls', t, r) \/ (calls[i].tab = t /\ Covers(calls[i], r))
  <2>1. Fetches(ls, t, r) BY <1>3, <1>4, <1>7, <1>8 DEF Fetches
  <2> QED BY <1>4, <1>6, <1>7, <2>1
<1>9. ASSUME NEW j \in DOMAIN calls'
      PROVE  \/ calls'[j] = d
             \/ \E m \in DOMAIN calls : Weaker(calls'[j], calls[m]) /\ (calls'[j].lone => ~ Outdated(calls[m], calls[i]))
  <2>1. CASE calls'[j] = d BY <2>1
  <2>2. CASE calls'[j] # d
    <3>1. PICK m \in DOMAIN calls : Weaker(calls'[j], ls[m]) BY <1>3, <1>6, <2>2 DEF Yields
    <3>2. Weaker(calls'[j], calls[m]) BY <1>4, <3>1 DEF Weaker, Alike
    <3>3. calls'[j].lone => ~ past(m) BY <1>4, <3>1 DEF Weaker
    <3> QED BY <1>2, <3>2, <3>3
  <2> QED BY <2>1, <2>2
<1> QED BY <1>6, <1>8, <1>9

-----------------------------------------------------------------------------
\* What is known of a call holds of what is left of it.
LEMMA FitWeaker ==
  ASSUME NEW c, NEW d, Fit(c), Weaker(d, c)
  PROVE  Fit(d)
BY DEF Fit, Weaker, Alike, Finds, Faithful, Subject, Whom

\* It holds as long as the bank's tables stay.
LEMMA FitSame ==
  ASSUME NEW c, UNCHANGED <<rows, books, details>>
  PROVE  Fit(c) => Fit(c)'
<1>1. \A u : Known(u) => Known(u)' BY DEF Known
<1>2. \A r, u : Stored(r, u) = Stored(r, u)' BY DEF Stored, PayeesOf
<1>3. Faithful(c) => Faithful(c)'
  <2> SUFFICES ASSUME Faithful(c) PROVE Faithful(c)' OBVIOUS
  <2> QED BY <1>2 DEF Faithful, Subject
<1>4. (Finds(c) => \A r \in rows : r.id = c.value => r.payer = c.user)
        => (Finds(c) => \A r \in rows' : r.id = c.value => r.payer = c.user)
  OBVIOUS
<1> QED BY <1>1, <1>3, <1>4 DEF Fit, Finds, Whom

\* A step that writes no table keeps what is known of the calls.
LEMMA FitQuiet ==
  ASSUME FitKept, UNCHANGED <<rows, books, details>>, NEW new, Yields(calls', calls, new), \A n \in new : Fit(n)
  PROVE  FitKept'
<1>1. ASSUME NEW j \in DOMAIN calls' PROVE Fit(calls[j])'
  <2>1. PICK d : d = calls'[j] OBVIOUS
  <2>2. Fit(d)
    <3>1. CASE d \in new BY <3>1
    <3>2. CASE \E m \in DOMAIN calls : Weaker(d, calls[m]) BY <3>2, FitWeaker DEF FitKept
    <3> QED BY <2>1, <3>1, <3>2 DEF Yields
  <2>3. Fit(d)' BY <2>2, FitSame
  <2> QED BY <2>1, <2>3 DEF Fit, Finds, Faithful, Subject, Known, Stored, PayeesOf, Whom
<1> QED BY <1>1 DEF FitKept

\* What is sent knows nothing yet.
LEMMA SendingFit ==
  ASSUME NEW t, NEW user, NEW kinds, NEW arg, NEW cookie, Known(cookie.user), NEW here
  PROVE  \A n \in Sending(t, user, kinds, arg, cookie, here) : Fit(n)
<1>1. ASSUME NEW n \in Sending(t, user, kinds, arg, cookie, here) PROVE Fit(n)
  <2>1. PICK p \in Range(kinds) \X BOOLEAN : n = NewCall(t, p[1], user, arg, cookie, here, p[2])
    BY <1>1 DEF Sending
  <2>2. n.token = Presented(cookie) /\ n.cookie = <<>> /\ n.stage = "sent" BY <2>1 DEF NewCall
  <2>3. Known(NoOne) BY DEF Known
  <2>4. Known(n.token.user) BY <2>2, <2>3, PresentedUser
  <2> QED BY <2>2, <2>4 DEF Fit, Finds, Faithful
<1> QED BY <1>1

\* One tab changes its page, or none; the others lose nothing that would still come.
LEMMA ShownStays ==
  ASSUME ShownKept, UNCHANGED <<rows, books, details>>, NEW u,
         \A t \in Tabs \ {u} : tab'[t] = tab[t] /\ doubt[t] \subseteq doubt'[t],
         \A r : \A t \in Tabs \ {u} : Fetches(calls, t, r) => Fetches(calls', t, r) \/ r \in doubt'[t],
         u \in Tabs /\ tab'[u].user # NoOne =>
            \A r \in Looks(tab'[u]) \ doubt'[u] : ShowsStored(tab'[u], r) \/ Fetches(calls', u, r)
  PROVE  ShownKept'
<1>1. \A r, c : Stored(r, c)' = Stored(r, c) BY DEF Stored, PayeesOf
<1>2. ASSUME NEW t \in Tabs, NEW T, T = tab'[t], T.user # NoOne, NEW r \in Looks(T) \ doubt'[t]
      PROVE  ShowsStored(T, r) \/ Fetches(calls', t, r)
  <2>1. CASE t = u BY <1>2, <2>1
  <2>2. CASE t # u
    <3>1. T = tab[t] /\ r \notin doubt[t] BY <1>2, <2>2
    <3>2. ShowsStored(tab[t], r) \/ Fetches(calls, t, r) BY <1>2, <3>1 DEF ShownKept
    <3> QED BY <1>2, <2>2, <3>1, <3>2
  <2> QED BY <2>1, <2>2
<1>3. ASSUME NEW t \in Tabs, tab'[t].user # NoOne, NEW r \in (Looks(tab[t]) \ doubt[t])'
      PROVE  (ShowsStored(tab[t], r) \/ Fetches(calls, t, r))'
  <2>1. PICK T : T = tab'[t] OBVIOUS
  <2>2. r \in Looks(T) \ doubt'[t] BY <1>3, <2>1 DEF Looks
  <2>3. ShowsStored(T, r) \/ Fetches(calls', t, r) BY <1>2, <1>3, <2>1, <2>2
  <2>4. ShowsStored(T, r) => T.shown[r] = Stored(r, T.user)' BY <1>1 DEF ShowsStored
  <2>5. T.shown[r] = Stored(r, T.user)' => ShowsStored(tab[t], r)' BY <2>1 DEF ShowsStored, Stored, PayeesOf
  <2> QED BY <2>3, <2>4, <2>5 DEF Fetches
<1> QED BY <1>3 DEF ShownKept

\* The same when no tab changes at all, whatever more comes in doubt.
LEMMA ShownQuiet ==
  ASSUME ShownKept, UNCHANGED <<rows, books, details, tab>>, \A t \in Tabs : doubt[t] \subseteq doubt'[t],
         \A r : \A t \in Tabs : Fetches(calls, t, r) => Fetches(calls', t, r) \/ r \in doubt'[t]
  PROVE  ShownKept'
<1>1. PICK u : u \notin Tabs BY OnlineBankingAssumption
<1> QED BY <1>1, ShownStays

\* A step that writes no table keeps what holds of the tables.
LEMMA RestQuiet ==
  ASSUME RestInv, UNCHANGED <<rows, books, details>>, FitKept', TabsKept', DOMAIN doubt' = Tabs, ShownKept'
  PROVE  RestInv'
<1>1. IdsKept' /\ BooksKept' BY DEF RestInv, IdsKept, BooksKept
<1> QED BY <1>1 DEF RestInv

\* The tabs keep their pages and customers.
LEMMA TabsSame ==
  ASSUME TabsKept, UNCHANGED <<details, tab>>, Known(jar'.user)
  PROVE  TabsKept'
BY DEF TabsKept, Known

\* A handler answers, and writes no table.
LEMMA ServedRest ==
  ASSUME PagesInv, RestInv, NEW i \in DOMAIN calls, NEW d, Served(i, d), d.tab = calls[i].tab, Fit(d),
         UNCHANGED <<jar, tab, rows, books, details>>, DOMAIN doubt' = Tabs, \A t \in Tabs : doubt[t] \subseteq doubt'[t],
         \A r : Covers(calls[i], r) /\ d.tab \in Tabs => Covers(d, r) \/ r \in doubt'[d.tab]
  PROVE  RestInv'
<1>1. Calls(calls) BY CallsAre
<1>2. /\ Yields(calls', calls, {d})
      /\ \A t, r : Fetches(calls, t, r) => Fetches(calls', t, r) \/ (calls[i].tab = t /\ Covers(calls[i], r))
      /\ \A r : d.tab # Gone /\ Covers(d, r) => Fetches(calls', d.tab, r)
  BY <1>1, PlacedYields DEF Served
<1>3. FitKept' BY <1>2, FitQuiet DEF RestInv
<1>4. TabsKept' BY TabsSame DEF RestInv, TabsKept
<1>5. Gone \notin Tabs BY OnlineBankingAssumption
<1>6. \A r : \A t \in Tabs : Fetches(calls, t, r) => Fetches(calls', t, r) \/ r \in doubt'[t] BY <1>2, <1>5
<1>7. ShownKept' BY <1>6, ShownQuiet DEF RestInv
<1> QED BY <1>3, <1>4, <1>7, RestQuiet

\* A read that is sent brings its resource, to the page or to the context.
LEMMA ReadCovers ==
  ASSUME NEW k, NEW r, NEW here,
         (k \in DOMAIN Resource /\ Resource[k] = r /\ (r \in Kept \/ here)) \/ (k = "primary" /\ r = "history" /\ here),
         NEW t, NEW user, NEW arg, NEW cookie, NEW l
  PROVE  Covers(NewCall(t, k, user, arg, cookie, here, l), r)
<1> DEFINE n == NewCall(t, k, user, arg, cookie, here, l)
<1>1. n.kind = k /\ n.here = here BY DEF NewCall
<1> HIDE DEF n
<1> QED BY <1>1 DEF Covers, n

\* What a page reads when it is mounted brings all it shows but the accounts.
LEMMA ReadsCover ==
  ASSUME NEW page \in DOMAIN Visible, NEW r \in Visible[page], r # "accounts",
         NEW t, NEW user, NEW arg, NEW cookie
  PROVE  \E k \in Range(Reads(page)) : \A l : Covers(NewCall(t, k, user, arg, cookie, TRUE, l), r)
<1>1. ASSUME NEW k, NEW l, (k \in DOMAIN Resource /\ Resource[k] = r) \/ (k = "primary" /\ r = "history")
      PROVE  Covers(NewCall(t, k, user, arg, cookie, TRUE, l), r)
  <2>1. PICK here : here = TRUE OBVIOUS
  <2> QED BY <1>1, <2>1, ReadCovers
<1>2. \/ page = "dashboard" /\ r = "history"
      \/ page = "transactions" /\ r = "history"
      \/ page = "payees" /\ r = "payees"
      \/ page = "profile" /\ r = "form"
  BY DEF Visible
<1>3. CASE page = "dashboard" /\ r = "history"
  <2>1. Range(Reads(page)) = {"history"} BY <1>3 DEF Reads, Range
  <2>2. Resource["history"] = "history" /\ "history" \in DOMAIN Resource BY DEF Resource
  <2>3. \A l : Covers(NewCall(t, "history", user, arg, cookie, TRUE, l), r) BY <1>1, <1>3, <2>2
  <2> QED BY <2>1, <2>3
<1>4. CASE page = "transactions" /\ r = "history"
  <2>1. Range(Reads(page)) = {"primary"} BY <1>4 DEF Reads, Range
  <2> QED BY <1>1, <1>4, <2>1
<1>5. CASE page = "payees" /\ r = "payees"
  <2>1. Range(Reads(page)) = {"payees"} BY <1>5 DEF Reads, Range
  <2>2. Resource["payees"] = "payees" /\ "payees" \in DOMAIN Resource BY DEF Resource
  <2>3. \A l : Covers(NewCall(t, "payees", user, arg, cookie, TRUE, l), r) BY <1>1, <1>5, <2>2
  <2> QED BY <2>1, <2>3
<1>6. CASE page = "profile" /\ r = "form"
  <2>1. Range(Reads(page)) = {"profile"} BY <1>6 DEF Reads, Range
  <2>2. Resource["profile"] = "form" /\ "profile" \in DOMAIN Resource BY DEF Resource
  <2>3. \A l : Covers(NewCall(t, "profile", user, arg, cookie, TRUE, l), r) BY <1>1, <1>6, <2>2
  <2> QED BY <2>1, <2>3
<1> QED BY <1>2, <1>3, <1>4, <1>5, <1>6

\* The check of the session brings everything in its turn.
LEMMA ChecksCover ==
  ASSUME NEW k \in {"auth", "boot"}, NEW t, NEW user, NEW arg, NEW cookie, NEW here, NEW l, NEW r
  PROVE  Covers(NewCall(t, k, user, arg, cookie, here, l), r)
BY DEF NewCall, Covers

\* A tab acts: what it sends knows nothing yet, and no table is written.
LEMMA ActedRest ==
  ASSUME PagesInv, RestInv, NEW t \in Tabs, NEW ms, Calls(ms), Yields(ms, calls, {}),
         NEW kinds, Sequence(kinds), NEW user, NEW arg, NEW cookie, cookie = jar',
         NEW here, calls' = Issue(ms, t, user, kinds, arg, cookie, here), TabsKept',
         UNCHANGED <<rows, books, details>>, DOMAIN doubt' = Tabs,
         \A u \in Tabs \ {t} : tab'[u] = tab[u] /\ doubt[u] \subseteq doubt'[u],
         \A r : \A u \in Tabs \ {t} : Fetches(calls, u, r) => Fetches(ms, u, r) \/ r \in doubt'[u],
         tab'[t].user # NoOne =>
            \A r \in Looks(tab'[t]) \ doubt'[t] :
               \/ ShowsStored(tab'[t], r) \/ Fetches(ms, t, r)
               \/ \E k \in Range(kinds) : \A l : Covers(NewCall(t, k, user, arg, cookie, here, l), r)
  PROVE  RestInv'
<1> DEFINE new == Sending(t, user, kinds, arg, cookie, here)
<1>1. /\ Yields(calls', ms, new)
      /\ \A u, r : Fetches(ms, u, r) => Fetches(calls', u, r)
      /\ \A r : \A k \in Range(kinds) : (\A l : Covers(NewCall(t, k, user, arg, cookie, here, l), r)) => Fetches(calls', t, r)
  BY IssueYields
<1>2. Known(cookie.user) BY DEF TabsKept, Known
<1>3. \A n \in new : Fit(n) BY <1>2, SendingFit
<1> HIDE DEF new
<1>4. Yields(calls', calls, new) BY <1>1, YieldsTwice
<1>5. FitKept' BY <1>3, <1>4, FitQuiet DEF RestInv
<1>6. ShownKept'
  <2>1. \A r : \A u \in Tabs \ {t} : Fetches(calls, u, r) => Fetches(calls', u, r) \/ r \in doubt'[u]
    BY <1>1
  <2>2. tab'[t].user # NoOne =>
           \A r \in Looks(tab'[t]) \ doubt'[t] : ShowsStored(tab'[t], r) \/ Fetches(calls', t, r)
    BY <1>1
  <2> QED BY <2>1, <2>2, ShownStays DEF RestInv
<1> QED BY <1>5, <1>6, RestQuiet

\* A customer's request keeps the page as right as it was.
LEMMA SubmitRest ==
  ASSUME PagesInv, RestInv, NEW t \in Tabs, NEW kind, NEW user, NEW arg, Submit(t, kind, user, arg)
  PROVE  RestInv'
<1>1. /\ calls' = Issue(calls, t, user, <<kind>>, arg, jar, TRUE)
      /\ UNCHANGED <<jar, tab, doubt, rows, books, details>>
  BY DEF Submit, Act, server
<1>2. PICK cookie : cookie = jar OBVIOUS
<1>3. PICK kinds : kinds = <<kind>> OBVIOUS
<1>4. Calls(calls) /\ Yields(calls, calls, {}) BY CallsAre, YieldsItself
<1>5. Sequence(kinds) BY <1>3, OneKind
<1>6. calls' = Issue(calls, t, user, kinds, arg, cookie, TRUE) /\ cookie = jar' BY <1>1, <1>2, <1>3
<1>7. TabsKept' BY <1>1, TabsSame DEF RestInv, TabsKept
<1>8. tab'[t].user # NoOne =>
        \A r \in Looks(tab'[t]) \ doubt'[t] : ShowsStored(tab'[t], r) \/ Fetches(calls, t, r)
  BY <1>1 DEF RestInv, ShownKept
<1>9. DOMAIN doubt' = Tabs BY <1>1 DEF RestInv
<1> QED BY <1>1, <1>4, <1>5, <1>6, <1>7, <1>8, <1>9, ActedRest

\* A page that is loaded afresh belongs to nobody yet.
LEMMA LoadRest ==
  ASSUME PagesInv, RestInv, NEW t \in Tabs, Load(t)
  PROVE  RestInv'
<1> DEFINE ms == Orphaned(calls, t)
           kinds == <<"auth">>
           T == Loaded(tab[t].page)
<1>1. /\ calls' = Issue(ms, t, NoOne, kinds, Blank, jar, TRUE) /\ tab' = [tab EXCEPT ![t] = T]
      /\ doubt' = [doubt EXCEPT ![t] = {}] /\ UNCHANGED <<jar, rows, books, details>>
  BY DEF Load, Act, server
<1>2. T.user = NoOne /\ T.page = tab[t].page BY DEF Loaded
<1>3. Calls(ms) BY CallsAre, OrphanedSucceeds
<1>4. Yields(ms, calls, {}) /\ \A u, r : Fetches(calls, u, r) /\ u \notin {t, Gone} => Fetches(ms, u, r)
  BY CallsAre, OrphanedYields
<1>5. Sequence(kinds) BY OneKind
<1>6. Gone \notin Tabs BY OnlineBankingAssumption
<1> HIDE DEF ms, kinds, T
<1>7. DOMAIN tab = Tabs /\ DOMAIN doubt = Tabs BY DEF PagesInv, ProfilesKept, RestInv
<1>8. tab'[t] = T /\ \A u \in Tabs \ {t} : tab'[u] = tab[u] /\ doubt'[u] = doubt[u] BY <1>1, <1>7
<1>9. TabsKept' BY <1>1, <1>2, <1>8 DEF RestInv, TabsKept, Known
<1>10. PICK cookie : cookie = jar OBVIOUS
<1>11. calls' = Issue(ms, t, NoOne, kinds, Blank, cookie, TRUE) /\ cookie = jar' BY <1>1, <1>10
<1>12. DOMAIN doubt' = Tabs BY <1>1, <1>7
<1>13. \A u \in Tabs \ {t} : tab'[u] = tab[u] /\ doubt[u] \subseteq doubt'[u] BY <1>8
<1>14. \A r : \A u \in Tabs \ {t} : Fetches(calls, u, r) => Fetches(ms, u, r) \/ r \in doubt'[u] BY <1>4, <1>6
<1>15. ~ (tab'[t].user # NoOne) BY <1>2, <1>8
<1>16. UNCHANGED <<rows, books, details>> BY <1>1
<1> QED BY <1>3, <1>4, <1>5, <1>9, <1>11, <1>12, <1>13, <1>14, <1>15, <1>16, ActedRest

\* Visit: what the new page shows it reads, or the context keeps it.
LEMMA VisitRest ==
  ASSUME PagesInv, RestInv, NEW t \in Tabs, Visit(t)
  PROVE  RestInv'
<1> DEFINE ms == Left(calls, t)
           user == tab[t].user
<1>1. PICK page \in Destinations \ {tab[t].page} :
          /\ tab' = [tab EXCEPT ![t] = Mounted(tab[t], page)]
          /\ calls' = Issue(ms, t, user, Reads(page), Blank, jar, TRUE)
  BY DEF Visit
<1>2. user # NoOne /\ UNCHANGED <<jar, doubt, rows, books, details>> BY DEF Visit, Act, server
<1>3. page \in DOMAIN Visible BY OnlineBankingAssumption DEF Visible
<1>4. Calls(ms) BY CallsAre, LeftSucceeds
<1>5. Yields(ms, calls, {}) /\ \A u, r : Fetches(calls, u, r) /\ (u = t => r \in Kept) => Fetches(ms, u, r)
  BY CallsAre, LeftYields
<1>6. DOMAIN tab = Tabs /\ DOMAIN doubt = Tabs /\ Document(tab[t]) BY DEF PagesInv, ProfilesKept, RestInv
<1> DEFINE T == tab[t]
           D == Mounted(T, page)
           kinds == Reads(page)
<1>7. D.page = page /\ D.user = user /\ D.shown["accounts"] = T.shown["accounts"]
  <2>1. T = [page |-> T.page, user |-> T.user, busy |-> T.busy, settled |-> T.settled, shown |-> T.shown]
    BY <1>6 DEF Document
  <2>2. D.page = page /\ D.user = T.user /\ D.shown = [r \in DOMAIN T.shown |-> IF r \in Kept THEN T.shown[r] ELSE Blank]
    BY <2>1 DEF Mounted
  <2>3. "accounts" \in DOMAIN T.shown /\ "accounts" \in Kept BY <1>6 DEF Document, Kept
  <2> HIDE DEF D, T
  <2> QED BY <2>2, <2>3 DEF T
<1>8. calls' = Issue(ms, t, user, kinds, Blank, jar, TRUE) /\ tab' = [tab EXCEPT ![t] = D] BY <1>1
<1>9. ShowsStored(T, "accounts") \/ Fetches(calls, t, "accounts") \/ "accounts" \in doubt[t]
  BY <1>2 DEF RestInv, ShownKept, Looks
<1>10. T = tab[t] /\ user = tab[t].user OBVIOUS
<1>11. Sequence(kinds) BY ReadsOnly
<1>12. PICK cookie : cookie = jar OBVIOUS
<1>13. \A r \in Visible[page] \ {"accounts"} :
          \E k \in Range(kinds) : \A l : Covers(NewCall(t, k, user, Blank, cookie, TRUE, l), r)
  BY <1>3, ReadsCover
<1> HIDE DEF ms, user, D, T, kinds
<1>14. tab'[t] = D /\ \A u \in Tabs \ {t} : tab'[u] = tab[u] BY <1>6, <1>8
<1>15. TabsKept' BY <1>2, <1>3, <1>7, <1>10, <1>14 DEF RestInv, TabsKept, Known
<1>16. calls' = Issue(ms, t, user, kinds, Blank, cookie, TRUE) /\ cookie = jar' BY <1>2, <1>8, <1>12
<1>17. ASSUME NEW r \in Looks(D) \ doubt[t]
       PROVE  \/ ShowsStored(D, r) \/ Fetches(ms, t, r)
              \/ \E k \in Range(kinds) : \A l : Covers(NewCall(t, k, user, Blank, cookie, TRUE, l), r)
  <2>1. CASE r = "accounts"
    <3>1. ShowsStored(T, r) \/ Fetches(calls, t, r) BY <1>9, <1>17, <2>1
    <3>2. ShowsStored(T, r) => ShowsStored(D, r) BY <1>7, <1>10, <2>1 DEF ShowsStored
    <3>3. Fetches(calls, t, r) => Fetches(ms, t, r) BY <1>5, <2>1 DEF Kept
    <3> QED BY <3>1, <3>2, <3>3
  <2>2. CASE r # "accounts" BY <1>7, <1>13, <1>17, <2>2 DEF Looks
  <2> QED BY <2>1, <2>2
<1>18. tab'[t].user # NoOne =>
            \A r \in Looks(tab'[t]) \ doubt'[t] :
               \/ ShowsStored(tab'[t], r) \/ Fetches(ms, t, r)
               \/ \E k \in Range(kinds) : \A l : Covers(NewCall(t, k, user, Blank, cookie, TRUE, l), r)
  BY <1>2, <1>14, <1>17
<1>19. DOMAIN doubt' = Tabs /\ (\A u \in Tabs \ {t} : tab'[u] = tab[u] /\ doubt[u] \subseteq doubt'[u])
  BY <1>2, <1>6, <1>14
<1>20. \A r : \A u \in Tabs \ {t} : Fetches(calls, u, r) => Fetches(ms, u, r) \/ r \in doubt'[u] BY <1>5
<1> QED BY <1>2, <1>4, <1>5, <1>11, <1>15, <1>16, <1>18, <1>19, <1>20, ActedRest

\* Whatever a customer does keeps the pages right.
LEMMA CustomerRest ==
  ASSUME PagesInv, RestInv, NEW t \in Tabs, Customer(t)
  PROVE  RestInv'
<1>1. CASE Load(t) BY <1>1, LoadRest
<1>2. CASE Visit(t) BY <1>2, VisitRest
<1>3. CASE \E kind, user, arg : Submit(t, kind, user, arg) BY <1>3, SubmitRest
<1>4. SignIn(t) \/ Logout(t) => \E kind, user, arg : Submit(t, kind, user, arg) BY DEF SignIn, Logout
<1>5. AddPayee(t) => \E kind, user, arg : Submit(t, kind, user, arg) BY DEF AddPayee
<1>6. EditPayee(t) => \E kind, user, arg : Submit(t, kind, user, arg) BY DEF EditPayee
<1>7. DeletePayee(t) => \E kind, user, arg : Submit(t, kind, user, arg) BY DEF DeletePayee
<1>8. Pay(t) \/ OpenAccount(t) => \E kind, user, arg : Submit(t, kind, user, arg) BY DEF Pay, OpenAccount
<1>9. SaveProfile(t) => \E kind, user, arg : Submit(t, kind, user, arg) BY DEF SaveProfile
<1> QED BY <1>1, <1>2, <1>3, <1>4, <1>5, <1>6, <1>7, <1>8, <1>9 DEF Customer

\* d is the call c on its way to an answer, with a cookie for a known customer if any.
Serves(d, c) ==
  /\ Whole(d) /\ d.tab = c.tab /\ d.kind = c.kind /\ d.user = c.user /\ d.arg = c.arg /\ d.token = c.token
  /\ d.here = c.here /\ d.lone = c.lone /\ (d.cookie # <<>> => Known(Whom(c)))

\* A call serves itself,
LEMMA ServesItself ==
  ASSUME NEW c, Whole(c), Fit(c)
  PROVE  Serves(c, c)
BY DEF Serves, Fit

\* answered,
LEMMA ServesAnswer ==
  ASSUME NEW c, NEW b, Serves(b, c), NEW ok, NEW value
  PROVE  LET d == Answer(b, ok, value)
         IN  Serves(d, c) /\ d.stage = "done" /\ d.ok = ok /\ d.value = value
<1> DEFINE d == Answer(b, ok, value)
<1>1. d = [b EXCEPT !.stage = "done", !.ok = ok, !.value = value] BY DEF Answer
<1>2. b = [tab |-> b.tab, kind |-> b.kind, user |-> b.user, arg |-> b.arg, token |-> b.token,
           stage |-> b.stage, ok |-> b.ok, value |-> b.value, cookie |-> b.cookie, here |-> b.here, lone |-> b.lone]
  BY DEF Serves, Whole
<1> HIDE DEF d
<1>3. d = [tab |-> b.tab, kind |-> b.kind, user |-> b.user, arg |-> b.arg, token |-> b.token,
           stage |-> "done", ok |-> ok, value |-> value, cookie |-> b.cookie, here |-> b.here, lone |-> b.lone]
  BY <1>1, <1>2
<1> QED BY <1>3 DEF Serves, Whole, d

\* with another cookie,
LEMMA ServesCookie ==
  ASSUME NEW c, NEW b, Serves(b, c), NEW v, v # <<>> => Known(Whom(c))
  PROVE  LET d == WithCookie(b, v)
         IN  Serves(d, c) /\ d.stage = b.stage /\ d.ok = b.ok /\ d.value = b.value
<1> DEFINE d == WithCookie(b, v)
<1>1. d = [b EXCEPT !.cookie = v] BY DEF WithCookie
<1>2. b = [tab |-> b.tab, kind |-> b.kind, user |-> b.user, arg |-> b.arg, token |-> b.token,
           stage |-> b.stage, ok |-> b.ok, value |-> b.value, cookie |-> b.cookie, here |-> b.here, lone |-> b.lone]
  BY DEF Serves, Whole
<1> HIDE DEF d
<1>3. d = [tab |-> b.tab, kind |-> b.kind, user |-> b.user, arg |-> b.arg, token |-> b.token,
           stage |-> b.stage, ok |-> b.ok, value |-> b.value, cookie |-> v, here |-> b.here, lone |-> b.lone]
  BY <1>1, <1>2
<1> QED BY <1>3 DEF Serves, Whole, d

\* rotated,
LEMMA ServesRotated ==
  ASSUME NEW c, Whole(c), Fit(c)
  PROVE  LET d == Rotated(c)
         IN  Serves(d, c) /\ d.stage = c.stage /\ d.ok = c.ok /\ d.value = c.value
<1> DEFINE v == <<Fresh(c.token.user)>>
<1>1. Serves(c, c) BY ServesItself
<1>2. CASE c.kind \in Guarded /\ c.token.exp - clock < Renewal
  <2>1. Rotated(c) = WithCookie(c, v) BY <1>2 DEF Rotated, WithCookie
  <2>2. Known(Whom(c)) BY <1>2 DEF Guarded, Writes, Whom, Fit
  <2> HIDE DEF v
  <2> QED BY <1>1, <2>1, <2>2, ServesCookie
<1>3. CASE ~ (c.kind \in Guarded /\ c.token.exp - clock < Renewal)
  <2>1. Rotated(c) = c BY <1>3 DEF Rotated
  <2> QED BY <1>1, <2>1
<1> QED BY <1>2, <1>3

\* checked,
LEMMA ServesCheck ==
  ASSUME NEW c, NEW b, Serves(b, c)
  PROVE  LET d == [b EXCEPT !.stage = "checked"]
         IN  Serves(d, c) /\ d.stage = "checked"
<1> DEFINE d == [b EXCEPT !.stage = "checked"]
<1>1. b = [tab |-> b.tab, kind |-> b.kind, user |-> b.user, arg |-> b.arg, token |-> b.token,
           stage |-> b.stage, ok |-> b.ok, value |-> b.value, cookie |-> b.cookie, here |-> b.here, lone |-> b.lone]
  BY DEF Serves, Whole
<1>2. d = [b EXCEPT !.stage = "checked"] OBVIOUS
<1> HIDE DEF d
<1>3. d = [tab |-> b.tab, kind |-> b.kind, user |-> b.user, arg |-> b.arg, token |-> b.token,
           stage |-> "checked", ok |-> b.ok, value |-> b.value, cookie |-> b.cookie, here |-> b.here, lone |-> b.lone]
  BY <1>1, <1>2
<1> QED BY <1>3 DEF Serves, Whole, d

\* or with what was found.
LEMMA ServesFound ==
  ASSUME NEW c, NEW b, Serves(b, c), NEW v
  PROVE  LET d == [b EXCEPT !.value = v]
         IN  Serves(d, c) /\ d.stage = b.stage /\ d.value = v
<1> DEFINE d == [b EXCEPT !.value = v]
<1>1. d = [tab |-> b.tab, kind |-> b.kind, user |-> b.user, arg |-> b.arg, token |-> b.token,
           stage |-> b.stage, ok |-> b.ok, value |-> v, cookie |-> b.cookie, here |-> b.here, lone |-> b.lone]
  BY DEF Serves, Whole
<1> HIDE DEF d
<1> QED BY <1>1 DEF Serves, Whole, d

\* A refusal, and the answer of a write or a sign-in, is not believed by any page.
LEMMA AnswerFit ==
  ASSUME NEW c, Fit(c), NEW d, Serves(d, c), d.stage = "done",
         d.ok => c.kind \notin {"auth"} \cup DOMAIN Resource
  PROVE  Fit(d)
BY DEF Fit, Serves, Finds, Faithful, Whom

\* A call not answered yet brings what its answer will.
LEMMA AnswerCovers ==
  ASSUME NEW c, NEW d, Serves(d, c), c.stage # "done", NEW r, Covers(c, r)
  PROVE  Covers(d, r)
BY DEF Covers, Serves

\* Any handler that answers without a table written keeps the pages right.
LEMMA HandledRest ==
  ASSUME PagesInv, RestInv, NEW i \in DOMAIN calls, NEW d, Served(i, d), Serves(d, calls[i]), Fit(d),
         calls[i].stage # "done", UNCHANGED <<jar, tab, rows, books, details, doubt>>
  PROVE  RestInv'
<1>1. d.tab = calls[i].tab BY DEF Serves
<1>2. \A r : Covers(calls[i], r) => Covers(d, r) BY AnswerCovers
<1>3. DOMAIN doubt' = Tabs /\ \A t \in Tabs : doubt[t] \subseteq doubt'[t] BY DEF RestInv
<1> QED BY <1>1, <1>2, <1>3, ServedRest

\* Refuse keeps the pages right.
LEMMA RefuseRest ==
  ASSUME PagesInv, RestInv, NEW i \in DOMAIN calls, Refuse(i)
  PROVE  RestInv'
<1>0. PICK c : c = calls[i] OBVIOUS
<1>1. PICK no : no = FALSE OBVIOUS
<1> DEFINE d == Answer(c, no, Blank)
           e == Answer(Rotated(c), no, Blank)
<1>2. Whole(c) /\ Fit(c) BY <1>0, CallsAre DEF Calls, RestInv, FitKept
<1>3. Serves(c, c) /\ Serves(Rotated(c), c) BY <1>2, ServesItself, ServesRotated
<1>4. Serves(d, c) /\ d.stage = "done" /\ d.ok = no BY <1>3, ServesAnswer
<1>5. Serves(e, c) /\ e.stage = "done" /\ e.ok = no BY <1>3, ServesAnswer
<1>6. UNCHANGED <<jar, tab, rows, books, details, doubt>> BY DEF Refuse, Serve, server
<1>7. c.stage # "done" /\ (Served(i, d) \/ Served(i, e)) BY <1>0, <1>1 DEF Refuse
<1> HIDE DEF d, e
<1>8. Fit(d) /\ Fit(e) BY <1>1, <1>2, <1>4, <1>5, AnswerFit
<1> QED BY <1>0, <1>4, <1>5, <1>6, <1>7, <1>8, HandledRest

\* Read answers what is stored.
LEMMA ReadRest ==
  ASSUME PagesInv, RestInv, NEW i \in DOMAIN calls, Read(i)
  PROVE  RestInv'
<1>0. PICK c : c = calls[i] OBVIOUS
<1>1. PICK yes : yes = TRUE OBVIOUS
<1> DEFINE v == Value(c)
           d == Answer(Rotated(c), yes, v)
<1>2. Whole(c) /\ Fit(c) /\ Sound(c) BY <1>0, CallsAre DEF Calls, RestInv, FitKept, PagesInv, CallsKept
<1>3. Serves(Rotated(c), c) BY <1>2, ServesRotated
<1>4. Serves(d, c) /\ d.stage = "done" /\ d.ok = yes /\ d.value = v BY <1>3, ServesAnswer
<1>5. UNCHANGED <<jar, tab, rows, books, details, doubt>> BY DEF Read, Serve, server
<1>6. c.stage # "done" /\ Served(i, d) /\ c.token.user # NoOne /\ c.kind \in {"auth", "primary"} \cup DOMAIN Resource
  BY <1>0, <1>1 DEF Read, Session
<1>7. c.token.user \in Customers /\ (c.kind # "auth" => c.user \in Customers) BY <1>2, <1>6 DEF Sound, Users
<1>8. c.kind = "auth" => v = c.token.user BY DEF Value
<1>9. c.kind \in DOMAIN Resource => v = Stored(Resource[c.kind], Subject(c)) /\ Subject(c) \in Customers
  <2>1. c.kind \in DOMAIN Resource => c.kind \notin {"auth", "primary"} BY DEF Resource
  <2>2. CASE c.kind = "profile"
    <3>1. v = details[c.token.user] /\ Subject(c) = c.token.user BY <2>2 DEF Value, Subject
    <3>2. Stored("form", c.token.user) = details[c.token.user] BY DEF Stored
    <3>3. Resource[c.kind] = "form" BY <2>2 DEF Resource
    <3> QED BY <1>7, <3>1, <3>2, <3>3
  <2>3. CASE c.kind \in DOMAIN Resource /\ c.kind # "profile"
    <3>1. v = Stored(Resource[c.kind], c.user) /\ Subject(c) = c.user BY <2>1, <2>3 DEF Value, Subject
    <3> QED BY <1>7, <2>1, <2>3, <3>1
  <2> QED BY <2>2, <2>3
<1> HIDE DEF v, d
<1>10. Fit(d)
  <2>1. d.kind = c.kind /\ d.token = c.token /\ d.user = c.user /\ (d.cookie # <<>> => Known(Whom(d)))
    BY <1>4 DEF Serves, Whom
  <2>2. Known(d.token.user) BY <1>2, <2>1 DEF Fit
  <2>3. d.kind = "auth" => Known(d.value) BY <1>4, <1>8, <2>1, <2>2
  <2>4. Subject(d) = Subject(c) BY <2>1 DEF Subject
  <2>5. Faithful(d) BY <1>4, <1>9, <2>1, <2>4 DEF Faithful
  <2>6. ~ Finds(d) BY <1>4 DEF Finds
  <2> QED BY <2>1, <2>2, <2>3, <2>5, <2>6 DEF Fit
<1> QED BY <1>0, <1>4, <1>5, <1>6, <1>10, HandledRest

\* ServeLogout keeps the pages right.
LEMMA ServeLogoutRest ==
  ASSUME PagesInv, RestInv, NEW i \in DOMAIN calls, ServeLogout(i)
  PROVE  RestInv'
<1>0. PICK c : c = calls[i] OBVIOUS
<1>1. PICK yes : yes = TRUE OBVIOUS
<1>2. PICK v : v = <<NoToken>> OBVIOUS
<1> DEFINE b == Answer(c, yes, Blank)
           d == WithCookie(b, v)
<1>3. Whole(c) /\ Fit(c) BY <1>0, CallsAre DEF Calls, RestInv, FitKept
<1>4. c.kind = "logout" /\ c.stage # "done" /\ Served(i, d)
  BY <1>0, <1>1, <1>2 DEF ServeLogout, WithCookie
<1>5. Known(Whom(c)) BY <1>4 DEF Known, Whom
<1>6. Serves(b, c) /\ b.stage = "done" /\ b.ok = yes BY <1>3, ServesItself, ServesAnswer
<1> HIDE DEF b
<1>7. Serves(d, c) /\ d.stage = "done" BY <1>5, <1>6, ServesCookie
<1> HIDE DEF d
<1>8. Fit(d)
  <2>1. c.kind \notin {"auth"} \cup DOMAIN Resource BY <1>4 DEF Resource
  <2> QED BY <1>3, <1>7, <2>1, AnswerFit
<1>9. UNCHANGED <<jar, tab, rows, books, details, doubt>> BY DEF ServeLogout, Serve, server
<1> QED BY <1>0, <1>4, <1>7, <1>8, <1>9, HandledRest

\* The look-up before a payee is written: the row that is found is the customer's.
LEMMA CheckRest ==
  ASSUME PagesInv, RestInv, NEW i \in DOMAIN calls, Check(i)
  PROVE  RestInv'
<1>0. PICK c : c = calls[i] OBVIOUS
<1> DEFINE b == Rotated(c)
           d == [b EXCEPT !.stage = "checked"]
<1>1. Whole(c) /\ Fit(c) BY <1>0, CallsAre DEF Calls, RestInv, FitKept
<1>2. c.kind \in {"add", "edit", "remove"} /\ c.stage # "done" BY <1>0 DEF Check
<1>3. UNCHANGED <<jar, tab, rows, books, details, doubt>> BY DEF Check, Serve
<1>4. Serves(b, c) BY <1>1, ServesRotated
<1>5. \/ c.kind = "add" /\ Served(i, d)
      \/ \E r \in Twins(c) : Served(i, [d EXCEPT !.value = r.id])
  BY <1>0 DEF Check
<1> HIDE DEF b
<1>6. Serves(d, c) /\ d.stage = "checked" BY <1>4, ServesCheck
<1> HIDE DEF d
<1>7. CASE c.kind = "add" /\ Served(i, d)
  <2>1. Fit(d) BY <1>1, <1>6, <1>7 DEF Fit, Serves, Finds, Faithful, Whom
  <2> QED BY <1>0, <1>2, <1>3, <1>6, <1>7, <2>1, HandledRest
<1>8. CASE \E r \in Twins(c) : Served(i, [d EXCEPT !.value = r.id])
  <2>1. PICK r \in Twins(c) : Served(i, [d EXCEPT !.value = r.id]) BY <1>8
  <2>2. PICK v : v = r.id OBVIOUS
  <2> DEFINE e == [d EXCEPT !.value = v]
  <2>3. Served(i, e) BY <2>1, <2>2
  <2>4. Serves(e, c) /\ e.stage = "checked" /\ e.value = v BY <1>6, ServesFound
  <2> HIDE DEF e
  <2>5. \A s \in rows : s.id = v => s.payer = c.user BY <2>1, <2>2 DEF Twins, PayeesOf, RestInv, IdsKept
  <2>6. Fit(e) BY <1>1, <2>4, <2>5 DEF Fit, Serves, Finds, Faithful, Whom
  <2> QED BY <1>0, <1>2, <1>3, <2>3, <2>4, <2>6, HandledRest
<1> QED BY <1>5, <1>7, <1>8

\* RowIsGone keeps the pages right.
LEMMA RowIsGoneRest ==
  ASSUME PagesInv, RestInv, NEW i \in DOMAIN calls, RowIsGone(i)
  PROVE  RestInv'
<1>0. PICK c : c = calls[i] OBVIOUS
<1>1. PICK no : no = FALSE OBVIOUS
<1> DEFINE d == Answer(c, no, Blank)
<1>2. Whole(c) /\ Fit(c) BY <1>0, CallsAre DEF Calls, RestInv, FitKept
<1>3. Serves(d, c) /\ d.stage = "done" /\ d.ok = no BY <1>2, ServesItself, ServesAnswer
<1>4. c.stage # "done" /\ Served(i, d) BY <1>0, <1>1 DEF RowIsGone
<1>5. UNCHANGED <<jar, tab, rows, books, details, doubt>> BY DEF RowIsGone, Serve, server
<1> HIDE DEF d
<1>6. Fit(d) BY <1>1, <1>2, <1>3, AnswerFit
<1> QED BY <1>0, <1>3, <1>4, <1>5, <1>6, HandledRest

\* DatabaseFails keeps the pages right.
LEMMA DatabaseFailsRest ==
  ASSUME PagesInv, RestInv, NEW i \in DOMAIN calls, DatabaseFails(i)
  PROVE  RestInv'
<1>0. PICK c : c = calls[i] OBVIOUS
<1>1. PICK no : no = FALSE OBVIOUS
<1>2. PICK v : v = <<Fresh(c.user)>> OBVIOUS
<1> DEFINE d == Answer(Rotated(c), no, Blank)
           e == Answer(c, no, Blank)
           s == WithCookie(e, v)
<1>3. Whole(c) /\ Fit(c) /\ Sound(c) BY <1>0, CallsAre DEF Calls, RestInv, FitKept, PagesInv, CallsKept
<1>4. Serves(c, c) /\ Serves(Rotated(c), c) BY <1>3, ServesItself, ServesRotated
<1>5. Serves(d, c) /\ d.stage = "done" /\ d.ok = no BY <1>4, ServesAnswer
<1>6. Serves(e, c) /\ e.stage = "done" /\ e.ok = no BY <1>4, ServesAnswer
<1>7. UNCHANGED <<jar, tab, rows, books, details, doubt>> BY DEF DatabaseFails, Upset, server
<1>8. /\ c.stage # "done"
      /\ Served(i, d) \/ Served(i, e) \/ (c.kind = "login" /\ details[c.user] # Blank /\ Served(i, s))
  BY <1>0, <1>1, <1>2 DEF DatabaseFails, WithCookie
<1> HIDE DEF d, e
<1>9. Fit(d) /\ Fit(e) BY <1>1, <1>3, <1>5, <1>6, AnswerFit
<1>10. CASE c.kind = "login" /\ details[c.user] # Blank /\ Served(i, s)
  <2>1. Known(Whom(c)) BY <1>3, <1>10 DEF Known, Whom, Sound
  <2>2. Serves(s, c) /\ s.stage = "done" /\ s.ok = no BY <1>6, <2>1, ServesCookie
  <2> HIDE DEF s
  <2>3. Fit(s) BY <1>1, <1>3, <2>2, AnswerFit
  <2> QED BY <1>0, <1>7, <1>8, <1>10, <2>2, <2>3, HandledRest
<1>11. CASE Served(i, d) \/ Served(i, e) BY <1>0, <1>5, <1>6, <1>7, <1>8, <1>9, <1>11, HandledRest
<1> QED BY <1>8, <1>10, <1>11

\* Lose: what would have been read again is in doubt.
LEMMA LoseRest ==
  ASSUME PagesInv, RestInv, NEW i \in DOMAIN calls, Lose(i)
  PROVE  RestInv'
<1>0. PICK c : c = calls[i] OBVIOUS
<1>1. PICK no : no = FALSE OBVIOUS
<1>2. PICK v : v = <<>> OBVIOUS
<1> DEFINE e == Answer(c, no, Blank)
           d == WithCookie(e, v)
<1>3. Whole(c) /\ Fit(c) BY <1>0, CallsAre DEF Calls, RestInv, FitKept
<1>4. Serves(e, c) /\ e.stage = "done" /\ e.ok = no BY <1>3, ServesItself, ServesAnswer
<1>5. UNCHANGED <<jar, tab, rows, books, details>> BY DEF Lose, Upset, server
<1>6. Served(i, d) BY <1>0, <1>1, <1>2 DEF Lose, WithCookie
<1>7. doubt' = IF c.ok /\ c.kind \in {"add", "save", "open", "pay"}
               THEN [doubt EXCEPT ![c.tab] = @ \cup Touches(c.kind)] ELSE doubt
  BY <1>0 DEF Lose
<1> HIDE DEF e
<1>8. Serves(d, c) /\ d.stage = "done" /\ d.ok = no BY <1>2, <1>4, ServesCookie
<1> HIDE DEF d
<1>9. Fit(d) BY <1>1, <1>3, <1>8, AnswerFit
<1>10. DOMAIN doubt' = Tabs /\ \A t \in Tabs : doubt[t] \subseteq doubt'[t] BY <1>7 DEF RestInv
<1>11. ASSUME NEW r, Covers(c, r), c.tab \in Tabs, ~ Covers(d, r) PROVE r \in doubt'[c.tab]
  <2>1. /\ c.kind \in Writes /\ (r \in Kept \/ c.here)
        /\ \E k \in Range(Refetch(c.kind, c.ok)) : k \in DOMAIN Resource /\ Resource[k] = r
        /\ ~ \E k \in Range(Refetch(c.kind, no)) : k \in DOMAIN Resource /\ Resource[k] = r
    BY <1>8, <1>11 DEF Covers, Serves
  <2>2. c.kind \notin {"edit", "remove"} BY <2>1 DEF Refetch
  <2>3. c.kind \in {"add", "save", "open", "pay"} BY <2>1, <2>2 DEF Writes
  <2>4. c.ok BY <2>1, <2>3 DEF Refetch, Range
  <2>5. r \in Touches(c.kind)
    <3>1. PICK k \in Range(Refetch(c.kind, c.ok)) : k \in DOMAIN Resource /\ Resource[k] = r BY <2>1
    <3>2. CASE c.kind = "add"
      <4>1. Range(Refetch(c.kind, c.ok)) = {"payees"} BY <2>4, <3>2 DEF Refetch, Range
      <4> QED BY <3>1, <3>2, <4>1 DEF Resource, Touches
    <3>3. CASE c.kind = "save"
      <4>1. Range(Refetch(c.kind, c.ok)) = {"profile"} BY <2>4, <3>3 DEF Refetch, Range
      <4> QED BY <3>1, <3>3, <4>1 DEF Resource, Touches
    <3>4. CASE c.kind \in {"open", "pay"}
      <4>1. Range(Refetch(c.kind, c.ok)) = {"accounts"} BY <2>4, <3>4 DEF Refetch, Range
      <4> QED BY <3>1, <3>4, <4>1 DEF Resource, Touches
    <3> QED BY <2>3, <3>2, <3>3, <3>4
  <2>6. doubt'[c.tab] = doubt[c.tab] \cup Touches(c.kind) BY <1>7, <1>11, <2>3, <2>4 DEF RestInv
  <2> QED BY <2>5, <2>6
<1>12. d.tab = c.tab BY <1>8 DEF Serves
<1> QED BY <1>0, <1>5, <1>6, <1>9, <1>10, <1>11, <1>12, ServedRest

Resources == {"payees", "accounts", "history", "form"}
\* What a page shows is of the four resources.
LEMMA LooksAt ==
  ASSUME NEW T, T.page \in DOMAIN Visible
  PROVE  Looks(T) \subseteq Resources
BY DEF Looks, Visible, Resources

\* What is read again when a write succeeds is read for the tab that wrote.
LEMMA RereadCovers ==
  ASSUME NEW c, c.kind \in Writes, c.tab # Gone, NEW d, Serves(d, c), d.stage = "done", d.ok,
         NEW r \in Rereads(c)
  PROVE  r \in Touches(c.kind) /\ Covers(d, r)
<1>1. /\ r \in Touches(c.kind) /\ (c.kind = "pay" => r # "history")
      /\ r \in Kept \/ c.here
  BY DEF Rereads
<1>2. \E k \in Range(Refetch(c.kind, d.ok)) : k \in DOMAIN Resource /\ Resource[k] = r
  <2>1. CASE c.kind \in {"add", "edit", "remove"}
    <3>1. Range(Refetch(c.kind, d.ok)) = {"payees"} BY <2>1 DEF Refetch, Range
    <3>2. r = "payees" BY <1>1, <2>1 DEF Touches
    <3>3. "payees" \in DOMAIN Resource /\ Resource["payees"] = "payees" BY DEF Resource
    <3> QED BY <3>1, <3>2, <3>3
  <2>2. CASE c.kind = "save"
    <3>1. Range(Refetch(c.kind, d.ok)) = {"profile"} BY <2>2 DEF Refetch, Range
    <3>2. r = "form" BY <1>1, <2>2 DEF Touches
    <3>3. "profile" \in DOMAIN Resource /\ Resource["profile"] = "form" BY DEF Resource
    <3> QED BY <3>1, <3>2, <3>3
  <2>3. CASE c.kind \in {"open", "pay"}
    <3>1. Range(Refetch(c.kind, d.ok)) = {"accounts"} BY <2>3 DEF Refetch, Range
    <3>2. r = "accounts" BY <1>1, <2>3 DEF Touches
    <3>3. "accounts" \in DOMAIN Resource /\ Resource["accounts"] = "accounts" BY DEF Resource
    <3> QED BY <3>1, <3>2, <3>3
  <2> QED BY <2>1, <2>2, <2>3 DEF Writes
<1> QED BY <1>1, <1>2 DEF Covers, Serves

\* A write commits: the answers and pages it outdates are not believed, or read again.
LEMMA CommitRest ==
  ASSUME PagesInv, RestInv, NEW i \in DOMAIN calls, NEW c, c = calls[i], NEW d, Commit(i, d), Serves(d, c),
         d.stage = "done", d.ok, c.kind \in Writes, c.stage # "done", UNCHANGED <<jar, tab>>, IdsKept', BooksKept',
         \A u : Known(u) => Known(u)',
         \A u \in Customers : \A r \in Resources :
            (u # c.user \/ r \notin Touches(c.kind)) => Stored(r, u)' = Stored(r, u),
         \A j \in DOMAIN calls : Finds(calls[j]) => \A r \in rows' : r.id = calls[j].value => r.payer = calls[j].user
  PROVE  RestInv'
<1>1. Calls(calls) /\ Gone \notin Tabs /\ d.tab = c.tab
  BY CallsAre, OnlineBankingAssumption DEF Serves
<1>2. /\ \A j \in DOMAIN calls' :
           \/ calls'[j] = d
           \/ \E m \in DOMAIN calls : Weaker(calls'[j], calls[m]) /\ (calls'[j].lone => ~ Outdated(calls[m], c))
      /\ \A t, r : Fetches(calls, t, r) => Fetches(calls', t, r) \/ (c.tab = t /\ Covers(c, r))
      /\ \A r : d.tab # Gone /\ Covers(d, r) => Fetches(calls', d.tab, r)
  BY <1>1, CommitYields
<1>3. c.kind \notin {"auth"} \cup DOMAIN Resource BY DEF Writes, Resource
<1>4. \A r : ~ Covers(c, r) BY <1>3 DEF Covers, Writes
<1>5. Fit(c) BY DEF RestInv, FitKept
<1>6. Fit(d)'
  <2>1. Known(d.token.user) /\ (d.cookie # <<>> => Known(Whom(d))) BY <1>5 DEF Fit, Serves, Whom
  <2>2. Known(d.token.user)' /\ (d.cookie # <<>> => Known(Whom(d))') BY <2>1
  <2>3. d.kind = c.kind /\ d.stage = "done" BY DEF Serves
  <2> QED BY <1>3, <2>2, <2>3 DEF Fit, Finds, Faithful, Whom
<1>7. ASSUME NEW x, NEW m \in DOMAIN calls, Weaker(x, calls[m]), x.lone => ~ Outdated(calls[m], c)
      PROVE  Fit(x)'
  <2>1. Fit(calls[m]) /\ Sound(calls[m]) BY DEF RestInv, FitKept, PagesInv, CallsKept
  <2>2. Fit(x) BY <1>7, <2>1, FitWeaker
  <2>3. Finds(x) => \A r \in rows' : r.id = x.value => r.payer = x.user BY <1>7 DEF Weaker, Alike, Finds
  <2>4. x.stage = calls[m].stage /\ Subject(x) = Subject(calls[m]) /\ x.kind = calls[m].kind
    BY <1>7 DEF Weaker, Alike, Subject
  <2>5. ASSUME x.stage = "done", x.ok, x.lone, x.kind \in DOMAIN Resource
        PROVE  Subject(x) \in Customers /\ x.value = Stored(Resource[x.kind], Subject(x))'
    <3>1. Subject(x) \in Customers /\ x.value = Stored(Resource[x.kind], Subject(x)) BY <2>2, <2>5 DEF Fit, Faithful
    <3>2. Resource[x.kind] \in Resources /\ ResourceOf(x.kind) = Resource[x.kind]
      BY <2>5 DEF Resource, Resources, ResourceOf
    <3>3. Subject(x) # c.user \/ Resource[x.kind] \notin Touches(c.kind) BY <1>7, <2>4, <2>5, <3>2 DEF Outdated
    <3> QED BY <3>1, <3>2, <3>3
  <2>6. Faithful(x)' BY <2>5 DEF Faithful, Subject
  <2>7. Known(x.token.user)' /\ (x.cookie # <<>> => Known(Whom(x))') /\ (x.kind = "auth" /\ x.stage = "done" /\ x.ok => Known(x.value)')
    BY <2>2 DEF Fit
  <2> QED BY <2>3, <2>6, <2>7 DEF Fit, Finds, Whom
<1>8. FitKept'
  <2>1. ASSUME NEW j \in DOMAIN calls' PROVE Fit(calls[j])'
    <3>1. PICK x : x = calls'[j] OBVIOUS
    <3>2. Fit(x)' BY <1>2, <1>6, <1>7, <3>1
    <3> QED BY <3>1, <3>2 DEF Fit, Finds, Faithful, Subject, Known, Stored, PayeesOf, Whom
  <2> QED BY <2>1 DEF FitKept
<1>9. TabsKept' BY DEF RestInv, TabsKept, Known
<1>10. /\ DOMAIN doubt' = Tabs
       /\ \A t \in Tabs : doubt'[t] = doubt[t] \cup
             IF tab[t].user # c.user THEN {} ELSE Touches(c.kind) \ IF c.tab = t THEN Rereads(c) ELSE {}
  BY DEF Commit
<1>11. ASSUME NEW t \in Tabs, NEW T, T = tab[t], T.user # NoOne, NEW r \in Looks(T) \ doubt'[t]
       PROVE  T.shown[r] = Stored(r, T.user)' \/ Fetches(calls', t, r)
  <2>1. T.user \in Customers /\ r \in Resources
    <3>1. T.user \in Users BY <1>11 DEF PagesInv, ProfilesKept, Document
    <3>2. T.page \in DOMAIN Visible BY <1>11 DEF RestInv, TabsKept
    <3> QED BY <1>11, <3>1, <3>2, LooksAt DEF Users
  <2>2. CASE T.user # c.user \/ r \notin Touches(c.kind)
    <3>1. Stored(r, T.user)' = Stored(r, T.user) BY <2>1, <2>2
    <3>2. ShowsStored(T, r) \/ Fetches(calls, t, r) BY <1>10, <1>11 DEF RestInv, ShownKept
    <3> QED BY <1>2, <1>4, <3>1, <3>2 DEF ShowsStored
  <2>3. CASE T.user = c.user /\ r \in Touches(c.kind)
    <3>1. c.tab = t /\ r \in Rereads(c) BY <1>10, <1>11, <2>3
    <3>2. Covers(d, r) BY <1>1, <3>1, RereadCovers
    <3> QED BY <1>1, <1>2, <3>1, <3>2
  <2> QED BY <2>2, <2>3
<1>12. ShownKept'
  <2>1. ASSUME NEW t \in Tabs, tab'[t].user # NoOne, NEW r \in (Looks(tab[t]) \ doubt[t])'
        PROVE  (ShowsStored(tab[t], r) \/ Fetches(calls, t, r))'
    <3>1. PICK T : T = tab[t] OBVIOUS
    <3>2. T = tab'[t] /\ T.user # NoOne /\ r \in Looks(T) \ doubt'[t] BY <2>1, <3>1 DEF Looks
    <3>3. T.shown[r] = Stored(r, T.user)' \/ Fetches(calls', t, r) BY <1>11, <3>1, <3>2
    <3>4. T.shown[r] = Stored(r, T.user)' => ShowsStored(tab[t], r)' BY <3>2 DEF ShowsStored, Stored, PayeesOf
    <3> QED BY <3>3, <3>4 DEF Fetches
  <2> QED BY <2>1 DEF ShownKept
<1> QED BY <1>8, <1>9, <1>10, <1>12 DEF RestInv

\* There is an id that no row has and that no call has found.
LEMMA UnusedIsFree ==
  ASSUME PagesInv, RestInv
  PROVE  (\A r \in rows : r.id # Unused) /\ \A j \in DOMAIN calls : Finds(calls[j]) => calls[j].value # Unused
<1>1. Len(calls) \in Nat /\ DOMAIN calls = 1 .. Len(calls) BY SequenceFacts DEF PagesInv, CallsKept
<1>2. IsFiniteSet(rows) /\ Cardinality(rows) \in Nat BY FS_CardinalityType DEF RestInv, IdsKept
<1> DEFINE m == Cardinality(rows)
           n == Len(calls)
           A == {r.id : r \in rows}
           B == {calls[j].value : j \in DOMAIN calls}
           N == 1 .. (m + n + 1)
           used == A \cup B
<1>3. IsFiniteSet(A) /\ Cardinality(A) <= m
  <2> DEFINE f == [r \in rows |-> r.id]
  <2>1. f \in Surjection(rows, A) BY DEF Surjection
  <2> HIDE DEF A, f
  <2> QED BY <1>2, <2>1, FS_Surjection
<1>4. IsFiniteSet(B) /\ Cardinality(B) <= n
  <2> DEFINE f == [j \in DOMAIN calls |-> calls[j].value]
  <2>1. f \in Surjection(DOMAIN calls, B) BY DEF Surjection
  <2>4. n \in Nat BY <1>1
  <2> HIDE DEF B, f, n
  <2>2. IsFiniteSet(1 .. n) /\ Cardinality(1 .. n) = n BY <2>4, FS_Interval
  <2>3. IsFiniteSet(DOMAIN calls) /\ Cardinality(DOMAIN calls) = n BY <1>1, <2>2 DEF n
  <2> QED BY <2>1, <2>3, FS_Surjection
<1>5. Cardinality(N) = m + n + 1 /\ IsFiniteSet(N)
  <2> HIDE DEF m, n
  <2>1. m \in Nat /\ n \in Nat BY <1>1, <1>2 DEF m, n
  <2>2. IsFiniteSet(1 .. (m + n + 1)) /\ Cardinality(1 .. (m + n + 1)) = m + n + 1
    <3>1. m + n + 1 \in Int /\ ~ (1 > m + n + 1) /\ 1 \in Int BY <2>1
    <3>2. PICK z \in Int : z = m + n + 1 BY <3>1
    <3>3. IsFiniteSet(1 .. z) /\ Cardinality(1 .. z) = z BY <2>1, <3>1, <3>2, FS_Interval
    <3> QED BY <3>2, <3>3
  <2> QED BY <2>2
<1> HIDE DEF A, B, N
<1>6. Cardinality(A) \in Nat /\ Cardinality(B) \in Nat BY <1>3, <1>4, FS_CardinalityType
<1>7. IsFiniteSet(used) /\ Cardinality(used) <= m + n
  <2>1. /\ IsFiniteSet(used) /\ IsFiniteSet(A \cap B)
        /\ Cardinality(used) = Cardinality(A) + Cardinality(B) - Cardinality(A \cap B)
    BY <1>3, <1>4, FS_Union, FS_Intersection
  <2>2. Cardinality(A \cap B) \in Nat BY <2>1, FS_CardinalityType
  <2> QED BY <1>1, <1>2, <1>3, <1>4, <1>6, <2>1, <2>2
<1> HIDE DEF used
<1>8. ~ (N \subseteq used)
  <2>1. SUFFICES ASSUME N \subseteq used PROVE FALSE OBVIOUS
  <2>2. Cardinality(N) <= Cardinality(used) /\ Cardinality(used) \in Nat BY <1>7, <2>1, FS_Subset, FS_CardinalityType
  <2> QED BY <1>1, <1>2, <1>5, <1>7, <2>2
<1>9. PICK k \in N : k \notin used BY <1>8
<1>10. (\A r \in rows : r.id # k) /\ \A e \in Range(calls) : e.stage = "checked" => e.value # k
  BY <1>9 DEF used, A, B, Range
<1>11. (\A r \in rows : r.id # Unused) /\ \A e \in Range(calls) : e.stage = "checked" => e.value # Unused
  BY <1>10 DEF Unused, N
<1> QED BY <1>11 DEF Finds, Range

\* A payee is written: the rows of the other customers stay, and an id its customer.
LEMMA WritePayeeRest ==
  ASSUME PagesInv, RestInv, NEW i \in DOMAIN calls, WritePayee(i)
  PROVE  RestInv'
<1>0. PICK c : c = calls[i] OBVIOUS
<1>1. PICK yes : yes = TRUE OBVIOUS
<1>2. PICK k : k = Unused OBVIOUS
<1> DEFINE d == Answer(c, yes, Blank)
           row == [payer |-> c.user, payee |-> c.arg.payee, name |-> c.arg.name, id |-> k]
           edited(r) == [r EXCEPT !.name = c.arg.name]
<1>3. Whole(c) /\ Fit(c) /\ c.kind \in {"add", "edit", "remove"} /\ c.stage = "checked"
  BY <1>0, CallsAre DEF Calls, RestInv, FitKept, WritePayee
<1>4. Commit(i, d) /\ UNCHANGED <<jar, tab, books, details>> BY <1>0, <1>1 DEF WritePayee, Serve
<1>5. Serves(d, c) /\ d.stage = "done" /\ d.ok = yes BY <1>3, ServesItself, ServesAnswer
<1>6. \/ c.kind = "add" /\ rows' = rows \cup {row}
      \/ c.kind = "edit" /\ rows' = {IF r.id = c.value THEN edited(r) ELSE r : r \in rows}
      \/ c.kind = "remove" /\ rows' = {r \in rows : r.id # c.value}
  BY <1>0, <1>2 DEF WritePayee
<1>7. row.payer = c.user /\ row.id = k OBVIOUS
<1>8. \A r \in rows : edited(r).payer = r.payer /\ edited(r).id = r.id BY DEF PagesInv, RowsKept
<1>9. c.kind \in {"edit", "remove"} => \A r \in rows : r.id = c.value => r.payer = c.user BY <1>3 DEF Fit, Finds
<1>10. (\A r \in rows : r.id # k) /\ \A j \in DOMAIN calls : Finds(calls[j]) => calls[j].value # k
  BY <1>2, UnusedIsFree
<1> HIDE DEF d, row, edited
<1>11. \A s \in rows' : \/ c.kind = "add" /\ s = row
                        \/ s \in rows
                        \/ \E r \in rows : r.id = c.value /\ c.kind = "edit" /\ s = edited(r)
  BY <1>6
<1>12. \A s \in rows' : (c.kind = "add" /\ s = row) \/ \E r \in rows : s.id = r.id /\ s.payer = r.payer
  BY <1>8, <1>11
<1>13. IsFiniteSet(rows')
  <2>1. IsFiniteSet(rows) BY DEF RestInv, IdsKept
  <2>2. CASE c.kind = "add" /\ rows' = rows \cup {row} BY <2>1, <2>2, FS_AddElement
  <2>3. CASE rows' = {IF r.id = c.value THEN edited(r) ELSE r : r \in rows}
    <3> DEFINE f == [r \in rows |-> IF r.id = c.value THEN edited(r) ELSE r]
    <3>1. f \in Surjection(rows, rows') BY <2>3 DEF Surjection
    <3> HIDE DEF f
    <3> QED BY <2>1, <3>1, FS_Surjection
  <2>4. CASE rows' = {r \in rows : r.id # c.value}
    <3>1. rows' \subseteq rows BY <2>4
    <3> QED BY <2>1, <3>1, FS_Subset
  <2> QED BY <1>6, <2>2, <2>3, <2>4
<1>14. IdsKept' BY <1>7, <1>10, <1>12, <1>13 DEF RestInv, IdsKept
<1>15. BooksKept' BY <1>4 DEF RestInv, BooksKept
<1>16. ASSUME NEW u, u # c.user PROVE PayeesOf(u)' = PayeesOf(u)
  <2>1. \A s \in rows' : s.payer = u => s \in rows BY <1>7, <1>8, <1>9, <1>11, <1>16
  <2>2. \A r \in rows : r.payer = u => r \in rows'
    <3>1. CASE c.kind = "add" /\ rows' = rows \cup {row} BY <3>1
    <3>2. CASE c.kind = "edit" /\ rows' = {IF r.id = c.value THEN edited(r) ELSE r : r \in rows}
      <4>1. ASSUME NEW r \in rows, r.payer = u PROVE r \in rows'
        <5>1. r.id # c.value BY <1>9, <1>16, <3>2, <4>1
        <5>2. r = IF r.id = c.value THEN edited(r) ELSE r BY <5>1
        <5> QED BY <3>2, <5>2
      <4> QED BY <4>1
    <3>3. CASE c.kind = "remove" /\ rows' = {r \in rows : r.id # c.value} BY <1>9, <1>16, <3>3
    <3> QED BY <1>6, <3>1, <3>2, <3>3
  <2> QED BY <2>1, <2>2 DEF PayeesOf
<1>17. \A u \in Customers : \A r \in Resources :
            (u # c.user \/ r \notin Touches(c.kind)) => Stored(r, u)' = Stored(r, u)
  <2>1. Touches(c.kind) = {"payees"} BY <1>3 DEF Touches
  <2>2. \A u \in Customers : \A r \in Resources : r # "payees" => Stored(r, u)' = Stored(r, u)
    BY <1>4 DEF Stored, Resources
  <2>3. \A u \in Customers : u # c.user => Stored("payees", u)' = Stored("payees", u) BY <1>16 DEF Stored
  <2> QED BY <2>1, <2>2, <2>3
<1>18. ASSUME NEW j \in DOMAIN calls, Finds(calls[j]), NEW s \in rows', s.id = calls[j].value
       PROVE  s.payer = calls[j].user
  <2>1. ~ (c.kind = "add" /\ s = row) BY <1>7, <1>10, <1>18
  <2>2. PICK r \in rows : s.id = r.id /\ s.payer = r.payer BY <1>12, <2>1
  <2>3. Fit(calls[j]) BY DEF RestInv, FitKept
  <2> QED BY <1>18, <2>2, <2>3 DEF Fit
<1>19. \A u : Known(u) => Known(u)' BY <1>4 DEF Known
<1>20. c.kind \in Writes /\ c.stage # "done" /\ d.ok BY <1>1, <1>3, <1>5 DEF Writes
<1>21. UNCHANGED <<jar, tab>> BY <1>4
<1> QED BY <1>0, <1>4, <1>5, <1>14, <1>15, <1>17, <1>18, <1>19, <1>20, <1>21, CommitRest

\* A profile or the books are written: only what the write touches, of its customer.
LEMMA WriteRest ==
  ASSUME PagesInv, RestInv, NEW i \in DOMAIN calls, Write(i)
  PROVE  RestInv'
<1>0. PICK c : c = calls[i] OBVIOUS
<1>1. PICK yes : yes = TRUE OBVIOUS
<1> DEFINE d == Answer(Rotated(c), yes, Blank)
<1>2. /\ Whole(c) /\ Fit(c) /\ Sound(c) /\ c.kind \in {"save", "open", "pay"} /\ c.stage = "sent"
  BY <1>0, CallsAre DEF Calls, RestInv, FitKept, Write, PagesInv, CallsKept
<1>3. Commit(i, d) /\ UNCHANGED <<jar, tab, rows>> BY <1>0, <1>1 DEF Write, Serve
<1>4. Serves(Rotated(c), c) BY <1>2, ServesRotated
<1>5. Serves(d, c) /\ d.stage = "done" /\ d.ok = yes BY <1>4, ServesAnswer
<1>6. \/ c.kind = "save" /\ details' = [details EXCEPT ![c.user] = c.arg] /\ UNCHANGED books
      \/ /\ c.kind \in {"open", "pay"} /\ UNCHANGED details
         /\ books' = [books EXCEPT ![c.user] =
                         [r \in DOMAIN books[c.user] |-> IF r \in Touches(c.kind) THEN books[c.user][r] + 1 ELSE books[c.user][r]]]
  BY <1>0 DEF Write
<1>7. c.user \in Customers /\ (c.kind = "save" => c.arg # Blank) BY <1>2 DEF Sound
<1>8. DOMAIN details = Customers /\ NoOne \notin Customers BY OnlineBankingAssumption DEF PagesInv, ProfilesKept
<1> HIDE DEF d
<1>9. IdsKept' BY <1>3 DEF RestInv, IdsKept
<1>10. BooksKept' /\ \A u \in Customers : \A r \in {"accounts", "history"} :
                        (u # c.user \/ r \notin Touches(c.kind)) => books'[u][r] = books[u][r]
  <2>1. CASE UNCHANGED books BY <2>1 DEF RestInv, BooksKept
  <2>2. CASE books' = [books EXCEPT ![c.user] =
                         [r \in DOMAIN books[c.user] |-> IF r \in Touches(c.kind) THEN books[c.user][r] + 1 ELSE books[c.user][r]]]
    <3> DEFINE b == [r \in DOMAIN books[c.user] |-> IF r \in Touches(c.kind) THEN books[c.user][r] + 1 ELSE books[c.user][r]]
    <3>1. DOMAIN books[c.user] = {"accounts", "history"} /\ DOMAIN books = Customers
      BY <1>7 DEF RestInv, BooksKept
    <3>2. DOMAIN b = {"accounts", "history"}
          /\ \A r \in {"accounts", "history"} : r \notin Touches(c.kind) => b[r] = books[c.user][r]
      BY <3>1
    <3>3. books' = [books EXCEPT ![c.user] = b] BY <2>2
    <3> HIDE DEF b
    <3>4. DOMAIN books' = Customers /\ books'[c.user] = b /\ \A u \in Customers \ {c.user} : books'[u] = books[u]
      BY <1>7, <3>1, <3>3
    <3>5. BooksKept' BY <3>2, <3>4 DEF RestInv, BooksKept
    <3>6. \A u \in Customers : \A r \in {"accounts", "history"} :
             (u # c.user \/ r \notin Touches(c.kind)) => books'[u][r] = books[u][r]
      <4>1. ASSUME NEW u \in Customers, NEW r \in {"accounts", "history"}, u # c.user \/ r \notin Touches(c.kind)
            PROVE  books'[u][r] = books[u][r]
        <5>1. CASE u = c.user BY <3>2, <3>4, <4>1, <5>1
        <5>2. CASE u # c.user BY <3>4, <5>2
        <5> QED BY <5>1, <5>2
      <4> QED BY <4>1
    <3> QED BY <3>5, <3>6
  <2> QED BY <1>6, <2>1, <2>2
<1>11. \A u \in Customers : (u # c.user \/ c.kind # "save") => details'[u] = details[u] BY <1>6, <1>8
<1>12. \A u \in Customers : \A r \in Resources :
            (u # c.user \/ r \notin Touches(c.kind)) => Stored(r, u)' = Stored(r, u)
  <2>1. ASSUME NEW u \in Customers, NEW r \in Resources, u # c.user \/ r \notin Touches(c.kind)
        PROVE  Stored(r, u)' = Stored(r, u)
    <3>1. CASE r = "payees" BY <1>3, <3>1 DEF Stored, PayeesOf
    <3>2. CASE r = "accounts" BY <1>10, <2>1, <3>2 DEF Stored
    <3>3. CASE r = "history" BY <1>10, <2>1, <3>3 DEF Stored
    <3>4. CASE r = "form"
      <4>1. c.kind = "save" => r \in Touches(c.kind) BY <3>4 DEF Touches
      <4> QED BY <1>11, <2>1, <3>4, <4>1 DEF Stored
    <3> QED BY <3>1, <3>2, <3>3, <3>4 DEF Resources
  <2> QED BY <2>1
<1>13. ASSUME NEW u, Known(u) PROVE Known(u)'
  <2>1. CASE UNCHANGED details BY <1>13, <2>1 DEF Known
  <2>2. CASE c.kind = "save" /\ details' = [details EXCEPT ![c.user] = c.arg]
    <3>1. u \in Customers => details'[u] = details[u] \/ details'[u] = c.arg BY <1>8, <2>2
    <3> QED BY <1>7, <1>13, <2>2, <3>1 DEF Known
  <2> QED BY <1>6, <2>1, <2>2
<1>14. \A j \in DOMAIN calls : Finds(calls[j]) => \A r \in rows' : r.id = calls[j].value => r.payer = calls[j].user
  BY <1>3 DEF RestInv, FitKept, Fit
<1>15. c.kind \in Writes /\ c.stage # "done" /\ d.ok BY <1>1, <1>2, <1>5 DEF Writes
<1>16. UNCHANGED <<jar, tab>> BY <1>3
<1> QED BY <1>0, <1>3, <1>5, <1>9, <1>10, <1>12, <1>13, <1>14, <1>15, <1>16, CommitRest

\* A registration fills a profile nobody has read: no page is of a customer without one.
LEMMA ServeSignInRest ==
  ASSUME PagesInv, RestInv, NEW i \in DOMAIN calls, ServeSignIn(i)
  PROVE  RestInv'
<1>0. PICK c : c = calls[i] OBVIOUS
<1>1. PICK yes : yes = TRUE OBVIOUS
<1>2. PICK v : v = <<Fresh(c.user)>> OBVIOUS
<1>3. PICK first : first = [keys |-> c.user, rest |-> <<c.user, 0>>] OBVIOUS
<1> DEFINE b == Answer(c, yes, c.user)
           d == WithCookie(b, v)
<1>4. Whole(c) /\ Fit(c) /\ Sound(c) /\ c.kind \in {"login", "register"} /\ c.stage = "sent"
  BY <1>0, CallsAre DEF Calls, RestInv, FitKept, PagesInv, CallsKept, ServeSignIn
<1>5. UNCHANGED <<jar, tab, rows, books, doubt>> BY DEF ServeSignIn, Serve
<1>6. Served(i, d) BY <1>0, <1>1, <1>2 DEF ServeSignIn, WithCookie
<1>7. details' = [details EXCEPT ![c.user] = IF @ = Blank THEN first ELSE @] BY <1>0, <1>3 DEF ServeSignIn
<1>8. c.user \in Customers BY <1>4 DEF Sound
<1>9. DOMAIN details = Customers /\ NoOne \notin Customers /\ Gone \notin Tabs
  BY OnlineBankingAssumption DEF PagesInv, ProfilesKept
<1>10. first # Blank
  <2>1. first \in Profiles BY <1>3, <1>8 DEF Profiles
  <2> QED BY <2>1, OnlineBankingAssumption DEF Profiles
<1>11. \A u \in Customers : details[u] # Blank => details'[u] = details[u] BY <1>7, <1>8, <1>9
<1>12. details'[c.user] # Blank BY <1>7, <1>8, <1>9, <1>10
<1>13. \A u : Known(u) => Known(u)' BY <1>11 DEF Known
<1>14. \A u, r : r \in Resources /\ (r # "form" \/ (u \in Customers /\ Known(u))) => Stored(r, u)' = Stored(r, u)
  BY <1>5, <1>9, <1>11 DEF Stored, PayeesOf, Resources, Known
\* the answer and the other calls
<1>15. b = Answer(c, yes, c.user) /\ d = WithCookie(b, v) OBVIOUS
<1> HIDE DEF b, d
<1>16. /\ Whole(d) /\ d.kind = c.kind /\ d.token = c.token /\ d.stage = "done" /\ d.user = c.user /\ d.tab = c.tab
       /\ d.here = c.here
  <2>1. b = [c EXCEPT !.stage = "done", !.ok = yes, !.value = c.user] BY <1>15 DEF Answer
  <2>2. c = [tab |-> c.tab, kind |-> c.kind, user |-> c.user, arg |-> c.arg, token |-> c.token,
             stage |-> c.stage, ok |-> c.ok, value |-> c.value, cookie |-> c.cookie, here |-> c.here, lone |-> c.lone]
    BY <1>4 DEF Whole
  <2>3. b = [tab |-> c.tab, kind |-> c.kind, user |-> c.user, arg |-> c.arg, token |-> c.token,
             stage |-> "done", ok |-> yes, value |-> c.user, cookie |-> c.cookie, here |-> c.here, lone |-> c.lone]
    BY <2>1, <2>2
  <2>4. d = [b EXCEPT !.cookie = v] BY <1>15 DEF WithCookie
  <2>5. d = [tab |-> c.tab, kind |-> c.kind, user |-> c.user, arg |-> c.arg, token |-> c.token,
             stage |-> "done", ok |-> yes, value |-> c.user, cookie |-> v, here |-> c.here, lone |-> c.lone]
    BY <2>3, <2>4
  <2> QED BY <2>5 DEF Whole
<1>17. c.kind \notin {"auth", "boot", "primary"} \cup DOMAIN Resource \cup Writes BY <1>4 DEF Resource, Writes
<1>18. Fit(d)'
  <2>1. Known(d.token.user)' BY <1>4, <1>13, <1>16 DEF Fit
  <2>2. Known(c.user)' BY <1>8, <1>12 DEF Known
  <2>3. Whom(d) = c.user BY <1>4, <1>16 DEF Whom
  <2>4. Known(Whom(d))' BY <2>2, <2>3 DEF Whom
  <2> QED BY <1>16, <1>17, <2>1, <2>4 DEF Fit, Finds, Faithful
<1>19. /\ Yields(calls', calls, {d})
       /\ \A t, r : Fetches(calls, t, r) => Fetches(calls', t, r) \/ (c.tab = t /\ Covers(c, r))
  BY <1>0, <1>6, CallsAre, PlacedYields DEF Served
<1>20. \A r : ~ Covers(c, r) BY <1>17 DEF Covers
<1>21. ASSUME NEW x, Fit(x) PROVE Fit(x)'
  <2>1. ASSUME x.stage = "done", x.ok, x.lone, x.kind \in DOMAIN Resource
        PROVE  Subject(x) \in Customers /\ x.value = Stored(Resource[x.kind], Subject(x))'
    <3>1. Subject(x) \in Customers /\ x.value = Stored(Resource[x.kind], Subject(x)) BY <1>21, <2>1 DEF Fit, Faithful
    <3>2. Resource[x.kind] \in Resources /\ (Resource[x.kind] = "form" => x.kind = "profile")
      BY <2>1 DEF Resource, Resources
    <3>3. x.kind = "profile" => Subject(x) = x.token.user BY DEF Subject
    <3>4. Known(x.token.user) BY <1>21 DEF Fit
    <3> QED BY <1>14, <3>1, <3>2, <3>3, <3>4
  <2>2. Faithful(x)' BY <2>1 DEF Faithful, Subject
  <2>3. Finds(x) => \A r \in rows' : r.id = x.value => r.payer = x.user BY <1>5, <1>21 DEF Fit
  <2>4. Known(x.token.user)' /\ (x.cookie # <<>> => Known(Whom(x))') /\ (x.kind = "auth" /\ x.stage = "done" /\ x.ok => Known(x.value)')
    BY <1>13, <1>21 DEF Fit
  <2> QED BY <2>2, <2>3, <2>4 DEF Fit, Finds, Whom
<1>22. FitKept'
  <2>1. ASSUME NEW j \in DOMAIN calls' PROVE Fit(calls[j])'
    <3>1. PICK x : x = calls'[j] OBVIOUS
    <3>2. CASE x = d
      <4> QED BY <1>18, <3>1, <3>2 DEF Fit, Finds, Faithful, Subject, Known, Stored, PayeesOf, Whom
    <3>3. CASE x # d
      <4>1. PICK m \in DOMAIN calls : Weaker(x, calls[m]) BY <1>19, <3>1, <3>3 DEF Yields
      <4>2. Fit(calls[m]) BY DEF RestInv, FitKept
      <4>3. Fit(x) BY <4>1, <4>2, FitWeaker
      <4>4. Fit(x)' BY <1>21, <4>3
      <4> QED BY <3>1, <4>4 DEF Fit, Finds, Faithful, Subject, Known, Stored, PayeesOf, Whom
    <3> QED BY <3>2, <3>3
  <2> QED BY <2>1 DEF FitKept
<1>23. ShownKept'
  <2>1. ASSUME NEW t \in Tabs, tab'[t].user # NoOne, NEW r \in (Looks(tab[t]) \ doubt[t])'
        PROVE  (ShowsStored(tab[t], r) \/ Fetches(calls, t, r))'
    <3>1. PICK T : T = tab[t] OBVIOUS
    <3>2. T = tab'[t] /\ T.user # NoOne /\ r \in Looks(T) \ doubt[t] BY <1>5, <2>1, <3>1 DEF Looks
    <3>3. Known(T.user) /\ T.page \in DOMAIN Visible BY <3>1 DEF RestInv, TabsKept
    <3>4. T.user \in Customers /\ r \in Resources BY <3>2, <3>3, LooksAt DEF Known
    <3>5. Stored(r, T.user)' = Stored(r, T.user) BY <1>14, <3>3, <3>4
    <3>6. ShowsStored(T, r) \/ Fetches(calls, t, r) BY <3>1, <3>2 DEF RestInv, ShownKept
    <3>7. T.shown[r] = Stored(r, T.user)' \/ Fetches(calls', t, r) BY <1>19, <1>20, <3>5, <3>6 DEF ShowsStored
    <3>8. T.shown[r] = Stored(r, T.user)' => ShowsStored(tab[t], r)' BY <3>2 DEF ShowsStored, Stored, PayeesOf
    <3> QED BY <3>7, <3>8 DEF Fetches
  <2> QED BY <2>1 DEF ShownKept
<1>24. TabsKept' BY <1>5, <1>13 DEF RestInv, TabsKept, Known
<1>25. IdsKept' /\ BooksKept' /\ DOMAIN doubt' = Tabs BY <1>5 DEF RestInv, IdsKept, BooksKept
<1> QED BY <1>22, <1>23, <1>24, <1>25 DEF RestInv

-----------------------------------------------------------------------------
\* The cookie of an answer names a known customer, or nobody.
LEMMA ArrivedKnown ==
  ASSUME PagesInv, RestInv, NEW i \in DOMAIN calls, Arrives(i)
  PROVE  /\ Known(jar'.user) /\ UNCHANGED <<rows, books, details>>
         /\ calls[i].stage = "done" /\ Sound(calls[i]) /\ Fit(calls[i]) /\ Whole(calls[i])
<1>1. Sound(calls[i]) /\ Fit(calls[i]) /\ Known(jar.user) BY DEF PagesInv, CallsKept, RestInv, FitKept, TabsKept
<1>2. calls[i].cookie = <<>> => jar' = jar BY DEF Arrives
<1>3. calls[i].cookie # <<>> => jar'.user = Whom(calls[i]) BY ArrivedCookie
<1>4. Known(jar'.user) BY <1>1, <1>2, <1>3 DEF Fit
<1>5. UNCHANGED <<rows, books, details>> /\ calls[i].stage = "done" BY DEF Arrives, server
<1> QED BY <1>1, <1>4, <1>5 DEF Sound

\* An answer nobody waits for any more, or that only ends its wait.
LEMMA ForgottenRest ==
  ASSUME PagesInv, RestInv, NEW i \in DOMAIN calls, calls' = RemoveAt(calls, i), UNCHANGED <<tab, doubt, rows, books, details>>,
         Known(jar'.user), calls[i].tab = Gone \/ \A r : ~ Covers(calls[i], r)
  PROVE  RestInv'
<1>1. /\ Yields(calls', calls, {})
      /\ \A t, r : Fetches(calls, t, r) => Fetches(calls', t, r) \/ (calls[i].tab = t /\ Covers(calls[i], r))
  BY CallsAre, WithoutYields
<1>2. FitKept' BY <1>1, FitQuiet DEF RestInv
<1>3. TabsKept' BY TabsSame DEF RestInv
<1>4. Gone \notin Tabs BY OnlineBankingAssumption
<1>5. \A r : \A t \in Tabs : Fetches(calls, t, r) => Fetches(calls', t, r) \/ r \in doubt'[t] BY <1>1, <1>4
<1>6. ShownKept' BY <1>5, ShownQuiet DEF RestInv
<1>7. DOMAIN doubt' = Tabs BY DEF RestInv
<1> QED BY <1>2, <1>3, <1>6, <1>7, RestQuiet

\* An answer reaches its page, which changes and may send more.
LEMMA RepliedRest ==
  ASSUME PagesInv, RestInv, NEW i \in DOMAIN calls, NEW t \in Tabs, t = calls[i].tab,
         NEW ms, Calls(ms), Yields(ms, RemoveAt(calls, i), {}),
         \A r : \A u \in Tabs \ {t} : Fetches(RemoveAt(calls, i), u, r) => Fetches(ms, u, r),
         NEW kinds, Sequence(kinds), NEW user, NEW cookie, cookie = jar', Known(cookie.user),
         NEW here, calls' = Issue(ms, t, user, kinds, Blank, cookie, here),
         UNCHANGED <<rows, books, details>>, DOMAIN doubt' = Tabs,
         \A u \in Tabs \ {t} : tab'[u] = tab[u] /\ doubt'[u] = doubt[u],
         Known(tab'[t].user), tab'[t].page \in DOMAIN Visible,
         tab'[t].user # NoOne =>
            \A r \in Looks(tab'[t]) \ doubt'[t] :
               \/ ShowsStored(tab'[t], r) \/ Fetches(ms, t, r)
               \/ \E k \in Range(kinds) : \A l : Covers(NewCall(t, k, user, Blank, cookie, here, l), r)
  PROVE  RestInv'
<1>1. \A u \in Tabs \ {t} : tab'[u] = tab[u] /\ doubt[u] \subseteq doubt'[u] OBVIOUS
<1>2. UNCHANGED <<rows, books, details>> OBVIOUS
<1>3. /\ Yields(RemoveAt(calls, i), calls, {})
      /\ \A u, r : Fetches(calls, u, r) => Fetches(RemoveAt(calls, i), u, r) \/ (calls[i].tab = u /\ Covers(calls[i], r))
  BY CallsAre, WithoutYields
<1>4. Yields(ms, calls, {}) BY <1>3, YieldsTwice
<1>5. \A r : \A u \in Tabs \ {t} : Fetches(calls, u, r) => Fetches(ms, u, r) \/ r \in doubt'[u] BY <1>3
<1>6. TabsKept'
  <2>1. \A u \in Tabs : Known(tab'[u].user) /\ tab'[u].page \in DOMAIN Visible BY DEF RestInv, TabsKept
  <2> QED BY <2>1 DEF TabsKept, Known
<1> QED BY <1>1, <1>2, <1>4, <1>5, <1>6, ActedRest

\* What is sent when an answer is in, with the page as it was.
LEMMA FollowedRest ==
  ASSUME PagesInv, RestInv, NEW i \in DOMAIN calls, NEW t \in Tabs, t = calls[i].tab, NEW kinds, Sequence(kinds),
         NEW user, NEW cookie, cookie = jar', Known(cookie.user), NEW here,
         calls' = Issue(RemoveAt(calls, i), t, user, kinds, Blank, cookie, here),
         UNCHANGED <<rows, books, details, tab, doubt>>,
         \A r : Covers(calls[i], r) => \E k \in Range(kinds) : \A l : Covers(NewCall(t, k, user, Blank, cookie, here, l), r)
  PROVE  RestInv'
<1>0. PICK ms, T, D : ms = RemoveAt(calls, i) /\ T = tab[t] /\ D = doubt[t] OBVIOUS
<1>1. Calls(ms) /\ Yields(ms, ms, {}) BY <1>0, CallsAre, WithoutSucceeds, YieldsItself
<1>2. \A u, r : Fetches(calls, u, r) => Fetches(ms, u, r) \/ (calls[i].tab = u /\ Covers(calls[i], r))
  BY <1>0, CallsAre, WithoutYields
<1>3. calls' = Issue(ms, t, user, kinds, Blank, cookie, here) BY <1>0
<1>4. tab'[t] = T /\ doubt'[t] = D BY <1>0
<1>5. Known(T.user) /\ T.page \in DOMAIN Visible BY <1>0 DEF RestInv, TabsKept
<1>6. T.user # NoOne => \A r \in Looks(T) \ D : ShowsStored(T, r) \/ Fetches(calls, t, r)
  BY <1>0 DEF RestInv, ShownKept
<1>7. T.user # NoOne =>
            \A r \in Looks(T) \ D :
               \/ ShowsStored(T, r) \/ Fetches(ms, t, r)
               \/ \E k \in Range(kinds) : \A l : Covers(NewCall(t, k, user, Blank, cookie, here, l), r)
  BY <1>2, <1>6
<1>8. Yields(ms, calls, {}) BY <1>0, CallsAre, WithoutYields
<1>9. \A r : \A u \in Tabs \ {t} : Fetches(calls, u, r) => Fetches(ms, u, r) \/ r \in doubt'[u] BY <1>2
<1>10. DOMAIN doubt' = Tabs BY DEF RestInv
<1>11. TabsKept' BY TabsSame DEF RestInv
<1>12. \A u \in Tabs \ {t} : tab'[u] = tab[u] /\ doubt[u] \subseteq doubt'[u] OBVIOUS
<1>13. tab'[t].user # NoOne =>
            \A r \in Looks(tab'[t]) \ doubt'[t] :
               \/ ShowsStored(tab'[t], r) \/ Fetches(ms, t, r)
               \/ \E k \in Range(kinds) : \A l : Covers(NewCall(t, k, user, Blank, cookie, here, l), r)
  BY <1>4, <1>7
<1>14. UNCHANGED <<rows, books, details>> OBVIOUS
<1> QED BY <1>1, <1>3, <1>8, <1>9, <1>10, <1>11, <1>12, <1>13, <1>14, ActedRest

\* An answer reaches a document that changes.
LEMMA ReplacedRest ==
  ASSUME PagesInv, RestInv, NEW i \in DOMAIN calls, Arrives(i), NEW t, t = calls[i].tab, t # Gone,
         NEW T, NEW kinds, Sequence(kinds), NEW user, Replace(i, T, kinds, user),
         Known(T.user), T.page \in DOMAIN Visible, DOMAIN doubt' = Tabs, \A u \in Tabs \ {t} : doubt'[u] = doubt[u],
         NEW cookie, cookie = jar', NEW ms, ms = RemoveAt(calls, i),
         T.user # NoOne =>
            \A r \in Looks(T) \ doubt'[t] :
               \/ ShowsStored(T, r) \/ Fetches(ms, t, r)
               \/ \E k \in Range(kinds) : \A l : Covers(NewCall(t, k, user, Blank, cookie, TRUE, l), r)
  PROVE  RestInv'
<1>1. t \in Tabs /\ Known(cookie.user) /\ UNCHANGED <<rows, books, details>> BY ArrivedKnown DEF Sound
<1>2. Calls(ms) /\ Yields(ms, RemoveAt(calls, i), {}) BY CallsAre, WithoutSucceeds, YieldsItself
<1>3. \A r : \A u \in Tabs \ {t} : Fetches(RemoveAt(calls, i), u, r) => Fetches(ms, u, r) OBVIOUS
<1>4. PICK here : here = TRUE OBVIOUS
<1>5. calls' = Issue(ms, t, user, kinds, Blank, cookie, here) BY <1>4 DEF Replace
<1>6. DOMAIN tab = Tabs BY DEF PagesInv, ProfilesKept
<1>7. tab'[t] = T /\ \A u \in Tabs \ {t} : tab'[u] = tab[u] BY <1>1, <1>6 DEF Replace
<1>8. \A u \in Tabs \ {t} : tab'[u] = tab[u] /\ doubt'[u] = doubt[u] BY <1>7
<1>9. Known(tab'[t].user) /\ tab'[t].page \in DOMAIN Visible BY <1>7
<1>10. tab'[t].user # NoOne =>
            \A r \in Looks(tab'[t]) \ doubt'[t] :
               \/ ShowsStored(tab'[t], r) \/ Fetches(ms, t, r)
               \/ \E k \in Range(kinds) : \A l : Covers(NewCall(t, k, user, Blank, cookie, here, l), r)
  BY <1>4, <1>7
<1> QED BY <1>1, <1>2, <1>3, <1>5, <1>8, <1>9, <1>10, RepliedRest

\* An answer for a document that is gone only leaves its cookie.
LEMMA DeliverGoneRest ==
  ASSUME PagesInv, RestInv, NEW i \in DOMAIN calls, DeliverGone(i)
  PROVE  RestInv'
<1>1. calls[i].tab = Gone /\ calls' = RemoveAt(calls, i) /\ UNCHANGED <<tab, doubt>> /\ Arrives(i)
  BY DEF DeliverGone
<1>2. Known(jar'.user) /\ UNCHANGED <<rows, books, details>> BY <1>1, ArrivedKnown
<1> QED BY <1>1, <1>2, ForgottenRest

\* Nor does one the browser gave up.
LEMMA AbortGoneRest ==
  ASSUME PagesInv, RestInv, NEW i \in DOMAIN calls, AbortGone(i)
  PROVE  RestInv'
<1>1. calls[i].tab = Gone /\ calls' = RemoveAt(calls, i) /\ UNCHANGED <<jar, tab, doubt, rows, books, details>>
  BY DEF AbortGone, server
<1>2. Known(jar'.user) BY <1>1 DEF RestInv, TabsKept
<1> QED BY <1>1, <1>2, ForgottenRest

\* A sign-in is followed by the check that brings everything; a logout leaves no customer's page.
LEMMA DeliverSignInRest ==
  ASSUME PagesInv, RestInv, NEW i \in DOMAIN calls, DeliverSignIn(i)
  PROVE  RestInv'
<1>1. PICK c, t, rest, cookie : c = calls[i] /\ t = c.tab /\ rest = RemoveAt(calls, i) /\ cookie = jar' OBVIOUS
<1>2. t # Gone /\ c.kind \in {"login", "register", "logout"} /\ Arrives(i) BY <1>1 DEF DeliverSignIn
<1>3. /\ Known(cookie.user) /\ UNCHANGED <<rows, books, details>> /\ t \in Tabs
  BY <1>1, <1>2, ArrivedKnown DEF Sound
<1>4. Calls(rest) BY <1>1, CallsAre, WithoutSucceeds
<1>5. DOMAIN tab = Tabs /\ DOMAIN doubt = Tabs /\ Document(tab[t]) BY <1>3 DEF PagesInv, ProfilesKept, RestInv
<1>6. Known(tab[t].user) /\ tab[t].page \in DOMAIN Visible BY <1>3 DEF RestInv, TabsKept
<1>7. PICK kinds : kinds = <<"auth">> OBVIOUS
<1>8. Sequence(kinds) BY <1>7, OneKind
<1>9. PICK here : here = TRUE OBVIOUS
<1>10. PICK user : user = NoOne OBVIOUS
<1>11. CASE ~ c.ok
  <2>1. calls' = RemoveAt(calls, i) /\ UNCHANGED <<tab, doubt>> BY <1>1, <1>11 DEF DeliverSignIn
  <2>2. \A r : ~ Covers(c, r) BY <1>2 DEF Covers, Resource, Writes
  <2> QED BY <1>1, <1>3, <2>1, <2>2, ForgottenRest
<1>12. CASE c.ok /\ c.kind = "logout"
  <2>1. PICK ms : ms = Orphaned(rest, t) OBVIOUS
  <2>2. /\ tab' = [tab EXCEPT ![t] = Loaded("login")] /\ doubt' = [doubt EXCEPT ![t] = {}]
        /\ calls' = Issue(ms, t, user, kinds, Blank, cookie, here)
    BY <1>1, <1>7, <1>9, <1>10, <1>12, <2>1 DEF DeliverSignIn
  <2>3. Calls(ms) BY <1>4, <2>1, OrphanedSucceeds
  <2>4. Yields(ms, rest, {}) /\ \A u, r : Fetches(rest, u, r) /\ u \notin {t, Gone} => Fetches(ms, u, r)
    BY <1>4, <2>1, OrphanedYields
  <2>5. Gone \notin Tabs BY OnlineBankingAssumption
  <2>6. \A r : \A u \in Tabs \ {t} : Fetches(RemoveAt(calls, i), u, r) => Fetches(ms, u, r) BY <1>1, <2>4, <2>5
  <2>7. \A u \in Tabs \ {t} : tab'[u] = tab[u] /\ doubt'[u] = doubt[u] BY <1>5, <2>2
  <2>8. DOMAIN doubt' = Tabs BY <1>5, <2>2
  <2>9. tab'[t].user = NoOne /\ tab'[t].page = "login" BY <1>3, <1>5, <2>2 DEF Loaded
  <2>10. Known(tab'[t].user) /\ tab'[t].page \in DOMAIN Visible BY <2>9 DEF Known, Visible
  <2>11. Yields(ms, RemoveAt(calls, i), {}) BY <1>1, <2>4
  <2> QED BY <1>1, <1>3, <1>8, <2>2, <2>3, <2>6, <2>7, <2>8, <2>9, <2>10, <2>11, RepliedRest
<1>13. CASE c.ok /\ c.kind # "logout"
  <2>1. PICK ms : ms = Left(rest, t) OBVIOUS
  <2>2. /\ tab' = [tab EXCEPT ![t].busy = TRUE] /\ doubt' = doubt
        /\ calls' = Issue(ms, t, user, kinds, Blank, cookie, here)
    BY <1>1, <1>7, <1>9, <1>10, <1>13, <2>1 DEF DeliverSignIn
  <2>3. Calls(ms) BY <1>4, <2>1, LeftSucceeds
  <2>4. Yields(ms, rest, {}) /\ \A u, r : Fetches(rest, u, r) /\ (u = t => r \in Kept) => Fetches(ms, u, r)
    BY <1>4, <2>1, LeftYields
  <2>6. \A r : \A u \in Tabs \ {t} : Fetches(RemoveAt(calls, i), u, r) => Fetches(ms, u, r) BY <1>1, <2>4
  <2>7. \A u \in Tabs \ {t} : tab'[u] = tab[u] /\ doubt'[u] = doubt[u] BY <1>5, <2>2
  <2>8. DOMAIN doubt' = Tabs BY <1>5, <2>2
  <2>9. tab'[t].user = tab[t].user /\ tab'[t].page = tab[t].page BY <1>3, <1>5, <2>2 DEF Document
  <2>10. Known(tab'[t].user) /\ tab'[t].page \in DOMAIN Visible BY <1>6, <2>9
  <2>11. Yields(ms, RemoveAt(calls, i), {}) BY <1>1, <2>4
  <2>12. Range(kinds) = {"auth"} BY <1>7 DEF Range
  <2>13. \A r : \A l : Covers(NewCall(t, "auth", user, Blank, cookie, here, l), r) BY ChecksCover
  <2>14. \A r : \E k \in Range(kinds) : \A l : Covers(NewCall(t, k, user, Blank, cookie, here, l), r)
    BY <2>12, <2>13
  <2> QED BY <1>1, <1>3, <1>8, <2>2, <2>3, <2>6, <2>7, <2>8, <2>10, <2>11, <2>14, RepliedRest
<1> QED BY <1>11, <1>12, <1>13

\* What a read leaves in doubt in its tab.
LEMMA JudgeSays ==
  ASSUME RestInv, NEW c, c.tab \in Tabs, NEW r0, Judge(c, r0)
  PROVE  /\ DOMAIN doubt' = Tabs /\ \A u \in Tabs \ {c.tab} : doubt'[u] = doubt[u]
         /\ r0 \notin Kept /\ ~ c.here => doubt'[c.tab] = doubt[c.tab]
         /\ r0 \in Kept \/ c.here =>
               doubt'[c.tab] = IF c.ok /\ c.lone /\ Subject(c) = tab[c.tab].user THEN doubt[c.tab] \ {r0} ELSE doubt[c.tab] \cup {r0}
<1>1. DOMAIN doubt = Tabs BY DEF RestInv
<1>2. CASE r0 \notin Kept /\ ~ c.here
  <2>1. doubt' = doubt BY <1>2 DEF Judge
  <2> QED BY <1>1, <1>2, <2>1
<1>3. CASE r0 \in Kept \/ c.here
  <2> DEFINE D == IF c.ok /\ c.lone /\ Subject(c) = tab[c.tab].user THEN doubt[c.tab] \ {r0} ELSE doubt[c.tab] \cup {r0}
  <2>1. doubt' = [doubt EXCEPT ![c.tab] = D] BY <1>3 DEF Judge
  <2> HIDE DEF D
  <2>2. doubt'[c.tab] = D /\ DOMAIN doubt' = Tabs /\ \A u \in Tabs \ {c.tab} : doubt'[u] = doubt[u] BY <1>1, <2>1
  <2> QED BY <1>3, <2>2 DEF D
<1> QED BY <1>2, <1>3

\* Who is signed in is known, and what is shown is read afresh.
LEMMA DeliverAuthRest ==
  ASSUME PagesInv, RestInv, NEW i \in DOMAIN calls, DeliverAuth(i)
  PROVE  RestInv'
<1>1. PICK c, t, T, cookie, ms : c = calls[i] /\ t = c.tab /\ T = tab[t] /\ cookie = jar' /\ ms = RemoveAt(calls, i)
  OBVIOUS
<1>2. t # Gone /\ c.kind = "auth" /\ Arrives(i) /\ doubt' = doubt BY <1>1 DEF DeliverAuth
<1>3. t \in Tabs /\ Fit(c) /\ c.stage = "done" BY <1>1, <1>2, ArrivedKnown DEF Sound
<1>4. Document(T) /\ Known(T.user) /\ T.page \in DOMAIN Visible /\ DOMAIN doubt' = Tabs
  BY <1>1, <1>2, <1>3 DEF PagesInv, ProfilesKept, RestInv, TabsKept
<1>5. \A u \in Tabs \ {t} : doubt'[u] = doubt[u] BY <1>2
<1>6. T = [page |-> T.page, user |-> T.user, busy |-> T.busy, settled |-> T.settled, shown |-> T.shown]
  BY <1>4 DEF Document
<1>7. CASE c.ok
  <2>1. PICK D, kinds, user : D = [T EXCEPT !.user = c.value] /\ kinds = <<"boot">> /\ user = c.value OBVIOUS
  <2>2. Replace(i, D, kinds, user) BY <1>1, <1>7, <2>1 DEF DeliverAuth
  <2>3. D.user = c.value /\ D.page = T.page BY <1>6, <2>1
  <2>4. Known(D.user) /\ D.page \in DOMAIN Visible BY <1>2, <1>3, <1>4, <1>7, <2>3 DEF Fit
  <2>5. Sequence(kinds) /\ Range(kinds) = {"boot"} BY <2>1, OneKind
  <2>6. \A r : \A l : Covers(NewCall(t, "boot", user, Blank, cookie, TRUE, l), r)
    <3>1. PICK here : here = TRUE OBVIOUS
    <3>2. \A r : \A l : Covers(NewCall(t, "boot", user, Blank, cookie, here, l), r) BY ChecksCover
    <3> QED BY <3>1, <3>2
  <2>7. \A r : \E k \in Range(kinds) : \A l : Covers(NewCall(t, k, user, Blank, cookie, TRUE, l), r)
    BY <2>5, <2>6
  <2> QED BY <1>1, <1>2, <1>4, <1>5, <2>2, <2>4, <2>5, <2>7, ReplacedRest
<1>8. CASE ~ c.ok
  <2>1. PICK kinds, user : kinds = <<>> /\ user = NoOne OBVIOUS
  <2> DEFINE E == [T EXCEPT !.user = NoOne, !.page = "login", !.busy = FALSE, !.settled = TRUE]
  <2>2. Replace(i, E, kinds, user) BY <1>1, <1>8, <2>1 DEF DeliverAuth
  <2>3. PICK no, yes : no = FALSE /\ yes = TRUE OBVIOUS
  <2>4. PICK D : D = [T EXCEPT !.user = NoOne, !.page = "login", !.busy = no, !.settled = yes] OBVIOUS
  <2>5. D.user = NoOne /\ D.page = "login"
    <3> DEFINE A == [T EXCEPT !.user = NoOne]
               B == [A EXCEPT !.page = "login"]
    <3>1. D = [B EXCEPT !.busy = no, !.settled = yes] BY <2>4
    <3>2. A = [page |-> T.page, user |-> NoOne, busy |-> T.busy, settled |-> T.settled, shown |-> T.shown] BY <1>6
    <3> HIDE DEF A
    <3>3. B = [page |-> "login", user |-> NoOne, busy |-> T.busy, settled |-> T.settled, shown |-> T.shown] BY <3>2
    <3> HIDE DEF B
    <3> QED BY <3>1, <3>3
  <2>6. Replace(i, D, kinds, user) BY <2>2, <2>3, <2>4
  <2> HIDE DEF E
  <2>7. Known(D.user) /\ D.page \in DOMAIN Visible BY <2>5 DEF Known, Visible
  <2>8. Sequence(kinds) BY <2>1, NoKind
  <2> QED BY <1>1, <1>2, <1>4, <1>5, <2>5, <2>6, <2>7, <2>8, ReplacedRest
<1> QED BY <1>7, <1>8

\* The accounts are in: the page is mounted, and reads what else it shows.
LEMMA DeliverBootRest ==
  ASSUME PagesInv, RestInv, NEW i \in DOMAIN calls, DeliverBoot(i)
  PROVE  RestInv'
<1>1. PICK c, t, T, cookie, ms : c = calls[i] /\ t = c.tab /\ T = tab[t] /\ cookie = jar' /\ ms = RemoveAt(calls, i)
  OBVIOUS
<1>2. PICK page : page = IF T.page = "login" THEN "dashboard" ELSE T.page OBVIOUS
<1>3. PICK R : R = IF c.ok THEN [T EXCEPT !.shown["accounts"] = c.value] ELSE T OBVIOUS
<1>4. PICK D : D = Mounted(R, page) OBVIOUS
<1>5. PICK kinds, user : kinds = Reads(page) /\ user = c.user OBVIOUS
<1>6. /\ t # Gone /\ c.kind = "boot" /\ Arrives(i) /\ Judge(c, "accounts")
  BY <1>1 DEF DeliverBoot
<1>7. Replace(i, D, kinds, user) BY <1>1, <1>2, <1>3, <1>4, <1>5 DEF DeliverBoot
<1>8. t \in Tabs /\ Fit(c) /\ c.stage = "done" BY <1>1, <1>6, ArrivedKnown DEF Sound
<1>9. Document(T) /\ Known(T.user) /\ T.page \in DOMAIN Visible
  BY <1>1, <1>8 DEF PagesInv, ProfilesKept, RestInv, TabsKept
<1>10. page \in DOMAIN Visible BY <1>2, <1>9 DEF Visible
<1>11. "accounts" \in Kept BY DEF Kept
<1>12. /\ DOMAIN doubt' = Tabs /\ \A u \in Tabs \ {t} : doubt'[u] = doubt[u]
       /\ doubt'[t] = IF c.ok /\ c.lone /\ Subject(c) = T.user THEN doubt[t] \ {"accounts"} ELSE doubt[t] \cup {"accounts"}
  <2>1. PICK r0 : r0 = "accounts" OBVIOUS
  <2>2. Judge(c, r0) /\ c.tab \in Tabs BY <1>1, <1>6, <1>8, <2>1
  <2>3. /\ DOMAIN doubt' = Tabs /\ \A u \in Tabs \ {t} : doubt'[u] = doubt[u]
        /\ r0 \in Kept \/ c.here =>
              doubt'[t] = IF c.ok /\ c.lone /\ Subject(c) = tab[t].user THEN doubt[t] \ {r0} ELSE doubt[t] \cup {r0}
    BY <1>1, <2>2, JudgeSays
  <2> QED BY <1>1, <1>11, <2>1, <2>3
<1>13. /\ Document(R) /\ R.user = T.user
       /\ c.ok => R.shown["accounts"] = c.value
  <2>1. T = [page |-> T.page, user |-> T.user, busy |-> T.busy, settled |-> T.settled, shown |-> T.shown]
    BY <1>9 DEF Document
  <2>2. DOMAIN T.shown = {"payees", "accounts", "history", "form"} BY <1>9 DEF Document
  <2>3. CASE c.ok
    <3>1. R = [T EXCEPT !.shown["accounts"] = c.value] BY <1>3, <2>3
    <3>2. Document(R) BY <1>9, <3>1, ShownDocument
    <3>3. PICK shown : shown = [T.shown EXCEPT !["accounts"] = c.value] OBVIOUS
    <3>4. R = [page |-> T.page, user |-> T.user, busy |-> T.busy, settled |-> T.settled, shown |-> shown]
      BY <2>1, <3>1, <3>3
    <3>5. shown["accounts"] = c.value BY <2>2, <3>3
    <3> QED BY <3>2, <3>4, <3>5
  <2>4. CASE ~ c.ok BY <1>3, <1>9, <2>4
  <2> QED BY <2>3, <2>4
<1>14. D.page = page /\ D.user = T.user /\ D.shown["accounts"] = R.shown["accounts"]
  <2>1. R = [page |-> R.page, user |-> R.user, busy |-> R.busy, settled |-> R.settled, shown |-> R.shown]
    BY <1>13 DEF Document
  <2>2. D.page = page /\ D.user = R.user /\ D.shown = [r \in DOMAIN R.shown |-> IF r \in Kept THEN R.shown[r] ELSE Blank]
    BY <1>4, <2>1 DEF Mounted
  <2>3. "accounts" \in DOMAIN R.shown BY <1>13 DEF Document
  <2> QED BY <1>11, <1>13, <2>2, <2>3
<1>15. Sequence(kinds) BY <1>5, ReadsOnly
<1>16. \A r \in Visible[page] \ {"accounts"} :
          \E k \in Range(kinds) : \A l : Covers(NewCall(t, k, user, Blank, cookie, TRUE, l), r)
  BY <1>5, <1>10, ReadsCover
<1>17. ASSUME NEW r \in Looks(D) \ doubt'[t]
       PROVE  \/ ShowsStored(D, r)
              \/ \E k \in Range(kinds) : \A l : Covers(NewCall(t, k, user, Blank, cookie, TRUE, l), r)
  <2>1. CASE r = "accounts"
    <3>1. c.ok /\ c.lone /\ Subject(c) = T.user BY <1>12, <1>17, <2>1
    <3>2. "boot" \in DOMAIN Resource /\ Resource["boot"] = "accounts" BY DEF Resource
    <3>3. c.value = Stored("accounts", T.user) BY <1>6, <1>8, <3>1, <3>2 DEF Fit, Faithful
    <3> QED BY <1>13, <1>14, <2>1, <3>1, <3>3 DEF ShowsStored
  <2>2. CASE r # "accounts" BY <1>14, <1>16, <1>17, <2>2 DEF Looks
  <2> QED BY <2>1, <2>2
<1>18. Known(D.user) /\ D.page \in DOMAIN Visible BY <1>9, <1>10, <1>14
<1> QED BY <1>1, <1>6, <1>7, <1>12, <1>15, <1>17, <1>18, ReplacedRest

\* What an answered read no longer brings is shown, or in doubt.
LEMMA DeliverReadRest ==
  ASSUME PagesInv, RestInv, NEW i \in DOMAIN calls, DeliverRead(i)
  PROVE  RestInv'
<1>1. PICK c, t, T, cookie, ms : c = calls[i] /\ t = c.tab /\ T = tab[t] /\ cookie = jar' /\ ms = RemoveAt(calls, i)
  OBVIOUS
<1>2. PICK r0 : r0 = ResourceOf(c.kind) OBVIOUS
<1>3. PICK kinds, user : kinds = <<>> /\ user = c.user OBVIOUS
<1>4. PICK settled : settled = Settles(T, c) OBVIOUS
<1>5. PICK new : new = IF c.ok /\ (r0 \in Kept \/ c.here) THEN c.value ELSE T.shown[r0] OBVIOUS
<1>6. PICK shown : shown = [T.shown EXCEPT ![r0] = new] OBVIOUS
<1>7. /\ t # Gone /\ c.kind \in {"payees", "accounts", "history", "profile"} /\ Arrives(i) /\ Judge(c, r0)
  BY <1>1, <1>2 DEF DeliverRead
<1>8. t \in Tabs /\ Fit(c) /\ c.stage = "done" BY <1>1, <1>7, ArrivedKnown DEF Sound
<1>9. Document(T) /\ Known(T.user) /\ T.page \in DOMAIN Visible
  BY <1>1, <1>8 DEF PagesInv, ProfilesKept, RestInv, TabsKept
<1>10. T = [page |-> T.page, user |-> T.user, busy |-> T.busy, settled |-> T.settled, shown |-> T.shown]
  BY <1>9 DEF Document
<1>11. PICK D : D = [T EXCEPT !.settled = settled, !.shown = shown] OBVIOUS
<1>12. Replace(i, D, kinds, user)
  <2> DEFINE E == [T EXCEPT !.settled = Settles(T, c),
                            !.shown[r0] = IF c.ok /\ (r0 \in Kept \/ c.here) THEN c.value ELSE @]
  <2>1. Replace(i, E, kinds, user) BY <1>1, <1>2, <1>3 DEF DeliverRead
  <2>2. E = [T EXCEPT !.settled = settled, !.shown[r0] = new]
    <3>1. PICK F : F = [T EXCEPT !.settled = settled] OBVIOUS
    <3>2. F.shown = T.shown BY <1>10, <3>1
    <3>3. E = [F EXCEPT !.shown[r0] = IF c.ok /\ (r0 \in Kept \/ c.here) THEN c.value ELSE @] BY <1>4, <3>1
    <3>4. CASE c.ok /\ (r0 \in Kept \/ c.here) BY <1>5, <3>1, <3>3, <3>4
    <3>5. CASE ~ (c.ok /\ (r0 \in Kept \/ c.here)) BY <1>5, <3>1, <3>2, <3>3, <3>5
    <3> QED BY <3>4, <3>5
  <2>3. E = D
    <3>1. PICK F : F = [T EXCEPT !.settled = settled] OBVIOUS
    <3>2. F.shown = T.shown BY <1>10, <3>1
    <3>3. E = [F EXCEPT !.shown[r0] = new] BY <2>2, <3>1
    <3> HIDE DEF E
    <3>4. E = [F EXCEPT !.shown = shown] BY <1>6, <3>2, <3>3
    <3> QED BY <1>11, <3>1, <3>4
  <2> QED BY <2>1, <2>3
<1>13. D.page = T.page /\ D.user = T.user /\ D.shown = shown
  <2>1. D = [page |-> T.page, user |-> T.user, busy |-> T.busy, settled |-> settled, shown |-> shown]
    BY <1>10, <1>11
  <2> QED BY <2>1
<1>14. /\ DOMAIN doubt' = Tabs /\ \A u \in Tabs \ {t} : doubt'[u] = doubt[u]
       /\ r0 \notin Kept /\ ~ c.here => doubt'[t] = doubt[t]
       /\ r0 \in Kept \/ c.here =>
             doubt'[t] = IF c.ok /\ c.lone /\ Subject(c) = T.user THEN doubt[t] \ {r0} ELSE doubt[t] \cup {r0}
  <2>1. /\ DOMAIN doubt' = Tabs /\ \A u \in Tabs \ {c.tab} : doubt'[u] = doubt[u]
        /\ r0 \notin Kept /\ ~ c.here => doubt'[c.tab] = doubt[c.tab]
        /\ r0 \in Kept \/ c.here =>
              doubt'[c.tab] = IF c.ok /\ c.lone /\ Subject(c) = tab[c.tab].user
                              THEN doubt[c.tab] \ {r0} ELSE doubt[c.tab] \cup {r0}
    BY <1>1, <1>7, <1>8, JudgeSays
  <2> QED BY <1>1, <2>1
<1>15. /\ c.kind \in DOMAIN Resource /\ Resource[c.kind] = r0
       /\ \A r : Covers(c, r) => r = r0 /\ (r0 \in Kept \/ c.here)
       /\ r0 \in {"payees", "accounts", "history", "form"}
  <2>1. c.kind \in DOMAIN Resource /\ Resource[c.kind] \in {"payees", "accounts", "history", "form"}
    BY <1>7 DEF Resource
  <2>2. Resource[c.kind] = r0 BY <1>2, <2>1 DEF ResourceOf
  <2>3. c.kind \notin {"auth", "boot", "primary"} \cup Writes BY <1>7 DEF Writes
  <2> QED BY <2>1, <2>2, <2>3 DEF Covers
<1>16. DOMAIN T.shown = {"payees", "accounts", "history", "form"} BY <1>9 DEF Document
<1>17. \A r : Fetches(calls, t, r) => Fetches(ms, t, r) \/ Covers(c, r) BY <1>1, CallsAre, WithoutYields
<1>18. Sequence(kinds) BY <1>3, NoKind
<1>19. ASSUME T.user # NoOne, NEW r \in Looks(D) \ doubt'[t] PROVE ShowsStored(D, r) \/ Fetches(ms, t, r)
  <2>1. Looks(D) = Looks(T) BY <1>13 DEF Looks
  <2>2. T.user \in Customers /\ r \in Resources BY <1>9, <1>19, <2>1, LooksAt DEF Known
  <2>3. r \in {"payees", "accounts", "history", "form"} BY <2>2 DEF Resources
  <2>4. CASE r # r0 \/ (r0 \notin Kept /\ ~ c.here)
    <3>1. r \notin doubt[t] BY <1>14, <1>19, <2>4
    <3>2. ShowsStored(T, r) \/ Fetches(calls, t, r) BY <1>1, <1>8, <1>19, <2>1, <3>1 DEF RestInv, ShownKept
    <3>3. shown[r] = T.shown[r] BY <1>5, <1>6, <1>16, <2>3, <2>4
    <3>4. ShowsStored(T, r) => ShowsStored(D, r) BY <1>13, <3>3 DEF ShowsStored
    <3>5. ~ Covers(c, r) BY <1>15, <2>4
    <3> QED BY <1>17, <3>2, <3>4, <3>5
  <2>5. CASE r = r0 /\ (r0 \in Kept \/ c.here)
    <3>1. c.ok /\ c.lone /\ Subject(c) = T.user BY <1>14, <1>19, <2>5
    <3>2. c.value = Stored(r0, T.user) BY <1>8, <1>15, <3>1 DEF Fit, Faithful
    <3>3. shown[r0] = c.value BY <1>5, <1>6, <1>15, <1>16, <2>5, <3>1
    <3> QED BY <1>13, <2>5, <3>2, <3>3 DEF ShowsStored
  <2> QED BY <2>4, <2>5
<1>20. Known(D.user) /\ D.page \in DOMAIN Visible BY <1>9, <1>13
<1>21. D.user # NoOne =>
            \A r \in Looks(D) \ doubt'[t] :
               \/ ShowsStored(D, r) \/ Fetches(ms, t, r)
               \/ \E k \in Range(kinds) : \A l : Covers(NewCall(t, k, user, Blank, cookie, TRUE, l), r)
  BY <1>13, <1>19
<1> QED BY <1>1, <1>7, <1>12, <1>14, <1>18, <1>20, <1>21, ReplacedRest

\* The history follows its account, or is in doubt.
LEMMA DeliverPrimaryRest ==
  ASSUME PagesInv, RestInv, NEW i \in DOMAIN calls, DeliverPrimary(i)
  PROVE  RestInv'
<1>1. PICK c, t, T, cookie, ms : c = calls[i] /\ t = c.tab /\ T = tab[t] /\ cookie = jar' /\ ms = RemoveAt(calls, i)
  OBVIOUS
<1>2. t # Gone /\ c.kind = "primary" /\ Arrives(i) BY <1>1 DEF DeliverPrimary
<1>3. /\ t \in Tabs /\ Fit(c) /\ c.stage = "done" /\ Known(cookie.user) /\ UNCHANGED <<rows, books, details>>
  BY <1>1, <1>2, ArrivedKnown DEF Sound
<1>4. Document(T) /\ Known(T.user) /\ T.page \in DOMAIN Visible
  BY <1>1, <1>3 DEF PagesInv, ProfilesKept, RestInv, TabsKept
<1>5. \A r : Covers(c, r) => r = "history" /\ c.here BY <1>2 DEF Covers, Resource, Writes
<1>6. PICK user : user = c.user OBVIOUS
<1>7. CASE c.ok
  <2>1. PICK kinds, here : kinds = <<"history">> /\ here = c.here OBVIOUS
  <2>2. /\ calls' = Issue(RemoveAt(calls, i), t, user, kinds, Blank, cookie, here) /\ UNCHANGED <<tab, doubt>>
    BY <1>1, <1>6, <1>7, <2>1 DEF DeliverPrimary
  <2>3. Sequence(kinds) /\ Range(kinds) = {"history"} BY <2>1, OneKind
  <2>4. "history" \in DOMAIN Resource /\ Resource["history"] = "history" BY DEF Resource
  <2>5. ASSUME NEW r, Covers(c, r)
        PROVE  \E k \in Range(kinds) : \A l : Covers(NewCall(t, k, user, Blank, cookie, here, l), r)
    <3>1. r = "history" /\ here BY <1>5, <2>1, <2>5
    <3>2. PICK k : k = "history" OBVIOUS
    <3>3. \A l : Covers(NewCall(t, k, user, Blank, cookie, here, l), r) BY <2>4, <3>1, <3>2, ReadCovers
    <3> QED BY <2>3, <3>2, <3>3
  <2>6. UNCHANGED <<rows, books, details, tab, doubt>> /\ t = calls[i].tab /\ cookie = jar' BY <1>1, <1>3, <2>2
  <2>7. \A r : Covers(calls[i], r) =>
            \E k \in Range(kinds) : \A l : Covers(NewCall(t, k, user, Blank, cookie, here, l), r)
    BY <1>1, <2>5
  <2> QED BY <1>3, <2>2, <2>3, <2>6, <2>7, FollowedRest
<1>8. CASE ~ c.ok
  <2>1. PICK kinds, settled : kinds = <<>> /\ settled = Settles(T, c) OBVIOUS
  <2>2. PICK D : D = [T EXCEPT !.settled = settled] OBVIOUS
  <2>3. Judge(c, "history") /\ Replace(i, D, kinds, user) BY <1>1, <1>6, <1>8, <2>1, <2>2 DEF DeliverPrimary
  <2>4. D.page = T.page /\ D.user = T.user /\ D.shown = T.shown
    <3>1. D = [page |-> T.page, user |-> T.user, busy |-> T.busy, settled |-> settled, shown |-> T.shown]
      BY <1>4, <2>2 DEF Document
    <3> QED BY <3>1
  <2>5. PICK r0 : r0 = "history" OBVIOUS
  <2>6. r0 \notin Kept BY <2>5 DEF Kept
  <2>7. /\ DOMAIN doubt' = Tabs /\ \A u \in Tabs \ {t} : doubt'[u] = doubt[u]
        /\ ~ c.here => doubt'[t] = doubt[t]
        /\ c.here => doubt'[t] = doubt[t] \cup {r0}
    <3>1. Judge(c, r0) /\ c.tab \in Tabs BY <1>1, <1>3, <2>3, <2>5
    <3>2. /\ DOMAIN doubt' = Tabs /\ \A u \in Tabs \ {c.tab} : doubt'[u] = doubt[u]
          /\ r0 \notin Kept /\ ~ c.here => doubt'[c.tab] = doubt[c.tab]
          /\ r0 \in Kept \/ c.here =>
                doubt'[c.tab] = IF c.ok /\ c.lone /\ Subject(c) = tab[c.tab].user
                                THEN doubt[c.tab] \ {r0} ELSE doubt[c.tab] \cup {r0}
      BY <3>1, JudgeSays
    <3> QED BY <1>1, <1>8, <2>6, <3>2
  <2>8. Sequence(kinds) BY <2>1, NoKind
  <2>9. \A r : Fetches(calls, t, r) => Fetches(ms, t, r) \/ Covers(c, r) BY <1>1, CallsAre, WithoutYields
  <2>10. ASSUME T.user # NoOne, NEW r \in Looks(D) \ doubt'[t] PROVE ShowsStored(D, r) \/ Fetches(ms, t, r)
    <3>1. Looks(D) = Looks(T) BY <2>4 DEF Looks
    <3>2. r \notin doubt[t] BY <2>7, <2>10
    <3>3. ShowsStored(T, r) \/ Fetches(calls, t, r) BY <1>1, <1>3, <2>10, <3>1, <3>2 DEF RestInv, ShownKept
    <3>4. ~ Covers(c, r) BY <1>5, <2>5, <2>7, <2>10
    <3>5. ShowsStored(T, r) => ShowsStored(D, r) BY <2>4 DEF ShowsStored
    <3> QED BY <2>9, <3>3, <3>4, <3>5
  <2>11. Known(D.user) /\ D.page \in DOMAIN Visible BY <1>4, <2>4
  <2>12. D.user # NoOne =>
            \A r \in Looks(D) \ doubt'[t] :
               \/ ShowsStored(D, r) \/ Fetches(ms, t, r)
               \/ \E k \in Range(kinds) : \A l : Covers(NewCall(t, k, user, Blank, cookie, TRUE, l), r)
    BY <2>4, <2>10
  <2> QED BY <1>1, <1>2, <2>3, <2>7, <2>8, <2>11, <2>12, ReplacedRest
<1> QED BY <1>7, <1>8

\* What is read again after a write brings what the write was waited for.
LEMMA DeliverWriteRest ==
  ASSUME PagesInv, RestInv, NEW i \in DOMAIN calls, DeliverWrite(i)
  PROVE  RestInv'
<1>1. PICK c, t, cookie : c = calls[i] /\ t = c.tab /\ cookie = jar' OBVIOUS
<1>2. PICK kinds, user, here : kinds = Refetch(c.kind, c.ok) /\ user = c.user /\ here = c.here OBVIOUS
<1>3. t # Gone /\ c.kind \in Writes /\ Arrives(i) /\ UNCHANGED <<tab, doubt>> BY <1>1 DEF DeliverWrite
<1>4. calls' = Issue(RemoveAt(calls, i), t, user, kinds, Blank, cookie, here) BY <1>1, <1>2 DEF DeliverWrite
<1>5. /\ t \in Tabs /\ Known(cookie.user) /\ UNCHANGED <<rows, books, details>>
  BY <1>1, <1>3, ArrivedKnown DEF Sound
<1>6. Sequence(kinds) BY <1>2, RefetchOnly
<1>7. ASSUME NEW r, Covers(c, r)
      PROVE  \E k \in Range(kinds) : \A l : Covers(NewCall(t, k, user, Blank, cookie, here, l), r)
  <2>1. c.kind \notin {"auth", "boot", "primary"} \cup DOMAIN Resource BY <1>3 DEF Writes, Resource
  <2>2. PICK k \in Range(kinds) : k \in DOMAIN Resource /\ Resource[k] = r BY <1>2, <1>7, <2>1 DEF Covers
  <2>3. r \in Kept \/ here BY <1>2, <1>7, <2>1 DEF Covers
  <2>4. \A l : Covers(NewCall(t, k, user, Blank, cookie, here, l), r) BY <2>2, <2>3, ReadCovers
  <2> QED BY <2>4
<1> QED BY <1>1, <1>3, <1>4, <1>5, <1>6, <1>7, FollowedRest

\* Every answer keeps the pages right.
LEMMA DeliverRest ==
  ASSUME PagesInv, RestInv, NEW i \in DOMAIN calls, Deliver(i)
  PROVE  RestInv'
BY DeliverGoneRest, AbortGoneRest, DeliverSignInRest, DeliverAuthRest, DeliverBootRest, DeliverReadRest,
   DeliverPrimaryRest, DeliverWriteRest DEF Deliver

\* So does every handler.
LEMMA HandleRest ==
  ASSUME PagesInv, RestInv, NEW i \in DOMAIN calls, Handle(i)
  PROVE  RestInv'
BY RefuseRest, ReadRest, ServeLogoutRest, CheckRest, WritePayeeRest, RowIsGoneRest, WriteRest, ServeSignInRest DEF Handle

\* Nothing else of the browser matters.
LEMMA RestStutter ==
  ASSUME RestInv, UNCHANGED <<jar, tab, calls, rows, books, details, doubt>>
  PROVE  RestInv'
<1>1. FitKept' BY DEF RestInv, FitKept, Fit, Finds, Faithful, Subject, Known, Stored, PayeesOf, Whom
<1>2. TabsKept' BY TabsSame DEF RestInv, TabsKept
<1>3. \A r : \A t \in Tabs : Fetches(calls, t, r) => Fetches(calls', t, r) \/ r \in doubt'[t] OBVIOUS
<1>4. ShownKept' BY <1>3, ShownQuiet DEF RestInv
<1>5. DOMAIN doubt' = Tabs BY DEF RestInv
<1> QED BY <1>1, <1>2, <1>4, <1>5, RestQuiet

\* Every step of the pages keeps them right.
LEMMA RestStepInv ==
  ASSUME PagesInv, RestInv, Next
  PROVE  RestInv'
<1>1. CASE \E t \in Tabs : Customer(t) BY <1>1, CustomerRest
<1>2. CASE Serving BY <1>2, HandleRest, DeliverRest DEF Serving
<1>3. CASE \E i \in DOMAIN calls : DatabaseFails(i) \/ Lose(i) BY <1>3, DatabaseFailsRest, LoseRest
<1>4. CASE Tick BY <1>4, RestStutter DEF Tick, server
<1> QED BY <1>1, <1>2, <1>3, <1>4 DEF Next

\* They begin right: a customer who is signed in sees the payees and the accounts there are.
LEMMA RestInitInv == Init => RestInv
<1> SUFFICES ASSUME Init PROVE RestInv OBVIOUS
<1>1. PICK c \in Registered, first \in Forms :
          /\ rows = {[payer |-> c, payee |-> first.payee, name |-> first.name, id |-> 1]}
          /\ jar = [user |-> c, exp |-> 1] /\ last = c
          /\ tab = [t \in Tabs |-> IF t \in SignedIn
                                   THEN [Resting EXCEPT !.user = c, !.shown["accounts"] = 1, !.shown["payees"] = rows]
                                   ELSE [Resting EXCEPT !.page = "login"]]
  BY DEF Init
<1>2. /\ calls = <<>> /\ details = [u \in Customers |-> IF u \in Registered THEN [keys |-> u, rest |-> <<u, 0>>] ELSE Blank]
      /\ books = [u \in Customers |-> [accounts |-> 1, history |-> 0]] /\ doubt = [t \in Tabs |-> {}]
  BY DEF Init
<1>3. c \in Customers /\ NoOne \notin Customers BY OnlineBankingAssumption
<1>4. FitKept BY <1>2 DEF FitKept
<1>5. Known(c) /\ Known(NoOne)
  <2>1. PICK p : p = [keys |-> c, rest |-> <<c, 0>>] OBVIOUS
  <2>2. details[c] = p BY <1>2, <1>3, <2>1
  <2>3. p \in [keys : Customers, rest : Customers \X Nat] BY <1>3, <2>1
  <2> QED BY <1>3, <2>2, <2>3, OnlineBankingAssumption DEF Known
<1>6. IdsKept
  <2>1. IsFiniteSet(rows) BY <1>1, FS_Singleton
  <2> QED BY <1>1, <2>1 DEF IdsKept
<1>7. BooksKept BY <1>2 DEF BooksKept
<1>8. PICK D, E : /\ D = [Resting EXCEPT !.user = c, !.shown["accounts"] = 1, !.shown["payees"] = rows]
                  /\ E = [Resting EXCEPT !.page = "login"]
  OBVIOUS
<1>9. \A t \in Tabs : tab[t] = D \/ tab[t] = E BY <1>1, <1>8
<1>10. /\ D.page = "payees" /\ D.user = c /\ D.shown["accounts"] = 1 /\ D.shown["payees"] = rows
       /\ E.page = "login" /\ E.user = NoOne
  BY <1>8 DEF Resting, Empty
<1>11. TabsKept
  <2>1. \A t \in Tabs : Known(tab[t].user) /\ tab[t].page \in DOMAIN Visible BY <1>5, <1>9, <1>10 DEF Visible
  <2>2. jar.user = c BY <1>1
  <2> QED BY <1>5, <2>1, <2>2 DEF TabsKept
<1>12. ShownKept
  <2>1. ShowsStored(D, "accounts") /\ ShowsStored(D, "payees")
    <3>1. Stored("accounts", c) = 1 BY <1>2, <1>3 DEF Stored
    <3>2. PayeesOf(c) = rows BY <1>1 DEF PayeesOf
    <3>3. Stored("payees", c) = rows BY <3>2 DEF Stored
    <3> QED BY <1>10, <3>1, <3>3 DEF ShowsStored
  <2>2. Looks(D) = {"payees", "accounts"} BY <1>10 DEF Looks, Visible
  <2>3. ASSUME NEW t \in Tabs, tab[t].user # NoOne, NEW r \in Looks(tab[t]) PROVE ShowsStored(tab[t], r)
    BY <1>9, <1>10, <2>1, <2>2, <2>3
  <2> QED BY <2>3 DEF ShownKept
<1> QED BY <1>2, <1>4, <1>6, <1>7, <1>11, <1>12 DEF RestInv

\* A tab none of whose calls is in flight shows what is stored.
LEMMA RestPromise == RestInv => QuietPageIsCurrent
<1> SUFFICES ASSUME RestInv, NEW t \in Tabs, tab[t].user # NoOne, \A c \in Range(calls) : c.tab # t,
                    NEW r \in Visible[tab[t].page] \ doubt[t]
             PROVE  tab[t].shown[r] = Stored(r, tab[t].user)
  BY DEF QuietPageIsCurrent
<1>1. ~ Fetches(calls, t, r) BY DEF Fetches, Range
<1>2. r \in Looks(tab[t]) \ doubt[t] BY DEF Looks
<1>3. ShowsStored(tab[t], r) BY <1>1, <1>2 DEF RestInv, ShownKept
<1> QED BY <1>3 DEF ShowsStored

-----------------------------------------------------------------------------

(***************************************************************************)
(* The loan pages.                                                         *)
(***************************************************************************)
AppStates == {"PENDING", "APPROVED", "REJECTED"}
LoanLists == UNION {[D -> AppStates] : D \in SUBSET Nat}
LoanForms == [no : Nat, step : Int, shown : Int, passes : BOOLEAN, good : BOOLEAN, filled : BOOLEAN, busy : BOOLEAN]
LoanKinds == {"first", "list", "accounts", "apply", "details", "find", "approve", "reject"}
Accounts == Clients \cup {Nobody}
Letters == [from : Pages, kind : LoanKinds, app : Nat, to : Accounts, form : LoanForms,
            stage : {"sent", "checked", "done"}, ok : BOOLEAN, list : LoanLists, newest : BOOLEAN]
Applications == [client : Clients, form : Nat, whole : BOOLEAN, state : AppStates]
Benches == [loading : BOOLEAN, list : LoanLists, open : BOOLEAN, app : Nat,
            state : AppStates \cup {""}, target : Accounts, busy : Nat]
Loans == [app : Nat, to : Accounts, by : Admins]
Halls == [loading : BOOLEAN, fetching : BOOLEAN, list : LoanLists, open : BOOLEAN, form : LoanForms]
Questions == [by : Admins, app : Nat, deed : {"approve", "reject"}, target : Accounts]
LoanTypes ==
  /\ apps \in Seq(Applications)
  /\ lent \in Seq(Loans)
  /\ hall \in Halls
  /\ bench \in [Admins -> Benches]
  /\ toasts \subseteq Questions
  /\ mail \in Seq(Letters)
  /\ opened \in Nat /\ met \in [Admins -> SUBSET Clients]

\* What a request says apart from its answer's list.
Same(l, m) ==
  /\ l.from = m.from /\ l.kind = m.kind /\ l.app = m.app /\ l.to = m.to
  /\ l.form = m.form /\ l.stage = m.stage /\ l.ok = m.ok
\* ls is the requests of ms, some of them gone, and one of new at most.
Follow(ls, ms, new) ==
  /\ ls \in Seq(Letters)
  /\ \E f \in [DOMAIN ls -> DOMAIN ms \cup {0}] :
       /\ \A j \in DOMAIN ls : IF f[j] = 0 THEN ls[j] \in new ELSE Same(ls[j], ms[f[j]])
       /\ \A i, j \in DOMAIN ls : f[i] = f[j] => i = j

\* A letter that is posted leaves the others but for their age.
LEMMA PostedFollows ==
  ASSUME NEW ms \in Seq(Letters), NEW new \in Letters
  PROVE  Follow(Posted(ms, new), ms, {new})
<1> DEFINE T == Letters
           over(k) == new.kind \in ListReads /\ ms[k].kind \in ListReads /\ ms[k].from = new.from
           old == [k \in DOMAIN ms |-> [ms[k] EXCEPT !.newest = @ /\ ~ over(k)]]
           p == old \o <<new>>
           f == [j \in 1 .. (Len(ms) + 1) |-> IF j = Len(ms) + 1 THEN 0 ELSE j]
<1>1. Len(ms) \in Nat /\ DOMAIN ms = 1 .. Len(ms) /\ \A j \in DOMAIN ms : ms[j] \in Letters
  BY LenProperties, ElementOfSeq
<1>2. Posted(ms, new) = p BY DEF Posted
<1>3. \A k \in DOMAIN ms : over(k) \in BOOLEAN OBVIOUS
<1> HIDE DEF over
<1>4. \A j \in DOMAIN ms : old[j] \in Letters /\ Same(old[j], ms[j])
  BY <1>1, <1>3 DEF Letters, Same
<1>5. DOMAIN old = 1 .. Len(ms) BY <1>1
<1> HIDE DEF T, old
<1>6. old \in [1 .. Len(ms) -> T] BY <1>1, <1>4, <1>5 DEF old, T
<1>7. old \in Seq(T) /\ Len(old) = Len(ms) BY <1>1, <1>6
<1>8. new \in T BY DEF T
<1>9. /\ p \in Seq(T) /\ Len(p) = Len(ms) + 1
      /\ \A j \in 1 .. Len(ms) : p[j] = old[j]
      /\ p[Len(ms) + 1] = new
  BY <1>1, <1>7, <1>8
<1> HIDE DEF p
<1>10. DOMAIN p = 1 .. (Len(ms) + 1) BY <1>9, LenProperties
<1>11. f \in [DOMAIN p -> DOMAIN ms \cup {0}] BY <1>1, <1>10
<1>12. \A j \in DOMAIN p : IF f[j] = 0 THEN p[j] \in {new} ELSE Same(p[j], ms[f[j]])
  BY <1>1, <1>4, <1>9, <1>10
<1>13. \A i, j \in DOMAIN p : f[i] = f[j] => i = j
  BY <1>1, <1>10
<1> HIDE DEF f
<1>14. p \in Seq(Letters) BY <1>9 DEF T
<1> QED BY <1>2, <1>11, <1>12, <1>13, <1>14 DEF Follow

\* A letter that is taken leaves the others.
LEMMA RemovedFollows ==
  ASSUME NEW ms \in Seq(Letters), NEW k \in DOMAIN ms
  PROVE  Follow(RemoveAt(ms, k), ms, {})
<1> DEFINE T == Letters
           r == RemoveAt(ms, k)
           f == [j \in DOMAIN r |-> IF j < k THEN j ELSE j + 1]
<1>1. ms \in Seq(T) OBVIOUS
<1> HIDE DEF T
<1>2. /\ r \in Seq(T) /\ DOMAIN r = 1 .. (Len(ms) - 1)
      /\ \A j \in DOMAIN r : r[j] = ms[IF j < k THEN j ELSE j + 1]
  BY <1>1, Removed
<1>3. Len(ms) \in Nat /\ DOMAIN ms = 1 .. Len(ms) BY <1>1, LenProperties
<1> HIDE DEF r
<1>4. f \in [DOMAIN r -> DOMAIN ms \cup {0}] BY <1>2, <1>3
<1>5. \A j \in DOMAIN r : f[j] # 0 /\ Same(r[j], ms[f[j]]) BY <1>2, <1>3 DEF Same
<1>6. \A i, j \in DOMAIN r : f[i] = f[j] => i = j BY <1>2, <1>3
<1> HIDE DEF f
<1>7. r \in Seq(Letters) BY <1>2 DEF T
<1> QED BY <1>4, <1>5, <1>6, <1>7 DEF Follow, r

\* A letter that is answered leaves the others.
LEMMA AnsweredFollows ==
  ASSUME NEW ms \in Seq(Letters), NEW k \in DOMAIN ms, NEW new \in Letters
  PROVE  Follow(Posted(RemoveAt(ms, k), new), ms, {new})
<1> DEFINE r == RemoveAt(ms, k)
           p == Posted(r, new)
<1>1. Follow(r, ms, {}) BY RemovedFollows
<1>2. r \in Seq(Letters) BY <1>1 DEF Follow
<1> HIDE DEF r
<1>3. Follow(p, r, {new}) BY <1>2, PostedFollows
<1> HIDE DEF p
<1>4. PICK f \in [DOMAIN r -> DOMAIN ms \cup {0}] :
       /\ \A j \in DOMAIN r : f[j] # 0 /\ Same(r[j], ms[f[j]])
       /\ \A i, j \in DOMAIN r : f[i] = f[j] => i = j
  BY <1>1 DEF Follow
<1>5. PICK g \in [DOMAIN p -> DOMAIN r \cup {0}] :
       /\ \A j \in DOMAIN p : IF g[j] = 0 THEN p[j] \in {new} ELSE Same(p[j], r[g[j]])
       /\ \A i, j \in DOMAIN p : g[i] = g[j] => i = j
  BY <1>3 DEF Follow
<1> DEFINE h == [j \in DOMAIN p |-> IF g[j] = 0 THEN 0 ELSE f[g[j]]]
<1>6. \A j \in DOMAIN p : g[j] = 0 \/ (g[j] \in DOMAIN r /\ f[g[j]] \in DOMAIN ms /\ f[g[j]] # 0)
  BY <1>4
<1>7. h \in [DOMAIN p -> DOMAIN ms \cup {0}] BY <1>6
<1>8. \A j \in DOMAIN p : IF h[j] = 0 THEN p[j] \in {new} ELSE Same(p[j], ms[h[j]])
  BY <1>4, <1>5, <1>6 DEF Same
<1>9. \A i, j \in DOMAIN p : h[i] = h[j] => i = j
  BY <1>4, <1>5, <1>6
<1> HIDE DEF h
<1>10. p \in Seq(Letters) BY <1>3 DEF Follow
<1> QED BY <1>7, <1>8, <1>9, <1>10 DEF Follow, p, r

\* A letter that is changed leaves the others.
LEMMA ChangedFollows ==
  ASSUME NEW ms \in Seq(Letters), NEW k \in DOMAIN ms, NEW l \in Letters
  PROVE  Follow([ms EXCEPT ![k] = l], ms, {l})
<1> DEFINE T == Letters
           p == [ms EXCEPT ![k] = l]
           f == [j \in DOMAIN ms |-> IF j = k THEN 0 ELSE j]
<1>1. Len(ms) \in Nat /\ DOMAIN ms = 1 .. Len(ms) BY LenProperties
<1>2. ms \in Seq(T) /\ l \in T OBVIOUS
<1> HIDE DEF T
<1>3. p \in Seq(T) /\ DOMAIN p = DOMAIN ms BY <1>1, <1>2, ExceptSeq
<1>4. \A j \in DOMAIN ms : p[j] = IF j = k THEN l ELSE ms[j] BY <1>1
<1> HIDE DEF p
<1>5. f \in [DOMAIN p -> DOMAIN ms \cup {0}] BY <1>3
<1>6. \A j \in DOMAIN p : IF f[j] = 0 THEN p[j] \in {l} ELSE Same(p[j], ms[f[j]])
  BY <1>1, <1>3, <1>4 DEF Same
<1>7. \A i, j \in DOMAIN p : f[i] = f[j] => i = j BY <1>1, <1>3
<1> HIDE DEF f
<1>8. p \in Seq(Letters) BY <1>3 DEF T
<1> QED BY <1>5, <1>6, <1>7, <1>8 DEF Follow, p

\* A change of the rows makes the lists under way old and replaces one letter.
LEMMA OldListsKept ==
  ASSUME mail \in Seq(Letters), NEW k \in DOMAIN mail, NEW l \in Letters
  PROVE  LET p == [OldLists EXCEPT ![k] = l]
         IN  /\ p \in Seq(Letters) /\ DOMAIN p = DOMAIN mail /\ p[k] = l
             /\ \A j \in DOMAIN mail \ {k} : Same(p[j], mail[j])
             /\ OldLists[k] \in Letters /\ Same(OldLists[k], mail[k])
<1> DEFINE T == Letters
           p == [OldLists EXCEPT ![k] = l]
<1>1. Len(mail) \in Nat /\ DOMAIN mail = 1 .. Len(mail) /\ \A j \in DOMAIN mail : mail[j] \in Letters
  BY LenProperties, ElementOfSeq
<1>2. DOMAIN OldLists = DOMAIN mail /\ \A j \in DOMAIN mail : OldLists[j] \in Letters /\ Same(OldLists[j], mail[j])
  <2> DEFINE past(j) == mail[j].kind \in ListReads /\ mail[j].stage = "done"
  <2>1. \A j \in DOMAIN mail : past(j) \in BOOLEAN OBVIOUS
  <2>2. OldLists = [j \in DOMAIN mail |-> [mail[j] EXCEPT !.newest = @ /\ ~ past(j)]] BY DEF OldLists
  <2> HIDE DEF past
  <2> QED BY <1>1, <2>1, <2>2 DEF Letters, Same
<1> HIDE DEF T
<1>3. \A j \in DOMAIN mail : OldLists[j] \in T /\ l \in T BY <1>2 DEF T
<1>4. DOMAIN p = 1 .. Len(mail) /\ \A j \in DOMAIN mail : p[j] = IF j = k THEN l ELSE OldLists[j] BY <1>1, <1>2
<1> HIDE DEF p
<1>5. p \in [1 .. Len(mail) -> T]
  <2>1. \A j \in 1 .. Len(mail) : p[j] \in T BY <1>1, <1>3, <1>4
  <2>2. p = [j \in 1 .. Len(mail) |-> p[j]] BY <1>4 DEF p
  <2> QED BY <2>1, <2>2
<1>6. p \in Seq(T) BY <1>1, <1>5
<1>7. p[k] = l /\ \A j \in DOMAIN mail \ {k} : Same(p[j], mail[j]) BY <1>2, <1>4
<1> QED BY <1>1, <1>2, <1>4, <1>6, <1>7 DEF T, p

\* A letter to be posted is a letter.
LEMMA LetterType ==
  ASSUME NEW from \in Pages, NEW kind \in LoanKinds, NEW app \in Nat, NEW to \in Accounts
  PROVE  Letter(from, kind, app, to) \in Letters
<1>1. <<>> \in LoanLists
  <2>1. <<>> \in [{} -> AppStates] OBVIOUS
  <2> QED BY <2>1 DEF LoanLists
<1> QED BY <1>1 DEF Letter, Letters, NoForm, LoanForms

\* Whom a request is for, and where its money may go: to the customer of its application, or
\* to one whose accounts the page asked for before.
Addressed(l) ==
  /\ l.kind \in {"details", "find", "approve", "reject"} => l.from \in Admins /\ l.app \in DOMAIN apps
  /\ l.kind = "details" => /\ l.to \in {Nobody, apps[l.app].client}
                           /\ apps[l.app].client \in met[l.from]
  /\ l.kind = "find" => l.to \in {Nobody, apps[l.app].client}
  /\ l.kind = "approve" => l.to \in met[l.from] \cup {apps[l.app].client}
  /\ l.stage = "checked" => l.kind \in {"approve", "reject"}
Asking(t) ==
  /\ t.app \in DOMAIN apps
  /\ t.target \in met[t.by] \cup {Nobody}
TargetsKnown ==
  /\ \A k \in DOMAIN mail : Addressed(mail[k])
  /\ \A t \in toasts : Asking(t)
  /\ \A a \in Admins : /\ bench[a].open => bench[a].app \in DOMAIN apps
                       /\ bench[a].target \in met[a] \cup {Nobody}
  /\ \A n \in DOMAIN lent :
       /\ lent[n].app \in DOMAIN apps
       /\ lent[n].to \in met[lent[n].by] \cup {apps[lent[n].app].client}

\* A form of which no step was used while it left the screen is filled as far as its step; its
\* request is there while its button is disabled and at no other time, and its application only
\* after that, or its answer was lost.
FormFilled ==
  /\ hall.form.no <= opened
  /\ hall.form.no = 0 => hall.form = NoForm
  /\ hall.form.no = 0 \/ hall.form.no \in hurried
       \/ (hall.form.step \in 1 .. 3 /\ (hall.form.step >= 2 => hall.form.good) /\ (hall.form.step = 3 => hall.form.filled))
Applies(l, f) == l.kind = "apply" /\ l.form.no = f
Made(f) == \E i \in DOMAIN apps : apps[i].form = f
FormsOnce ==
  /\ \A k \in DOMAIN mail : mail[k].kind = "apply" =>
       /\ mail[k].form.no \in 1 .. opened
       /\ (mail[k].form.good /\ mail[k].form.filled) \/ mail[k].form.no \in hurried
       /\ mail[k].form.no = hall.form.no => hall.form.busy \/ mail[k].form.no \in hurried
       /\ mail[k].stage = "sent" \/ ~ mail[k].ok => mail[k].form.no \in unsure \cup hurried \/ ~ Made(mail[k].form.no)
  /\ \A j, k \in DOMAIN mail :
       mail[j].kind = "apply" /\ mail[k].kind = "apply" /\ mail[j].form.no = mail[k].form.no
         => j = k \/ mail[j].form.no \in hurried
  /\ \A i \in DOMAIN apps : (apps[i].whole \/ apps[i].form \in hurried) /\ apps[i].form <= opened
  /\ hall.open /\ hall.form.no # 0 /\ ~ hall.form.busy
       => hall.form.no \in unsure \cup hurried \/ ~ Made(hall.form.no)
  /\ \A i, j \in DOMAIN apps : apps[i].form = apps[j].form => i = j \/ apps[i].form \in unsure \cup hurried \cup {0}

\* A decision that passed its check is about an application that still waits, unless another
\* passed it too.
Paid(i) == {n \in DOMAIN lent : lent[n].app = i}
DecidedOnce ==
  /\ \A k \in DOMAIN mail : mail[k].stage = "checked" =>
       mail[k].app \in doubled \/ apps[mail[k].app].state = "PENDING"
  /\ \A i \in DOMAIN apps \ doubled : 
        /\ apps[i].state = "APPROVED" => \E n \in DOMAIN lent : Paid(i) = {n}
        /\ apps[i].state # "APPROVED" => Paid(i) = {}

LoanInv == LoanTypes /\ TargetsKnown /\ FormFilled /\ FormsOnce /\ DecidedOnce

\* What the elements of the sequences are.
LEMMA Elements ==
  ASSUME LoanTypes
  PROVE  /\ \A k \in DOMAIN mail : mail[k] \in Letters
         /\ \A i \in DOMAIN apps : apps[i] \in Applications /\ i \in Nat
         /\ \A n \in DOMAIN lent : lent[n] \in Loans
<1>1. mail \in [1 .. Len(mail) -> Letters] /\ DOMAIN mail = 1 .. Len(mail)
  BY LenProperties DEF LoanTypes
<1>2. apps \in [1 .. Len(apps) -> Applications] /\ DOMAIN apps = 1 .. Len(apps) /\ Len(apps) \in Nat
  BY LenProperties DEF LoanTypes
<1>3. lent \in [1 .. Len(lent) -> Loans] /\ DOMAIN lent = 1 .. Len(lent)
  BY LenProperties DEF LoanTypes
<1> QED BY <1>1, <1>2, <1>3

\* A step that makes no application, no decision and no form's request.
LEMMA LoanQuiet ==
  ASSUME LoanInv, NEW new, Follow(mail', mail, new), UNCHANGED <<apps, lent, doubled, unsure>>, hurried \subseteq hurried',
         hall' \in Halls, bench' \in [Admins -> Benches], toasts' \subseteq Questions,
         opened' \in Nat, opened' >= opened,
         met' \in [Admins -> SUBSET Clients], \A a \in Admins : met[a] \subseteq met'[a],
         \A l \in new : /\ l.kind # "apply" /\ Addressed(l)'
                        /\ l.stage = "checked" => l.app \in doubled \/ apps[l.app].state = "PENDING",
         \A t \in toasts' : Asking(t)',
         \A a \in Admins : /\ bench'[a].open => bench'[a].app \in DOMAIN apps
                           /\ bench'[a].target \in met'[a] \cup {Nobody},
         FormFilled',
         \/ hall'.form.no = 0 \/ hall'.form.no > opened
         \/ hall'.form.no = hall.form.no /\ hall'.form.busy = hall.form.busy /\ (hall'.open => hall.open)
  PROVE  LoanInv'
<1>1. PICK f \in [DOMAIN mail' -> DOMAIN mail \cup {0}] :
       /\ \A j \in DOMAIN mail' : IF f[j] = 0 THEN mail'[j] \in new ELSE Same(mail'[j], mail[f[j]])
       /\ \A i, j \in DOMAIN mail' : f[i] = f[j] => i = j
  BY DEF Follow
<1>2. mail' \in Seq(Letters) BY DEF Follow
<1>3. LoanTypes' BY <1>2 DEF LoanInv, LoanTypes
<1>4. \A j \in DOMAIN mail' : \/ mail'[j] \in new
                              \/ f[j] \in DOMAIN mail /\ f[j] # 0 /\ Same(mail'[j], mail[f[j]])
  BY <1>1
<1>5. /\ \A k \in DOMAIN mail : mail[k] \in Letters
      /\ \A i \in DOMAIN apps : apps[i] \in Applications /\ i \in Nat
      /\ \A n \in DOMAIN lent : lent[n] \in Loans
  BY Elements DEF LoanInv
<1>6. TargetsKnown'
  <2>1. ASSUME NEW j \in DOMAIN mail', f[j] \in DOMAIN mail, Same(mail'[j], mail[f[j]])
        PROVE  Addressed(mail[j])'
    BY <1>5, <2>1 DEF LoanInv, TargetsKnown, Addressed, Same
  <2>2. \A j \in DOMAIN mail' : Addressed(mail[j])'
    BY <1>4, <2>1
  <2>3. \A n \in DOMAIN lent : lent[n].by \in Admins BY <1>5 DEF Loans
  <2> QED BY <2>2, <2>3 DEF LoanInv, TargetsKnown
<1>7. FormsOnce'
  <2>1. ASSUME NEW j \in DOMAIN mail', mail'[j].kind = "apply"
        PROVE  /\ f[j] \in DOMAIN mail /\ Same(mail'[j], mail[f[j]]) /\ mail[f[j]].kind = "apply"
               /\ mail[f[j]].form.no \in 1 .. opened
    BY <1>4, <2>1 DEF LoanInv, FormsOnce, Same
  <2>2. hall'.form.no \in Nat /\ hall.form.no \in Nat /\ opened \in Nat /\ opened' \in Nat
    BY DEF LoanInv, LoanTypes, Halls, LoanForms
  <2>3. \A i \in DOMAIN apps : apps[i].form \in Nat /\ apps[i].form <= opened /\ (apps[i].whole \/ apps[i].form \in hurried')
    BY <1>5 DEF LoanInv, FormsOnce, Applications
  <2>4. \A n : Made(n)' <=> Made(n) BY DEF Made
  <2>5. ASSUME NEW j \in DOMAIN mail', mail'[j].kind = "apply"
        PROVE  /\ mail'[j].form.no \in 1 .. opened'
               /\ (mail'[j].form.good /\ mail'[j].form.filled) \/ mail'[j].form.no \in hurried'
               /\ mail'[j].form.no = hall'.form.no => hall'.form.busy \/ mail'[j].form.no \in hurried'
               /\ mail'[j].stage = "sent" \/ ~ mail'[j].ok
                     => mail'[j].form.no \in unsure \cup hurried' \/ ~ Made(mail'[j].form.no)
    <3>1. mail'[j].form = mail[f[j]].form /\ mail'[j].stage = mail[f[j]].stage /\ mail'[j].ok = mail[f[j]].ok
      BY <2>1, <2>5 DEF Same
    <3>2. mail'[j].form.no \in 1 .. opened' BY <2>1, <2>2, <2>5, <3>1
    <3>3. mail'[j].form.no = hall'.form.no => hall'.form.no = hall.form.no /\ hall'.form.busy = hall.form.busy /\ (hall'.open => hall.open)
      BY <2>1, <2>2, <2>5, <3>1
    <3> QED BY <2>1, <2>5, <3>1, <3>2, <3>3 DEF LoanInv, FormsOnce
  <2>6. ASSUME NEW i \in DOMAIN mail', NEW j \in DOMAIN mail', mail'[i].kind = "apply", mail'[j].kind = "apply",
               mail'[i].form.no = mail'[j].form.no
        PROVE  i = j \/ mail'[i].form.no \in hurried'
    BY <1>1, <2>1, <2>6 DEF LoanInv, FormsOnce, Same
  <2>7. hall'.open /\ hall'.form.no # 0 /\ ~ hall'.form.busy => hall'.form.no \in unsure \cup hurried' \/ ~ Made(hall'.form.no)
    <3>1. CASE hall'.form.no > opened BY <2>2, <2>3, <3>1 DEF Made
    <3>2. CASE hall'.form.no = hall.form.no /\ hall'.form.busy = hall.form.busy /\ (hall'.open => hall.open)
      BY <3>2 DEF LoanInv, FormsOnce
    <3> QED BY <3>1, <3>2
  <2>8. \A i \in DOMAIN apps : (apps[i].whole \/ apps[i].form \in hurried') /\ apps[i].form <= opened'
    BY <2>2, <2>3
  <2>9. \A i, j \in DOMAIN apps : apps[i].form = apps[j].form => i = j \/ apps[i].form \in unsure \cup hurried' \cup {0}
    BY DEF LoanInv, FormsOnce
  <2> QED BY <2>4, <2>5, <2>6, <2>7, <2>8, <2>9 DEF FormsOnce
<1>8. DecidedOnce'
  <2>1. ASSUME NEW j \in DOMAIN mail', mail'[j].stage = "checked"
        PROVE  mail'[j].app \in doubled \/ apps[mail'[j].app].state = "PENDING"
    BY <1>4, <2>1 DEF LoanInv, DecidedOnce, Same
  <2> QED BY <2>1 DEF LoanInv, DecidedOnce, Paid
<1> QED BY <1>3, <1>6, <1>7, <1>8 DEF LoanInv

\* Letters that stay as they are follow themselves.
LEMMA SelfFollows ==
  ASSUME NEW ms \in Seq(Letters)
  PROVE  Follow(ms, ms, {})
<1>1. DOMAIN ms \subseteq Nat \ {0} BY LenProperties
<1> DEFINE f == [j \in DOMAIN ms |-> j]
<1>2. f \in [DOMAIN ms -> DOMAIN ms \cup {0}] OBVIOUS
<1>3. \A j \in DOMAIN ms : f[j] # 0 /\ Same(ms[j], ms[f[j]]) BY <1>1 DEF Same
<1>4. \A i, j \in DOMAIN ms : f[i] = f[j] => i = j OBVIOUS
<1> HIDE DEF f
<1> QED BY <1>2, <1>3, <1>4 DEF Follow

\* What the invariant says of the records of the loan pages.
LEMMA LoanRecords ==
  ASSUME LoanInv
  PROVE  /\ hall \in Halls /\ hall.form \in LoanForms /\ bench \in [Admins -> Benches]
         /\ toasts \subseteq Questions /\ opened \in Nat /\ met \in [Admins -> SUBSET Clients]
         /\ Applicant \in Pages /\ \A a \in Admins : a \in Pages
         /\ mail \in Seq(Letters) /\ Nobody \in Accounts
         /\ \A k \in DOMAIN mail : mail[k] \in Letters
BY Elements DEF LoanInv, LoanTypes, Halls, Pages, Accounts

\* The form that is opened, and what is sent of a form.
LEMMA NewForm ==
  ASSUME NEW n \in Nat
  PROVE  LET form == [NoForm EXCEPT !.no = n + 1, !.step = 1, !.shown = 1, !.good = TRUE]
         IN  form \in LoanForms /\ form.no = n + 1 /\ form.step = 1 /\ form.good
<1> DEFINE one == [NoForm EXCEPT !.no = n + 1]
           two == [one EXCEPT !.step = 1]
           three == [two EXCEPT !.shown = 1]
           form == [three EXCEPT !.good = TRUE]
<1>1. NoForm \in LoanForms BY DEF NoForm, LoanForms
<1>2. one \in LoanForms /\ one.no = n + 1 BY <1>1 DEF LoanForms
<1> HIDE DEF one
<1>3. two \in LoanForms /\ two.no = n + 1 /\ two.step = 1 BY <1>2 DEF LoanForms
<1> HIDE DEF two
<1>4. three \in LoanForms /\ three.no = n + 1 /\ three.step = 1 BY <1>3 DEF LoanForms
<1> HIDE DEF three
<1>5. form \in LoanForms /\ form.no = n + 1 /\ form.step = 1 /\ form.good BY <1>4 DEF LoanForms
<1> QED BY <1>5 DEF one, two, three

\* What is sent of a form is what it holds.
LEMMA SentForm ==
  ASSUME LoanInv
  PROVE  LET sheet == [NoForm EXCEPT !.no = hall.form.no, !.good = hall.form.good, !.filled = hall.form.filled]
         IN  /\ sheet \in LoanForms
             /\ sheet.no = hall.form.no /\ sheet.good = hall.form.good /\ sheet.filled = hall.form.filled
<1> DEFINE one == [NoForm EXCEPT !.no = hall.form.no]
           two == [one EXCEPT !.good = hall.form.good]
           sheet == [two EXCEPT !.filled = hall.form.filled]
<1>0. hall.form.no \in Nat /\ hall.form.good \in BOOLEAN /\ hall.form.filled \in BOOLEAN
  BY LoanRecords DEF LoanForms
<1>1. NoForm \in LoanForms BY DEF NoForm, LoanForms
<1>2. one \in LoanForms /\ one.no = hall.form.no BY <1>0, <1>1 DEF LoanForms
<1> HIDE DEF one
<1>3. two \in LoanForms /\ two.no = hall.form.no /\ two.good = hall.form.good BY <1>0, <1>2 DEF LoanForms
<1> HIDE DEF two
<1>4. /\ sheet \in LoanForms
      /\ sheet.no = hall.form.no /\ sheet.good = hall.form.good /\ sheet.filled = hall.form.filled
  BY <1>0, <1>3 DEF LoanForms
<1> QED BY <1>4 DEF one, two

\* The customer goes through the form, and its animations end.
LEMMA FormInv ==
  ASSUME LoanInv, ApplyNow \/ CloseForm \/ FadeOut \/ ShowStep \/ Edit \/ NextStep \/ PrevStep
  PROVE  LoanInv'
<1> USE LoanRecords
<1>1. /\ UNCHANGED <<apps, lent, doubled, unsure, mail, bench, toasts, met>>
      /\ opened' \in Nat /\ opened' >= opened /\ hurried \subseteq hurried'
  BY DEF ApplyNow, CloseForm, FadeOut, ShowStep, Edit, NextStep, PrevStep, Uses, Visits, Busied, loanRows, marks
<1>2. /\ hall' \in Halls /\ FormFilled'
      /\ \/ hall'.form.no = 0 \/ hall'.form.no > opened
         \/ hall'.form.no = hall.form.no /\ hall'.form.busy = hall.form.busy /\ (hall'.open => hall.open)
  <2> DEFINE f == hall.form
  <2>0. /\ f \in LoanForms /\ f.no <= opened /\ (f.no = 0 => f = NoForm)
        /\ f.no = 0 \/ f.no \in hurried
             \/ (f.step \in 1 .. 3 /\ (f.step >= 2 => f.good) /\ (f.step = 3 => f.filled))
    BY DEF LoanInv, FormFilled
  <2>1. CASE ApplyNow
    <3> DEFINE form == [NoForm EXCEPT !.no = opened + 1, !.step = 1, !.shown = 1, !.good = TRUE]
    <3>1. hall' = [hall EXCEPT !.open = TRUE, !.form = form] /\ opened' = opened + 1 BY <2>1 DEF ApplyNow
    <3>2. form \in LoanForms /\ form.no = opened + 1 /\ form.step = 1 /\ form.good BY NewForm
    <3> HIDE DEF form
    <3>3. hall' \in Halls /\ hall'.form = form BY <3>1, <3>2 DEF Halls
    <3> QED BY <3>1, <3>2, <3>3 DEF FormFilled
  <2>2. CASE CloseForm
    <3>1. hall' = [hall EXCEPT !.open = FALSE] /\ opened' = opened BY <2>2 DEF CloseForm
    <3>2. hall' \in Halls /\ hall'.form = f /\ ~ hall'.open BY <3>1 DEF Halls
    <3> HIDE DEF f
    <3>3. FormFilled' BY <1>1, <2>0, <3>1, <3>2 DEF FormFilled
    <3> QED BY <3>2, <3>3 DEF f
  <2>3. CASE FadeOut
    <3>1. hall' = [hall EXCEPT !.form = NoForm] /\ opened' = opened BY <2>3 DEF FadeOut
    <3>2. NoForm \in LoanForms /\ NoForm.no = 0 BY DEF NoForm, LoanForms
    <3>3. hall' \in Halls /\ hall'.form = NoForm BY <3>1, <3>2 DEF Halls
    <3> QED BY <3>1, <3>2, <3>3 DEF FormFilled
  <2>4. ASSUME NEW g \in LoanForms, g.no = f.no, g.busy = f.busy, f.no # 0,
               hall' = [hall EXCEPT !.form = g], opened' = opened,
               g.no \in hurried'
                 \/ (g.step \in 1 .. 3 /\ (g.step >= 2 => g.good) /\ (g.step = 3 => g.filled))
        PROVE  /\ hall' \in Halls /\ FormFilled'
               /\ hall'.form.no = hall.form.no /\ hall'.form.busy = hall.form.busy /\ (hall'.open => hall.open)
    <3>1. hall' \in Halls /\ hall'.form = g /\ hall'.open = hall.open BY <2>4 DEF Halls
    <3> QED BY <2>0, <2>4, <3>1 DEF FormFilled
  <2>5. f.no = 0 => f.shown = 0 /\ f.step = 0 BY <2>0 DEF NoForm
  <2>6. CASE ShowStep
    <3> DEFINE one == [f EXCEPT !.shown = f.step]
               g == [one EXCEPT !.passes = TRUE]
    <3>1. hall' = [hall EXCEPT !.form = g] /\ opened' = opened /\ hurried' = hurried /\ f.shown # f.step
      BY <2>6 DEF ShowStep, Leaving
    <3> HIDE DEF f
    <3>2. one \in LoanForms /\ one.no = f.no /\ one.busy = f.busy /\ one.step = f.step
          /\ one.good = f.good /\ one.filled = f.filled
      BY <2>0 DEF LoanForms
    <3> HIDE DEF one
    <3>3. g \in LoanForms /\ g.no = f.no /\ g.busy = f.busy /\ g.step = f.step
          /\ g.good = f.good /\ g.filled = f.filled
      BY <3>2 DEF LoanForms
    <3> HIDE DEF g
    <3> QED BY <2>0, <2>4, <2>5, <3>1, <3>3
  <2>7. ASSUME NEW steps, steps \subseteq 1 .. 3, Uses(steps)
        PROVE  /\ opened' = opened /\ f.shown \in steps /\ f.no # 0
               /\ f.no \in hurried' \/ (f.shown = f.step /\ f.step >= 1 /\ (f.step >= 2 => f.good) /\ (f.step = 3 => f.filled))
    BY <1>1, <2>0, <2>5, <2>7 DEF Uses, Leaving
  <2>8. CASE Edit
    <3>1. Uses({1, 2}) BY <2>8 DEF Edit
    <3>2. /\ opened' = opened /\ f.shown \in {1, 2} /\ f.no # 0
          /\ f.no \in hurried' \/ (f.shown = f.step /\ f.step >= 1 /\ (f.step >= 2 => f.good) /\ (f.step = 3 => f.filled))
      BY <2>7, <3>1
    <3>3. CASE f.shown = 1
      <4> DEFINE g == [f EXCEPT !.good = ~ @]
      <4>1. hall' = [hall EXCEPT !.form = g] BY <2>8, <3>3 DEF Edit
      <4> HIDE DEF f
      <4>2. g \in LoanForms /\ g.no = f.no /\ g.busy = f.busy /\ g.step = f.step BY <2>0 DEF LoanForms
      <4> HIDE DEF g
      <4> QED BY <2>4, <3>2, <3>3, <4>1, <4>2
    <3>4. CASE f.shown = 2
      <4> DEFINE g == [f EXCEPT !.filled = ~ @]
      <4>1. hall' = [hall EXCEPT !.form = g] BY <2>8, <3>4 DEF Edit
      <4> HIDE DEF f
      <4>2. g \in LoanForms /\ g.no = f.no /\ g.busy = f.busy /\ g.step = f.step /\ g.good = f.good
        BY <2>0 DEF LoanForms
      <4> HIDE DEF g
      <4> QED BY <2>4, <3>2, <3>4, <4>1, <4>2
    <3> HIDE DEF f
    <3> QED BY <3>2, <3>3, <3>4
  <2>9. ASSUME NEW by \in {1, -1}, hall' = [hall EXCEPT !.form = Moved(f, by)], opened' = opened, f.no # 0,
               by = 1 => Checked(f),
               f.no \in hurried' \/ (f.shown = f.step /\ f.step \in (IF by = 1 THEN 1 .. 2 ELSE 2 .. 3)
                                    /\ (f.step >= 2 => f.good) /\ (f.step = 3 => f.filled))
        PROVE  /\ hall' \in Halls /\ FormFilled'
               /\ hall'.form.no = hall.form.no /\ hall'.form.busy = hall.form.busy /\ (hall'.open => hall.open)
    <3> DEFINE one == [f EXCEPT !.step = @ + by]
               g == [one EXCEPT !.passes = Checked(f)]
    <3>1. g = Moved(f, by) BY DEF Moved
    <3> HIDE DEF f
    <3>2. Checked(f) \in BOOLEAN BY <2>0 DEF Checked, LoanForms
    <3>3. one \in LoanForms /\ one.no = f.no /\ one.busy = f.busy /\ one.step = f.step + by
          /\ one.good = f.good /\ one.filled = f.filled
      BY <2>0 DEF LoanForms
    <3> HIDE DEF one
    <3>4. g \in LoanForms /\ g.no = f.no /\ g.busy = f.busy /\ g.step = f.step + by
          /\ g.good = f.good /\ g.filled = f.filled
      BY <3>2, <3>3 DEF LoanForms
    <3> HIDE DEF g
    <3>5. f.step \in Int /\ f.shown \in Int BY <2>0 DEF LoanForms
    <3>6. CASE by = 1
      <4>1. f.no \in hurried' \/ (f.step = 1 /\ f.good) \/ (f.step = 2 /\ f.good /\ f.filled)
        BY <2>9, <3>5, <3>6 DEF Checked, Leaving
      <4> QED BY <2>4, <2>9, <3>1, <3>4, <3>6, <4>1
    <3>7. CASE by = -1
      <4>1. f.no \in hurried' \/ f.step = 2 \/ (f.step = 3 /\ f.good) BY <2>9, <3>5, <3>7
      <4> QED BY <2>4, <2>9, <3>1, <3>4, <3>7, <4>1
    <3> QED BY <3>6, <3>7
  <2>10. CASE NextStep
    <3>1. Uses({1, 2}) /\ Checked(f) /\ hall' = [hall EXCEPT !.form = Moved(f, 1)] BY <2>10 DEF NextStep
    <3>2. /\ opened' = opened /\ f.shown \in {1, 2} /\ f.no # 0
          /\ f.no \in hurried' \/ (f.shown = f.step /\ f.step >= 1 /\ (f.step >= 2 => f.good) /\ (f.step = 3 => f.filled))
      BY <2>7, <3>1
    <3> HIDE DEF f
    <3> QED BY <2>9, <3>1, <3>2
  <2>11. CASE PrevStep
    <3>1. Uses({2, 3}) /\ hall' = [hall EXCEPT !.form = Moved(f, -1)] BY <2>11 DEF PrevStep
    <3>2. /\ opened' = opened /\ f.shown \in {2, 3} /\ f.no # 0
          /\ f.no \in hurried' \/ (f.shown = f.step /\ f.step >= 1 /\ (f.step >= 2 => f.good) /\ (f.step = 3 => f.filled))
      BY <2>7, <3>1
    <3> HIDE DEF f
    <3> QED BY <2>9, <3>1, <3>2
  <2> QED BY <2>1, <2>2, <2>3, <2>6, <2>8, <2>10, <2>11
<1>3. Follow(mail', mail, {}) BY <1>1, SelfFollows
<1>4. /\ \A t \in toasts' : Asking(t)'
      /\ \A a \in Admins : /\ bench'[a].open => bench'[a].app \in DOMAIN apps
                           /\ bench'[a].target \in met'[a] \cup {Nobody}
  BY <1>1 DEF LoanInv, TargetsKnown, Asking
<1> QED BY <1>1, <1>2, <1>3, <1>4, LoanQuiet

\* Renew keeps the invariant.
LEMMA RenewInv ==
  ASSUME LoanInv, Renew PROVE LoanInv'
<1> USE LoanRecords
<1> DEFINE l == Letter(Applicant, "list", 0, Nobody)
<1>1. /\ UNCHANGED <<apps, lent, doubled, unsure, hurried, bench, toasts, met, opened>>
      /\ mail' = Posted(mail, l)
      /\ hall' = [hall EXCEPT !.fetching = TRUE]
  BY DEF Renew, Visits, Busied, loanRows, marks
<1>2. l \in Letters BY LetterType DEF LoanKinds
<1>3. Follow(mail', mail, {l}) BY <1>1, <1>2, PostedFollows
<1>4. hall' \in Halls /\ hall'.form = hall.form /\ hall'.open = hall.open BY <1>1 DEF Halls
<1>5. FormFilled' BY <1>1, <1>4 DEF LoanInv, FormFilled
<1>6. /\ \A t \in toasts' : Asking(t)'
      /\ \A a \in Admins : /\ bench'[a].open => bench'[a].app \in DOMAIN apps
                           /\ bench'[a].target \in met'[a] \cup {Nobody}
  BY <1>1 DEF LoanInv, TargetsKnown, Asking
<1>7. l.kind # "apply" /\ Addressed(l)' /\ l.stage # "checked"
  BY DEF Letter, Addressed
<1> HIDE DEF l
<1>8. /\ opened' >= opened /\ opened' \in Nat
      /\ hall'.form.no = hall.form.no /\ hall'.form.busy = hall.form.busy /\ (hall'.open => hall.open)
      /\ bench' \in [Admins -> Benches] /\ toasts' \subseteq Questions
      /\ met' \in [Admins -> SUBSET Clients] /\ \A a \in Admins : met[a] \subseteq met'[a]
  BY <1>1, <1>4
<1>9. UNCHANGED <<apps, lent, doubled, unsure, hurried>> BY <1>1
<1>10. \A m \in {l} : /\ m.kind # "apply" /\ Addressed(m)'
                      /\ m.stage = "checked" => m.app \in doubled \/ apps[m.app].state = "PENDING"
  BY <1>7
<1>11. hall' \in Halls BY <1>4
<1> QED BY <1>3, <1>5, <1>6, <1>8, <1>9, <1>10, <1>11, LoanQuiet

\* A request for the list or for a decision, from the page of an administrator.
LEMMA ClerkInv ==
  ASSUME LoanInv, NEW a \in Admins,
         RefreshList(a) \/ CloseDetails(a) \/ (\E i \in DOMAIN apps, deed \in {"approve", "reject"} : Ask(a, i, deed))
  PROVE  LoanInv'
<1> USE LoanRecords
<1>1. UNCHANGED <<apps, lent, doubled, unsure, hurried, met, opened, hall>>
  BY DEF RefreshList, CloseDetails, Ask, Reviews, Busied, loanRows, marks
<1>2. FormFilled' BY <1>1 DEF LoanInv, FormFilled
<1>3. /\ \A t \in toasts : Asking(t)'
      /\ \A b \in Admins : /\ bench[b].open => bench[b].app \in DOMAIN apps
                           /\ bench[b].target \in met[b] \cup {Nobody}
  BY <1>1 DEF LoanInv, TargetsKnown, Asking
<1>4. CASE RefreshList(a)
  <2>1. Letter(a, "list", 0, Nobody) \in Letters BY LetterType DEF LoanKinds
  <2>2. Follow(mail', mail, {Letter(a, "list", 0, Nobody)}) BY <1>4, <2>1, PostedFollows DEF RefreshList
  <2>3. \A l \in {Letter(a, "list", 0, Nobody)} : l.kind # "apply" /\ Addressed(l)' /\ l.stage # "checked"
    BY DEF Letter, Addressed
  <2>4. /\ bench' \in [Admins -> Benches] /\ toasts' = toasts
        /\ \A b \in Admins : bench'[b].open = bench[b].open /\ bench'[b].app = bench[b].app /\ bench'[b].target = bench[b].target
    BY <1>4 DEF RefreshList, Benches
  <2> QED BY <1>1, <1>2, <1>3, <2>2, <2>3, <2>4, LoanQuiet
<1>5. CASE CloseDetails(a)
  <2>1. Follow(mail', mail, {}) BY <1>5, SelfFollows DEF CloseDetails
  <2>2. /\ bench' \in [Admins -> Benches] /\ toasts' = toasts
        /\ \A b \in Admins : /\ bench'[b].open => bench[b].open
                             /\ bench'[b].app = bench[b].app /\ bench'[b].target = bench[b].target
    BY <1>5 DEF CloseDetails, Benches
  <2> QED BY <1>1, <1>2, <1>3, <2>1, <2>2, LoanQuiet
<1>6. ASSUME NEW i \in DOMAIN apps, NEW deed \in {"approve", "reject"}, Ask(a, i, deed)
      PROVE  LoanInv'
  <2>1. Follow(mail', mail, {}) BY <1>6, SelfFollows DEF Ask
  <2>2. i \in Nat BY Elements DEF LoanInv
  <2>3. bench' = bench /\ toasts' = toasts \cup {[by |-> a, app |-> i, deed |-> deed, target |-> bench[a].target]}
    BY <1>6 DEF Ask
  <2>4. toasts' \subseteq Questions
    <3>1. bench[a].target \in Accounts BY DEF Benches
    <3> QED BY <2>2, <2>3, <3>1 DEF Questions
  <2>5. \A t \in toasts' : Asking(t)'
    BY <1>1, <1>3, <2>3 DEF Asking
  <2> QED BY <1>1, <1>2, <1>3, <2>1, <2>3, <2>4, <2>5, LoanQuiet
<1> QED BY <1>4, <1>5, <1>6

\* OpenDetails keeps the invariant.
LEMMA OpenDetailsInv ==
  ASSUME LoanInv, NEW a \in Admins, NEW i \in DOMAIN apps, OpenDetails(a, i)
  PROVE  LoanInv'
<1> USE LoanRecords
<1>1. /\ UNCHANGED <<apps, lent, doubled, unsure, hurried, opened, hall, toasts>>
      /\ bench[a].list[i] \in AppStates
      /\ bench' = [bench EXCEPT ![a].open = TRUE, ![a].app = i, ![a].state = bench[a].list[i]]
      /\ mail' = Posted(mail, Letter(a, "details", i, Nobody))
      /\ met' = [met EXCEPT ![a] = @ \cup {apps[i].client}]
  <2>1. bench[a].list \in LoanLists BY DEF Benches
  <2>2. i \in DOMAIN bench[a].list BY DEF OpenDetails, Row
  <2>3. bench[a].list[i] \in AppStates BY <2>1, <2>2 DEF LoanLists
  <2> QED BY <2>3 DEF OpenDetails, Spends, loanRows
<1>2. i \in Nat /\ apps[i].client \in Clients BY Elements DEF LoanInv, Applications
<1>3. Letter(a, "details", i, Nobody) \in Letters BY <1>2, LetterType DEF LoanKinds
<1>4. Follow(mail', mail, {Letter(a, "details", i, Nobody)}) BY <1>1, <1>3, PostedFollows
<1>5. /\ met' \in [Admins -> SUBSET Clients] /\ apps[i].client \in met'[a]
      /\ \A b \in Admins : met[b] \subseteq met'[b]
  BY <1>1, <1>2
<1>6. \A l \in {Letter(a, "details", i, Nobody)} : l.kind # "apply" /\ Addressed(l)' /\ l.stage # "checked"
  BY <1>1, <1>5 DEF Letter, Addressed
<1>7. /\ bench' \in [Admins -> Benches]
      /\ \A b \in Admins : /\ bench'[b].target = bench[b].target
                           /\ b # a => bench'[b] = bench[b]
                           /\ b = a => bench'[b].app = i
  <2>1. bench'[a] = [bench[a] EXCEPT !.open = TRUE, !.app = i, !.state = bench[a].list[i]]
    BY <1>1
  <2>2. bench'[a] \in Benches /\ bench'[a].target = bench[a].target /\ bench'[a].app = i
    <3>1. bench[a] \in Benches /\ bench[a].list[i] \in AppStates \cup {""} BY <1>1
    <3> QED BY <1>2, <2>1, <3>1 DEF Benches
  <2> QED BY <1>1, <2>2
<1>8. FormFilled' BY <1>1 DEF LoanInv, FormFilled
<1>9. \A t \in toasts' : Asking(t)'
  BY <1>1, <1>5 DEF LoanInv, TargetsKnown, Asking, Questions
<1>10. \A b \in Admins : /\ bench'[b].open => bench'[b].app \in DOMAIN apps
                         /\ bench'[b].target \in met'[b] \cup {Nobody}
  BY <1>5, <1>7 DEF LoanInv, TargetsKnown
<1> QED BY <1>1, <1>4, <1>5, <1>6, <1>7, <1>8, <1>9, <1>10, LoanQuiet

\* A decision is sent: with the account the page knows, or after the account is looked for.
LEMMA DecideInv ==
  ASSUME LoanInv, NEW t, t \in Questions, Asking(t), Perform(t), t.deed = "approve" => t.target = Nobody \/ t.target \in met[t.by],
         toasts' \subseteq toasts, UNCHANGED <<apps, lent, doubled, unsure, hurried, met, opened, hall>>
  PROVE  LoanInv'
<1> USE LoanRecords
<1>1. t.by \in Admins /\ t.app \in Nat /\ t.target \in Accounts /\ t.deed \in {"approve", "reject"}
  BY DEF Questions
<1> DEFINE l == Letter(t.by, FirstCall(t), t.app, t.target)
<1>2. FirstCall(t) \in {"approve", "reject", "find"} /\ (FirstCall(t) = "find" => t.target = Nobody)
      /\ (FirstCall(t) = "approve" => t.target # Nobody)
  BY <1>1 DEF FirstCall
<1>3. l \in Letters BY <1>1, <1>2, LetterType DEF LoanKinds
<1>4. l.kind # "apply" /\ Addressed(l)' /\ l.stage # "checked"
  BY <1>1, <1>2 DEF Letter, Addressed, Asking
<1>5. mail' = Posted(mail, l) /\ bench' = [bench EXCEPT ![t.by].busy = t.app] BY DEF Perform
<1> HIDE DEF l
<1>6. Follow(mail', mail, {l}) BY <1>3, <1>5, PostedFollows
<1>7. /\ bench' \in [Admins -> Benches]
      /\ \A b \in Admins : bench'[b].open = bench[b].open /\ bench'[b].app = bench[b].app /\ bench'[b].target = bench[b].target
  BY <1>1, <1>5 DEF Benches
<1>8. FormFilled' BY DEF LoanInv, FormFilled
<1>9. \A q \in toasts' : Asking(q)' BY DEF LoanInv, TargetsKnown, Asking
<1>10. \A b \in Admins : /\ bench'[b].open => bench'[b].app \in DOMAIN apps
                         /\ bench'[b].target \in met'[b] \cup {Nobody}
  BY <1>7 DEF LoanInv, TargetsKnown
<1> QED BY <1>4, <1>6, <1>7, <1>8, <1>9, <1>10, LoanQuiet

\* Whatever an administrator does keeps the invariant.
LEMMA ReviewingInv ==
  ASSUME LoanInv, NEW a \in Admins, Reviewing(a)
  PROVE  LoanInv'
<1> USE LoanRecords
<1>1. CASE RefreshList(a) \/ CloseDetails(a) BY <1>1, ClerkInv
<1>2. ASSUME NEW i \in DOMAIN apps, OpenDetails(a, i) \/ \E deed \in {"approve", "reject"} : Ask(a, i, deed)
      PROVE  LoanInv'
  BY <1>2, ClerkInv, OpenDetailsInv
<1>3. ASSUME NEW deed \in {"approve", "reject"}, Decide(a, deed)
      PROVE  LoanInv'
  <2> DEFINE t == [by |-> a, app |-> bench[a].app, deed |-> deed, target |-> bench[a].target]
  <2>1. /\ UNCHANGED <<apps, lent, doubled, unsure, hurried, met, opened, hall, toasts>>
        /\ bench[a].open /\ Perform(t)
        /\ deed = "approve" => bench[a].target # Nobody
    BY <1>3 DEF Decide, Reviews, Busied, loanRows, marks
  <2>2. bench[a].app \in Nat /\ bench[a].target \in Accounts BY DEF Benches
  <2>3. bench[a].app \in DOMAIN apps /\ bench[a].target \in met[a] \cup {Nobody}
    BY <2>1 DEF LoanInv, TargetsKnown
  <2>4. /\ t \in Questions /\ t.app = bench[a].app /\ t.target = bench[a].target /\ t.by = a /\ t.deed = deed
    BY <2>2 DEF Questions
  <2> HIDE DEF t
  <2>5. Asking(t) /\ (t.deed = "approve" => t.target = Nobody \/ t.target \in met[t.by])
    BY <2>3, <2>4 DEF Asking
  <2> QED BY <2>1, <2>4, <2>5, DecideInv
<1> QED BY <1>1, <1>2, <1>3 DEF Reviewing

\* A question that is answered on the screen keeps the invariant.
LEMMA ConfirmInv ==
  ASSUME LoanInv, NEW t \in toasts, Confirm(t)
  PROVE  LoanInv'
<1>1. t \in Questions /\ Asking(t) BY LoanRecords DEF LoanInv, TargetsKnown
<1>2. /\ UNCHANGED <<apps, lent, doubled, unsure, hurried, met, opened, hall>>
      /\ toasts' \subseteq toasts /\ Perform(t)
  BY DEF Confirm, Reviews, Busied, loanRows, marks
<1>3. t.target = Nobody \/ t.target \in met[t.by] BY <1>1 DEF Asking
<1> QED BY <1>1, <1>2, <1>3, DecideInv

\* What stays as it is while a handler works or an answer is taken.
LEMMA Unmoved ==
  ASSUME LoanInv, UNCHANGED <<apps, lent, doubled, unsure, hurried, toasts, opened, met>>
  PROVE  /\ \A t \in toasts' : Asking(t)'
         /\ \A l : Addressed(l)' = Addressed(l)
         /\ toasts' \subseteq Questions /\ opened' \in Nat /\ opened' >= opened
         /\ met' \in [Admins -> SUBSET Clients] /\ \A a \in Admins : met[a] \subseteq met'[a]
         /\ \A a \in Admins : /\ bench[a].open => bench[a].app \in DOMAIN apps
                              /\ bench[a].target \in met'[a] \cup {Nobody}
BY LoanRecords DEF LoanInv, TargetsKnown, Asking, Addressed

\* A handler reads and answers, or passes its check.
LEMMA HandledInv ==
  ASSUME LoanInv, NEW k \in DOMAIN mail, NEW l \in Letters, mail' = [mail EXCEPT ![k] = l],
         UNCHANGED <<apps, lent, doubled, unsure, hurried, toasts, opened, met, hall, bench>>,
         l.kind # "apply", Addressed(l),
         l.stage = "checked" => l.app \in doubled \/ apps[l.app].state = "PENDING"
  PROVE  LoanInv'
<1>1. Follow(mail', mail, {l}) BY ChangedFollows, LoanRecords
<1>2. FormFilled' BY DEF LoanInv, FormFilled
<1>3. hall' \in Halls /\ bench' \in [Admins -> Benches] BY LoanRecords
<1>4. \A m \in {l} : /\ m.kind # "apply" /\ Addressed(m)'
                     /\ m.stage = "checked" => m.app \in doubled \/ apps[m.app].state = "PENDING"
  BY Unmoved
<1>5. /\ \A t \in toasts' : Asking(t)'
      /\ toasts' \subseteq Questions /\ opened' \in Nat /\ opened' >= opened
      /\ met' \in [Admins -> SUBSET Clients] /\ \A a \in Admins : met[a] \subseteq met'[a]
      /\ \A a \in Admins : /\ bench'[a].open => bench'[a].app \in DOMAIN apps
                           /\ bench'[a].target \in met'[a] \cup {Nobody}
      /\ hall'.form.no = hall.form.no /\ hall'.form.busy = hall.form.busy /\ (hall'.open => hall.open)
  BY Unmoved
<1>6. UNCHANGED <<apps, lent, doubled, unsure, hurried>> OBVIOUS
<1> DEFINE new == {l}
<1>7. /\ Follow(mail', mail, new)
      /\ \A m \in new : /\ m.kind # "apply" /\ Addressed(m)'
                        /\ m.stage = "checked" => m.app \in doubled \/ apps[m.app].state = "PENDING"
  BY <1>1, <1>4
<1> HIDE DEF new
<1> QED BY <1>2, <1>3, <1>5, <1>6, <1>7, LoanQuiet

\* ServeList keeps the invariant.
LEMMA ServeListInv ==
  ASSUME LoanInv, NEW k, ServeList(k)
  PROVE  LoanInv'
<1> USE LoanRecords
<1>1. /\ k \in DOMAIN mail /\ mail[k].kind \in ListReads
      /\ UNCHANGED <<apps, lent, doubled, unsure, hurried, toasts, opened, met, hall, bench>>
  BY DEF ServeList, Asks, Server, loanRows
<1> DEFINE l == [Filled(mail[k], TRUE) EXCEPT !.list = Listed(mail[k].from)]
<1>2. mail' = [mail EXCEPT ![k] = l] BY DEF ServeList
<1>3. Listed(mail[k].from) \in LoanLists
  <2>1. \A i \in DOMAIN apps : i \in Nat /\ apps[i].state \in AppStates BY Elements DEF LoanInv, Applications
  <2> DEFINE D == IF mail[k].from = Applicant THEN {i \in DOMAIN apps : apps[i].client = Applicant} ELSE DOMAIN apps
  <2>2. Listed(mail[k].from) = [i \in D |-> apps[i].state] BY DEF Listed
  <2>3. D \in SUBSET Nat /\ D \subseteq DOMAIN apps BY <2>1
  <2> HIDE DEF D
  <2>4. Listed(mail[k].from) \in [D -> AppStates] BY <2>1, <2>2, <2>3
  <2> QED BY <2>3, <2>4 DEF LoanLists
<1>4. mail[k] \in Letters BY <1>1
<1> DEFINE m == [mail[k] EXCEPT !.stage = "done", !.ok = TRUE]
<1>5. m \in Letters /\ m.kind = mail[k].kind /\ m.stage = "done" BY <1>4 DEF Letters
<1>6. l = [m EXCEPT !.list = Listed(mail[k].from)] BY DEF Filled
<1> HIDE DEF m
<1>7. l \in Letters /\ l.kind = mail[k].kind /\ l.stage = "done" BY <1>3, <1>5, <1>6 DEF Letters
<1> HIDE DEF l
<1>8. Addressed(l) BY <1>1, <1>7 DEF Addressed, ListReads
<1> QED BY <1>1, <1>2, <1>7, <1>8, HandledInv DEF ListReads

\* ServeAccounts keeps the invariant.
LEMMA ServeAccountsInv ==
  ASSUME LoanInv, NEW k, ServeAccounts(k)
  PROVE  LoanInv'
<1> USE LoanRecords
<1> DEFINE owner == IF mail[k].kind = "accounts" THEN Applicant ELSE apps[mail[k].app].client
           to == IF owner \in Banked THEN owner ELSE Nobody
           m == [mail[k] EXCEPT !.stage = "done", !.ok = TRUE]
           l == [m EXCEPT !.to = to]
<1>1. /\ k \in DOMAIN mail /\ mail[k].kind \in {"accounts", "details", "find"} /\ mail[k].stage = "sent"
      /\ UNCHANGED <<apps, lent, doubled, unsure, hurried, toasts, opened, met, hall, bench>>
      /\ mail' = [mail EXCEPT ![k] = [Filled(mail[k], TRUE) EXCEPT !.to = to]]
  BY DEF ServeAccounts, Asks, Server, loanRows
<1>2. mail' = [mail EXCEPT ![k] = l] BY <1>1 DEF Filled
<1>3. to \in Accounts /\ to \in {Nobody, owner} BY LoanAssumption DEF Accounts
<1>4. mail[k].kind # "accounts" => owner = apps[mail[k].app].client OBVIOUS
<1> HIDE DEF to, owner
<1>5. mail[k] \in Letters /\ Addressed(mail[k]) BY <1>1 DEF LoanInv, TargetsKnown
<1>6. m \in Letters /\ m.kind = mail[k].kind /\ m.stage = "done" /\ m.app = mail[k].app /\ m.from = mail[k].from
  BY <1>5 DEF Letters
<1> HIDE DEF m
<1>7. l \in Letters /\ l.kind = mail[k].kind /\ l.stage = "done" /\ l.app = mail[k].app /\ l.from = mail[k].from /\ l.to = to
  BY <1>3, <1>6 DEF Letters
<1> HIDE DEF l
<1>8. Addressed(l) BY <1>1, <1>3, <1>4, <1>5, <1>7 DEF Addressed
<1> QED BY <1>1, <1>2, <1>7, <1>8, HandledInv

\* CheckDeed keeps the invariant.
LEMMA CheckDeedInv ==
  ASSUME LoanInv, NEW k, CheckDeed(k)
  PROVE  LoanInv'
<1> USE LoanRecords
<1> DEFINE l == IF apps[mail[k].app].state = "PENDING" THEN [mail[k] EXCEPT !.stage = "checked"] ELSE Filled(mail[k], FALSE)
<1>1. /\ k \in DOMAIN mail /\ mail[k].kind \in {"approve", "reject"} /\ mail[k].stage = "sent"
      /\ UNCHANGED <<apps, lent, doubled, unsure, hurried, toasts, opened, met, hall, bench>>
      /\ mail' = [mail EXCEPT ![k] = l]
  BY DEF CheckDeed, Asks, Server, loanRows
<1>2. mail[k] \in Letters /\ Addressed(mail[k]) BY <1>1 DEF LoanInv, TargetsKnown
<1>3. /\ l \in Letters /\ l.kind = mail[k].kind /\ l.app = mail[k].app /\ l.from = mail[k].from /\ l.to = mail[k].to
      /\ l.stage = "checked" => apps[l.app].state = "PENDING"
  <2>1. CASE apps[mail[k].app].state = "PENDING"
    <3> DEFINE c == [mail[k] EXCEPT !.stage = "checked"]
    <3>1. c \in Letters /\ c.kind = mail[k].kind /\ c.app = mail[k].app /\ c.from = mail[k].from /\ c.to = mail[k].to
      BY <1>2 DEF Letters
    <3>2. l = c BY <2>1
    <3> HIDE DEF c, l
    <3> QED BY <2>1, <3>1, <3>2
  <2>2. CASE ~ (apps[mail[k].app].state = "PENDING")
    <3> DEFINE c == [mail[k] EXCEPT !.stage = "done", !.ok = FALSE]
    <3>1. c \in Letters /\ c.kind = mail[k].kind /\ c.app = mail[k].app /\ c.from = mail[k].from /\ c.to = mail[k].to
          /\ c.stage = "done"
      BY <1>2 DEF Letters
    <3>2. l = c BY <2>2 DEF Filled
    <3> HIDE DEF c, l
    <3> QED BY <3>1, <3>2
  <2> QED BY <2>1, <2>2
<1> HIDE DEF l
<1>4. Addressed(l) BY <1>1, <1>2, <1>3 DEF Addressed
<1> QED BY <1>1, <1>3, <1>4, HandledInv

\* An answer is taken: a request goes, and another may be sent.
LEMMA TakenInv ==
  ASSUME LoanInv, NEW new, Follow(mail', mail, new),
         UNCHANGED <<apps, lent, doubled, unsure, hurried, toasts, opened, met>>,
         hall' \in Halls, hall'.form = hall.form, hall'.open => hall.open, bench' \in [Admins -> Benches],
         \A l \in new : l.kind # "apply" /\ Addressed(l) /\ l.stage # "checked",
         \A a \in Admins : /\ bench'[a].open => bench[a].open /\ bench'[a].app = bench[a].app
                           /\ bench'[a].target \in met[a] \cup {Nobody}
  PROVE  LoanInv'
<1>1. FormFilled' BY DEF LoanInv, FormFilled
<1>2. \A m \in new : /\ m.kind # "apply" /\ Addressed(m)'
                     /\ m.stage = "checked" => m.app \in doubled \/ apps[m.app].state = "PENDING"
  BY Unmoved
<1>3. /\ \A t \in toasts' : Asking(t)'
      /\ toasts' \subseteq Questions /\ opened' \in Nat /\ opened' >= opened
      /\ met' \in [Admins -> SUBSET Clients] /\ \A a \in Admins : met[a] \subseteq met'[a]
      /\ \A a \in Admins : /\ bench'[a].open => bench'[a].app \in DOMAIN apps
                           /\ bench'[a].target \in met'[a] \cup {Nobody}
      /\ hall'.form.no = hall.form.no /\ hall'.form.busy = hall.form.busy /\ (hall'.open => hall.open)
  BY Unmoved
<1>4. UNCHANGED <<apps, lent, doubled, unsure, hurried>> OBVIOUS
<1> QED BY <1>1, <1>2, <1>3, <1>4, LoanQuiet

\* OnFirst keeps the invariant.
LEMMA OnFirstInv ==
  ASSUME LoanInv, NEW k, OnFirst(k) \/ OnAccounts(k)
  PROVE  LoanInv'
<1> USE LoanRecords
<1>1. /\ k \in DOMAIN mail
      /\ UNCHANGED <<apps, lent, doubled, unsure, hurried, toasts, opened, met, bench>>
  BY DEF OnFirst, OnAccounts, Comes, Taking, loanRows
<1>2. mail[k] \in Letters BY <1>1
<1> DEFINE new == Letter(Applicant, "accounts", 0, Nobody)
<1>3. new \in Letters BY LetterType DEF LoanKinds
<1>4. new.kind # "apply" /\ Addressed(new) /\ new.stage # "checked" BY DEF Letter, Addressed
<1>5. \/ mail' = RemoveAt(mail, k) \/ mail' = Posted(RemoveAt(mail, k), new)
  BY DEF OnFirst, OnAccounts, Remaining
<1> HIDE DEF new
<1>6. Follow(mail', mail, {}) \/ Follow(mail', mail, {new})
  BY <1>1, <1>3, <1>5, RemovedFollows, AnsweredFollows
<1>7. \A m \in {new} : m.kind # "apply" /\ Addressed(m) /\ m.stage # "checked" BY <1>4
<1>8. hall' \in Halls /\ hall'.form = hall.form /\ (hall'.open => hall.open)
  <2>1. CASE OnFirst(k)
    <3>1. mail[k].list \in LoanLists BY <1>2 DEF Letters
    <3> DEFINE h == [hall EXCEPT !.list = IF mail[k].ok THEN mail[k].list ELSE @]
    <3>2. h \in Halls /\ h.form = hall.form /\ h.open = hall.open BY <3>1 DEF Halls
    <3>3. hall' = h \/ hall' = [h EXCEPT !.loading = FALSE, !.fetching = FALSE] BY <2>1 DEF OnFirst
    <3> HIDE DEF h
    <3>4. [h EXCEPT !.loading = FALSE] \in Halls /\ [h EXCEPT !.loading = FALSE].form = h.form
          /\ [h EXCEPT !.loading = FALSE].open = h.open
      BY <3>2 DEF Halls
    <3> QED BY <3>2, <3>3, <3>4 DEF Halls
  <2>2. CASE OnAccounts(k)
    <3>1. hall' = [hall EXCEPT !.loading = FALSE, !.fetching = FALSE] BY <2>2 DEF OnAccounts
    <3> QED BY <3>1 DEF Halls
  <2> QED BY <2>1, <2>2
<1>9. /\ bench' \in [Admins -> Benches]
      /\ \A a \in Admins : /\ bench'[a].open => bench[a].open /\ bench'[a].app = bench[a].app
                           /\ bench'[a].target \in met[a] \cup {Nobody}
  BY <1>1 DEF LoanInv, TargetsKnown
<1> QED BY <1>1, <1>6, <1>7, <1>8, <1>9, TakenInv

\* OnList keeps the invariant.
LEMMA OnListInv ==
  ASSUME LoanInv, NEW k, OnList(k)
  PROVE  LoanInv'
<1>0. /\ bench \in [Admins -> Benches] /\ hall \in Halls /\ mail \in Seq(Letters)
      /\ Nobody \in Accounts /\ \A j \in DOMAIN mail : mail[j] \in Letters
  BY LoanRecords
<1> DEFINE l == mail[k]
<1>1. /\ k \in DOMAIN mail /\ mail' = RemoveAt(mail, k)
      /\ UNCHANGED <<apps, lent, doubled, unsure, hurried, toasts, opened, met>>
  BY DEF OnList, Comes, Taking, loanRows, Remaining
<1>2. l \in Letters /\ l.list \in LoanLists BY <1>0, <1>1 DEF Letters
<1>3. Follow(mail', mail, {}) BY <1>0, <1>1, RemovedFollows
<1>4. hall' \in Halls /\ hall'.form = hall.form /\ (hall'.open => hall.open)
  <2>1. hall' = hall \/ hall' = [hall EXCEPT !.fetching = FALSE, !.list = IF l.ok THEN l.list ELSE @] BY DEF OnList
  <2> HIDE DEF l
  <2> QED BY <1>0, <1>2, <2>1 DEF Halls
<1>5. /\ bench' \in [Admins -> Benches]
      /\ \A a \in Admins : bench'[a].open = bench[a].open /\ bench'[a].app = bench[a].app /\ bench'[a].target = bench[a].target
  <2>1. CASE bench' = bench BY <1>0, <2>1
  <2>2. CASE l.from # Applicant /\ bench' = [bench EXCEPT ![l.from].loading = FALSE, ![l.from].list = IF l.ok THEN l.list ELSE @]
    <3>1. l.from \in Admins BY <1>2, <2>2 DEF Letters, Pages
    <3> DEFINE list == IF l.ok THEN l.list ELSE bench[l.from].list
    <3>2. list \in LoanLists BY <1>0, <1>2, <3>1 DEF Benches
    <3>3. bench' = [bench EXCEPT ![l.from].loading = FALSE, ![l.from].list = list] BY <2>2
    <3> HIDE DEF list, l
    <3> QED BY <1>0, <3>2, <3>3 DEF Benches
  <2> QED BY <2>1, <2>2 DEF OnList
<1>6. \A a \in Admins : /\ bench'[a].open => bench[a].open /\ bench'[a].app = bench[a].app
                        /\ bench'[a].target \in met[a] \cup {Nobody}
  BY <1>5 DEF LoanInv, TargetsKnown
<1> QED BY <1>1, <1>3, <1>4, <1>5, <1>6, TakenInv

\* OnDetails keeps the invariant.
LEMMA OnDetailsInv ==
  ASSUME LoanInv, NEW k, OnDetails(k)
  PROVE  LoanInv'
<1>0. /\ bench \in [Admins -> Benches] /\ hall \in Halls /\ mail \in Seq(Letters)
      /\ Nobody \in Accounts /\ \A j \in DOMAIN mail : mail[j] \in Letters
  BY LoanRecords
<1> DEFINE l == mail[k]
<1>1. /\ k \in DOMAIN mail /\ mail' = RemoveAt(mail, k) /\ l.kind = "details"
      /\ UNCHANGED <<apps, lent, doubled, unsure, hurried, toasts, opened, met, hall>>
  BY DEF OnDetails, Comes, Taking, loanRows, Remaining
<1>2. l \in Letters /\ l.to \in Accounts BY <1>0, <1>1 DEF Letters
<1>3. l.from \in Admins /\ l.to \in met[l.from] \cup {Nobody}
  BY <1>1 DEF LoanInv, TargetsKnown, Addressed
<1>4. Follow(mail', mail, {}) BY <1>0, <1>1, RemovedFollows
<1>5. /\ bench' \in [Admins -> Benches]
      /\ \A a \in Admins : /\ bench'[a].open = bench[a].open /\ bench'[a].app = bench[a].app
                           /\ bench'[a].target = bench[a].target \/ (a = l.from /\ bench'[a].target = l.to)
  <2>1. bench' = bench \/ bench' = [bench EXCEPT ![l.from].target = l.to] BY DEF OnDetails
  <2> HIDE DEF l
  <2>2. CASE bench' = bench BY <1>0, <2>2
  <2>3. CASE bench' = [bench EXCEPT ![l.from].target = l.to] BY <1>0, <1>2, <2>3 DEF Benches
  <2> QED BY <2>1, <2>2, <2>3
<1> HIDE DEF l
<1>6. \A a \in Admins : /\ bench'[a].open => bench[a].open /\ bench'[a].app = bench[a].app
                        /\ bench'[a].target \in met[a] \cup {Nobody}
  BY <1>3, <1>5 DEF LoanInv, TargetsKnown
<1>7. hall' \in Halls /\ hall'.form = hall.form /\ (hall'.open => hall.open) BY <1>0, <1>1
<1> QED BY <1>1, <1>4, <1>5, <1>6, <1>7, TakenInv

\* OnFind keeps the invariant.
LEMMA OnFindInv ==
  ASSUME LoanInv, NEW k, OnFind(k)
  PROVE  LoanInv'
<1>0. /\ bench \in [Admins -> Benches] /\ hall \in Halls /\ mail \in Seq(Letters)
      /\ Nobody \in Accounts /\ \A j \in DOMAIN mail : mail[j] \in Letters
  BY LoanRecords
<1> DEFINE l == mail[k]
           new == Letter(l.from, "approve", l.app, l.to)
<1>1. /\ k \in DOMAIN mail /\ l.kind = "find"
      /\ UNCHANGED <<apps, lent, doubled, unsure, hurried, toasts, opened, met, hall>>
      /\ \/ l.to # Nobody /\ mail' = Posted(RemoveAt(mail, k), new) /\ UNCHANGED bench
         \/ mail' = RemoveAt(mail, k) /\ bench' = [bench EXCEPT ![l.from].busy = EndOfAction(l)]
  BY DEF OnFind, Comes, Taking, loanRows, Remaining
<1>2. /\ l \in Letters /\ l.from \in Pages /\ l.app \in Nat /\ l.to \in Accounts BY <1>0, <1>1 DEF Letters
<1>3. l.from \in Admins /\ l.app \in DOMAIN apps /\ l.to \in {Nobody, apps[l.app].client}
  BY <1>1 DEF LoanInv, TargetsKnown, Addressed
<1>4. new \in Letters BY <1>0, <1>2, LetterType DEF LoanKinds
<1>5. l.to # Nobody => new.kind # "apply" /\ Addressed(new) /\ new.stage # "checked"
  BY <1>3 DEF Letter, Addressed
<1> HIDE DEF new
<1>6. Follow(RemoveAt(mail, k), mail, {}) /\ Follow(Posted(RemoveAt(mail, k), new), mail, {new})
  BY <1>0, <1>1, <1>4, RemovedFollows, AnsweredFollows
<1>7. /\ bench' \in [Admins -> Benches]
      /\ \A a \in Admins : bench'[a].open = bench[a].open /\ bench'[a].app = bench[a].app /\ bench'[a].target = bench[a].target
  <2>1. bench' = bench \/ bench' = [bench EXCEPT ![l.from].busy = 0] BY <1>1 DEF EndOfAction
  <2> HIDE DEF l
  <2>2. CASE bench' = bench BY <1>0, <2>2
  <2>3. CASE bench' = [bench EXCEPT ![l.from].busy = 0] BY <1>0, <1>2, <2>3 DEF Benches
  <2> QED BY <2>1, <2>2, <2>3
<1>8. \A a \in Admins : /\ bench'[a].open => bench[a].open /\ bench'[a].app = bench[a].app
                        /\ bench'[a].target \in met[a] \cup {Nobody}
  BY <1>7 DEF LoanInv, TargetsKnown
<1>9. hall' \in Halls /\ hall'.form = hall.form /\ (hall'.open => hall.open) BY <1>0, <1>1
<1> HIDE DEF l
<1>10. CASE l.to # Nobody /\ mail' = Posted(RemoveAt(mail, k), new)
  BY <1>1, <1>5, <1>6, <1>7, <1>8, <1>9, <1>10, TakenInv
<1>11. CASE mail' = RemoveAt(mail, k)
  BY <1>1, <1>6, <1>7, <1>8, <1>9, <1>11, TakenInv
<1> QED BY <1>1, <1>10, <1>11

\* OnDecided keeps the invariant.
LEMMA OnDecidedInv ==
  ASSUME LoanInv, NEW k, OnDecided(k)
  PROVE  LoanInv'
<1>0. /\ bench \in [Admins -> Benches] /\ hall \in Halls /\ mail \in Seq(Letters)
      /\ Nobody \in Accounts /\ \A j \in DOMAIN mail : mail[j] \in Letters
  BY LoanRecords
<1> DEFINE l == mail[k]
           new == Letter(l.from, "list", 0, Nobody)
<1>1. /\ k \in DOMAIN mail /\ l.kind \in {"approve", "reject"}
      /\ UNCHANGED <<apps, lent, doubled, unsure, hurried, toasts, opened, met, hall>>
      /\ \/ mail' = Posted(RemoveAt(mail, k), new)
         \/ mail' = RemoveAt(mail, k)
      /\ \/ bench' = [bench EXCEPT ![l.from].busy = 0]
         \/ bench' = [bench EXCEPT ![l.from].open = FALSE, ![l.from].loading = TRUE, ![l.from].busy = 0]
  BY DEF OnDecided, Comes, Taking, loanRows, Remaining
<1>2. l \in Letters /\ l.from \in Pages BY <1>0, <1>1 DEF Letters
<1>3. new \in Letters
  <2>1. l.from \in Pages /\ "list" \in LoanKinds /\ 0 \in Nat /\ Nobody \in Accounts BY <1>0, <1>2 DEF LoanKinds
  <2> HIDE DEF l
  <2> QED BY <2>1, LetterType
<1>4. new.kind # "apply" /\ Addressed(new) /\ new.stage # "checked" BY DEF Letter, Addressed
<1> HIDE DEF new
<1>5. Follow(mail', mail, {}) \/ Follow(mail', mail, {new})
  BY <1>0, <1>1, <1>3, RemovedFollows, AnsweredFollows
<1>6. /\ bench' \in [Admins -> Benches]
      /\ \A a \in Admins : /\ bench'[a].open => bench[a].open
                           /\ bench'[a].app = bench[a].app /\ bench'[a].target = bench[a].target
  <2> HIDE DEF l
  <2>2. CASE bench' = [bench EXCEPT ![l.from].busy = 0]
    BY <1>0, <2>2 DEF Benches
  <2>3. CASE bench' = [bench EXCEPT ![l.from].open = FALSE, ![l.from].loading = TRUE, ![l.from].busy = 0]
    <3> DEFINE one == [bench EXCEPT ![l.from].open = FALSE]
               two == [one EXCEPT ![l.from].loading = TRUE]
    <3>1. /\ one \in [Admins -> Benches]
          /\ \A a \in Admins : /\ one[a].open => bench[a].open
                               /\ one[a].app = bench[a].app /\ one[a].target = bench[a].target
      BY <1>0 DEF Benches
    <3> HIDE DEF one
    <3>2. /\ two \in [Admins -> Benches]
          /\ \A a \in Admins : /\ two[a].open = one[a].open
                               /\ two[a].app = one[a].app /\ two[a].target = one[a].target
      BY <3>1 DEF Benches
    <3>3. bench' = [two EXCEPT ![l.from].busy = 0] BY <2>3 DEF one, two
    <3> HIDE DEF two
    <3>4. /\ bench' \in [Admins -> Benches]
          /\ \A a \in Admins : /\ bench'[a].open = two[a].open
                               /\ bench'[a].app = two[a].app /\ bench'[a].target = two[a].target
      BY <3>2, <3>3 DEF Benches
    <3> QED BY <3>1, <3>2, <3>4
  <2> QED BY <1>1, <2>2, <2>3
<1>7. \A a \in Admins : /\ bench'[a].open => bench[a].open /\ bench'[a].app = bench[a].app
                        /\ bench'[a].target \in met[a] \cup {Nobody}
  BY <1>6 DEF LoanInv, TargetsKnown
<1>8. hall' \in Halls /\ hall'.form = hall.form /\ (hall'.open => hall.open) BY <1>0, <1>1
<1>9. \A m \in {new} : m.kind # "apply" /\ Addressed(m) /\ m.stage # "checked" BY <1>4
<1> HIDE DEF l
<1> QED BY <1>1, <1>5, <1>6, <1>7, <1>8, <1>9, TakenInv

\* The button: one request for a form, and a whole one, unless it or its dialog leaves the screen.
LEMMA SubmitFormInv ==
  ASSUME LoanInv, SubmitForm
  PROVE  LoanInv'
<1>0. /\ hall \in Halls /\ hall.form \in LoanForms /\ bench \in [Admins -> Benches] /\ mail \in Seq(Letters)
      /\ Applicant \in Pages /\ Nobody \in Accounts /\ opened \in Nat
      /\ \A j \in DOMAIN mail : mail[j] \in Letters
  BY LoanRecords
<1> DEFINE blank == Letter(Applicant, "apply", 0, Nobody)
           sheet == [NoForm EXCEPT !.no = hall.form.no, !.good = hall.form.good, !.filled = hall.form.filled]
           new == [blank EXCEPT !.form = sheet]
           no == hall.form.no
<1>1. /\ UNCHANGED <<apps, lent, doubled, unsure, met, bench, toasts, opened>>
      /\ hall.form.shown = 3 /\ hurried \subseteq hurried'
      /\ no \in hurried' \/ (hall.open /\ hall.form.step = 3 /\ ~ hall.form.busy)
      /\ hall' = [hall EXCEPT !.form.busy = TRUE] /\ mail' = Posted(mail, new)
  BY DEF SubmitForm, Uses, Enabled3, Leaving, Visits, Busied, loanRows, marks
<1>2. blank \in Letters BY <1>0, LetterType DEF LoanKinds
<1>3. blank.kind = "apply" /\ blank.stage = "sent" BY DEF Letter
<1> HIDE DEF blank
<1>s. /\ sheet \in LoanForms
      /\ sheet.no = hall.form.no /\ sheet.good = hall.form.good /\ sheet.filled = hall.form.filled
  BY SentForm
<1> HIDE DEF sheet
<1>4. new \in Letters /\ new.kind = "apply" /\ new.stage = "sent" /\ new.form = sheet
  BY <1>2, <1>3, <1>s DEF Letters
<1> HIDE DEF new
<1>5. Follow(mail', mail, {new}) BY <1>0, <1>1, <1>4, PostedFollows
<1>6. PICK f \in [DOMAIN mail' -> DOMAIN mail \cup {0}] :
       /\ \A j \in DOMAIN mail' : IF f[j] = 0 THEN mail'[j] \in {new} ELSE Same(mail'[j], mail[f[j]])
       /\ \A i, j \in DOMAIN mail' : f[i] = f[j] => i = j
  BY <1>5 DEF Follow
<1>7. \A j \in DOMAIN mail' : \/ f[j] = 0 /\ mail'[j] = new
                              \/ f[j] \in DOMAIN mail /\ f[j] # 0 /\ Same(mail'[j], mail[f[j]])
  BY <1>6
<1>8. hall' \in Halls /\ hall'.form.no = no /\ hall'.form.step = hall.form.step /\ hall'.form.busy
      /\ hall'.form.good = hall.form.good /\ hall'.form.filled = hall.form.filled
  BY <1>0, <1>1 DEF Halls, LoanForms
<1>9. /\ no \in 1 .. opened
      /\ no \in hurried' \/ (hall.form.good /\ hall.form.filled)
      /\ no \notin hurried' => hall.open /\ hall.form.step = 3 /\ ~ hall.form.busy
  <2>1. no # 0 BY <1>1 DEF LoanInv, FormFilled, NoForm
  <2> QED BY <1>0, <1>1, <2>1 DEF LoanInv, FormFilled, LoanForms
<1>10. LoanTypes' BY <1>1, <1>5, <1>8 DEF LoanInv, LoanTypes, Follow
<1>11. FormFilled'
  <2>1. no \in hurried' \/ (hall.form.step = 3 /\ hall.form.good /\ hall.form.filled) BY <1>9
  <2> QED BY <1>1, <1>8, <1>9, <2>1 DEF LoanInv, FormFilled
<1>12. TargetsKnown'
  <2>2. ASSUME NEW j \in DOMAIN mail', f[j] \in DOMAIN mail, Same(mail'[j], mail[f[j]])
        PROVE  Addressed(mail[j])'
    BY <1>1, <2>2 DEF LoanInv, TargetsKnown, Addressed, Same
  <2>3. ASSUME NEW j \in DOMAIN mail', mail'[j] = new PROVE Addressed(mail[j])'
    BY <1>4, <2>3 DEF Addressed
  <2>4. \A j \in DOMAIN mail' : Addressed(mail[j])' BY <1>7, <2>2, <2>3
  <2> QED BY <1>1, <2>4 DEF LoanInv, TargetsKnown, Asking
<1>13. FormsOnce'
  <2>1. \A n : Made(n)' <=> Made(n) BY <1>1 DEF Made
  <2>2. no \in hurried' \/ ~ \E k \in DOMAIN mail : mail[k].kind = "apply" /\ mail[k].form.no = no
    BY <1>1, <1>9 DEF LoanInv, FormsOnce
  <2>3. no \in unsure \cup hurried' \/ ~ Made(no)
    BY <1>1, <1>9 DEF LoanInv, FormsOnce
  <2>4. ASSUME NEW j \in DOMAIN mail', mail'[j].kind = "apply"
        PROVE  /\ mail'[j].form.no \in 1 .. opened
               /\ (mail'[j].form.good /\ mail'[j].form.filled) \/ mail'[j].form.no \in hurried'
               /\ mail'[j].form.no = hall'.form.no => hall'.form.busy
               /\ mail'[j].stage = "sent" \/ ~ mail'[j].ok
                     => mail'[j].form.no \in unsure \cup hurried' \/ ~ Made(mail'[j].form.no)
    <3>1. CASE mail'[j] = new BY <1>4, <1>s, <1>8, <1>9, <2>3, <3>1
    <3>2. CASE f[j] \in DOMAIN mail /\ Same(mail'[j], mail[f[j]])
      <4>1. /\ mail'[j].form = mail[f[j]].form /\ mail'[j].stage = mail[f[j]].stage /\ mail'[j].ok = mail[f[j]].ok
            /\ mail[f[j]].kind = "apply"
        BY <2>4, <3>2 DEF Same
      <4> QED BY <1>1, <1>8, <3>2, <4>1 DEF LoanInv, FormsOnce
    <3> QED BY <1>7, <3>1, <3>2
  <2>5. ASSUME NEW i \in DOMAIN mail', NEW j \in DOMAIN mail', mail'[i].kind = "apply", mail'[j].kind = "apply",
               mail'[i].form.no = mail'[j].form.no
        PROVE  i = j \/ mail'[i].form.no \in hurried'
    <3>1. CASE f[i] = 0 /\ f[j] = 0 BY <1>6, <3>1
    <3>2. CASE f[i] # 0 /\ f[j] # 0
      <4>1. Same(mail'[i], mail[f[i]]) /\ Same(mail'[j], mail[f[j]]) /\ f[i] \in DOMAIN mail /\ f[j] \in DOMAIN mail
        BY <1>7, <3>2
      <4>2. f[i] = f[j] \/ mail'[i].form.no \in hurried BY <2>5, <4>1 DEF LoanInv, FormsOnce, Same
      <4> QED BY <1>1, <1>6, <4>2
    <3>3. CASE f[i] = 0 /\ f[j] # 0
      <4>1. mail'[i] = new /\ Same(mail'[j], mail[f[j]]) /\ f[j] \in DOMAIN mail BY <1>7, <3>3
      <4> QED BY <1>4, <1>s, <2>2, <2>5, <4>1 DEF Same
    <3>4. CASE f[i] # 0 /\ f[j] = 0
      <4>1. mail'[j] = new /\ Same(mail'[i], mail[f[i]]) /\ f[i] \in DOMAIN mail BY <1>7, <3>4
      <4> QED BY <1>4, <1>s, <2>2, <2>5, <4>1 DEF Same
    <3> QED BY <3>1, <3>2, <3>3, <3>4
  <2>6. /\ \A i \in DOMAIN apps : (apps[i].whole \/ apps[i].form \in hurried') /\ apps[i].form <= opened
        /\ \A i, j \in DOMAIN apps :
              apps[i].form = apps[j].form => i = j \/ apps[i].form \in unsure \cup hurried' \cup {0}
    BY <1>1 DEF LoanInv, FormsOnce
  <2> HIDE DEF no
  <2> QED BY <1>1, <1>8, <2>1, <2>4, <2>5, <2>6 DEF FormsOnce
<1>14. DecidedOnce'
  <2>1. ASSUME NEW j \in DOMAIN mail', mail'[j].stage = "checked"
        PROVE  mail'[j].app \in doubled \/ apps[mail'[j].app].state = "PENDING"
    BY <1>4, <1>7, <2>1 DEF LoanInv, DecidedOnce, Same
  <2> QED BY <1>1, <2>1 DEF LoanInv, DecidedOnce, Paid
<1> QED BY <1>10, <1>11, <1>12, <1>13, <1>14 DEF LoanInv

\* The answer to a form: the form it is for, if it is still there, may be sent again, and
\* whichever is open closes if the answer is good.
LEMMA OnApplyInv ==
  ASSUME LoanInv, NEW k, OnApply(k)
  PROVE  LoanInv'
<1>0. /\ hall \in Halls /\ hall.form \in LoanForms /\ bench \in [Admins -> Benches] /\ mail \in Seq(Letters)
      /\ Applicant \in Pages /\ Nobody \in Accounts /\ opened \in Nat
      /\ \A j \in DOMAIN mail : mail[j] \in Letters
  BY LoanRecords
<1> DEFINE l == mail[k]
           new == Letter(Applicant, "list", 0, Nobody)
           h == IF hall.form.no = l.form.no THEN [hall EXCEPT !.form.busy = FALSE] ELSE hall
           no == l.form.no
           rest == DOMAIN mail \ {k}
<1>1. /\ k \in DOMAIN mail /\ l.kind = "apply" /\ l.stage = "done"
      /\ UNCHANGED <<apps, lent, doubled, unsure, hurried, met, bench, toasts, opened>>
      /\ IF l.ok THEN hall' = [h EXCEPT !.open = FALSE, !.fetching = TRUE] /\ mail' = Posted(RemoveAt(mail, k), new)
                 ELSE hall' = h /\ mail' = RemoveAt(mail, k)
  BY DEF OnApply, Comes, Taking, loanRows, Remaining
<1>2. new \in Letters BY <1>0, LetterType DEF LoanKinds
<1>3. new.kind # "apply" /\ Addressed(new) /\ new.stage # "checked" BY DEF Letter, Addressed
<1> HIDE DEF new
<1>4. Follow(mail', mail, {new}) /\ mail' \in Seq(Letters)
  <2>1. Follow(Posted(RemoveAt(mail, k), new), mail, {new}) BY <1>0, <1>1, <1>2, AnsweredFollows
  <2>2. Follow(RemoveAt(mail, k), mail, {}) BY <1>0, <1>1, RemovedFollows
  <2>3. Follow(RemoveAt(mail, k), mail, {new}) BY <2>2 DEF Follow
  <2> HIDE DEF h
  <2>4. Follow(mail', mail, {new}) BY <1>1, <2>1, <2>3
  <2> QED BY <2>4 DEF Follow
\* the request that is answered is not among those that remain
<1>5. PICK f \in [DOMAIN mail' -> rest \cup {0}] :
        /\ \A j \in DOMAIN mail' : IF f[j] = 0 THEN mail'[j] = new ELSE Same(mail'[j], mail[f[j]])
        /\ \A i, j \in DOMAIN mail' : f[i] = f[j] => i = j
  <2> DEFINE r == RemoveAt(mail, k)
             g == [j \in DOMAIN r |-> IF j < k THEN j ELSE j + 1]
             T == Letters
  <2>1. mail \in Seq(T) BY <1>0
  <2> HIDE DEF T
  <2>2. /\ r \in Seq(T) /\ DOMAIN r = 1 .. (Len(mail) - 1)
        /\ \A j \in DOMAIN r : r[j] = mail[IF j < k THEN j ELSE j + 1]
    BY <1>1, <2>1, Removed
  <2>3. Len(mail) \in Nat /\ DOMAIN mail = 1 .. Len(mail) BY <2>1, LenProperties
  <2>4. r \in Seq(Letters) BY <2>2 DEF T
  <2> HIDE DEF r, h
  <2>5. g \in [DOMAIN r -> rest] BY <1>1, <2>2, <2>3
  <2>6. \A j \in DOMAIN r : g[j] # 0 /\ Same(r[j], mail[g[j]]) BY <2>2, <2>3 DEF Same
  <2>7. \A i, j \in DOMAIN r : g[i] = g[j] => i = j BY <1>1, <2>2, <2>3
  <2> HIDE DEF g
  <2>8. CASE ~ l.ok
    <3>1. mail' = r BY <1>1, <2>8 DEF r
    <3>2. g \in [DOMAIN mail' -> rest \cup {0}] BY <2>5, <3>1
    <3> QED BY <2>6, <2>7, <3>1, <3>2
  <2>9. CASE l.ok
    <3>1. mail' = Posted(r, new) BY <1>1, <2>9 DEF r
    <3>2. Follow(mail', r, {new}) BY <1>2, <2>4, <3>1, PostedFollows
    <3>3. PICK e \in [DOMAIN mail' -> DOMAIN r \cup {0}] :
            /\ \A j \in DOMAIN mail' : IF e[j] = 0 THEN mail'[j] \in {new} ELSE Same(mail'[j], r[e[j]])
            /\ \A i, j \in DOMAIN mail' : e[i] = e[j] => i = j
      BY <3>2 DEF Follow
    <3> DEFINE f == [j \in DOMAIN mail' |-> IF e[j] = 0 THEN 0 ELSE g[e[j]]]
    <3>4. \A j \in DOMAIN mail' : e[j] = 0 \/ (e[j] \in DOMAIN r /\ g[e[j]] \in rest /\ g[e[j]] # 0)
      BY <2>5, <2>6, <3>3
    <3>5. f \in [DOMAIN mail' -> rest \cup {0}] BY <3>4
    <3>6. \A j \in DOMAIN mail' : IF f[j] = 0 THEN mail'[j] = new ELSE Same(mail'[j], mail[f[j]])
      BY <2>6, <3>3, <3>4 DEF Same
    <3>7. \A i, j \in DOMAIN mail' : f[i] = f[j] => i = j BY <2>7, <3>3, <3>4
    <3> HIDE DEF f
    <3> QED BY <3>5, <3>6, <3>7
  <2> QED BY <2>8, <2>9
<1>6. \A j \in DOMAIN mail' : mail'[j] = new \/ (f[j] \in rest /\ f[j] # 0 /\ Same(mail'[j], mail[f[j]]))
  BY <1>5
<1>7. /\ h \in Halls /\ h.open = hall.open /\ h.form.no = hall.form.no /\ h.form.step = hall.form.step
      /\ h.form.good = hall.form.good /\ h.form.filled = hall.form.filled
      /\ hall.form.no # no => h.form = hall.form
      /\ h.form = hall.form \/ hall.form.no = no
      /\ hall.form.no = no => ~ h.form.busy
  <2>1. CASE hall.form.no # no BY <1>0, <2>1
  <2>2. CASE hall.form.no = no
    <3> DEFINE g == [hall.form EXCEPT !.busy = FALSE]
    <3>1. h = [hall EXCEPT !.form = g] BY <2>2
    <3>2. g \in LoanForms /\ g.no = hall.form.no /\ g.step = hall.form.step /\ ~ g.busy
          /\ g.good = hall.form.good /\ g.filled = hall.form.filled
      BY <1>0 DEF LoanForms
    <3> HIDE DEF g, h
    <3>3. h \in Halls /\ h.form = g /\ h.open = hall.open BY <1>0, <3>1, <3>2 DEF Halls
    <3> QED BY <2>2, <3>2, <3>3
  <2> QED BY <2>1, <2>2
<1> HIDE DEF h
<1>8. /\ hall' \in Halls /\ hall'.form = h.form /\ (hall'.open => hall.open /\ ~ l.ok)
  <2>1. CASE ~ l.ok BY <1>1, <1>7, <2>1
  <2>2. CASE l.ok
    <3>1. hall' = [h EXCEPT !.open = FALSE, !.fetching = TRUE] BY <1>1, <2>2
    <3> DEFINE one == [h EXCEPT !.open = FALSE]
    <3>2. one \in Halls /\ one.form = h.form /\ ~ one.open BY <1>7 DEF Halls
    <3>3. hall' = [one EXCEPT !.fetching = TRUE] BY <3>1
    <3> HIDE DEF one
    <3> QED BY <3>2, <3>3 DEF Halls
  <2> QED BY <2>1, <2>2
<1>9. no \in 1 .. opened BY <1>1 DEF LoanInv, FormsOnce
<1>10. LoanTypes' BY <1>1, <1>4, <1>8 DEF LoanInv, LoanTypes
<1>11. FormFilled'
  <2>1. hall.form.no = 0 => h.form = hall.form BY <1>7, <1>9
  <2> HIDE DEF l, no
  <2> QED BY <1>1, <1>7, <1>8, <2>1 DEF LoanInv, FormFilled
<1>12. TargetsKnown'
  <2>1. ASSUME NEW j \in DOMAIN mail', f[j] \in rest, Same(mail'[j], mail[f[j]])
        PROVE  Addressed(mail[j])'
    BY <1>1, <2>1 DEF LoanInv, TargetsKnown, Addressed, Same
  <2>2. ASSUME NEW j \in DOMAIN mail', mail'[j] = new PROVE Addressed(mail[j])'
    BY <1>1, <1>3, <2>2 DEF Addressed
  <2>3. \A j \in DOMAIN mail' : Addressed(mail[j])' BY <1>6, <2>1, <2>2
  <2> HIDE DEF l
  <2> QED BY <1>1, <2>3 DEF LoanInv, TargetsKnown, Asking
<1>13. FormsOnce'
  <2>1. \A n : Made(n)' <=> Made(n) BY <1>1 DEF Made
  <2>2. \A i \in rest : mail[i].kind = "apply" => mail[i].form.no # no \/ no \in hurried
    BY <1>1 DEF LoanInv, FormsOnce
  <2>3. ~ l.ok => no \in unsure \cup hurried \/ ~ Made(no) BY <1>1 DEF LoanInv, FormsOnce
  <2>4. ASSUME NEW j \in DOMAIN mail', mail'[j].kind = "apply"
        PROVE  /\ f[j] \in rest /\ Same(mail'[j], mail[f[j]]) /\ mail[f[j]].kind = "apply"
               /\ mail'[j].form = mail[f[j]].form
    BY <1>3, <1>6, <2>4 DEF Same
  <2>5. ASSUME NEW j \in DOMAIN mail', mail'[j].kind = "apply"
        PROVE  /\ mail'[j].form.no \in 1 .. opened
               /\ (mail'[j].form.good /\ mail'[j].form.filled) \/ mail'[j].form.no \in hurried
               /\ mail'[j].form.no = hall'.form.no => hall'.form.busy \/ mail'[j].form.no \in hurried
               /\ mail'[j].stage = "sent" \/ ~ mail'[j].ok
                     => mail'[j].form.no \in unsure \cup hurried \/ ~ Made(mail'[j].form.no)
    <3> DEFINE m == mail[f[j]]
    <3>1. /\ f[j] \in rest /\ m.kind = "apply" /\ mail'[j].form = m.form
          /\ mail'[j].stage = m.stage /\ mail'[j].ok = m.ok
      BY <2>4, <2>5 DEF Same
    <3>2. /\ m.form.no \in 1 .. opened
          /\ (m.form.good /\ m.form.filled) \/ m.form.no \in hurried
          /\ m.form.no = hall.form.no => hall.form.busy \/ m.form.no \in hurried
          /\ m.stage = "sent" \/ ~ m.ok => m.form.no \in unsure \cup hurried \/ ~ Made(m.form.no)
      BY <3>1 DEF LoanInv, FormsOnce
    <3>3. m.form.no # no \/ no \in hurried BY <2>2, <3>1
    <3> HIDE DEF m, l, no
    <3> QED BY <1>7, <1>8, <3>1, <3>2, <3>3
  <2>6. ASSUME NEW i \in DOMAIN mail', NEW j \in DOMAIN mail', mail'[i].kind = "apply", mail'[j].kind = "apply",
               mail'[i].form.no = mail'[j].form.no
        PROVE  i = j \/ mail'[i].form.no \in hurried
    <3>1. /\ f[i] \in DOMAIN mail /\ mail[f[i]].kind = "apply" /\ mail'[i].form = mail[f[i]].form
          /\ f[j] \in DOMAIN mail /\ mail[f[j]].kind = "apply" /\ mail'[j].form = mail[f[j]].form
      BY <2>4, <2>6
    <3>2. f[i] = f[j] \/ mail[f[i]].form.no \in hurried BY <2>6, <3>1 DEF LoanInv, FormsOnce
    <3> QED BY <1>5, <3>1, <3>2
  <2>7. hall'.open /\ hall'.form.no # 0 /\ ~ hall'.form.busy
          => hall'.form.no \in unsure \cup hurried \/ ~ Made(hall'.form.no)
    <3>1. CASE hall.form.no = no BY <1>7, <1>8, <2>3, <3>1
    <3>2. CASE hall.form.no # no
      <4>1. hall'.form = hall.form BY <1>7, <1>8, <3>2
      <4> QED BY <1>8, <4>1 DEF LoanInv, FormsOnce
    <3> QED BY <3>1, <3>2
  <2>8. /\ \A i \in DOMAIN apps : (apps[i].whole \/ apps[i].form \in hurried) /\ apps[i].form <= opened
        /\ \A i, j \in DOMAIN apps :
              apps[i].form = apps[j].form => i = j \/ apps[i].form \in unsure \cup hurried \cup {0}
    BY DEF LoanInv, FormsOnce
  <2> HIDE DEF l, no
  <2> QED BY <1>1, <2>1, <2>5, <2>6, <2>7, <2>8 DEF FormsOnce
<1>14. DecidedOnce'
  <2>1. ASSUME NEW j \in DOMAIN mail', mail'[j].stage = "checked"
        PROVE  mail'[j].app \in doubled \/ apps[mail'[j].app].state = "PENDING"
    BY <1>3, <1>6, <2>1 DEF LoanInv, DecidedOnce, Same
  <2> HIDE DEF l
  <2> QED BY <1>1, <2>1 DEF LoanInv, DecidedOnce, Paid
<1> QED BY <1>10, <1>11, <1>12, <1>13, <1>14 DEF LoanInv

\* A form's request fails, is refused, or its answer is lost.
LEMMA ApplyEnds ==
  ASSUME LoanInv, NEW k \in DOMAIN mail, mail[k].kind = "apply", NEW l \in Letters,
         l.kind = "apply", l.form = mail[k].form, l.stage = "done", ~ l.ok,
         mail' = [mail EXCEPT ![k] = l], unsure \subseteq unsure',
         mail[k].stage = "sent" \/ ~ mail[k].ok \/ l.form.no \in unsure',
         UNCHANGED <<apps, lent, hall, bench, toasts, opened, doubled, hurried, met>>
  PROVE  LoanInv'
<1>1. mail \in Seq(Letters) /\ \A j \in DOMAIN mail : mail[j] \in Letters BY LoanRecords
<1>2. mail' \in Seq(Letters) BY <1>1, ChangedFollows DEF Follow
<1>3. DOMAIN mail' = DOMAIN mail /\ \A j \in DOMAIN mail : mail'[j] = IF j = k THEN l ELSE mail[j]
  OBVIOUS
<1>4. LoanTypes' /\ FormFilled' BY <1>2 DEF LoanInv, LoanTypes, FormFilled
<1>5. TargetsKnown'
  <2>1. ASSUME NEW j \in DOMAIN mail PROVE Addressed(mail[j])'
    <3>1. CASE j = k BY <1>3, <3>1 DEF Addressed
    <3>2. CASE j # k BY <1>3, <3>2 DEF LoanInv, TargetsKnown, Addressed
    <3> QED BY <3>1, <3>2
  <2> QED BY <1>3, <2>1 DEF LoanInv, TargetsKnown, Asking
<1>6. FormsOnce'
  <2>1. \A n : Made(n)' <=> Made(n) BY DEF Made
  <2>2. \A j \in DOMAIN mail : mail'[j].kind = mail[j].kind /\ mail'[j].form = mail[j].form BY <1>3
  <2>3. l.form.no \in unsure' \cup hurried \/ ~ Made(l.form.no) BY DEF LoanInv, FormsOnce
  <2>4. ASSUME NEW j \in DOMAIN mail', mail'[j].kind = "apply"
        PROVE  /\ mail'[j].form.no \in 1 .. opened
               /\ (mail'[j].form.good /\ mail'[j].form.filled) \/ mail'[j].form.no \in hurried
               /\ mail'[j].form.no = hall'.form.no => hall'.form.busy \/ mail'[j].form.no \in hurried
               /\ mail'[j].stage = "sent" \/ ~ mail'[j].ok
                       => mail'[j].form.no \in unsure' \cup hurried \/ ~ Made(mail'[j].form.no)
    <3>1. CASE j = k BY <1>3, <2>2, <2>3, <3>1 DEF LoanInv, FormsOnce
    <3>2. CASE j # k BY <1>3, <2>4, <3>2 DEF LoanInv, FormsOnce
    <3> QED BY <3>1, <3>2
  <2>5. \A i, j \in DOMAIN mail' :
             mail'[i].kind = "apply" /\ mail'[j].kind = "apply" /\ mail'[i].form.no = mail'[j].form.no
               => i = j \/ mail'[i].form.no \in hurried
    BY <1>3, <2>2 DEF LoanInv, FormsOnce
  <2>6. /\ \A i \in DOMAIN apps : (apps[i].whole \/ apps[i].form \in hurried) /\ apps[i].form <= opened
        /\ hall.open /\ hall.form.no # 0 /\ ~ hall.form.busy
             => hall.form.no \in unsure' \cup hurried \/ ~ Made(hall.form.no)
        /\ \A i, j \in DOMAIN apps :
              apps[i].form = apps[j].form => i = j \/ apps[i].form \in unsure' \cup hurried \cup {0}
    BY DEF LoanInv, FormsOnce
  <2> QED BY <2>1, <2>4, <2>5, <2>6 DEF FormsOnce
<1>7. DecidedOnce'
  <2>1. ASSUME NEW j \in DOMAIN mail', mail'[j].stage = "checked"
        PROVE  mail'[j].app \in doubled \/ apps[mail'[j].app].state = "PENDING"
    BY <1>3, <2>1 DEF LoanInv, DecidedOnce
  <2> QED BY <2>1 DEF LoanInv, DecidedOnce, Paid
<1> QED BY <1>4, <1>5, <1>6, <1>7 DEF LoanInv

\* A form without an amount in range is refused.
LEMMA RefuseApplyInv ==
  ASSUME LoanInv, NEW k, RefuseApply(k)
  PROVE  LoanInv'
<1> DEFINE o == mail[k]
           one == [o EXCEPT !.stage = "done"]
           l == [one EXCEPT !.ok = FALSE]
<1>1. /\ k \in DOMAIN mail /\ o.kind = "apply" /\ o.stage = "sent"
      /\ mail' = [mail EXCEPT ![k] = l] /\ unsure' = unsure
      /\ UNCHANGED <<apps, lent, hall, bench, toasts, opened, doubled, hurried, met>>
  BY DEF RefuseApply, Asks, Server, Filled, loanRows
<1>2. o \in Letters BY <1>1, LoanRecords
<1>3. l \in Letters /\ l.kind = "apply" /\ l.form = o.form /\ l.stage = "done" /\ ~ l.ok
  <2> HIDE DEF o
  <2>1. one \in Letters /\ one.kind = "apply" /\ one.form = o.form /\ one.stage = "done" BY <1>1, <1>2 DEF Letters
  <2> HIDE DEF one
  <2> QED BY <2>1 DEF Letters
<1> HIDE DEF l
<1> QED BY <1>1, <1>3, ApplyEnds

\* An application is stored, and its form's request answered.
LEMMA ServeApplyInv ==
  ASSUME LoanInv, NEW k, ServeApply(k)
  PROVE  LoanInv'
<1>0. /\ mail \in Seq(Letters) /\ \A j \in DOMAIN mail : mail[j] \in Letters
      /\ apps \in Seq(Applications) /\ Len(apps) \in Nat /\ DOMAIN apps = 1 .. Len(apps)
      /\ Applicant \in Clients /\ hall \in Halls /\ hall.form \in LoanForms
  BY LoanRecords, LenProperties, LoanAssumption DEF LoanInv, LoanTypes
<1> DEFINE f == mail[k].form
           row == [client |-> Applicant, form |-> f.no, whole |-> f.good /\ f.filled, state |-> "PENDING"]
           l == Filled(OldLists[k], TRUE)
<1>1. /\ k \in DOMAIN mail /\ mail[k].kind = "apply" /\ mail[k].stage = "sent"
      /\ UNCHANGED <<lent, doubled, unsure, hurried, met, hall, bench, toasts, opened>>
      /\ apps' = Append(apps, row) /\ mail' = [OldLists EXCEPT ![k] = l]
  BY DEF ServeApply, Asks, Server
<1>2. OldLists[k] \in Letters /\ Same(OldLists[k], mail[k])
  BY <1>0, <1>1, OldListsKept
<1>3. /\ l \in Letters /\ l.kind = "apply" /\ l.form = f /\ l.stage = "done" /\ l.ok
  <2> DEFINE o == OldLists[k]
             one == [o EXCEPT !.stage = "done"]
  <2>1. o \in Letters /\ o.kind = "apply" /\ o.form = f BY <1>1, <1>2 DEF Same
  <2>2. l = [one EXCEPT !.ok = TRUE] BY DEF Filled
  <2> HIDE DEF o, l
  <2>3. one \in Letters /\ one.kind = "apply" /\ one.form = f /\ one.stage = "done" BY <2>1 DEF Letters
  <2> HIDE DEF one
  <2> QED BY <2>2, <2>3 DEF Letters
<1> HIDE DEF l
<1>4. /\ mail' \in Seq(Letters) /\ DOMAIN mail' = DOMAIN mail /\ mail'[k] = l
      /\ \A j \in DOMAIN mail \ {k} : Same(mail'[j], mail[j])
  BY <1>0, <1>1, <1>3, OldListsKept
<1>5. /\ (f.good /\ f.filled) \/ f.no \in hurried
      /\ f.no \in 1 .. opened /\ f \in LoanForms
      /\ f.no = hall.form.no => hall.form.busy \/ f.no \in hurried
      /\ f.no \in unsure \cup hurried \/ ~ Made(f.no)
  BY <1>0, <1>1 DEF LoanInv, FormsOnce, Letters
<1>6. row \in Applications /\ (row.whole \/ f.no \in hurried) /\ row.form = f.no /\ row.state = "PENDING"
  BY <1>0, <1>5 DEF Applications, AppStates, LoanForms
<1> HIDE DEF row
<1>7. /\ apps' \in Seq(Applications) /\ DOMAIN apps' = DOMAIN apps \cup {Len(apps) + 1}
      /\ Len(apps) + 1 \notin DOMAIN apps
      /\ apps'[Len(apps) + 1] = row /\ \A i \in DOMAIN apps : apps'[i] = apps[i]
  <2> DEFINE T == Applications
  <2>1. apps \in Seq(T) /\ row \in T BY <1>0, <1>6
  <2> HIDE DEF T
  <2>2. /\ Append(apps, row) \in Seq(T) /\ Len(Append(apps, row)) = Len(apps) + 1
        /\ \A i \in 1 .. Len(apps) : Append(apps, row)[i] = apps[i]
        /\ Append(apps, row)[Len(apps) + 1] = row
    BY <2>1, AppendProperties
  <2>3. DOMAIN apps' = 1 .. (Len(apps) + 1) BY <1>1, <2>2, LenProperties
  <2>4. DOMAIN apps' = DOMAIN apps \cup {Len(apps) + 1} /\ Len(apps) + 1 \notin DOMAIN apps BY <1>0, <2>3
  <2> QED BY <1>0, <1>1, <2>2, <2>4 DEF T
<1>8. LoanTypes' BY <1>1, <1>4, <1>7 DEF LoanInv, LoanTypes
<1>9. FormFilled' BY <1>1 DEF LoanInv, FormFilled
<1>10. TargetsKnown'
  <2>1. Addressed(mail[k])' BY <1>3, <1>4 DEF Addressed
  <2>2. ASSUME NEW j \in DOMAIN mail \ {k} PROVE Addressed(mail[j])'
    <3>1. Same(mail'[j], mail[j]) /\ Addressed(mail[j]) BY <1>4 DEF LoanInv, TargetsKnown
    <3> QED BY <1>1, <1>7, <3>1 DEF Addressed, Same
  <2>3. \A j \in DOMAIN mail' : Addressed(mail[j])' BY <1>4, <2>1, <2>2
  <2>4. \A t \in toasts' : Asking(t)' BY <1>1, <1>7 DEF LoanInv, TargetsKnown, Asking
  <2> QED BY <1>1, <1>7, <2>3, <2>4 DEF LoanInv, TargetsKnown
<1>11. FormsOnce'
  <2>1. \A n : Made(n)' <=> Made(n) \/ n = f.no BY <1>6, <1>7 DEF Made
  <2>2. \A j \in DOMAIN mail : mail'[j].kind = mail[j].kind /\ mail'[j].form = mail[j].form
    BY <1>1, <1>3, <1>4 DEF Same
  <2>3. \A j \in DOMAIN mail : mail[j].kind = "apply" /\ j # k => mail[j].form.no # f.no \/ f.no \in hurried
    BY <1>1 DEF LoanInv, FormsOnce
  <2>4. ASSUME NEW j \in DOMAIN mail', mail'[j].kind = "apply"
        PROVE  /\ mail'[j].form.no \in 1 .. opened
               /\ (mail'[j].form.good /\ mail'[j].form.filled) \/ mail'[j].form.no \in hurried
               /\ mail'[j].form.no = hall.form.no => hall.form.busy \/ mail'[j].form.no \in hurried
               /\ mail'[j].stage = "sent" \/ ~ mail'[j].ok
                       => (mail[j].form.no \in unsure \cup hurried \/ ~ Made(mail[j].form.no))'
    <3>1. CASE j = k BY <1>3, <1>4, <1>5, <3>1
    <3>2. CASE j # k
      <4>1. mail[j].kind = "apply" /\ mail'[j].form = mail[j].form BY <1>4, <2>2, <2>4
      <4>2. mail'[j].stage = mail[j].stage /\ mail'[j].ok = mail[j].ok BY <1>4, <3>2 DEF Same
      <4>3. mail[j].form.no # f.no \/ mail[j].form.no \in hurried BY <1>4, <2>3, <3>2, <4>1
      <4> QED BY <1>1, <1>4, <2>1, <4>1, <4>2, <4>3 DEF LoanInv, FormsOnce
    <3> QED BY <3>1, <3>2
  <2>5. \A i, j \in DOMAIN mail' :
           mail'[i].kind = "apply" /\ mail'[j].kind = "apply" /\ mail'[i].form.no = mail'[j].form.no
             => i = j \/ mail'[i].form.no \in hurried
    BY <1>4, <2>2 DEF LoanInv, FormsOnce
  <2>6. \A i \in DOMAIN apps' : (apps'[i].whole \/ apps'[i].form \in hurried) /\ apps'[i].form <= opened
    BY <1>5, <1>6, <1>7 DEF LoanInv, FormsOnce
  <2>7. hall.open /\ hall.form.no # 0 /\ ~ hall.form.busy => hall.form.no \in unsure \cup hurried \/ ~ Made(hall.form.no)'
    BY <1>1, <1>5, <2>1 DEF LoanInv, FormsOnce
  <2>8. ASSUME NEW i \in DOMAIN apps', NEW j \in DOMAIN apps', apps'[i].form = apps'[j].form, i # j
        PROVE  apps'[i].form \in unsure \cup hurried \cup {0}
    <3>1. CASE i \in DOMAIN apps /\ j \in DOMAIN apps BY <1>7, <2>8, <3>1 DEF LoanInv, FormsOnce
    <3>2. CASE i = Len(apps) + 1 \/ j = Len(apps) + 1
      <4>1. Made(f.no) /\ apps'[i].form = f.no BY <1>6, <1>7, <2>8, <3>2 DEF Made
      <4> QED BY <1>5, <4>1
    <3> QED BY <1>7, <3>1, <3>2
  <2> HIDE DEF f
  <2> QED BY <1>1, <2>4, <2>5, <2>6, <2>7, <2>8 DEF FormsOnce
<1>12. DecidedOnce'
  <2>1. ASSUME NEW j \in DOMAIN mail', mail'[j].stage = "checked"
        PROVE  mail'[j].app \in doubled \/ apps'[mail'[j].app].state = "PENDING"
    <3>1. j \in DOMAIN mail \ {k} BY <1>3, <1>4, <2>1
    <3>2. mail[j].stage = "checked" /\ mail[j].app = mail'[j].app BY <1>4, <2>1, <3>1 DEF Same
    <3>3. mail[j].app \in DOMAIN apps BY <3>1, <3>2 DEF LoanInv, TargetsKnown, Addressed
    <3> QED BY <1>7, <3>1, <3>2, <3>3 DEF LoanInv, DecidedOnce
  <2>2. \A i : Paid(i)' = Paid(i) BY <1>1 DEF Paid
  <2>3. Paid(Len(apps) + 1) = {} BY <1>7 DEF LoanInv, TargetsKnown, Paid
  <2>4. ASSUME NEW i \in DOMAIN apps' \ doubled
        PROVE  /\ apps'[i].state = "APPROVED" => \E n \in DOMAIN lent : Paid(i) = {n}
               /\ apps'[i].state # "APPROVED" => Paid(i) = {}
    <3>1. CASE i = Len(apps) + 1 BY <1>6, <1>7, <2>3, <3>1
    <3>2. CASE i \in DOMAIN apps BY <1>7, <3>2 DEF LoanInv, DecidedOnce
    <3> QED BY <1>7, <3>1, <3>2
  <2> HIDE DEF f
  <2> QED BY <1>1, <2>1, <2>2, <2>4 DEF DecidedOnce
<1> QED BY <1>8, <1>9, <1>10, <1>11, <1>12 DEF LoanInv

\* A decision is written, and its money paid, if it is an approval.
LEMMA DoDeedInv ==
  ASSUME LoanInv, NEW k, DoDeed(k)
  PROVE  LoanInv'
<1>0. /\ mail \in Seq(Letters) /\ \A j \in DOMAIN mail : mail[j] \in Letters
      /\ apps \in Seq(Applications) /\ DOMAIN apps \subseteq Nat
      /\ \A i \in DOMAIN apps : apps[i] \in Applications
      /\ lent \in Seq(Loans) /\ Len(lent) \in Nat /\ DOMAIN lent = 1 .. Len(lent)
  BY LoanRecords, Elements, LenProperties DEF LoanInv, LoanTypes
<1> DEFINE o == mail[k]
           i == o.app
           l == Filled(o, TRUE)
           state == IF o.kind = "approve" THEN "APPROVED" ELSE "REJECTED"
           loan == [app |-> i, to |-> o.to, by |-> o.from]
<1>1. /\ k \in DOMAIN mail /\ o.stage = "checked" /\ UNCHANGED <<unsure, hurried, met, hall, bench, toasts, opened>>
      /\ apps' = [apps EXCEPT ![i].state = state] /\ mail' = [OldLists EXCEPT ![k] = l]
      /\ lent' = IF o.kind = "approve" THEN Append(lent, loan) ELSE lent
      /\ doubled' = IF \E j \in DOMAIN mail \ {k} : mail[j].stage = "checked" /\ mail[j].app = i
                    THEN doubled \cup {i} ELSE doubled
  BY DEF DoDeed, Server
<1>2. /\ o \in Letters /\ o.kind \in {"approve", "reject"} /\ i \in DOMAIN apps /\ o.from \in Admins
      /\ o.kind = "approve" => o.to \in met[o.from] \cup {apps[i].client}
      /\ o.to \in Accounts
      /\ i \in doubled \/ apps[i].state = "PENDING"
  BY <1>0, <1>1 DEF LoanInv, TargetsKnown, Addressed, DecidedOnce, Letters
<1>3. /\ l \in Letters /\ l.kind = o.kind /\ l.form = o.form /\ l.stage = "done"
      /\ l.from = o.from /\ l.to = o.to /\ l.app = o.app
  <2> DEFINE one == [o EXCEPT !.stage = "done"]
  <2>1. l = [one EXCEPT !.ok = TRUE] BY DEF Filled
  <2> HIDE DEF o, l
  <2>2. one \in Letters /\ one.kind = o.kind /\ one.form = o.form /\ one.stage = "done"
        /\ one.from = o.from /\ one.to = o.to /\ one.app = o.app
    BY <1>2 DEF Letters
  <2> HIDE DEF one
  <2> QED BY <2>1, <2>2 DEF Letters
<1> HIDE DEF l
<1>4. /\ mail' \in Seq(Letters) /\ DOMAIN mail' = DOMAIN mail /\ mail'[k] = l
      /\ \A j \in DOMAIN mail \ {k} : Same(mail'[j], mail[j])
  BY <1>0, <1>1, <1>3, OldListsKept
<1>5. state \in AppStates /\ (state = "APPROVED" <=> o.kind = "approve") BY DEF AppStates
<1> HIDE DEF state
<1>6. /\ apps' \in Seq(Applications) /\ DOMAIN apps' = DOMAIN apps
      /\ apps'[i].state = state
      /\ \A j \in DOMAIN apps : /\ apps'[j].client = apps[j].client /\ apps'[j].form = apps[j].form
                                /\ apps'[j].whole = apps[j].whole
                                /\ j # i => apps'[j].state = apps[j].state
  <2> DEFINE T == Applications
             row == [apps[i] EXCEPT !.state = state]
  <2>1. /\ row \in Applications /\ row.client = apps[i].client /\ row.form = apps[i].form
        /\ row.whole = apps[i].whole /\ row.state = state
    <3> DEFINE r == apps[i]
    <3>1. r \in Applications BY <1>0, <1>2
    <3> HIDE DEF r
    <3>2. [r EXCEPT !.state = state] \in Applications /\ [r EXCEPT !.state = state].client = r.client
          /\ [r EXCEPT !.state = state].form = r.form
          /\ [r EXCEPT !.state = state].whole = r.whole /\ [r EXCEPT !.state = state].state = state
      BY <1>5, <3>1 DEF Applications
    <3> QED BY <3>2 DEF r
  <2>2. apps' = [apps EXCEPT ![i] = row] BY <1>1
  <2>3. apps \in Seq(T) /\ row \in T BY <1>0, <2>1
  <2> HIDE DEF T, row, i
  <2>4. apps' \in Seq(T) /\ DOMAIN apps' = DOMAIN apps BY <1>2, <2>2, <2>3, ExceptSeq
  <2>5. apps'[i] = row /\ \A j \in DOMAIN apps : j # i => apps'[j] = apps[j] BY <1>2, <2>2
  <2>6. apps' \in Seq(Applications) BY <2>4 DEF T
  <2> QED BY <1>2, <2>1, <2>4, <2>5, <2>6
<1>7. /\ lent' \in Seq(Loans) /\ \A n \in DOMAIN lent : n \in DOMAIN lent' /\ lent'[n] = lent[n]
      /\ o.kind = "approve" => \E m : /\ DOMAIN lent' = DOMAIN lent \cup {m} /\ m \notin DOMAIN lent
                                     /\ lent'[m] = loan
      /\ o.kind # "approve" => lent' = lent
  <2>1. CASE o.kind # "approve" BY <1>0, <1>1, <2>1
  <2>2. CASE o.kind = "approve"
    <3> DEFINE T == Loans
    <3>0. i \in Nat /\ o.to \in Accounts /\ o.from \in Admins BY <1>0, <1>2
    <3> HIDE DEF o, i
    <3>1. lent \in Seq(T) /\ loan \in T BY <1>0, <3>0 DEF Loans
    <3> HIDE DEF T, loan
    <3>2. /\ Append(lent, loan) \in Seq(T) /\ Len(Append(lent, loan)) = Len(lent) + 1
          /\ \A n \in 1 .. Len(lent) : Append(lent, loan)[n] = lent[n]
          /\ Append(lent, loan)[Len(lent) + 1] = loan
      BY <3>1, AppendProperties
    <3>3. lent' = Append(lent, loan) BY <1>1, <2>2
    <3>4. DOMAIN lent' = 1 .. (Len(lent) + 1) BY <3>2, <3>3, LenProperties
    <3>5. DOMAIN lent' = DOMAIN lent \cup {Len(lent) + 1} /\ Len(lent) + 1 \notin DOMAIN lent BY <1>0, <3>4
    <3> QED BY <1>0, <2>2, <3>2, <3>3, <3>5 DEF T
  <2> QED BY <2>1, <2>2
<1>8. LoanTypes' BY <1>1, <1>4, <1>6, <1>7 DEF LoanInv, LoanTypes
<1>9. FormFilled' BY <1>1 DEF LoanInv, FormFilled
<1>10. TargetsKnown'
  <2>1. Addressed(mail[k])'
    BY <1>1, <1>2, <1>3, <1>4, <1>6 DEF Addressed
  <2>2. ASSUME NEW j \in DOMAIN mail \ {k} PROVE Addressed(mail[j])'
    <3>1. Same(mail'[j], mail[j]) /\ Addressed(mail[j]) BY <1>4 DEF LoanInv, TargetsKnown
    <3> QED BY <1>1, <1>6, <3>1 DEF Addressed, Same
  <2>3. \A j \in DOMAIN mail' : Addressed(mail[j])' BY <1>4, <2>1, <2>2
  <2>4. \A t \in toasts' : Asking(t)' BY <1>1, <1>6 DEF LoanInv, TargetsKnown, Asking
  <2>5. ASSUME NEW n \in DOMAIN lent'
        PROVE  /\ lent'[n].app \in DOMAIN apps'
               /\ lent'[n].to \in met'[lent'[n].by] \cup {apps'[lent'[n].app].client}
    <3>1. CASE n \in DOMAIN lent BY <1>1, <1>6, <1>7, <3>1 DEF LoanInv, TargetsKnown
    <3>2. CASE n \notin DOMAIN lent
      <4>1. o.kind = "approve" BY <1>7, <3>2
      <4>2. PICK m : DOMAIN lent' = DOMAIN lent \cup {m} /\ lent'[m] = loan BY <1>7, <4>1
      <4>3. lent'[n] = loan BY <3>2, <4>2
      <4> QED BY <1>1, <1>2, <1>6, <4>1, <4>3
    <3> QED BY <3>1, <3>2
  <2>6. \A a \in Admins : /\ bench'[a].open => bench'[a].app \in DOMAIN apps'
                          /\ bench'[a].target \in met'[a] \cup {Nobody}
    BY <1>1, <1>6 DEF LoanInv, TargetsKnown
  <2> HIDE DEF o, i, loan
  <2> QED BY <2>3, <2>4, <2>5, <2>6 DEF TargetsKnown
<1>11. FormsOnce'
  <2>1. \A n : Made(n)' <=> Made(n) BY <1>6 DEF Made
  <2>2. \A j \in DOMAIN mail : mail'[j].kind = mail[j].kind /\ mail'[j].form = mail[j].form
    BY <1>1, <1>3, <1>4 DEF Same
  <2>3. ASSUME NEW j \in DOMAIN mail', mail'[j].kind = "apply"
        PROVE  /\ mail'[j].form.no \in 1 .. opened
               /\ (mail'[j].form.good /\ mail'[j].form.filled) \/ mail'[j].form.no \in hurried
               /\ mail'[j].form.no = hall.form.no => hall.form.busy \/ mail'[j].form.no \in hurried
               /\ mail'[j].stage = "sent" \/ ~ mail'[j].ok
                       => (mail[j].form.no \in unsure \cup hurried \/ ~ Made(mail[j].form.no))'
    <3>1. j # k BY <1>2, <1>3, <1>4, <2>3
    <3>2. mail[j].kind = "apply" /\ mail'[j].form = mail[j].form BY <1>4, <2>2, <2>3
    <3>3. mail'[j].stage = mail[j].stage /\ mail'[j].ok = mail[j].ok BY <1>4, <3>1 DEF Same
    <3> QED BY <1>1, <1>4, <2>1, <3>2, <3>3 DEF LoanInv, FormsOnce
  <2>4. \A m, j \in DOMAIN mail' :
           mail'[m].kind = "apply" /\ mail'[j].kind = "apply" /\ mail'[m].form.no = mail'[j].form.no
             => m = j \/ mail'[m].form.no \in hurried
    BY <1>4, <2>2 DEF LoanInv, FormsOnce
  <2>5. \A j \in DOMAIN apps' : (apps'[j].whole \/ apps'[j].form \in hurried) /\ apps'[j].form <= opened
    BY <1>6 DEF LoanInv, FormsOnce
  <2>6. hall.open /\ hall.form.no # 0 /\ ~ hall.form.busy => (hall.form.no \in unsure \cup hurried \/ ~ Made(hall.form.no))'
    BY <1>1, <2>1 DEF LoanInv, FormsOnce
  <2>7. \A m, j \in DOMAIN apps' : apps'[m].form = apps'[j].form => m = j \/ apps'[m].form \in unsure \cup hurried \cup {0}
    BY <1>6 DEF LoanInv, FormsOnce
  <2> HIDE DEF o, i
  <2> QED BY <1>1, <2>3, <2>4, <2>5, <2>6, <2>7 DEF FormsOnce
<1>12. DecidedOnce'
  <2>1. ASSUME NEW j \in DOMAIN mail', mail'[j].stage = "checked"
        PROVE  mail'[j].app \in doubled' \/ apps'[mail'[j].app].state = "PENDING"
    <3>1. j \in DOMAIN mail \ {k} BY <1>3, <1>4, <2>1
    <3>2. mail[j].stage = "checked" /\ mail[j].app = mail'[j].app BY <1>4, <2>1, <3>1 DEF Same
    <3>3. CASE mail[j].app = i BY <1>1, <3>1, <3>2, <3>3
    <3>4. CASE mail[j].app # i
      <4>1. mail[j].app \in DOMAIN apps BY <3>1, <3>2 DEF LoanInv, TargetsKnown, Addressed
      <4>2. mail[j].app \in doubled \/ apps[mail[j].app].state = "PENDING"
        BY <3>1, <3>2 DEF LoanInv, DecidedOnce
      <4> QED BY <1>1, <1>6, <3>2, <3>4, <4>1, <4>2
    <3> QED BY <3>3, <3>4
  <2>2. ASSUME NEW j \in DOMAIN apps \ doubled'
        PROVE  /\ apps'[j].state = "APPROVED" => \E n \in DOMAIN lent' : Paid(j)' = {n}
               /\ apps'[j].state # "APPROVED" => Paid(j)' = {}
    <3>1. j \notin doubled BY <1>1
    <3>2. CASE j # i
      <4>1. Paid(j)' = Paid(j)
        <5>1. CASE o.kind = "approve"
          <6>1. PICK m : DOMAIN lent' = DOMAIN lent \cup {m} /\ lent'[m] = loan BY <1>7, <5>1
          <6>2. lent'[m].app # j BY <3>2, <6>1
          <6> QED BY <1>7, <6>1, <6>2 DEF Paid
        <5>2. CASE o.kind # "approve" BY <1>7, <5>2 DEF Paid
        <5> QED BY <5>1, <5>2
      <4> QED BY <1>6, <1>7, <3>1, <3>2, <4>1 DEF LoanInv, DecidedOnce
    <3>3. CASE j = i
      <4>1. Paid(j) = {} BY <1>2, <3>1, <3>3 DEF LoanInv, DecidedOnce
      <4>2. CASE o.kind = "approve"
        <5>1. PICK m : DOMAIN lent' = DOMAIN lent \cup {m} /\ m \notin DOMAIN lent /\ lent'[m] = loan
          BY <1>7, <4>2
        <5>2. Paid(j)' = {m} BY <1>7, <3>3, <4>1, <5>1 DEF Paid
        <5> QED BY <1>5, <1>6, <3>3, <4>2, <5>1, <5>2
      <4>3. CASE o.kind # "approve"
        <5>1. Paid(j)' = Paid(j) BY <1>7, <4>3 DEF Paid
        <5> QED BY <1>5, <1>6, <3>3, <4>1, <4>3, <5>1
      <4> QED BY <4>2, <4>3
    <3> QED BY <3>2, <3>3
  <2> HIDE DEF o, i
  <2> QED BY <1>6, <2>1, <2>2 DEF DecidedOnce
<1> QED BY <1>8, <1>9, <1>10, <1>11, <1>12 DEF LoanInv

\* A query fails, or an answer is lost on its way.
LEMMA MishapInv ==
  ASSUME LoanInv, NEW k \in DOMAIN mail, FailQuery(k) \/ LoseReply(k)
  PROVE  LoanInv'
<1>0. \A j \in DOMAIN mail : mail[j] \in Letters BY LoanRecords
<1> DEFINE o == mail[k]
           one == [o EXCEPT !.stage = "done"]
           l == [one EXCEPT !.ok = FALSE]
<1>1. /\ mail' = [mail EXCEPT ![k] = l] /\ unsure \subseteq unsure'
      /\ UNCHANGED <<apps, lent, hall, bench, toasts, opened, doubled, hurried, met>>
      /\ o.kind # "apply" => unsure' = unsure
      /\ o.stage \in {"sent", "checked"} \/ (o.kind = "apply" => o.form.no \in unsure')
  <2>1. CASE FailQuery(k) BY <2>1 DEF FailQuery, Hurt, Filled, loanRows
  <2>2. CASE LoseReply(k)
    <3>1. /\ mail' = [mail EXCEPT ![k].ok = FALSE] /\ o.stage = "done"
          /\ unsure' = IF o.kind = "apply" THEN unsure \cup {o.form.no} ELSE unsure
          /\ UNCHANGED <<apps, lent, hall, bench, toasts, opened, doubled, hurried, met>>
      BY <2>2 DEF LoseReply, Hurt, loanRows
    <3>2. one = o BY <1>0, <3>1 DEF Letters
    <3>3. mail' = [mail EXCEPT ![k] = [o EXCEPT !.ok = FALSE]] BY <3>1
    <3> QED BY <3>1, <3>2, <3>3
  <2> QED BY <2>1, <2>2
<1>2. o \in Letters BY <1>0
<1>3. /\ l \in Letters /\ l.kind = o.kind /\ l.app = o.app /\ l.from = o.from /\ l.to = o.to
      /\ l.form = o.form /\ l.stage = "done" /\ ~ l.ok
  <2> HIDE DEF o
  <2>1. one \in Letters /\ one.kind = o.kind /\ one.form = o.form /\ one.stage = "done"
        /\ one.from = o.from /\ one.to = o.to /\ one.app = o.app
    BY <1>2 DEF Letters
  <2> HIDE DEF one
  <2> QED BY <2>1 DEF Letters
<1>4. Addressed(o) BY DEF LoanInv, TargetsKnown
<1>5. CASE o.kind = "apply"
  <2>1. o.stage # "checked" BY <1>4, <1>5 DEF Addressed
  <2>2. o.stage = "sent" \/ ~ o.ok \/ l.form.no \in unsure' BY <1>1, <1>3, <1>5, <2>1
  <2>3. l.kind = "apply" BY <1>3, <1>5
  <2> HIDE DEF l
  <2> QED BY <1>1, <1>3, <1>5, <2>2, <2>3, ApplyEnds
<1>6. CASE o.kind # "apply"
  <2> HIDE DEF l
  <2>1. Addressed(l) BY <1>3, <1>4 DEF Addressed
  <2> HIDE DEF o
  <2> QED BY <1>1, <1>3, <1>6, <2>1, HandledInv
<1> QED BY <1>5, <1>6

\* The pages that will be acted upon have asked for their lists, and for nothing else.
LEMMA LoanInitInv == LoanInit => LoanInv
<1> SUFFICES ASSUME LoanInit PROVE LoanInv OBVIOUS
<1> DEFINE there == {p \in Pages : left[p] > 0}
           order == SetToSeq(there)
           N == Cardinality(there)
           letter(k) == Letter(order[k], IF order[k] = Applicant THEN "first" ELSE "list", 0, Nobody)
           row(i) == [client |-> Waiting[i], form |-> 0, whole |-> TRUE, state |-> "PENDING"]
<1>1. /\ apps = [i \in DOMAIN Waiting |-> row(i)] /\ lent = <<>>
      /\ mail = [k \in DOMAIN order |-> letter(k)]
      /\ hall = [loading |-> Applicant \in there, fetching |-> Applicant \in there, list |-> <<>>, open |-> FALSE,
                 form |-> NoForm]
      /\ bench = [a \in Admins |-> [loading |-> a \in there, list |-> <<>>, open |-> FALSE, app |-> 0, state |-> "",
                                    target |-> Nobody, busy |-> 0]]
      /\ toasts = {} /\ opened = 0 /\ doubled = {} /\ unsure = {} /\ hurried = {} /\ met = [a \in Admins |-> {}]
  BY DEF LoanInit
<1>2. /\ IsFiniteSet(Admins) /\ Applicant \in Clients /\ Waiting \in Seq(Clients)
      /\ Pages = Admins \cup {Applicant} /\ there \subseteq Pages /\ Nobody \in Accounts
  BY LoanAssumption DEF Pages, Accounts
<1> HIDE DEF there
<1>3. IsFiniteSet(there) /\ N \in Nat
  <2>1. IsFiniteSet(Pages) BY <1>2, FS_AddElement
  <2>2. IsFiniteSet(there) BY <1>2, <2>1, FS_Subset
  <2> QED BY <2>2, FS_CardinalityType
<1>4. order \in [1 .. N -> there]
  <2>1. \E f \in [1 .. N -> there] : IsInjective(f)
    BY <1>3, FS_CardinalityType DEF ExistsBijection, Bijection, Injection
  <2> QED BY <2>1 DEF SetToSeq
<1> HIDE DEF order, N
<1>5. DOMAIN mail = 1 .. N /\ \A k \in 1 .. N : mail[k] = letter(k) BY <1>1, <1>4
<1>6. ASSUME NEW k \in 1 .. N
      PROVE  letter(k) \in Letters /\ letter(k).kind \in {"first", "list"} /\ letter(k).stage = "sent"
  <2>1. order[k] \in Pages BY <1>2, <1>4
  <2> DEFINE from == order[k]
             kind == IF from = Applicant THEN "first" ELSE "list"
  <2>2. kind \in LoanKinds /\ kind \in {"first", "list"} /\ 0 \in Nat BY DEF LoanKinds
  <2>3. letter(k) = Letter(from, kind, 0, Nobody) BY <1>6
  <2> HIDE DEF from, kind, letter
  <2>4. Letter(from, kind, 0, Nobody) \in Letters BY <1>2, <2>1, <2>2, LetterType DEF from
  <2> QED BY <2>2, <2>3, <2>4 DEF Letter
<1> HIDE DEF letter
<1>7. mail \in Seq(Letters)
  <2> DEFINE T == Letters
  <2>1. \A k \in 1 .. N : mail[k] \in T BY <1>5, <1>6
  <2> HIDE DEF T
  <2>2. mail = [k \in 1 .. N |-> letter(k)] BY <1>1, <1>4
  <2>3. mail \in [1 .. N -> T] BY <1>5, <2>1, <2>2
  <2>4. mail \in Seq(T) BY <1>3, <2>3, SeqDef
  <2> QED BY <2>4 DEF T
<1>8. /\ DOMAIN apps = DOMAIN Waiting
      /\ \A i \in DOMAIN apps : apps[i] \in Applications /\ apps[i].form = 0 /\ apps[i].whole /\ apps[i].state = "PENDING"
  <2>1. DOMAIN apps = DOMAIN Waiting /\ \A i \in DOMAIN apps : apps[i] = row(i) BY <1>1
  <2>2. \A i \in DOMAIN Waiting : Waiting[i] \in Clients BY <1>2, ElementOfSeq
  <2>3. \A i \in DOMAIN Waiting : row(i) \in Applications /\ row(i).form = 0 /\ row(i).whole /\ row(i).state = "PENDING"
    BY <2>2 DEF Applications, AppStates
  <2> HIDE DEF row
  <2> QED BY <2>1, <2>3
<1>9. apps \in Seq(Applications)
  <2> DEFINE T == Applications
             M == Len(Waiting)
  <2>1. M \in Nat /\ DOMAIN Waiting = 1 .. M BY <1>2, LenProperties
  <2>2. \A i \in 1 .. M : apps[i] \in T BY <1>8, <2>1
  <2> HIDE DEF T, row, M
  <2>3. apps = [i \in 1 .. M |-> row(i)] BY <1>1, <2>1
  <2>4. apps \in [1 .. M -> T] BY <2>2, <2>3
  <2>5. apps \in Seq(T) BY <2>1, <2>4, SeqDef
  <2> QED BY <2>5 DEF T
<1>10. <<>> \in LoanLists /\ NoForm \in LoanForms /\ NoForm.no = 0 /\ ~ NoForm.busy
  <2>1. <<>> \in [{} -> AppStates] OBVIOUS
  <2>2. <<>> \in LoanLists BY <2>1 DEF LoanLists
  <2>3. NoForm \in LoanForms /\ NoForm.no = 0 /\ ~ NoForm.busy BY DEF LoanForms, NoForm
  <2> QED BY <2>2, <2>3
<1>0. toasts = {} /\ opened = 0 /\ doubled = {} /\ unsure = {} /\ hurried = {} /\ met = [a \in Admins |-> {}] /\ lent = <<>>
  BY <1>1
<1>11. hall \in Halls /\ hall.form = NoForm
  <2>1. hall = [loading |-> Applicant \in there, fetching |-> Applicant \in there, list |-> <<>>, open |-> FALSE,
                form |-> NoForm]
    BY <1>1
  <2> QED BY <1>10, <2>1 DEF Halls
<1>12. bench \in [Admins -> Benches] /\ \A a \in Admins : ~ bench[a].open /\ bench[a].target = Nobody
  <2>1. bench = [a \in Admins |-> [loading |-> a \in there, list |-> <<>>, open |-> FALSE, app |-> 0, state |-> "",
                                  target |-> Nobody, busy |-> 0]]
    BY <1>1
  <2> DEFINE chair(a) == [loading |-> a \in there, list |-> <<>>, open |-> FALSE, app |-> 0, state |-> "",
                         target |-> Nobody, busy |-> 0]
  <2>2. <<>> \in LoanLists /\ Nobody \in Accounts BY <1>2, <1>10
  <2>3. \A a \in Admins : chair(a) \in Benches /\ ~ chair(a).open /\ chair(a).target = Nobody
    BY <2>2 DEF Benches
  <2>4. bench = [a \in Admins |-> chair(a)] BY <2>1
  <2> HIDE DEF chair
  <2> QED BY <2>3, <2>4
<1>13. LoanTypes
  <2>1. lent \in Seq(Loans) /\ met \in [Admins -> SUBSET Clients] BY <1>0
  <2> QED BY <1>0, <1>7, <1>9, <1>11, <1>12, <2>1 DEF LoanTypes
<1>14. TargetsKnown
  <2>1. \A k \in DOMAIN mail : Addressed(mail[k]) BY <1>5, <1>6 DEF Addressed
  <2> QED BY <1>0, <1>12, <2>1 DEF TargetsKnown
<1>15. FormFilled BY <1>0, <1>10, <1>11 DEF FormFilled
<1>16. FormsOnce
  <2>1. \A k \in DOMAIN mail : mail[k].kind # "apply" BY <1>5, <1>6
  <2> QED BY <1>0, <1>8, <1>10, <1>11, <2>1 DEF FormsOnce
<1>17. DecidedOnce
  <2>1. \A k \in DOMAIN mail : mail[k].stage # "checked" BY <1>5, <1>6
  <2> QED BY <1>0, <1>8, <2>1 DEF DecidedOnce, Paid
<1> QED BY <1>13, <1>14, <1>15, <1>16, <1>17 DEF LoanInv

\* Every step of the loan pages and of their handlers keeps the invariant.
LEMMA LoanStepInv == LoanInv /\ [LoanNext]_loanVars => LoanInv'
<1> SUFFICES ASSUME LoanInv, [LoanNext]_loanVars PROVE LoanInv' OBVIOUS
<1>1. CASE ApplyNow \/ CloseForm \/ FadeOut \/ ShowStep \/ Edit \/ NextStep \/ PrevStep BY <1>1, FormInv
<1>2. CASE SubmitForm BY <1>2, SubmitFormInv
<1>3. CASE Renew BY <1>3, RenewInv
<1>4. CASE \E a \in Admins : Reviewing(a) BY <1>4, ReviewingInv
<1>5. CASE \E t \in toasts : Confirm(t) BY <1>5, ConfirmInv
<1>6. CASE Turns
  <2>1. PICK k \in DOMAIN mail : Works(k) \/ Answers(k) BY <1>6 DEF Turns
  <2>2. CASE Works(k)
    BY <2>2, ServeListInv, ServeAccountsInv, ServeApplyInv, RefuseApplyInv, CheckDeedInv, DoDeedInv DEF Works
  <2>3. CASE Answers(k)
    BY <2>3, OnFirstInv, OnListInv, OnApplyInv, OnDetailsInv, OnFindInv, OnDecidedInv DEF Answers
  <2> QED BY <2>1, <2>2, <2>3
<1>7. CASE \E k \in DOMAIN mail : FailQuery(k) \/ LoseReply(k) BY <1>7, MishapInv
<1>8. CASE UNCHANGED loanVars
  BY <1>8 DEF loanVars, loanRows, marks, LoanInv, LoanTypes, TargetsKnown, Addressed, Asking,
              FormFilled, FormsOnce, Made, DecidedOnce, Paid
<1> QED BY <1>1, <1>2, <1>3, <1>4, <1>5, <1>6, <1>7, <1>8 DEF LoanNext

\* The invariant of the loan pages.
THEOREM LoanInvariant == LoanSpec => []LoanInv
BY LoanInitInv, LoanStepInv, PTL DEF LoanSpec

\* A page that asked for the accounts of one customer only pays that customer.
LEMMA LoansApart == LoanInv => LoansStayApart
BY DEF LoanInv, TargetsKnown, LoansStayApart

\* One form makes one application, and one approval pays one loan.
LEMMA LoansOnce == LoanInv => LoansAreMadeOnce
<1> SUFFICES ASSUME LoanInv PROVE LoansAreMadeOnce OBVIOUS
<1>1. \A i \in DOMAIN apps : apps[i].whole \/ apps[i].form \in hurried BY DEF LoanInv, FormsOnce
<1>2. ASSUME NEW f \in 1 .. opened \ (unsure \cup hurried)
      PROVE  Cardinality({i \in DOMAIN apps : apps[i].form = f}) <= 1
  <2> DEFINE S == {i \in DOMAIN apps : apps[i].form = f}
  <2>1. f \notin unsure \cup hurried \cup {0} BY <1>2
  <2>2. \A i, j \in S : i = j BY <2>1 DEF LoanInv, FormsOnce
  <2>3. S = {} \/ \E i : S = {i} BY <2>2
  <2> HIDE DEF S
  <2>4. Cardinality(S) = 0 \/ Cardinality(S) = 1 BY <2>3, FS_EmptySet, FS_Singleton
  <2>5. Cardinality(S) <= 1 BY <2>4
  <2> QED BY <2>5 DEF S
<1>3. ASSUME NEW i \in DOMAIN apps \ doubled
      PROVE  Cardinality({n \in DOMAIN lent : lent[n].app = i}) = IF apps[i].state = "APPROVED" THEN 1 ELSE 0
  <2>1. /\ apps[i].state = "APPROVED" => \E n \in DOMAIN lent : Paid(i) = {n}
        /\ apps[i].state # "APPROVED" => Paid(i) = {}
    BY DEF LoanInv, DecidedOnce
  <2>2. Cardinality(Paid(i)) = IF apps[i].state = "APPROVED" THEN 1 ELSE 0 BY <2>1, FS_EmptySet, FS_Singleton
  <2> QED BY <2>2 DEF Paid
<1> QED BY <1>1, <1>2, <1>3 DEF LoansAreMadeOnce

\* Money paid for an application goes to its customer, by every administrator who looked at one
\* customer's applications only, however the dialogs, the questions and the answers interleave.
THEOREM LoansApartAlways == LoanSpec => []LoansStayApart
BY LoanInvariant, LoansApart, PTL

\* One form makes at most one application, and a whole one, unless its answer was lost or a step
\* of it was used while it left the screen; an approved application was paid once and no other was
\* paid, unless two decisions were under way at once.
THEOREM LoansOnceAlways == LoanSpec => []LoansAreMadeOnce
BY LoanInvariant, LoansOnce, PTL

-----------------------------------------------------------------------------
(***************************************************************************)
(* What the loan pages list.                                               *)
(***************************************************************************)
\* What a page shows as its list, and the requests after whose answer it is read again.
Showing(p) == IF p = Applicant THEN hall.list ELSE bench[p].list
Renews(l) == l.kind \in ListReads \/ (l.kind \in {"apply", "approve", "reject"} /\ l.stage = "done" /\ l.ok)
\* The form and the two loads of the customer's page are its own; a list that was read and that
\* nothing overtook or outdated is the list there is.
Owned(l) == l.kind \in {"first", "accounts", "apply"} => l.from = Applicant
ListedNow(l) == l.kind \in ListReads /\ l.stage = "done" /\ l.ok /\ l.newest => l.list = Listed(l.from)
ListsInv ==
  /\ \A k \in DOMAIN mail : Owned(mail[k]) /\ ListedNow(mail[k])
  /\ \A p \in Pages \ dim : \/ Listed(p) = Showing(p)
                            \/ \E k \in DOMAIN mail : mail[k].from = p /\ Renews(mail[k])

\* A letter as it was, but for its age.
Older(l, m) == Same(l, m) /\ l.list = m.list /\ (l.newest => m.newest)
\* ls is the letters of ms but those of K, and those of new.
Retains(ls, ms, K, new) ==
  /\ \A j \in DOMAIN ls : ls[j] \in new \/ \E i \in DOMAIN ms \ K : Older(ls[j], ms[i])
  /\ \A i \in DOMAIN ms \ K : \E j \in DOMAIN ls : Older(ls[j], ms[i])
  /\ \A l \in new : \E j \in DOMAIN ls : ls[j] = l

\* A letter that is posted leaves the others, and what makes them old leaves their lists.
LEMMA PostedRetains ==
  ASSUME NEW ms \in Seq(Letters), NEW new \in Letters
  PROVE  Retains(Posted(ms, new), ms, {}, {new}) /\ Posted(ms, new) \in Seq(Letters)
<1> DEFINE T == Letters
           over(k) == new.kind \in ListReads /\ ms[k].kind \in ListReads /\ ms[k].from = new.from
           old == [k \in DOMAIN ms |-> [ms[k] EXCEPT !.newest = @ /\ ~ over(k)]]
           p == old \o <<new>>
<1>1. Len(ms) \in Nat /\ DOMAIN ms = 1 .. Len(ms) /\ \A j \in DOMAIN ms : ms[j] \in Letters
  BY LenProperties, ElementOfSeq
<1>2. Posted(ms, new) = p BY DEF Posted
<1>3. \A k \in DOMAIN ms : over(k) \in BOOLEAN OBVIOUS
<1> HIDE DEF over
<1>4. \A j \in DOMAIN ms : old[j] \in Letters /\ Older(old[j], ms[j])
  BY <1>1, <1>3 DEF Letters, Same, Older
<1>5. DOMAIN old = 1 .. Len(ms) BY <1>1
<1> HIDE DEF T, old
<1>6. old \in [1 .. Len(ms) -> T] BY <1>1, <1>4, <1>5 DEF old, T
<1>7. old \in Seq(T) /\ Len(old) = Len(ms) BY <1>1, <1>6
<1>8. new \in T BY DEF T
<1>9. /\ p \in Seq(T) /\ Len(p) = Len(ms) + 1
      /\ \A j \in 1 .. Len(ms) : p[j] = old[j]
      /\ p[Len(ms) + 1] = new
  BY <1>1, <1>7, <1>8
<1> HIDE DEF p
<1>10. DOMAIN p = 1 .. (Len(ms) + 1) BY <1>9, LenProperties
<1>11. \A j \in DOMAIN p : p[j] = new \/ (j \in DOMAIN ms /\ Older(p[j], ms[j]))
  BY <1>1, <1>4, <1>9, <1>10
<1>12. \A j \in DOMAIN ms : j \in DOMAIN p /\ Older(p[j], ms[j])
  BY <1>1, <1>4, <1>9, <1>10
<1>13. Len(ms) + 1 \in DOMAIN p BY <1>1, <1>10
<1> QED BY <1>2, <1>9, <1>11, <1>12, <1>13 DEF Retains, T

\* A letter that is taken leaves the others.
LEMMA RemovedRetains ==
  ASSUME NEW ms \in Seq(Letters), NEW k \in DOMAIN ms
  PROVE  Retains(RemoveAt(ms, k), ms, {k}, {}) /\ RemoveAt(ms, k) \in Seq(Letters)
<1> DEFINE T == Letters
           r == RemoveAt(ms, k)
<1>1. ms \in Seq(T) OBVIOUS
<1> HIDE DEF T
<1>2. /\ r \in Seq(T) /\ DOMAIN r = 1 .. (Len(ms) - 1)
      /\ \A j \in DOMAIN r : r[j] = ms[IF j < k THEN j ELSE j + 1]
  BY <1>1, Removed
<1>3. Len(ms) \in Nat /\ DOMAIN ms = 1 .. Len(ms) BY <1>1, LenProperties
<1> HIDE DEF r
<1>4. ASSUME NEW j \in DOMAIN r PROVE \E i \in DOMAIN ms \ {k} : Older(r[j], ms[i])
  <2>1. (IF j < k THEN j ELSE j + 1) \in DOMAIN ms \ {k} BY <1>2, <1>3
  <2> QED BY <1>2, <2>1 DEF Older, Same
<1>5. ASSUME NEW i \in DOMAIN ms \ {k} PROVE \E j \in DOMAIN r : Older(r[j], ms[i])
  <2> DEFINE j == IF i < k THEN i ELSE i - 1
  <2>1. j \in DOMAIN r /\ (IF j < k THEN j ELSE j + 1) = i BY <1>2, <1>3
  <2> HIDE DEF j
  <2> QED BY <1>2, <2>1 DEF Older, Same
<1> QED BY <1>2, <1>4, <1>5 DEF Retains, T, r

\* A letter that is answered leaves the others beside the one its answer sends.
LEMMA AnsweredRetains ==
  ASSUME NEW ms \in Seq(Letters), NEW k \in DOMAIN ms, NEW new \in Letters
  PROVE  Retains(Posted(RemoveAt(ms, k), new), ms, {k}, {new})
<1> DEFINE r == RemoveAt(ms, k)
           p == Posted(r, new)
<1>1. Retains(r, ms, {k}, {}) /\ r \in Seq(Letters) BY RemovedRetains
<1> HIDE DEF r
<1>2. Retains(p, r, {}, {new}) BY <1>1, PostedRetains
<1> HIDE DEF p
<1>3. \A a, b, c : Older(a, b) /\ Older(b, c) => Older(a, c) BY DEF Older, Same
<1> QED BY <1>1, <1>2, <1>3 DEF Retains, p, r

\* A letter that is changed leaves the others.
LEMMA ChangedRetains ==
  ASSUME NEW ms \in Seq(Letters), NEW k \in DOMAIN ms, NEW l
  PROVE  Retains([ms EXCEPT ![k] = l], ms, {k}, {l})
BY DEF Retains, Older, Same

\* A step that leaves the rows and what the pages show, and of whose letters each that was to
\* renew a list is followed by another, unless the list is in doubt.
LEMMA ListsQuiet ==
  ASSUME ListsInv, NEW K, NEW new, Retains(mail', mail, K, new), apps' = apps, dim \subseteq dim',
         \A p \in Pages : Showing(p)' = Showing(p),
         \A l \in new : Owned(l) /\ ListedNow(l),
         \A i \in K \cap DOMAIN mail : Renews(mail[i]) =>
             mail[i].from \in dim' \/ \E l \in new : l.from = mail[i].from /\ Renews(l)
  PROVE  ListsInv'
<1>1. \A p : Listed(p)' = Listed(p) BY DEF Listed
<1>2. \A l, m : Older(l, m) => (Owned(m) => Owned(l)) /\ (ListedNow(m) => ListedNow(l)) /\ (Renews(l) <=> Renews(m))
                               /\ l.from = m.from
  BY DEF Older, Same, Owned, ListedNow, Renews
<1>3. \A j \in DOMAIN mail' : Owned(mail'[j]) /\ ListedNow(mail'[j])
  BY <1>2 DEF Retains, ListsInv
<1>4. \A j \in DOMAIN mail' : ListedNow(mail[j])' BY <1>1, <1>3 DEF ListedNow
<1>5. ASSUME NEW p \in Pages \ dim', Listed(p) # Showing(p)
      PROVE  \E j \in DOMAIN mail' : mail'[j].from = p /\ Renews(mail'[j])
  <2>1. PICK k \in DOMAIN mail : mail[k].from = p /\ Renews(mail[k]) BY <1>5 DEF ListsInv
  <2>2. CASE k \in K BY <1>5, <2>1, <2>2 DEF Retains
  <2>3. CASE k \notin K
    <3>1. PICK j \in DOMAIN mail' : Older(mail'[j], mail[k]) BY <2>3 DEF Retains
    <3> QED BY <1>2, <2>1, <3>1
  <2> QED BY <2>2, <2>3
<1>6. \A j \in DOMAIN mail' : Owned(mail[j])' BY <1>3 DEF Owned
<1>7. \A j \in DOMAIN mail' : Renews(mail[j])' <=> Renews(mail'[j]) BY DEF Renews
<1>8. ASSUME NEW p \in Pages, p \notin dim'
      PROVE  Listed(p)' = Showing(p)' \/ \E j \in DOMAIN mail' : mail'[j].from = p /\ Renews(mail[j])'
  BY <1>1, <1>5, <1>7, <1>8
<1> QED BY <1>4, <1>6, <1>8 DEF ListsInv

\* Letters that stay retain themselves.
LEMMA SelfRetains == \A ms : Retains(ms, ms, {}, {})
BY DEF Retains, Older, Same

\* A page asks for something, or nothing goes out.
LEMMA ListsAsked ==
  ASSUME LoanInv, ListsInv, apps' = apps, dim' = dim, hall'.list = hall.list,
         \A a \in Admins : bench'[a].list = bench[a].list,
         mail' = mail \/ \E l \in Letters : /\ mail' = Posted(mail, l)
                                            /\ Owned(l) /\ l.stage = "sent"
  PROVE  ListsInv'
<1>1. \A p \in Pages : Showing(p)' = Showing(p) BY DEF Showing, Pages
<1>2. CASE mail' = mail
  <2>1. Retains(mail', mail, {}, {}) BY <1>2, SelfRetains
  <2> QED BY <1>1, <2>1, ListsQuiet
<1>3. CASE \E l \in Letters : mail' = Posted(mail, l) /\ Owned(l) /\ l.stage = "sent"
  <2>1. PICK l \in Letters : mail' = Posted(mail, l) /\ Owned(l) /\ l.stage = "sent" BY <1>3
  <2>2. Retains(mail', mail, {}, {l}) BY <2>1, PostedRetains, LoanRecords
  <2>3. \A m \in {l} : Owned(m) /\ ListedNow(m) BY <2>1 DEF ListedNow
  <2> QED BY <1>1, <2>2, <2>3, ListsQuiet
<1> QED BY <1>2, <1>3

\* What the customer does keeps the lists.
LEMMA ListsVisited ==
  ASSUME LoanInv, ListsInv,
         ApplyNow \/ CloseForm \/ FadeOut \/ ShowStep \/ Edit \/ NextStep \/ PrevStep \/ SubmitForm \/ Renew
  PROVE  ListsInv'
<1> USE LoanRecords
<1>1. apps' = apps /\ dim' = dim /\ bench' = bench
  BY DEF ApplyNow, CloseForm, FadeOut, ShowStep, Edit, NextStep, PrevStep, SubmitForm, Renew, Uses, Visits, Busied,
         loanRows, marks
<1>2. hall'.list = hall.list
  <2>1. CASE ApplyNow BY <2>1 DEF ApplyNow, Halls
  <2>2. CASE CloseForm BY <2>2 DEF CloseForm, Halls
  <2>3. CASE Edit BY <2>3 DEF Edit, Halls
  <2>4. CASE NextStep BY <2>4 DEF NextStep, Halls
  <2>5. CASE PrevStep BY <2>5 DEF PrevStep, Halls
  <2>6. CASE SubmitForm BY <2>6 DEF SubmitForm, Halls
  <2>7. CASE Renew BY <2>7 DEF Renew, Halls
  <2>8. CASE FadeOut BY <2>8 DEF FadeOut, Halls
  <2>9. CASE ShowStep BY <2>9 DEF ShowStep, Halls
  <2> QED BY <2>1, <2>2, <2>3, <2>4, <2>5, <2>6, <2>7, <2>8, <2>9
<1>3. CASE ApplyNow \/ CloseForm \/ FadeOut \/ ShowStep \/ Edit \/ NextStep \/ PrevStep
  <2>1. mail' = mail BY <1>3 DEF ApplyNow, CloseForm, FadeOut, ShowStep, Edit, NextStep, PrevStep
  <2> QED BY <1>1, <1>2, <2>1, ListsAsked
<1>4. CASE SubmitForm
  <2> DEFINE s == Letter(Applicant, "apply", 0, Nobody)
             sheet == [NoForm EXCEPT !.no = hall.form.no, !.good = hall.form.good, !.filled = hall.form.filled]
             l == [s EXCEPT !.form = sheet]
  <2>0. sheet \in LoanForms BY SentForm
  <2>1. s \in Letters /\ s.from = Applicant /\ s.stage = "sent"
    <3>1. s \in Letters BY LetterType DEF LoanKinds
    <3> QED BY <3>1 DEF Letter
  <2>2. mail' = Posted(mail, l) BY <1>4 DEF SubmitForm
  <2> HIDE DEF s, sheet
  <2>3. l \in Letters /\ Owned(l) /\ l.stage = "sent" BY <2>0, <2>1 DEF Letters, Owned
  <2> HIDE DEF l
  <2> QED BY <1>1, <1>2, <2>2, <2>3, ListsAsked
<1>5. CASE Renew
  <2> DEFINE l == Letter(Applicant, "list", 0, Nobody)
  <2>1. mail' = Posted(mail, l) BY <1>5 DEF Renew
  <2>2. l \in Letters BY LetterType DEF LoanKinds
  <2>3. Owned(l) /\ l.stage = "sent" BY DEF Owned, Letter
  <2> HIDE DEF l
  <2> QED BY <1>1, <1>2, <2>1, <2>2, <2>3, ListsAsked
<1> QED BY <1>3, <1>4, <1>5

\* What an administrator does keeps the lists.
LEMMA ListsReviewed ==
  ASSUME LoanInv, ListsInv, (\E a \in Admins : Reviewing(a)) \/ (\E t \in toasts : Confirm(t))
  PROVE  ListsInv'
<1> USE LoanRecords
<1>1. ASSUME NEW a \in Admins, NEW kind \in {"list", "details", "find", "approve", "reject"},
             NEW i \in Nat, NEW to \in Accounts
      PROVE  LET l == Letter(a, kind, i, to) IN l \in Letters /\ Owned(l) /\ l.stage = "sent"
  <2>1. Letter(a, kind, i, to) \in Letters
    <3>1. kind \in LoanKinds /\ a \in Pages BY DEF LoanKinds
    <3> QED BY <3>1, LetterType
  <2> QED BY <2>1 DEF Letter, Owned
<1>2. ASSUME NEW t, t.by \in Admins, t.app \in Nat, t.target \in Accounts, t.deed \in {"approve", "reject"}, Perform(t),
             UNCHANGED <<apps, dim, hall>>
      PROVE  ListsInv'
  <2> DEFINE kind == FirstCall(t)
             l == Letter(t.by, kind, t.app, t.target)
  <2>1. kind \in {"find", "approve", "reject"} BY <1>2 DEF FirstCall
  <2>2. mail' = Posted(mail, l) /\ bench' = [bench EXCEPT ![t.by].busy = t.app] BY <1>2 DEF Perform
  <2> HIDE DEF kind
  <2>3. l \in Letters /\ Owned(l) /\ l.stage = "sent" BY <1>1, <1>2, <2>1
  <2> HIDE DEF l
  <2>4. \A a \in Admins : bench'[a].list = bench[a].list BY <2>2 DEF Benches
  <2> QED BY <1>2, <2>2, <2>3, <2>4, ListsAsked
<1>3. ASSUME NEW a \in Admins, RefreshList(a) \/ CloseDetails(a) PROVE ListsInv'
  <2>1. UNCHANGED <<apps, dim, hall>>
    BY <1>3 DEF RefreshList, CloseDetails, Reviews, Busied, loanRows, marks
  <2>2. \A b \in Admins : bench'[b].list = bench[b].list
    <3>1. CASE RefreshList(a) BY <3>1 DEF RefreshList, Benches
    <3>2. CASE CloseDetails(a) BY <3>2 DEF CloseDetails, Benches
    <3> QED BY <1>3, <3>1, <3>2
  <2>3. mail' = mail \/ mail' = Posted(mail, Letter(a, "list", 0, Nobody)) BY <1>3 DEF RefreshList, CloseDetails
  <2> QED BY <1>1, <2>1, <2>2, <2>3, ListsAsked
<1>4. ASSUME NEW a \in Admins, NEW i \in DOMAIN apps, OpenDetails(a, i) PROVE ListsInv'
  <2>1. UNCHANGED <<apps, dim, hall>> BY <1>4 DEF OpenDetails, loanRows
  <2>2. \A b \in Admins : bench'[b].list = bench[b].list BY <1>4 DEF OpenDetails, Benches
  <2>3. mail' = Posted(mail, Letter(a, "details", i, Nobody)) BY <1>4 DEF OpenDetails
  <2>4. i \in Nat BY Elements DEF LoanInv
  <2> QED BY <1>1, <2>1, <2>2, <2>3, <2>4, ListsAsked
<1>5. ASSUME NEW a \in Admins, NEW i \in DOMAIN apps, NEW deed, Ask(a, i, deed) PROVE ListsInv'
  <2>1. UNCHANGED <<apps, dim, hall, bench, mail>> BY <1>5 DEF Ask, Reviews, Busied, loanRows, marks
  <2> QED BY <2>1, ListsAsked
<1>6. ASSUME NEW a \in Admins, NEW deed \in {"approve", "reject"}, Decide(a, deed) PROVE ListsInv'
  <2> DEFINE t == [by |-> a, app |-> bench[a].app, deed |-> deed, target |-> bench[a].target]
  <2>1. UNCHANGED <<apps, dim, hall>> /\ Perform(t) BY <1>6 DEF Decide, Reviews, Busied, loanRows, marks
  <2>2. t.by \in Admins /\ t.app \in Nat /\ t.target \in Accounts /\ t.deed \in {"approve", "reject"} BY DEF Benches
  <2> HIDE DEF t
  <2> QED BY <1>2, <2>1, <2>2
<1>7. ASSUME NEW t \in toasts, Confirm(t) PROVE ListsInv'
  <2>1. UNCHANGED <<apps, dim, hall>> /\ Perform(t) BY <1>7 DEF Confirm, Reviews, Busied, loanRows, marks
  <2>2. t.by \in Admins /\ t.app \in Nat /\ t.target \in Accounts /\ t.deed \in {"approve", "reject"} BY DEF Questions
  <2> QED BY <1>2, <2>1, <2>2
<1> QED BY <1>3, <1>4, <1>5, <1>6, <1>7 DEF Reviewing

\* A handler that changes no row keeps the lists.
LEMMA ListsServed ==
  ASSUME LoanInv, ListsInv, NEW k, ServeList(k) \/ ServeAccounts(k) \/ RefuseApply(k) \/ CheckDeed(k)
  PROVE  ListsInv'
<1> USE LoanRecords
<1>1. /\ k \in DOMAIN mail /\ mail[k] \in Letters /\ mail[k].stage = "sent" /\ Owned(mail[k])
      /\ UNCHANGED <<apps, dim, hall, bench>>
  BY DEF ServeList, ServeAccounts, RefuseApply, CheckDeed, Asks, Server, loanRows, ListsInv
<1>2. PICK l : /\ mail' = [mail EXCEPT ![k] = l] /\ l.from = mail[k].from /\ l.kind = mail[k].kind
               /\ l.kind \in ListReads => l.list = Listed(l.from)
  <2>1. CASE ServeList(k)
    <3> DEFINE l == [Filled(mail[k], TRUE) EXCEPT !.list = Listed(mail[k].from)]
    <3>1. mail' = [mail EXCEPT ![k] = l] BY <2>1 DEF ServeList
    <3>2. l.from = mail[k].from /\ l.kind = mail[k].kind /\ l.list = Listed(mail[k].from) BY <1>1 DEF Filled, Letters
    <3> QED BY <3>1, <3>2
  <2>2. CASE ServeAccounts(k)
    <3>1. PICK to : mail' = [mail EXCEPT ![k] = [Filled(mail[k], TRUE) EXCEPT !.to = to]]
      BY <2>2 DEF ServeAccounts
    <3> DEFINE l == [Filled(mail[k], TRUE) EXCEPT !.to = to]
    <3>2. l.from = mail[k].from /\ l.kind = mail[k].kind BY <1>1 DEF Filled, Letters
    <3>3. mail[k].kind \notin ListReads BY <2>2 DEF ServeAccounts, Asks, ListReads
    <3>4. mail' = [mail EXCEPT ![k] = l] BY <3>1
    <3> HIDE DEF l
    <3> QED BY <3>2, <3>3, <3>4
  <2>3. CASE CheckDeed(k)
    <3> DEFINE l == IF apps[mail[k].app].state = "PENDING" THEN [mail[k] EXCEPT !.stage = "checked"]
                    ELSE Filled(mail[k], FALSE)
    <3>1. mail' = [mail EXCEPT ![k] = l] BY <2>3 DEF CheckDeed
    <3>2. l.from = mail[k].from /\ l.kind = mail[k].kind BY <1>1 DEF Filled, Letters
    <3>3. mail[k].kind \notin ListReads BY <2>3 DEF CheckDeed, Asks, ListReads
    <3> HIDE DEF l
    <3> QED BY <3>1, <3>2, <3>3
  <2>4. CASE RefuseApply(k)
    <3> DEFINE l == Filled(mail[k], FALSE)
    <3>1. mail' = [mail EXCEPT ![k] = l] BY <2>4 DEF RefuseApply
    <3>2. l.from = mail[k].from /\ l.kind = mail[k].kind BY <1>1 DEF Filled, Letters
    <3>3. mail[k].kind \notin ListReads BY <2>4 DEF RefuseApply, Asks, ListReads
    <3> HIDE DEF l
    <3> QED BY <3>1, <3>2, <3>3
  <2> QED BY <2>1, <2>2, <2>3, <2>4
<1>3. Retains(mail', mail, {k}, {l}) BY <1>1, <1>2, ChangedRetains
<1>4. Owned(l) /\ ListedNow(l) BY <1>1, <1>2 DEF Owned, ListedNow
<1>5. Renews(mail[k]) => l.from = mail[k].from /\ Renews(l) BY <1>1, <1>2 DEF Renews
<1>6. \A p \in Pages : Showing(p)' = Showing(p) BY <1>1 DEF Showing
<1>7. \A m \in {l} : Owned(m) /\ ListedNow(m) BY <1>4
<1> QED BY <1>1, <1>3, <1>5, <1>6, <1>7, ListsQuiet

\* What goes wrong keeps the lists.
LEMMA ListsUpset ==
  ASSUME LoanInv, ListsInv, NEW k, FailQuery(k) \/ LoseReply(k)
  PROVE  ListsInv'
<1> USE LoanRecords
<1>1. /\ k \in DOMAIN mail /\ mail[k] \in Letters /\ Owned(mail[k])
      /\ UNCHANGED <<apps, hall, bench>>
  BY DEF FailQuery, LoseReply, Hurt, loanRows, ListsInv
<1>2. PICK l : /\ mail' = [mail EXCEPT ![k] = l] /\ l.from = mail[k].from /\ l.kind = mail[k].kind /\ ~ l.ok
  <2>1. CASE FailQuery(k)
    <3> DEFINE l == [mail[k] EXCEPT !.stage = "done", !.ok = FALSE]
    <3>1. mail' = [mail EXCEPT ![k] = l] BY <2>1 DEF FailQuery, Filled
    <3>2. l.from = mail[k].from /\ l.kind = mail[k].kind /\ ~ l.ok BY <1>1 DEF Letters
    <3> HIDE DEF l
    <3> QED BY <3>1, <3>2
  <2>2. CASE LoseReply(k)
    <3> DEFINE l == [mail[k] EXCEPT !.ok = FALSE]
    <3>1. mail' = [mail EXCEPT ![k] = l] BY <2>2 DEF LoseReply
    <3>2. l.from = mail[k].from /\ l.kind = mail[k].kind /\ ~ l.ok BY <1>1 DEF Letters
    <3> HIDE DEF l
    <3> QED BY <3>1, <3>2
  <2> QED BY <2>1, <2>2
<1>3. Retains(mail', mail, {k}, {l}) BY <1>1, <1>2, ChangedRetains
<1>4. \A m \in {l} : Owned(m) /\ ListedNow(m) BY <1>1, <1>2 DEF Owned, ListedNow
<1>5. Renews(mail[k]) => mail[k].from \in dim' \/ (l.from = mail[k].from /\ Renews(l))
  <2>1. CASE mail[k].kind \in ListReads BY <1>2, <2>1 DEF Renews
  <2>2. CASE mail[k].kind \in {"apply", "approve", "reject"} /\ mail[k].stage = "done" /\ mail[k].ok
    BY <2>2 DEF FailQuery, LoseReply
  <2> QED BY <2>1, <2>2 DEF Renews
<1>6. \A p \in Pages : Showing(p)' = Showing(p) BY <1>1 DEF Showing
<1>7. dim \subseteq dim' BY DEF FailQuery, LoseReply
<1> QED BY <1>1, <1>3, <1>4, <1>5, <1>6, <1>7, ListsQuiet

\* An answer that is no list is taken, and nothing is asked for but what follows it.
LEMMA ListsTaken ==
  ASSUME LoanInv, ListsInv, NEW k \in DOMAIN mail, apps' = apps, dim' = dim, hall'.list = hall.list,
         \A a \in Admins : bench'[a].list = bench[a].list,
         \/ mail' = RemoveAt(mail, k) /\ ~ Renews(mail[k])
         \/ \E l \in Letters : /\ mail' = Posted(RemoveAt(mail, k), l)
                               /\ Owned(l) /\ l.stage = "sent"
                               /\ Renews(mail[k]) => l.from = mail[k].from /\ Renews(l)
  PROVE  ListsInv'
<1> USE LoanRecords
<1>1. \A p \in Pages : Showing(p)' = Showing(p) BY DEF Showing, Pages
<1>2. CASE mail' = RemoveAt(mail, k) /\ ~ Renews(mail[k])
  <2>1. Retains(mail', mail, {k}, {}) BY <1>2, RemovedRetains
  <2> QED BY <1>1, <1>2, <2>1, ListsQuiet
<1>3. CASE \E l \in Letters : /\ mail' = Posted(RemoveAt(mail, k), l)
                              /\ Owned(l) /\ l.stage = "sent"
                              /\ Renews(mail[k]) => l.from = mail[k].from /\ Renews(l)
  <2>1. PICK l \in Letters : /\ mail' = Posted(RemoveAt(mail, k), l)
                             /\ Owned(l) /\ l.stage = "sent"
                             /\ Renews(mail[k]) => l.from = mail[k].from /\ Renews(l)
    BY <1>3
  <2>2. Retains(mail', mail, {k}, {l}) BY <2>1, AnsweredRetains
  <2>3. \A m \in {l} : Owned(m) /\ ListedNow(m) BY <2>1 DEF ListedNow
  <2> QED BY <1>1, <2>1, <2>2, <2>3, ListsQuiet
<1> QED BY <1>2, <1>3

\* The answers that are no lists keep the lists.
LEMMA ListsAnswered ==
  ASSUME LoanInv, ListsInv, NEW k, OnAccounts(k) \/ OnApply(k) \/ OnDetails(k) \/ OnFind(k) \/ OnDecided(k)
  PROVE  ListsInv'
<1> USE LoanRecords
<1>1. /\ k \in DOMAIN mail /\ mail[k] \in Letters /\ Owned(mail[k]) /\ Addressed(mail[k])
      /\ UNCHANGED <<apps, dim>>
  BY DEF OnAccounts, OnApply, OnDetails, OnFind, OnDecided, Comes, Taking, loanRows, ListsInv, LoanInv, TargetsKnown
<1>2. hall'.list = hall.list
  <2>1. CASE OnAccounts(k) BY <2>1 DEF OnAccounts, Halls
  <2>2. CASE OnApply(k)
    <3> DEFINE h == IF hall.form.no = mail[k].form.no THEN [hall EXCEPT !.form.busy = FALSE] ELSE hall
    <3>1. h \in Halls /\ h.list = hall.list BY DEF Halls, LoanForms
    <3>2. hall' = h \/ hall' = [h EXCEPT !.open = FALSE, !.fetching = TRUE] BY <2>2 DEF OnApply
    <3> HIDE DEF h
    <3> QED BY <3>1, <3>2 DEF Halls
  <2>3. CASE OnDetails(k) \/ OnFind(k) \/ OnDecided(k) BY <2>3 DEF OnDetails, OnFind, OnDecided
  <2> QED BY <2>1, <2>2, <2>3
<1>3. \A a \in Admins : bench'[a].list = bench[a].list
  <2>1. CASE OnAccounts(k) \/ OnApply(k) BY <2>1 DEF OnAccounts, OnApply
  <2>2. CASE OnDetails(k) BY <2>2 DEF OnDetails, Benches
  <2> DEFINE x == mail[k].from
  <2>3. CASE OnFind(k)
    <3>1. bench' = bench \/ bench' = [bench EXCEPT ![x].busy = EndOfAction(mail[k])] BY <2>3 DEF OnFind
    <3> HIDE DEF x
    <3> QED BY <3>1 DEF Benches
  <2>4. CASE OnDecided(k)
    <3>1. \/ bench' = [bench EXCEPT ![x].open = FALSE, ![x].loading = TRUE, ![x].busy = 0]
          \/ bench' = [bench EXCEPT ![x].busy = 0]
      BY <2>4 DEF OnDecided
    <3> HIDE DEF x
    <3>2. CASE bench' = [bench EXCEPT ![x].busy = 0] BY <3>2 DEF Benches
    <3>3. CASE bench' = [bench EXCEPT ![x].open = FALSE, ![x].loading = TRUE, ![x].busy = 0]
      <4>1. \A a \in Admins : a # x => bench'[a] = bench[a] BY <3>3
      <4>2. ASSUME x \in Admins
            PROVE bench'[x] = [[[bench[x] EXCEPT !.open = FALSE] EXCEPT !.loading = TRUE] EXCEPT !.busy = 0]
        BY <3>3, <4>2
      <4>3. \A b \in Benches : [[[b EXCEPT !.open = FALSE] EXCEPT !.loading = TRUE] EXCEPT !.busy = 0].list = b.list
        BY DEF Benches
      <4> QED BY <4>1, <4>2, <4>3
    <3> QED BY <3>1, <3>2, <3>3
  <2> QED BY <2>1, <2>2, <2>3, <2>4
<1>4. CASE OnAccounts(k) \/ OnDetails(k)
  <2>1. mail' = RemoveAt(mail, k) BY <1>4 DEF OnAccounts, OnDetails, Remaining
  <2>2. ~ Renews(mail[k]) BY <1>4 DEF OnAccounts, OnDetails, Comes, Renews, ListReads
  <2> QED BY <1>1, <1>2, <1>3, <2>1, <2>2, ListsTaken
<1>5. CASE OnFind(k)
  <2>1. ~ Renews(mail[k]) /\ mail[k].from \in Admins /\ mail[k].app \in Nat /\ mail[k].to \in Accounts
    BY <1>1, <1>5 DEF OnFind, Comes, Renews, ListReads, Addressed, Letters
  <2> DEFINE l == Letter(mail[k].from, "approve", mail[k].app, mail[k].to)
  <2>2. l \in Letters BY <2>1, LetterType DEF LoanKinds
  <2>3. Owned(l) /\ l.stage = "sent" BY DEF Owned, Letter
  <2>4. mail' = RemoveAt(mail, k) \/ mail' = Posted(RemoveAt(mail, k), l) BY <1>5 DEF OnFind, Remaining
  <2> HIDE DEF l
  <2> QED BY <1>1, <1>2, <1>3, <2>1, <2>2, <2>3, <2>4, ListsTaken
<1>6. CASE OnApply(k) \/ OnDecided(k)
  <2>1. mail[k].from \in Pages /\ (OnApply(k) => mail[k].from = Applicant)
    BY <1>1 DEF Letters, OnApply, Comes, Owned
  <2> DEFINE l == Letter(mail[k].from, "list", 0, Nobody)
  <2>2. l \in Letters BY <2>1, LetterType DEF LoanKinds
  <2>3. Owned(l) /\ l.stage = "sent" /\ l.from = mail[k].from /\ Renews(l) BY DEF Owned, Letter, Renews, ListReads
  <2>4. IF mail[k].ok THEN mail' = Posted(RemoveAt(mail, k), l) ELSE mail' = RemoveAt(mail, k)
    BY <1>6, <2>1 DEF OnApply, OnDecided, Remaining
  <2>5. ~ mail[k].ok => ~ Renews(mail[k]) BY <1>6 DEF OnApply, OnDecided, Comes, Renews, ListReads
  <2> HIDE DEF l
  <2> QED BY <1>1, <1>2, <1>3, <2>2, <2>3, <2>4, <2>5, ListsTaken
<1> QED BY <1>4, <1>5, <1>6

\* A list that arrives is shown; one that failed, was overtaken or is old leaves the page in doubt.
LEMMA ListsRead ==
  ASSUME LoanInv, ListsInv, NEW k, OnFirst(k) \/ OnList(k)
  PROVE  ListsInv'
<1> USE LoanRecords
<1>0. PICK l : l = mail[k] OBVIOUS
<1>1. /\ k \in DOMAIN mail /\ l \in Letters /\ Owned(l) /\ ListedNow(l) /\ l.from \in Pages
      /\ l.kind \in ListReads /\ l.stage = "done" /\ apps' = apps
      /\ dim' = IF l.ok /\ l.newest THEN dim \ {l.from} ELSE dim \cup {l.from}
  BY <1>0 DEF OnFirst, OnList, Comes, Taking, loanRows, ListReads, JudgedBy, ListsInv, Letters
<1> DEFINE next == Letter(Applicant, "accounts", 0, Nobody)
<1>2. next \in Letters /\ Owned(next) /\ next.stage = "sent" /\ ListedNow(next)
  <2>1. next \in Letters BY LetterType DEF LoanKinds
  <2> QED BY <2>1 DEF Owned, Letter, ListedNow
<1>3. mail' = RemoveAt(mail, k) \/ mail' = Posted(RemoveAt(mail, k), next)
  BY DEF OnFirst, OnList, Remaining
<1> HIDE DEF next
<1>4. Retains(mail', mail, {k}, {}) \/ Retains(mail', mail, {k}, {next})
  BY <1>1, <1>2, <1>3, RemovedRetains, AnsweredRetains
<1>5. \A p \in Pages \ {l.from} : Showing(p)' = Showing(p)
  <2>1. CASE OnFirst(k)
    <3>1. l.from = Applicant /\ bench' = bench BY <1>0, <1>1, <2>1 DEF OnFirst, Comes, Owned
    <3> QED BY <3>1 DEF Showing
  <2>2. CASE OnList(k) /\ l.from = Applicant
    <3>1. bench' = bench BY <1>0, <2>2 DEF OnList
    <3> QED BY <2>2, <3>1 DEF Showing
  <2>3. CASE OnList(k) /\ l.from # Applicant
    <3>1. hall' = hall /\ \A a \in Admins \ {l.from} : bench'[a] = bench[a] BY <1>0, <2>3 DEF OnList
    <3> QED BY <2>3, <3>1 DEF Showing, Pages
  <2> QED BY <2>1, <2>2, <2>3
<1>6. l.ok => Showing(l.from)' = l.list
  <2> SUFFICES ASSUME l.ok PROVE Showing(l.from)' = l.list OBVIOUS
  <2>1. CASE OnFirst(k)
    <3>1. l.from = Applicant BY <1>0, <1>1, <2>1 DEF OnFirst, Comes, Owned
    <3>2. hall' = [hall EXCEPT !.list = l.list] BY <1>0, <2>1 DEF OnFirst
    <3> QED BY <3>1, <3>2 DEF Showing, Halls
  <2>2. CASE OnList(k) /\ l.from = Applicant
    <3>1. hall' = [hall EXCEPT !.fetching = FALSE, !.list = l.list] BY <1>0, <2>2 DEF OnList
    <3> QED BY <2>2, <3>1 DEF Showing, Halls
  <2>3. CASE OnList(k) /\ l.from # Applicant
    <3>1. l.from \in Admins /\ bench[l.from] \in Benches BY <1>1, <2>3 DEF Pages
    <3>2. bench' = [bench EXCEPT ![l.from].loading = FALSE, ![l.from].list = l.list] BY <1>0, <2>3 DEF OnList
    <3>3. bench'[l.from] = [[bench[l.from] EXCEPT !.loading = FALSE] EXCEPT !.list = l.list] BY <3>1, <3>2
    <3>4. bench'[l.from].list = l.list BY <3>1, <3>3 DEF Benches
    <3> QED BY <2>3, <3>4 DEF Showing
  <2> QED BY <2>1, <2>2, <2>3
<1>7. \A p : Listed(p)' = Listed(p) BY <1>1 DEF Listed
<1>8. \A o, m : Older(o, m) => (Owned(m) => Owned(o)) /\ (ListedNow(m) => ListedNow(o)) /\ (Renews(o) <=> Renews(m))
                               /\ o.from = m.from
  BY DEF Older, Same, Owned, ListedNow, Renews
<1>9. \A j \in DOMAIN mail' : Owned(mail'[j]) /\ ListedNow(mail'[j])
  BY <1>2, <1>4, <1>8 DEF Retains, ListsInv
<1>10. \A j \in DOMAIN mail' : Owned(mail[j])' /\ ListedNow(mail[j])' BY <1>7, <1>9 DEF ListedNow, Owned
<1>11. ASSUME NEW p \in Pages, p \notin dim'
       PROVE  Listed(p)' = Showing(p)' \/ \E j \in DOMAIN mail' : mail'[j].from = p /\ Renews(mail[j])'
  <2>1. CASE p = l.from
    <3>1. l.ok /\ l.newest BY <1>1, <1>11, <2>1
    <3>2. l.list = Listed(p) BY <1>1, <2>1, <3>1 DEF ListedNow
    <3> QED BY <1>6, <1>7, <2>1, <3>1, <3>2
  <2>2. CASE p # l.from /\ Listed(p) # Showing(p)
    <3>1. PICK i \in DOMAIN mail : mail[i].from = p /\ Renews(mail[i]) BY <1>1, <1>11, <2>2 DEF ListsInv
    <3>2. i # k BY <1>0, <2>2, <3>1
    <3>3. PICK j \in DOMAIN mail' : Older(mail'[j], mail[i]) BY <1>4, <3>1, <3>2 DEF Retains
    <3>4. mail'[j].from = p /\ Renews(mail'[j]) BY <1>8, <3>1, <3>3
    <3> QED BY <3>4 DEF Renews
  <2>3. CASE p # l.from /\ Listed(p) = Showing(p) BY <1>5, <1>7, <1>11, <2>3
  <2> QED BY <2>1, <2>2, <2>3
<1> QED BY <1>10, <1>11 DEF ListsInv

\* A change of the rows leaves no list that was read before it in a letter that counts.
LEMMA OldListsRetain ==
  ASSUME mail \in Seq(Letters), NEW k \in DOMAIN mail, NEW l
  PROVE  LET p == [OldLists EXCEPT ![k] = l]
         IN  /\ Retains(p, mail, {k}, {l})
             /\ \A j \in DOMAIN p : p[j] = l \/ ~ (p[j].kind \in ListReads /\ p[j].stage = "done" /\ p[j].newest)
             /\ DOMAIN p = DOMAIN mail
<1> DEFINE past(j) == mail[j].kind \in ListReads /\ mail[j].stage = "done"
           p == [OldLists EXCEPT ![k] = l]
<1>1. \A j \in DOMAIN mail : mail[j] \in Letters
  BY LenProperties, ElementOfSeq
<1>2. OldLists = [j \in DOMAIN mail |-> [mail[j] EXCEPT !.newest = @ /\ ~ past(j)]] BY DEF OldLists
<1>3. \A j \in DOMAIN mail : past(j) \in BOOLEAN OBVIOUS
<1> HIDE DEF past
<1>4. \A j \in DOMAIN mail : Older(OldLists[j], mail[j]) /\ (past(j) => ~ OldLists[j].newest)
  BY <1>1, <1>2, <1>3 DEF Letters, Older, Same
<1>5. DOMAIN p = DOMAIN mail /\ \A j \in DOMAIN mail : p[j] = IF j = k THEN l ELSE OldLists[j] BY <1>2
<1> HIDE DEF p
<1>6. Retains(p, mail, {k}, {l}) BY <1>4, <1>5 DEF Retains
<1>7. \A j \in DOMAIN p : p[j] = l \/ ~ (p[j].kind \in ListReads /\ p[j].stage = "done" /\ p[j].newest)
  BY <1>4, <1>5 DEF past, Older, Same
<1> QED BY <1>5, <1>6, <1>7 DEF p

\* A new application and a decision leave in doubt whoever does not read the list again.
LEMMA ListsChanged ==
  ASSUME LoanInv, ListsInv, NEW k \in DOMAIN mail, NEW l, mail' = [OldLists EXCEPT ![k] = l],
         l.from = mail[k].from, l.kind = mail[k].kind, l.kind \in {"apply", "approve", "reject"}, l.stage = "done", l.ok,
         dim \subseteq dim', UNCHANGED <<hall, bench>>,
         \A p \in Pages \ dim' : p = l.from \/ Listed(p)' = Listed(p)
  PROVE  ListsInv'
<1> USE LoanRecords
<1>1. Retains(mail', mail, {k}, {l}) BY OldListsRetain
<1>2. \A j \in DOMAIN mail' : mail'[j] = l \/ ~ (mail'[j].kind \in ListReads /\ mail'[j].stage = "done" /\ mail'[j].newest)
  <2> DEFINE p == [OldLists EXCEPT ![k] = l]
  <2>1. \A j \in DOMAIN p : p[j] = l \/ ~ (p[j].kind \in ListReads /\ p[j].stage = "done" /\ p[j].newest)
    BY OldListsRetain
  <2>2. mail' = p OBVIOUS
  <2> HIDE DEF p
  <2> QED BY <2>1, <2>2
<1>3. \A o, m : Older(o, m) => (Owned(m) => Owned(o)) /\ (Renews(o) <=> Renews(m)) /\ o.from = m.from
  BY DEF Older, Same, Owned, Renews
<1>4. Owned(l) /\ l.kind \notin ListReads /\ Renews(l) BY DEF ListsInv, Owned, ListReads, Renews
<1>5. \A j \in DOMAIN mail' : Owned(mail[j])' /\ ListedNow(mail[j])'
  BY <1>1, <1>2, <1>3, <1>4 DEF Retains, ListsInv, Owned, ListedNow
<1>6. \A p \in Pages : Showing(p)' = Showing(p) BY DEF Showing
<1>7. ASSUME NEW p \in Pages, p \notin dim'
      PROVE  Listed(p)' = Showing(p)' \/ \E j \in DOMAIN mail' : mail'[j].from = p /\ Renews(mail[j])'
  <2>1. CASE p = l.from
    <3>1. PICK j \in DOMAIN mail' : mail'[j] = l BY <1>1 DEF Retains
    <3> QED BY <1>4, <2>1, <3>1 DEF Renews
  <2>2. CASE p # l.from /\ Listed(p) # Showing(p)
    <3>1. PICK i \in DOMAIN mail : mail[i].from = p /\ Renews(mail[i]) BY <1>7, <2>2 DEF ListsInv
    <3>2. i # k BY <2>2, <3>1
    <3>3. PICK j \in DOMAIN mail' : Older(mail'[j], mail[i]) BY <1>1, <3>1, <3>2 DEF Retains
    <3>4. mail'[j].from = p /\ Renews(mail'[j]) BY <1>3, <3>1, <3>3
    <3> QED BY <3>4 DEF Renews
  <2>3. CASE p # l.from /\ Listed(p) = Showing(p) BY <1>6, <1>7, <2>3
  <2> QED BY <2>1, <2>2, <2>3
<1> QED BY <1>5, <1>7 DEF ListsInv

\* ServeApply and DoDeed keep the lists.
LEMMA ListsWritten ==
  ASSUME LoanInv, ListsInv, NEW k, ServeApply(k) \/ DoDeed(k)
  PROVE  ListsInv'
<1> USE LoanRecords
<1>1. /\ k \in DOMAIN mail /\ mail[k] \in Letters /\ Owned(mail[k]) /\ Addressed(mail[k])
      /\ UNCHANGED <<hall, bench>>
  BY DEF ServeApply, DoDeed, Asks, Server, ListsInv, LoanInv, TargetsKnown
<1>2. CASE ServeApply(k)
  <2> DEFINE o == OldLists[k]
             l == [o EXCEPT !.stage = "done", !.ok = TRUE]
  <2>1. o \in Letters /\ Same(o, mail[k]) BY <1>1, OldListsKept
  <2>2. DOMAIN OldLists = DOMAIN mail BY DEF OldLists
  <2>3. mail' = [OldLists EXCEPT ![k] = l] BY <1>1, <1>2, <2>2 DEF ServeApply, Filled
  <2> HIDE DEF o
  <2>4. l.from = mail[k].from /\ l.kind = mail[k].kind /\ l.stage = "done" /\ l.ok BY <2>1 DEF Letters, Same
  <2>5. mail[k].kind = "apply" /\ mail[k].from = Applicant BY <1>1, <1>2 DEF ServeApply, Asks, Owned
  <2>6. dim' = dim \cup Admins BY <1>2 DEF ServeApply
  <2> HIDE DEF l
  <2>7. \A p \in Pages \ dim' : p = l.from BY <2>4, <2>5, <2>6 DEF Pages
  <2> QED BY <1>1, <2>3, <2>4, <2>5, <2>6, <2>7, ListsChanged
<1>3. CASE DoDeed(k)
  <2> DEFINE l == [mail[k] EXCEPT !.stage = "done", !.ok = TRUE]
             i == mail[k].app
             new == IF mail[k].kind = "approve" THEN "APPROVED" ELSE "REJECTED"
  <2>1. mail' = [OldLists EXCEPT ![k] = l] BY <1>3 DEF DoDeed, Filled
  <2>2. l.from = mail[k].from /\ l.kind = mail[k].kind /\ l.stage = "done" /\ l.ok BY <1>1 DEF Letters
  <2>3. mail[k].kind \in {"approve", "reject"} /\ i \in DOMAIN apps /\ mail[k].from \in Admins
    BY <1>1, <1>3 DEF DoDeed, Addressed
  <2>4. dim' = dim \cup (Admins \ {mail[k].from}) \cup {p \in {Applicant} : apps[i].client = p}
        /\ apps' = [apps EXCEPT ![i].state = new]
    BY <1>3 DEF DoDeed
  <2> HIDE DEF l, new, i
  <2>5. ASSUME NEW p \in Pages, p \notin dim', p # l.from PROVE Listed(p)' = Listed(p)
    <3>1. p = Applicant /\ apps[i].client # Applicant BY <2>2, <2>4, <2>5 DEF Pages
    <3>2. \A n \in DOMAIN apps : apps[n] \in Applications BY Elements DEF LoanInv
    <3>3. DOMAIN apps' = DOMAIN apps /\ apps'[i].client = apps[i].client /\ \A n \in DOMAIN apps \ {i} : apps'[n] = apps[n]
      BY <2>3, <2>4, <3>2 DEF Applications
    <3> DEFINE mine == {n \in DOMAIN apps : apps[n].client = Applicant}
               minethen == {n \in DOMAIN apps' : apps'[n].client = Applicant}
    <3>4. mine = minethen /\ \A n \in mine : apps'[n] = apps[n] BY <3>1, <3>3
    <3>5. Listed(p) = [n \in mine |-> apps[n].state] BY <3>1 DEF Listed
    <3>6. Listed(p)' = [n \in minethen |-> apps'[n].state] BY <3>1 DEF Listed
    <3> HIDE DEF mine, minethen
    <3> QED BY <3>4, <3>5, <3>6
  <2> QED BY <1>1, <2>1, <2>2, <2>3, <2>4, <2>5, ListsChanged
<1> QED BY <1>2, <1>3

\* At the start every page that will be acted upon waits for its list.
LEMMA ListsInitInv == LoanInit => ListsInv
<1> SUFFICES ASSUME LoanInit PROVE ListsInv OBVIOUS
<1> DEFINE there == {p \in Pages : left[p] > 0}
           order == SetToSeq(there)
           N == Cardinality(there)
           letter(k) == Letter(order[k], IF order[k] = Applicant THEN "first" ELSE "list", 0, Nobody)
<1>1. mail = [k \in DOMAIN order |-> letter(k)] /\ dim = Pages \ there BY DEF LoanInit
<1>2. IsFiniteSet(there) /\ N \in Nat
  <2>1. IsFiniteSet(Pages) BY LoanAssumption, FS_AddElement DEF Pages
  <2>2. IsFiniteSet(there) BY <2>1, FS_Subset
  <2> QED BY <2>2, FS_CardinalityType
<1> HIDE DEF there
<1>3. order \in [1 .. N -> there] /\ IsInjective(order)
  <2>1. \E f \in [1 .. N -> there] : IsInjective(f)
    BY <1>2, FS_CardinalityType DEF ExistsBijection, Bijection, Injection
  <2> QED BY <2>1 DEF SetToSeq
<1> HIDE DEF order, N
<1>4. \A p \in there : \E k \in 1 .. N : order[k] = p
  <2>1. order \in Injection(1 .. N, there) BY <1>3 DEF Injection, IsInjective
  <2>2. IsFiniteSet(1 .. N) /\ Cardinality(1 .. N) = N BY <1>2, FS_Interval
  <2>3. order \in Surjection(1 .. N, there) BY <1>2, <2>1, <2>2, FS_Injection DEF N
  <2> QED BY <2>3 DEF Surjection
<1>5. \A k \in DOMAIN mail : /\ mail[k].stage = "sent" /\ mail[k].kind \in ListReads /\ mail[k].from = order[k]
                             /\ mail[k].kind = "first" => mail[k].from = Applicant
                             /\ mail[k].kind \notin {"accounts", "apply"}
  BY <1>1 DEF Letter, ListReads
<1>6. \A k \in DOMAIN mail : Owned(mail[k]) /\ ListedNow(mail[k]) BY <1>5 DEF Owned, ListedNow
<1>7. \A p \in Pages \ dim : \E k \in DOMAIN mail : mail[k].from = p /\ Renews(mail[k])
  BY <1>1, <1>3, <1>4, <1>5 DEF Renews
<1> QED BY <1>6, <1>7 DEF ListsInv

\* Every step of the loan pages and of their handlers keeps the lists.
LEMMA ListsStepInv == LoanInv /\ ListsInv /\ [LoanNext]_loanVars => ListsInv'
<1> SUFFICES ASSUME LoanInv, ListsInv, [LoanNext]_loanVars PROVE ListsInv' OBVIOUS
<1>1. CASE ApplyNow \/ CloseForm \/ FadeOut \/ ShowStep \/ Edit \/ NextStep \/ PrevStep \/ SubmitForm \/ Renew
  BY <1>1, ListsVisited
<1>2. CASE (\E a \in Admins : Reviewing(a)) \/ (\E t \in toasts : Confirm(t)) BY <1>2, ListsReviewed
<1>3. CASE Turns
  <2>1. PICK k \in DOMAIN mail : Works(k) \/ Answers(k) BY <1>3 DEF Turns
  <2>2. CASE Works(k) BY <2>2, ListsServed, ListsWritten DEF Works
  <2>3. CASE Answers(k) BY <2>3, ListsRead, ListsAnswered DEF Answers
  <2> QED BY <2>1, <2>2, <2>3
<1>4. CASE \E k \in DOMAIN mail : FailQuery(k) \/ LoseReply(k) BY <1>4, ListsUpset
<1>5. CASE UNCHANGED loanVars
  BY <1>5 DEF loanVars, loanRows, marks, ListsInv, Owned, ListedNow, Renews, Showing, Listed
<1> QED BY <1>1, <1>2, <1>3, <1>4, <1>5 DEF LoanNext

\* Lists at rest are those there are.
LEMMA ListsPromise == ListsInv => QuietListsAreCurrent
BY DEF ListsInv, QuietListsAreCurrent, Showing

-----------------------------------------------------------------------------

(***************************************************************************)
(* The browser.                                                            *)
(***************************************************************************)
BrowserInv == PagesInv /\ LoanInv /\ DeskInv

\* A pro page nobody opened.
LEMMA DeskClosedInv == DeskClosed => DeskInv
<1> SUFFICES ASSUME DeskClosed PROVE DeskInv OBVIOUS
<1>1. PICK f : f = "ai-insights" OBVIOUS
<1>2. f \in Features BY <1>1 DEF Features
<1>3. desk = [feature |-> f, loading |-> FALSE, unlocked |-> FALSE, unlocking |-> FALSE, module |-> NoModule]
  BY <1>1 DEF DeskClosed
<1>4. desk.feature = f /\ desk.module = NoModule /\ ~ desk.unlocked /\ DeskPage(desk) BY <1>3 DEF DeskPage
<1>5. DeskModule(NoModule) /\ NoModule.selected = {} BY <1>2, ModuleMounted
<1>6. /\ sent = <<>> /\ licensed = {} /\ fees = [g \in Features |-> 0] /\ paid = [p \in People |-> 0]
      /\ wanted = paid
  BY DEF DeskClosed
<1>7. Sequence(sent) /\ DOMAIN sent = {} BY <1>6, ShortSequences
<1>8. Flying(sent) BY <1>7 DEF Flying
<1>9. DeskShape
  <2>1. fees = [g \in Features |-> fees[g]] BY <1>6
  <2>2. paid = [p \in People |-> paid[p]] /\ \A p \in People : paid[p] \in Int BY <1>6
  <2> QED BY <1>2, <1>4, <1>5, <1>6, <2>1, <2>2 DEF DeskShape
<1>10. LicenceKept BY <1>4, <1>6, <1>7 DEF LicenceKept
<1>11. PayrollKept
  <2>1. \A p \in People : wanted[p] = paid[p] + IF p \in desk.module.selected /\ ~ Settled(p) THEN 1 ELSE 0
    BY <1>4, <1>5, <1>6
  <2> QED BY <1>7, <2>1 DEF PayrollKept
<1> QED BY <1>8, <1>9, <1>10, <1>11 DEF DeskInv

\* The browser begins in its invariant, at whichever of the three.
LEMMA BrowserInitInv == BrowserInit => BrowserInv
BY PagesInitInv, LoanInitInv, DeskInitInv, DeskClosedInv DEF BrowserInit, LoansClosed, BrowserInv

\* Every step of the browser keeps all three invariants: two are at rest.
LEMMA BrowserStepInv ==
  BrowserInv /\ [BrowserNext]_<<view, vars, deskVars, loanVars>> => BrowserInv'
<1> SUFFICES ASSUME PagesInv, LoanInv, DeskInv, [BrowserNext]_<<view, vars, deskVars, loanVars>>
             PROVE  BrowserInv'
  BY DEF BrowserInv
<1>1. ASSUME UNCHANGED vars PROVE PagesInv'
  <2>1. UNCHANGED <<jar, tab, calls, last, raced, rows, details, overlapped>> BY <1>1 DEF vars, server
  <2> QED BY <2>1, PagesStutter
<1>2. ASSUME [LoanNext]_loanVars PROVE LoanInv' BY <1>2, LoanStepInv
<1>3. ASSUME [DeskNext]_deskVars PROVE DeskInv' BY <1>3, DeskStepInv
<1>4. CASE Next /\ UNCHANGED <<deskVars, loanVars>>
  <2>1. UNCHANGED deskVars /\ UNCHANGED loanVars BY <1>4
  <2> QED BY <1>2, <1>3, <1>4, <2>1, PagesStepInv DEF BrowserInv
<1>5. CASE DeskNext /\ UNCHANGED <<vars, loanVars>>
  <2>1. UNCHANGED vars /\ UNCHANGED loanVars BY <1>5
  <2> QED BY <1>1, <1>2, <1>3, <1>5, <2>1 DEF BrowserInv
<1>6. CASE LoanNext /\ UNCHANGED <<vars, deskVars>>
  <2>1. UNCHANGED vars /\ UNCHANGED deskVars BY <1>6
  <2> QED BY <1>1, <1>2, <1>3, <1>6, <2>1 DEF BrowserInv
<1>7. CASE UNCHANGED <<view, vars, deskVars, loanVars>>
  <2>1. UNCHANGED vars /\ UNCHANGED deskVars /\ UNCHANGED loanVars BY <1>7
  <2> QED BY <1>1, <1>2, <1>3, <2>1 DEF BrowserInv
<1> QED BY <1>4, <1>5, <1>6, <1>7 DEF BrowserNext

\* The three invariants hold together wherever the browser is, for every number of tabs,
\* customers, people, administrators and applications and every bound on acts and faults.
THEOREM BrowserInvariant == BrowserSpec => []BrowserInv
BY BrowserInitInv, BrowserStepInv, PTL DEF BrowserSpec

\* The session cookie of every tab is that of whoever signed in last, or nobody's: rotating it
\* never brings back an earlier session, but where a call was in flight at a sign-in or a logout.
THEOREM SessionsAlways == BrowserSpec => []SessionIsTheLastSignIn
<1>1. BrowserInv => SessionIsTheLastSignIn BY PagesPromise DEF BrowserInv
<1> QED BY <1>1, BrowserInvariant, PTL

\* Pressing twice, a second tab, a retry and a lost answer do nothing twice: a payee is added
\* once, a licence and a payroll list are paid once, a form makes one application and an
\* approval one loan, save in the races and losses each of them names.
THEOREM DoneOnceAlways == BrowserSpec => []NothingIsDoneTwice
<1>1. BrowserInv => NothingIsDoneTwice
  BY PagesPromise, DeskPromise, LoansOnce DEF BrowserInv, NothingIsDoneTwice
<1> QED BY <1>1, BrowserInvariant, PTL

\* A profile holds what its own customer read and wrote, and a loan is paid to the customer who
\* applied, save where the tabs or dialogs opened before have mixed them.
THEOREM ApartAlways == BrowserSpec => []CustomersStayApart
<1>1. BrowserInv => CustomersStayApart
  BY PagesPromise, LoansApart DEF BrowserInv, CustomersStayApart
<1> QED BY <1>1, BrowserInvariant, PTL

\* So does a pro page nobody opened.
LEMMA GlassClosedInv == DeskClosed => GlassInv
<1> SUFFICES ASSUME DeskClosed PROVE GlassInv OBVIOUS
<1>1. ~ desk.unlocked /\ desk.module = NoModule BY DEF DeskClosed
<1>2. sent = <<>> BY DEF DeskClosed
<1>3. DOMAIN sent = {} BY <1>2, ShortSequences
<1> QED BY <1>1, <1>3, UnopenedGlass DEF DeskClosed

\* Neither has a pro page nobody opened anything unlocked.
LEMMA FlagClosedInv == DeskClosed => Flagged
BY DEF DeskClosed, Flagged

\* What the screens show: the pages, the loans and the pro features.
ScreensInv == RestInv /\ ListsInv /\ GlassInv /\ Flagged

\* The browser begins with what is stored on the screen, or nothing.
LEMMA ScreensInitInv == BrowserInit => ScreensInv
<1>1. LoansClosed => LoanInit BY DEF LoansClosed
<1>2. BrowserInit => Init /\ LoanInit /\ (DeskInit \/ DeskClosed) BY <1>1 DEF BrowserInit
<1>3. DeskInit \/ DeskClosed => GlassInv /\ Flagged
  BY GlassInitInv, GlassClosedInv, FlagInitInv, FlagClosedInv
<1> QED BY <1>2, <1>3, RestInitInv, ListsInitInv DEF ScreensInv

\* Every step of the browser keeps the screens right: two of the three are at rest.
LEMMA ScreensStepInv ==
  BrowserInv /\ ScreensInv /\ [BrowserNext]_<<view, vars, deskVars, loanVars>> => ScreensInv'
<1> SUFFICES ASSUME PagesInv, LoanInv, DeskInv, RestInv, ListsInv, GlassInv, Flagged,
                    [BrowserNext]_<<view, vars, deskVars, loanVars>>
             PROVE  ScreensInv'
  BY DEF BrowserInv, ScreensInv
<1>1. ASSUME UNCHANGED vars PROVE RestInv'
  <2>1. UNCHANGED <<jar, tab, calls, rows, books, details, doubt>> BY <1>1 DEF vars, server
  <2> QED BY <2>1, RestStutter
<1>2. ASSUME [LoanNext]_loanVars PROVE ListsInv' BY <1>2, ListsStepInv
<1>3. ASSUME [DeskNext]_deskVars PROVE GlassInv' /\ Flagged' BY <1>3, GlassStepInv, FlagStepInv
<1>4. CASE Next /\ UNCHANGED <<deskVars, loanVars>>
  <2>1. UNCHANGED deskVars /\ UNCHANGED loanVars BY <1>4
  <2> QED BY <1>2, <1>3, <1>4, <2>1, RestStepInv DEF ScreensInv
<1>5. CASE DeskNext /\ UNCHANGED <<vars, loanVars>>
  <2>1. UNCHANGED vars /\ UNCHANGED loanVars BY <1>5
  <2> QED BY <1>1, <1>2, <1>3, <1>5, <2>1 DEF ScreensInv
<1>6. CASE LoanNext /\ UNCHANGED <<vars, deskVars>>
  <2>1. UNCHANGED vars /\ UNCHANGED deskVars BY <1>6
  <2> QED BY <1>1, <1>2, <1>3, <1>6, <2>1 DEF ScreensInv
<1>7. CASE UNCHANGED <<view, vars, deskVars, loanVars>>
  <2>1. UNCHANGED vars /\ UNCHANGED deskVars /\ UNCHANGED loanVars BY <1>7
  <2> QED BY <1>1, <1>2, <1>3, <2>1 DEF ScreensInv
<1> QED BY <1>4, <1>5, <1>6, <1>7 DEF BrowserNext

\* A screen at rest shows what is stored: a customer's page, a pro feature and a loan list are
\* current once none of their requests is in flight, save for what the doubts of each of the
\* three name, the writes of others, lost answers and overtaken reads.
THEOREM ScreensAlways == BrowserSpec => []QuietScreenIsCurrent
<1>1. BrowserSpec => [](BrowserInv /\ ScreensInv)
  BY BrowserInitInv, ScreensInitInv, BrowserStepInv, ScreensStepInv, PTL DEF BrowserSpec
<1>2. BrowserInv /\ ScreensInv => QuietScreenIsCurrent
  BY RestPromise, GlassPromise, ListsPromise DEF BrowserInv, ScreensInv, QuietScreenIsCurrent
<1> QED BY <1>1, <1>2, PTL
==================================================================================
