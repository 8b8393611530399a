-------------------------------- MODULE DeskProofs --------------------------------
(* What the pro features of NexaBank (ProDesk) keep, for any people on the payroll, contents of   *)
(* the search, links and bounds.  DeskInv is about what is paid: a licence once, a list once, and *)
(* the page's knowledge of both.  GlassInv is about what is shown: what the module shows is what  *)
(* is stored, or will be read again, or is in doubt.                                              *)
EXTENDS ProDesk, Integers, FiniteSetTheorems, SequenceTheorems, TLAPS

\* A sequence of whatever it holds.
Sequence(s) == s \in Seq(Range(s))

\* A sequence is a function on 1 .. n for its length.
LEMMA SequenceFacts ==
  ASSUME NEW s, Sequence(s)
  PROVE  Len(s) \in Nat /\ DOMAIN s = 1 .. Len(s) /\ s = [j \in 1 .. Len(s) |-> s[j]]
BY LenProperties DEF Sequence

\* Sequences of up to two elements.
LEMMA ShortSequences ==
  /\ Sequence(<<>>)
  /\ \A a : Sequence(<<a>>) /\ \A b : Sequence(<<a, b>>)
<1>1. Sequence(<<>>)
  <2>1. <<>> \in Seq({}) OBVIOUS
  <2> QED BY <2>1 DEF Sequence, Range
<1>2. ASSUME NEW a PROVE Sequence(<<a>>)
  <2>1. Range(<<a>>) = {a} /\ <<a>> \in Seq({a}) BY DEF Range
  <2> QED BY <2>1 DEF Sequence
<1>3. ASSUME NEW a, NEW b PROVE Sequence(<<a, b>>)
  <2>1. Range(<<a, b>>) = {a, b} /\ <<a, b>> \in Seq({a, b}) BY DEF Range
  <2> QED BY <2>1 DEF Sequence
<1> QED BY <1>1, <1>2, <1>3

\* A sequence whose elements are of a set.
LEMMA SequenceOf ==
  ASSUME NEW T, NEW s \in Seq(T)
  PROVE  Sequence(s)
<1>1. Len(s) \in Nat /\ DOMAIN s = 1 .. Len(s) /\ s = [j \in 1 .. Len(s) |-> s[j]]
  BY LenProperties
<1>2. s \in [1 .. Len(s) -> Range(s)] BY <1>1 DEF Range
<1> QED BY <1>1, <1>2, SeqDef DEF Sequence

\* A function written by positions is a sequence.
LEMMA SequenceMade ==
  ASSUME NEW n \in Nat, NEW s, DOMAIN s = 1 .. n, s = [j \in 1 .. n |-> s[j]]
  PROVE  Sequence(s) /\ Len(s) = n
<1>1. s \in [1 .. n -> Range(s)] BY DEF Range
<1>2. s \in Seq(Range(s)) BY <1>1, SeqDef
<1>3. Len(s) \in Nat /\ DOMAIN s = 1 .. Len(s) BY <1>2, LenProperties
<1>4. n = Len(s) BY <1>3
<1> QED BY <1>2, <1>4 DEF Sequence

\* A sequence without one of its elements keeps the others in their order.
LEMMA Removed ==
  ASSUME NEW T, NEW s \in Seq(T), NEW i \in DOMAIN s
  PROVE  /\ RemoveAt(s, i) \in Seq(T) /\ Len(RemoveAt(s, i)) = Len(s) - 1
         /\ DOMAIN RemoveAt(s, i) = 1 .. (Len(s) - 1)
         /\ \A j \in DOMAIN RemoveAt(s, i) :
               RemoveAt(s, i)[j] = s[IF j < i THEN j ELSE j + 1]
<1>1. Len(s) \in Nat /\ DOMAIN s = 1 .. Len(s) /\ \A j \in 1 .. Len(s) : s[j] \in T
  BY LenProperties, ElementOfSeq
<1>2. i \in 1 .. Len(s) BY <1>1
<1>3. /\ SubSeq(s, 1, i - 1) \in Seq(T) /\ Len(SubSeq(s, 1, i - 1)) = i - 1
      /\ \A j \in 1 .. (i - 1) : SubSeq(s, 1, i - 1)[j] = s[j]
  <2>1. \A j \in 1 .. (i - 1) : s[j] \in T BY <1>1, <1>2
  <2> QED BY <1>1, <1>2, <2>1, SubSeqProperties
<1>4. /\ SubSeq(s, i + 1, Len(s)) \in Seq(T) /\ Len(SubSeq(s, i + 1, Len(s))) = Len(s) - i
      /\ \A j \in 1 .. (Len(s) - i) : SubSeq(s, i + 1, Len(s))[j] = s[i + j]
  <2>1. \A j \in (i + 1) .. Len(s) : s[j] \in T BY <1>1, <1>2
  <2> QED BY <1>1, <1>2, <2>1, SubSeqProperties
<1> DEFINE a == SubSeq(s, 1, i - 1)
           b == SubSeq(s, i + 1, Len(s))
<1>5. RemoveAt(s, i) = a \o b BY DEF RemoveAt
<1>6. /\ a \in Seq(T) /\ b \in Seq(T) /\ Len(a) = i - 1 /\ Len(b) = Len(s) - i
      /\ \A j \in 1 .. (i - 1) : a[j] = s[j]
      /\ \A j \in 1 .. (Len(s) - i) : b[j] = s[i + j]
  BY <1>3, <1>4
<1> HIDE DEF a, b
<1>7. /\ a \o b \in Seq(T) /\ Len(a \o b) = Len(a) + Len(b)
      /\ \A j \in 1 .. (Len(a) + Len(b)) : (a \o b)[j] = IF j <= Len(a) THEN a[j] ELSE b[j - Len(a)]
  BY <1>6, ConcatProperties
<1>8. Len(a \o b) = Len(s) - 1 /\ DOMAIN (a \o b) = 1 .. (Len(s) - 1)
  <2>1. Len(a) + Len(b) = Len(s) - 1 BY <1>1, <1>2, <1>6
  <2>2. DOMAIN (a \o b) = 1 .. Len(a \o b) BY <1>7, LenProperties
  <2> QED BY <1>7, <2>1, <2>2
<1>9. ASSUME NEW j \in 1 .. (Len(s) - 1)
      PROVE  (a \o b)[j] = s[IF j < i THEN j ELSE j + 1]
  <2>1. CASE j < i
    BY <1>1, <1>2, <1>6, <1>7, <2>1
  <2>2. CASE ~ (j < i)
    <3>1. (a \o b)[j] = b[j - (i - 1)] /\ j - (i - 1) \in 1 .. (Len(s) - i)
      BY <1>1, <1>2, <1>6, <1>7, <2>2
    <3>2. b[j - (i - 1)] = s[i + (j - (i - 1))] /\ i + (j - (i - 1)) = j + 1
      BY <1>1, <1>2, <1>6, <3>1
    <3> QED BY <3>1, <3>2, <2>2
  <2> QED BY <2>1, <2>2
<1> QED BY <1>5, <1>7, <1>8, <1>9

\* What is sifted are the elements at the positions that stay, each once.
LEMMA SiftedFrom ==
  ASSUME NEW s, Sequence(s), NEW K \in SUBSET (DOMAIN s)
  PROVE  /\ Sequence(Sifted(s, K))
         /\ \E f \in [DOMAIN Sifted(s, K) -> K] :
              /\ \A n \in DOMAIN Sifted(s, K) : Sifted(s, K)[n] = s[f[n]]
              /\ \A m, n \in DOMAIN Sifted(s, K) : f[m] = f[n] => m = n
              /\ \A j \in K : \E n \in DOMAIN Sifted(s, K) : f[n] = j
<1>1. Len(s) \in Nat /\ DOMAIN s = 1 .. Len(s) BY SequenceFacts
<1>2. IsFiniteSet(K) /\ \A J \in SUBSET K : IsFiniteSet(J) /\ Cardinality(J) <= Cardinality(K)
                                        /\ (Cardinality(J) = Cardinality(K) => J = K)
  <2>1. IsFiniteSet(1 .. Len(s)) BY <1>1, FS_Interval
  <2>2. IsFiniteSet(K) BY <1>1, <2>1, FS_Subset
  <2> QED BY <2>2, FS_Subset
<1> DEFINE N == Cardinality(K)
           place == [j \in K |-> Place(K, j)]
<1>3. N \in Nat /\ \A J \in SUBSET K : Cardinality(J) \in Nat BY <1>2, FS_CardinalityType
<1>4. ASSUME NEW j \in K PROVE Place(K, j) \in 1 .. N
  <2> DEFINE J == {i \in K : i <= j}
  <2>1. J \in SUBSET K /\ j \in J BY <1>1
  <2> HIDE DEF J
  <2>2. IsFiniteSet(J) /\ Cardinality(J) \in Nat /\ Cardinality(J) <= N BY <1>2, <1>3, <2>1
  <2>3. Cardinality(J) # 0 BY <2>1, <2>2, FS_EmptySet
  <2> QED BY <1>3, <2>2, <2>3 DEF Place, J
<1>5. ASSUME NEW i \in K, NEW j \in K, i < j PROVE Place(K, i) # Place(K, j)
  <2> DEFINE I == {m \in K : m <= i}
             J == {m \in K : m <= j}
  <2>1. I \in SUBSET J /\ J \in SUBSET K /\ j \in J /\ j \notin I BY <1>1, <1>5
  <2> HIDE DEF I, J
  <2>2. IsFiniteSet(J) BY <1>2, <2>1
  <2>3. Cardinality(I) # Cardinality(J) BY <2>1, <2>2, FS_Subset
  <2> QED BY <2>3 DEF Place, I, J
<1>6. place \in Injection(K, 1 .. N)
  <2>1. \A i, j \in K : Place(K, i) = Place(K, j) => i = j
    <3>1. \A i, j \in K : i \in Nat /\ j \in Nat /\ (i = j \/ i < j \/ j < i) BY <1>1
    <3> QED BY <1>5, <3>1
  <2>2. place \in [K -> 1 .. N] BY <1>4
  <2> QED BY <2>1, <2>2 DEF Injection, IsInjective
<1>7. place \in Surjection(K, 1 .. N)
  <2>1. IsFiniteSet(1 .. N) /\ Cardinality(1 .. N) = N BY <1>3, FS_Interval
  <2> QED BY <1>6, <2>1, FS_Injection
<1>8. \A n \in 1 .. N : \E j \in K : Place(K, j) = n BY <1>7 DEF Surjection
<1> DEFINE f == [n \in 1 .. N |-> CHOOSE j \in K : Place(K, j) = n]
           t == Sifted(s, K)
<1>9. \A n \in 1 .. N : f[n] \in K /\ Place(K, f[n]) = n BY <1>8
<1>10. DOMAIN t = 1 .. N /\ \A n \in 1 .. N : t[n] = s[f[n]] BY DEF Sifted
<1>11. Sequence(t)
  <2>1. t = [n \in 1 .. N |-> t[n]] BY <1>10 DEF Sifted
  <2> HIDE DEF t, N
  <2> QED BY <1>3, <1>10, <2>1, SequenceMade
<1> HIDE DEF t, f, N
<1>12. f \in [DOMAIN t -> K] BY <1>9, <1>10 DEF f
<1>13. \A m, n \in DOMAIN t : f[m] = f[n] => m = n BY <1>9, <1>10
<1>14. ASSUME NEW j \in K PROVE \E n \in DOMAIN t : f[n] = j
  <2>1. Place(K, j) \in 1 .. N /\ place[j] = Place(K, j) BY <1>4
  <2>2. f[Place(K, j)] \in K /\ Place(K, f[Place(K, j)]) = Place(K, j) BY <1>9, <2>1
  <2>3. f[Place(K, j)] = j BY <1>6, <2>1, <2>2 DEF Injection, IsInjective
  <2> QED BY <1>10, <2>1, <2>3
<1> QED BY <1>10, <1>11, <1>12, <1>13, <1>14 DEF t

-----------------------------------------------------------------------------

(***************************************************************************)
(* The pro features.                                                       *)
(***************************************************************************)
DeskCall(c) ==
  c = [kind |-> c.kind, feature |-> c.feature, arg |-> c.arg, stage |-> c.stage, ok |-> c.ok,
       value |-> c.value, number |-> c.number, here |-> c.here, newest |-> c.newest, at |-> c.at]
\* A call is the same but for what it is known to have missed.
Kin(c, d) ==
  /\ c.kind = d.kind /\ c.feature = d.feature /\ c.arg = d.arg /\ c.stage = d.stage /\ c.ok = d.ok
  /\ c.value = d.value /\ c.here = d.here /\ (c.newest => d.newest)
\* The calls of kinds K in ls are those of ms, but the one at x.
Carried(ls, ms, x, K) ==
  \E f \in [DOMAIN ls -> DOMAIN ms \cup {0}] :
     /\ \A n \in DOMAIN ls : ls[n].kind \in K => f[n] \in DOMAIN ms \ {x} /\ Kin(ls[n], ms[f[n]])
     /\ \A m, n \in DOMAIN ls : ls[m].kind \in K /\ ls[n].kind \in K /\ f[m] = f[n] => m = n
     /\ \A k \in DOMAIN ms \ {x} : ms[k].kind \in K => \E n \in DOMAIN ls : ls[n].kind \in K /\ f[n] = k
\* What every call in flight is.
Proper(c) == DeskCall(c) /\ c.feature \in Features /\ c.here \in BOOLEAN /\ (c.kind \in OfPage => c.here)
Flying(ms) == Sequence(ms) /\ \A j \in DOMAIN ms : Proper(ms[j])

\* Two steps that carry calls of some kinds make one.
LEMMA KeptTwice ==
  ASSUME NEW ls, NEW ms, NEW ns, NEW x, NEW K, Flying(ms), Carried(ls, ms, 0, K), Carried(ms, ns, x, K)
  PROVE  Carried(ls, ns, x, K)
<1>0. Len(ms) \in Nat /\ DOMAIN ms = 1 .. Len(ms) BY SequenceFacts DEF Flying
<1>1. PICK f \in [DOMAIN ms -> DOMAIN ns \cup {0}] :
     /\ \A n \in DOMAIN ms : ms[n].kind \in K => f[n] \in DOMAIN ns \ {x} /\ Kin(ms[n], ns[f[n]])
     /\ \A m, n \in DOMAIN ms : ms[m].kind \in K /\ ms[n].kind \in K /\ f[m] = f[n] => m = n
     /\ \A k \in DOMAIN ns \ {x} : ns[k].kind \in K => \E n \in DOMAIN ms : ms[n].kind \in K /\ f[n] = k
  BY DEF Carried
<1>2. PICK g \in [DOMAIN ls -> DOMAIN ms \cup {0}] :
     /\ \A n \in DOMAIN ls : ls[n].kind \in K => g[n] \in DOMAIN ms \ {0} /\ Kin(ls[n], ms[g[n]])
     /\ \A m, n \in DOMAIN ls : ls[m].kind \in K /\ ls[n].kind \in K /\ g[m] = g[n] => m = n
     /\ \A k \in DOMAIN ms \ {0} : ms[k].kind \in K => \E n \in DOMAIN ls : ls[n].kind \in K /\ g[n] = k
  BY DEF Carried
<1> DEFINE h == [n \in DOMAIN ls |-> IF g[n] \in DOMAIN ms THEN f[g[n]] ELSE 0]
<1>3. h \in [DOMAIN ls -> DOMAIN ns \cup {0}] OBVIOUS
<1>4. \A n \in DOMAIN ls : ls[n].kind \in K => g[n] \in DOMAIN ms /\ ms[g[n]].kind \in K /\ h[n] = f[g[n]]
  BY <1>2 DEF Kin
<1> HIDE DEF h
<1>5. \A n \in DOMAIN ls : ls[n].kind \in K => h[n] \in DOMAIN ns \ {x} /\ Kin(ls[n], ns[h[n]])
  BY <1>1, <1>2, <1>4 DEF Kin
<1>6. \A m, n \in DOMAIN ls : ls[m].kind \in K /\ ls[n].kind \in K /\ h[m] = h[n] => m = n
  BY <1>1, <1>2, <1>4
<1>7. ASSUME NEW k \in DOMAIN ns \ {x}, ns[k].kind \in K PROVE \E n \in DOMAIN ls : ls[n].kind \in K /\ h[n] = k
  <2>1. PICK m \in DOMAIN ms : ms[m].kind \in K /\ f[m] = k BY <1>1, <1>7
  <2>2. m # 0 BY <1>0
  <2>3. PICK n \in DOMAIN ls : ls[n].kind \in K /\ g[n] = m BY <1>2, <2>1, <2>2
  <2> QED BY <1>4, <2>1, <2>3
<1> QED BY <1>3, <1>5, <1>6, <1>7 DEF Carried

\* Calls of which some change in what does not matter here, or are of other kinds.
LEMMA MarkedKept ==
  ASSUME NEW ms, Flying(ms), NEW ls, NEW K, DOMAIN ls = DOMAIN ms, ls = [j \in DOMAIN ms |-> ls[j]],
         \A j \in DOMAIN ms : Proper(ls[j]) /\ ls[j].kind = ms[j].kind /\ (ms[j].kind \in K => Kin(ls[j], ms[j]))
  PROVE  Flying(ls) /\ Carried(ls, ms, 0, K)
<1>1. Len(ms) \in Nat /\ DOMAIN ms = 1 .. Len(ms) BY SequenceFacts DEF Flying
<1>2. Sequence(ls) BY <1>1, SequenceMade
<1>3. Flying(ls) BY <1>2 DEF Flying
<1> DEFINE f == [j \in DOMAIN ms |-> j]
<1>4. f \in [DOMAIN ls -> DOMAIN ms \cup {0}] /\ \A j \in DOMAIN ms : f[j] = j /\ j # 0 BY <1>1
<1> HIDE DEF f
<1>5. \A n \in DOMAIN ls : ls[n].kind \in K => f[n] \in DOMAIN ms \ {0} /\ Kin(ls[n], ms[f[n]]) BY <1>4
<1>6. \A m, n \in DOMAIN ls : ls[m].kind \in K /\ ls[n].kind \in K /\ f[m] = f[n] => m = n BY <1>4
<1>7. \A k \in DOMAIN ms \ {0} : ms[k].kind \in K => \E n \in DOMAIN ls : ls[n].kind \in K /\ f[n] = k BY <1>4
<1> QED BY <1>3, <1>4, <1>5, <1>6, <1>7 DEF Carried

\* Taking one call out carries the others.
LEMMA WithoutKept ==
  ASSUME NEW ms, Flying(ms), NEW x \in DOMAIN ms, NEW K
  PROVE  Flying(RemoveAt(ms, x)) /\ Carried(RemoveAt(ms, x), ms, x, K)
<1> DEFINE T == Range(ms)
           r == RemoveAt(ms, x)
           f == [j \in DOMAIN r |-> IF j < x THEN j ELSE j + 1]
<1>1. ms \in Seq(T) /\ Len(ms) \in Nat /\ DOMAIN ms = 1 .. Len(ms) BY SequenceFacts DEF Flying, Sequence
<1> HIDE DEF T
<1>2. /\ r \in Seq(T) /\ DOMAIN r = 1 .. (Len(ms) - 1)
      /\ \A j \in DOMAIN r : r[j] = ms[IF j < x THEN j ELSE j + 1]
  BY <1>1, Removed
<1> HIDE DEF r
<1>3. Sequence(r) BY <1>2, SequenceOf
<1>4. f \in [DOMAIN r -> DOMAIN ms \cup {0}] BY <1>1, <1>2
<1>5. \A j \in DOMAIN r : f[j] \in DOMAIN ms \ {x} /\ r[j] = ms[f[j]] BY <1>1, <1>2
<1>6. \A j \in DOMAIN r : Kin(r[j], ms[f[j]]) BY <1>5 DEF Kin
<1>7. \A i, j \in DOMAIN r : f[i] = f[j] => i = j BY <1>1, <1>2
<1>8. ASSUME NEW k \in DOMAIN ms \ {x} PROVE \E n \in DOMAIN r : f[n] = k
  <2>1. CASE k < x
    <3>1. k \in DOMAIN r /\ f[k] = k BY <1>1, <1>2, <2>1
    <3> QED BY <3>1
  <2>2. CASE k > x
    <3>1. k - 1 \in DOMAIN r /\ f[k - 1] = k BY <1>1, <1>2, <2>2
    <3> QED BY <3>1
  <2> QED BY <1>1, <2>1, <2>2
<1>9. \A k \in DOMAIN ms \ {x} : ms[k].kind \in K => \E n \in DOMAIN r : r[n].kind \in K /\ f[n] = k
  BY <1>5, <1>8
<1> HIDE DEF f
<1>10. Flying(r) BY <1>3, <1>5 DEF Flying
<1>11. \A n \in DOMAIN r : r[n].kind \in K => f[n] \in DOMAIN ms \ {x} /\ Kin(r[n], ms[f[n]]) BY <1>5, <1>6
<1>12. \A m, n \in DOMAIN r : r[m].kind \in K /\ r[n].kind \in K /\ f[m] = f[n] => m = n BY <1>7
<1>13. Carried(r, ms, x, K) BY <1>4, <1>9, <1>11, <1>12 DEF Carried
<1> QED BY <1>10, <1>13 DEF r

\* Where no call of the kinds is at x, none is missed.
LEMMA NoneMissed ==
  ASSUME NEW ls, NEW ms, NEW x \in DOMAIN ms, NEW K, Carried(ls, ms, x, K), ms[x].kind \notin K, 0 \notin DOMAIN ms
  PROVE  Carried(ls, ms, 0, K)
BY DEF Carried

\* So does keeping those at some positions that hold all of a kind.
LEMMA SiftedKept ==
  ASSUME NEW ms, Flying(ms), NEW J \in SUBSET (DOMAIN ms), NEW K,
         \A j \in DOMAIN ms : ms[j].kind \in K => j \in J
  PROVE  Flying(Sifted(ms, J)) /\ Carried(Sifted(ms, J), ms, 0, K)
<1> DEFINE r == Sifted(ms, J)
<1>1. Len(ms) \in Nat /\ DOMAIN ms = 1 .. Len(ms) BY SequenceFacts DEF Flying
<1>2. Sequence(r) BY SiftedFrom DEF Flying
<1>3. PICK f \in [DOMAIN r -> J] :
        /\ \A n \in DOMAIN r : r[n] = ms[f[n]]
        /\ \A m, n \in DOMAIN r : f[m] = f[n] => m = n
        /\ \A j \in J : \E n \in DOMAIN r : f[n] = j
  BY SiftedFrom DEF Flying
<1> HIDE DEF r
<1>4. f \in [DOMAIN r -> DOMAIN ms \cup {0}] /\ \A j \in DOMAIN r : f[j] \in DOMAIN ms \ {0}
  BY <1>1, <1>3
<1>5. \A j \in DOMAIN r : Kin(r[j], ms[f[j]]) BY <1>3, <1>4 DEF Kin
<1>6. Flying(r) BY <1>2, <1>3, <1>4 DEF Flying
<1>7. ASSUME NEW k \in DOMAIN ms \ {0}, ms[k].kind \in K PROVE \E p \in DOMAIN r : r[p].kind \in K /\ f[p] = k
  <2>1. k \in J BY <1>7
  <2>2. PICK p \in DOMAIN r : f[p] = k BY <1>3, <2>1
  <2> QED BY <1>3, <1>7, <2>2
<1>8. \A n \in DOMAIN r : r[n].kind \in K => f[n] \in DOMAIN ms \ {0} /\ Kin(r[n], ms[f[n]]) BY <1>4, <1>5
<1>9. \A m, n \in DOMAIN r : r[m].kind \in K /\ r[n].kind \in K /\ f[m] = f[n] => m = n BY <1>3
<1>10. Carried(r, ms, 0, K) BY <1>4, <1>7, <1>8, <1>9 DEF Carried
<1> QED BY <1>6, <1>10 DEF r

\* What is posted joins what is in flight.
FreshCall(k, f, a) ==
  [kind |-> k, feature |-> f, arg |-> a, stage |-> "sent", ok |-> FALSE,
   value |-> {}, number |-> Nothing, here |-> TRUE, newest |-> TRUE, at |-> 0]
PostedCalls(ms, kinds, f, a) == Overtaken(ms, Range(kinds)) \o [j \in DOMAIN kinds |-> FreshCall(kinds[j], f, a)]

\* A fresh call is proper, on the page and the newest.
LEMMA AskingProper ==
  ASSUME NEW k, NEW f \in Features, NEW a
  PROVE  /\ Proper(FreshCall(k, f, a)) /\ FreshCall(k, f, a).kind = k /\ FreshCall(k, f, a).feature = f
         /\ FreshCall(k, f, a).arg = a /\ FreshCall(k, f, a).stage = "sent" /\ FreshCall(k, f, a).here
         /\ ~ FreshCall(k, f, a).ok /\ FreshCall(k, f, a).newest
BY DEF Proper, FreshCall, DeskCall

\* Calls that are overtaken are still carried.
LEMMA OvertakenKept ==
  ASSUME NEW ms, Flying(ms), NEW R, NEW K
  PROVE  /\ Flying(Overtaken(ms, R)) /\ Carried(Overtaken(ms, R), ms, 0, K)
         /\ DOMAIN Overtaken(ms, R) = DOMAIN ms
         /\ \A j \in DOMAIN ms : /\ Kin(Overtaken(ms, R)[j], ms[j])
                                 /\ "status" \in R /\ ms[j].kind = "status" => ~ Overtaken(ms, R)[j].newest
<1> DEFINE ls == Overtaken(ms, R)
           crossed(j) == \E k \in R \cap Reading : ms[j].kind \in Reading /\ About(k) = About(ms[j].kind)
<1>1. DOMAIN ls = DOMAIN ms /\ ls = [j \in DOMAIN ms |-> ls[j]] BY DEF Overtaken
<1>2. ASSUME NEW j \in DOMAIN ms
      PROVE  /\ Proper(ls[j]) /\ Kin(ls[j], ms[j])
             /\ "status" \in R /\ ms[j].kind = "status" => ~ ls[j].newest
  <2> DEFINE c == ms[j]
  <2>1. Proper(c) BY DEF Flying
  <2>2. "status" \in R /\ c.kind = "status" => crossed(j) BY DEF Reading
  <2>3. ls[j] = [c EXCEPT !.newest = @ /\ ~ crossed(j)] BY DEF Overtaken
  <2> HIDE DEF c, ls, crossed
  <2>4. ASSUME NEW b PROVE LET d == [c EXCEPT !.newest = @ /\ ~ b]
                           IN  Proper(d) /\ Kin(d, c) /\ (b => ~ d.newest)
    <3> DEFINE d == [c EXCEPT !.newest = @ /\ ~ b]
    <3>1. d = [kind |-> c.kind, feature |-> c.feature, arg |-> c.arg, stage |-> c.stage, ok |-> c.ok,
               value |-> c.value, number |-> c.number, here |-> c.here, newest |-> c.newest /\ ~ b, at |-> c.at]
      BY <2>1 DEF Proper, DeskCall
    <3> QED BY <2>1, <3>1 DEF Proper, Kin, DeskCall
  <2>5. LET d == [c EXCEPT !.newest = @ /\ ~ crossed(j)]
        IN  Proper(d) /\ Kin(d, c) /\ (crossed(j) => ~ d.newest)
    BY <2>4
  <2> QED BY <2>2, <2>3, <2>5 DEF c
<1> HIDE DEF ls
<1>3. Flying(ls) /\ Carried(ls, ms, 0, K) BY <1>1, <1>2, MarkedKept DEF Kin
<1> QED BY <1>1, <1>2, <1>3 DEF ls

\* Calls that are posted come after those in flight.
LEMMA PostedIs ==
  ASSUME NEW ms, Flying(ms), NEW kinds, Sequence(kinds), NEW f \in Features, NEW a
  PROVE  LET ls == PostedCalls(ms, kinds, f, a)
             os == Overtaken(ms, Range(kinds))
         IN  /\ Flying(ls) /\ DOMAIN ls = 1 .. (Len(ms) + Len(kinds))
             /\ \A j \in DOMAIN ms : ls[j] = os[j]
             /\ \A j \in DOMAIN ls \ DOMAIN ms : \E n \in DOMAIN kinds : ls[j] = FreshCall(kinds[n], f, a)
             /\ \A n \in DOMAIN kinds : ls[Len(ms) + n] = FreshCall(kinds[n], f, a)
<1> DEFINE os == Overtaken(ms, Range(kinds))
           fresh == [j \in DOMAIN kinds |-> FreshCall(kinds[j], f, a)]
           ls == os \o fresh
           T == Range(os) \cup Range(fresh)
<1>1. Len(ms) \in Nat /\ DOMAIN ms = 1 .. Len(ms) BY SequenceFacts DEF Flying
<1>2. Len(kinds) \in Nat /\ DOMAIN kinds = 1 .. Len(kinds) BY SequenceFacts
<1>3. Flying(os) /\ DOMAIN os = DOMAIN ms BY OvertakenKept
<1>4. DOMAIN fresh = 1 .. Len(kinds) /\ fresh = [j \in 1 .. Len(kinds) |-> fresh[j]]
      /\ \A n \in DOMAIN kinds : fresh[n] = FreshCall(kinds[n], f, a)
  BY <1>2
<1> HIDE DEF os, fresh
<1>5. Sequence(fresh) /\ Len(fresh) = Len(kinds) BY <1>2, <1>4, SequenceMade
<1>6. Sequence(os) /\ Len(os) = Len(ms) /\ os = [j \in 1 .. Len(os) |-> os[j]]
  <2>1. Sequence(os) BY <1>3 DEF Flying
  <2>2. DOMAIN os = 1 .. Len(os) /\ Len(os) \in Nat /\ os = [j \in 1 .. Len(os) |-> os[j]] BY <2>1, SequenceFacts
  <2> QED BY <1>1, <1>3, <2>1, <2>2
<1>7. os \in Seq(T) /\ fresh \in Seq(T)
  <2>1. \A j \in 1 .. Len(os) : os[j] \in T BY <1>1, <1>3, <1>6 DEF Range
  <2>2. \A j \in 1 .. Len(fresh) : fresh[j] \in T BY <1>4, <1>5 DEF Range
  <2> HIDE DEF T
  <2>3. os \in [1 .. Len(os) -> T] /\ fresh \in [1 .. Len(fresh) -> T] BY <1>4, <1>5, <1>6, <2>1, <2>2
  <2> QED BY <1>1, <1>2, <1>5, <1>6, <2>3, SeqDef
<1> HIDE DEF T
<1>8. /\ ls \in Seq(T) /\ Len(ls) = Len(ms) + Len(kinds)
      /\ \A j \in 1 .. (Len(ms) + Len(kinds)) : ls[j] = IF j <= Len(ms) THEN os[j] ELSE fresh[j - Len(ms)]
  <2>1. /\ ls \in Seq(T) /\ Len(ls) = Len(os) + Len(fresh)
        /\ \A j \in 1 .. (Len(os) + Len(fresh)) : ls[j] = IF j <= Len(os) THEN os[j] ELSE fresh[j - Len(os)]
    BY <1>7, ConcatProperties
  <2> HIDE DEF ls
  <2> QED BY <1>5, <1>6, <2>1
<1>9. PostedCalls(ms, kinds, f, a) = ls BY DEF PostedCalls, os, fresh
<1> HIDE DEF ls
<1>10. Sequence(ls) /\ DOMAIN ls = 1 .. (Len(ms) + Len(kinds)) BY <1>8, SequenceOf, LenProperties
<1>11. \A j \in DOMAIN ms : ls[j] = os[j] /\ j \in DOMAIN ls BY <1>1, <1>2, <1>8, <1>10
<1>12. ASSUME NEW j \in DOMAIN ls \ DOMAIN ms
       PROVE  \E n \in DOMAIN kinds : ls[j] = FreshCall(kinds[n], f, a)
  <2>1. j - Len(ms) \in DOMAIN kinds /\ ls[j] = fresh[j - Len(ms)] BY <1>1, <1>2, <1>8, <1>10, <1>12
  <2> QED BY <1>4, <2>1
<1>13. ASSUME NEW n \in DOMAIN kinds PROVE ls[Len(ms) + n] = FreshCall(kinds[n], f, a)
  <2>1. Len(ms) + n \in DOMAIN ls /\ ~ (Len(ms) + n <= Len(ms)) /\ (Len(ms) + n) - Len(ms) = n
    BY <1>1, <1>2, <1>10
  <2> QED BY <1>4, <1>8, <1>10, <2>1
<1>14. \A j \in DOMAIN ls : Proper(ls[j])
  <2>1. \A j \in DOMAIN ms : Proper(os[j]) BY <1>3 DEF Flying
  <2> QED BY <1>11, <1>12, <2>1, AskingProper
<1> QED BY <1>9, <1>10, <1>11, <1>12, <1>13, <1>14 DEF Flying, os

\* Posting carries the calls in flight.
LEMMA PostedKept ==
  ASSUME NEW ms, Flying(ms), NEW kinds, Sequence(kinds), NEW f \in Features, NEW a, NEW K,
         \A n \in DOMAIN kinds : kinds[n] \notin K
  PROVE  Flying(PostedCalls(ms, kinds, f, a)) /\ Carried(PostedCalls(ms, kinds, f, a), ms, 0, K)
<1> DEFINE ls == PostedCalls(ms, kinds, f, a)
           os == Overtaken(ms, Range(kinds))
           g == [j \in DOMAIN ls |-> IF j \in DOMAIN ms THEN j ELSE 0]
<1>1. Len(ms) \in Nat /\ DOMAIN ms = 1 .. Len(ms) BY SequenceFacts DEF Flying
<1>2. Len(kinds) \in Nat BY SequenceFacts
<1>3. /\ Flying(ls) /\ DOMAIN ls = 1 .. (Len(ms) + Len(kinds)) /\ \A j \in DOMAIN ms : ls[j] = os[j]
      /\ \A j \in DOMAIN ls \ DOMAIN ms : \E n \in DOMAIN kinds : ls[j] = FreshCall(kinds[n], f, a)
  BY PostedIs
<1>4. \A j \in DOMAIN ms : Kin(os[j], ms[j]) BY OvertakenKept
<1> HIDE DEF ls, os
<1>5. \A j \in DOMAIN ms : j \in DOMAIN ls /\ Kin(ls[j], ms[j]) /\ j # 0 BY <1>1, <1>2, <1>3, <1>4
<1>6. \A j \in DOMAIN ls \ DOMAIN ms : ls[j].kind \notin K BY <1>3, AskingProper
<1>7. g \in [DOMAIN ls -> DOMAIN ms \cup {0}] OBVIOUS
<1>8. \A j \in DOMAIN ls : ls[j].kind \in K => j \in DOMAIN ms /\ g[j] = j BY <1>6
<1>9. \A j \in DOMAIN ms : g[j] = j BY <1>5
<1> HIDE DEF g
<1>10. \A n \in DOMAIN ls : ls[n].kind \in K => g[n] \in DOMAIN ms \ {0} /\ Kin(ls[n], ms[g[n]]) BY <1>5, <1>8
<1>11. \A m, n \in DOMAIN ls : ls[m].kind \in K /\ ls[n].kind \in K /\ g[m] = g[n] => m = n BY <1>8
<1>12. ASSUME NEW k \in DOMAIN ms \ {0}, ms[k].kind \in K PROVE \E n \in DOMAIN ls : ls[n].kind \in K /\ g[n] = k
  <2>1. k \in DOMAIN ls /\ ls[k].kind \in K /\ g[k] = k BY <1>5, <1>9, <1>12 DEF Kin
  <2> QED BY <2>1
<1>13. Carried(ls, ms, 0, K) BY <1>7, <1>10, <1>11, <1>12 DEF Carried
<1> QED BY <1>3, <1>13 DEF ls

-----------------------------------------------------------------------------
(* The invariant of the pro features. *)
DeskPage(d) ==
  d = [feature |-> d.feature, loading |-> d.loading, unlocked |-> d.unlocked,
       unlocking |-> d.unlocking, module |-> d.module]
DeskModule(m) ==
  m = [busy |-> m.busy, working |-> m.working, value |-> m.value, price |-> m.price, due |-> m.due,
       existing |-> m.existing, box |-> m.box, timer |-> m.timer, results |-> m.results, selected |-> m.selected]
DeskShape ==
  /\ DeskPage(desk) /\ DeskModule(desk.module)
  /\ desk.feature \in Features
  /\ fees = [f \in Features |-> fees[f]]
  /\ paid = [p \in People |-> paid[p]] /\ wanted = [p \in People |-> wanted[p]]
  /\ \A p \in People : paid[p] \in Int /\ wanted[p] \in Int

\* a licence that is bought, as far as the page will know
Bought(c) == c.kind = "unlock" /\ c.stage = "done" /\ c.ok
LicenceCall(c) ==
  /\ c.kind = "unlock" /\ c.stage = "sent" /\ c.feature \notin blind => c.feature \notin licensed
  /\ c.kind = "unlock" => desk.unlocking
  /\ c.kind = "status" /\ c.newest => c.feature = desk.feature
  /\ c.kind = "status" /\ c.newest /\ c.stage = "done" /\ c.ok => (c.feature \in c.value <=> c.feature \in licensed)
  /\ Bought(c) /\ c.newest => c.feature \in licensed
LicenceKept ==
  /\ \A f \in Features \ blind : fees[f] = IF f \in licensed THEN 1 ELSE 0
  /\ \A j \in DOMAIN sent : LicenceCall(sent[j])
  /\ \A i, j \in DOMAIN sent : sent[i].kind = "unlock" /\ sent[j].kind = "unlock" => i = j
  /\ "licence" \in shaky \/ (\E j \in DOMAIN sent : sent[j].kind = "status" \/ Bought(sent[j]))
       \/ (desk.unlocked <=> desk.feature \in licensed)

\* the orders that keep their module at work until they are answered
Labours == {"trade", "rebalance", "pay"}
\* a person whose batch was paid, as far as the page will know
PaysFor(c, p) == c.kind = "pay" /\ c.stage = "done" /\ c.ok /\ p \in c.arg
LabourCall(c) ==
  /\ c.kind \in Labours /\ c.here => desk.module.working
  /\ c.kind \in Labours /\ c.stage = "done" => c.here
  /\ c.kind = "pay" => c.here \/ c.arg \subseteq spoiled
  /\ c.kind = "pay" /\ c.here => \A p \in People \ spoiled : p \in desk.module.selected <=> p \in c.arg
Settled(p) == \E j \in DOMAIN sent : PaysFor(sent[j], p)
PayrollKept ==
  /\ \A p \in People \ spoiled :
        wanted[p] = paid[p] + IF p \in desk.module.selected /\ ~ Settled(p) THEN 1 ELSE 0
  /\ \A j \in DOMAIN sent : LabourCall(sent[j])
  /\ \A i, j \in DOMAIN sent :
        sent[i].kind \in Labours /\ sent[j].kind \in Labours /\ sent[i].here /\ sent[j].here => i = j
DeskInv == DeskShape /\ Flying(sent) /\ LicenceKept /\ PayrollKept

\* A step after which the licences stand as they did.
LEMMA LicenceStays ==
  ASSUME DeskInv, Carried(sent', sent, 0, OfPage), UNCHANGED <<fees, licensed, blind>>,
         desk'.feature = desk.feature, desk'.unlocking = desk.unlocking, desk'.unlocked = desk.unlocked,
         "licence" \in shaky => "licence" \in shaky'
  PROVE  LicenceKept'
<1>0. "unlock" \in OfPage /\ "status" \in OfPage BY DEF OfPage
<1>1. PICK f \in [DOMAIN sent' -> DOMAIN sent \cup {0}] :
     /\ \A n \in DOMAIN sent' : sent'[n].kind \in OfPage => f[n] \in DOMAIN sent \ {0} /\ Kin(sent'[n], sent[f[n]])
     /\ \A m, n \in DOMAIN sent' : sent'[m].kind \in OfPage /\ sent'[n].kind \in OfPage /\ f[m] = f[n] => m = n
     /\ \A k \in DOMAIN sent \ {0} : sent[k].kind \in OfPage => \E n \in DOMAIN sent' : sent'[n].kind \in OfPage /\ f[n] = k
  BY DEF Carried
<1>2. \A g \in Features \ blind' : fees'[g] = IF g \in licensed' THEN 1 ELSE 0
  BY DEF DeskInv, LicenceKept
<1>3. ASSUME NEW n \in DOMAIN sent' PROVE LicenceCall(sent[n])'
  <2>1. CASE sent'[n].kind \in OfPage
    <3>1. f[n] \in DOMAIN sent /\ Kin(sent'[n], sent[f[n]]) BY <1>1, <2>1
    <3>2. LicenceCall(sent[f[n]]) BY <3>1 DEF DeskInv, LicenceKept
    <3> QED BY <3>1, <3>2 DEF LicenceCall, Bought, Kin
  <2>2. CASE sent'[n].kind \notin OfPage
    BY <1>0, <2>2 DEF LicenceCall, Bought
  <2> QED BY <2>1, <2>2
<1>4. ASSUME NEW m \in DOMAIN sent', NEW n \in DOMAIN sent', sent'[m].kind = "unlock", sent'[n].kind = "unlock"
      PROVE  m = n
  <2>1. f[m] \in DOMAIN sent /\ f[n] \in DOMAIN sent /\ sent[f[m]].kind = "unlock" /\ sent[f[n]].kind = "unlock"
    BY <1>0, <1>1, <1>4 DEF Kin
  <2>2. f[m] = f[n] BY <2>1 DEF DeskInv, LicenceKept
  <2> QED BY <1>0, <1>1, <1>4, <2>2
<1>5. ASSUME NEW k \in DOMAIN sent, sent[k].kind = "status" \/ Bought(sent[k])
      PROVE  \E n \in DOMAIN sent' : sent'[n].kind = "status" \/ Bought(sent'[n])
  <2>1. k # 0 BY SequenceFacts DEF DeskInv, Flying
  <2>2. sent[k].kind \in OfPage BY <1>0, <1>5 DEF Bought
  <2>3. PICK n \in DOMAIN sent' : sent'[n].kind \in OfPage /\ f[n] = k BY <1>1, <2>1, <2>2
  <2>4. Kin(sent'[n], sent[k]) BY <1>1, <2>3
  <2> QED BY <1>5, <2>3, <2>4 DEF Kin, Bought
<1>6. "licence" \in shaky' \/ (\E j \in DOMAIN sent' : sent'[j].kind = "status" \/ Bought(sent'[j]))
       \/ (desk'.unlocked <=> desk'.feature \in licensed')
  BY <1>5 DEF DeskInv, LicenceKept
<1>7. \A n \in DOMAIN sent' : LicenceCall(sent[n])' BY <1>3
<1> QED BY <1>2, <1>4, <1>6, <1>7 DEF LicenceKept, Bought

\* A step after which the list and its payments stand as they did, save that a call at x may
\* be gone that no page waited for.
LEMMA PayrollStays ==
  ASSUME DeskInv, NEW x, Carried(sent', sent, x, Labours), x \in DOMAIN sent => sent[x].stage = "sent",
         wanted' = wanted, spoiled \subseteq spoiled', \A p \in People \ spoiled' : paid'[p] = paid[p],
         desk'.module.selected = desk.module.selected, desk'.module.working = desk.module.working
  PROVE  PayrollKept'
<1>0. "pay" \in Labours BY DEF Labours
<1>1. PICK f \in [DOMAIN sent' -> DOMAIN sent \cup {0}] :
     /\ \A n \in DOMAIN sent' : sent'[n].kind \in Labours => f[n] \in DOMAIN sent \ {x} /\ Kin(sent'[n], sent[f[n]])
     /\ \A m, n \in DOMAIN sent' : sent'[m].kind \in Labours /\ sent'[n].kind \in Labours /\ f[m] = f[n] => m = n
     /\ \A k \in DOMAIN sent \ {x} : sent[k].kind \in Labours => \E n \in DOMAIN sent' : sent'[n].kind \in Labours /\ f[n] = k
  BY DEF Carried
<1>2. ASSUME NEW p PROVE Settled(p)' <=> Settled(p)
  <2>1. ASSUME NEW n \in DOMAIN sent', PaysFor(sent[n], p)' PROVE Settled(p)
    <3>1. f[n] \in DOMAIN sent /\ Kin(sent'[n], sent[f[n]]) BY <1>0, <1>1, <2>1 DEF PaysFor
    <3>2. PaysFor(sent[f[n]], p) BY <2>1, <3>1 DEF PaysFor, Kin
    <3> QED BY <3>1, <3>2 DEF Settled
  <2>2. ASSUME NEW k \in DOMAIN sent, PaysFor(sent[k], p) PROVE Settled(p)'
    <3>1. k # x /\ sent[k].kind \in Labours BY <1>0, <2>2 DEF PaysFor
    <3>2. PICK n \in DOMAIN sent' : sent'[n].kind \in Labours /\ f[n] = k BY <1>1, <3>1
    <3>3. Kin(sent'[n], sent[k]) BY <1>1, <3>2
    <3>4. PaysFor(sent'[n], p) BY <2>2, <3>3 DEF PaysFor, Kin
    <3> QED BY <3>2, <3>4 DEF Settled, PaysFor
  <2> QED BY <2>1, <2>2 DEF Settled
<1>3. ASSUME NEW p \in People \ spoiled'
      PROVE  wanted'[p] = paid'[p] + IF p \in desk'.module.selected /\ ~ Settled(p)' THEN 1 ELSE 0
  BY <1>2, <1>3 DEF DeskInv, PayrollKept
<1>4. ASSUME NEW n \in DOMAIN sent' PROVE LabourCall(sent[n])'
  <2>1. CASE sent'[n].kind \in Labours
    <3>1. f[n] \in DOMAIN sent /\ Kin(sent'[n], sent[f[n]]) BY <1>1, <2>1
    <3>2. LabourCall(sent[f[n]]) BY <3>1 DEF DeskInv, PayrollKept
    <3> QED BY <3>1, <3>2 DEF LabourCall, Kin
  <2>2. CASE sent'[n].kind \notin Labours
    BY <1>0, <2>2 DEF LabourCall
  <2> QED BY <2>1, <2>2
<1>5. ASSUME NEW m \in DOMAIN sent', NEW n \in DOMAIN sent', sent'[m].kind \in Labours, sent'[n].kind \in Labours,
             sent'[m].here, sent'[n].here
      PROVE  m = n
  <2>1. /\ f[m] \in DOMAIN sent /\ f[n] \in DOMAIN sent /\ sent[f[m]].kind \in Labours /\ sent[f[n]].kind \in Labours
        /\ sent[f[m]].here /\ sent[f[n]].here
    BY <1>1, <1>5 DEF Kin
  <2>2. f[m] = f[n] BY <2>1 DEF DeskInv, PayrollKept
  <2> QED BY <1>1, <1>5, <2>2
<1>6. \A n \in DOMAIN sent' : LabourCall(sent[n])' BY <1>4
<1> QED BY <1>3, <1>5, <1>6 DEF PayrollKept

\* What becomes of the page's record.
LEMMA PageFeature ==
  ASSUME NEW d, DeskPage(d), NEW v, NEW e, e = [d EXCEPT !.feature = v]
  PROVE  /\ DeskPage(e) /\ e.feature = v /\ e.loading = d.loading /\ e.unlocked = d.unlocked
         /\ e.unlocking = d.unlocking /\ e.module = d.module
BY DEF DeskPage
\* Only the loading flag of the page changes.
LEMMA PageLoading ==
  ASSUME NEW d, DeskPage(d), NEW v, NEW e, e = [d EXCEPT !.loading = v]
  PROVE  /\ DeskPage(e) /\ e.feature = d.feature /\ e.loading = v /\ e.unlocked = d.unlocked
         /\ e.unlocking = d.unlocking /\ e.module = d.module
BY DEF DeskPage
\* Only the licence flag of the page changes.
LEMMA PageUnlocked ==
  ASSUME NEW d, DeskPage(d), NEW v, NEW e, e = [d EXCEPT !.unlocked = v]
  PROVE  /\ DeskPage(e) /\ e.feature = d.feature /\ e.loading = d.loading /\ e.unlocked = v
         /\ e.unlocking = d.unlocking /\ e.module = d.module
BY DEF DeskPage
\* Only the unlocking flag of the page changes.
LEMMA PageUnlocking ==
  ASSUME NEW d, DeskPage(d), NEW v, NEW e, e = [d EXCEPT !.unlocking = v]
  PROVE  /\ DeskPage(e) /\ e.feature = d.feature /\ e.loading = d.loading /\ e.unlocked = d.unlocked
         /\ e.unlocking = v /\ e.module = d.module
BY DEF DeskPage
\* Only the module of the page changes.
LEMMA PageModule ==
  ASSUME NEW d, DeskPage(d), NEW v, NEW e, e = [d EXCEPT !.module = v]
  PROVE  /\ DeskPage(e) /\ e.feature = d.feature /\ e.loading = d.loading /\ e.unlocked = d.unlocked
         /\ e.unlocking = d.unlocking /\ e.module = v
BY DEF DeskPage

\* What becomes of the module's record, in the fields that matter here.
QuietModule(e, m) == DeskModule(e) /\ e.selected = m.selected /\ e.working = m.working
\* A change of any other field leaves a module's work and list as they are.
LEMMA ModuleFields ==
  ASSUME NEW m, DeskModule(m), NEW v
  PROVE  /\ QuietModule([m EXCEPT !.busy = v], m) /\ QuietModule([m EXCEPT !.value = v], m)
         /\ QuietModule([m EXCEPT !.price = v], m) /\ QuietModule([m EXCEPT !.due = v], m)
         /\ QuietModule([m EXCEPT !.existing = v], m) /\ QuietModule([m EXCEPT !.box = v], m)
         /\ QuietModule([m EXCEPT !.timer = v], m) /\ QuietModule([m EXCEPT !.results = v], m)
BY DEF DeskModule, QuietModule

\* Only the working flag of a module changes.
LEMMA ModuleWorking ==
  ASSUME NEW m, DeskModule(m), NEW v, NEW e, e = [m EXCEPT !.working = v]
  PROVE  DeskModule(e) /\ e.selected = m.selected /\ e.working = v
BY DEF DeskModule
\* Only the list of a module changes.
LEMMA ModuleSelected ==
  ASSUME NEW m, DeskModule(m), NEW v, NEW e, e = [m EXCEPT !.selected = v]
  PROVE  DeskModule(e) /\ e.selected = v /\ e.working = m.working
BY DEF DeskModule

\* A module's own field, written through the page.
LEMMA ThroughPage ==
  ASSUME NEW d, DeskPage(d), DeskModule(d.module), NEW v
  PROVE  /\ [d EXCEPT !.module.working = v] = [d EXCEPT !.module = [d.module EXCEPT !.working = v]]
         /\ [d EXCEPT !.module.selected = v] = [d EXCEPT !.module = [d.module EXCEPT !.selected = v]]
         /\ [d EXCEPT !.module.due = v] = [d EXCEPT !.module = [d.module EXCEPT !.due = v]]
         /\ [d EXCEPT !.module.timer = v] = [d EXCEPT !.module = [d.module EXCEPT !.timer = v]]
         /\ [d EXCEPT !.module.box = v] = [d EXCEPT !.module = [d.module EXCEPT !.box = v]]
         /\ [d EXCEPT !.module.results = v] = [d EXCEPT !.module = [d.module EXCEPT !.results = v]]
         /\ \A w : [[d EXCEPT !.module = w] EXCEPT !.module = v] = [d EXCEPT !.module = v]
BY DEF DeskPage, DeskModule

\* A step that leaves the licences, the list and what is known of both.
LEMMA QuietInv ==
  ASSUME DeskInv, Flying(sent'), Carried(sent', sent, 0, OfPage), NEW x, Carried(sent', sent, x, Labours),
         x \in DOMAIN sent => sent[x].stage = "sent",
         UNCHANGED <<fees, licensed, blind, paid, wanted, spoiled>>, "licence" \in shaky => "licence" \in shaky',
         NEW m, QuietModule(m, desk.module), desk' = [desk EXCEPT !.module = m]
  PROVE  DeskInv'
<1>1. DeskPage(desk) /\ DeskModule(desk.module) BY DEF DeskInv, DeskShape
<1>2. /\ DeskPage(desk') /\ desk'.feature = desk.feature /\ desk'.unlocked = desk.unlocked
      /\ desk'.unlocking = desk.unlocking /\ desk'.module = m
  BY <1>1, PageModule
<1>3. DeskModule(m) /\ m.selected = desk.module.selected /\ m.working = desk.module.working BY DEF QuietModule
<1>4. DeskShape' BY <1>2, <1>3 DEF DeskInv, DeskShape
<1>5. LicenceKept' BY <1>2, LicenceStays
<1>6. PayrollKept' BY <1>2, <1>3, PayrollStays
<1> QED BY <1>4, <1>5, <1>6 DEF DeskInv

\* A module that stays as it is.
LEMMA Unmounted ==
  ASSUME DeskInv
  PROVE  QuietModule(desk.module, desk.module) /\ desk = [desk EXCEPT !.module = desk.module]
BY DEF DeskInv, DeskShape, DeskPage, QuietModule

\* Where nothing here changes.
LEMMA DeskStutter ==
  ASSUME DeskInv, UNCHANGED <<desk, sent, fees, licensed, paid, shaky, blind, wanted, spoiled>>
  PROVE  DeskInv'
BY DEF DeskInv, DeskShape, LicenceKept, LicenceCall, Bought, PayrollKept, LabourCall, Settled, PaysFor, DeskPage, DeskModule, Flying, Sequence

-----------------------------------------------------------------------------
(* Steps of no consequence to the licences and the list. *)
Weighty == OfPage \cup Labours

\* Posting is adding fresh calls of the page's feature.
LEMMA PostIs ==
  ASSUME NEW ms, NEW kinds, NEW arg, NEW f, desk'.feature = f
  PROVE  Post(ms, kinds, arg) = PostedCalls(ms, kinds, f, arg)
BY DEF Post, PostedCalls, Call, FreshCall

\* A click that sends one call, neither of the licence nor an order,
LEMMA OneSent ==
  ASSUME DeskInv, NEW k, k \notin Weighty, NEW arg, desk'.feature = desk.feature, sent' = Post(sent, <<k>>, arg)
  PROVE  Flying(sent') /\ Carried(sent', sent, 0, OfPage) /\ Carried(sent', sent, 0, Labours)
<1> DEFINE kinds == <<k>>
<1>1. Sequence(kinds) /\ \A n \in DOMAIN kinds : kinds[n] = k BY ShortSequences
<1>2. desk.feature \in Features /\ Flying(sent) BY DEF DeskInv, DeskShape
<1> HIDE DEF kinds
<1>3. sent' = PostedCalls(sent, kinds, desk.feature, arg) BY PostIs DEF kinds
<1>4. \A n \in DOMAIN kinds : kinds[n] \notin OfPage BY <1>1 DEF Weighty
<1>5. \A n \in DOMAIN kinds : kinds[n] \notin Labours BY <1>1 DEF Weighty
<1>6. Flying(PostedCalls(sent, kinds, desk.feature, arg)) /\ Carried(PostedCalls(sent, kinds, desk.feature, arg), sent, 0, OfPage)
  BY <1>1, <1>2, <1>4, PostedKept
<1>7. Carried(PostedCalls(sent, kinds, desk.feature, arg), sent, 0, Labours) BY <1>1, <1>2, <1>5, PostedKept
<1> QED BY <1>3, <1>6, <1>7

\* or none,
LEMMA SentKeeps ==
  ASSUME DeskInv, sent' = sent
  PROVE  Flying(sent') /\ Carried(sent', sent, 0, OfPage) /\ Carried(sent', sent, 0, Labours)
<1>1. Flying(sent) /\ sent = [j \in DOMAIN sent |-> sent[j]]
  BY SequenceFacts DEF DeskInv, Flying
<1>2. \A j \in DOMAIN sent : Proper(sent[j]) /\ Kin(sent[j], sent[j]) BY <1>1 DEF Flying, Kin
<1>3. Carried(sent, sent, 0, OfPage) /\ Carried(sent, sent, 0, Labours) BY <1>1, <1>2, MarkedKept
<1> QED BY <1>1, <1>3

\* and an answer to such a call that is taken, carry the calls in flight.
LEMMA AnswerTaken ==
  ASSUME DeskInv, NEW i \in DOMAIN sent, sent[i].kind \notin Weighty, sent' = RemoveAt(sent, i)
  PROVE  Flying(sent') /\ Carried(sent', sent, 0, OfPage) /\ Carried(sent', sent, 0, Labours)
<1>1. Flying(sent) /\ 0 \notin DOMAIN sent BY SequenceFacts DEF DeskInv, Flying
<1>2. /\ Flying(RemoveAt(sent, i)) /\ Carried(RemoveAt(sent, i), sent, i, OfPage)
      /\ Carried(RemoveAt(sent, i), sent, i, Labours)
  BY <1>1, WithoutKept
<1>3. sent[i].kind \notin OfPage /\ sent[i].kind \notin Labours BY DEF Weighty
<1>4. Carried(RemoveAt(sent, i), sent, 0, OfPage) /\ Carried(RemoveAt(sent, i), sent, 0, Labours)
  BY <1>1, <1>2, <1>3, NoneMissed
<1> QED BY <1>2, <1>4

\* A call that is replied to is proper.
LEMMA RepliedProper ==
  ASSUME NEW c, Proper(c), NEW ok, NEW value, NEW number, NEW d, d = Replied(c, ok, value, number)
  PROVE  /\ Proper(d) /\ d.kind = c.kind /\ d.feature = c.feature /\ d.arg = c.arg /\ d.here = c.here
         /\ d.newest = c.newest /\ d.stage = "done" /\ d.ok = ok /\ d.value = value
<1>1. d = [kind |-> c.kind, feature |-> c.feature, arg |-> c.arg, stage |-> "done", ok |-> ok,
           value |-> value, number |-> number, here |-> c.here, newest |-> c.newest, at |-> today]
  BY DEF Replied, Proper, DeskCall
<1> QED BY <1>1 DEF Proper, DeskCall

\* So does an answer to such a call that is put in its place, or dropped with its component.
LEMMA AnswerPut ==
  ASSUME DeskInv, NEW i \in DOMAIN sent, sent[i].kind \notin Weighty, NEW d, Proper(d), d.kind = sent[i].kind,
         sent' = IF sent[i].here THEN [sent EXCEPT ![i] = d] ELSE RemoveAt(sent, i)
  PROVE  Flying(sent') /\ Carried(sent', sent, 0, OfPage) /\ Carried(sent', sent, 0, Labours)
<1>1. CASE ~ sent[i].here BY <1>1, AnswerTaken
<1>2. CASE sent[i].here
  <2> DEFINE ls == [sent EXCEPT ![i] = d]
  <2>1. Flying(sent) BY DEF DeskInv
  <2>2. DOMAIN ls = DOMAIN sent /\ ls = [j \in DOMAIN sent |-> ls[j]] OBVIOUS
  <2>3. \A j \in DOMAIN sent : ls[j] = IF j = i THEN d ELSE sent[j] OBVIOUS
  <2> HIDE DEF ls
  <2>4. \A j \in DOMAIN sent : /\ Proper(ls[j]) /\ ls[j].kind = sent[j].kind
                               /\ (sent[j].kind \in OfPage => Kin(ls[j], sent[j]))
                               /\ (sent[j].kind \in Labours => Kin(ls[j], sent[j]))
    BY <2>1, <2>3 DEF Flying, Weighty, Kin
  <2>5. Flying(ls) /\ Carried(ls, sent, 0, OfPage) BY <2>1, <2>2, <2>4, MarkedKept
  <2>6. Carried(ls, sent, 0, Labours) BY <2>1, <2>2, <2>4, MarkedKept
  <2>7. sent' = ls BY <1>2 DEF ls
  <2> QED BY <2>5, <2>6, <2>7
<1> QED BY <1>1, <1>2

\* The handlers that only tell, and a module's answers to them.
LEMMA ToldInv ==
  ASSUME DeskInv, NEW i \in DOMAIN sent, sent[i].kind \notin Weighty, NEW ok, NEW value, NEW number,
         sent' = Put(i, Replied(sent[i], ok, value, number)),
         UNCHANGED <<desk, fees, licensed, blind, paid, wanted, spoiled, shaky>>
  PROVE  DeskInv'
<1> DEFINE c == sent[i]
<1>1. PICK d : d = Replied(c, ok, value, number) OBVIOUS
<1>2. Proper(c) BY DEF DeskInv, Flying
<1> HIDE DEF c
<1>3. Proper(d) /\ d.kind = c.kind /\ d.here = c.here BY <1>1, <1>2, RepliedProper
<1>4. sent' = IF sent[i].here THEN [sent EXCEPT ![i] = d] ELSE RemoveAt(sent, i) BY <1>1, <1>3 DEF Put, c
<1>5. Flying(sent') /\ Carried(sent', sent, 0, OfPage) /\ Carried(sent', sent, 0, Labours)
  BY <1>3, <1>4, AnswerPut DEF c
<1>6. 0 \notin DOMAIN sent BY SequenceFacts DEF DeskInv, Flying
<1>7. QuietModule(desk.module, desk.module) /\ desk' = [desk EXCEPT !.module = desk.module] BY Unmounted
<1> QED BY <1>5, <1>6, <1>7, QuietInv

\* An answer that only changes what a module shows keeps the invariant.
LEMMA ShownInv ==
  ASSUME DeskInv, NEW i \in DOMAIN sent, sent[i].kind \notin Weighty, NEW m, QuietModule(m, desk.module), Shown(i, m),
         UNCHANGED <<fees, licensed, blind, paid, wanted, spoiled>>, "licence" \in shaky => "licence" \in shaky'
  PROVE  DeskInv'
<1>1. Flying(sent') /\ Carried(sent', sent, 0, OfPage) /\ Carried(sent', sent, 0, Labours)
  BY AnswerTaken DEF Shown
<1>2. 0 \notin DOMAIN sent BY SequenceFacts DEF DeskInv, Flying
<1> QED BY <1>1, <1>2, QuietInv DEF Shown

\* The calls that matter to the licences and the payroll.
LEMMA WeightyKinds ==
  /\ {"status", "unlock", "trade", "rebalance", "pay"} = Weighty
  /\ OfPage \subseteq Weighty /\ Labours \subseteq Weighty
BY DEF Weighty, OfPage, Labours

\* An answer about something else leaves the doubt about the licence.
LEMMA JudgedOther ==
  ASSUME NEW c, NEW right, Judged(c, right), About(c.kind) # "licence"
  PROVE  "licence" \in shaky => "licence" \in shaky'
BY DEF Judged

\* The handlers that only read keep the invariant.
LEMMA TellsInv ==
  ASSUME DeskInv, NEW i \in DOMAIN sent,
         \/ ServeBook(i) \/ ServeStats(i) \/ ServePrices(i) \/ ServePortfolio(i) \/ ServeInsights(i)
         \/ ServePayees(i) \/ ServeSearch(i)
  PROVE  DeskInv'
<1>1. sent[i].kind \notin Weighty
  BY WeightyKinds DEF ServeBook, ServeStats, ServePrices, ServePortfolio, ServeInsights, ServePayees, ServeSearch, Asked
<1>2. UNCHANGED <<desk, fees, licensed, blind, paid, wanted, spoiled, shaky>>
  BY DEF ServeBook, ServeStats, ServePrices, ServePortfolio, ServeInsights, ServePayees, ServeSearch, Tells, Handling, bankSide
<1>3. \E value, number : sent' = Put(i, Replied(sent[i], TRUE, value, number))
  BY DEF ServeBook, ServeStats, ServePrices, ServePortfolio, ServeInsights, ServePayees, ServeSearch, Tells
<1>4. PICK value, number : sent' = Put(i, Replied(sent[i], TRUE, value, number)) BY <1>3
<1>0. PICK ok : ok = TRUE OBVIOUS
<1> QED BY <1>0, <1>1, <1>2, <1>4, ToldInv

\* ServiceFails keeps the invariant.
LEMMA ServiceFailsInv ==
  ASSUME DeskInv, NEW i \in DOMAIN sent, ServiceFails(i)
  PROVE  DeskInv'
<1>1. sent[i].kind \notin Weighty BY WeightyKinds DEF ServiceFails, Asked
<1>2. UNCHANGED <<desk, fees, licensed, blind, paid, wanted, spoiled, shaky>> BY DEF ServiceFails, Fault, bankSide
<1>0. PICK ok : ok = TRUE OBVIOUS
<1>3. sent' = Put(i, Replied(sent[i], ok, {}, Static)) BY <1>0 DEF ServiceFails
<1> QED BY <1>1, <1>2, <1>3, ToldInv

\* So do their answers on the page.
LEMMA AnswersInv ==
  ASSUME DeskInv, NEW i \in DOMAIN sent,
         OnLibrary(i) \/ OnPrices(i) \/ OnWorth(i) \/ OnSearch(i) \/ OnPayees(i)
  PROVE  DeskInv'
<1> DEFINE c == sent[i]
           m == desk.module
<1>1. sent[i].kind \notin Weighty
  BY WeightyKinds DEF OnLibrary, OnPrices, OnWorth, OnSearch, OnPayees, Come
<1>2. UNCHANGED <<fees, licensed, blind, paid, wanted, spoiled>>
  BY DEF OnLibrary, OnPrices, OnWorth, OnSearch, OnPayees, Quietly, bankSide, ghosts
<1>3. "licence" \in shaky => "licence" \in shaky'
  <2>1. CASE OnLibrary(i) \/ OnPayees(i) BY <2>1 DEF OnLibrary, OnPayees, ghosts
  <2>2. CASE OnPrices(i)
    <3>1. Judged(sent[i], sent[i].ok /\ sent[i].newest /\ sent[i].at = today) /\ About(sent[i].kind) = "price"
      BY <2>2 DEF OnPrices, Come, About
    <3> QED BY <3>1 DEF Judged
  <2>3. CASE OnWorth(i)
    <3>1. Judged(sent[i], sent[i].ok /\ sent[i].newest) /\ About(sent[i].kind) = "worth"
      BY <2>3 DEF OnWorth, Come, About
    <3> QED BY <3>1 DEF Judged
  <2>4. CASE OnSearch(i)
    <3>1. Judged(sent[i], sent[i].ok /\ sent[i].newest) /\ About(sent[i].kind) = "results"
      BY <2>4 DEF OnSearch, Come, About
    <3> QED BY <3>1 DEF Judged
  <2> QED BY <2>1, <2>2, <2>3, <2>4
<1>4. DeskModule(m) BY DEF DeskInv, DeskShape
<1>5. PICK n : Shown(i, n) /\ QuietModule(n, m)
  <2>1. CASE OnLibrary(i) /\ c.kind = "stats"
    <3> DEFINE b == [m EXCEPT !.busy = FALSE]
               n == [b EXCEPT !.value = IF c.ok THEN c.number ELSE @]
    <3>1. Shown(i, n) BY <2>1 DEF OnLibrary
    <3>2. QuietModule(b, m) BY <1>4, ModuleFields
    <3> HIDE DEF b
    <3>3. DeskModule(b) BY <3>2 DEF QuietModule
    <3>4. \A v : QuietModule([b EXCEPT !.value = v], b) /\ QuietModule([b EXCEPT !.existing = v], b)
      BY <3>3, ModuleFields
    <3>5. QuietModule(n, b) BY <3>4
    <3> HIDE DEF n
    <3> QED BY <3>1, <3>2, <3>5 DEF QuietModule
  <2>2. CASE OnLibrary(i) /\ c.kind # "stats"
    <3> DEFINE n == [m EXCEPT !.value = IF c.ok THEN @ + 1 ELSE @]
    <3>1. Shown(i, n) BY <2>2 DEF OnLibrary
    <3>2. QuietModule(n, m) BY <1>4, ModuleFields
    <3> QED BY <3>1, <3>2
  <2>3. CASE OnPrices(i)
    <3> DEFINE n == IF c.ok THEN [m EXCEPT !.price = c.number] ELSE m
    <3>1. Shown(i, n) BY <2>3 DEF OnPrices
    <3>2. QuietModule(n, m) BY <1>4, ModuleFields DEF QuietModule
    <3> QED BY <3>1, <3>2
  <2>4. CASE OnWorth(i)
    <3> DEFINE b == [m EXCEPT !.busy = FALSE]
               n == [b EXCEPT !.value = IF c.ok THEN c.number ELSE @]
    <3>1. Shown(i, n) BY <2>4 DEF OnWorth
    <3>2. QuietModule(b, m) BY <1>4, ModuleFields
    <3> HIDE DEF b
    <3>3. DeskModule(b) BY <3>2 DEF QuietModule
    <3>4. \A v : QuietModule([b EXCEPT !.value = v], b) /\ QuietModule([b EXCEPT !.existing = v], b)
      BY <3>3, ModuleFields
    <3>5. QuietModule(n, b) BY <3>4
    <3> HIDE DEF n
    <3> QED BY <3>1, <3>2, <3>5 DEF QuietModule
  <2>5. CASE OnSearch(i)
    <3> DEFINE n == [m EXCEPT !.results = IF c.ok THEN c.value ELSE @]
    <3>1. Shown(i, n) BY <2>5 DEF OnSearch
    <3>2. QuietModule(n, m) BY <1>4, ModuleFields
    <3> QED BY <3>1, <3>2
  <2>6. CASE OnPayees(i)
    <3> DEFINE b == [m EXCEPT !.busy = FALSE]
               n == [b EXCEPT !.existing = IF c.ok THEN c.value ELSE @]
    <3>1. Shown(i, n) BY <2>6 DEF OnPayees
    <3>2. QuietModule(b, m) BY <1>4, ModuleFields
    <3> HIDE DEF b
    <3>3. DeskModule(b) BY <3>2 DEF QuietModule
    <3>4. \A v : QuietModule([b EXCEPT !.value = v], b) /\ QuietModule([b EXCEPT !.existing = v], b)
      BY <3>3, ModuleFields
    <3>5. QuietModule(n, b) BY <3>4
    <3> HIDE DEF n
    <3> QED BY <3>1, <3>2, <3>5 DEF QuietModule
  <2> QED BY <2>1, <2>2, <2>3, <2>4, <2>5, <2>6
<1> QED BY <1>1, <1>2, <1>3, <1>5, ShownInv

\* A second field of the module, written through the page.
LEMMA ThroughAgain ==
  ASSUME NEW d, DeskPage(d), DeskModule(d.module), NEW m, DeskModule(m), NEW v,
         NEW D, D = [d EXCEPT !.module = m]
  PROVE  /\ [D EXCEPT !.module.working = v] = [d EXCEPT !.module = [m EXCEPT !.working = v]]
         /\ [D EXCEPT !.module.selected = v] = [d EXCEPT !.module = [m EXCEPT !.selected = v]]
         /\ [D EXCEPT !.module.timer = v] = [d EXCEPT !.module = [m EXCEPT !.timer = v]]
         /\ [D EXCEPT !.module.box = v] = [d EXCEPT !.module = [m EXCEPT !.box = v]]
         /\ [D EXCEPT !.module.results = v] = [d EXCEPT !.module = [m EXCEPT !.results = v]]
<1>1. DeskPage(D) /\ D.module = m BY PageModule
<1>2. /\ [D EXCEPT !.module.working = v] = [D EXCEPT !.module = [m EXCEPT !.working = v]]
      /\ [D EXCEPT !.module.selected = v] = [D EXCEPT !.module = [m EXCEPT !.selected = v]]
      /\ [D EXCEPT !.module.timer = v] = [D EXCEPT !.module = [m EXCEPT !.timer = v]]
      /\ [D EXCEPT !.module.box = v] = [D EXCEPT !.module = [m EXCEPT !.box = v]]
      /\ [D EXCEPT !.module.results = v] = [D EXCEPT !.module = [m EXCEPT !.results = v]]
  BY <1>1, ThroughPage
<1>3. \A w : [D EXCEPT !.module = w] = [d EXCEPT !.module = w] BY DEF DeskPage
<1> QED BY <1>2, <1>3

\* Opening a book keeps the invariant.
LEMMA AccessBookInv == DeskInv /\ AccessBook => DeskInv'
<1> SUFFICES ASSUME DeskInv, AccessBook PROVE DeskInv' OBVIOUS
<1>1. /\ desk' = desk /\ sent' = Post(sent, <<"book">>, {})
      /\ UNCHANGED <<fees, licensed, blind, paid, wanted, spoiled, shaky>>
  BY DEF AccessBook, Acts, bankSide, ghosts
<1>2. PICK k : k = "book" OBVIOUS
<1>3. Flying(sent') /\ Carried(sent', sent, 0, OfPage) /\ Carried(sent', sent, 0, Labours)
  BY <1>1, <1>2, WeightyKinds, OneSent
<1>4. 0 \notin DOMAIN sent BY SequenceFacts DEF DeskInv, Flying
<1>5. QuietModule(desk.module, desk.module) /\ desk' = [desk EXCEPT !.module = desk.module] BY <1>1, Unmounted
<1> QED BY <1>1, <1>3, <1>4, <1>5, QuietInv

\* Typing in the search box keeps the invariant.
LEMMA TypeInv == ASSUME DeskInv, NEW q, Type(q) PROVE DeskInv'
<1> DEFINE m == desk.module
           b == [m EXCEPT !.box = q]
           n == [b EXCEPT !.timer = TRUE]
           D == [desk EXCEPT !.module.box = q]
<1>1. desk' = [D EXCEPT !.module.timer = TRUE]
  BY DEF Type
<1>2. sent' = sent /\ UNCHANGED <<fees, licensed, blind, paid, wanted, spoiled, shaky>>
  BY DEF Type, Acts, bankSide, ghosts
<1>3. DeskPage(desk) /\ DeskModule(m) BY DEF DeskInv, DeskShape
<1>4. D = [desk EXCEPT !.module = b] BY <1>3, ThroughPage
<1>5. QuietModule(b, m) BY <1>3, ModuleFields
<1> HIDE DEF D, b
<1>6. DeskModule(b) BY <1>5 DEF QuietModule
<1>7. desk' = [desk EXCEPT !.module = n] BY <1>1, <1>3, <1>4, <1>6, ThroughAgain
<1>8. QuietModule(n, b) BY <1>6, ModuleFields
<1> HIDE DEF n
<1>9. QuietModule(n, m) BY <1>5, <1>8 DEF QuietModule
<1>10. Flying(sent') /\ Carried(sent', sent, 0, OfPage) /\ Carried(sent', sent, 0, Labours) BY <1>2, SentKeeps
<1>11. 0 \notin DOMAIN sent BY SequenceFacts DEF DeskInv, Flying
<1> QED BY <1>2, <1>7, <1>9, <1>10, <1>11, QuietInv

\* The timer of a search keeps the invariant.
LEMMA TimerFiresInv == DeskInv /\ TimerFires => DeskInv'
<1> SUFFICES ASSUME DeskInv, TimerFires PROVE DeskInv' OBVIOUS
<1> DEFINE m == desk.module
           b == [m EXCEPT !.timer = FALSE]
           D == [desk EXCEPT !.module.timer = FALSE]
<1>1. UNCHANGED <<fees, licensed, blind, paid, wanted, spoiled>> BY DEF TimerFires, bankSide
<1>2. "licence" \in shaky => "licence" \in shaky' BY DEF TimerFires
<1>3. DeskPage(desk) /\ DeskModule(m) BY DEF DeskInv, DeskShape
<1>4. D = [desk EXCEPT !.module = b] BY <1>3, ThroughPage
<1>5. QuietModule(b, m) BY <1>3, ModuleFields
<1>6. 0 \notin DOMAIN sent /\ Flying(sent) BY SequenceFacts DEF DeskInv, Flying
<1>7. CASE m.box = Short
  <2> DEFINE n == [b EXCEPT !.results = {}]
  <2>1. desk' = [D EXCEPT !.module.results = {}] /\ sent' = Overtaken(sent, {"search"})
    BY <1>7 DEF TimerFires
  <2> HIDE DEF D, b
  <2>2. DeskModule(b) BY <1>5 DEF QuietModule
  <2>3. desk' = [desk EXCEPT !.module = n] BY <1>3, <1>4, <2>1, <2>2, ThroughAgain
  <2>4. QuietModule(n, b) BY <2>2, ModuleFields
  <2> HIDE DEF n
  <2>5. QuietModule(n, m) BY <1>5, <2>4 DEF QuietModule
  <2>6. Flying(sent') /\ Carried(sent', sent, 0, OfPage) /\ Carried(sent', sent, 0, Labours)
    BY <1>6, <2>1, OvertakenKept
  <2> QED BY <1>1, <1>2, <1>6, <2>3, <2>5, <2>6, QuietInv
<1>8. CASE m.box # Short
  <2>1. desk' = D /\ sent' = Post(sent, <<"search">>, {m.box}) BY <1>8 DEF TimerFires
  <2> HIDE DEF D, b
  <2>2. desk'.feature = desk.feature BY <1>3, <1>4, <2>1, PageModule
  <2>3. PICK k : k = "search" OBVIOUS
  <2>4. Flying(sent') /\ Carried(sent', sent, 0, OfPage) /\ Carried(sent', sent, 0, Labours)
    BY <2>1, <2>2, <2>3, WeightyKinds, OneSent
  <2> QED BY <1>1, <1>2, <1>4, <1>5, <1>6, <2>1, <2>4, QuietInv
<1> QED BY <1>7, <1>8

\* Reading the prices again keeps the invariant.
LEMMA ReadPricesInv == DeskInv /\ ReadPrices => DeskInv'
<1> SUFFICES ASSUME DeskInv, ReadPrices PROVE DeskInv' OBVIOUS
<1> DEFINE m == desk.module
<1>0. PICK due : due = today + Period OBVIOUS
<1> DEFINE b == [m EXCEPT !.due = due]
<1>1. /\ desk' = [desk EXCEPT !.module.due = due] /\ sent' = Post(sent, <<"prices">>, {})
      /\ UNCHANGED <<fees, licensed, blind, paid, wanted, spoiled, shaky>>
  BY <1>0 DEF ReadPrices, bankSide, ghosts
<1>2. DeskPage(desk) /\ DeskModule(m) BY DEF DeskInv, DeskShape
<1>3. desk' = [desk EXCEPT !.module = b] BY <1>1, <1>2, ThroughPage
<1>4. QuietModule(b, m) BY <1>2, ModuleFields
<1> HIDE DEF b
<1>5. desk'.feature = desk.feature BY <1>2, <1>3, PageModule
<1>6. PICK k : k = "prices" OBVIOUS
<1>7. Flying(sent') /\ Carried(sent', sent, 0, OfPage) /\ Carried(sent', sent, 0, Labours)
  BY <1>1, <1>5, <1>6, WeightyKinds, OneSent
<1>8. 0 \notin DOMAIN sent BY SequenceFacts DEF DeskInv, Flying
<1> QED BY <1>1, <1>3, <1>4, <1>7, <1>8, QuietInv

-----------------------------------------------------------------------------
(* Orders and licences. *)
LEMMA OrderSent ==
  ASSUME DeskInv, NEW k, NEW arg, desk'.feature = desk.feature, sent' = Post(sent, <<k>>, arg)
  PROVE  /\ Flying(sent') /\ Len(sent) \in Nat /\ DOMAIN sent = 1 .. Len(sent) /\ DOMAIN sent' = 1 .. (Len(sent) + 1)
         /\ \A j \in DOMAIN sent : Kin(sent'[j], sent[j])
         /\ sent'[Len(sent) + 1] = FreshCall(k, desk.feature, arg)
         /\ k \notin OfPage => Carried(sent', sent, 0, OfPage)
         /\ k \notin Labours => Carried(sent', sent, 0, Labours)
<1>0. PICK f : f = desk.feature OBVIOUS
<1> DEFINE kinds == <<k>>
           ls == PostedCalls(sent, kinds, f, arg)
           os == Overtaken(sent, Range(kinds))
<1>1. Sequence(kinds) /\ Len(kinds) = 1 /\ DOMAIN kinds = {1} /\ \A n \in DOMAIN kinds : kinds[n] = k BY ShortSequences
<1>2. f \in Features /\ Flying(sent) BY <1>0 DEF DeskInv, DeskShape
<1>3. Len(sent) \in Nat /\ DOMAIN sent = 1 .. Len(sent) BY SequenceFacts, <1>2 DEF Flying
<1> HIDE DEF kinds
<1>4. sent' = ls BY <1>0, PostIs DEF kinds
<1>5. /\ Flying(ls) /\ DOMAIN ls = 1 .. (Len(sent) + Len(kinds)) /\ \A j \in DOMAIN sent : ls[j] = os[j]
      /\ \A n \in DOMAIN kinds : ls[Len(sent) + n] = FreshCall(kinds[n], f, arg)
  BY <1>1, <1>2, PostedIs
<1>6. \A j \in DOMAIN sent : Kin(os[j], sent[j]) BY <1>2, OvertakenKept
<1>7. ASSUME k \notin OfPage PROVE Carried(ls, sent, 0, OfPage)
  <2>1. \A n \in DOMAIN kinds : kinds[n] \notin OfPage BY <1>1, <1>7
  <2> QED BY <1>1, <1>2, <2>1, PostedKept
<1>8. ASSUME k \notin Labours PROVE Carried(ls, sent, 0, Labours)
  <2>1. \A n \in DOMAIN kinds : kinds[n] \notin Labours BY <1>1, <1>8
  <2> QED BY <1>1, <1>2, <2>1, PostedKept
<1>9. ls[Len(sent) + 1] = FreshCall(k, f, arg) BY <1>1, <1>5
<1> HIDE DEF ls, os
<1> QED BY <1>0, <1>1, <1>3, <1>4, <1>5, <1>6, <1>7, <1>8, <1>9

\* An order that is given keeps the invariant,
LEMMA OrderlyInv ==
  ASSUME DeskInv, NEW kind \in Labours, NEW arg, Orderly(kind, arg), kind = "pay" => arg = desk.module.selected
  PROVE  DeskInv'
<1> DEFINE m == desk.module
           b == [m EXCEPT !.working = TRUE]
<1>0. Labours \cap OfPage = {} /\ "pay" \in Labours BY DEF Labours, OfPage
<1>1. /\ desk' = [desk EXCEPT !.module.working = TRUE] /\ sent' = Post(sent, <<kind>>, arg) /\ ~ m.working
      /\ UNCHANGED <<fees, licensed, blind, paid, wanted, spoiled, shaky>>
  BY DEF Orderly, Acts, bankSide, ghosts
<1>2. DeskPage(desk) /\ DeskModule(m) /\ desk.feature \in Features BY DEF DeskInv, DeskShape
<1>3. desk' = [desk EXCEPT !.module = b] BY <1>1, <1>2, ThroughPage
<1>4. DeskModule(b) /\ b.selected = m.selected /\ b.working BY <1>2, ModuleWorking
<1> HIDE DEF b
<1>5. /\ DeskPage(desk') /\ desk'.feature = desk.feature /\ desk'.unlocked = desk.unlocked
      /\ desk'.unlocking = desk.unlocking /\ desk'.module = b
  BY <1>2, <1>3, PageModule
<1>6. /\ Flying(sent') /\ Len(sent) \in Nat /\ DOMAIN sent = 1 .. Len(sent) /\ DOMAIN sent' = 1 .. (Len(sent) + 1)
      /\ \A j \in DOMAIN sent : Kin(sent'[j], sent[j])
      /\ sent'[Len(sent) + 1] = FreshCall(kind, desk.feature, arg) /\ Carried(sent', sent, 0, OfPage)
  BY <1>0, <1>1, <1>5, OrderSent
<1>7. DeskShape' BY <1>1, <1>2, <1>4, <1>5 DEF DeskInv, DeskShape
<1>8. LicenceKept' BY <1>1, <1>5, <1>6, LicenceStays
<1>9. PICK new : new = FreshCall(kind, desk.feature, arg) OBVIOUS
<1>10. new.kind = kind /\ new.arg = arg /\ new.stage = "sent" /\ new.here BY <1>2, <1>9, AskingProper
<1>11. \A j \in DOMAIN sent' : (j \in DOMAIN sent /\ Kin(sent'[j], sent[j])) \/ (j = Len(sent) + 1 /\ sent'[j] = new)
  BY <1>6, <1>9
<1>12. \A j \in DOMAIN sent : sent[j].kind \in Labours => ~ sent[j].here /\ sent[j].stage # "done" /\ LabourCall(sent[j])
  BY <1>1 DEF DeskInv, PayrollKept, LabourCall
<1>13. \A p : ~ Settled(p) BY <1>0, <1>12 DEF Settled, PaysFor
<1>14. \A j \in DOMAIN sent' : sent'[j].kind \in Labours =>
          /\ sent'[j].stage # "done"
          /\ (j \in DOMAIN sent /\ ~ sent'[j].here) \/ (j = Len(sent) + 1 /\ sent'[j] = new)
  BY <1>10, <1>11, <1>12 DEF Kin
<1>15. ASSUME NEW p PROVE ~ Settled(p)'
  <2>1. \A j \in DOMAIN sent' : ~ PaysFor(sent'[j], p) BY <1>0, <1>14 DEF PaysFor
  <2> QED BY <2>1 DEF Settled, PaysFor
<1>16. ASSUME NEW j \in DOMAIN sent' PROVE LabourCall(sent[j])'
  <2>1. CASE sent'[j].kind \notin Labours BY <1>0, <2>1 DEF LabourCall
  <2>2. CASE sent'[j].kind \in Labours /\ sent'[j] = new
    BY <1>0, <1>1, <1>4, <1>5, <1>10, <2>2 DEF LabourCall
  <2>3. CASE sent'[j].kind \in Labours /\ sent'[j] # new
    <3>1. j \in DOMAIN sent /\ Kin(sent'[j], sent[j]) BY <1>11, <2>3
    <3>2. LabourCall(sent[j]) /\ ~ sent[j].here BY <1>12, <2>3, <3>1 DEF Kin
    <3> QED BY <1>1, <1>4, <1>5, <3>1, <3>2 DEF LabourCall, Kin
  <2> QED BY <2>1, <2>2, <2>3
<1>17. \A p \in People \ spoiled' :
          wanted'[p] = paid'[p] + IF p \in desk'.module.selected /\ ~ Settled(p)' THEN 1 ELSE 0
  BY <1>1, <1>4, <1>5, <1>13, <1>15 DEF DeskInv, PayrollKept
<1>18. \A i, j \in DOMAIN sent' :
        sent'[i].kind \in Labours /\ sent'[j].kind \in Labours /\ sent'[i].here /\ sent'[j].here => i = j
  BY <1>14
<1>19. \A j \in DOMAIN sent' : LabourCall(sent[j])' BY <1>16
<1>20. PayrollKept' BY <1>17, <1>18, <1>19 DEF PayrollKept
<1> QED BY <1>6, <1>7, <1>8, <1>20 DEF DeskInv

\* and so do the three kinds of them.
LEMMA OrdersInv == DeskInv /\ (Trade \/ Rebalance \/ PayAll) => DeskInv'
<1> SUFFICES ASSUME DeskInv, Trade \/ Rebalance \/ PayAll PROVE DeskInv' OBVIOUS
<1>1. PICK kind, arg : kind \in Labours /\ Orderly(kind, arg) /\ (kind = "pay" => arg = desk.module.selected)
  <2>1. CASE Trade
    <3>1. "trade" \in Labours /\ Orderly("trade", {}) BY <2>1 DEF Trade, Labours
    <3> QED BY <3>1
  <2>2. CASE Rebalance
    <3>1. "rebalance" \in Labours /\ Orderly("rebalance", {}) BY <2>2 DEF Rebalance, Labours
    <3> QED BY <3>1
  <2>3. CASE PayAll
    <3>1. "pay" \in Labours /\ Orderly("pay", desk.module.selected) BY <2>3 DEF PayAll, Labours
    <3> QED BY <3>1
  <2> QED BY <2>1, <2>2, <2>3
<1> QED BY <1>1, OrderlyInv

\* Unlock keeps the invariant.
LEMMA UnlockInv == DeskInv /\ Unlock => DeskInv'
<1> SUFFICES ASSUME DeskInv, Unlock PROVE DeskInv' OBVIOUS
<1> DEFINE f == desk.feature
<1>0. "unlock" \in OfPage /\ "unlock" \notin Labours BY DEF Labours, OfPage
<1>1. /\ desk' = [desk EXCEPT !.unlocking = TRUE] /\ sent' = Post(sent, <<"unlock">>, {}) /\ ~ desk.unlocking
      /\ UNCHANGED <<fees, licensed, paid, wanted, spoiled, shaky>> /\ ~ desk.unlocked
      /\ blind \subseteq blind' /\ (desk.feature \in blind' \/
           ("licence" \notin shaky /\ ~ \E c \in Range(sent) : c.kind = "status"))
      /\ blind' \subseteq blind \cup {desk.feature}
  BY DEF Unlock, Acts, bankSide
<1>2. DeskPage(desk) /\ DeskModule(desk.module) /\ desk.feature \in Features BY DEF DeskInv, DeskShape
<1>3. /\ DeskPage(desk') /\ desk'.feature = desk.feature /\ desk'.unlocked = desk.unlocked
      /\ desk'.unlocking /\ desk'.module = desk.module
  BY <1>1, <1>2, PageUnlocking
<1>4. PICK k : k = "unlock" OBVIOUS
<1>5. /\ Flying(sent') /\ Len(sent) \in Nat /\ DOMAIN sent = 1 .. Len(sent) /\ DOMAIN sent' = 1 .. (Len(sent) + 1)
      /\ \A j \in DOMAIN sent : Kin(sent'[j], sent[j])
      /\ sent'[Len(sent) + 1] = FreshCall(k, desk.feature, {}) /\ Carried(sent', sent, 0, Labours)
  BY <1>0, <1>1, <1>3, <1>4, OrderSent
<1>6. DeskShape' BY <1>1, <1>2, <1>3 DEF DeskInv, DeskShape
<1>7. 0 \notin DOMAIN sent BY <1>5
<1>8. PayrollKept' BY <1>1, <1>3, <1>5, <1>7, PayrollStays
<1>9. PICK new : new = FreshCall(k, desk.feature, {}) OBVIOUS
<1>10. new.kind = "unlock" /\ new.feature = desk.feature /\ new.stage = "sent" BY <1>2, <1>4, <1>9, AskingProper
<1>11. \A j \in DOMAIN sent' : (j \in DOMAIN sent /\ Kin(sent'[j], sent[j])) \/ (j = Len(sent) + 1 /\ sent'[j] = new)
  BY <1>5, <1>9
<1>12. \A j \in DOMAIN sent : sent[j].kind # "unlock" /\ LicenceCall(sent[j])
  BY <1>1 DEF DeskInv, LicenceKept, LicenceCall
<1>13. desk.feature \notin blind' => desk.feature \notin licensed
  <2>1. ASSUME desk.feature \notin blind' PROVE ~ \E j \in DOMAIN sent : sent[j].kind = "status" \/ Bought(sent[j])
    BY <1>1, <1>12, <2>1 DEF Bought, Range
  <2> QED BY <1>1, <2>1 DEF DeskInv, LicenceKept
<1>14. ASSUME NEW j \in DOMAIN sent' PROVE LicenceCall(sent[j])'
  <2>1. CASE sent'[j] = new
    BY <1>1, <1>3, <1>10, <1>13, <2>1 DEF LicenceCall, Bought
  <2>2. CASE sent'[j] # new
    <3>1. j \in DOMAIN sent /\ Kin(sent'[j], sent[j]) BY <1>11, <2>2
    <3>2. LicenceCall(sent[j]) /\ sent[j].kind # "unlock" BY <1>12, <3>1
    <3> QED BY <1>1, <1>3, <3>1, <3>2 DEF LicenceCall, Bought, Kin
  <2> QED BY <2>1, <2>2
<1>15. \A i, j \in DOMAIN sent' : sent'[i].kind = "unlock" /\ sent'[j].kind = "unlock" => i = j
  BY <1>11, <1>12 DEF Kin
<1>16. \A g \in Features \ blind' : fees'[g] = IF g \in licensed' THEN 1 ELSE 0
  BY <1>1 DEF DeskInv, LicenceKept
<1>17. ASSUME NEW j \in DOMAIN sent, sent[j].kind = "status" \/ Bought(sent[j])
       PROVE  \E n \in DOMAIN sent' : sent'[n].kind = "status" \/ Bought(sent'[n])
  <2>1. j \in DOMAIN sent' /\ Kin(sent'[j], sent[j]) BY <1>5
  <2> QED BY <1>17, <2>1 DEF Bought, Kin
<1>18. "licence" \in shaky' \/ (\E j \in DOMAIN sent' : sent'[j].kind = "status" \/ Bought(sent'[j]))
       \/ (desk'.unlocked <=> desk'.feature \in licensed')
  BY <1>1, <1>3, <1>17 DEF DeskInv, LicenceKept
<1>19. \A j \in DOMAIN sent' : LicenceCall(sent[j])' BY <1>14
<1>20. LicenceKept' BY <1>15, <1>16, <1>18, <1>19 DEF LicenceKept, Bought
<1> QED BY <1>5, <1>6, <1>8, <1>20 DEF DeskInv

\* What a handler makes of the calls in flight: the one at i becomes d, or is gone with its page.
Handles(i, d) ==
  /\ Flying(sent')
  /\ IF sent[i].here
     THEN /\ DOMAIN sent' = DOMAIN sent /\ sent'[i] = d
          /\ \A j \in DOMAIN sent \ {i} : Kin(sent'[j], sent[j])
     ELSE Carried(sent', sent, i, OfPage) /\ Carried(sent', sent, i, Labours)

\* A handler's answer replaces its own call.
LEMMA PutHandles ==
  ASSUME DeskInv, NEW i \in DOMAIN sent, NEW ok, NEW value, NEW number,
         NEW d, d = Replied(sent[i], ok, value, number), sent' = Put(i, d)
  PROVE  Handles(i, d)
<1>1. Flying(sent) /\ Proper(sent[i]) BY DEF DeskInv, Flying
<1>2. Proper(d) /\ d.here = sent[i].here BY <1>1, RepliedProper
<1>3. CASE ~ sent[i].here
  <2>1. sent' = RemoveAt(sent, i) BY <1>2, <1>3 DEF Put
  <2>2. Flying(RemoveAt(sent, i)) /\ Carried(RemoveAt(sent, i), sent, i, OfPage) BY <1>1, WithoutKept
  <2>3. Carried(RemoveAt(sent, i), sent, i, Labours) BY <1>1, WithoutKept
  <2> QED BY <1>3, <2>1, <2>2, <2>3 DEF Handles
<1>4. CASE sent[i].here
  <2> DEFINE ls == [sent EXCEPT ![i] = d]
  <2>1. sent' = ls BY <1>2, <1>4 DEF Put
  <2>2. Len(sent) \in Nat /\ DOMAIN sent = 1 .. Len(sent) BY <1>1, SequenceFacts DEF Flying
  <2>3. DOMAIN ls = 1 .. Len(sent) /\ ls = [j \in 1 .. Len(sent) |-> ls[j]] BY <2>2
  <2>4. \A j \in DOMAIN sent : ls[j] = IF j = i THEN d ELSE sent[j] OBVIOUS
  <2> HIDE DEF ls
  <2>5. Sequence(ls) BY <2>2, <2>3, SequenceMade
  <2>6. Flying(ls) BY <1>1, <1>2, <2>2, <2>3, <2>4, <2>5 DEF Flying
  <2>7. ls[i] = d /\ \A j \in DOMAIN sent \ {i} : Kin(ls[j], sent[j]) BY <2>4 DEF Kin
  <2> QED BY <1>4, <2>1, <2>2, <2>3, <2>6, <2>7 DEF Handles
<1> QED BY <1>3, <1>4

\* So does the answer of one that changed something, which makes readings of it old.
LEMMA ChangedHandles ==
  ASSUME DeskInv, NEW i \in DOMAIN sent, Changed(i),
         NEW d, d = Replied(sent[i], TRUE, {}, Nothing), Proper(d), d.here = sent[i].here
  PROVE  /\ Handles(i, d)
         /\ sent[i].here => \A j \in DOMAIN sent \ {i} :
              sent[j].stage = "done" /\ sent[j].kind = "status" /\ sent[i].kind = "unlock"
                /\ sent[j].feature = sent[i].feature => ~ sent'[j].newest
<1>1. Flying(sent) /\ Proper(sent[i]) BY DEF DeskInv, Flying
<1> DEFINE c == sent[i]
           old(e) == /\ e.stage = "done" /\ e.kind \in Reading /\ About(e.kind) \in Changes(c.kind)
                     /\ e.kind = "status" => e.feature = c.feature
           marked == [j \in DOMAIN sent |-> [sent[j] EXCEPT !.newest = @ /\ ~ old(sent[j])]]
<1>3. sent' = IF c.here THEN [marked EXCEPT ![i] = d] ELSE RemoveAt(marked, i) BY DEF Changed
<1>4. Len(sent) \in Nat /\ DOMAIN sent = 1 .. Len(sent) BY <1>1, SequenceFacts DEF Flying
<1>5. DOMAIN marked = DOMAIN sent /\ marked = [j \in DOMAIN sent |-> marked[j]] OBVIOUS
<1>6. ASSUME NEW j \in DOMAIN sent
      PROVE  Proper(marked[j]) /\ Kin(marked[j], sent[j]) /\ (old(sent[j]) => ~ marked[j].newest)
  <2> DEFINE e == sent[j]
  <2>1. Proper(e) BY <1>1 DEF Flying
  <2> HIDE DEF old
  <2>2. marked[j] = [e EXCEPT !.newest = @ /\ ~ old(e)] OBVIOUS
  <2> HIDE DEF e, marked
  <2>3. ASSUME NEW b, NEW n, n = [e EXCEPT !.newest = @ /\ ~ b] PROVE Proper(n) /\ Kin(n, e) /\ (b => ~ n.newest)
    <3>1. n = [kind |-> e.kind, feature |-> e.feature, arg |-> e.arg, stage |-> e.stage, ok |-> e.ok,
               value |-> e.value, number |-> e.number, here |-> e.here, newest |-> e.newest /\ ~ b, at |-> e.at]
      BY <2>1, <2>3 DEF Proper, DeskCall
    <3> QED BY <2>1, <3>1 DEF Proper, Kin, DeskCall
  <2>4. PICK b : b = old(e) OBVIOUS
  <2>5. marked[j] = [e EXCEPT !.newest = @ /\ ~ b] BY <2>2, <2>4
  <2>6. Proper(marked[j]) /\ Kin(marked[j], e) /\ (b => ~ marked[j].newest) BY <2>3, <2>5
  <2> QED BY <2>4, <2>6 DEF e
<1>7. \A j \in DOMAIN sent : sent[j].stage = "done" /\ sent[j].kind = "status" /\ c.kind = "unlock"
                             /\ sent[j].feature = c.feature => old(sent[j])
  BY DEF Reading, About, Changes
<1> HIDE DEF marked, old
<1>8. Flying(marked) /\ Carried(marked, sent, 0, OfPage) /\ Carried(marked, sent, 0, Labours)
  BY <1>1, <1>5, <1>6, MarkedKept DEF Kin
<1>9. CASE ~ c.here
  <2>1. sent' = RemoveAt(marked, i) /\ i \in DOMAIN marked BY <1>3, <1>5, <1>9
  <2>2. Flying(sent') /\ Carried(sent', marked, i, OfPage) /\ Carried(sent', marked, i, Labours)
    BY <1>8, <2>1, WithoutKept
  <2>3. ASSUME NEW K, Carried(sent', marked, i, K) PROVE Carried(sent', sent, i, K)
    <3>1. PICK f \in [DOMAIN sent' -> DOMAIN marked \cup {0}] :
         /\ \A n \in DOMAIN sent' : sent'[n].kind \in K => f[n] \in DOMAIN marked \ {i} /\ Kin(sent'[n], marked[f[n]])
         /\ \A m, n \in DOMAIN sent' : sent'[m].kind \in K /\ sent'[n].kind \in K /\ f[m] = f[n] => m = n
         /\ \A k \in DOMAIN marked \ {i} : marked[k].kind \in K => \E n \in DOMAIN sent' : sent'[n].kind \in K /\ f[n] = k
      BY <2>3 DEF Carried
    <3>2. \A n \in DOMAIN sent' : sent'[n].kind \in K => f[n] \in DOMAIN sent \ {i} /\ Kin(sent'[n], sent[f[n]])
      BY <1>5, <1>6, <3>1 DEF Kin
    <3>3. \A k \in DOMAIN sent \ {i} : sent[k].kind \in K => \E n \in DOMAIN sent' : sent'[n].kind \in K /\ f[n] = k
      BY <1>5, <1>6, <3>1 DEF Kin
    <3>4. f \in [DOMAIN sent' -> DOMAIN sent \cup {0}] BY <1>5
    <3> QED BY <3>1, <3>2, <3>3, <3>4 DEF Carried
  <2> QED BY <1>9, <2>2, <2>3 DEF Handles
<1>10. CASE c.here
  <2> DEFINE ls == [marked EXCEPT ![i] = d]
  <2>1. sent' = ls BY <1>3, <1>10
  <2>2. DOMAIN ls = 1 .. Len(sent) /\ ls = [j \in 1 .. Len(sent) |-> ls[j]] BY <1>4, <1>5
  <2>3. \A j \in DOMAIN sent : ls[j] = IF j = i THEN d ELSE marked[j] BY <1>5
  <2> HIDE DEF ls
  <2>4. Sequence(ls) BY <1>4, <2>2, SequenceMade
  <2>5. Flying(ls) BY <1>4, <1>6, <2>2, <2>3, <2>4 DEF Flying
  <2>6. ls[i] = d /\ \A j \in DOMAIN sent \ {i} : Kin(ls[j], sent[j]) BY <1>6, <2>3
  <2>7. \A j \in DOMAIN sent \ {i} : sent[j].stage = "done" /\ sent[j].kind = "status" /\ c.kind = "unlock"
          /\ sent[j].feature = c.feature => ~ ls[j].newest
    BY <1>6, <1>7, <2>3
  <2> QED BY <1>4, <1>10, <2>1, <2>2, <2>5, <2>6, <2>7 DEF Handles
<1> QED BY <1>9, <1>10

\* A handler of another kind carries the calls of the licence, or the orders.
LEMMA HandledBeside ==
  ASSUME DeskInv, NEW i \in DOMAIN sent, NEW d, Handles(i, d), d.kind = sent[i].kind,
         NEW K, sent[i].kind \notin K, K \in {OfPage, Labours}
  PROVE  Carried(sent', sent, 0, K)
<1>1. Flying(sent) /\ 0 \notin DOMAIN sent BY SequenceFacts DEF DeskInv, Flying
<1>2. CASE ~ sent[i].here
  <2>1. Carried(sent', sent, i, K) BY <1>2 DEF Handles
  <2> QED BY <1>1, <2>1, NoneMissed
<1>3. CASE sent[i].here
  <2>1. PICK ls : ls = sent' OBVIOUS
  <2>2. /\ Flying(ls) /\ DOMAIN ls = DOMAIN sent /\ ls[i] = d
        /\ \A j \in DOMAIN sent \ {i} : Kin(ls[j], sent[j])
    BY <1>3, <2>1 DEF Handles
  <2>3. ls = [j \in DOMAIN sent |-> ls[j]] BY <2>2, SequenceFacts DEF Flying
  <2>4. \A j \in DOMAIN sent : Proper(ls[j]) /\ ls[j].kind = sent[j].kind /\ (sent[j].kind \in K => Kin(ls[j], sent[j]))
    BY <2>2 DEF Flying, Kin
  <2>5. Carried(ls, sent, 0, K) BY <1>1, <2>2, <2>3, <2>4, MarkedKept
  <2> QED BY <2>1, <2>5
<1> QED BY <1>2, <1>3

\* The licence is told, or an order for it is declined or fails.
LEMMA LicenceHandled ==
  ASSUME DeskInv, NEW i \in DOMAIN sent, sent[i].kind \in OfPage, sent[i].stage = "sent",
         NEW d, d.kind = sent[i].kind, d.feature = sent[i].feature, d.newest = sent[i].newest, d.stage = "done",
         d.ok => d.kind = "status" /\ d.value = licensed, Handles(i, d),
         UNCHANGED <<desk, fees, licensed, blind, paid, wanted, spoiled, shaky>>
  PROVE  DeskInv'
<1>1. OfPage = {"status", "unlock"} /\ Labours = {"trade", "rebalance", "pay"} BY DEF OfPage, Labours
<1>2. Flying(sent) /\ 0 \notin DOMAIN sent /\ sent[i].here
  BY SequenceFacts DEF DeskInv, Flying, Proper
<1>3. Flying(sent') /\ DOMAIN sent' = DOMAIN sent /\ sent'[i] = d /\ \A j \in DOMAIN sent \ {i} : Kin(sent'[j], sent[j])
  BY <1>2 DEF Handles
<1>4. DeskShape' BY DEF DeskInv, DeskShape
<1>5. Carried(sent', sent, 0, Labours) BY <1>1, HandledBeside
<1>6. PayrollKept' BY <1>2, <1>5, PayrollStays
<1>7. LicenceCall(sent[i]) /\ \A j \in DOMAIN sent : LicenceCall(sent[j]) BY DEF DeskInv, LicenceKept
<1>8. ASSUME NEW j \in DOMAIN sent' PROVE LicenceCall(sent[j])'
  <2>1. CASE j = i BY <1>1, <1>3, <1>7, <2>1 DEF LicenceCall, Bought
  <2>2. CASE j # i
    <3>1. Kin(sent'[j], sent[j]) /\ LicenceCall(sent[j]) BY <1>3, <1>7, <2>2
    <3> QED BY <3>1 DEF LicenceCall, Bought, Kin
  <2> QED BY <2>1, <2>2
<1>9. \A j \in DOMAIN sent : sent'[j].kind = sent[j].kind BY <1>3 DEF Kin
<1>10. \A m, n \in DOMAIN sent' : sent'[m].kind = "unlock" /\ sent'[n].kind = "unlock" => m = n
  BY <1>3, <1>9 DEF DeskInv, LicenceKept
<1>11. ASSUME NEW j \in DOMAIN sent, sent[j].kind = "status" \/ Bought(sent[j])
       PROVE  sent'[j].kind = "status" \/ Bought(sent'[j])
  <2>1. CASE j = i BY <1>9, <1>11, <2>1 DEF Bought
  <2>2. CASE j # i
    <3>1. Kin(sent'[j], sent[j]) BY <1>3, <2>2
    <3> QED BY <1>11, <3>1 DEF Bought, Kin
  <2> QED BY <2>1, <2>2
<1>12. "licence" \in shaky' \/ (\E j \in DOMAIN sent' : sent'[j].kind = "status" \/ Bought(sent'[j]))
       \/ (desk'.unlocked <=> desk'.feature \in licensed')
  BY <1>3, <1>11 DEF DeskInv, LicenceKept
<1>13. \A j \in DOMAIN sent' : LicenceCall(sent[j])' BY <1>8
<1>14. \A g \in Features \ blind' : fees'[g] = IF g \in licensed' THEN 1 ELSE 0 BY DEF DeskInv, LicenceKept
<1>15. LicenceKept' BY <1>10, <1>12, <1>13, <1>14 DEF LicenceKept, Bought
<1> QED BY <1>3, <1>4, <1>6, <1>15 DEF DeskInv

\* An order is done, declined or fails.
LEMMA LabourHandled ==
  ASSUME DeskInv, NEW i \in DOMAIN sent, sent[i].kind \in Labours, sent[i].stage = "sent",
         NEW d, d.kind = sent[i].kind, d.arg = sent[i].arg, d.here = sent[i].here, d.stage = "done", Handles(i, d),
         UNCHANGED <<desk, fees, licensed, blind, wanted, spoiled>>, "licence" \in shaky => "licence" \in shaky',
         IF d.kind = "pay" /\ d.ok
         THEN paid' = [p \in People |-> IF p \in d.arg THEN paid[p] + 1 ELSE paid[p]]
         ELSE paid' = paid
  PROVE  DeskInv'
<1>1. OfPage = {"status", "unlock"} /\ Labours = {"trade", "rebalance", "pay"} BY DEF OfPage, Labours
<1>2. Flying(sent) /\ Flying(sent') BY DEF DeskInv, Handles
<1>3. Carried(sent', sent, 0, OfPage) BY <1>1, HandledBeside
<1>4. LicenceKept' BY <1>3, LicenceStays
<1>5. DeskShape' BY DEF DeskInv, DeskShape
<1>6. \A p \in People : paid[p] \in Int /\ wanted[p] \in Int BY DEF DeskInv, DeskShape
<1>7. \A j \in DOMAIN sent : LabourCall(sent[j]) BY DEF DeskInv, PayrollKept
<1>8. CASE ~ sent[i].here
  <2>1. Carried(sent', sent, i, Labours) BY <1>8 DEF Handles
  <2>2. d.kind = "pay" => d.arg \subseteq spoiled BY <1>7, <1>8 DEF LabourCall
  <2>3. \A p \in People \ spoiled' : paid'[p] = paid[p] BY <2>2
  <2>4. PayrollKept' BY <2>1, <2>3, PayrollStays
  <2> QED BY <1>2, <1>4, <1>5, <2>4 DEF DeskInv
<1>9. CASE sent[i].here
  <2>1. DOMAIN sent' = DOMAIN sent /\ sent'[i] = d /\ \A j \in DOMAIN sent \ {i} : Kin(sent'[j], sent[j])
    BY <1>9 DEF Handles
  <2>2. \A j \in DOMAIN sent \ {i} : sent[j].kind \in Labours => ~ sent[j].here /\ sent[j].stage # "done"
    BY <1>7, <1>9 DEF DeskInv, PayrollKept, LabourCall
  <2>3. \A p : ~ Settled(p) BY <1>1, <2>2 DEF Settled, PaysFor
  <2>4. ASSUME NEW p PROVE Settled(p)' <=> PaysFor(d, p)
    <3>1. \A j \in DOMAIN sent \ {i} : ~ PaysFor(sent'[j], p) BY <1>1, <2>1, <2>2 DEF PaysFor, Kin
    <3>2. (\E j \in DOMAIN sent' : PaysFor(sent'[j], p)) <=> PaysFor(d, p) BY <2>1, <3>1
    <3> QED BY <3>2 DEF Settled, PaysFor
  <2>5. LabourCall(sent[i]) BY <1>7
  <2>6. ASSUME NEW p \in People \ spoiled'
        PROVE  wanted'[p] = paid'[p] + IF p \in desk'.module.selected /\ ~ Settled(p)' THEN 1 ELSE 0
    <3>1. wanted[p] = paid[p] + IF p \in desk.module.selected THEN 1 ELSE 0
      BY <2>3, <2>6 DEF DeskInv, PayrollKept
    <3>2. CASE d.kind = "pay" /\ d.ok
      <4>1. p \in desk.module.selected <=> p \in d.arg BY <1>9, <2>5, <2>6, <3>2 DEF LabourCall
      <4>2. Settled(p)' <=> p \in d.arg BY <2>4, <3>2 DEF PaysFor
      <4>3. paid'[p] = IF p \in d.arg THEN paid[p] + 1 ELSE paid[p] BY <3>2
      <4> QED BY <1>6, <3>1, <4>1, <4>2, <4>3
    <3>3. CASE ~ (d.kind = "pay" /\ d.ok)
      <4>1. ~ Settled(p)' /\ paid' = paid BY <2>4, <3>3 DEF PaysFor
      <4> QED BY <3>1, <4>1
    <3> QED BY <3>2, <3>3
  <2>7. ASSUME NEW j \in DOMAIN sent' PROVE LabourCall(sent[j])'
    <3>1. CASE j = i BY <1>9, <2>1, <2>5, <3>1 DEF LabourCall
    <3>2. CASE j # i
      <4>1. Kin(sent'[j], sent[j]) /\ LabourCall(sent[j]) BY <1>7, <2>1, <3>2
      <4> QED BY <4>1 DEF LabourCall, Kin
    <3> QED BY <3>1, <3>2
  <2>8. \A m, n \in DOMAIN sent' :
          sent'[m].kind \in Labours /\ sent'[n].kind \in Labours /\ sent'[m].here /\ sent'[n].here => m = n
    BY <2>1, <2>2 DEF Kin
  <2>9. \A j \in DOMAIN sent' : LabourCall(sent[j])' BY <2>7
  <2>10. PayrollKept' BY <2>6, <2>8, <2>9 DEF PayrollKept
  <2> QED BY <1>2, <1>4, <1>5, <2>10 DEF DeskInv
<1> QED BY <1>8, <1>9

\* A request that is declined, or whose query fails.
LEMMA DeclinedInv ==
  ASSUME DeskInv, NEW i \in DOMAIN sent, sent[i].stage = "sent", sent' = Put(i, Replied(sent[i], FALSE, {}, Nothing)),
         UNCHANGED <<desk, fees, licensed, paid, blind, wanted, spoiled, shaky>>
  PROVE  DeskInv'
<1>0. PICK ok, value, number : ok = FALSE /\ value = {} /\ number = Nothing OBVIOUS
<1>1. PICK d : d = Replied(sent[i], ok, value, number) OBVIOUS
<1>2. Proper(sent[i]) BY DEF DeskInv, Flying
<1>3. /\ d.kind = sent[i].kind /\ d.feature = sent[i].feature /\ d.arg = sent[i].arg /\ d.here = sent[i].here
      /\ d.newest = sent[i].newest /\ d.stage = "done" /\ d.ok = ok
  BY <1>1, <1>2, RepliedProper
<1>4. ~ d.ok BY <1>0, <1>3
<1>5. sent' = Put(i, Replied(sent[i], ok, value, number)) BY <1>0
<1>6. sent' = Put(i, d) BY <1>1, <1>5
<1>7. Handles(i, d) BY <1>1, <1>6, PutHandles
<1>8. CASE sent[i].kind \notin Weighty BY <1>5, <1>8, ToldInv
<1>9. CASE sent[i].kind \in OfPage BY <1>3, <1>4, <1>7, <1>9, LicenceHandled
<1>10. CASE sent[i].kind \in Labours
  <2>1. IF d.kind = "pay" /\ d.ok
        THEN paid' = [p \in People |-> IF p \in d.arg THEN paid[p] + 1 ELSE paid[p]]
        ELSE paid' = paid
    BY <1>4
  <2> QED BY <1>3, <1>7, <1>10, <2>1, LabourHandled
<1> QED BY <1>8, <1>9, <1>10 DEF Weighty

\* QueryFails keeps the invariant.
LEMMA QueryFailsInv ==
  ASSUME DeskInv, NEW i \in DOMAIN sent, QueryFails(i)
  PROVE  DeskInv'
<1>1. /\ sent[i].stage = "sent" /\ sent' = Put(i, Replied(sent[i], FALSE, {}, Nothing))
      /\ UNCHANGED <<desk, fees, licensed, paid, blind, wanted, spoiled, shaky>>
  BY DEF QueryFails, Asked, Fault, bankSide
<1> QED BY <1>1, DeclinedInv

\* ServeStatus keeps the invariant.
LEMMA ServeStatusInv ==
  ASSUME DeskInv, NEW i \in DOMAIN sent, ServeStatus(i)
  PROVE  DeskInv'
<1>0. PICK ok, number : ok = TRUE /\ number = Nothing OBVIOUS
<1>1. PICK d : d = Replied(sent[i], ok, licensed, number) OBVIOUS
<1>2. Proper(sent[i]) BY DEF DeskInv, Flying
<1>3. /\ d.kind = sent[i].kind /\ d.feature = sent[i].feature /\ d.newest = sent[i].newest
      /\ d.stage = "done" /\ d.value = licensed
  BY <1>1, <1>2, RepliedProper
<1>4. /\ sent[i].kind = "status" /\ sent[i].stage = "sent" /\ sent' = Put(i, Replied(sent[i], ok, licensed, number))
      /\ UNCHANGED <<desk, fees, licensed, blind, paid, wanted, spoiled, shaky>>
  BY <1>0 DEF ServeStatus, Asked, Tells, Handling, bankSide
<1>5. sent' = Put(i, d) BY <1>1, <1>4
<1>6. Handles(i, d) BY <1>1, <1>5, PutHandles
<1>7. sent[i].kind \in OfPage BY <1>4 DEF OfPage
<1>8. d.ok => d.kind = "status" /\ d.value = licensed BY <1>3, <1>4
<1> QED BY <1>3, <1>4, <1>6, <1>7, <1>8, LicenceHandled

\* An order that is carried out: what a handler changed is marked where it was read.
LEMMA DoneIs ==
  ASSUME DeskInv, NEW i \in DOMAIN sent, Changed(i)
  PROVE  \E d : /\ d.kind = sent[i].kind /\ d.feature = sent[i].feature /\ d.arg = sent[i].arg /\ d.here = sent[i].here
                /\ d.stage = "done" /\ d.ok /\ Handles(i, d)
                /\ sent[i].here => \A j \in DOMAIN sent \ {i} :
                     sent[j].stage = "done" /\ sent[j].kind = "status" /\ sent[i].kind = "unlock"
                       /\ sent[j].feature = sent[i].feature => ~ sent'[j].newest
<1>0. PICK ok, value, number : ok = TRUE /\ value = {} /\ number = Nothing OBVIOUS
<1>1. PICK d : d = Replied(sent[i], ok, value, number) OBVIOUS
<1>2. Proper(sent[i]) BY DEF DeskInv, Flying
<1>3. /\ Proper(d) /\ d.kind = sent[i].kind /\ d.feature = sent[i].feature /\ d.arg = sent[i].arg /\ d.here = sent[i].here
      /\ d.stage = "done" /\ d.ok = ok
  BY <1>1, <1>2, RepliedProper
<1>4. d = Replied(sent[i], TRUE, {}, Nothing) BY <1>0, <1>1
<1>5. d.ok BY <1>0, <1>3
<1>6. Handles(i, d) /\ (sent[i].here => \A j \in DOMAIN sent \ {i} :
         sent[j].stage = "done" /\ sent[j].kind = "status" /\ sent[i].kind = "unlock"
           /\ sent[j].feature = sent[i].feature => ~ sent'[j].newest)
  BY <1>3, <1>4, ChangedHandles
<1> QED BY <1>3, <1>5, <1>6

\* The handlers of orders keep the invariant.
LEMMA ServeOrderInv ==
  ASSUME DeskInv, NEW i \in DOMAIN sent, ServeTrade(i) \/ ServeRebalance(i) \/ ServePayroll(i)
  PROVE  DeskInv'
<1>1. /\ sent[i].stage = "sent" /\ sent[i].kind \in Labours
      /\ UNCHANGED <<desk, fees, licensed, blind, wanted, spoiled>>
  BY DEF ServeTrade, ServeRebalance, ServePayroll, Asked, Declines, Changed, Handling, bankSide, Labours
<1>2. CASE Declines(i)
  BY <1>1, <1>2, DeclinedInv DEF Declines, Handling, bankSide
<1>3. CASE ~ Declines(i)
  <2>1. Changed(i) BY <1>3 DEF ServeTrade, ServeRebalance, ServePayroll
  <2>2. PICK d : d.kind = sent[i].kind /\ d.arg = sent[i].arg /\ d.here = sent[i].here
                 /\ d.stage = "done" /\ d.ok /\ Handles(i, d)
    BY <2>1, DoneIs
  <2>3. IF d.kind = "pay" /\ d.ok
        THEN paid' = [p \in People |-> IF p \in d.arg THEN paid[p] + 1 ELSE paid[p]]
        ELSE paid' = paid
    BY <1>3, <2>2 DEF ServeTrade, ServeRebalance, ServePayroll, Asked
  <2>4. "licence" \in shaky => "licence" \in shaky'
    <3>1. Changes(sent[i].kind) = {"worth"} /\ Follows(sent[i].kind) \subseteq {"worth"}
      BY <1>1 DEF Labours, Changes, Follows
    <3>2. shaky \subseteq shaky' BY <2>1 DEF Changed
    <3> QED BY <3>2
  <2> QED BY <1>1, <2>2, <2>3, <2>4, LabourHandled
<1> QED BY <1>2, <1>3

\* ServeUnlock keeps the invariant.
LEMMA ServeUnlockInv ==
  ASSUME DeskInv, NEW i \in DOMAIN sent, ServeUnlock(i)
  PROVE  DeskInv'
<1>1. sent[i].stage = "sent" /\ sent[i].kind = "unlock" /\ UNCHANGED <<desk, blind, wanted, spoiled, paid>>
  BY DEF ServeUnlock, Asked, Declines, Changed, Handling, bankSide
<1>2. CASE Declines(i)
  BY <1>1, <1>2, DeclinedInv DEF Declines, Handling, bankSide
<1>3. CASE ~ Declines(i)
  <2> DEFINE f == sent[i].feature
  <2>1. Changed(i) /\ licensed' = licensed \cup {f} /\ fees' = [fees EXCEPT ![f] = @ + 1]
    BY <1>3 DEF ServeUnlock
  <2>2. PICK d : /\ d.kind = sent[i].kind /\ d.feature = sent[i].feature /\ d.arg = sent[i].arg /\ d.here = sent[i].here
                 /\ d.stage = "done" /\ d.ok /\ Handles(i, d)
                 /\ sent[i].here => \A j \in DOMAIN sent \ {i} :
                     sent[j].stage = "done" /\ sent[j].kind = "status" /\ sent[i].kind = "unlock"
                       /\ sent[j].feature = sent[i].feature => ~ sent'[j].newest
    BY <2>1, DoneIs
  <2>3. Flying(sent) /\ 0 \notin DOMAIN sent /\ Proper(sent[i]) /\ sent[i].here
    BY <1>1, SequenceFacts DEF DeskInv, Flying, Proper, OfPage
  <2>4. Flying(sent') /\ DOMAIN sent' = DOMAIN sent /\ sent'[i] = d /\ \A j \in DOMAIN sent \ {i} : Kin(sent'[j], sent[j])
    BY <2>2, <2>3 DEF Handles
  <2>5. sent[i].kind \notin Labours BY <1>1 DEF Labours
  <2>6. Carried(sent', sent, 0, Labours) BY <2>2, <2>5, HandledBeside
  <2>7. PayrollKept' BY <1>1, <2>3, <2>6, PayrollStays
  <2>8. f \in Features BY <2>3 DEF Proper
  <2>9. fees = [g \in Features |-> fees[g]] BY DEF DeskInv, DeskShape
  <2>10. fees' = [g \in Features |-> fees'[g]] /\ \A g \in Features : fees'[g] = IF g = f THEN fees[f] + 1 ELSE fees[g]
    BY <2>1, <2>8, <2>9
  <2>11. DeskShape' BY <1>1, <2>10 DEF DeskInv, DeskShape
  <2>12. \A j \in DOMAIN sent : LicenceCall(sent[j]) /\ (sent[j].kind = "unlock" => j = i)
    BY <1>1 DEF DeskInv, LicenceKept
  <2>13. f \notin blind => f \notin licensed BY <1>1, <2>12 DEF LicenceCall
  <2>14. \A g \in Features \ blind' : fees'[g] = IF g \in licensed' THEN 1 ELSE 0
    <3>1. \A g \in Features \ blind : fees[g] = IF g \in licensed THEN 1 ELSE 0 BY DEF DeskInv, LicenceKept
    <3> QED BY <1>1, <2>1, <2>8, <2>10, <2>13, <3>1
  <2>15. ASSUME NEW j \in DOMAIN sent' PROVE LicenceCall(sent[j])'
    <3>1. CASE j = i
      <4>1. sent'[j] = d /\ d.kind = "unlock" /\ d.stage = "done" /\ d.feature \in licensed' /\ desk'.unlocking
        BY <1>1, <2>1, <2>2, <2>4, <2>12, <3>1 DEF LicenceCall
      <4> QED BY <4>1 DEF LicenceCall, Bought
    <3>2. CASE j # i
      <4>1. Kin(sent'[j], sent[j]) /\ LicenceCall(sent[j]) /\ sent[j].kind # "unlock" BY <2>4, <2>12, <3>2
      <4>2. sent[j].stage = "done" /\ sent[j].kind = "status" /\ sent[j].feature = f => ~ sent'[j].newest
        BY <1>1, <2>2, <2>3, <2>4, <3>2
      <4> QED BY <1>1, <2>1, <4>1, <4>2 DEF LicenceCall, Bought, Kin
    <3> QED BY <3>1, <3>2
  <2>16. \A m, n \in DOMAIN sent' : sent'[m].kind = "unlock" /\ sent'[n].kind = "unlock" => m = n
    BY <2>4, <2>12 DEF Kin
  <2>17. i \in DOMAIN sent' /\ Bought(sent'[i]) BY <1>1, <2>2, <2>4 DEF Bought
  <2>18. \A j \in DOMAIN sent' : LicenceCall(sent[j])' BY <2>15
  <2>19. LicenceKept' BY <2>14, <2>16, <2>17, <2>18 DEF LicenceKept, Bought
  <2> QED BY <2>4, <2>7, <2>11, <2>19 DEF DeskInv
<1> QED BY <1>2, <1>3

\* A call whose answer is lost is proper.
LEMMA LostProper ==
  ASSUME NEW c, Proper(c), NEW no, no = FALSE, NEW e, e = [c EXCEPT !.ok = no]
  PROVE  /\ Proper(e) /\ e.kind = c.kind /\ e.feature = c.feature /\ e.arg = c.arg /\ e.stage = c.stage /\ ~ e.ok
         /\ e.here = c.here /\ e.newest = c.newest
<1>1. e = [kind |-> c.kind, feature |-> c.feature, arg |-> c.arg, stage |-> c.stage, ok |-> no,
           value |-> c.value, number |-> c.number, here |-> c.here, newest |-> c.newest, at |-> c.at]
  BY DEF Proper, DeskCall
<1> QED BY <1>1 DEF Proper, DeskCall

\* AnswerLost keeps the invariant.
LEMMA AnswerLostInv ==
  ASSUME DeskInv, NEW i \in DOMAIN sent, AnswerLost(i)
  PROVE  DeskInv'
<1> DEFINE c == sent[i]
           e == [c EXCEPT !.ok = FALSE]
<1>1. /\ sent' = [sent EXCEPT ![i] = e] /\ c.stage = "done" /\ c.ok
      /\ UNCHANGED <<desk, blind, wanted, fees, licensed, paid>>
      /\ shaky' = shaky \cup Changes(c.kind)
      /\ spoiled' = IF c.kind = "pay" THEN spoiled \cup c.arg ELSE spoiled
  BY DEF AnswerLost, Fault, bankSide
<1>2. Flying(sent) /\ Proper(c) BY DEF DeskInv, Flying
<1> HIDE DEF c
<1>4. /\ Proper(e) /\ e.kind = c.kind /\ e.feature = c.feature /\ e.arg = c.arg /\ e.stage = c.stage /\ ~ e.ok
      /\ e.here = c.here /\ e.newest = c.newest
  BY <1>2, LostProper
<1> HIDE DEF e
<1>5. /\ Len(sent) \in Nat /\ DOMAIN sent = 1 .. Len(sent) /\ DOMAIN sent' = DOMAIN sent
      /\ sent' = [j \in 1 .. Len(sent) |-> sent'[j]]
      /\ \A j \in DOMAIN sent : sent'[j] = IF j = i THEN e ELSE sent[j]
  BY <1>1, <1>2, SequenceFacts DEF Flying
<1>6. Flying(sent')
  <2>1. PICK ls : ls = sent' OBVIOUS
  <2>2. Sequence(ls) BY <1>5, <2>1, SequenceMade
  <2>3. \A j \in DOMAIN ls : Proper(ls[j]) BY <1>2, <1>4, <1>5, <2>1 DEF Flying
  <2> QED BY <2>1, <2>2, <2>3 DEF Flying
<1>7. DeskShape' BY <1>1 DEF DeskInv, DeskShape
<1>8. \A j \in DOMAIN sent : LicenceCall(sent[j]) /\ LabourCall(sent[j]) BY DEF DeskInv, LicenceKept, PayrollKept
<1>9. LicenceKept'
  <2>1. ASSUME NEW j \in DOMAIN sent' PROVE LicenceCall(sent[j])'
    <3>1. LicenceCall(sent[j]) /\ LicenceCall(c) BY <1>5, <1>8 DEF c
    <3>2. CASE j = i BY <1>1, <1>4, <1>5, <3>1, <3>2 DEF LicenceCall, Bought
    <3>3. CASE j # i BY <1>1, <1>5, <3>1, <3>3 DEF LicenceCall, Bought
    <3> QED BY <3>2, <3>3
  <2>2. \A m, n \in DOMAIN sent' : sent'[m].kind = "unlock" /\ sent'[n].kind = "unlock" => m = n
    BY <1>4, <1>5 DEF DeskInv, LicenceKept, c
  <2>3. ASSUME NEW j \in DOMAIN sent, sent[j].kind = "status" \/ Bought(sent[j]), "licence" \notin shaky'
        PROVE  sent'[j].kind = "status" \/ Bought(sent'[j])
    <3>1. CASE j = i
      <4>1. "unlock" = c.kind => "licence" \in shaky' BY <1>1 DEF Changes
      <4> QED BY <1>4, <1>5, <2>3, <3>1, <4>1 DEF Bought, c
    <3>2. CASE j # i BY <1>5, <2>3, <3>2
    <3> QED BY <3>1, <3>2
  <2>4. "licence" \in shaky => "licence" \in shaky' BY <1>1
  <2>5. "licence" \in shaky' \/ (\E j \in DOMAIN sent' : sent'[j].kind = "status" \/ Bought(sent'[j]))
         \/ (desk'.unlocked <=> desk'.feature \in licensed')
    BY <1>1, <1>5, <2>3, <2>4 DEF DeskInv, LicenceKept
  <2>6. \A j \in DOMAIN sent' : LicenceCall(sent[j])' BY <2>1
  <2>7. \A g \in Features \ blind' : fees'[g] = IF g \in licensed' THEN 1 ELSE 0 BY <1>1 DEF DeskInv, LicenceKept
  <2> QED BY <2>2, <2>5, <2>6, <2>7 DEF LicenceKept, Bought
<1>10. PayrollKept'
  <2>0. spoiled \subseteq spoiled' BY <1>1
  <2>1. ASSUME NEW p \in People \ spoiled' PROVE Settled(p)' <=> Settled(p)
    <3>1. ~ PaysFor(c, p) /\ ~ PaysFor(e, p) BY <1>1, <1>4, <2>1 DEF PaysFor
    <3>2. \A j \in DOMAIN sent : PaysFor(sent'[j], p) <=> PaysFor(sent[j], p) BY <1>5, <3>1 DEF c
    <3>3. (\E j \in DOMAIN sent' : PaysFor(sent'[j], p)) <=> Settled(p) BY <1>5, <3>2 DEF Settled
    <3> QED BY <3>3 DEF Settled, PaysFor
  <2>2. ASSUME NEW p \in People \ spoiled'
        PROVE  wanted'[p] = paid'[p] + IF p \in desk'.module.selected /\ ~ Settled(p)' THEN 1 ELSE 0
    BY <1>1, <2>0, <2>1, <2>2 DEF DeskInv, PayrollKept
  <2>3. ASSUME NEW j \in DOMAIN sent' PROVE LabourCall(sent[j])'
    <3>1. LabourCall(sent[j]) /\ LabourCall(c) BY <1>5, <1>8 DEF c
    <3>2. CASE j = i
      <4>1. \A p \in People \ spoiled' : p \in People \ spoiled BY <2>0
      <4> QED BY <1>1, <1>4, <1>5, <2>0, <3>1, <3>2, <4>1 DEF LabourCall
    <3>3. CASE j # i BY <1>1, <1>5, <2>0, <3>1, <3>3 DEF LabourCall
    <3> QED BY <3>2, <3>3
  <2>4. \A m, n \in DOMAIN sent' :
          sent'[m].kind \in Labours /\ sent'[n].kind \in Labours /\ sent'[m].here /\ sent'[n].here => m = n
    BY <1>4, <1>5 DEF DeskInv, PayrollKept, c
  <2>5. \A j \in DOMAIN sent' : LabourCall(sent[j])' BY <2>3
  <2> QED BY <2>2, <2>4, <2>5 DEF PayrollKept
<1> QED BY <1>6, <1>7, <1>9, <1>10 DEF DeskInv

\* Lapse keeps the invariant.
LEMMA LapseInv ==
  ASSUME DeskInv, NEW f \in Features, Lapse(f)
  PROVE  DeskInv'
<1> DEFINE old(j) == sent[j].kind \in OfPage /\ sent[j].stage = "done"
           ls == [j \in DOMAIN sent |-> [sent[j] EXCEPT !.newest = @ /\ ~ old(j)]]
<1>1. /\ sent' = ls /\ licensed' = licensed \ {f} /\ fees' = [fees EXCEPT ![f] = 0]
      /\ UNCHANGED <<paid, desk, blind, wanted, spoiled>> /\ "licence" \in shaky'
  BY DEF Lapse
<1>2. Flying(sent) BY DEF DeskInv
<1>3. DOMAIN ls = DOMAIN sent /\ ls = [j \in DOMAIN sent |-> ls[j]] OBVIOUS
<1>4. ASSUME NEW j \in DOMAIN sent
      PROVE  Proper(ls[j]) /\ Kin(ls[j], sent[j]) /\ (old(j) => ~ ls[j].newest)
  <2> DEFINE e == sent[j]
  <2>1. Proper(e) BY <1>2 DEF Flying
  <2> HIDE DEF old
  <2>2. ls[j] = [e EXCEPT !.newest = @ /\ ~ old(j)] OBVIOUS
  <2> HIDE DEF e, ls
  <2>3. ASSUME NEW b, NEW n, n = [e EXCEPT !.newest = @ /\ ~ b] PROVE Proper(n) /\ Kin(n, e) /\ (b => ~ n.newest)
    <3>1. n = [kind |-> e.kind, feature |-> e.feature, arg |-> e.arg, stage |-> e.stage, ok |-> e.ok,
               value |-> e.value, number |-> e.number, here |-> e.here, newest |-> e.newest /\ ~ b, at |-> e.at]
      BY <2>1, <2>3 DEF Proper, DeskCall
    <3> QED BY <2>1, <3>1 DEF Proper, Kin, DeskCall
  <2>4. PICK b : b = old(j) OBVIOUS
  <2>5. ls[j] = [e EXCEPT !.newest = @ /\ ~ b] BY <2>2, <2>4
  <2>6. Proper(ls[j]) /\ Kin(ls[j], e) /\ (b => ~ ls[j].newest) BY <2>3, <2>5
  <2> QED BY <2>4, <2>6 DEF e
<1> HIDE DEF ls
<1>5. Flying(ls) /\ Carried(ls, sent, 0, Labours) BY <1>2, <1>3, <1>4, MarkedKept DEF Kin
<1>6. 0 \notin DOMAIN sent BY <1>2, SequenceFacts DEF Flying
<1>7. PayrollKept' BY <1>1, <1>5, <1>6, PayrollStays
<1>8. fees = [g \in Features |-> fees[g]] BY DEF DeskInv, DeskShape
<1>9. fees' = [g \in Features |-> fees'[g]] /\ \A g \in Features : fees'[g] = IF g = f THEN 0 ELSE fees[g]
  BY <1>1, <1>8
<1>10. DeskShape' BY <1>1, <1>9 DEF DeskInv, DeskShape
<1>11. \A g \in Features \ blind' : fees'[g] = IF g \in licensed' THEN 1 ELSE 0
  BY <1>1, <1>9 DEF DeskInv, LicenceKept
<1>12. \A j \in DOMAIN sent : LicenceCall(sent[j]) BY DEF DeskInv, LicenceKept
<1>13. ASSUME NEW j \in DOMAIN sent' PROVE LicenceCall(sent[j])'
  <2>1. /\ Kin(sent'[j], sent[j]) /\ LicenceCall(sent[j])
        /\ sent[j].kind \in OfPage /\ sent[j].stage = "done" => ~ sent'[j].newest
    BY <1>1, <1>3, <1>4, <1>12
  <2> QED BY <1>1, <2>1 DEF LicenceCall, Bought, Kin, OfPage
<1>14. \A m, n \in DOMAIN sent' : sent'[m].kind = "unlock" /\ sent'[n].kind = "unlock" => m = n
  BY <1>1, <1>3, <1>4 DEF DeskInv, LicenceKept, Kin
<1>15. \A j \in DOMAIN sent' : LicenceCall(sent[j])' BY <1>13
<1>16. LicenceKept' BY <1>1, <1>11, <1>14, <1>15 DEF LicenceKept
<1> QED BY <1>1, <1>5, <1>7, <1>10, <1>16 DEF DeskInv

\* An answer to an order frees its module, and a payment that was made empties the list.
LEMMA PayrollFreed ==
  ASSUME DeskInv, NEW i \in DOMAIN sent, sent[i].kind \in Labours, sent[i].stage = "done",
         Carried(sent', sent, i, Labours), UNCHANGED <<wanted, paid, spoiled>>,
         desk'.module.selected = IF sent[i].kind = "pay" /\ sent[i].ok THEN {} ELSE desk.module.selected
  PROVE  PayrollKept'
<1>0. "pay" \in Labours BY DEF Labours
<1>1. PICK f \in [DOMAIN sent' -> DOMAIN sent \cup {0}] :
     /\ \A n \in DOMAIN sent' : sent'[n].kind \in Labours => f[n] \in DOMAIN sent \ {i} /\ Kin(sent'[n], sent[f[n]])
     /\ \A m, n \in DOMAIN sent' : sent'[m].kind \in Labours /\ sent'[n].kind \in Labours /\ f[m] = f[n] => m = n
     /\ \A k \in DOMAIN sent \ {i} : sent[k].kind \in Labours => \E n \in DOMAIN sent' : sent'[n].kind \in Labours /\ f[n] = k
  BY DEF Carried
<1>2. \A j \in DOMAIN sent : LabourCall(sent[j]) BY DEF DeskInv, PayrollKept
<1>3. sent[i].here BY <1>2 DEF LabourCall
<1>4. \A j \in DOMAIN sent \ {i} : sent[j].kind \in Labours => ~ sent[j].here /\ sent[j].stage # "done"
  BY <1>2, <1>3 DEF DeskInv, PayrollKept, LabourCall
<1>5. \A n \in DOMAIN sent' : sent'[n].kind \in Labours => ~ sent'[n].here /\ sent'[n].stage # "done"
  BY <1>1, <1>4 DEF Kin
<1>6. ASSUME NEW p PROVE ~ Settled(p)'
  <2>1. \A n \in DOMAIN sent' : ~ PaysFor(sent'[n], p) BY <1>0, <1>5 DEF PaysFor
  <2> QED BY <2>1 DEF Settled, PaysFor
<1>7. ASSUME NEW p PROVE Settled(p) <=> PaysFor(sent[i], p)
  <2>1. \A j \in DOMAIN sent \ {i} : ~ PaysFor(sent[j], p) BY <1>0, <1>4 DEF PaysFor
  <2> QED BY <2>1 DEF Settled
<1>8. ASSUME NEW p \in People \ spoiled'
      PROVE  wanted'[p] = paid'[p] + IF p \in desk'.module.selected /\ ~ Settled(p)' THEN 1 ELSE 0
  <2>1. wanted[p] = paid[p] + IF p \in desk.module.selected /\ ~ Settled(p) THEN 1 ELSE 0
    BY <1>8 DEF DeskInv, PayrollKept
  <2>2. CASE sent[i].kind = "pay" /\ sent[i].ok
    <3>1. p \in desk.module.selected <=> p \in sent[i].arg BY <1>2, <1>3, <1>8, <2>2 DEF LabourCall
    <3>2. Settled(p) <=> p \in sent[i].arg BY <1>7, <2>2 DEF PaysFor
    <3> QED BY <2>1, <2>2, <3>1, <3>2
  <2>3. CASE ~ (sent[i].kind = "pay" /\ sent[i].ok)
    <3>1. ~ Settled(p) BY <1>7, <2>3 DEF PaysFor
    <3> QED BY <1>6, <2>1, <2>3, <3>1
  <2> QED BY <2>2, <2>3
<1>9. ASSUME NEW n \in DOMAIN sent' PROVE LabourCall(sent[n])'
  <2>1. CASE sent'[n].kind \in Labours
    <3>1. f[n] \in DOMAIN sent /\ Kin(sent'[n], sent[f[n]]) BY <1>1, <2>1
    <3>2. LabourCall(sent[f[n]]) /\ ~ sent'[n].here /\ sent'[n].stage # "done" BY <1>2, <1>5, <2>1, <3>1
    <3> QED BY <3>1, <3>2 DEF LabourCall, Kin
  <2>2. CASE sent'[n].kind \notin Labours BY <1>0, <2>2 DEF LabourCall
  <2> QED BY <2>1, <2>2
<1>10. \A n \in DOMAIN sent' : LabourCall(sent[n])' BY <1>9
<1> QED BY <1>5, <1>8, <1>10 DEF PayrollKept

\* OnPayroll keeps the invariant.
LEMMA OnPayrollInv ==
  ASSUME DeskInv, NEW i \in DOMAIN sent, OnPayroll(i)
  PROVE  DeskInv'
<1> DEFINE m == desk.module
           list == ListAfter(m, sent[i].ok)
           b == [m EXCEPT !.working = FALSE]
           n == [b EXCEPT !.selected = list]
<1>0. OfPage = {"status", "unlock"} /\ Labours = {"trade", "rebalance", "pay"} BY DEF OfPage, Labours
<1>1. /\ sent[i].stage = "done" /\ sent[i].kind = "pay" /\ sent' = RemoveAt(sent, i)
      /\ UNCHANGED <<fees, licensed, blind, paid, wanted, spoiled, shaky>> /\ desk' = [desk EXCEPT !.module = n]
  BY DEF OnPayroll, Come, Quietly, bankSide, ghosts, Shown
<1>2. DeskPage(desk) /\ DeskModule(m) /\ desk.feature \in Features BY DEF DeskInv, DeskShape
<1>3. list = IF sent[i].ok THEN {} ELSE m.selected BY DEF ListAfter
<1> HIDE DEF list
<1>4. DeskModule(b) BY <1>2, ModuleWorking
<1> HIDE DEF b
<1>5. DeskModule(n) /\ n.selected = list BY <1>4, ModuleSelected
<1> HIDE DEF n
<1>6. /\ DeskPage(desk') /\ desk'.feature = desk.feature /\ desk'.unlocked = desk.unlocked
      /\ desk'.unlocking = desk.unlocking /\ desk'.module = n
  BY <1>1, <1>2, PageModule
<1>7. DeskShape' BY <1>1, <1>2, <1>5, <1>6 DEF DeskInv, DeskShape
<1>8. Flying(sent) /\ 0 \notin DOMAIN sent BY SequenceFacts DEF DeskInv, Flying
<1>9. Flying(sent') /\ Carried(sent', sent, i, OfPage) /\ Carried(sent', sent, i, Labours) BY <1>1, <1>8, WithoutKept
<1>10. Carried(sent', sent, 0, OfPage) BY <1>0, <1>1, <1>8, <1>9, NoneMissed
<1>11. LicenceKept' BY <1>1, <1>6, <1>10, LicenceStays
<1>12. PayrollKept' BY <1>0, <1>1, <1>3, <1>5, <1>6, <1>9, PayrollFreed
<1> QED BY <1>7, <1>9, <1>11, <1>12 DEF DeskInv

\* OnOrder keeps the invariant.
LEMMA OnOrderInv ==
  ASSUME DeskInv, NEW i \in DOMAIN sent, OnOrder(i)
  PROVE  DeskInv'
<1> DEFINE m == desk.module
           b == [m EXCEPT !.working = FALSE]
           kinds == IF sent[i].ok THEN After(sent[i].kind) ELSE <<>>
           r == RemoveAt(sent, i)
<1>0. OfPage = {"status", "unlock"} /\ Labours = {"trade", "rebalance", "pay"} BY DEF OfPage, Labours
<1>1. /\ sent[i].stage = "done" /\ sent[i].kind \in {"trade", "rebalance"} /\ sent' = Post(r, kinds, {})
      /\ UNCHANGED <<fees, licensed, blind, paid, wanted, spoiled, shaky>>
      /\ desk' = [desk EXCEPT !.module.working = FALSE]
  BY DEF OnOrder, Come, Quietly, bankSide, ghosts
<1>2. DeskPage(desk) /\ DeskModule(m) /\ desk.feature \in Features BY DEF DeskInv, DeskShape
<1>3. desk' = [desk EXCEPT !.module = b] BY <1>1, <1>2, ThroughPage
<1>4. DeskModule(b) /\ b.selected = m.selected BY <1>2, ModuleWorking
<1> HIDE DEF b
<1>5. /\ DeskPage(desk') /\ desk'.feature = desk.feature /\ desk'.unlocked = desk.unlocked
      /\ desk'.unlocking = desk.unlocking /\ desk'.module = b
  BY <1>2, <1>3, PageModule
<1>6. DeskShape' BY <1>1, <1>2, <1>4, <1>5 DEF DeskInv, DeskShape
<1>7. Flying(sent) /\ 0 \notin DOMAIN sent BY SequenceFacts DEF DeskInv, Flying
<1>8. Sequence(kinds) /\ \A n \in DOMAIN kinds : kinds[n] \notin OfPage /\ kinds[n] \notin Labours
  <2>1. \/ kinds = <<>> \/ kinds = <<"portfolio">> \/ kinds = <<"insights">> BY DEF After
  <2>2. Sequence(<<>>) /\ Sequence(<<"portfolio">>) /\ Sequence(<<"insights">>) BY ShortSequences
  <2> QED BY <1>0, <2>1, <2>2
<1> HIDE DEF kinds, r
<1>9. Flying(r) /\ Carried(r, sent, i, OfPage) /\ Carried(r, sent, i, Labours) BY <1>7, WithoutKept DEF r
<1>10. PICK f : f = desk.feature OBVIOUS
<1>11. sent' = PostedCalls(r, kinds, f, {}) BY <1>1, <1>5, <1>10, PostIs
<1>12. PICK ls : ls = PostedCalls(r, kinds, f, {}) OBVIOUS
<1>13. f \in Features BY <1>2, <1>10
<1>14. Flying(ls) /\ Carried(ls, r, 0, OfPage) BY <1>8, <1>9, <1>12, <1>13, PostedKept
<1>15. Carried(ls, r, 0, Labours) BY <1>8, <1>9, <1>12, <1>13, PostedKept
<1>16. Carried(ls, sent, i, OfPage) /\ Carried(ls, sent, i, Labours) BY <1>9, <1>14, <1>15, KeptTwice
<1>17. sent' = ls BY <1>11, <1>12
<1>18. Carried(sent', sent, 0, OfPage) BY <1>0, <1>1, <1>7, <1>16, <1>17, NoneMissed
<1>19. LicenceKept' BY <1>1, <1>5, <1>18, LicenceStays
<1>20. PayrollKept' BY <1>0, <1>1, <1>4, <1>5, <1>16, <1>17, PayrollFreed
<1> QED BY <1>6, <1>14, <1>17, <1>19, <1>20 DEF DeskInv

\* Somebody is put on the list, or taken off it.
LEMMA ListInv ==
  ASSUME DeskInv, NEW p \in People, NEW m, DeskModule(m), m.working = desk.module.working,
         desk' = [desk EXCEPT !.module = m], sent' = sent, UNCHANGED <<fees, licensed, blind, paid>>,
         "licence" \in shaky => "licence" \in shaky',
         \/ /\ p \notin desk.module.selected /\ m.selected = desk.module.selected \cup {p}
            /\ wanted' = [wanted EXCEPT ![p] = @ + 1]
            /\ spoiled' = IF Batches(sent) = {} THEN spoiled ELSE spoiled \cup {p}
         \/ /\ p \in desk.module.selected /\ m.selected = desk.module.selected \ {p}
            /\ wanted' = [wanted EXCEPT ![p] = @ - 1]
            /\ spoiled' = IF \E c \in Batches(sent) : p \in c.arg THEN spoiled \cup {p} ELSE spoiled
  PROVE  DeskInv'
<1>1. DeskPage(desk) /\ desk.feature \in Features BY DEF DeskInv, DeskShape
<1>2. /\ DeskPage(desk') /\ desk'.feature = desk.feature /\ desk'.unlocked = desk.unlocked
      /\ desk'.unlocking = desk.unlocking /\ desk'.module = m
  BY <1>1, PageModule
<1>3. /\ wanted = [q \in People |-> wanted[q]] /\ paid = [q \in People |-> paid[q]]
      /\ \A q \in People : paid[q] \in Int /\ wanted[q] \in Int
  BY DEF DeskInv, DeskShape
<1>4. /\ wanted' = [q \in People |-> wanted'[q]] /\ \A q \in People : wanted'[q] \in Int
      /\ \A q \in People \ {p} : wanted'[q] = wanted[q]
  BY <1>3
<1>5. DeskShape' BY <1>1, <1>2, <1>3, <1>4 DEF DeskInv, DeskShape
<1>6. Flying(sent') /\ Carried(sent', sent, 0, OfPage) BY SentKeeps
<1>7. LicenceKept' BY <1>2, <1>6, LicenceStays
<1>8. \A j \in DOMAIN sent : sent[j].kind = "pay" => sent[j] \in Batches(sent) BY DEF Batches
<1>9. spoiled \subseteq spoiled' OBVIOUS
<1>10. \A j \in DOMAIN sent : LabourCall(sent[j]) BY DEF DeskInv, PayrollKept
<1>11. ASSUME NEW q PROVE Settled(q)' <=> Settled(q) BY DEF Settled, PaysFor
<1>12. p \notin spoiled' => /\ ~ Settled(p) /\ (p \in m.selected => \A j \in DOMAIN sent : sent[j].kind # "pay")
                            /\ \A j \in DOMAIN sent : sent[j].kind = "pay" => p \notin sent[j].arg
  BY <1>8 DEF Settled, PaysFor
<1>13. ASSUME NEW q \in People \ spoiled'
       PROVE  wanted'[q] = paid'[q] + IF q \in desk'.module.selected /\ ~ Settled(q)' THEN 1 ELSE 0
  <2>1. wanted[q] = paid[q] + IF q \in desk.module.selected /\ ~ Settled(q) THEN 1 ELSE 0
    BY <1>9, <1>13 DEF DeskInv, PayrollKept
  <2>2. CASE q = p
    <3>1. ~ Settled(p) BY <1>12, <1>13, <2>2
    <3> QED BY <1>2, <1>3, <1>11, <2>1, <2>2, <3>1
  <2>3. CASE q # p BY <1>2, <1>4, <1>11, <2>1, <2>3
  <2> QED BY <2>2, <2>3
<1>14. ASSUME NEW j \in DOMAIN sent' PROVE LabourCall(sent[j])'
  <2>1. LabourCall(sent[j]) BY <1>10
  <2>2. sent[j].kind = "pay" /\ sent[j].here => \A q \in People \ spoiled' : q \in m.selected <=> q \in sent[j].arg
    <3>1. ASSUME sent[j].kind = "pay", sent[j].here, NEW q \in People \ spoiled' PROVE q \in m.selected <=> q \in sent[j].arg
      <4>1. q \in desk.module.selected <=> q \in sent[j].arg BY <1>9, <2>1, <3>1 DEF LabourCall
      <4>2. CASE q = p BY <1>12, <3>1, <4>1, <4>2
      <4>3. CASE q # p BY <4>1, <4>3
      <4> QED BY <4>2, <4>3
    <3> QED BY <3>1
  <2> QED BY <1>2, <1>9, <2>1, <2>2 DEF LabourCall
<1>15. \A j \in DOMAIN sent' : LabourCall(sent[j])' BY <1>14
<1>16. PayrollKept' BY <1>13, <1>15 DEF DeskInv, PayrollKept
<1> QED BY <1>5, <1>6, <1>7, <1>16 DEF DeskInv

\* PutOn keeps the invariant.
LEMMA PutOnInv == ASSUME DeskInv, NEW p \in People, PutOn(p) PROVE DeskInv'
<1> DEFINE m == desk.module
<1>0. PICK box, timer : box = Short /\ timer = (m.timer \/ m.box # Short) OBVIOUS
<1> DEFINE list == m.selected \cup {p}
           a == [m EXCEPT !.selected = list]
           A == [desk EXCEPT !.module.selected = list]
           b == [a EXCEPT !.results = {}]
           B == [A EXCEPT !.module.results = {}]
           c == [b EXCEPT !.box = box]
           C == [B EXCEPT !.module.box = box]
           d == [c EXCEPT !.timer = timer]
           D == [C EXCEPT !.module.timer = timer]
<1>1. /\ sent' = sent /\ UNCHANGED <<fees, licensed, blind, paid>> /\ p \notin m.selected
      /\ wanted' = [wanted EXCEPT ![p] = @ + 1] /\ ("licence" \in shaky => "licence" \in shaky')
      /\ spoiled' = IF Batches(sent) = {} THEN spoiled ELSE spoiled \cup {p}
  BY DEF PutOn, Acts, bankSide
<1>2. DeskPage(desk) /\ DeskModule(m) BY DEF DeskInv, DeskShape
<1>3. desk' = D
  <2>1. desk' = [desk EXCEPT !.module.selected = @ \cup {p}, !.module.results = {},
                             !.module.box = Short, !.module.timer = @ \/ m.box # Short]
    BY DEF PutOn
  <2> QED BY <1>0, <1>2, <2>1 DEF DeskPage, DeskModule
<1> HIDE DEF list
<1>4. A = [desk EXCEPT !.module = a] BY <1>2, ThroughPage
<1>5. DeskModule(a) /\ a.selected = list /\ a.working = m.working BY <1>2, ModuleSelected
<1> HIDE DEF a, A
<1>6. B = [desk EXCEPT !.module = b] BY <1>2, <1>4, <1>5, ThroughAgain
<1>7. QuietModule(b, a) BY <1>5, ModuleFields
<1>8. DeskModule(b) BY <1>7 DEF QuietModule
<1> HIDE DEF b, B
<1>9. C = [desk EXCEPT !.module = c] BY <1>2, <1>6, <1>8, ThroughAgain
<1>10. QuietModule(c, b) BY <1>8, ModuleFields
<1>11. DeskModule(c) BY <1>10 DEF QuietModule
<1> HIDE DEF c, C
<1>12. D = [desk EXCEPT !.module = d] BY <1>2, <1>9, <1>11, ThroughAgain
<1>13. QuietModule(d, c) BY <1>11, ModuleFields
<1> HIDE DEF d, D
<1>14. DeskModule(d) /\ d.working = m.working /\ d.selected = m.selected \cup {p}
  BY <1>5, <1>7, <1>10, <1>13 DEF QuietModule, list
<1>15. desk' = [desk EXCEPT !.module = d] BY <1>3, <1>12
<1> QED BY <1>1, <1>14, <1>15, ListInv

\* TakeOff keeps the invariant.
LEMMA TakeOffInv == ASSUME DeskInv, NEW p \in People, TakeOff(p) PROVE DeskInv'
<1> DEFINE m == desk.module
           list == m.selected \ {p}
           a == [m EXCEPT !.selected = list]
<1>1. /\ sent' = sent /\ UNCHANGED <<fees, licensed, blind, paid, shaky>> /\ p \in m.selected
      /\ wanted' = [wanted EXCEPT ![p] = @ - 1]
      /\ spoiled' = IF \E c \in Batches(sent) : p \in c.arg THEN spoiled \cup {p} ELSE spoiled
      /\ desk' = [desk EXCEPT !.module.selected = list]
  BY DEF TakeOff, Acts, bankSide
<1>2. DeskPage(desk) /\ DeskModule(m) BY DEF DeskInv, DeskShape
<1> HIDE DEF list
<1>3. desk' = [desk EXCEPT !.module = a] BY <1>1, <1>2, ThroughPage
<1>4. DeskModule(a) /\ a.selected = list /\ a.working = m.working BY <1>2, ModuleSelected
<1> HIDE DEF a
<1>5. a.selected = m.selected \ {p} BY <1>4 DEF list
<1> QED BY <1>1, <1>3, <1>4, <1>5, ListInv

-----------------------------------------------------------------------------
(* The page turns to another feature, or opens or closes one. *)
LEMMA AbandonedKept ==
  ASSUME NEW ms, Flying(ms)
  PROVE  /\ Flying(Abandoned(ms)) /\ Carried(Abandoned(ms), ms, 0, OfPage)
         /\ \A n \in DOMAIN Abandoned(ms) : Abandoned(ms)[n].kind \in Labours =>
              /\ ~ Abandoned(ms)[n].here /\ Abandoned(ms)[n].stage = "sent"
              /\ \E k \in DOMAIN ms : ms[k].kind = Abandoned(ms)[n].kind /\ ms[k].arg = Abandoned(ms)[n].arg
<1> DEFINE gone == [j \in DOMAIN ms |-> [ms[j] EXCEPT !.here = @ /\ ms[j].kind \in OfPage]]
           J == {j \in DOMAIN gone : gone[j].kind \in OfPage \/ (gone[j].kind \in Orders /\ gone[j].stage = "sent")}
           r == Sifted(gone, J)
<1>0. OfPage \cap Labours = {} BY DEF OfPage, Labours
<1>1. Abandoned(ms) = r BY DEF Abandoned
<1>2. DOMAIN gone = DOMAIN ms /\ gone = [j \in DOMAIN ms |-> gone[j]] OBVIOUS
<1>3. ASSUME NEW j \in DOMAIN ms
      PROVE  /\ Proper(gone[j]) /\ gone[j].kind = ms[j].kind /\ gone[j].arg = ms[j].arg /\ gone[j].stage = ms[j].stage
             /\ (ms[j].kind \in OfPage => Kin(gone[j], ms[j])) /\ (ms[j].kind \notin OfPage => ~ gone[j].here)
  <2> DEFINE e == ms[j]
  <2>1. Proper(e) BY DEF Flying
  <2>2. PICK b : b = (ms[j].kind \in OfPage) OBVIOUS
  <2>3. gone[j] = [e EXCEPT !.here = @ /\ b] BY <2>2
  <2> HIDE DEF e, gone
  <2>4. PICK n : n = gone[j] OBVIOUS
  <2>5. n = [kind |-> e.kind, feature |-> e.feature, arg |-> e.arg, stage |-> e.stage, ok |-> e.ok,
             value |-> e.value, number |-> e.number, here |-> e.here /\ b, newest |-> e.newest, at |-> e.at]
    BY <2>1, <2>3, <2>4 DEF Proper, DeskCall
  <2>6. n.kind = e.kind /\ n.arg = e.arg /\ n.stage = e.stage /\ n.here = (e.here /\ b) /\ DeskCall(n)
        /\ n.feature = e.feature /\ n.ok = e.ok /\ n.value = e.value /\ n.newest = e.newest
    BY <2>5 DEF DeskCall
  <2>7. b => n.here = e.here BY <2>1, <2>6 DEF Proper
  <2> QED BY <2>1, <2>2, <2>4, <2>6, <2>7 DEF Proper, Kin, e
<1> HIDE DEF gone
<1>4. Flying(gone) /\ Carried(gone, ms, 0, OfPage) BY <1>2, <1>3, MarkedKept
<1>5. J \in SUBSET (DOMAIN gone) /\ \A j \in DOMAIN gone : gone[j].kind \in OfPage => j \in J OBVIOUS
<1>6. \A j \in J : gone[j].kind \in Labours => gone[j].stage = "sent" /\ ~ gone[j].here BY <1>0, <1>2, <1>3
<1> HIDE DEF J
<1>7. Flying(r) /\ Carried(r, gone, 0, OfPage) BY <1>4, <1>5, SiftedKept
<1>8. PICK f \in [DOMAIN r -> J] : \A n \in DOMAIN r : r[n] = gone[f[n]]
  BY <1>4, <1>5, SiftedFrom DEF Flying
<1>9. ASSUME NEW n \in DOMAIN r, r[n].kind \in Labours
      PROVE  ~ r[n].here /\ r[n].stage = "sent" /\ \E k \in DOMAIN ms : ms[k].kind = r[n].kind /\ ms[k].arg = r[n].arg
  <2>1. r[n] = gone[f[n]] /\ f[n] \in J /\ f[n] \in DOMAIN ms BY <1>2, <1>5, <1>8
  <2>2. ms[f[n]].kind = r[n].kind /\ ms[f[n]].arg = r[n].arg BY <1>3, <2>1
  <2> QED BY <1>6, <1>9, <2>1, <2>2
<1> HIDE DEF r
<1>10. Carried(r, ms, 0, OfPage) BY <1>4, <1>7, KeptTwice
<1> QED BY <1>1, <1>7, <1>9, <1>10

\* Nothing in flight will change the list of the page as it now is.
Slate(ls, S) ==
  \A j \in DOMAIN ls : ls[j].kind \in Labours =>
    ~ ls[j].here /\ ls[j].stage = "sent" /\ (ls[j].kind = "pay" => ls[j].arg \subseteq S)
Being(ms) == UNION {c.arg : c \in Batches(ms)}

\* The people of a batch in flight are being paid.
LEMMA BatchIn ==
  ASSUME NEW ms, NEW k \in DOMAIN ms, ms[k].kind = "pay"
  PROVE  ms[k].arg \subseteq Being(ms)
<1>1. ms[k] \in Batches(ms) BY DEF Batches
<1> QED BY <1>1 DEF Being

\* A module that is left keeps no order.
LEMMA AbandonedSlate ==
  ASSUME NEW ms, Flying(ms), NEW S, Being(ms) \subseteq S
  PROVE  Slate(Abandoned(ms), S)
<1> DEFINE r == Abandoned(ms)
<1>1. \A n \in DOMAIN r : r[n].kind \in Labours =>
        /\ ~ r[n].here /\ r[n].stage = "sent"
        /\ \E k \in DOMAIN ms : ms[k].kind = r[n].kind /\ ms[k].arg = r[n].arg
  BY AbandonedKept
<1> HIDE DEF r
<1>2. ASSUME NEW n \in DOMAIN r, r[n].kind = "pay" PROVE r[n].arg \subseteq S
  <2>1. PICK k \in DOMAIN ms : ms[k].kind = "pay" /\ ms[k].arg = r[n].arg BY <1>1, <1>2 DEF Labours
  <2>2. ms[k].arg \subseteq Being(ms) BY <2>1, BatchIn
  <2> QED BY <2>1, <2>2
<1>3. Slate(r, S) BY <1>1, <1>2 DEF Slate
<1> QED BY <1>3 DEF r

\* Posting reads adds no order.
LEMMA PostedSlate ==
  ASSUME NEW ms, Flying(ms), NEW kinds, Sequence(kinds), NEW f \in Features, NEW a, NEW S,
         \A n \in DOMAIN kinds : kinds[n] \notin Labours, Slate(ms, S)
  PROVE  Slate(PostedCalls(ms, kinds, f, a), S)
<1> DEFINE ls == PostedCalls(ms, kinds, f, a)
           os == Overtaken(ms, Range(kinds))
<1>1. /\ \A j \in DOMAIN ms : ls[j] = os[j]
      /\ \A j \in DOMAIN ls \ DOMAIN ms : \E n \in DOMAIN kinds : ls[j] = FreshCall(kinds[n], f, a)
  BY PostedIs
<1>2. \A j \in DOMAIN ms : Kin(os[j], ms[j]) BY OvertakenKept
<1> HIDE DEF ls, os
<1>3. \A j \in DOMAIN ls \ DOMAIN ms : ls[j].kind \notin Labours BY <1>1, AskingProper
<1>4. \A j \in DOMAIN ms : Kin(ls[j], ms[j]) BY <1>1, <1>2
<1>5. Slate(ls, S) BY <1>3, <1>4 DEF Slate, Kin
<1> QED BY <1>5 DEF ls

\* A module that is left and one that is mounted: the payroll's count stands.
LEMMA PayrollTurned ==
  ASSUME DeskInv, Slate(sent', spoiled'), spoiled \subseteq spoiled', \A p \in People \ spoiled' : ~ Settled(p),
         paid' = paid, wanted' = [p \in People |-> IF p \in desk.module.selected THEN wanted[p] - 1 ELSE wanted[p]],
         desk'.module.selected = {}
  PROVE  PayrollKept' /\ wanted' = [p \in People |-> wanted'[p]] /\ \A p \in People : wanted'[p] \in Int
<1>0. "pay" \in Labours BY DEF Labours
<1>1. \A p \in People : paid[p] \in Int /\ wanted[p] \in Int BY DEF DeskInv, DeskShape
<1>2. ASSUME NEW p \in People \ spoiled'
      PROVE  wanted'[p] = paid'[p] + IF p \in desk'.module.selected /\ ~ Settled(p)' THEN 1 ELSE 0
  <2>1. wanted[p] = paid[p] + IF p \in desk.module.selected THEN 1 ELSE 0
    BY <1>2 DEF DeskInv, PayrollKept
  <2>2. wanted'[p] = IF p \in desk.module.selected THEN wanted[p] - 1 ELSE wanted[p] OBVIOUS
  <2> QED BY <1>1, <2>1, <2>2
<1>3. ASSUME NEW j \in DOMAIN sent' PROVE LabourCall(sent[j])'
  BY <1>0 DEF Slate, LabourCall
<1>4. \A i, j \in DOMAIN sent' :
        sent'[i].kind \in Labours /\ sent'[j].kind \in Labours /\ sent'[i].here /\ sent'[j].here => i = j
  BY DEF Slate
<1>5. \A j \in DOMAIN sent' : LabourCall(sent[j])' BY <1>3
<1>6. PayrollKept' BY <1>2, <1>4, <1>5 DEF PayrollKept
<1> QED BY <1>1, <1>6

\* A module that is mounted is whole, with an empty list.
LEMMA ModuleMounted ==
  ASSUME NEW f \in Features
  PROVE  /\ DeskModule(Module(f)) /\ Module(f).selected = {}
         /\ DeskModule(NoModule) /\ NoModule.selected = {}
         /\ Sequence(ModuleReads(f)) /\ \A n \in DOMAIN ModuleReads(f) : ModuleReads(f)[n] \notin Weighty
<1>1. DeskModule(NoModule) /\ NoModule.selected = {} BY DEF DeskModule, NoModule
<1>2. \/ f = "ai-insights" \/ f = "crypto-trading" \/ f = "wealth-management-pro" \/ f = "bulk-payroll-processing"
  BY DEF Features
<1>3. DeskModule(Module(f)) /\ Module(f).selected = {}
  <2>1. CASE f = "ai-insights" BY <2>1 DEF DeskModule, NoModule, Module, Library
  <2>2. CASE f = "crypto-trading"
    <3>1. Module(f) = Trading BY <2>2 DEF Module
    <3>2. PICK due : due = today + Period OBVIOUS
    <3>3. Trading = [NoModule EXCEPT !.due = due] BY <3>2 DEF Trading
    <3>4. QuietModule([NoModule EXCEPT !.due = due], NoModule) BY <1>1, ModuleFields
    <3> QED BY <1>1, <3>1, <3>3, <3>4 DEF QuietModule
  <2>3. CASE f = "wealth-management-pro" BY <2>3 DEF DeskModule, NoModule, Module, Wealth
  <2>4. CASE f = "bulk-payroll-processing" BY <2>4 DEF DeskModule, NoModule, Module, Payroll
  <2> QED BY <1>2, <2>1, <2>2, <2>3, <2>4
<1>4. Sequence(ModuleReads(f)) /\ \A n \in DOMAIN ModuleReads(f) : ModuleReads(f)[n] \notin Weighty
  <2>1. \/ ModuleReads(f) = <<"stats">> \/ ModuleReads(f) = <<"prices", "portfolio">>
        \/ ModuleReads(f) = <<"insights">> \/ ModuleReads(f) = <<"payees">>
    BY <1>2 DEF ModuleReads
  <2>2. /\ Sequence(<<"stats">>) /\ Sequence(<<"prices", "portfolio">>) /\ Sequence(<<"insights">>)
        /\ Sequence(<<"payees">>)
    BY ShortSequences
  <2> QED BY <2>1, <2>2, WeightyKinds
<1> QED BY <1>1, <1>3, <1>4


\* A payment that was made belongs to a batch in flight.
LEMMA SettledBeing ==
  ASSUME NEW ms, Flying(ms), NEW x, Carried(ms, sent, x, Labours), NEW p, Settled(p),
         x \in DOMAIN sent => sent[x].kind # "pay"
  PROVE  p \in Being(ms)
<1>0. "pay" \in Labours BY DEF Labours
<1>1. PICK j \in DOMAIN sent : PaysFor(sent[j], p) BY DEF Settled
<1>2. j # x /\ sent[j].kind = "pay" /\ p \in sent[j].arg BY <1>1 DEF PaysFor
<1>3. PICK n \in DOMAIN ms : ms[n].kind \in Labours /\ Kin(ms[n], sent[j]) BY <1>0, <1>2 DEF Carried
<1>4. ms[n].kind = "pay" /\ p \in ms[n].arg BY <1>2, <1>3 DEF Kin
<1> QED BY <1>4, BatchIn

\* An answer about the licence: the page that it leaves, whether it turns or not.
LEMMA BecomeInv ==
  ASSUME DeskInv, NEW i \in DOMAIN sent, sent[i].kind \in OfPage, NEW P, DeskPage(P),
         P.module = desk.module, P.feature = desk.feature, Become(P, RemoveAt(sent, i)),
         UNCHANGED <<fees, licensed, blind, paid>>
  PROVE  /\ Flying(sent') /\ Carried(sent', sent, i, OfPage) /\ DeskShape' /\ PayrollKept'
         /\ desk'.feature = P.feature /\ desk'.unlocked = P.unlocked /\ desk'.unlocking = P.unlocking
<1>0. OfPage = {"status", "unlock"} /\ Labours = {"trade", "rebalance", "pay"} BY DEF OfPage, Labours
<1>1. /\ DeskPage(desk) /\ DeskModule(desk.module) /\ desk.feature \in Features /\ Flying(sent)
      /\ fees = [f \in Features |-> fees[f]]
      /\ paid = [p \in People |-> paid[p]] /\ wanted = [p \in People |-> wanted[p]]
      /\ \A p \in People : paid[p] \in Int /\ wanted[p] \in Int
  BY DEF DeskInv, DeskShape
<1>2. 0 \notin DOMAIN sent BY <1>1, SequenceFacts DEF Flying
<1>3. PICK ps : ps = RemoveAt(sent, i) OBVIOUS
<1>4. Flying(ps) /\ Carried(ps, sent, i, OfPage) /\ Carried(ps, sent, i, Labours) BY <1>1, <1>3, WithoutKept
<1>5. Carried(ps, sent, 0, Labours) BY <1>0, <1>2, <1>4, NoneMissed
<1>6. Become(P, ps) BY <1>3
<1> DEFINE turns == Open(P) # Open(desk) \/ P.feature # desk.feature
<1>7. CASE ~ turns
  <2>1. desk' = P /\ sent' = ps /\ UNCHANGED <<wanted, spoiled>> BY <1>6, <1>7 DEF Become
  <2>2. DeskShape' BY <1>1, <2>1 DEF DeskShape
  <2>3. PayrollKept' BY <1>2, <1>5, <2>1, PayrollStays
  <2> QED BY <1>4, <2>1, <2>2, <2>3
<1>8. CASE turns
  <2>1. PICK f : f = P.feature OBVIOUS
  <2>2. f \in Features BY <1>1, <2>1
  <2>3. PICK M : M = IF Open(P) THEN Module(f) ELSE NoModule OBVIOUS
  <2>4. DeskModule(M) /\ M.selected = {} BY <2>2, <2>3, ModuleMounted
  <2>5. /\ desk' = [P EXCEPT !.module = M]
        /\ sent' = IF Open(P) THEN Post(Abandoned(ps), ModuleReads(f), {}) ELSE Abandoned(ps)
        /\ wanted' = [p \in People |-> IF p \in desk.module.selected THEN wanted[p] - 1 ELSE wanted[p]]
        /\ spoiled' = spoiled \cup Being(ps)
    BY <1>6, <1>8, <2>1, <2>3 DEF Become, Being
  <2>6. /\ DeskPage(desk') /\ desk'.feature = f /\ desk'.unlocked = P.unlocked
        /\ desk'.unlocking = P.unlocking /\ desk'.module = M
    BY <2>1, <2>5, PageModule
  <2>7. PICK qs : qs = Abandoned(ps) OBVIOUS
  <2>8. Flying(qs) /\ Carried(qs, ps, 0, OfPage) BY <1>4, <2>7, AbandonedKept
  <2>9. PICK S : S = spoiled \cup Being(ps) OBVIOUS
  <2>10. Slate(qs, S) BY <1>4, <2>7, <2>9, AbandonedSlate
  <2>11. Flying(sent') /\ Carried(sent', ps, 0, OfPage) /\ Slate(sent', S)
    <3>1. CASE ~ Open(P)
      <4>1. sent' = qs BY <2>5, <2>7, <3>1
      <4> QED BY <2>8, <2>10, <4>1
    <3>2. CASE Open(P)
      <4>1. PICK kinds : kinds = ModuleReads(f) OBVIOUS
      <4>2. Sequence(kinds) /\ \A n \in DOMAIN kinds : kinds[n] \notin Weighty BY <2>2, <4>1, ModuleMounted
      <4>3. \A n \in DOMAIN kinds : kinds[n] \notin OfPage BY <4>2, WeightyKinds
      <4>4. \A n \in DOMAIN kinds : kinds[n] \notin Labours BY <4>2, WeightyKinds
      <4>5. sent' = PostedCalls(qs, kinds, f, {}) BY <2>5, <2>6, <2>7, <3>2, <4>1, PostIs
      <4>6. PICK ls : ls = PostedCalls(qs, kinds, f, {}) OBVIOUS
      <4>7. Flying(ls) /\ Carried(ls, qs, 0, OfPage) BY <2>2, <2>8, <4>2, <4>3, <4>6, PostedKept
      <4>8. Slate(ls, S) BY <2>2, <2>8, <2>10, <4>2, <4>4, <4>6, PostedSlate
      <4>9. Carried(ls, ps, 0, OfPage) BY <2>8, <4>7, KeptTwice
      <4> QED BY <4>5, <4>6, <4>7, <4>8, <4>9
    <3> QED BY <3>1, <3>2
  <2>12. Carried(sent', sent, i, OfPage)
    <3>1. PICK ls : ls = sent' OBVIOUS
    <3>2. Carried(ls, ps, 0, OfPage) BY <2>11, <3>1
    <3>3. Carried(ls, sent, i, OfPage) BY <1>4, <3>2, KeptTwice
    <3> QED BY <3>1, <3>3
  <2>13. spoiled' = S /\ Slate(sent', spoiled') /\ spoiled \subseteq spoiled' BY <2>5, <2>9, <2>11
  <2>14. \A p \in People \ spoiled' : ~ Settled(p)
    <3>1. ASSUME NEW p, Settled(p) PROVE p \in spoiled'
      <4>1. p \in Being(ps) BY <1>2, <1>4, <1>5, <3>1, SettledBeing
      <4> QED BY <2>5, <4>1
    <3> QED BY <3>1
  <2>15. desk'.module.selected = {} BY <2>4, <2>6
  <2>16. PayrollKept' /\ wanted' = [p \in People |-> wanted'[p]] /\ \A p \in People : wanted'[p] \in Int
    BY <2>5, <2>13, <2>14, <2>15, PayrollTurned
  <2>17. DeskShape' BY <1>1, <2>2, <2>4, <2>6, <2>16 DEF DeskShape
  <2> QED BY <2>1, <2>6, <2>11, <2>12, <2>16, <2>17
<1> QED BY <1>7, <1>8

\* An answer about the licence that is taken: the page is right, in doubt, or about to be told.
LEMMA LicenceTaken ==
  ASSUME DeskInv, NEW i \in DOMAIN sent, Carried(sent', sent, i, OfPage), UNCHANGED <<fees, licensed, blind>>,
         desk'.feature = desk.feature, sent[i].kind = "unlock" \/ desk'.unlocking = desk.unlocking,
         \/ "licence" \in shaky'
         \/ \E j \in DOMAIN sent \ {i} : sent[j].kind = "status" \/ Bought(sent[j])
         \/ desk'.unlocked <=> desk'.feature \in licensed
  PROVE  LicenceKept'
<1>0. "unlock" \in OfPage /\ "status" \in OfPage BY DEF OfPage
<1>1. PICK f \in [DOMAIN sent' -> DOMAIN sent \cup {0}] :
     /\ \A n \in DOMAIN sent' : sent'[n].kind \in OfPage => f[n] \in DOMAIN sent \ {i} /\ Kin(sent'[n], sent[f[n]])
     /\ \A m, n \in DOMAIN sent' : sent'[m].kind \in OfPage /\ sent'[n].kind \in OfPage /\ f[m] = f[n] => m = n
     /\ \A k \in DOMAIN sent \ {i} : sent[k].kind \in OfPage => \E n \in DOMAIN sent' : sent'[n].kind \in OfPage /\ f[n] = k
  BY DEF Carried
<1>2. \A g \in Features \ blind' : fees'[g] = IF g \in licensed' THEN 1 ELSE 0
  BY DEF DeskInv, LicenceKept
<1>3. \A j, k \in DOMAIN sent : sent[j].kind = "unlock" /\ sent[k].kind = "unlock" => j = k
  BY DEF DeskInv, LicenceKept
<1>4. ASSUME NEW n \in DOMAIN sent' PROVE LicenceCall(sent[n])'
  <2>1. CASE sent'[n].kind \in OfPage
    <3>1. f[n] \in DOMAIN sent \ {i} /\ Kin(sent'[n], sent[f[n]]) BY <1>1, <2>1
    <3>2. LicenceCall(sent[f[n]]) BY <3>1 DEF DeskInv, LicenceKept
    <3>3. sent'[n].kind = "unlock" => desk'.unlocking
      BY <1>3, <3>1, <3>2 DEF Kin, LicenceCall
    <3> QED BY <3>1, <3>2, <3>3 DEF LicenceCall, Bought, Kin
  <2>2. CASE sent'[n].kind \notin OfPage
    BY <1>0, <2>2 DEF LicenceCall, Bought
  <2> QED BY <2>1, <2>2
<1>5. ASSUME NEW m \in DOMAIN sent', NEW n \in DOMAIN sent', sent'[m].kind = "unlock", sent'[n].kind = "unlock"
      PROVE  m = n
  <2>1. f[m] \in DOMAIN sent /\ f[n] \in DOMAIN sent /\ sent[f[m]].kind = "unlock" /\ sent[f[n]].kind = "unlock"
    BY <1>0, <1>1, <1>5 DEF Kin
  <2> QED BY <1>0, <1>1, <1>3, <1>5, <2>1
<1>6. ASSUME NEW k \in DOMAIN sent \ {i}, sent[k].kind = "status" \/ Bought(sent[k])
      PROVE  \E n \in DOMAIN sent' : sent'[n].kind = "status" \/ Bought(sent'[n])
  <2>1. sent[k].kind \in OfPage BY <1>0, <1>6 DEF Bought
  <2>2. PICK n \in DOMAIN sent' : sent'[n].kind \in OfPage /\ f[n] = k BY <1>1, <2>1
  <2>3. Kin(sent'[n], sent[k]) BY <1>1, <2>2
  <2> QED BY <1>6, <2>2, <2>3 DEF Kin, Bought
<1>7. "licence" \in shaky' \/ (\E j \in DOMAIN sent' : sent'[j].kind = "status" \/ Bought(sent'[j]))
       \/ (desk'.unlocked <=> desk'.feature \in licensed')
  BY <1>6
<1>8. \A n \in DOMAIN sent' : LicenceCall(sent[n])' BY <1>4
<1> QED BY <1>2, <1>5, <1>7, <1>8 DEF LicenceKept, Bought

\* OnStatus keeps the invariant.
LEMMA OnStatusInv ==
  ASSUME DeskInv, NEW i \in DOMAIN sent, OnStatus(i)
  PROVE  DeskInv'
<1> DEFINE c == sent[i]
<1>0. PICK off, now : off = FALSE /\ now = IF c.ok THEN c.feature \in c.value ELSE desk.unlocked OBVIOUS
<1>1. PICK L : L = [desk EXCEPT !.loading = off] OBVIOUS
<1>2. PICK P : P = [L EXCEPT !.unlocked = now] OBVIOUS
<1>3. DeskPage(desk) BY DEF DeskInv, DeskShape
<1>4. /\ DeskPage(L) /\ L.feature = desk.feature /\ L.unlocked = desk.unlocked /\ L.unlocking = desk.unlocking
      /\ L.module = desk.module
  BY <1>1, <1>3, PageLoading
<1>5. /\ DeskPage(P) /\ P.feature = desk.feature /\ P.unlocked = now /\ P.unlocking = desk.unlocking
      /\ P.module = desk.module
  BY <1>2, <1>4, PageUnlocked
<1>6. /\ c.kind = "status" /\ c.stage = "done" /\ UNCHANGED <<fees, licensed, blind, paid>>
      /\ Judged(c, c.ok /\ c.newest)
  BY DEF OnStatus, Come, Quietly, bankSide
<1>7. Become(P, RemoveAt(sent, i))
  <2>1. P = [desk EXCEPT !.loading = FALSE, !.unlocked = IF c.ok THEN c.feature \in c.value ELSE @]
    BY <1>0, <1>1, <1>2, <1>3 DEF DeskPage
  <2> QED BY <2>1 DEF OnStatus
<1>8. sent[i].kind \in OfPage BY <1>6 DEF OfPage
<1>9. /\ Flying(sent') /\ Carried(sent', sent, i, OfPage) /\ DeskShape' /\ PayrollKept'
      /\ desk'.feature = P.feature /\ desk'.unlocked = P.unlocked /\ desk'.unlocking = P.unlocking
  BY <1>5, <1>6, <1>7, <1>8, BecomeInv
<1>10. "licence" \in shaky' \/ (desk'.unlocked <=> desk'.feature \in licensed)
  <2>1. LicenceCall(c) BY DEF DeskInv, LicenceKept
  <2>2. CASE c.ok /\ c.newest
    <3>1. c.feature = desk.feature /\ (c.feature \in c.value <=> c.feature \in licensed)
      BY <1>6, <2>1, <2>2 DEF LicenceCall
    <3> QED BY <1>0, <1>5, <1>9, <2>2, <3>1
  <2>3. CASE ~ (c.ok /\ c.newest) BY <1>6, <2>3 DEF Judged, About
  <2> QED BY <2>2, <2>3
<1>11. LicenceKept' BY <1>5, <1>6, <1>9, <1>10, LicenceTaken
<1> QED BY <1>9, <1>11 DEF DeskInv

\* OnUnlock keeps the invariant.
LEMMA OnUnlockInv ==
  ASSUME DeskInv, NEW i \in DOMAIN sent, OnUnlock(i)
  PROVE  DeskInv'
<1> DEFINE c == sent[i]
<1>0. PICK off, now : off = FALSE /\ now = (desk.unlocked \/ c.ok) OBVIOUS
<1>1. PICK L : L = [desk EXCEPT !.unlocking = off] OBVIOUS
<1>2. PICK P : P = [L EXCEPT !.unlocked = now] OBVIOUS
<1>3. DeskPage(desk) BY DEF DeskInv, DeskShape
<1>4. /\ DeskPage(L) /\ L.feature = desk.feature /\ L.unlocked = desk.unlocked
      /\ L.module = desk.module
  BY <1>1, <1>3, PageUnlocking
<1>5. DeskPage(P) /\ P.feature = desk.feature /\ P.unlocked = now /\ P.module = desk.module
  BY <1>2, <1>4, PageUnlocked
<1>6. /\ c.kind = "unlock" /\ c.stage = "done" /\ UNCHANGED <<fees, licensed, blind, paid>>
      /\ IF c.ok THEN Judged(c, c.newest /\ c.feature = desk.feature) ELSE shaky' = shaky
  BY DEF OnUnlock, Come, Quietly, bankSide
<1>7. Become(P, RemoveAt(sent, i))
  <2>1. P = [desk EXCEPT !.unlocking = FALSE, !.unlocked = @ \/ c.ok]
    BY <1>0, <1>1, <1>2, <1>3 DEF DeskPage
  <2> QED BY <2>1 DEF OnUnlock
<1>8. sent[i].kind \in OfPage BY <1>6 DEF OfPage
<1>9. /\ Flying(sent') /\ Carried(sent', sent, i, OfPage) /\ DeskShape' /\ PayrollKept'
      /\ desk'.feature = P.feature /\ desk'.unlocked = P.unlocked
  BY <1>5, <1>6, <1>7, <1>8, BecomeInv
<1>10. \/ "licence" \in shaky'
       \/ \E j \in DOMAIN sent \ {i} : sent[j].kind = "status" \/ Bought(sent[j])
       \/ desk'.unlocked <=> desk'.feature \in licensed
  <2>1. LicenceCall(c) BY DEF DeskInv, LicenceKept
  <2>2. CASE c.ok /\ c.newest /\ c.feature = desk.feature
    <3>1. c.feature \in licensed BY <1>6, <2>1, <2>2 DEF LicenceCall, Bought
    <3> QED BY <1>0, <1>5, <1>9, <2>2, <3>1
  <2>3. CASE c.ok /\ ~ (c.newest /\ c.feature = desk.feature) BY <1>6, <2>3 DEF Judged, About
  <2>4. CASE ~ c.ok
    <3>1. c.kind # "status" /\ ~ Bought(c) BY <1>6, <2>4 DEF Bought
    <3>2. "licence" \in shaky \/ (\E j \in DOMAIN sent : sent[j].kind = "status" \/ Bought(sent[j]))
            \/ (desk.unlocked <=> desk.feature \in licensed)
      BY DEF DeskInv, LicenceKept
    <3>3. desk'.unlocked <=> desk.unlocked BY <1>0, <1>5, <1>9, <2>4
    <3> QED BY <1>5, <1>6, <1>9, <2>4, <3>1, <3>2, <3>3
  <2> QED BY <2>2, <2>3, <2>4
<1>11. LicenceKept' BY <1>5, <1>6, <1>9, <1>10, LicenceTaken
<1> QED BY <1>9, <1>11 DEF DeskInv

\* What a page asks when it arrives at a feature: the licence, and what the module reads.
Arrival(kinds) ==
  /\ Sequence(kinds) /\ "status" \in Range(kinds)
  /\ \A n \in DOMAIN kinds : kinds[n] = "status" \/ kinds[n] \notin Weighty

\* A page that arrives at a feature sends nothing but readings.
LEMMA ArrivalReads ==
  ASSUME NEW s, Sequence(s), \A n \in DOMAIN s : s[n] \notin Weighty, NEW kinds, kinds = <<"status">> \o s
  PROVE  Arrival(kinds)
<1> DEFINE T == {"status"} \cup Range(s)
           one == <<"status">>
<1>1. Len(s) \in Nat /\ DOMAIN s = 1 .. Len(s) /\ s = [j \in 1 .. Len(s) |-> s[j]] BY SequenceFacts
<1>2. s \in Seq(T)
  <2>1. s \in [1 .. Len(s) -> T] BY <1>1 DEF Range
  <2> QED BY <1>1, <2>1, SeqDef
<1>3. one \in Seq(T) /\ Len(one) = 1 /\ one[1] = "status" OBVIOUS
<1> HIDE DEF T, one
<1>4. /\ one \o s \in Seq(T) /\ Len(one \o s) = 1 + Len(s)
      /\ \A j \in 1 .. (1 + Len(s)) : (one \o s)[j] = IF j <= 1 THEN one[j] ELSE s[j - 1]
  <2>1. /\ one \o s \in Seq(T) /\ Len(one \o s) = Len(one) + Len(s)
        /\ \A j \in 1 .. (Len(one) + Len(s)) : (one \o s)[j] = IF j <= Len(one) THEN one[j] ELSE s[j - Len(one)]
    BY <1>2, <1>3, ConcatProperties
  <2> QED BY <1>3, <2>1
<1>5. kinds = one \o s BY DEF one
<1>6. kinds \in Seq(T) /\ Len(kinds) = 1 + Len(s) BY <1>4, <1>5
<1>7. Sequence(kinds) /\ DOMAIN kinds = 1 .. (1 + Len(s)) BY <1>6, SequenceOf, LenProperties
<1>8. 1 \in DOMAIN kinds /\ kinds[1] = "status" BY <1>1, <1>3, <1>4, <1>5, <1>7
<1>9. "status" \in Range(kinds) BY <1>8 DEF Range
<1>10. ASSUME NEW n \in DOMAIN kinds PROVE kinds[n] = "status" \/ kinds[n] \notin Weighty
  <2>1. CASE n = 1 BY <1>8, <2>1
  <2>2. CASE n # 1
    <3>1. n - 1 \in DOMAIN s /\ kinds[n] = s[n - 1] BY <1>1, <1>4, <1>5, <1>7, <2>2
    <3> QED BY <3>1
  <2> QED BY <2>1, <2>2
<1> QED BY <1>7, <1>9, <1>10 DEF Arrival

\* What the page asks when it arrives at another feature, of the licence.
LEMMA ArrivedLicence ==
  ASSUME DeskInv, NEW qs, Flying(qs), Carried(qs, sent, 0, OfPage), NEW kinds, Arrival(kinds),
         NEW f \in Features, sent' = PostedCalls(qs, kinds, f, {}),
         desk'.feature = f, desk'.unlocking = desk.unlocking, UNCHANGED <<fees, licensed, blind>>
  PROVE  LicenceKept'
<1>0. OfPage = {"status", "unlock"} /\ OfPage \subseteq Weighty BY WeightyKinds DEF OfPage
<1>a. PICK a : a = {} OBVIOUS
<1>b. Sequence(kinds) BY DEF Arrival
<1> DEFINE ls == PostedCalls(qs, kinds, f, a)
           os == Overtaken(qs, Range(kinds))
<1>2. /\ DOMAIN ls = 1 .. (Len(qs) + Len(kinds)) /\ \A j \in DOMAIN qs : ls[j] = os[j]
      /\ \A j \in DOMAIN ls \ DOMAIN qs : \E n \in DOMAIN kinds : ls[j] = FreshCall(kinds[n], f, a)
      /\ \A n \in DOMAIN kinds : ls[Len(qs) + n] = FreshCall(kinds[n], f, a)
  <2>1. /\ DOMAIN ls = 1 .. (Len(qs) + Len(kinds)) /\ \A j \in DOMAIN qs : ls[j] = os[j]
        /\ \A j \in DOMAIN ls \ DOMAIN qs : \E n \in DOMAIN kinds : ls[j] = FreshCall(kinds[n], f, a)
    BY <1>b, PostedIs
  <2>2. \A n \in DOMAIN kinds : ls[Len(qs) + n] = FreshCall(kinds[n], f, a)
    BY <1>b, PostedIs
  <2> QED BY <2>1, <2>2
<1>3. \A j \in DOMAIN qs : Kin(os[j], qs[j]) /\ (qs[j].kind = "status" => ~ os[j].newest)
  <2>1. PICK R : R = Range(kinds) OBVIOUS
  <2>2. "status" \in R BY <2>1 DEF Arrival
  <2>3. os = Overtaken(qs, R) BY <2>1
  <2> HIDE DEF os
  <2>4. ASSUME NEW j \in DOMAIN qs PROVE Kin(os[j], qs[j]) /\ (qs[j].kind = "status" => ~ os[j].newest)
    <3>1. /\ Kin(Overtaken(qs, R)[j], qs[j])
          /\ "status" \in R /\ qs[j].kind = "status" => ~ Overtaken(qs, R)[j].newest
      BY OvertakenKept
    <3>2. PICK e : e = os[j] OBVIOUS
    <3>3. e = Overtaken(qs, R)[j] BY <2>3, <3>2
    <3>4. Kin(e, qs[j]) BY <3>1, <3>3
    <3>5. qs[j].kind = "status" => ~ e.newest BY <2>2, <3>1, <3>3
    <3> QED BY <3>2, <3>4, <3>5
  <2> QED BY <2>4
<1>4. PICK g \in [DOMAIN qs -> DOMAIN sent \cup {0}] :
     /\ \A n \in DOMAIN qs : qs[n].kind \in OfPage => g[n] \in DOMAIN sent \ {0} /\ Kin(qs[n], sent[g[n]])
     /\ \A m, n \in DOMAIN qs : qs[m].kind \in OfPage /\ qs[n].kind \in OfPage /\ g[m] = g[n] => m = n
     /\ \A k \in DOMAIN sent \ {0} : sent[k].kind \in OfPage => \E n \in DOMAIN qs : qs[n].kind \in OfPage /\ g[n] = k
  BY DEF Carried
<1>6. sent' = ls BY <1>a
<1> HIDE DEF ls, os
<1>5. ASSUME NEW j \in DOMAIN ls \ DOMAIN qs
      PROVE  ls[j].kind # "unlock" /\ ls[j].feature = f /\ ls[j].stage = "sent"
  <2>1. PICK n \in DOMAIN kinds : ls[j] = FreshCall(kinds[n], f, a) BY <1>2
  <2>2. ls[j].kind = kinds[n] /\ ls[j].feature = f /\ ls[j].stage = "sent" BY <2>1 DEF FreshCall
  <2> QED BY <1>0, <2>2 DEF Arrival
<1>7. ASSUME NEW n \in DOMAIN sent' PROVE LicenceCall(sent[n])'
  <2>1. CASE n \notin DOMAIN qs
    BY <1>5, <1>6, <2>1 DEF LicenceCall, Bought
  <2>2. CASE n \in DOMAIN qs
    <3>1. Kin(sent'[n], qs[n]) /\ (qs[n].kind = "status" => ~ sent'[n].newest) BY <1>2, <1>3, <1>6, <2>2
    <3>2. CASE qs[n].kind \in OfPage
      <4>1. g[n] \in DOMAIN sent /\ Kin(qs[n], sent[g[n]]) BY <1>4, <2>2, <3>2
      <4>2. LicenceCall(sent[g[n]]) BY <4>1 DEF DeskInv, LicenceKept
      <4> QED BY <3>1, <4>1, <4>2 DEF LicenceCall, Bought, Kin
    <3>3. CASE qs[n].kind \notin OfPage BY <1>0, <3>1, <3>3 DEF LicenceCall, Bought, Kin
    <3> QED BY <3>2, <3>3
  <2> QED BY <2>1, <2>2
<1>8. ASSUME NEW m \in DOMAIN sent', NEW n \in DOMAIN sent', sent'[m].kind = "unlock", sent'[n].kind = "unlock"
      PROVE  m = n
  <2>1. m \in DOMAIN qs /\ n \in DOMAIN qs BY <1>5, <1>6, <1>8
  <2>a. Kin(ls[m], qs[m]) /\ Kin(ls[n], qs[n]) BY <1>2, <1>3, <2>1
  <2>2. qs[m].kind = "unlock" /\ qs[n].kind = "unlock" BY <1>6, <1>8, <2>a DEF Kin
  <2>3. /\ g[m] \in DOMAIN sent /\ g[n] \in DOMAIN sent /\ sent[g[m]].kind = "unlock" /\ sent[g[n]].kind = "unlock"
    BY <1>0, <1>4, <2>1, <2>2 DEF Kin
  <2>4. g[m] = g[n] BY <2>3 DEF DeskInv, LicenceKept
  <2> QED BY <1>0, <1>4, <2>1, <2>2, <2>4
<1>9. \E j \in DOMAIN sent' : sent'[j].kind = "status"
  <2>1. Len(qs) \in Nat /\ Len(kinds) \in Nat /\ DOMAIN kinds = 1 .. Len(kinds) BY <1>b, SequenceFacts DEF Flying
  <2>2. PICK n \in DOMAIN kinds : kinds[n] = "status" BY DEF Range, Arrival
  <2>3. Len(qs) + n \in DOMAIN ls BY <1>2, <2>1
  <2>4. ls[Len(qs) + n] = FreshCall(kinds[n], f, a) BY <1>2
  <2>5. ls[Len(qs) + n].kind = kinds[n] BY <2>4 DEF FreshCall
  <2> QED BY <1>6, <2>2, <2>3, <2>5
<1>10. \A g2 \in Features \ blind' : fees'[g2] = IF g2 \in licensed' THEN 1 ELSE 0 BY DEF DeskInv, LicenceKept
<1>11. \A n \in DOMAIN sent' : LicenceCall(sent[n])' BY <1>7
<1> QED BY <1>8, <1>9, <1>10, <1>11 DEF LicenceKept, Bought

\* Going to another feature keeps the invariant.
LEMMA GotoInv ==
  ASSUME DeskInv, NEW f \in Features, Goto(f)
  PROVE  DeskInv'
<1>1. /\ DeskPage(desk) /\ DeskModule(desk.module) /\ desk.feature \in Features /\ Flying(sent)
      /\ fees = [g \in Features |-> fees[g]]
      /\ paid = [p \in People |-> paid[p]] /\ \A p \in People : paid[p] \in Int
  BY DEF DeskInv, DeskShape
<1>2. PICK M : M = IF Open(desk) THEN Module(f) ELSE NoModule OBVIOUS
<1>3. PICK s : s = IF Open(desk) THEN ModuleReads(f) ELSE <<>> OBVIOUS
<1>4. PICK kinds : kinds = <<"status">> \o s OBVIOUS
<1>5. PICK qs : qs = Abandoned(sent) OBVIOUS
<1>6. /\ desk' = [desk EXCEPT !.feature = f, !.module = M] /\ sent' = Post(qs, kinds, {})
      /\ wanted' = [p \in People |-> IF p \in desk.module.selected THEN wanted[p] - 1 ELSE wanted[p]]
      /\ spoiled' = spoiled \cup Being(sent) /\ UNCHANGED <<shaky, blind, fees, licensed, paid>>
  BY <1>2, <1>3, <1>4, <1>5 DEF Goto, Being, Acts, bankSide
<1>7. DeskModule(M) /\ M.selected = {} BY <1>2, ModuleMounted
<1>8. Sequence(s) /\ \A n \in DOMAIN s : s[n] \notin Weighty
  <2>1. CASE Open(desk) BY <1>3, <2>1, ModuleMounted
  <2>2. CASE ~ Open(desk)
    <3>1. s = <<>> BY <1>3, <2>2
    <3> QED BY <3>1, ShortSequences
  <2> QED BY <2>1, <2>2
<1>a. Arrival(kinds) BY <1>4, <1>8, ArrivalReads
<1>9. Sequence(kinds) BY <1>a DEF Arrival
<1>10. PICK F : F = [desk EXCEPT !.feature = f] OBVIOUS
<1>11. /\ DeskPage(F) /\ F.feature = f /\ F.unlocking = desk.unlocking
  BY <1>1, <1>10, PageFeature
<1>12. desk' = [F EXCEPT !.module = M] BY <1>1, <1>6, <1>10 DEF DeskPage
<1>13. DeskPage(desk') /\ desk'.feature = f /\ desk'.unlocking = desk.unlocking /\ desk'.module = M
  BY <1>11, <1>12, PageModule
<1>14. Flying(qs) /\ Carried(qs, sent, 0, OfPage) BY <1>1, <1>5, AbandonedKept
<1>15. sent' = PostedCalls(qs, kinds, f, {}) BY <1>6, <1>13, PostIs
<1>16. LicenceKept' BY <1>6, <1>a, <1>13, <1>14, <1>15, ArrivedLicence
<1>17. PICK S : S = spoiled \cup Being(sent) OBVIOUS
<1>18. Slate(qs, S) BY <1>1, <1>5, <1>17, AbandonedSlate
<1>19. \A n \in DOMAIN kinds : kinds[n] \notin Labours BY <1>a, WeightyKinds DEF Labours, Arrival
<1>20. Slate(PostedCalls(qs, kinds, f, {}), S) BY <1>9, <1>14, <1>18, <1>19, PostedSlate
<1>21. Slate(sent', spoiled') /\ spoiled \subseteq spoiled' BY <1>6, <1>15, <1>17, <1>20
<1>22. \A p \in People \ spoiled' : ~ Settled(p)
  <2>1. ASSUME NEW p, Settled(p) PROVE p \in spoiled'
    <3>1. PICK j \in DOMAIN sent : PaysFor(sent[j], p) BY <2>1 DEF Settled
    <3>2. p \in Being(sent) BY <3>1, BatchIn DEF PaysFor
    <3> QED BY <1>6, <3>2
  <2> QED BY <2>1
<1>23. desk'.module.selected = {} BY <1>7, <1>13
<1>24. PayrollKept' /\ wanted' = [p \in People |-> wanted'[p]] /\ \A p \in People : wanted'[p] \in Int
  BY <1>6, <1>21, <1>22, <1>23, PayrollTurned
<1>25. DeskShape' BY <1>1, <1>6, <1>7, <1>13, <1>24 DEF DeskShape
<1>26. Flying(sent')
  <2>1. Flying(PostedCalls(qs, kinds, f, {})) BY <1>9, <1>14, PostedIs
  <2> QED BY <1>15, <2>1
<1> QED BY <1>16, <1>24, <1>25, <1>26 DEF DeskInv

-----------------------------------------------------------------------------
\* Every step of the pro features keeps their invariant.
LEMMA DeskHandledInv ==
  ASSUME DeskInv, NEW i \in DOMAIN sent, Handled(i)
  PROVE  DeskInv'
<1>1. CASE ServeStatus(i) BY <1>1, ServeStatusInv
<1>2. CASE ServeUnlock(i) BY <1>2, ServeUnlockInv
<1>3. CASE \/ ServeBook(i) \/ ServeStats(i) \/ ServePrices(i) \/ ServePortfolio(i) \/ ServeInsights(i)
           \/ ServePayees(i) \/ ServeSearch(i)
  BY <1>3, TellsInv
<1>4. CASE ServeTrade(i) \/ ServeRebalance(i) \/ ServePayroll(i) BY <1>4, ServeOrderInv
<1> QED BY <1>1, <1>2, <1>3, <1>4 DEF Handled

\* Any answer that arrives keeps the invariant of the pro features.
LEMMA DeskAnsweredInv ==
  ASSUME DeskInv, NEW i \in DOMAIN sent, Answered(i)
  PROVE  DeskInv'
<1>1. CASE OnStatus(i) BY <1>1, OnStatusInv
<1>2. CASE OnUnlock(i) BY <1>2, OnUnlockInv
<1>3. CASE OnLibrary(i) \/ OnPrices(i) \/ OnWorth(i) \/ OnSearch(i) \/ OnPayees(i) BY <1>3, AnswersInv
<1>4. CASE OnOrder(i) BY <1>4, OnOrderInv
<1>5. CASE OnPayroll(i) BY <1>5, OnPayrollInv
<1> QED BY <1>1, <1>2, <1>3, <1>4, <1>5 DEF Answered

\* Every step of the pro features keeps their invariant.
LEMMA DeskStepInv == DeskInv /\ [DeskNext]_deskVars => DeskInv'
<1> SUFFICES ASSUME DeskInv, [DeskNext]_deskVars PROVE DeskInv' OBVIOUS
<1>1. CASE Presses
  <2>1. ASSUME NEW f \in Features, Goto(f) PROVE DeskInv' BY <2>1, GotoInv
  <2>2. CASE Unlock BY <2>2, UnlockInv
  <2>3. CASE AccessBook BY <2>3, AccessBookInv
  <2>4. CASE Trade \/ Rebalance \/ PayAll BY <2>4, OrdersInv
  <2>5. ASSUME NEW q, Type(q) PROVE DeskInv' BY <2>5, TypeInv
  <2>6. ASSUME NEW p \in People, PutOn(p) PROVE DeskInv' BY <2>6, PutOnInv
  <2>7. ASSUME NEW p \in People, TakeOff(p) PROVE DeskInv' BY <2>7, TakeOffInv
  <2> QED BY <1>1, <2>1, <2>2, <2>3, <2>4, <2>5, <2>6, <2>7 DEF Presses
<1>2. CASE Runs
  <2>1. CASE TimerFires BY <2>1, TimerFiresInv
  <2>2. CASE ReadPrices BY <2>2, ReadPricesInv
  <2>3. ASSUME NEW i \in DOMAIN sent, Handled(i) PROVE DeskInv' BY <2>3, DeskHandledInv
  <2>4. ASSUME NEW i \in DOMAIN sent, Answered(i) PROVE DeskInv' BY <2>4, DeskAnsweredInv
  <2> QED BY <1>2, <2>1, <2>2, <2>3, <2>4 DEF Runs
<1>3. CASE DeskTick
  <2>1. UNCHANGED <<desk, sent, fees, licensed, paid, shaky, blind, wanted, spoiled>>
    BY <1>3 DEF DeskTick, bankSide, ghosts
  <2> QED BY <2>1, DeskStutter
<1>4. CASE OthersRead
  <2>1. UNCHANGED <<desk, sent, fees, licensed, paid, shaky, blind, wanted, spoiled>>
    BY <1>4 DEF OthersRead, ghosts
  <2> QED BY <2>1, DeskStutter
<1>5. ASSUME NEW i \in DOMAIN sent, QueryFails(i) \/ ServiceFails(i) \/ AnswerLost(i) PROVE DeskInv'
  BY <1>5, QueryFailsInv, ServiceFailsInv, AnswerLostInv
<1>6. ASSUME NEW f \in Features, Lapse(f) PROVE DeskInv' BY <1>6, LapseInv
<1>7. CASE UNCHANGED deskVars
  <2>1. UNCHANGED <<desk, sent, fees, licensed, paid, shaky, blind, wanted, spoiled>>
    BY <1>7 DEF deskVars, bankSide, ghosts
  <2> QED BY <2>1, DeskStutter
<1> QED BY <1>1, <1>2, <1>3, <1>4, <1>5, <1>6, <1>7 DEF DeskNext

\* The pro features begin in their invariant.
LEMMA DeskInitInv == DeskInit => DeskInv
<1> SUFFICES ASSUME DeskInit PROVE DeskInv OBVIOUS
<1>1. PICK f \in Features : desk = [feature |-> f, loading |-> TRUE, unlocked |-> FALSE, unlocking |-> FALSE, module |-> NoModule]
  BY DEF DeskInit
<1>2. desk.feature = f /\ desk.module = NoModule /\ DeskPage(desk) BY <1>1 DEF DeskPage
<1>3. DeskModule(NoModule) /\ NoModule.selected = {} BY <1>2, ModuleMounted
<1>4. PICK fresh : fresh = {} OBVIOUS
<1>5. sent = <<FreshCall("status", f, fresh)>> BY <1>2, <1>4 DEF DeskInit, FreshCall
<1>6. PICK c, k : k = "status" /\ c = FreshCall(k, f, fresh) OBVIOUS
<1>7. Proper(c) /\ c.kind = "status" /\ c.feature = f /\ c.stage = "sent" BY <1>6, AskingProper
<1>8. sent = <<c>> BY <1>5, <1>6
<1>9. Sequence(sent) /\ DOMAIN sent = {1} /\ sent[1] = c BY <1>8, ShortSequences
<1>10. Flying(sent) BY <1>7, <1>9 DEF Flying
<1>11. /\ fees = [g \in Features |-> IF g \in licensed THEN 1 ELSE 0] /\ paid = [p \in People |-> 0]
       /\ wanted = paid /\ spoiled = {}
  BY DEF DeskInit
<1>12. DeskShape
  <2>1. DeskModule(desk.module) /\ desk.feature \in Features BY <1>2, <1>3
  <2>2. fees = [g \in Features |-> fees[g]] BY <1>11
  <2>3. paid = [p \in People |-> paid[p]] /\ \A p \in People : paid[p] \in Int BY <1>11
  <2> QED BY <1>2, <1>11, <2>1, <2>2, <2>3 DEF DeskShape
<1>13. LicenceKept
  <2>1. \A g \in Features \ blind : fees[g] = IF g \in licensed THEN 1 ELSE 0 BY <1>11
  <2>2. \A j \in DOMAIN sent : LicenceCall(sent[j]) BY <1>2, <1>7, <1>9 DEF LicenceCall, Bought
  <2> QED BY <1>7, <1>9, <2>1, <2>2 DEF LicenceKept
<1>14. PayrollKept
  <2>1. \A p \in People : wanted[p] = paid[p] + IF p \in desk.module.selected /\ ~ Settled(p) THEN 1 ELSE 0
    BY <1>2, <1>3, <1>11
  <2>2. \A j \in DOMAIN sent : LabourCall(sent[j]) BY <1>7, <1>9 DEF LabourCall, Labours
  <2> QED BY <1>9, <2>1, <2>2 DEF PayrollKept
<1> QED BY <1>10, <1>12, <1>13, <1>14 DEF DeskInv

\* What the invariant promises.
LEMMA DeskPromise == DeskInv => LicenceIsPaidOnce /\ PayrollPaysTheList
<1> SUFFICES ASSUME DeskInv PROVE LicenceIsPaidOnce /\ PayrollPaysTheList OBVIOUS
<1>1. LicenceIsPaidOnce
  <2>1. \A f \in Features \ blind : fees[f] = IF f \in licensed THEN 1 ELSE 0 BY DEF DeskInv, LicenceKept
  <2> QED BY <2>1 DEF LicenceIsPaidOnce
<1>2. ASSUME Batches(sent) = {}, NEW p \in People \ spoiled
      PROVE  wanted[p] = paid[p] + IF p \in desk.module.selected THEN 1 ELSE 0
  <2>1. \A j \in DOMAIN sent : sent[j].kind # "pay" BY <1>2 DEF Batches
  <2>2. ~ Settled(p) BY <2>1 DEF Settled, PaysFor
  <2> QED BY <1>2, <2>2 DEF DeskInv, PayrollKept
<1>3. PayrollPaysTheList BY <1>2 DEF PayrollPaysTheList
<1> QED BY <1>1, <1>3

-----------------------------------------------------------------------------
(* What a pro feature shows. *)
\* A call that is still for its module is for the module that is shown.
AtHome(c) ==
  /\ c.kind \notin Orders \/ c.stage = "done" => c.here
  /\ c.kind = "prices" => Shows("crypto-trading")
  /\ c.kind \in {"book", "stats"} /\ c.here => Shows("ai-insights")
CallsAtHome == \A j \in DOMAIN sent : AtHome(sent[j])

\* An answer that was neither overtaken nor outdated says what is stored, and the module shows
\* that or reads it again.
Sure(c) == c.stage = "done" /\ c.ok /\ c.newest
WorthTold(c) == c.kind \in {"portfolio", "insights"} /\ Sure(c) => c.number = worth
ReadsWorth(c) == c.kind \in {"portfolio", "insights"} \/ (c.kind \in {"trade", "rebalance"} /\ c.stage = "done" /\ c.ok)
WorthKept ==
  /\ \A j \in DOMAIN sent : WorthTold(sent[j])
  /\ \A f \in {"crypto-trading", "wealth-management-pro"} : Shows(f) /\ "worth" \notin shaky =>
       desk.module.value = worth \/ \E j \in DOMAIN sent : ReadsWorth(sent[j])

FoundTold(c) ==
  /\ c.kind = "search" /\ c.stage = "done" /\ c.ok => c.value = UNION {Found[q] : q \in c.arg}
  /\ c.kind = "search" /\ c.newest => desk.module.timer \/ (c.arg = {desk.module.box} /\ desk.module.box # Short)
Hunted == IF desk.module.box = Short THEN {} ELSE Found[desk.module.box]
FoundKept ==
  /\ \A j \in DOMAIN sent : FoundTold(sent[j])
  /\ Shows("bulk-payroll-processing") /\ "results" \notin shaky =>
       desk.module.timer \/ desk.module.results = Hunted \/ \E j \in DOMAIN sent : sent[j].kind = "search"

PriceTold(c) == c.kind = "prices" /\ c.stage = "done" /\ c.ok =>
  c.at \in Nat /\ (c.number = Static \/ (c.number \in Nat /\ c.at <= c.number + CacheTime - 1))
PriceKept ==
  /\ \A j \in DOMAIN sent : PriceTold(sent[j])
  /\ today \in Nat /\ cache \in Nat \cup {Nothing} /\ desk.module.due \in Nat
  /\ desk.module.price # Nothing => Shows("crypto-trading")
  /\ Shows("crypto-trading") => today <= desk.module.due /\ desk.module.due <= today + Period
  /\ desk.module.price \in Nat /\ "price" \notin shaky =>
       \/ desk.module.due <= desk.module.price + CacheTime - 1 + Period
       \/ \E j \in DOMAIN sent : sent[j].kind = "prices"
GlassInv == CallsAtHome /\ WorthKept /\ FoundKept /\ PriceKept

\* A call as it was, but for what it is known to have missed.
Peer(c, d) == Kin(c, d) /\ c.number = d.number /\ c.at = d.at
\* ls is the calls of ms but those at K, and those of new.
Continues(ls, ms, K, new) ==
  /\ \A j \in DOMAIN ls : ls[j] \in new \/ \E i \in DOMAIN ms \ K : Peer(ls[j], ms[i])
  /\ \A i \in DOMAIN ms \ K : \E j \in DOMAIN ls : Peer(ls[j], ms[i])
  /\ \A c \in new : \E j \in DOMAIN ls : ls[j] = c

\* Calls that stay, or are changed in place, continue.
LEMMA SelfContinues == \A ms : Continues(ms, ms, {}, {})
BY DEF Continues, Peer, Kin

\* Two steps of a call make one.
LEMMA PeersOnce == \A a, b, c : Peer(a, b) /\ Peer(b, c) => Peer(a, c)
BY DEF Peer, Kin

\* A call that is replaced leaves the others.
LEMMA InPlaceContinues ==
  ASSUME NEW ms, NEW i \in DOMAIN ms, NEW d
  PROVE  Continues([ms EXCEPT ![i] = d], ms, {i}, {d})
BY DEF Continues, Peer, Kin

\* Calls of which some grew old are those they were,
LEMMA OldContinues ==
  ASSUME NEW ms, NEW os, NEW ls, NEW K, NEW new, DOMAIN os = DOMAIN ms, \A j \in DOMAIN ms : Peer(os[j], ms[j]),
         Continues(ls, os, K, new)
  PROVE  Continues(ls, ms, K, new)
<1>1. \A j \in DOMAIN ls : ls[j] \in new \/ \E i \in DOMAIN ms \ K : Peer(ls[j], ms[i])
  BY PeersOnce DEF Continues
<1>2. \A i \in DOMAIN ms \ K : \E j \in DOMAIN ls : Peer(ls[j], ms[i])
  BY PeersOnce DEF Continues
<1> QED BY <1>1, <1>2 DEF Continues
\* and calls that are added to those that were left join them.
LEMMA ContinuesOn ==
  ASSUME NEW ms, NEW os, NEW ls, NEW K, NEW new, Continues(os, ms, K, {}), Continues(ls, os, {}, new)
  PROVE  Continues(ls, ms, K, new)
<1>1. \A j \in DOMAIN ls : ls[j] \in new \/ \E i \in DOMAIN ms \ K : Peer(ls[j], ms[i])
  BY PeersOnce DEF Continues
<1>2. \A i \in DOMAIN ms \ K : \E j \in DOMAIN ls : Peer(ls[j], ms[i])
  BY PeersOnce DEF Continues
<1> QED BY <1>1, <1>2 DEF Continues

\* Marking a call as overtaken leaves it as it is.
LEMMA MarkedPeer ==
  ASSUME NEW c, Proper(c), NEW b, NEW d, d = [c EXCEPT !.newest = @ /\ ~ b]
  PROVE  Proper(d) /\ Peer(d, c) /\ (b => ~ d.newest)
<1>1. d = [kind |-> c.kind, feature |-> c.feature, arg |-> c.arg, stage |-> c.stage, ok |-> c.ok,
           value |-> c.value, number |-> c.number, here |-> c.here, newest |-> c.newest /\ ~ b, at |-> c.at]
  BY DEF Proper, DeskCall
<1> QED BY <1>1 DEF Proper, Peer, Kin, DeskCall

\* What is overtaken is only less new.
LEMMA OvertakenPeers ==
  ASSUME NEW ms, Flying(ms), NEW R
  PROVE  /\ DOMAIN Overtaken(ms, R) = DOMAIN ms
         /\ \A j \in DOMAIN ms : /\ Peer(Overtaken(ms, R)[j], ms[j])
                                 /\ "search" \in R /\ ms[j].kind = "search" => ~ Overtaken(ms, R)[j].newest
<1> DEFINE os == Overtaken(ms, R)
           crossed(j) == \E k \in R \cap Reading : ms[j].kind \in Reading /\ About(k) = About(ms[j].kind)
<1>1. DOMAIN os = DOMAIN ms BY DEF Overtaken
<1>2. ASSUME NEW j \in DOMAIN ms
      PROVE  Peer(os[j], ms[j]) /\ ("search" \in R /\ ms[j].kind = "search" => ~ os[j].newest)
  <2> DEFINE c == ms[j]
  <2>1. Proper(c) BY DEF Flying
  <2>2. "search" \in R /\ c.kind = "search" => crossed(j) BY DEF Reading
  <2>3. PICK b : b = crossed(j) OBVIOUS
  <2>4. os[j] = [c EXCEPT !.newest = @ /\ ~ b] BY <2>3 DEF Overtaken
  <2> HIDE DEF c, os, crossed
  <2>5. PICK d : d = os[j] OBVIOUS
  <2>6. Peer(d, c) /\ (b => ~ d.newest) BY <2>1, <2>4, <2>5, MarkedPeer
  <2> QED BY <2>2, <2>3, <2>5, <2>6 DEF c
<1> QED BY <1>1, <1>2

\* What is posted joins the calls in flight.
LEMMA PostedContinues ==
  ASSUME NEW ms, Flying(ms), NEW kinds, Sequence(kinds), NEW f \in Features, NEW a
  PROVE  Continues(PostedCalls(ms, kinds, f, a), ms, {}, {FreshCall(kinds[n], f, a) : n \in DOMAIN kinds})
<1> DEFINE ls == PostedCalls(ms, kinds, f, a)
           os == Overtaken(ms, Range(kinds))
           new == {FreshCall(kinds[n], f, a) : n \in DOMAIN kinds}
<1>1. Len(ms) \in Nat /\ DOMAIN ms = 1 .. Len(ms) BY SequenceFacts DEF Flying
<1>2. Len(kinds) \in Nat /\ DOMAIN kinds = 1 .. Len(kinds) BY SequenceFacts
<1>3. /\ DOMAIN ls = 1 .. (Len(ms) + Len(kinds)) /\ \A j \in DOMAIN ms : ls[j] = os[j]
      /\ \A j \in DOMAIN ls \ DOMAIN ms : \E n \in DOMAIN kinds : ls[j] = FreshCall(kinds[n], f, a)
      /\ \A n \in DOMAIN kinds : ls[Len(ms) + n] = FreshCall(kinds[n], f, a)
  BY PostedIs
<1>4. \A j \in DOMAIN ms : Peer(os[j], ms[j]) BY OvertakenPeers
<1> HIDE DEF ls, os
<1>5. \A j \in DOMAIN ms : j \in DOMAIN ls /\ Peer(ls[j], ms[j]) BY <1>1, <1>2, <1>3, <1>4
<1>6. \A n \in DOMAIN kinds : Len(ms) + n \in DOMAIN ls BY <1>1, <1>2, <1>3
<1>7. \A j \in DOMAIN ls : ls[j] \in new \/ (j \in DOMAIN ms /\ Peer(ls[j], ms[j])) BY <1>3, <1>5
<1>8. \A c \in new : \E j \in DOMAIN ls : ls[j] = c BY <1>3, <1>6
<1> HIDE DEF new
<1> QED BY <1>5, <1>7, <1>8 DEF Continues, ls, new

\* A request that is sent joins those in flight.
LEMMA SentContinues ==
  ASSUME DeskInv, NEW k, NEW arg, desk'.feature = desk.feature, sent' = Post(sent, <<k>>, arg)
  PROVE  Continues(sent', sent, {}, {FreshCall(k, desk.feature, arg)})
<1>0. PICK f : f = desk.feature OBVIOUS
<1> DEFINE kinds == <<k>>
<1>1. Sequence(kinds) /\ DOMAIN kinds = {1} /\ kinds[1] = k BY ShortSequences
<1>2. f \in Features /\ Flying(sent) BY <1>0 DEF DeskInv, DeskShape
<1> HIDE DEF kinds
<1>3. sent' = PostedCalls(sent, kinds, f, arg) BY <1>0, PostIs DEF kinds
<1>4. Continues(PostedCalls(sent, kinds, f, arg), sent, {}, {FreshCall(kinds[n], f, arg) : n \in DOMAIN kinds})
  BY <1>1, <1>2, PostedContinues
<1>5. {FreshCall(kinds[n], f, arg) : n \in DOMAIN kinds} = {FreshCall(k, f, arg)} BY <1>1
<1> QED BY <1>0, <1>3, <1>4, <1>5

\* Taking one call out leaves the others.
LEMMA WithoutContinues ==
  ASSUME NEW ms, Flying(ms), NEW x \in DOMAIN ms
  PROVE  Continues(RemoveAt(ms, x), ms, {x}, {})
<1> DEFINE T == Range(ms)
           r == RemoveAt(ms, x)
<1>1. ms \in Seq(T) /\ Len(ms) \in Nat /\ DOMAIN ms = 1 .. Len(ms) BY SequenceFacts DEF Flying, Sequence
<1> HIDE DEF T
<1>2. /\ DOMAIN r = 1 .. (Len(ms) - 1)
      /\ \A j \in DOMAIN r : r[j] = ms[IF j < x THEN j ELSE j + 1]
  BY <1>1, Removed
<1> HIDE DEF r
<1>3. \A c : Peer(c, c) BY DEF Peer, Kin
<1>4. ASSUME NEW j \in DOMAIN r PROVE \E i \in DOMAIN ms \ {x} : Peer(r[j], ms[i])
  <2>1. (IF j < x THEN j ELSE j + 1) \in DOMAIN ms \ {x} BY <1>1, <1>2
  <2> QED BY <1>2, <1>3, <2>1
<1>5. ASSUME NEW i \in DOMAIN ms \ {x} PROVE \E j \in DOMAIN r : Peer(r[j], ms[i])
  <2> DEFINE j == IF i < x THEN i ELSE i - 1
  <2>1. j \in DOMAIN r /\ (IF j < x THEN j ELSE j + 1) = i BY <1>1, <1>2
  <2> HIDE DEF j
  <2> QED BY <1>2, <1>3, <2>1
<1> QED BY <1>4, <1>5 DEF Continues, r

\* A handler's answer takes its place, or goes with its module.
LEMMA PutContinues ==
  ASSUME DeskInv, NEW i \in DOMAIN sent, NEW d, d.here = sent[i].here, sent' = Put(i, d)
  PROVE  Continues(sent', sent, {i}, IF sent[i].here THEN {d} ELSE {})
<1>1. Flying(sent) BY DEF DeskInv
<1>2. CASE sent[i].here BY <1>2, InPlaceContinues DEF Put
<1>3. CASE ~ sent[i].here BY <1>1, <1>3, WithoutContinues DEF Put
<1> QED BY <1>2, <1>3

\* So does that of a handler that changed something, which leaves no sure answer about it.
LEMMA ChangedContinues ==
  ASSUME DeskInv, NEW i \in DOMAIN sent, Changed(i),
         NEW d, d = Replied(sent[i], TRUE, {}, Nothing), "worth" \in Changes(sent[i].kind)
  PROVE  /\ Continues(sent', sent, {i}, IF sent[i].here THEN {d} ELSE {})
         /\ \A j \in DOMAIN sent' : sent'[j] = d \/ ~ (sent'[j].kind \in {"portfolio", "insights"} /\ Sure(sent'[j]))
<1>1. Flying(sent) BY DEF DeskInv
<1> DEFINE c == sent[i]
           old(e) == /\ e.stage = "done" /\ e.kind \in Reading /\ About(e.kind) \in Changes(c.kind)
                     /\ e.kind = "status" => e.feature = c.feature
           marked == [j \in DOMAIN sent |-> [sent[j] EXCEPT !.newest = @ /\ ~ old(sent[j])]]
           new == IF c.here THEN {d} ELSE {}
<1>2. sent' = IF c.here THEN [marked EXCEPT ![i] = d] ELSE RemoveAt(marked, i) BY DEF Changed
<1>3. DOMAIN marked = DOMAIN sent /\ marked = [j \in DOMAIN sent |-> marked[j]] OBVIOUS
<1>4. ASSUME NEW j \in DOMAIN sent
      PROVE  Proper(marked[j]) /\ Peer(marked[j], sent[j]) /\ (old(sent[j]) => ~ marked[j].newest)
  <2> DEFINE e == sent[j]
  <2>1. Proper(e) BY <1>1 DEF Flying
  <2>2. PICK b : b = old(e) OBVIOUS
  <2>3. marked[j] = [e EXCEPT !.newest = @ /\ ~ b] BY <2>2
  <2> HIDE DEF e, marked, old
  <2>4. PICK n : n = marked[j] OBVIOUS
  <2>5. Proper(n) /\ Peer(n, e) /\ (b => ~ n.newest) BY <2>1, <2>3, <2>4, MarkedPeer
  <2> QED BY <2>2, <2>4, <2>5 DEF e
<1>5. \A j \in DOMAIN sent : sent[j].stage = "done" /\ sent[j].kind \in {"portfolio", "insights"} => old(sent[j])
  BY DEF Reading, About
<1> HIDE DEF marked, old
<1>6. Flying(marked)
  <2>1. \A j \in DOMAIN sent : marked[j].kind = sent[j].kind BY <1>4 DEF Peer, Kin
  <2> QED BY <1>1, <1>3, <1>4, <2>1, MarkedKept DEF Peer
<1>7. Continues(sent', marked, {i}, new)
  <2>1. CASE c.here BY <1>2, <1>3, <2>1, InPlaceContinues
  <2>2. CASE ~ c.here BY <1>2, <1>3, <1>6, <2>2, WithoutContinues
  <2> QED BY <2>1, <2>2
<1>8. \A j \in DOMAIN marked : ~ (marked[j].kind \in {"portfolio", "insights"} /\ Sure(marked[j]))
  BY <1>3, <1>4, <1>5 DEF Peer, Kin, Sure
<1>9. ASSUME NEW j \in DOMAIN sent', sent'[j] # d
      PROVE  ~ (sent'[j].kind \in {"portfolio", "insights"} /\ Sure(sent'[j]))
  <2>1. PICK k \in DOMAIN marked : Peer(sent'[j], marked[k]) BY <1>7, <1>9 DEF Continues
  <2> QED BY <1>8, <2>1 DEF Peer, Kin, Sure
<1>10. \A j \in DOMAIN sent : Peer(marked[j], sent[j]) BY <1>4
<1>11. Continues(sent', sent, {i}, new) BY <1>3, <1>7, <1>10, OldContinues
<1> QED BY <1>9, <1>11

(* Steps that leave a part of what is shown. *)
LEMMA HomeStays ==
  ASSUME CallsAtHome, NEW K, NEW new, Continues(sent', sent, K, new), \A f \in Features : Shows(f)' <=> Shows(f),
         \A c \in new : AtHome(c)
  PROVE  CallsAtHome'
<1>1. "crypto-trading" \in Features /\ "ai-insights" \in Features BY DEF Features
<1>2. ASSUME NEW j \in DOMAIN sent' PROVE AtHome(sent'[j])
  BY DEF Continues, CallsAtHome, AtHome, Peer, Kin
<1>3. \A j \in DOMAIN sent' : AtHome(sent[j])' BY <1>1, <1>2 DEF AtHome
<1> QED BY <1>3 DEF CallsAtHome

\* The holdings: what was to read them again is followed by another, or they are in doubt.
LEMMA WorthStays ==
  ASSUME WorthKept, NEW K, NEW new, Continues(sent', sent, K, new), \A f \in Features : Shows(f)' => Shows(f),
         worth' = worth, desk'.module.value = desk.module.value \/ "worth" \in shaky',
         "worth" \in shaky => "worth" \in shaky', \A c \in new : WorthTold(c),
         \A i \in K \cap DOMAIN sent : ReadsWorth(sent[i]) => "worth" \in shaky' \/ \E c \in new : ReadsWorth(c)
  PROVE  WorthKept'
<1>1. "crypto-trading" \in Features /\ "wealth-management-pro" \in Features BY DEF Features
<1>2. \A j \in DOMAIN sent' : WorthTold(sent'[j])
  BY DEF Continues, WorthKept, WorthTold, Sure, Peer, Kin
<1>3. \A j \in DOMAIN sent' : WorthTold(sent[j])' BY <1>2 DEF WorthTold, Sure
<1>4. ASSUME NEW k \in DOMAIN sent, ReadsWorth(sent[k]), "worth" \notin shaky'
      PROVE  \E j \in DOMAIN sent' : ReadsWorth(sent'[j])
  <2>1. CASE k \in K BY <1>4, <2>1 DEF Continues
  <2>2. CASE k \notin K
    <3>1. PICK j \in DOMAIN sent' : Peer(sent'[j], sent[k]) BY <2>2 DEF Continues
    <3> QED BY <1>4, <3>1 DEF Peer, Kin, ReadsWorth
  <2> QED BY <2>1, <2>2
<1>5. ASSUME NEW f \in {"crypto-trading", "wealth-management-pro"}, Shows(f)', "worth" \notin shaky'
      PROVE  desk'.module.value = worth' \/ \E j \in DOMAIN sent' : ReadsWorth(sent'[j])
  <2>1. Shows(f) BY <1>1, <1>5
  <2> QED BY <1>4, <1>5, <2>1 DEF WorthKept
<1>6. \A j \in DOMAIN sent' : ReadsWorth(sent[j])' <=> ReadsWorth(sent'[j]) BY DEF ReadsWorth
<1> QED BY <1>3, <1>5, <1>6 DEF WorthKept

\* What was found: the box, its timer and the results stay, and a search is followed by another.
LEMMA FoundStays ==
  ASSUME FoundKept, NEW K, NEW new, Continues(sent', sent, K, new), \A f \in Features : Shows(f)' => Shows(f),
         desk'.module.box = desk.module.box, desk'.module.timer = desk.module.timer,
         desk'.module.results = desk.module.results \/ "results" \in shaky',
         "results" \in shaky => "results" \in shaky', \A c \in new : FoundTold(c),
         \A i \in K \cap DOMAIN sent : sent[i].kind = "search" => "results" \in shaky' \/ \E c \in new : c.kind = "search"
  PROVE  FoundKept'
<1>1. "bulk-payroll-processing" \in Features BY DEF Features
<1>2. \A j \in DOMAIN sent' : FoundTold(sent'[j])
  BY DEF Continues, FoundKept, FoundTold, Peer, Kin
<1>3. \A j \in DOMAIN sent' : FoundTold(sent[j])' BY <1>2 DEF FoundTold
<1>4. ASSUME NEW k \in DOMAIN sent, sent[k].kind = "search", "results" \notin shaky'
      PROVE  \E j \in DOMAIN sent' : sent'[j].kind = "search"
  <2>1. CASE k \in K BY <1>4, <2>1 DEF Continues
  <2>2. CASE k \notin K
    <3>1. PICK j \in DOMAIN sent' : Peer(sent'[j], sent[k]) BY <2>2 DEF Continues
    <3> QED BY <1>4, <3>1 DEF Peer, Kin
  <2> QED BY <2>1, <2>2
<1>5. Hunted' = Hunted BY DEF Hunted
<1>6. ASSUME Shows("bulk-payroll-processing")', "results" \notin shaky'
      PROVE  \/ desk'.module.timer \/ desk'.module.results = Hunted'
             \/ \E j \in DOMAIN sent' : sent'[j].kind = "search"
  BY <1>1, <1>4, <1>5, <1>6 DEF FoundKept
<1> QED BY <1>3, <1>6 DEF FoundKept

\* The prices: what they are and when they are due stay, and a reading is followed by another.
LEMMA PriceStays ==
  ASSUME PriceKept, NEW K, NEW new, Continues(sent', sent, K, new), \A f \in Features : Shows(f)' <=> Shows(f),
         today' = today, cache' \in Nat \cup {Nothing}, desk'.module.due = desk.module.due,
         desk'.module.price = desk.module.price,
         "price" \in shaky => "price" \in shaky', \A c \in new : PriceTold(c),
         \A i \in K \cap DOMAIN sent : sent[i].kind = "prices" => "price" \in shaky' \/ \E c \in new : c.kind = "prices"
  PROVE  PriceKept'
<1>1. "crypto-trading" \in Features BY DEF Features
<1>2. \A j \in DOMAIN sent' : PriceTold(sent'[j])
  BY DEF Continues, PriceKept, PriceTold, Peer, Kin
<1>3. \A j \in DOMAIN sent' : PriceTold(sent[j])' BY <1>2 DEF PriceTold
<1>4. ASSUME NEW k \in DOMAIN sent, sent[k].kind = "prices", "price" \notin shaky'
      PROVE  \E j \in DOMAIN sent' : sent'[j].kind = "prices"
  <2>1. CASE k \in K BY <1>4, <2>1 DEF Continues
  <2>2. CASE k \notin K
    <3>1. PICK j \in DOMAIN sent' : Peer(sent'[j], sent[k]) BY <2>2 DEF Continues
    <3> QED BY <1>4, <3>1 DEF Peer, Kin
  <2> QED BY <2>1, <2>2
<1>5. desk'.module.price \in Nat /\ "price" \notin shaky' =>
       \/ desk'.module.due <= desk'.module.price + CacheTime - 1 + Period
       \/ \E j \in DOMAIN sent' : sent'[j].kind = "prices"
  <2>1. ASSUME desk'.module.price \in Nat, "price" \notin shaky'
        PROVE  \/ desk.module.due <= desk.module.price + CacheTime - 1 + Period
               \/ \E j \in DOMAIN sent : sent[j].kind = "prices"
    BY <2>1 DEF PriceKept
  <2> QED BY <1>4, <2>1
<1>6. Shows("crypto-trading")' => today' <= desk'.module.due /\ desk'.module.due <= today' + Period
  BY <1>1 DEF PriceKept
<1>7. desk'.module.price # Nothing => Shows("crypto-trading")' BY <1>1 DEF PriceKept
<1>8. today' \in Nat /\ desk'.module.due \in Nat BY DEF PriceKept
<1> QED BY <1>3, <1>5, <1>6, <1>7, <1>8 DEF PriceKept

\* The shape of what is shown: a step that changes neither the page nor what its module shows.
Pane(D) == <<D.feature, D.loading, D.unlocked, D.module.value, D.module.price, D.module.due, D.module.box,
             D.module.timer, D.module.results>>
\* What may be said of a call that joins the others.
Told(c) == AtHome(c) /\ WorthTold(c) /\ FoundTold(c) /\ PriceTold(c)
\* The readings a call answers for.
ReadingsOf(c) == (IF ReadsWorth(c) THEN {"worth"} ELSE {}) \cup (IF c.kind = "search" THEN {"results"} ELSE {})
            \cup (IF c.kind = "prices" THEN {"price"} ELSE {})

\* A step that shows nothing new, and whose calls bring what the ones before it would have brought.
LEMMA GlassStays ==
  ASSUME GlassInv, NEW K, NEW new, Continues(sent', sent, K, new), Pane(desk') = Pane(desk),
         UNCHANGED <<today, worth>>, cache' \in Nat \cup {Nothing}, shaky \subseteq shaky',
         \A c \in new : Told(c),
         \A i \in K \cap DOMAIN sent : \A r \in ReadingsOf(sent[i]) : r \in shaky' \/ \E c \in new : r \in ReadingsOf(c)
  PROVE  GlassInv'
<1>1. /\ desk'.feature = desk.feature /\ desk'.loading = desk.loading /\ desk'.unlocked = desk.unlocked
      /\ desk'.module.value = desk.module.value /\ desk'.module.price = desk.module.price
      /\ desk'.module.due = desk.module.due /\ desk'.module.box = desk.module.box
      /\ desk'.module.timer = desk.module.timer /\ desk'.module.results = desk.module.results
  BY DEF Pane
<1>2. \A f \in Features : Shows(f)' <=> Shows(f) BY <1>1 DEF Shows, Open
<1>3. \A c : /\ ReadsWorth(c) <=> "worth" \in ReadingsOf(c)
             /\ c.kind = "search" <=> "results" \in ReadingsOf(c)
             /\ c.kind = "prices" <=> "price" \in ReadingsOf(c)
  BY DEF ReadingsOf
<1>4. CallsAtHome' BY <1>2, HomeStays DEF GlassInv, Told
<1>5. WorthKept' BY <1>1, <1>2, <1>3, WorthStays DEF GlassInv, Told
<1>6. FoundKept' BY <1>1, <1>2, <1>3, FoundStays DEF GlassInv, Told
<1>7. PriceKept' BY <1>1, <1>2, <1>3, PriceStays DEF GlassInv, Told
<1> QED BY <1>4, <1>5, <1>6, <1>7 DEF GlassInv

\* A fresh call says nothing yet.
LEMMA FreshTold ==
  ASSUME NEW k, NEW f, NEW a, NEW c, c = FreshCall(k, f, a), k = "prices" => Shows("crypto-trading"),
         k \in {"book", "stats"} => Shows("ai-insights"),
         k = "search" => a = {desk.module.box} /\ desk.module.box # Short
  PROVE  Told(c) /\ c.kind = k /\ c.stage = "sent"
BY DEF FreshCall, Told, AtHome, WorthTold, FoundTold, PriceTold, Sure

\* What an act writes that is not shown.
LEMMA PaneBeside ==
  ASSUME NEW d, DeskPage(d), DeskModule(d.module), NEW v
  PROVE  /\ Pane([d EXCEPT !.module.working = v]) = Pane(d) /\ Pane([d EXCEPT !.module.selected = v]) = Pane(d)
         /\ Pane([d EXCEPT !.unlocking = v]) = Pane(d)
BY DEF DeskPage, DeskModule, Pane

\* A click that sends something, or changes the list, leaves what is shown.
LEMMA ClickGlass ==
  ASSUME DeskInv, GlassInv, NEW k, NEW arg, sent' = Post(sent, <<k>>, arg), desk'.feature = desk.feature,
         Pane(desk') = Pane(desk), UNCHANGED <<today, worth, cache, shaky>>, k \notin {"prices", "search", "stats"},
         k = "book" => Shows("ai-insights")
  PROVE  GlassInv'
<1>1. PICK c : c = FreshCall(k, desk.feature, arg) OBVIOUS
<1>2. Continues(sent', sent, {}, {c}) BY <1>1, SentContinues
<1>3. Told(c) BY <1>1, FreshTold
<1>4. cache' \in Nat \cup {Nothing} BY DEF GlassInv, PriceKept
<1> QED BY <1>2, <1>3, <1>4, GlassStays

\* What a customer asks for leaves what is shown.
LEMMA ActsGlass ==
  ASSUME DeskInv, GlassInv, Unlock \/ AccessBook \/ Trade \/ Rebalance \/ PayAll
  PROVE  GlassInv'
<1>1. DeskPage(desk) /\ DeskModule(desk.module) BY DEF DeskInv, DeskShape
<1>2. UNCHANGED <<today, worth, cache, shaky>>
  BY DEF Unlock, AccessBook, Trade, Rebalance, PayAll, Orderly, Acts, bankSide, ghosts
<1>3. PICK k, arg : /\ sent' = Post(sent, <<k>>, arg) /\ k \notin {"prices", "search", "stats"}
                    /\ k = "book" => Shows("ai-insights")
  <2>1. CASE Unlock
    <3>1. sent' = Post(sent, <<"unlock">>, {}) BY <2>1 DEF Unlock
    <3>2. "unlock" \notin {"prices", "search", "stats"} /\ "unlock" # "book" OBVIOUS
    <3> QED BY <3>1, <3>2
  <2>2. CASE AccessBook
    <3>1. sent' = Post(sent, <<"book">>, {}) /\ Shows("ai-insights") BY <2>2 DEF AccessBook
    <3>2. "book" \notin {"prices", "search", "stats"} OBVIOUS
    <3> QED BY <3>1, <3>2
  <2>3. CASE Trade
    <3>1. sent' = Post(sent, <<"trade">>, {}) BY <2>3 DEF Trade, Orderly
    <3>2. "trade" \notin {"prices", "search", "stats"} /\ "trade" # "book" OBVIOUS
    <3> QED BY <3>1, <3>2
  <2>4. CASE Rebalance
    <3>1. sent' = Post(sent, <<"rebalance">>, {}) BY <2>4 DEF Rebalance, Orderly
    <3>2. "rebalance" \notin {"prices", "search", "stats"} /\ "rebalance" # "book" OBVIOUS
    <3> QED BY <3>1, <3>2
  <2>5. CASE PayAll
    <3>1. sent' = Post(sent, <<"pay">>, desk.module.selected) BY <2>5 DEF PayAll, Orderly
    <3>2. "pay" \notin {"prices", "search", "stats"} /\ "pay" # "book" OBVIOUS
    <3> QED BY <3>1, <3>2
  <2> QED BY <2>1, <2>2, <2>3, <2>4, <2>5
<1>4. Pane(desk') = Pane(desk)
  <2>1. \/ desk' = [desk EXCEPT !.unlocking = TRUE] \/ desk' = desk \/ desk' = [desk EXCEPT !.module.working = TRUE]
    BY DEF Unlock, AccessBook, Trade, Rebalance, PayAll, Orderly
  <2>2. PICK e, t : e = desk' /\ t = TRUE OBVIOUS
  <2>3. \/ e = [desk EXCEPT !.unlocking = t] \/ e = desk \/ e = [desk EXCEPT !.module.working = t] BY <2>1, <2>2
  <2>a. Pane([desk EXCEPT !.unlocking = t]) = Pane(desk) /\ Pane([desk EXCEPT !.module.working = t]) = Pane(desk)
    BY <1>1, PaneBeside
  <2>4. Pane(e) = Pane(desk)
    <3>1. CASE e = [desk EXCEPT !.unlocking = t] BY <2>a, <3>1
    <3>2. CASE e = desk BY <3>2
    <3>3. CASE e = [desk EXCEPT !.module.working = t] BY <2>a, <3>3
    <3> QED BY <2>3, <3>1, <3>2, <3>3
  <2> QED BY <2>2, <2>4
<1>5. desk'.feature = desk.feature BY <1>4 DEF Pane
<1> QED BY <1>2, <1>3, <1>4, <1>5, ClickGlass

\* A step that sends and answers nothing.
LEMMA QuietGlass ==
  ASSUME GlassInv, sent' = sent, Pane(desk') = Pane(desk), UNCHANGED <<today, worth, shaky>>,
         cache' \in Nat \cup {Nothing}
  PROVE  GlassInv'
<1>1. Continues(sent', sent, {}, {}) BY SelfContinues
<1> QED BY <1>1, GlassStays

\* So does taking a payee off the list.
LEMMA TakeOffGlass ==
  ASSUME DeskInv, GlassInv, NEW p, TakeOff(p)
  PROVE  GlassInv'
<1>1. DeskPage(desk) /\ DeskModule(desk.module) BY DEF DeskInv, DeskShape
<1>2. PICK list : list = desk.module.selected \ {p} OBVIOUS
<1>3. desk' = [desk EXCEPT !.module.selected = list] /\ sent' = sent /\ UNCHANGED <<today, worth, cache, shaky>>
  BY <1>2 DEF TakeOff, Acts, bankSide
<1>4. Pane(desk') = Pane(desk) BY <1>1, <1>3, PaneBeside
<1>5. cache' \in Nat \cup {Nothing} BY <1>3 DEF GlassInv, PriceKept
<1> QED BY <1>3, <1>4, <1>5, QuietGlass

\* A handler that reads, or declines, leaves what is shown.
LEMMA ReplyGlass ==
  ASSUME DeskInv, GlassInv, NEW i \in DOMAIN sent, sent[i].stage = "sent", NEW ok, NEW value, NEW number,
         NEW d, d = Replied(sent[i], ok, value, number), sent' = Put(i, d), UNCHANGED <<desk, today, worth, shaky>>,
         cache' \in Nat \cup {Nothing},
         sent[i].kind \in {"portfolio", "insights"} => number = worth \/ ~ ok,
         sent[i].kind = "search" => value = UNION {Found[q] : q \in sent[i].arg} \/ ~ ok,
         sent[i].kind = "prices" => ~ ok \/ number = Static \/ (number \in Nat /\ today <= number + CacheTime - 1)
  PROVE  GlassInv'
<1>1. PICK c : c = sent[i] OBVIOUS
<1>2. Proper(c) /\ Told(c)
  BY <1>1 DEF DeskInv, Flying, GlassInv, CallsAtHome, WorthKept, FoundKept, PriceKept, Told
<1>3. d = [kind |-> c.kind, feature |-> c.feature, arg |-> c.arg, stage |-> "done", ok |-> ok,
           value |-> value, number |-> number, here |-> c.here, newest |-> c.newest, at |-> today]
  BY <1>1, <1>2 DEF Replied, Proper, DeskCall
<1>4. /\ d.kind = c.kind /\ d.arg = c.arg /\ d.stage = "done" /\ d.ok = ok /\ d.value = value /\ d.number = number
      /\ d.here = c.here /\ d.newest = c.newest /\ d.at = today
  BY <1>3
<1>5. Continues(sent', sent, {i}, IF c.here THEN {d} ELSE {}) BY <1>1, <1>4, PutContinues
<1>6. today \in Nat BY DEF GlassInv, PriceKept
<1>7. c.here => Told(d)
  <2>1. c.here => AtHome(d) BY <1>2, <1>4 DEF Told, AtHome
  <2>2. WorthTold(d) BY <1>1, <1>4 DEF WorthTold, Sure
  <2>3. FoundTold(d) BY <1>1, <1>2, <1>4 DEF Told, FoundTold
  <2>4. PriceTold(d) BY <1>1, <1>4, <1>6 DEF PriceTold
  <2> QED BY <2>1, <2>2, <2>3, <2>4 DEF Told
<1>8. \A r \in ReadingsOf(c) : c.here /\ r \in ReadingsOf(d)
  <2>1. ReadsWorth(c) => c.kind \in {"portfolio", "insights"} BY <1>1 DEF ReadsWorth
  <2>2. ReadingsOf(c) # {} => c.kind \in {"portfolio", "insights", "search", "prices"} BY <2>1 DEF ReadingsOf
  <2>3. ReadingsOf(c) # {} => c.here BY <1>2, <2>2 DEF Told, AtHome, Orders
  <2>4. ReadingsOf(c) \subseteq ReadingsOf(d) BY <1>4, <2>1 DEF ReadingsOf, ReadsWorth
  <2> QED BY <2>3, <2>4
<1>9. Pane(desk') = Pane(desk) BY DEF Pane
<1> QED BY <1>1, <1>5, <1>7, <1>8, <1>9, GlassStays

\* A handler that reads tells what is stored, for as long as nobody overtakes it.
LEMMA TellsGlass ==
  ASSUME DeskInv, GlassInv, NEW i \in DOMAIN sent,
         \/ ServeStatus(i) \/ ServeBook(i) \/ ServeStats(i) \/ ServePortfolio(i) \/ ServeInsights(i)
         \/ ServePayees(i) \/ ServeSearch(i) \/ ServePrices(i)
  PROVE  GlassInv'
<1>0. PICK ok : ok = TRUE OBVIOUS
<1>1. PICK c : c = sent[i] OBVIOUS
<1>2. UNCHANGED <<desk, today, worth, shaky>> /\ c.stage = "sent"
  BY <1>1 DEF ServeStatus, ServeBook, ServeStats, ServePortfolio, ServeInsights, ServePayees, ServeSearch, ServePrices,
              Tells, Handling, bankSide, Asked
<1>3. /\ today \in Nat /\ cache \in Nat \cup {Nothing} /\ Nothing \notin Nat /\ CacheTime \in Nat /\ CacheTime > 0
  BY DeskAssumption DEF GlassInv, PriceKept
<1>4. PICK value, number :
        /\ sent' = Put(i, Replied(c, ok, value, number))
        /\ c.kind \in {"portfolio", "insights"} => number = worth
        /\ c.kind = "search" => value = UNION {Found[q] : q \in c.arg}
        /\ c.kind = "prices" => number \in Nat /\ today <= number + CacheTime - 1
        /\ cache' \in Nat \cup {Nothing}
  <2>1. CASE \/ ServeStatus(i) \/ ServeBook(i) \/ ServeStats(i) \/ ServePayees(i)
    <3>1. c.kind \in {"status", "book", "stats", "payees"} /\ cache' = cache
      BY <1>1, <2>1 DEF ServeStatus, ServeBook, ServeStats, ServePayees, Asked, bankSide
    <3>2. \E value, number : sent' = Put(i, Replied(c, ok, value, number))
      BY <1>0, <1>1, <2>1 DEF ServeStatus, ServeBook, ServeStats, ServePayees, Tells
    <3> QED BY <1>3, <3>1, <3>2
  <2>2. CASE ServePortfolio(i) \/ ServeInsights(i)
    <3>1. c.kind \in {"portfolio", "insights"} /\ cache' = cache
      BY <1>1, <2>2 DEF ServePortfolio, ServeInsights, Asked, bankSide
    <3>2. sent' = Put(i, Replied(c, ok, {}, worth)) BY <1>0, <1>1, <2>2 DEF ServePortfolio, ServeInsights, Tells
    <3> QED BY <1>3, <3>1, <3>2
  <2>3. CASE ServeSearch(i)
    <3>1. c.kind = "search" /\ cache' = cache BY <1>1, <2>3 DEF ServeSearch, Asked, bankSide
    <3>2. sent' = Put(i, Replied(c, ok, UNION {Found[q] : q \in c.arg}, Nothing)) BY <1>0, <1>1, <2>3 DEF ServeSearch, Tells
    <3> QED BY <1>3, <3>1, <3>2
  <2>4. CASE ServePrices(i)
    <3>1. c.kind = "prices" BY <1>1, <2>4 DEF ServePrices, Asked
    <3>2. CASE CacheHolds
      <4>1. sent' = Put(i, Replied(c, ok, {}, cache)) /\ cache' = cache
        BY <1>0, <1>1, <2>4, <3>2 DEF ServePrices, Tells
      <4>2. cache \in Nat /\ today - cache < CacheTime BY <1>3, <3>2 DEF CacheHolds
      <4>3. today <= cache + CacheTime - 1 BY <1>3, <4>2
      <4> QED BY <3>1, <4>1, <4>2, <4>3
    <3>3. CASE ~ CacheHolds
      <4>1. sent' = Put(i, Replied(c, ok, {}, today)) /\ cache' = today
        BY <1>0, <1>1, <2>4, <3>3 DEF ServePrices, Tells
      <4>2. today <= today + CacheTime - 1 BY <1>3
      <4> QED BY <1>3, <3>1, <4>1, <4>2
    <3> QED BY <3>2, <3>3
  <2> QED BY <2>1, <2>2, <2>3, <2>4
<1>5. PICK d : d = Replied(c, ok, value, number) OBVIOUS
<1> QED BY <1>1, <1>2, <1>4, <1>5, ReplyGlass

\* A handler that declines, and one that fails.
LEMMA DeclinesGlass ==
  ASSUME DeskInv, GlassInv, NEW i \in DOMAIN sent,
         \/ (Declines(i) /\ sent[i].stage = "sent") \/ QueryFails(i) \/ ServiceFails(i)
  PROVE  GlassInv'
<1>1. PICK c : c = sent[i] OBVIOUS
<1>2. UNCHANGED <<desk, today, worth, shaky, cache>> /\ c.stage = "sent"
  BY <1>1 DEF Declines, QueryFails, ServiceFails, Fault, Handling, bankSide, Asked
<1>3. cache' \in Nat \cup {Nothing} BY <1>2 DEF GlassInv, PriceKept
<1>4. PICK ok, number : /\ sent' = Put(i, Replied(c, ok, {}, number))
                        /\ ~ ok \/ (c.kind = "prices" /\ number = Static)
  <2>1. CASE ServiceFails(i)
    <3>1. sent' = Put(i, Replied(c, TRUE, {}, Static)) /\ c.kind = "prices" BY <1>1, <2>1 DEF ServiceFails, Asked
    <3> QED BY <3>1
  <2>2. CASE Declines(i) \/ QueryFails(i)
    <3>1. sent' = Put(i, Replied(c, FALSE, {}, Nothing)) BY <1>1, <2>2 DEF Declines, QueryFails
    <3> QED BY <3>1
  <2> QED BY <2>1, <2>2
<1>5. PICK d : d = Replied(c, ok, {}, number) OBVIOUS
<1> QED BY <1>1, <1>2, <1>3, <1>4, <1>5, ReplyGlass

\* A handler that changed the holdings: no sure answer about them is left, and they are read
\* again, or they are in doubt.
LEMMA ChangedGlass ==
  ASSUME DeskInv, GlassInv, NEW i \in DOMAIN sent, sent[i].stage = "sent",
         sent[i].kind \in {"unlock", "trade", "rebalance", "pay"}, Changed(i), cache' = cache
  PROVE  GlassInv'
<1>1. PICK c : c = sent[i] OBVIOUS
<1>2. Proper(c) /\ Told(c)
  BY <1>1 DEF DeskInv, Flying, GlassInv, CallsAtHome, WorthKept, FoundKept, PriceKept, Told
<1>3. PICK d : d = Replied(c, TRUE, {}, Nothing) OBVIOUS
<1>4. d = [kind |-> c.kind, feature |-> c.feature, arg |-> c.arg, stage |-> "done", ok |-> TRUE,
           value |-> {}, number |-> Nothing, here |-> c.here, newest |-> c.newest, at |-> today]
  BY <1>2, <1>3 DEF Replied, Proper, DeskCall
<1>5. d.kind = c.kind /\ d.stage = "done" /\ d.ok /\ d.here = c.here BY <1>4
<1> DEFINE new == IF c.here THEN {d} ELSE {}
<1>6. "worth" \in Changes(c.kind) BY <1>1 DEF Changes
<1>7. /\ Continues(sent', sent, {i}, new)
      /\ \A j \in DOMAIN sent' : sent'[j] = d \/ ~ (sent'[j].kind \in {"portfolio", "insights"} /\ Sure(sent'[j]))
  BY <1>1, <1>3, <1>6, ChangedContinues
<1>8. UNCHANGED <<desk, today>> BY DEF Changed, Handling
<1>9. "worth" \in shaky' \/ (c.here /\ ReadsWorth(d))
  <2>1. shaky' = shaky \cup (Changes(c.kind) \ IF c.here THEN Follows(c.kind) ELSE {}) BY <1>1 DEF Changed
  <2>2. CASE c.here /\ c.kind \in {"trade", "rebalance"} BY <1>5, <2>2 DEF ReadsWorth
  <2>3. CASE ~ c.here BY <1>6, <2>1, <2>3
  <2>4. CASE c.kind \in {"unlock", "pay"}
    <3>1. "worth" \notin Follows(c.kind) BY <2>4 DEF Follows
    <3> QED BY <1>6, <2>1, <3>1
  <2> QED BY <1>1, <2>2, <2>3, <2>4
<1>10. \A f \in Features : Shows(f)' <=> Shows(f) BY <1>8 DEF Shows, Open
<1>11. \A e \in new : e = d /\ AtHome(e) /\ FoundTold(e) /\ PriceTold(e)
  <2>1. c.here => AtHome(d) BY <1>1, <1>5 DEF AtHome
  <2>2. FoundTold(d) /\ PriceTold(d) BY <1>1, <1>5 DEF FoundTold, PriceTold
  <2> QED BY <2>1, <2>2
<1>12. shaky \subseteq shaky' BY DEF Changed
<1> HIDE DEF new
<1>13. CallsAtHome' BY <1>7, <1>10, <1>11, HomeStays DEF GlassInv
<1>14. FoundKept' BY <1>1, <1>7, <1>8, <1>10, <1>11, <1>12, FoundStays DEF GlassInv
<1>15. cache' \in Nat \cup {Nothing} BY DEF GlassInv, PriceKept
<1>16. PriceKept' BY <1>1, <1>7, <1>8, <1>10, <1>11, <1>12, <1>15, PriceStays DEF GlassInv
<1>17. WorthKept'
  <2>1. ASSUME NEW j \in DOMAIN sent' PROVE WorthTold(sent[j])'
    <3>1. ~ (sent'[j].kind \in {"portfolio", "insights"} /\ Sure(sent'[j])) BY <1>1, <1>5, <1>7
    <3> QED BY <3>1 DEF WorthTold, Sure
  <2>2. "worth" \in shaky' \/ \E j \in DOMAIN sent' : ReadsWorth(sent'[j])
    BY <1>7, <1>9 DEF Continues, new
  <2>3. \A j \in DOMAIN sent' : ReadsWorth(sent[j])' <=> ReadsWorth(sent'[j]) BY DEF ReadsWorth
  <2>4. \A j \in DOMAIN sent' : WorthTold(sent[j])' BY <2>1
  <2> QED BY <2>2, <2>3, <2>4 DEF WorthKept
<1> QED BY <1>13, <1>14, <1>16, <1>17 DEF GlassInv

\* Every handler keeps what is shown right.
LEMMA HandledGlass ==
  ASSUME DeskInv, GlassInv, NEW i \in DOMAIN sent, Handled(i)
  PROVE  GlassInv'
<1>1. CASE \/ ServeStatus(i) \/ ServeBook(i) \/ ServeStats(i) \/ ServePortfolio(i) \/ ServeInsights(i)
           \/ ServePayees(i) \/ ServeSearch(i) \/ ServePrices(i)
  BY <1>1, TellsGlass
<1>2. CASE ServeUnlock(i) \/ ServeTrade(i) \/ ServeRebalance(i) \/ ServePayroll(i)
  <2>1. sent[i].stage = "sent" /\ sent[i].kind \in {"unlock", "trade", "rebalance", "pay"}
    BY <1>2 DEF ServeUnlock, ServeTrade, ServeRebalance, ServePayroll, Asked
  <2>2. Declines(i) \/ (Changed(i) /\ cache' = cache)
    BY <1>2 DEF ServeUnlock, ServeTrade, ServeRebalance, ServePayroll
  <2> QED BY <2>1, <2>2, DeclinesGlass, ChangedGlass
<1> QED BY <1>1, <1>2 DEF Handled

\* An answer that is lost, and a licence that ends.
LEMMA AnswerLostGlass ==
  ASSUME DeskInv, GlassInv, NEW i \in DOMAIN sent, AnswerLost(i)
  PROVE  GlassInv'
<1>1. PICK c : c = sent[i] OBVIOUS
<1>2. Proper(c) /\ Told(c)
  BY <1>1 DEF DeskInv, Flying, GlassInv, CallsAtHome, WorthKept, FoundKept, PriceKept, Told
<1>3. PICK d : d = [c EXCEPT !.ok = FALSE] OBVIOUS
<1>4. d = [kind |-> c.kind, feature |-> c.feature, arg |-> c.arg, stage |-> c.stage, ok |-> FALSE,
           value |-> c.value, number |-> c.number, here |-> c.here, newest |-> c.newest, at |-> c.at]
  BY <1>2, <1>3 DEF Proper, DeskCall
<1>5. /\ sent' = [sent EXCEPT ![i] = d] /\ UNCHANGED <<desk, today, worth, cache>>
      /\ shaky' = shaky \cup Changes(c.kind)
  BY <1>1, <1>3 DEF AnswerLost, Fault, bankSide
<1>6. d.kind = c.kind /\ d.stage = c.stage /\ d.arg = c.arg /\ ~ d.ok /\ d.here = c.here /\ d.newest = c.newest BY <1>4
<1>7. Continues(sent', sent, {i}, {d}) BY <1>5, InPlaceContinues
<1>8. Told(d) BY <1>2, <1>6 DEF Told, AtHome, WorthTold, FoundTold, PriceTold, Sure
<1>9. \A r \in ReadingsOf(c) : r \in shaky' \/ r \in ReadingsOf(d)
  BY <1>5, <1>6 DEF ReadingsOf, ReadsWorth, Changes
<1>10. cache' \in Nat \cup {Nothing} BY <1>5 DEF GlassInv, PriceKept
<1>11. Pane(desk') = Pane(desk) BY <1>5 DEF Pane
<1>12. \A e \in {d} : Told(e) BY <1>8
<1>13. \A k \in {i} \cap DOMAIN sent : \A r \in ReadingsOf(sent[k]) : r \in shaky' \/ \E e \in {d} : r \in ReadingsOf(e)
  BY <1>1, <1>9
<1>14. UNCHANGED <<today, worth>> /\ shaky \subseteq shaky' BY <1>5
<1> QED BY <1>7, <1>10, <1>11, <1>12, <1>13, <1>14, GlassStays

\* A licence that lapses changes no module.
LEMMA LapseGlass ==
  ASSUME DeskInv, GlassInv, NEW f, Lapse(f)
  PROVE  GlassInv'
<1> DEFINE old(j) == sent[j].kind \in OfPage /\ sent[j].stage = "done"
           os == [j \in DOMAIN sent |-> [sent[j] EXCEPT !.newest = @ /\ ~ old(j)]]
<1>1. sent' = os /\ UNCHANGED <<desk, today, worth, cache>> /\ shaky \subseteq shaky'
  BY DEF Lapse
<1>2. ASSUME NEW j \in DOMAIN sent PROVE Peer(os[j], sent[j])
  <2> DEFINE e == sent[j]
  <2>1. Proper(e) BY DEF DeskInv, Flying
  <2>2. PICK b : b = old(j) OBVIOUS
  <2>3. os[j] = [e EXCEPT !.newest = @ /\ ~ b] BY <2>2
  <2> HIDE DEF e, os, old
  <2>4. PICK n : n = os[j] OBVIOUS
  <2> QED BY <2>1, <2>3, <2>4, MarkedPeer DEF e
<1>3. DOMAIN os = DOMAIN sent OBVIOUS
<1> HIDE DEF os
<1>4. Continues(os, os, {}, {}) BY SelfContinues
<1>5. Continues(sent', sent, {}, {}) BY <1>1, <1>2, <1>3, <1>4, OldContinues
<1>6. cache' \in Nat \cup {Nothing} BY <1>1 DEF GlassInv, PriceKept
<1>7. Pane(desk') = Pane(desk) BY <1>1 DEF Pane
<1> QED BY <1>1, <1>5, <1>6, <1>7, GlassStays

\* Time passes where the prices are shown and are not due; another page fills the cache.
LEMMA DeskTickGlass ==
  ASSUME GlassInv, DeskTick
  PROVE  GlassInv'
<1>1. /\ UNCHANGED <<desk, sent, cache, worth, shaky>> /\ today' = today + 1
      /\ Shows("crypto-trading") /\ ~ (today >= desk.module.due)
  BY DEF DeskTick, bankSide, ghosts, PricesDue
<1>2. \A f \in Features : Shows(f)' <=> Shows(f) BY <1>1 DEF Shows, Open
<1>3. Continues(sent', sent, {}, {}) BY <1>1, SelfContinues
<1>4. CallsAtHome' BY <1>2, <1>3, HomeStays DEF GlassInv
<1>5. WorthKept' BY <1>1, <1>2, <1>3, WorthStays DEF GlassInv
<1>6. FoundKept' BY <1>1, <1>2, <1>3, FoundStays DEF GlassInv
<1>7. PriceKept'
  <2>1. "crypto-trading" \in Features BY DEF Features
  <2>2. PriceKept BY DEF GlassInv
  <2>3. \A j \in DOMAIN sent' : PriceTold(sent[j])' BY <1>1, <2>2 DEF PriceKept, PriceTold
  <2>4. Period \in Nat BY DeskAssumption
  <2>5. today \in Nat /\ desk.module.due \in Nat /\ today <= desk.module.due /\ desk.module.due <= today + Period
    BY <1>1, <2>2 DEF PriceKept
  <2>6. today + 1 \in Nat /\ today + 1 <= desk.module.due /\ desk.module.due <= today + 1 + Period BY <1>1, <2>4, <2>5
  <2>7. today' \in Nat /\ today' <= desk'.module.due /\ desk'.module.due <= today' + Period BY <1>1, <2>6
  <2>8. desk'.module.price \in Nat /\ "price" \notin shaky' =>
         \/ desk'.module.due <= desk'.module.price + CacheTime - 1 + Period
         \/ \E j \in DOMAIN sent' : sent'[j].kind = "prices"
    BY <1>1, <2>2 DEF PriceKept
  <2>9. cache' \in Nat \cup {Nothing} /\ desk'.module.due \in Nat BY <1>1, <2>2 DEF PriceKept
  <2>10. desk'.module.price # Nothing => Shows("crypto-trading")' BY <1>1, <1>2, <2>1
  <2> QED BY <2>3, <2>7, <2>8, <2>9, <2>10 DEF PriceKept
<1> QED BY <1>4, <1>5, <1>6, <1>7 DEF GlassInv

\* Prices that others read are of today.
LEMMA OthersReadGlass ==
  ASSUME GlassInv, OthersRead
  PROVE  GlassInv'
<1>1. UNCHANGED <<desk, sent, today, worth, shaky>> /\ cache' = today BY DEF OthersRead, ghosts
<1>2. cache' \in Nat \cup {Nothing} BY <1>1 DEF GlassInv, PriceKept
<1>3. Pane(desk') = Pane(desk) BY <1>1 DEF Pane
<1> QED BY <1>1, <1>2, <1>3, QuietGlass

-----------------------------------------------------------------------------
(* The answers that the module shows. *)
\* What each field of a module leaves.
View(m) == <<m.value, m.price, m.due, m.box, m.timer, m.results>>

\* What a module shows depends on no other field.
LEMMA ModuleViews ==
  ASSUME NEW m, DeskModule(m), NEW v
  PROVE  /\ View([m EXCEPT !.busy = v]) = View(m) /\ View([m EXCEPT !.existing = v]) = View(m)
         /\ View([m EXCEPT !.working = v]) = View(m) /\ View([m EXCEPT !.selected = v]) = View(m)
         /\ View([m EXCEPT !.value = v]) = <<v, m.price, m.due, m.box, m.timer, m.results>>
         /\ View([m EXCEPT !.price = v]) = <<m.value, v, m.due, m.box, m.timer, m.results>>
         /\ View([m EXCEPT !.due = v]) = <<m.value, m.price, v, m.box, m.timer, m.results>>
         /\ View([m EXCEPT !.box = v]) = <<m.value, m.price, m.due, v, m.timer, m.results>>
         /\ View([m EXCEPT !.timer = v]) = <<m.value, m.price, m.due, m.box, v, m.results>>
         /\ View([m EXCEPT !.results = v]) = <<m.value, m.price, m.due, m.box, m.timer, v>>
BY DEF DeskModule, View
\* Whatever its module becomes, the page stays.
LEMMA ModulePane ==
  ASSUME DeskInv, NEW n, desk' = [desk EXCEPT !.module = n]
  PROVE  /\ desk'.module = n /\ desk'.feature = desk.feature /\ desk'.loading = desk.loading
         /\ desk'.unlocked = desk.unlocked /\ \A f \in Features : Shows(f)' <=> Shows(f)
<1>1. DeskPage(desk) BY DEF DeskInv, DeskShape
<1>2. /\ desk'.module = n /\ desk'.feature = desk.feature /\ desk'.loading = desk.loading
      /\ desk'.unlocked = desk.unlocked
  BY <1>1, PageModule
<1> QED BY <1>2 DEF Shows, Open

\* The payees and the payroll's answer change nothing that is shown here.
LEMMA PayeesGlass ==
  ASSUME DeskInv, GlassInv, NEW i \in DOMAIN sent, OnPayees(i) \/ OnPayroll(i)
  PROVE  GlassInv'
<1> DEFINE c == sent[i]
           m == desk.module
<1>1. DeskModule(m) /\ Flying(sent) BY DEF DeskInv, DeskShape
<1>2. /\ UNCHANGED <<today, worth, shaky, cache>> /\ c.kind \in {"payees", "pay"}
  BY DEF OnPayees, OnPayroll, Quietly, ghosts, bankSide, Come
<1>3. PICK n : Shown(i, n) /\ View(n) = View(m)
  <2>1. CASE OnPayees(i)
    <3> DEFINE b == [m EXCEPT !.busy = FALSE]
               n == [b EXCEPT !.existing = IF c.ok THEN c.value ELSE @]
    <3>1. Shown(i, n) BY <2>1 DEF OnPayees
    <3>2. QuietModule(b, m) /\ View(b) = View(m) BY <1>1, ModuleFields, ModuleViews
    <3> HIDE DEF b
    <3>3. DeskModule(b) BY <3>2 DEF QuietModule
    <3>4. View(n) = View(b) BY <3>3, ModuleViews
    <3> HIDE DEF n
    <3> QED BY <3>1, <3>2, <3>4
  <2>2. CASE OnPayroll(i)
    <3> DEFINE b == [m EXCEPT !.working = FALSE]
               n == [b EXCEPT !.selected = ListAfter(m, c.ok)]
    <3>1. Shown(i, n) BY <2>2 DEF OnPayroll
    <3>2. DeskModule(b) /\ View(b) = View(m) BY <1>1, ModuleWorking, ModuleViews
    <3> HIDE DEF b
    <3>3. View(n) = View(b) BY <3>2, ModuleViews
    <3> HIDE DEF n
    <3> QED BY <3>1, <3>2, <3>3
  <2> QED BY <2>1, <2>2
<1>4. desk' = [desk EXCEPT !.module = n] /\ sent' = RemoveAt(sent, i) BY <1>3 DEF Shown
<1>5. /\ desk'.module = n /\ desk'.feature = desk.feature /\ desk'.loading = desk.loading
      /\ desk'.unlocked = desk.unlocked
  BY <1>4, ModulePane
<1>6. Pane(desk') = Pane(desk) BY <1>3, <1>5 DEF Pane, View
<1>7. Continues(sent', sent, {i}, {}) BY <1>1, <1>4, WithoutContinues
<1>8. ReadingsOf(c) = {} BY <1>2 DEF ReadingsOf, ReadsWorth
<1>9. cache' \in Nat \cup {Nothing} BY <1>2 DEF GlassInv, PriceKept
<1> QED BY <1>2, <1>6, <1>7, <1>8, <1>9, GlassStays

\* An order that is answered is followed by a reading, if it was done.
LEMMA OnOrderGlass ==
  ASSUME DeskInv, GlassInv, NEW i \in DOMAIN sent, OnOrder(i)
  PROVE  GlassInv'
<1> DEFINE m == desk.module
           b == [m EXCEPT !.working = FALSE]
           r == RemoveAt(sent, i)
<1>0. PICK c, kinds : c = sent[i] /\ kinds = IF c.ok THEN After(c.kind) ELSE <<>> OBVIOUS
<1>1. DeskPage(desk) /\ DeskModule(m) /\ Flying(sent) /\ desk.feature \in Features BY DEF DeskInv, DeskShape
<1>2. /\ UNCHANGED <<today, worth, shaky, cache>> /\ c.kind \in {"trade", "rebalance"} /\ c.stage = "done"
      /\ desk' = [desk EXCEPT !.module.working = FALSE] /\ sent' = Post(r, kinds, {})
  BY <1>0 DEF OnOrder, Quietly, ghosts, bankSide, Come
<1>3. Pane(desk') = Pane(desk)
  <2>1. PICK f : f = FALSE OBVIOUS
  <2>2. desk' = [desk EXCEPT !.module.working = f] BY <1>2, <2>1
  <2> QED BY <1>1, <2>2, PaneBeside
<1>4. PICK f : f = desk.feature OBVIOUS
<1>5. desk'.feature = f BY <1>3, <1>4 DEF Pane
<1>6. Sequence(kinds) /\ \A n \in DOMAIN kinds : kinds[n] \in {"portfolio", "insights"}
  <2>1. CASE ~ c.ok
    <3>1. kinds = <<>> BY <1>0, <2>1
    <3> QED BY <3>1, ShortSequences
  <2>2. CASE c.ok
    <3>1. kinds = <<"portfolio">> \/ kinds = <<"insights">> BY <1>0, <2>2 DEF After
    <3>2. Sequence(<<"portfolio">>) /\ Sequence(<<"insights">>) BY ShortSequences
    <3> QED BY <3>1, <3>2
  <2> QED BY <2>1, <2>2
<1>7. PICK a : a = {} OBVIOUS
<1> DEFINE new == {FreshCall(kinds[n], f, a) : n \in DOMAIN kinds}
<1>8. Flying(r) /\ Continues(r, sent, {i}, {})
  <2>1. PICK K : K = {} OBVIOUS
  <2>2. Flying(r) /\ Carried(r, sent, i, K) BY <1>1, WithoutKept
  <2> QED BY <1>1, <2>2, WithoutContinues
<1> HIDE DEF r
<1>9. sent' = PostedCalls(r, kinds, f, a) BY <1>2, <1>5, <1>7, PostIs
<1>10. Continues(PostedCalls(r, kinds, f, a), r, {}, new) BY <1>1, <1>4, <1>6, <1>8, PostedContinues
<1>11. \A e \in new : Told(e) /\ e.kind \in {"portfolio", "insights"}
  <2>1. ASSUME NEW n \in DOMAIN kinds, NEW e, e = FreshCall(kinds[n], f, a)
        PROVE  Told(e) /\ e.kind \in {"portfolio", "insights"}
    <3>1. PICK k : k = kinds[n] OBVIOUS
    <3>2. k \in {"portfolio", "insights"} /\ e = FreshCall(k, f, a) BY <1>6, <2>1, <3>1
    <3> QED BY <3>2, FreshTold
  <2> QED BY <2>1
<1>12. c.ok => \E e \in new : TRUE
  <2>1. ASSUME c.ok PROVE 1 \in DOMAIN kinds
    <3>1. kinds = <<"portfolio">> \/ kinds = <<"insights">> BY <1>0, <2>1 DEF After
    <3> QED BY <3>1
  <2> QED BY <2>1
<1> HIDE DEF new
<1>13. Continues(sent', sent, {i}, new) BY <1>8, <1>9, <1>10, ContinuesOn
<1>14. \A q \in ReadingsOf(c) : \E e \in new : q \in ReadingsOf(e)
  <2>1. ReadingsOf(c) \subseteq {"worth"} /\ (ReadingsOf(c) # {} => c.ok) BY <1>2 DEF ReadingsOf, ReadsWorth
  <2>2. \A e \in new : "worth" \in ReadingsOf(e) BY <1>11 DEF ReadingsOf, ReadsWorth
  <2> QED BY <1>12, <2>1, <2>2
<1>15. cache' \in Nat \cup {Nothing} BY <1>2 DEF GlassInv, PriceKept
<1> QED BY <1>0, <1>2, <1>3, <1>11, <1>13, <1>14, <1>15, GlassStays

\* Where an answer changes one part of what is shown.
LEMMA ShownGlass ==
  ASSUME DeskInv, GlassInv, NEW i \in DOMAIN sent, NEW n, Shown(i, n), UNCHANGED <<today, worth, cache>>
  PROVE  /\ desk'.module = n /\ CallsAtHome' /\ Continues(sent', sent, {i}, {}) /\ cache' \in Nat \cup {Nothing}
         /\ \A f \in Features : Shows(f)' <=> Shows(f)
<1>1. Flying(sent) BY DEF DeskInv
<1>2. desk' = [desk EXCEPT !.module = n] /\ sent' = RemoveAt(sent, i) BY DEF Shown
<1>3. desk'.module = n /\ \A f \in Features : Shows(f)' <=> Shows(f) BY <1>2, ModulePane
<1>4. Continues(sent', sent, {i}, {}) BY <1>1, <1>2, WithoutContinues
<1>5. CallsAtHome' BY <1>3, <1>4, HomeStays DEF GlassInv
<1>6. cache' \in Nat \cup {Nothing} BY DEF GlassInv, PriceKept
<1> QED BY <1>3, <1>4, <1>5, <1>6

\* The library's books.
LEMMA OnLibraryGlass ==
  ASSUME DeskInv, GlassInv, NEW i \in DOMAIN sent, OnLibrary(i)
  PROVE  GlassInv'
<1> DEFINE m == desk.module
<1>0. PICK c : c = sent[i] OBVIOUS
<1>1. DeskModule(m) BY DEF DeskInv, DeskShape
<1>2. UNCHANGED <<today, worth, shaky, cache>> /\ c.kind \in {"book", "stats"} /\ c.stage = "done"
  BY <1>0 DEF OnLibrary, Quietly, ghosts, bankSide, Come
<1>3. PICK n : Shown(i, n) /\ \E v : View(n) = <<v, m.price, m.due, m.box, m.timer, m.results>>
  <2>1. CASE c.kind = "stats"
    <3> DEFINE b == [m EXCEPT !.busy = FALSE]
               n == [b EXCEPT !.value = IF c.ok THEN c.number ELSE @]
    <3>1. Shown(i, n) BY <1>0, <2>1 DEF OnLibrary
    <3>2. QuietModule(b, m) /\ View(b) = View(m) BY <1>1, ModuleFields, ModuleViews
    <3> HIDE DEF b
    <3>3. DeskModule(b) BY <3>2 DEF QuietModule
    <3>4. PICK v : v = IF c.ok THEN c.number ELSE b.value OBVIOUS
    <3>5. n = [b EXCEPT !.value = v] BY <3>4
    <3> HIDE DEF n
    <3>6. View(n) = <<v, b.price, b.due, b.box, b.timer, b.results>> BY <3>3, <3>5, ModuleViews
    <3> QED BY <3>1, <3>2, <3>6 DEF View
  <2>2. CASE c.kind # "stats"
    <3> DEFINE n == [m EXCEPT !.value = IF c.ok THEN @ + 1 ELSE @]
    <3>1. Shown(i, n) BY <1>0, <2>2 DEF OnLibrary
    <3>2. PICK v : v = IF c.ok THEN m.value + 1 ELSE m.value OBVIOUS
    <3>3. n = [m EXCEPT !.value = v] BY <3>2
    <3> HIDE DEF n
    <3>4. View(n) = <<v, m.price, m.due, m.box, m.timer, m.results>> BY <1>1, <3>3, ModuleViews
    <3> QED BY <3>1, <3>4
  <2> QED BY <2>1, <2>2
<1>4. /\ desk'.module = n /\ CallsAtHome' /\ Continues(sent', sent, {i}, {}) /\ cache' \in Nat \cup {Nothing}
      /\ \A f \in Features : Shows(f)' <=> Shows(f)
  BY <1>2, <1>3, ShownGlass
<1>5. /\ desk'.module.price = m.price /\ desk'.module.due = m.due /\ desk'.module.box = m.box
      /\ desk'.module.timer = m.timer /\ desk'.module.results = m.results
  BY <1>3, <1>4 DEF View
<1>6. ~ ReadsWorth(c) /\ c.kind # "search" /\ c.kind # "prices" BY <1>2 DEF ReadsWorth
<1>7. FoundKept' BY <1>0, <1>2, <1>4, <1>5, <1>6, FoundStays DEF GlassInv
<1>8. PriceKept' BY <1>0, <1>2, <1>4, <1>5, <1>6, PriceStays DEF GlassInv
<1>9. WorthKept'
  <2>1. AtHome(c) BY <1>0 DEF GlassInv, CallsAtHome
  <2>2. Shows("ai-insights") BY <1>2, <2>1 DEF AtHome
  <2>3. {"crypto-trading", "wealth-management-pro"} \subseteq Features BY DEF Features
  <2>4. \A f \in {"crypto-trading", "wealth-management-pro"} : ~ Shows(f)' BY <1>4, <2>2, <2>3 DEF Shows
  <2>5. \A j \in DOMAIN sent' : WorthTold(sent'[j])
    BY <1>4 DEF Continues, GlassInv, WorthKept, WorthTold, Sure, Peer, Kin
  <2>6. \A j \in DOMAIN sent' : WorthTold(sent[j])' BY <1>2, <2>5 DEF WorthTold, Sure
  <2> QED BY <2>4, <2>6 DEF WorthKept
<1> QED BY <1>4, <1>7, <1>8, <1>9 DEF GlassInv

\* The portfolio and the insights: the last word on the holdings, or in doubt.
LEMMA OnWorthGlass ==
  ASSUME DeskInv, GlassInv, NEW i \in DOMAIN sent, OnWorth(i)
  PROVE  GlassInv'
<1> DEFINE m == desk.module
           b == [m EXCEPT !.busy = FALSE]
<1>0. PICK c : c = sent[i] OBVIOUS
<1>1. DeskModule(m) BY DEF DeskInv, DeskShape
<1>2. PICK v : v = IF c.ok THEN c.number ELSE m.value OBVIOUS
<1>3. /\ UNCHANGED <<today, worth, cache>> /\ c.kind \in {"portfolio", "insights"} /\ c.stage = "done"
      /\ shaky' = IF c.ok /\ c.newest THEN shaky \ {"worth"} ELSE shaky \cup {"worth"}
  BY <1>0 DEF OnWorth, Quietly, bankSide, Come, Judged, About
<1>4. PICK n : Shown(i, n) /\ View(n) = <<v, m.price, m.due, m.box, m.timer, m.results>>
  <2> DEFINE n == [b EXCEPT !.value = IF c.ok THEN c.number ELSE @]
  <2>1. Shown(i, n) BY <1>0 DEF OnWorth
  <2>2. QuietModule(b, m) /\ View(b) = View(m) BY <1>1, ModuleFields, ModuleViews
  <2>3. b.value = m.value BY <2>2 DEF View
  <2> HIDE DEF b
  <2>4. DeskModule(b) BY <2>2 DEF QuietModule
  <2>5. n = [b EXCEPT !.value = v] BY <1>2, <2>3
  <2> HIDE DEF n
  <2>6. View(n) = <<v, b.price, b.due, b.box, b.timer, b.results>> BY <2>4, <2>5, ModuleViews
  <2> QED BY <2>1, <2>2, <2>6 DEF View
<1>5. /\ desk'.module = n /\ CallsAtHome' /\ Continues(sent', sent, {i}, {}) /\ cache' \in Nat \cup {Nothing}
      /\ \A f \in Features : Shows(f)' <=> Shows(f)
  BY <1>3, <1>4, ShownGlass
<1>6. /\ desk'.module.value = v /\ desk'.module.price = m.price /\ desk'.module.due = m.due
      /\ desk'.module.box = m.box /\ desk'.module.timer = m.timer /\ desk'.module.results = m.results
  BY <1>4, <1>5 DEF View
<1>7. c.kind # "search" /\ c.kind # "prices" /\ ("price" \in shaky' <=> "price" \in shaky)
      /\ ("results" \in shaky' <=> "results" \in shaky)
  BY <1>3
<1>8. FoundKept' BY <1>0, <1>3, <1>5, <1>6, <1>7, FoundStays DEF GlassInv
<1>9. PriceKept' BY <1>0, <1>3, <1>5, <1>6, <1>7, PriceStays DEF GlassInv
<1>10. WorthKept'
  <2>1. \A j \in DOMAIN sent' : WorthTold(sent'[j])
    BY <1>5 DEF Continues, GlassInv, WorthKept, WorthTold, Sure, Peer, Kin
  <2>2. \A j \in DOMAIN sent' : WorthTold(sent[j])' BY <1>3, <2>1 DEF WorthTold, Sure
  <2>3. WorthTold(c) BY <1>0 DEF GlassInv, WorthKept
  <2>4. "worth" \notin shaky' => desk'.module.value = worth' BY <1>2, <1>3, <1>6, <2>3 DEF WorthTold, Sure
  <2> QED BY <2>2, <2>4 DEF WorthKept
<1> QED BY <1>5, <1>8, <1>9, <1>10 DEF GlassInv

\* What a search found: for the words in the box, or in doubt.
LEMMA OnSearchGlass ==
  ASSUME DeskInv, GlassInv, NEW i \in DOMAIN sent, OnSearch(i)
  PROVE  GlassInv'
<1> DEFINE m == desk.module
<1>0. PICK c : c = sent[i] OBVIOUS
<1>1. DeskModule(m) BY DEF DeskInv, DeskShape
<1>2. PICK v : v = IF c.ok THEN c.value ELSE m.results OBVIOUS
<1>3. /\ UNCHANGED <<today, worth, cache>> /\ c.kind = "search" /\ c.stage = "done"
      /\ shaky' = IF c.ok /\ c.newest THEN shaky \ {"results"} ELSE shaky \cup {"results"}
  BY <1>0 DEF OnSearch, Quietly, bankSide, Come, Judged, About
<1>4. PICK n : Shown(i, n) /\ View(n) = <<m.value, m.price, m.due, m.box, m.timer, v>>
  <2> DEFINE n == [m EXCEPT !.results = IF c.ok THEN c.value ELSE @]
  <2>1. Shown(i, n) BY <1>0 DEF OnSearch
  <2>2. n = [m EXCEPT !.results = v] BY <1>2
  <2> HIDE DEF n
  <2>3. View(n) = <<m.value, m.price, m.due, m.box, m.timer, v>> BY <1>1, <2>2, ModuleViews
  <2> QED BY <2>1, <2>3
<1>5. /\ desk'.module = n /\ CallsAtHome' /\ Continues(sent', sent, {i}, {}) /\ cache' \in Nat \cup {Nothing}
      /\ \A f \in Features : Shows(f)' <=> Shows(f)
  BY <1>3, <1>4, ShownGlass
<1>6. /\ desk'.module.value = m.value /\ desk'.module.price = m.price /\ desk'.module.due = m.due
      /\ desk'.module.box = m.box /\ desk'.module.timer = m.timer /\ desk'.module.results = v
  BY <1>4, <1>5 DEF View
<1>7. ~ ReadsWorth(c) /\ c.kind # "prices" /\ ("price" \in shaky' <=> "price" \in shaky)
      /\ ("worth" \in shaky' <=> "worth" \in shaky)
  BY <1>3 DEF ReadsWorth
<1>8. WorthKept' BY <1>0, <1>3, <1>5, <1>6, <1>7, WorthStays DEF GlassInv
<1>9. PriceKept' BY <1>0, <1>3, <1>5, <1>6, <1>7, PriceStays DEF GlassInv
<1>10. FoundKept'
  <2>1. \A j \in DOMAIN sent' : FoundTold(sent'[j])
    BY <1>5 DEF Continues, GlassInv, FoundKept, FoundTold, Peer, Kin
  <2>2. \A j \in DOMAIN sent' : FoundTold(sent[j])' BY <1>6, <2>1 DEF FoundTold
  <2>3. FoundTold(c) BY <1>0 DEF GlassInv, FoundKept
  <2>4. Hunted' = Hunted BY <1>6 DEF Hunted
  <2>5. ASSUME "results" \notin shaky' PROVE desk'.module.timer \/ desk'.module.results = Hunted'
    <3>1. c.ok /\ c.newest BY <1>3, <2>5
    <3>2. v = UNION {Found[q] : q \in c.arg} BY <1>2, <1>3, <2>3, <3>1 DEF FoundTold
    <3>3. CASE m.timer BY <1>6, <3>3
    <3>4. CASE c.arg = {m.box} /\ m.box # Short
      <4>1. PICK q : q = m.box OBVIOUS
      <4>2. UNION {Found[p] : p \in c.arg} = Found[q] BY <3>4, <4>1
      <4>3. Hunted = Found[q] BY <3>4, <4>1 DEF Hunted
      <4> QED BY <1>6, <2>4, <3>2, <4>2, <4>3
    <3> QED BY <1>3, <2>3, <3>1, <3>3, <3>4 DEF FoundTold
  <2> QED BY <2>2, <2>5 DEF FoundKept
<1> QED BY <1>5, <1>8, <1>9, <1>10 DEF GlassInv

\* The prices: as young as the cache allows, or in doubt.
LEMMA OnPricesGlass ==
  ASSUME DeskInv, GlassInv, NEW i \in DOMAIN sent, OnPrices(i)
  PROVE  GlassInv'
<1> DEFINE m == desk.module
<1>0. PICK c : c = sent[i] OBVIOUS
<1>1. DeskModule(m) BY DEF DeskInv, DeskShape
<1>2. PICK v : v = IF c.ok THEN c.number ELSE m.price OBVIOUS
<1>3. /\ UNCHANGED <<today, worth, cache>> /\ c.kind = "prices" /\ c.stage = "done"
      /\ shaky' = IF c.ok /\ c.newest /\ c.at = today THEN shaky \ {"price"} ELSE shaky \cup {"price"}
  BY <1>0 DEF OnPrices, Quietly, bankSide, Come, Judged, About
<1>4. PICK n : Shown(i, n) /\ View(n) = <<m.value, v, m.due, m.box, m.timer, m.results>>
  <2>1. CASE c.ok
    <3> DEFINE n == [m EXCEPT !.price = v]
    <3>1. Shown(i, n) BY <1>0, <1>2, <2>1 DEF OnPrices
    <3> HIDE DEF n
    <3>2. n = [m EXCEPT !.price = v] BY DEF n
    <3>3. View(n) = <<m.value, v, m.due, m.box, m.timer, m.results>> BY <1>1, <3>2, ModuleViews
    <3> QED BY <3>1, <3>3
  <2>2. CASE ~ c.ok
    <3>1. Shown(i, m) BY <1>0, <2>2 DEF OnPrices
    <3>2. View(m) = <<m.value, v, m.due, m.box, m.timer, m.results>> BY <1>2, <2>2 DEF View
    <3> QED BY <3>1, <3>2
  <2> QED BY <2>1, <2>2
<1>5. /\ desk'.module = n /\ CallsAtHome' /\ Continues(sent', sent, {i}, {}) /\ cache' \in Nat \cup {Nothing}
      /\ \A f \in Features : Shows(f)' <=> Shows(f)
  BY <1>3, <1>4, ShownGlass
<1>6. /\ desk'.module.value = m.value /\ desk'.module.price = v /\ desk'.module.due = m.due
      /\ desk'.module.box = m.box /\ desk'.module.timer = m.timer /\ desk'.module.results = m.results
  BY <1>4, <1>5 DEF View
<1>7. ~ ReadsWorth(c) /\ c.kind # "search" /\ ("worth" \in shaky' <=> "worth" \in shaky)
      /\ ("results" \in shaky' <=> "results" \in shaky)
  BY <1>3 DEF ReadsWorth
<1>8. WorthKept' BY <1>0, <1>3, <1>5, <1>6, <1>7, WorthStays DEF GlassInv
<1>9. FoundKept' BY <1>0, <1>3, <1>5, <1>6, <1>7, FoundStays DEF GlassInv
<1>10. PriceKept'
  <2>1. PriceKept /\ "crypto-trading" \in Features BY DEF GlassInv, Features
  <2>2. \A j \in DOMAIN sent' : PriceTold(sent'[j])
    BY <1>5, <2>1 DEF Continues, PriceKept, PriceTold, Peer, Kin
  <2>3. \A j \in DOMAIN sent' : PriceTold(sent[j])' BY <2>2 DEF PriceTold
  <2>4. PriceTold(c) /\ AtHome(c) BY <1>0 DEF GlassInv, PriceKept, CallsAtHome
  <2>5. Shows("crypto-trading") /\ Shows("crypto-trading")' BY <1>3, <1>5, <2>1, <2>4 DEF AtHome
  <2>6. today \in Nat /\ m.due \in Nat /\ today <= m.due /\ m.due <= today + Period BY <2>1, <2>5 DEF PriceKept
  <2>7. ASSUME desk'.module.price \in Nat, "price" \notin shaky'
        PROVE  desk'.module.due <= desk'.module.price + CacheTime - 1 + Period
    <3>1. c.ok /\ c.at = today BY <1>3, <2>7
    <3>2. v = c.number /\ v \in Nat BY <1>2, <1>6, <2>7, <3>1
    <3>3. v # Static BY <3>2, DeskAssumption
    <3>4. c.at \in Nat /\ c.at <= c.number + CacheTime - 1 BY <1>3, <2>4, <3>1, <3>2, <3>3 DEF PriceTold
    <3>5. CacheTime \in Nat /\ Period \in Nat BY DeskAssumption
    <3>6. today <= v + CacheTime - 1 BY <3>1, <3>2, <3>4
    <3>7. m.due <= v + CacheTime - 1 + Period BY <2>6, <3>2, <3>5, <3>6
    <3> QED BY <1>6, <3>7
  <2>8. today' \in Nat /\ desk'.module.due \in Nat /\ today' <= desk'.module.due /\ desk'.module.due <= today' + Period
    BY <1>3, <1>6, <2>6
  <2> QED BY <1>5, <2>3, <2>5, <2>7, <2>8 DEF PriceKept
<1> QED BY <1>5, <1>8, <1>9, <1>10 DEF GlassInv

-----------------------------------------------------------------------------
(* The search box and the prices. *)
\* A step that changes the box and what was found, and sends nothing.
LEMMA BoxGlass ==
  ASSUME DeskInv, GlassInv, NEW K, Continues(sent', sent, K, {}), NEW n, desk' = [desk EXCEPT !.module = n],
         UNCHANGED <<today, worth, cache>>, K = {},
         NEW m, m = desk.module, n.value = m.value, n.price = m.price, n.due = m.due,
         "worth" \in shaky => "worth" \in shaky', "price" \in shaky => "price" \in shaky',
         \A j \in DOMAIN sent' : FoundTold(sent[j])',
         "results" \in shaky' \/ n.timer \/ n.results = IF n.box = Short THEN {} ELSE Found[n.box]
  PROVE  GlassInv'
<1>1. desk'.module = n /\ \A f \in Features : Shows(f)' <=> Shows(f) BY ModulePane
<1>2. cache' \in Nat \cup {Nothing} BY DEF GlassInv, PriceKept
<1>3. CallsAtHome' BY <1>1, HomeStays DEF GlassInv
<1>4. WorthKept' BY <1>1, WorthStays DEF GlassInv
<1>5. PriceKept' BY <1>1, <1>2, PriceStays DEF GlassInv
<1>6. FoundKept' BY <1>1 DEF FoundKept, Hunted
<1> QED BY <1>3, <1>4, <1>5, <1>6 DEF GlassInv

\* Typing sets the timer.
LEMMA TypeGlass ==
  ASSUME DeskInv, GlassInv, NEW q, Type(q)
  PROVE  GlassInv'
<1> DEFINE b == [desk.module EXCEPT !.box = q]
           n == [b EXCEPT !.timer = TRUE]
           D == [desk EXCEPT !.module.box = q]
<1>0. PICK m : m = desk.module OBVIOUS
<1>1. desk' = [D EXCEPT !.module.timer = TRUE] BY DEF Type
<1>2. sent' = sent /\ UNCHANGED <<today, worth, cache, shaky>> BY DEF Type, Acts, bankSide, ghosts
<1>3. DeskPage(desk) /\ DeskModule(m) /\ DeskModule(desk.module) BY <1>0 DEF DeskInv, DeskShape
<1>4. D = [desk EXCEPT !.module = b] BY <1>3, ThroughPage
<1>5. QuietModule(b, m) /\ View(b) = <<m.value, m.price, m.due, q, m.timer, m.results>>
  BY <1>0, <1>3, ModuleFields, ModuleViews
<1> HIDE DEF D, b
<1>6. DeskModule(b) BY <1>5 DEF QuietModule
<1>7. desk' = [desk EXCEPT !.module = n] BY <1>1, <1>3, <1>4, <1>6, ThroughAgain
<1>8. View(n) = <<b.value, b.price, b.due, b.box, TRUE, b.results>>
  <2>1. PICK t : t = TRUE OBVIOUS
  <2>2. n = [b EXCEPT !.timer = t] BY <2>1
  <2> HIDE DEF n
  <2>3. View(n) = <<b.value, b.price, b.due, b.box, t, b.results>> BY <1>6, <2>2, ModuleViews
  <2> QED BY <2>1, <2>3
<1> HIDE DEF n
<1>9. n.value = m.value /\ n.price = m.price /\ n.due = m.due /\ n.timer BY <1>5, <1>8 DEF View
<1>10. desk'.module = n BY <1>7, ModulePane
<1>11. \A j \in DOMAIN sent' : FoundTold(sent[j])' BY <1>2, <1>9, <1>10 DEF FoundTold, GlassInv, FoundKept
<1>12. Continues(sent', sent, {}, {}) BY <1>2, SelfContinues
<1>13. PICK K : K = {} OBVIOUS
<1> QED BY <1>0, <1>2, <1>7, <1>9, <1>11, <1>12, <1>13, BoxGlass

\* Adding someone empties the box and what was found.
LEMMA PutOnGlass ==
  ASSUME DeskInv, GlassInv, NEW p, PutOn(p)
  PROVE  GlassInv'
<1>a. PICK m : m = desk.module OBVIOUS
<1>0. PICK box, timer : box = Short /\ timer = (m.timer \/ m.box # Short) OBVIOUS
<1>b. PICK list, none : list = m.selected \cup {p} /\ none = {} OBVIOUS
<1> DEFINE a == [m EXCEPT !.selected = list]
           A == [desk EXCEPT !.module.selected = list]
           b == [a EXCEPT !.results = none]
           B == [A EXCEPT !.module.results = none]
           c == [b EXCEPT !.box = box]
           C == [B EXCEPT !.module.box = box]
           d == [c EXCEPT !.timer = timer]
           D == [C EXCEPT !.module.timer = timer]
<1>1. /\ sent' = sent /\ UNCHANGED <<today, worth, cache>>
      /\ shaky' = IF m.box = Short THEN shaky \ {"results"} ELSE shaky
  BY <1>a DEF PutOn, Acts, bankSide
<1>2. DeskPage(desk) /\ DeskModule(m) /\ DeskModule(desk.module) BY <1>a DEF DeskInv, DeskShape
<1>3. desk' = D
  <2>1. desk' = [desk EXCEPT !.module.selected = @ \cup {p}, !.module.results = {},
                             !.module.box = Short, !.module.timer = @ \/ m.box # Short]
    BY <1>a DEF PutOn
  <2> QED BY <1>0, <1>a, <1>b, <1>2, <2>1 DEF DeskPage, DeskModule
<1>4. A = [desk EXCEPT !.module = a] BY <1>a, <1>2, ThroughPage
<1>5. DeskModule(a) /\ View(a) = View(m) BY <1>2, ModuleSelected, ModuleViews
<1> HIDE DEF a, A
<1>6. B = [desk EXCEPT !.module = b] BY <1>2, <1>4, <1>5, ThroughAgain
<1>7. QuietModule(b, a) /\ View(b) = <<a.value, a.price, a.due, a.box, a.timer, none>>
  BY <1>5, ModuleFields, ModuleViews
<1>8. DeskModule(b) BY <1>7 DEF QuietModule
<1> HIDE DEF b, B
<1>9. C = [desk EXCEPT !.module = c] BY <1>2, <1>6, <1>8, ThroughAgain
<1>10. QuietModule(c, b) /\ View(c) = <<b.value, b.price, b.due, box, b.timer, b.results>>
  BY <1>8, ModuleFields, ModuleViews
<1>11. DeskModule(c) BY <1>10 DEF QuietModule
<1> HIDE DEF c, C
<1>12. D = [desk EXCEPT !.module = d] BY <1>2, <1>9, <1>11, ThroughAgain
<1>13. View(d) = <<c.value, c.price, c.due, c.box, timer, c.results>> BY <1>11, ModuleViews
<1> HIDE DEF d, D
<1>14. desk' = [desk EXCEPT !.module = d] BY <1>3, <1>12
<1>15. /\ d.value = m.value /\ d.price = m.price /\ d.due = m.due /\ d.box = Short /\ d.results = {}
       /\ d.timer = (m.timer \/ m.box # Short)
  BY <1>0, <1>b, <1>5, <1>7, <1>10, <1>13 DEF View
<1>16. desk'.module = d BY <1>14, ModulePane
<1>17. \A j \in DOMAIN sent' : FoundTold(sent[j])'
  <2>1. ASSUME NEW j \in DOMAIN sent' PROVE FoundTold(sent[j])'
    <3>1. FoundTold(sent[j]) BY <1>1, <2>1 DEF GlassInv, FoundKept
    <3> QED BY <1>a, <1>1, <1>15, <1>16, <3>1 DEF FoundTold
  <2> QED BY <2>1
<1>18. Continues(sent', sent, {}, {}) BY <1>1, SelfContinues
<1>19. PICK K : K = {} OBVIOUS
<1> QED BY <1>a, <1>1, <1>14, <1>15, <1>17, <1>18, <1>19, BoxGlass

\* A search that is sent overtakes those in flight.
LEMMA SearchOvertakes ==
  ASSUME DeskInv, NEW arg, NEW k, k = "search", desk'.feature = desk.feature, sent' = Post(sent, <<k>>, arg)
  PROVE  \A j \in DOMAIN sent' : \/ sent'[j] = FreshCall(k, desk.feature, arg)
                                  \/ \E i \in DOMAIN sent : /\ Peer(sent'[j], sent[i])
                                                            /\ sent[i].kind = "search" => ~ sent'[j].newest
<1>0. PICK f : f = desk.feature OBVIOUS
<1> DEFINE kinds == <<k>>
           R == Range(kinds)
           ls == PostedCalls(sent, kinds, f, arg)
           os == Overtaken(sent, R)
<1>1. Sequence(kinds) /\ DOMAIN kinds = {1} /\ kinds[1] = k BY ShortSequences
<1>2. f \in Features /\ Flying(sent) BY <1>0 DEF DeskInv, DeskShape
<1>3. "search" \in R BY <1>1 DEF Range
<1> HIDE DEF kinds
<1>4. sent' = ls BY <1>0, PostIs DEF kinds
<1>5. /\ \A j \in DOMAIN sent : ls[j] = os[j]
      /\ \A j \in DOMAIN ls \ DOMAIN sent : \E n \in DOMAIN kinds : ls[j] = FreshCall(kinds[n], f, arg)
  BY <1>1, <1>2, PostedIs
<1>6. \A j \in DOMAIN sent : Peer(os[j], sent[j]) /\ ("search" \in R /\ sent[j].kind = "search" => ~ os[j].newest)
  <2> HIDE DEF R
  <2> QED BY <1>2, OvertakenPeers
<1> HIDE DEF ls, os, R
<1>7. ASSUME NEW j \in DOMAIN ls
      PROVE  \/ ls[j] = FreshCall(k, f, arg)
             \/ \E i \in DOMAIN sent : Peer(ls[j], sent[i]) /\ (sent[i].kind = "search" => ~ ls[j].newest)
  <2>1. CASE j \in DOMAIN sent BY <1>3, <1>5, <1>6, <2>1
  <2>2. CASE j \notin DOMAIN sent BY <1>1, <1>5, <2>2
  <2> QED BY <2>1, <2>2
<1> QED BY <1>0, <1>4, <1>7

\* The timer of the box: a search is sent, or what was found goes.
LEMMA TimerFiresGlass ==
  ASSUME DeskInv, GlassInv, TimerFires
  PROVE  GlassInv'
<1>a. PICK m, off : m = desk.module /\ off = FALSE OBVIOUS
<1> DEFINE b == [m EXCEPT !.timer = off]
           D == [desk EXCEPT !.module.timer = off]
<1>1. UNCHANGED <<today, worth, cache>> BY DEF TimerFires, bankSide
<1>2. DeskPage(desk) /\ DeskModule(m) /\ DeskModule(desk.module) BY <1>a DEF DeskInv, DeskShape
<1>3. D = [desk EXCEPT !.module = b] BY <1>a, <1>2, ThroughPage
<1>4. QuietModule(b, m) /\ View(b) = <<m.value, m.price, m.due, m.box, off, m.results>>
  BY <1>2, ModuleFields, ModuleViews
<1>5. Flying(sent) BY DEF DeskInv
<1>6. CASE m.box = Short
  <2>0. PICK none, R : none = {} /\ R = {"search"} OBVIOUS
  <2> DEFINE n == [b EXCEPT !.results = none]
             os == Overtaken(sent, R)
  <2>1. desk' = [D EXCEPT !.module.results = none] /\ sent' = os /\ shaky' = shaky \ {"results"}
    BY <1>a, <1>6, <2>0 DEF TimerFires
  <2> HIDE DEF D, b
  <2>2. DeskModule(b) BY <1>4 DEF QuietModule
  <2>3. desk' = [desk EXCEPT !.module = n] BY <1>2, <1>3, <2>1, <2>2, ThroughAgain
  <2>4. View(n) = <<b.value, b.price, b.due, b.box, b.timer, none>> BY <2>2, ModuleViews
  <2> HIDE DEF n
  <2>5. /\ n.value = m.value /\ n.price = m.price /\ n.due = m.due /\ n.box = Short /\ n.results = {}
    BY <1>4, <1>6, <2>0, <2>4 DEF View
  <2>6. /\ DOMAIN os = DOMAIN sent
        /\ \A j \in DOMAIN sent : Peer(os[j], sent[j]) /\ ("search" \in R /\ sent[j].kind = "search" => ~ os[j].newest)
    BY <1>5, OvertakenPeers
  <2> HIDE DEF os
  <2>7. Continues(os, os, {}, {}) BY SelfContinues
  <2>8. PICK K : K = {} OBVIOUS
  <2>9. Continues(sent', sent, K, {}) BY <2>1, <2>6, <2>7, <2>8, OldContinues
  <2>10. ASSUME NEW j \in DOMAIN sent' PROVE FoundTold(sent[j])'
    <3>1. j \in DOMAIN sent /\ Peer(sent'[j], sent[j]) /\ (sent[j].kind = "search" => ~ sent'[j].newest)
      BY <2>0, <2>1, <2>6
    <3>2. FoundTold(sent[j]) BY <3>1 DEF GlassInv, FoundKept
    <3> QED BY <3>1, <3>2 DEF FoundTold, Peer, Kin
  <2>11. \A j \in DOMAIN sent' : FoundTold(sent[j])' BY <2>10
  <2> QED BY <1>a, <1>1, <2>1, <2>3, <2>5, <2>8, <2>9, <2>11, BoxGlass
<1>7. CASE m.box # Short
  <2>0. PICK k, arg : k = "search" /\ arg = {m.box} OBVIOUS
  <2>1. desk' = D /\ sent' = Post(sent, <<k>>, arg) /\ shaky' = shaky BY <1>a, <1>7, <2>0 DEF TimerFires
  <2> HIDE DEF D, b
  <2>2. desk' = [desk EXCEPT !.module = b] BY <1>3, <2>1
  <2>3. desk'.module = b /\ desk'.feature = desk.feature /\ \A f \in Features : Shows(f)' <=> Shows(f)
    BY <2>2, ModulePane
  <2>4. PICK c : c = FreshCall(k, desk.feature, arg) OBVIOUS
  <2>5. Continues(sent', sent, {}, {c}) BY <2>1, <2>3, <2>4, SentContinues
  <2>6. Told(c) /\ c.kind = "search" /\ c.stage = "sent" BY <1>a, <1>7, <2>0, <2>4, FreshTold
  <2>7. c.arg = arg BY <2>4 DEF FreshCall
  <2>8. /\ desk'.module.value = m.value /\ desk'.module.price = m.price /\ desk'.module.due = m.due
        /\ desk'.module.box = m.box /\ desk'.module.results = m.results
    BY <1>4, <2>3 DEF View
  <2>9. cache' \in Nat \cup {Nothing} BY <1>1 DEF GlassInv, PriceKept
  <2>10. CallsAtHome' BY <2>3, <2>5, <2>6, HomeStays DEF GlassInv, Told
  <2>11. WorthKept' BY <1>a, <1>1, <2>1, <2>3, <2>5, <2>6, <2>8, WorthStays DEF GlassInv, Told
  <2>12. PriceKept' BY <1>a, <1>1, <2>1, <2>3, <2>5, <2>6, <2>8, <2>9, PriceStays DEF GlassInv, Told
  <2>13. ASSUME NEW j \in DOMAIN sent' PROVE FoundTold(sent[j])'
    <3>1. CASE sent'[j] = c
      BY <1>7, <2>0, <2>6, <2>7, <2>8, <3>1 DEF FoundTold
    <3>2. CASE sent'[j] # c
      <4>1. PICK i \in DOMAIN sent : Peer(sent'[j], sent[i]) /\ (sent[i].kind = "search" => ~ sent'[j].newest)
        BY <2>0, <2>1, <2>3, <2>4, <3>2, SearchOvertakes
      <4>2. FoundTold(sent[i]) BY DEF GlassInv, FoundKept
      <4> QED BY <4>1, <4>2 DEF FoundTold, Peer, Kin
    <3> QED BY <3>1, <3>2
  <2>14. \E j \in DOMAIN sent' : sent'[j].kind = "search" BY <2>5, <2>6 DEF Continues
  <2>15. \A j \in DOMAIN sent' : FoundTold(sent[j])' BY <2>13
  <2>16. FoundKept' BY <2>14, <2>15 DEF FoundKept
  <2> QED BY <2>10, <2>11, <2>12, <2>16 DEF GlassInv
<1> QED BY <1>6, <1>7

\* The prices are read again: they will be due a period from now.
LEMMA ReadPricesGlass ==
  ASSUME DeskInv, GlassInv, ReadPrices
  PROVE  GlassInv'
<1>0. PICK m, due, k : m = desk.module /\ due = today + Period /\ k = "prices" OBVIOUS
<1> DEFINE b == [m EXCEPT !.due = due]
<1>1. /\ desk' = [desk EXCEPT !.module.due = due] /\ sent' = Post(sent, <<k>>, {})
      /\ UNCHANGED <<today, worth, cache, shaky>> /\ Shows("crypto-trading")
  BY <1>0 DEF ReadPrices, bankSide, ghosts, PricesDue
<1>2. DeskPage(desk) /\ DeskModule(m) /\ DeskModule(desk.module) BY <1>0 DEF DeskInv, DeskShape
<1>3. desk' = [desk EXCEPT !.module = b] BY <1>0, <1>1, <1>2, ThroughPage
<1>4. View(b) = <<m.value, m.price, due, m.box, m.timer, m.results>> BY <1>2, ModuleViews
<1> HIDE DEF b
<1>5. desk'.module = b /\ desk'.feature = desk.feature /\ \A f \in Features : Shows(f)' <=> Shows(f)
  BY <1>3, ModulePane
<1>6. PICK a : a = {} OBVIOUS
<1>7. PICK c : c = FreshCall(k, desk.feature, a) OBVIOUS
<1>8. Continues(sent', sent, {}, {c}) BY <1>1, <1>5, <1>6, <1>7, SentContinues
<1>9. Told(c) /\ c.kind = "prices" BY <1>0, <1>1, <1>7, FreshTold
<1>10. /\ desk'.module.value = m.value /\ desk'.module.price = m.price /\ desk'.module.due = due
       /\ desk'.module.box = m.box /\ desk'.module.timer = m.timer /\ desk'.module.results = m.results
  BY <1>4, <1>5 DEF View
<1>11. CallsAtHome' BY <1>5, <1>8, <1>9, HomeStays DEF GlassInv, Told
<1>12. WorthKept' BY <1>0, <1>1, <1>5, <1>8, <1>9, <1>10, WorthStays DEF GlassInv, Told
<1>13. FoundKept' BY <1>0, <1>1, <1>5, <1>8, <1>9, <1>10, FoundStays DEF GlassInv, Told
<1>14. PriceKept'
  <2>1. PriceKept /\ "crypto-trading" \in Features BY DEF GlassInv, Features
  <2>2. \A j \in DOMAIN sent' : PriceTold(sent'[j])
    BY <1>8, <1>9, <2>1 DEF Continues, PriceKept, PriceTold, Peer, Kin, Told
  <2>3. \A j \in DOMAIN sent' : PriceTold(sent[j])' BY <2>2 DEF PriceTold
  <2>4. today \in Nat /\ Period \in Nat /\ cache' \in Nat \cup {Nothing} BY <1>1, <2>1, DeskAssumption DEF PriceKept
  <2>5. due \in Nat /\ today <= due /\ due <= today + Period BY <1>0, <2>4
  <2>6. today' \in Nat /\ desk'.module.due \in Nat /\ today' <= desk'.module.due /\ desk'.module.due <= today' + Period
    BY <1>1, <1>10, <2>4, <2>5
  <2>7. \E j \in DOMAIN sent' : sent'[j].kind = "prices" BY <1>8, <1>9 DEF Continues
  <2>8. Shows("crypto-trading")' BY <1>1, <1>5, <2>1
  <2> QED BY <2>3, <2>4, <2>6, <2>7, <2>8 DEF PriceKept
<1> QED BY <1>11, <1>12, <1>13, <1>14 DEF GlassInv

-----------------------------------------------------------------------------
(* The page turns: what is shown is fresh. *)
\* What a module that is left leaves in flight: the licence's calls, and orders without a page.
Outlives(c) == Proper(c) /\ (c.kind \in OfPage \/ (c.kind \in Orders /\ c.stage = "sent" /\ ~ c.here))

\* What is in flight when a module is left is the licence's, or an order nobody watches.
LEMMA AbandonedLeft ==
  ASSUME NEW ms, Flying(ms)
  PROVE  Flying(Abandoned(ms)) /\ \A n \in DOMAIN Abandoned(ms) : Outlives(Abandoned(ms)[n])
<1> DEFINE gone == [j \in DOMAIN ms |-> [ms[j] EXCEPT !.here = @ /\ ms[j].kind \in OfPage]]
           J == {j \in DOMAIN gone : gone[j].kind \in OfPage \/ (gone[j].kind \in Orders /\ gone[j].stage = "sent")}
           r == Sifted(gone, J)
<1>1. Abandoned(ms) = r BY DEF Abandoned
<1>2. DOMAIN gone = DOMAIN ms OBVIOUS
<1>3. ASSUME NEW j \in DOMAIN ms PROVE gone[j].kind \notin OfPage => ~ gone[j].here
  <2> DEFINE e == ms[j]
  <2>1. Proper(e) BY DEF Flying
  <2>2. PICK b : b = (ms[j].kind \in OfPage) OBVIOUS
  <2>3. gone[j] = [e EXCEPT !.here = @ /\ b] BY <2>2
  <2> HIDE DEF e, gone
  <2>4. PICK n : n = gone[j] OBVIOUS
  <2>5. n = [kind |-> e.kind, feature |-> e.feature, arg |-> e.arg, stage |-> e.stage, ok |-> e.ok,
             value |-> e.value, number |-> e.number, here |-> e.here /\ b, newest |-> e.newest, at |-> e.at]
    BY <2>1, <2>3, <2>4 DEF Proper, DeskCall
  <2>6. n.kind = e.kind /\ n.here = (e.here /\ b) BY <2>5
  <2> QED BY <2>2, <2>4, <2>6 DEF e
<1> HIDE DEF gone
<1>4. Flying(r) BY <1>1, AbandonedKept
<1>5. J \in SUBSET (DOMAIN gone) OBVIOUS
<1>6. \A j \in J : gone[j].kind \in OfPage \/ (gone[j].kind \in Orders /\ gone[j].stage = "sent" /\ ~ gone[j].here)
  BY <1>2, <1>3 DEF OfPage, Orders
<1> HIDE DEF J
<1>7. Sequence(gone)
  <2>1. DOMAIN gone = DOMAIN ms /\ gone = [j \in DOMAIN ms |-> gone[j]] BY <1>2 DEF gone
  <2>2. Sequence(ms) BY DEF Flying
  <2>3. Len(ms) \in Nat /\ DOMAIN ms = 1 .. Len(ms) BY <2>2, SequenceFacts
  <2> QED BY <2>1, <2>3, SequenceMade
<1>8. PICK g \in [DOMAIN r -> J] : \A n \in DOMAIN r : r[n] = gone[g[n]]
  BY <1>5, <1>7, SiftedFrom
<1>9. \A n \in DOMAIN r : Outlives(r[n])
  <2> HIDE DEF r
  <2>1. ASSUME NEW n \in DOMAIN r PROVE Outlives(r[n])
    <3>1. g[n] \in J /\ r[n] = gone[g[n]] BY <1>8
    <3>2. Proper(r[n]) BY <1>4 DEF Flying
    <3> QED BY <1>6, <3>1, <3>2 DEF Outlives
  <2> QED BY <2>1
<1> QED BY <1>1, <1>4, <1>9

\* What a module that is mounted shows, and asks for.
LEMMA ModuleFresh ==
  ASSUME NEW f \in Features, NEW M, M \in {Module(f), NoModule}, today \in Nat
  PROVE  /\ M.price = Nothing /\ M.box = Short /\ M.timer = FALSE /\ M.results = {} /\ M.due \in Nat
         /\ f = "crypto-trading" /\ M = Module(f) => M.due = today + Period
         /\ f = "crypto-trading" => \E n \in DOMAIN ModuleReads(f) : ModuleReads(f)[n] = "portfolio"
         /\ f = "wealth-management-pro" => \E n \in DOMAIN ModuleReads(f) : ModuleReads(f)[n] = "insights"
         /\ \A n \in DOMAIN ModuleReads(f) :
              \/ ModuleReads(f)[n] = "stats" /\ f = "ai-insights"
              \/ ModuleReads(f)[n] = "prices" /\ f = "crypto-trading"
              \/ ModuleReads(f)[n] \in {"portfolio", "insights", "payees"}
<1>0. Period \in Nat BY DeskAssumption
<1>1. \/ f = "ai-insights" \/ f = "crypto-trading" \/ f = "wealth-management-pro" \/ f = "bulk-payroll-processing"
  BY DEF Features
<1>2. /\ NoModule.price = Nothing /\ NoModule.box = Short /\ NoModule.timer = FALSE /\ NoModule.results = {}
      /\ NoModule.due = 0
  BY DEF NoModule
<1>3. CASE f = "ai-insights"
  <2>1. ModuleReads(f) = <<"stats">> BY <1>3 DEF ModuleReads
  <2>2. Module(f).price = Nothing /\ Module(f).box = Short /\ Module(f).timer = FALSE /\ Module(f).results = {} /\ Module(f).due = 0
    BY <1>3 DEF Module, Library, NoModule
  <2>3. \A n \in DOMAIN ModuleReads(f) : ModuleReads(f)[n] = "stats" BY <2>1
  <2> QED BY <1>2, <1>3, <2>2, <2>3
<1>4. CASE f = "crypto-trading"
  <2>1. ModuleReads(f) = <<"prices", "portfolio">> BY <1>4 DEF ModuleReads
  <2>2. PICK due : due = today + Period OBVIOUS
  <2>3. Module(f) = [NoModule EXCEPT !.due = due] BY <1>4, <2>2 DEF Module, Trading
  <2>4. /\ Module(f).price = Nothing /\ Module(f).box = Short /\ Module(f).timer = FALSE /\ Module(f).results = {}
        /\ Module(f).due = due
    BY <2>3 DEF NoModule
  <2>5. due \in Nat BY <1>0, <2>2
  <2>6. 2 \in DOMAIN ModuleReads(f) /\ ModuleReads(f)[2] = "portfolio" BY <2>1
  <2>7. \A n \in DOMAIN ModuleReads(f) : ModuleReads(f)[n] \in {"prices", "portfolio"} BY <2>1
  <2> QED BY <1>2, <1>4, <2>2, <2>4, <2>5, <2>6, <2>7
<1>5. CASE f = "wealth-management-pro"
  <2>1. ModuleReads(f) = <<"insights">> BY <1>5 DEF ModuleReads
  <2>2. Module(f).price = Nothing /\ Module(f).box = Short /\ Module(f).timer = FALSE /\ Module(f).results = {} /\ Module(f).due = 0
    BY <1>5 DEF Module, Wealth, NoModule
  <2>3. 1 \in DOMAIN ModuleReads(f) /\ \A n \in DOMAIN ModuleReads(f) : ModuleReads(f)[n] = "insights" BY <2>1
  <2> QED BY <1>2, <1>5, <2>2, <2>3
<1>6. CASE f = "bulk-payroll-processing"
  <2>1. ModuleReads(f) = <<"payees">> BY <1>6 DEF ModuleReads
  <2>2. Module(f).price = Nothing /\ Module(f).box = Short /\ Module(f).timer = FALSE /\ Module(f).results = {} /\ Module(f).due = 0
    BY <1>6 DEF Module, Payroll, NoModule
  <2>3. \A n \in DOMAIN ModuleReads(f) : ModuleReads(f)[n] = "payees" BY <2>1
  <2> QED BY <1>2, <1>6, <2>2, <2>3
<1> QED BY <1>1, <1>3, <1>4, <1>5, <1>6

\* Of a page that turned nothing old is told, and what its module shows is asked for.
LEMMA TurnedGlass ==
  ASSUME GlassInv, NEW qs, \A n \in DOMAIN qs : Outlives(qs[n]), NEW f \in Features, NEW new,
         Continues(sent', qs, {}, new), NEW M, desk'.module = M, desk'.feature = f, NEW open \in BOOLEAN,
         open <=> Open(desk)', M = IF open THEN Module(f) ELSE NoModule, NEW a,
         \A c \in new : \E k : c = FreshCall(k, f, a) /\ (k = "status" \/ (open /\ k \in Range(ModuleReads(f)))),
         open => \A k \in Range(ModuleReads(f)) : FreshCall(k, f, a) \in new,
         UNCHANGED <<today, worth, cache>>
  PROVE  GlassInv'
<1>0. PriceKept /\ today \in Nat /\ Period \in Nat BY DeskAssumption DEF GlassInv, PriceKept
<1>1. \A g : Shows(g)' <=> open /\ f = g BY DEF Shows
<1>2. M \in {Module(f), NoModule} OBVIOUS
<1>3. /\ M.price = Nothing /\ M.box = Short /\ M.timer = FALSE /\ M.results = {} /\ M.due \in Nat
      /\ f = "crypto-trading" /\ M = Module(f) => M.due = today + Period
      /\ f = "crypto-trading" => "portfolio" \in Range(ModuleReads(f))
      /\ f = "wealth-management-pro" => "insights" \in Range(ModuleReads(f))
      /\ \A k \in Range(ModuleReads(f)) :
           \/ (k = "stats" /\ f = "ai-insights") \/ (k = "prices" /\ f = "crypto-trading")
           \/ k \in {"portfolio", "insights", "payees"}
  <2>1. PICK s : s = ModuleReads(f) OBVIOUS
  <2>2. /\ M.price = Nothing /\ M.box = Short /\ M.timer = FALSE /\ M.results = {} /\ M.due \in Nat
        /\ f = "crypto-trading" /\ M = Module(f) => M.due = today + Period
    BY <1>0, <1>2, ModuleFresh
  <2>3. /\ f = "crypto-trading" => \E n \in DOMAIN s : s[n] = "portfolio"
        /\ f = "wealth-management-pro" => \E n \in DOMAIN s : s[n] = "insights"
    BY <1>0, <1>2, <2>1, ModuleFresh
  <2>4. \A n \in DOMAIN s : \/ (s[n] = "stats" /\ f = "ai-insights") \/ (s[n] = "prices" /\ f = "crypto-trading")
                            \/ s[n] \in {"portfolio", "insights", "payees"}
    <3>1. \A n \in DOMAIN ModuleReads(f) :
              \/ ModuleReads(f)[n] = "stats" /\ f = "ai-insights"
              \/ ModuleReads(f)[n] = "prices" /\ f = "crypto-trading"
              \/ ModuleReads(f)[n] \in {"portfolio", "insights", "payees"}
      BY <1>0, <1>2, ModuleFresh
    <3>2. ASSUME NEW n \in DOMAIN s
          PROVE  \/ (s[n] = "stats" /\ f = "ai-insights") \/ (s[n] = "prices" /\ f = "crypto-trading")
                 \/ s[n] \in {"portfolio", "insights", "payees"}
      <4>1. n \in DOMAIN ModuleReads(f) /\ ModuleReads(f)[n] = s[n] BY <2>1
      <4> QED BY <3>1, <4>1
    <3> QED BY <3>2
  <2>5. /\ f = "crypto-trading" => "portfolio" \in Range(s)
        /\ f = "wealth-management-pro" => "insights" \in Range(s)
    BY <2>3 DEF Range
  <2>6. \A k \in Range(s) : \/ (k = "stats" /\ f = "ai-insights") \/ (k = "prices" /\ f = "crypto-trading")
                           \/ k \in {"portfolio", "insights", "payees"}
    BY <2>4 DEF Range
  <2> QED BY <2>1, <2>2, <2>5, <2>6
<1>4. ASSUME NEW c \in new
      PROVE  /\ c.stage = "sent" /\ c.here /\ c.kind # "search"
             /\ c.kind = "prices" => Shows("crypto-trading")'
             /\ c.kind \in {"book", "stats"} => Shows("ai-insights")'
  <2>1. PICK k : c = FreshCall(k, f, a) /\ (k = "status" \/ (open /\ k \in Range(ModuleReads(f)))) OBVIOUS
  <2>2. c.stage = "sent" /\ c.here /\ c.kind = k BY <2>1 DEF FreshCall
  <2> QED BY <1>1, <1>3, <2>1, <2>2
<1>5. ASSUME NEW j \in DOMAIN sent', NEW n \in DOMAIN qs, Peer(sent'[j], qs[n])
      PROVE  /\ sent'[j].kind \in OfPage \cup Orders
             /\ sent'[j].kind \notin Orders => sent'[j].here
             /\ sent'[j].kind \in Orders => ~ sent'[j].here /\ sent'[j].stage = "sent"
  BY <1>5 DEF Outlives, Proper, Peer, Kin, OfPage, Orders
<1>6. ASSUME NEW j \in DOMAIN sent' PROVE AtHome(sent[j])' /\ WorthTold(sent[j])' /\ FoundTold(sent[j])' /\ PriceTold(sent[j])'
  <2>1. CASE sent'[j] \in new
    <3>1. PICK c \in new : c = sent'[j] BY <2>1
    <3> QED BY <1>4, <3>1 DEF AtHome, WorthTold, FoundTold, PriceTold, Sure
  <2>2. CASE sent'[j] \notin new
    <3>1. PICK n \in DOMAIN qs : Peer(sent'[j], qs[n]) BY <2>2 DEF Continues
    <3> QED BY <1>5, <3>1 DEF AtHome, WorthTold, FoundTold, PriceTold, OfPage, Orders
  <2> QED BY <2>1, <2>2
<1>7. CallsAtHome' BY <1>6 DEF CallsAtHome
<1>8. WorthKept'
  <2>1. ASSUME NEW g \in {"crypto-trading", "wealth-management-pro"}, Shows(g)'
        PROVE  \E j \in DOMAIN sent' : ReadsWorth(sent[j])'
    <3>1. open /\ f = g BY <1>1, <2>1
    <3>2. PICK k \in Range(ModuleReads(f)) : k \in {"portfolio", "insights"} BY <1>3, <3>1
    <3>3. FreshCall(k, f, a) \in new BY <3>1
    <3>4. PICK j \in DOMAIN sent' : sent'[j] = FreshCall(k, f, a) BY <3>3 DEF Continues
    <3>5. sent'[j].kind = k BY <3>4 DEF FreshCall
    <3> QED BY <3>2, <3>5 DEF ReadsWorth
  <2> QED BY <1>6, <2>1 DEF WorthKept
<1>9. FoundKept'
  <2>1. Hunted' = {} BY <1>3 DEF Hunted
  <2> QED BY <1>3, <1>6, <2>1 DEF FoundKept
<1>10. PriceKept'
  <2>1. Nothing \notin Nat BY DeskAssumption
  <2>2. Shows("crypto-trading")' => M.due = today + Period BY <1>1, <1>3
  <2>3. today' \in Nat /\ cache' \in Nat \cup {Nothing} /\ desk'.module.due \in Nat BY <1>0, <1>3 DEF PriceKept
  <2>4. Shows("crypto-trading")' => today' <= desk'.module.due /\ desk'.module.due <= today' + Period
    BY <1>0, <2>2
  <2> QED BY <1>3, <1>6, <2>1, <2>3, <2>4 DEF PriceKept
<1> QED BY <1>7, <1>8, <1>9, <1>10 DEF GlassInv

\* What a page asks for when it arrives: the licence first.
LEMMA StatusFirst ==
  ASSUME NEW s, Sequence(s), NEW kinds, kinds = <<"status">> \o s
  PROVE  \A k : k \in Range(kinds) <=> k = "status" \/ k \in Range(s)
<1> DEFINE T == {"status"} \cup Range(s)
           one == <<"status">>
<1>1. Len(s) \in Nat /\ DOMAIN s = 1 .. Len(s) /\ s = [j \in 1 .. Len(s) |-> s[j]] BY SequenceFacts
<1>2. s \in Seq(T)
  <2>1. s \in [1 .. Len(s) -> T] BY <1>1 DEF Range
  <2> QED BY <1>1, <2>1, SeqDef
<1>3. one \in Seq(T) /\ Len(one) = 1 /\ one[1] = "status" OBVIOUS
<1> HIDE DEF T, one
<1>4. /\ one \o s \in Seq(T) /\ Len(one \o s) = Len(one) + Len(s)
      /\ \A j \in 1 .. (Len(one) + Len(s)) : (one \o s)[j] = IF j <= Len(one) THEN one[j] ELSE s[j - Len(one)]
  BY <1>2, <1>3, ConcatProperties
<1>5. kinds = one \o s BY DEF one
<1>6. DOMAIN kinds = 1 .. (1 + Len(s)) BY <1>3, <1>4, <1>5, LenProperties
<1>7. kinds[1] = "status" /\ \A j \in 2 .. (1 + Len(s)) : kinds[j] = s[j - 1] BY <1>1, <1>3, <1>4, <1>5
<1>8. \A j \in DOMAIN s : j + 1 \in 2 .. (1 + Len(s)) /\ kinds[j + 1] = s[j] BY <1>1, <1>7
<1>9. ASSUME NEW j \in DOMAIN kinds PROVE kinds[j] = "status" \/ kinds[j] \in Range(s)
  <2>1. CASE j = 1 BY <1>7, <2>1
  <2>2. CASE j # 1
    <3>1. j \in 2 .. (1 + Len(s)) /\ j - 1 \in DOMAIN s BY <1>1, <1>6, <2>2
    <3> QED BY <1>7, <3>1 DEF Range
  <2> QED BY <2>1, <2>2
<1>10. "status" \in Range(kinds)
  <2>1. 1 \in DOMAIN kinds BY <1>1, <1>6
  <2> QED BY <1>7, <2>1 DEF Range
<1>11. ASSUME NEW j \in DOMAIN s PROVE s[j] \in Range(kinds)
  <2>1. j + 1 \in DOMAIN kinds BY <1>1, <1>6
  <2> QED BY <1>8, <2>1 DEF Range
<1> QED BY <1>9, <1>10, <1>11 DEF Range

\* An answer about the licence opens the page's feature, closes it, or leaves it as it is.
LEMMA BecomeGlass ==
  ASSUME DeskInv, GlassInv, NEW i \in DOMAIN sent, sent[i].kind \in OfPage, NEW P, DeskPage(P),
         P.module = desk.module, P.feature = desk.feature, Become(P, RemoveAt(sent, i)),
         UNCHANGED <<today, worth, cache>>, shaky \subseteq shaky' \cup {"licence"}
  PROVE  GlassInv'
<1>1. desk.feature \in Features /\ Flying(sent) BY DEF DeskInv, DeskShape
<1>2. PICK ps : ps = RemoveAt(sent, i) OBVIOUS
<1>3. Flying(ps) /\ Continues(ps, sent, {i}, {}) BY <1>1, <1>2, WithoutKept, WithoutContinues
<1>4. Become(P, ps) BY <1>2
<1> DEFINE turns == Open(P) # Open(desk) \/ P.feature # desk.feature
<1>5. CASE ~ turns
  <2>1. desk' = P /\ sent' = ps BY <1>4, <1>5 DEF Become
  <2>2. \A f \in Features : Shows(f)' <=> Shows(f)
    <3>1. (Open(desk))' <=> Open(desk) BY <1>5, <2>1 DEF Open
    <3> QED BY <2>1, <3>1 DEF Shows
  <2>3. Continues(sent', sent, {i}, {}) BY <1>3, <2>1
  <2>4. cache' \in Nat \cup {Nothing} BY DEF GlassInv, PriceKept
  <2>5. ~ ReadsWorth(sent[i]) /\ sent[i].kind # "search" /\ sent[i].kind # "prices" BY DEF ReadsWorth, OfPage
  <2>6. \A r \in {"worth", "results", "price"} : r \in shaky => r \in shaky' OBVIOUS
  <2>7. CallsAtHome' BY <2>2, <2>3, HomeStays DEF GlassInv
  <2>8. WorthKept' BY <2>1, <2>2, <2>3, <2>5, <2>6, WorthStays DEF GlassInv
  <2>9. FoundKept' BY <2>1, <2>2, <2>3, <2>5, <2>6, FoundStays DEF GlassInv
  <2>10. PriceKept' BY <2>1, <2>2, <2>3, <2>4, <2>5, <2>6, PriceStays DEF GlassInv
  <2> QED BY <2>7, <2>8, <2>9, <2>10 DEF GlassInv
<1>6. CASE turns
  <2>1. PICK f : f = P.feature OBVIOUS
  <2>2. f \in Features BY <1>1, <2>1
  <2>3. PICK open \in BOOLEAN : open = Open(P) BY DEF Open
  <2>4. PICK M : M = IF open THEN Module(f) ELSE NoModule OBVIOUS
  <2>5. PICK qs : qs = Abandoned(ps) OBVIOUS
  <2>6. /\ desk' = [P EXCEPT !.module = M]
        /\ sent' = IF open THEN Post(qs, ModuleReads(f), {}) ELSE qs
    BY <1>4, <1>6, <2>1, <2>3, <2>4, <2>5 DEF Become
  <2>7. /\ DeskPage(desk') /\ desk'.feature = f /\ desk'.loading = P.loading /\ desk'.unlocked = P.unlocked
        /\ desk'.module = M
    BY <2>1, <2>6, PageModule
  <2>8. open <=> Open(desk)' BY <2>3, <2>7 DEF Open
  <2>9. Flying(qs) /\ \A n \in DOMAIN qs : Outlives(qs[n]) BY <1>3, <2>5, AbandonedLeft
  <2>10. PICK a : a = {} OBVIOUS
  <2>11. CASE ~ open
    <3>1. sent' = qs BY <2>6, <2>11
    <3>2. PICK none : none = {} OBVIOUS
    <3>3. Continues(sent', qs, {}, none) BY <3>1, <3>2, SelfContinues
    <3> QED BY <2>2, <2>4, <2>7, <2>8, <2>9, <2>11, <3>2, <3>3, TurnedGlass
  <2>12. CASE open
    <3>1. PICK kinds : kinds = ModuleReads(f) OBVIOUS
    <3>2. Sequence(kinds) BY <2>2, <3>1, ModuleMounted
    <3>3. sent' = PostedCalls(qs, kinds, f, a) BY <2>6, <2>7, <2>10, <2>12, <3>1, PostIs
    <3>4. PICK new : new = {FreshCall(kinds[n], f, a) : n \in DOMAIN kinds} OBVIOUS
    <3>5. Continues(sent', qs, {}, new) BY <2>2, <2>9, <3>2, <3>3, <3>4, PostedContinues
    <3>6. \A c \in new : \E k : c = FreshCall(k, f, a) /\ (k = "status" \/ (open /\ k \in Range(ModuleReads(f))))
      BY <2>12, <3>1, <3>4 DEF Range
    <3>7. open => \A k \in Range(ModuleReads(f)) : FreshCall(k, f, a) \in new
      BY <3>1, <3>4 DEF Range
    <3> QED BY <2>2, <2>4, <2>7, <2>8, <2>9, <3>5, <3>6, <3>7, TurnedGlass
  <2> QED BY <2>11, <2>12
<1> QED BY <1>5, <1>6

\* OnStatus and OnUnlock: what is shown is kept, or fresh.
LEMMA OnStatusGlass ==
  ASSUME DeskInv, GlassInv, NEW i \in DOMAIN sent, OnStatus(i)
  PROVE  GlassInv'
<1> DEFINE c == sent[i]
<1>0. PICK off, now : off = FALSE /\ now = IF c.ok THEN c.feature \in c.value ELSE desk.unlocked OBVIOUS
<1>1. PICK L : L = [desk EXCEPT !.loading = off] OBVIOUS
<1>2. PICK P : P = [L EXCEPT !.unlocked = now] OBVIOUS
<1>3. DeskPage(desk) BY DEF DeskInv, DeskShape
<1>4. DeskPage(L) /\ L.feature = desk.feature /\ L.module = desk.module BY <1>1, <1>3, PageLoading
<1>5. DeskPage(P) /\ P.feature = desk.feature /\ P.module = desk.module BY <1>2, <1>4, PageUnlocked
<1>6. /\ c.kind = "status" /\ c.stage = "done" /\ UNCHANGED <<today, worth, cache>>
      /\ Judged(c, c.ok /\ c.newest)
  BY DEF OnStatus, Come, Quietly, bankSide
<1>7. Become(P, RemoveAt(sent, i))
  <2>1. P = [desk EXCEPT !.loading = FALSE, !.unlocked = IF c.ok THEN c.feature \in c.value ELSE @]
    BY <1>0, <1>1, <1>2, <1>3 DEF DeskPage
  <2> QED BY <2>1 DEF OnStatus
<1>8. sent[i].kind \in OfPage BY <1>6 DEF OfPage
<1>9. shaky \subseteq shaky' \cup {"licence"} BY <1>6 DEF Judged, About
<1> QED BY <1>5, <1>6, <1>7, <1>8, <1>9, BecomeGlass

\* Once a licence is paid its module opens, and reads what it shows.
LEMMA OnUnlockGlass ==
  ASSUME DeskInv, GlassInv, NEW i \in DOMAIN sent, OnUnlock(i)
  PROVE  GlassInv'
<1> DEFINE c == sent[i]
<1>0. PICK off, now : off = FALSE /\ now = (desk.unlocked \/ c.ok) OBVIOUS
<1>1. PICK L : L = [desk EXCEPT !.unlocking = off] OBVIOUS
<1>2. PICK P : P = [L EXCEPT !.unlocked = now] OBVIOUS
<1>3. DeskPage(desk) BY DEF DeskInv, DeskShape
<1>4. DeskPage(L) /\ L.feature = desk.feature /\ L.module = desk.module BY <1>1, <1>3, PageUnlocking
<1>5. DeskPage(P) /\ P.feature = desk.feature /\ P.module = desk.module BY <1>2, <1>4, PageUnlocked
<1>6. /\ c.kind = "unlock" /\ c.stage = "done" /\ UNCHANGED <<today, worth, cache>>
      /\ IF c.ok THEN Judged(c, c.newest /\ c.feature = desk.feature) ELSE shaky' = shaky
  BY DEF OnUnlock, Come, Quietly, bankSide
<1>7. Become(P, RemoveAt(sent, i))
  <2>1. P = [desk EXCEPT !.unlocking = FALSE, !.unlocked = @ \/ c.ok]
    BY <1>0, <1>1, <1>2, <1>3 DEF DeskPage
  <2> QED BY <2>1 DEF OnUnlock
<1>8. sent[i].kind \in OfPage BY <1>6 DEF OfPage
<1>9. shaky \subseteq shaky' \cup {"licence"} BY <1>6 DEF Judged, About
<1> QED BY <1>5, <1>6, <1>7, <1>8, <1>9, BecomeGlass

\* Going to another feature: what it shows is fresh.
LEMMA GotoGlass ==
  ASSUME DeskInv, GlassInv, NEW f \in Features, Goto(f)
  PROVE  GlassInv'
<1>1. DeskPage(desk) /\ desk.feature \in Features /\ Flying(sent) BY DEF DeskInv, DeskShape
<1>2. PICK open \in BOOLEAN : open = Open(desk) BY DEF Open
<1>3. PICK M : M = IF open THEN Module(f) ELSE NoModule OBVIOUS
<1>4. PICK s : s = IF open THEN ModuleReads(f) ELSE <<>> OBVIOUS
<1>5. PICK kinds : kinds = <<"status">> \o s OBVIOUS
<1>6. PICK qs : qs = Abandoned(sent) OBVIOUS
<1>7. PICK a : a = {} OBVIOUS
<1>8. /\ desk' = [desk EXCEPT !.feature = f, !.module = M] /\ sent' = Post(qs, kinds, a)
      /\ UNCHANGED <<today, worth, cache>>
  BY <1>2, <1>3, <1>4, <1>5, <1>6, <1>7 DEF Goto, Acts, bankSide
<1>9. PICK F : F = [desk EXCEPT !.feature = f] OBVIOUS
<1>10. DeskPage(F) /\ F.feature = f /\ F.loading = desk.loading /\ F.unlocked = desk.unlocked BY <1>1, <1>9, PageFeature
<1>11. desk' = [F EXCEPT !.module = M] BY <1>1, <1>8, <1>9 DEF DeskPage
<1>12. desk'.feature = f /\ desk'.loading = desk.loading /\ desk'.unlocked = desk.unlocked /\ desk'.module = M
  BY <1>10, <1>11, PageModule
<1>13. open <=> Open(desk)' BY <1>2, <1>12 DEF Open
<1>14. Flying(qs) /\ \A n \in DOMAIN qs : Outlives(qs[n]) BY <1>1, <1>6, AbandonedLeft
<1>15. Sequence(s) /\ \A n \in DOMAIN s : s[n] \notin Weighty
  <2>1. CASE open BY <1>4, <2>1, ModuleMounted
  <2>2. CASE ~ open
    <3>1. s = <<>> BY <1>4, <2>2
    <3> QED BY <3>1, ShortSequences
  <2> QED BY <2>1, <2>2
<1>16. Sequence(kinds) BY <1>5, <1>15, ArrivalReads DEF Arrival
<1>17. \A k : k \in Range(kinds) <=> k = "status" \/ k \in Range(s) BY <1>5, <1>15, StatusFirst
<1>18. sent' = PostedCalls(qs, kinds, f, a) BY <1>8, <1>12, PostIs
<1>19. PICK new : new = {FreshCall(kinds[n], f, a) : n \in DOMAIN kinds} OBVIOUS
<1>20. Continues(sent', qs, {}, new) BY <1>14, <1>16, <1>18, <1>19, PostedContinues
<1>21. \A k \in Range(kinds) : FreshCall(k, f, a) \in new BY <1>19 DEF Range
<1>22. \A c \in new : \E k \in Range(kinds) : c = FreshCall(k, f, a) BY <1>19 DEF Range
<1>23. \A k \in Range(s) : open /\ k \in Range(ModuleReads(f))
  <2>1. CASE open BY <1>4, <2>1
  <2>2. CASE ~ open
    <3>1. s = <<>> BY <1>4, <2>2
    <3>2. DOMAIN s = {} BY <3>1
    <3> QED BY <3>2 DEF Range
  <2> QED BY <2>1, <2>2
<1>24. \A c \in new : \E k : c = FreshCall(k, f, a) /\ (k = "status" \/ (open /\ k \in Range(ModuleReads(f))))
  BY <1>17, <1>22, <1>23
<1>25. open => \A k \in Range(ModuleReads(f)) : FreshCall(k, f, a) \in new BY <1>4, <1>17, <1>21
<1> QED BY <1>3, <1>8, <1>12, <1>13, <1>14, <1>20, <1>24, <1>25, TurnedGlass

\* Every answer keeps what is shown right.
LEMMA AnsweredGlass ==
  ASSUME DeskInv, GlassInv, NEW i \in DOMAIN sent, Answered(i)
  PROVE  GlassInv'
<1>1. CASE OnStatus(i) BY <1>1, OnStatusGlass
<1>2. CASE OnUnlock(i) BY <1>2, OnUnlockGlass
<1>3. CASE OnLibrary(i) BY <1>3, OnLibraryGlass
<1>4. CASE OnPrices(i) BY <1>4, OnPricesGlass
<1>5. CASE OnWorth(i) BY <1>5, OnWorthGlass
<1>6. CASE OnSearch(i) BY <1>6, OnSearchGlass
<1>7. CASE OnOrder(i) BY <1>7, OnOrderGlass
<1>8. CASE OnPayees(i) \/ OnPayroll(i) BY <1>8, PayeesGlass
<1> QED BY <1>1, <1>2, <1>3, <1>4, <1>5, <1>6, <1>7, <1>8 DEF Answered

\* Every step of the pro features keeps what they show.
LEMMA GlassStepInv == DeskInv /\ GlassInv /\ [DeskNext]_deskVars => GlassInv'
<1> SUFFICES ASSUME DeskInv, GlassInv, [DeskNext]_deskVars PROVE GlassInv' OBVIOUS
<1>1. CASE Presses
  <2>1. ASSUME NEW f \in Features, Goto(f) PROVE GlassInv' BY <2>1, GotoGlass
  <2>2. CASE Unlock \/ AccessBook \/ Trade \/ Rebalance \/ PayAll BY <2>2, ActsGlass
  <2>3. ASSUME NEW q, Type(q) PROVE GlassInv' BY <2>3, TypeGlass
  <2>4. ASSUME NEW p, PutOn(p) PROVE GlassInv' BY <2>4, PutOnGlass
  <2>5. ASSUME NEW p, TakeOff(p) PROVE GlassInv' BY <2>5, TakeOffGlass
  <2> QED BY <1>1, <2>1, <2>2, <2>3, <2>4, <2>5 DEF Presses
<1>2. CASE Runs
  <2>1. CASE TimerFires BY <2>1, TimerFiresGlass
  <2>2. CASE ReadPrices BY <2>2, ReadPricesGlass
  <2>3. ASSUME NEW i \in DOMAIN sent, Handled(i) PROVE GlassInv' BY <2>3, HandledGlass
  <2>4. ASSUME NEW i \in DOMAIN sent, Answered(i) PROVE GlassInv' BY <2>4, AnsweredGlass
  <2> QED BY <1>2, <2>1, <2>2, <2>3, <2>4 DEF Runs
<1>3. CASE DeskTick BY <1>3, DeskTickGlass
<1>4. CASE OthersRead BY <1>4, OthersReadGlass
<1>5. ASSUME NEW i \in DOMAIN sent, QueryFails(i) \/ ServiceFails(i) \/ AnswerLost(i) PROVE GlassInv'
  <2>1. CASE QueryFails(i) \/ ServiceFails(i) BY <2>1, DeclinesGlass
  <2>2. CASE AnswerLost(i) BY <2>2, AnswerLostGlass
  <2> QED BY <1>5, <2>1, <2>2
<1>6. ASSUME NEW f \in Features, Lapse(f) PROVE GlassInv' BY <1>6, LapseGlass
<1>7. CASE UNCHANGED deskVars
  <2>1. sent' = sent /\ desk' = desk /\ UNCHANGED <<today, worth, shaky, cache>>
    BY <1>7 DEF deskVars, bankSide, ghosts
  <2>2. Pane(desk') = Pane(desk) BY <2>1
  <2>3. cache' \in Nat \cup {Nothing} BY <2>1 DEF GlassInv, PriceKept
  <2> QED BY <2>1, <2>2, <2>3, QuietGlass
<1> QED BY <1>1, <1>2, <1>3, <1>4, <1>5, <1>6, <1>7 DEF DeskNext

\* A page that is not open, with only its licence asked for, shows nothing.
LEMMA UnopenedGlass ==
  ASSUME ~ desk.unlocked, desk.module = NoModule, today = 0, cache = Nothing,
         \A j \in DOMAIN sent : sent[j].kind = "status" /\ sent[j].here
  PROVE  GlassInv
<1>1. \A f : ~ Shows(f) BY DEF Shows, Open
<1>2. \A j \in DOMAIN sent : AtHome(sent[j]) /\ WorthTold(sent[j]) /\ FoundTold(sent[j]) /\ PriceTold(sent[j])
  BY DEF AtHome, WorthTold, FoundTold, PriceTold, Orders
<1>3. desk.module.price = Nothing /\ desk.module.due = 0 BY DEF NoModule
<1>4. CallsAtHome BY <1>2 DEF CallsAtHome
<1>5. WorthKept BY <1>1, <1>2 DEF WorthKept
<1>6. FoundKept BY <1>1, <1>2 DEF FoundKept
<1>7. PriceKept BY <1>1, <1>2, <1>3, DeskAssumption DEF PriceKept
<1> QED BY <1>4, <1>5, <1>6, <1>7 DEF GlassInv

\* They begin with nothing shown.
LEMMA GlassInitInv == DeskInit => GlassInv
<1> SUFFICES ASSUME DeskInit PROVE GlassInv OBVIOUS
<1>1. PICK f \in Features : desk = [feature |-> f, loading |-> TRUE, unlocked |-> FALSE, unlocking |-> FALSE, module |-> NoModule]
  BY DEF DeskInit
<1>2. ~ desk.unlocked /\ desk.module = NoModule BY <1>1
<1>3. PICK c : c = [kind |-> "status", feature |-> desk.feature, arg |-> {}, stage |-> "sent", ok |-> FALSE,
                    value |-> {}, number |-> Nothing, here |-> TRUE, newest |-> TRUE, at |-> 0]
  OBVIOUS
<1>4. c.kind = "status" /\ c.here BY <1>3
<1>5. sent = <<c>> BY <1>3 DEF DeskInit
<1>6. DOMAIN sent = {1} /\ sent[1] = c BY <1>5, ShortSequences
<1> QED BY <1>2, <1>4, <1>6, UnopenedGlass DEF DeskInit

\* The licence flag of the page is one.
Flagged == desk.unlocked \in BOOLEAN

\* Whether a feature is unlocked is a truth value, whatever module is shown,
LEMMA FlagStays == ASSUME Flagged, DeskPage(desk), NEW n, desk' = desk \/ desk' = [desk EXCEPT !.module = n] PROVE Flagged'
BY DEF Flagged, DeskPage

\* when the licence is known,
LEMMA BecomeFlag ==
  ASSUME NEW P, DeskPage(P), P.unlocked \in BOOLEAN, NEW ms, Become(P, ms)
  PROVE  Flagged'
<1>1. PICK M : desk' = P \/ desk' = [P EXCEPT !.module = M] BY DEF Become
<1>2. CASE desk' = P BY <1>2 DEF Flagged
<1>3. CASE desk' = [P EXCEPT !.module = M]
  <2>1. desk'.unlocked = P.unlocked BY <1>3, PageModule
  <2> QED BY <2>1 DEF Flagged
<1> QED BY <1>1, <1>2, <1>3

\* after every answer,
LEMMA AnsweredFlag ==
  ASSUME DeskInv, Flagged, NEW i \in DOMAIN sent, Answered(i)
  PROVE  Flagged'
<1> DEFINE c == sent[i]
<1>1. DeskPage(desk) /\ DeskPage(desk) /\ DeskModule(desk.module) BY DEF DeskInv, DeskShape
<1>2. CASE OnStatus(i)
  <2>1. PICK off, now : off = FALSE /\ now = IF c.ok THEN c.feature \in c.value ELSE desk.unlocked OBVIOUS
  <2>2. PICK L : L = [desk EXCEPT !.loading = off] OBVIOUS
  <2>3. PICK P : P = [L EXCEPT !.unlocked = now] OBVIOUS
  <2>a. DeskPage(L) BY <1>1, <2>2, PageLoading
  <2>4. DeskPage(P) /\ P.unlocked = now BY <2>a, <2>3, PageUnlocked
  <2>5. P = [desk EXCEPT !.loading = FALSE, !.unlocked = IF c.ok THEN c.feature \in c.value ELSE @]
    BY <1>1, <2>1, <2>2, <2>3 DEF DeskPage
  <2>6. now \in BOOLEAN
    <3>1. CASE c.ok BY <2>1, <3>1
    <3>2. CASE ~ c.ok BY <2>1, <3>2 DEF Flagged
    <3> QED BY <3>1, <3>2
  <2>7. Become(P, RemoveAt(sent, i)) BY <1>2, <2>5 DEF OnStatus
  <2> QED BY <2>4, <2>6, <2>7, BecomeFlag
<1>3. CASE OnUnlock(i)
  <2>1. PICK off, now : off = FALSE /\ now = (desk.unlocked \/ c.ok) OBVIOUS
  <2>2. PICK L : L = [desk EXCEPT !.unlocking = off] OBVIOUS
  <2>3. PICK P : P = [L EXCEPT !.unlocked = now] OBVIOUS
  <2>a. DeskPage(L) BY <1>1, <2>2, PageUnlocking
  <2>4. DeskPage(P) /\ P.unlocked = now BY <2>a, <2>3, PageUnlocked
  <2>5. P = [desk EXCEPT !.unlocking = FALSE, !.unlocked = @ \/ c.ok]
    BY <1>1, <2>1, <2>2, <2>3 DEF DeskPage
  <2>6. now \in BOOLEAN BY <2>1
  <2>7. Become(P, RemoveAt(sent, i)) BY <1>3, <2>5 DEF OnUnlock
  <2> QED BY <2>4, <2>6, <2>7, BecomeFlag
<1>4. CASE OnLibrary(i) BY <1>1, <1>4, FlagStays DEF OnLibrary, Shown
<1>5. CASE OnPrices(i) BY <1>1, <1>5, FlagStays DEF OnPrices, Shown
<1>6. CASE OnWorth(i) BY <1>1, <1>6, FlagStays DEF OnWorth, Shown
<1>7. CASE OnSearch(i) BY <1>1, <1>7, FlagStays DEF OnSearch, Shown
<1>8. CASE OnOrder(i)
  <2>1. PICK v : v = FALSE OBVIOUS
  <2>2. desk' = [desk EXCEPT !.module.working = v] BY <1>8, <2>1 DEF OnOrder
  <2>3. desk' = [desk EXCEPT !.module = [desk.module EXCEPT !.working = v]] BY <1>1, <2>2, ThroughPage
  <2> QED BY <1>1, <2>3, FlagStays
<1>9. CASE OnPayees(i) BY <1>1, <1>9, FlagStays DEF OnPayees, Shown
<1>10. CASE OnPayroll(i) BY <1>1, <1>10, FlagStays DEF OnPayroll, Shown
<1> QED BY <1>2, <1>3, <1>4, <1>5, <1>6, <1>7, <1>8, <1>9, <1>10 DEF Answered

\* and after every step.
LEMMA FlagStepInv == DeskInv /\ Flagged /\ [DeskNext]_deskVars => Flagged'
<1> SUFFICES ASSUME DeskInv, Flagged, [DeskNext]_deskVars PROVE Flagged' OBVIOUS
<1>1. DeskPage(desk) BY DEF DeskInv, DeskShape
<1>2. ASSUME desk'.unlocked = desk.unlocked PROVE Flagged' BY <1>2 DEF Flagged
<1>3. CASE Presses
  <2>1. ASSUME NEW f \in Features, Goto(f) PROVE Flagged'
    <3>1. PICK M : M = IF Open(desk) THEN Module(f) ELSE NoModule OBVIOUS
    <3>2. desk' = [desk EXCEPT !.feature = f, !.module = M] BY <2>1, <3>1 DEF Goto
    <3> QED BY <1>1, <1>2, <3>2 DEF DeskPage
  <2>2. CASE Unlock BY <1>1, <1>2, <2>2 DEF Unlock, DeskPage
  <2>3. CASE AccessBook BY <1>2, <2>3 DEF AccessBook
  <2>4. CASE Trade \/ Rebalance \/ PayAll BY <1>1, <1>2, <2>4 DEF Trade, Rebalance, PayAll, Orderly, DeskPage
  <2>5. ASSUME NEW q, Type(q) PROVE Flagged' BY <1>1, <1>2, <2>5 DEF Type, DeskPage
  <2>6. ASSUME NEW p, PutOn(p) PROVE Flagged' BY <1>1, <1>2, <2>6 DEF PutOn, DeskPage
  <2>7. ASSUME NEW p, TakeOff(p) PROVE Flagged' BY <1>1, <1>2, <2>7 DEF TakeOff, DeskPage
  <2> QED BY <1>3, <2>1, <2>2, <2>3, <2>4, <2>5, <2>6, <2>7 DEF Presses
<1>4. CASE Runs
  <2>1. CASE TimerFires BY <1>1, <1>2, <2>1 DEF TimerFires, DeskPage
  <2>2. CASE ReadPrices BY <1>1, <1>2, <2>2 DEF ReadPrices, DeskPage
  <2>3. ASSUME NEW i \in DOMAIN sent, Handled(i) PROVE Flagged'
    <3>1. desk' = desk
      BY <2>3 DEF Handled, ServeStatus, ServeUnlock, ServeBook, ServeStats, ServePrices, ServePortfolio, ServeTrade,
                  ServeInsights, ServeRebalance, ServePayees, ServeSearch, ServePayroll, Tells, Declines, Changed, Handling
    <3> QED BY <1>2, <3>1
  <2>4. ASSUME NEW i \in DOMAIN sent, Answered(i) PROVE Flagged' BY <2>4, AnsweredFlag
  <2> QED BY <1>4, <2>1, <2>2, <2>3, <2>4 DEF Runs
<1>5. CASE DeskTick BY <1>2, <1>5 DEF DeskTick
<1>6. CASE OthersRead BY <1>2, <1>6 DEF OthersRead
<1>7. ASSUME NEW i \in DOMAIN sent, QueryFails(i) \/ ServiceFails(i) \/ AnswerLost(i) PROVE Flagged'
  BY <1>2, <1>7 DEF QueryFails, ServiceFails, AnswerLost, Fault
<1>8. ASSUME NEW f \in Features, Lapse(f) PROVE Flagged' BY <1>2, <1>8 DEF Lapse
<1>9. CASE UNCHANGED deskVars BY <1>2, <1>9 DEF deskVars
<1> QED BY <1>3, <1>4, <1>5, <1>6, <1>7, <1>8, <1>9 DEF DeskNext

\* What the invariants promise: a desk at rest shows what is stored.
LEMMA GlassPromise == DeskInv /\ GlassInv /\ Flagged => QuietDeskIsCurrent
<1> SUFFICES ASSUME DeskInv, GlassInv, Flagged, NEW m, m = desk.module, sent = <<>>, ~ m.timer
             PROVE  /\ "licence" \in shaky \/ desk.unlocked = (desk.feature \in licensed)
                    /\ (\E f \in {"crypto-trading", "wealth-management-pro"} : Shows(f)) /\ "worth" \notin shaky =>
                          m.value = worth
                    /\ Shows("bulk-payroll-processing") /\ "results" \notin shaky =>
                          m.results = IF m.box = Short THEN {} ELSE Found[m.box]
                    /\ m.price \in Nat /\ "price" \notin shaky => today - m.price <= CacheTime - 1 + Period
  BY DEF QuietDeskIsCurrent
<1>1. DOMAIN sent = {} BY ShortSequences
<1>2. "licence" \in shaky \/ (desk.unlocked <=> desk.feature \in licensed)
  BY <1>1 DEF DeskInv, LicenceKept
<1>a. "licence" \in shaky \/ desk.unlocked = (desk.feature \in licensed) BY <1>2 DEF Flagged
<1>3. (\E f \in {"crypto-trading", "wealth-management-pro"} : Shows(f)) /\ "worth" \notin shaky => m.value = worth
  BY <1>1 DEF GlassInv, WorthKept
<1>4. Shows("bulk-payroll-processing") /\ "results" \notin shaky =>
        m.results = IF m.box = Short THEN {} ELSE Found[m.box]
  BY <1>1 DEF GlassInv, FoundKept, Hunted
<1>5. ASSUME m.price \in Nat, "price" \notin shaky PROVE today - m.price <= CacheTime - 1 + Period
  <2>1. Nothing \notin Nat /\ Period \in Nat /\ CacheTime \in Nat BY DeskAssumption
  <2>2. PriceKept BY DEF GlassInv
  <2>3. Shows("crypto-trading") BY <1>5, <2>1, <2>2 DEF PriceKept
  <2>4. today \in Nat /\ m.due \in Nat /\ today <= m.due /\ m.due <= m.price + CacheTime - 1 + Period
    BY <1>1, <1>5, <2>2, <2>3 DEF PriceKept
  <2> QED BY <1>5, <2>1, <2>4
<1> QED BY <1>a, <1>3, <1>4, <1>5

-----------------------------------------------------------------------------

\* A page that has just been opened has nothing unlocked.
LEMMA FlagInitInv == DeskInit => Flagged
<1> SUFFICES ASSUME DeskInit PROVE Flagged OBVIOUS
<1>1. PICK f \in Features : desk = [feature |-> f, loading |-> TRUE, unlocked |-> FALSE,
                                    unlocking |-> FALSE, module |-> NoModule]
  BY DEF DeskInit
<1> QED BY <1>1 DEF Flagged

\* The pro features alone, under their own specification: a licence is paid once and the
\* payroll pays its list once, whatever fails, overtakes or is abandoned on the way.
THEOREM DeskInvariant == DeskSpec => [](DeskInv /\ LicenceIsPaidOnce /\ PayrollPaysTheList)
<1>1. DeskSpec => []DeskInv BY DeskInitInv, DeskStepInv, PTL DEF DeskSpec
<1> QED BY <1>1, DeskPromise, PTL

\* Alone, too, they show at rest what is stored: the licence, the worth, the payees that were
\* looked for, and a price no older than the service keeps it and the page waits.
THEOREM DeskShowsWhatIs == DeskSpec => []QuietDeskIsCurrent
<1>1. DeskInit => GlassInv /\ Flagged BY GlassInitInv, FlagInitInv
<1>2. DeskSpec => [](DeskInv /\ GlassInv /\ Flagged)
  BY <1>1, DeskInitInv, DeskStepInv, GlassStepInv, FlagStepInv, PTL DEF DeskSpec
<1> QED BY <1>2, GlassPromise, PTL
==================================================================================
