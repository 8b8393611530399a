---------------------------- MODULE TrackerProofs ----------------------------
(* The two sources of the clickstream.                                          *)
(* What the tracker of NexaBank keeps, for any sessions, places, events and      *)
(* sizes: a session's place while the cache remembers it, and the rows behind    *)
(* whatever is forwarded.  The cache is a sequence in the order of the last      *)
(* hearing, so the argument counts, among the events that went out since a       *)
(* session was last heard, the other sessions that were.                         *)
(* What the script of a simulated customer keeps, for any overrides, countries   *)
(* and lengths of a plan: every event of a session is earned, or the operator    *)
(* released it, and a planted anomaly stays in its window and segment.  The      *)
(* back-fill is a visit of a graph of groups; the argument gives each visit the  *)
(* depth it needs, then follows a script event by event, then bounds, block by   *)
(* block, how late the stamps are that later events may wait for.                *)
EXTENDS Tracker, Journey, WellFoundedInduction, FiniteSetTheorems, TLAPS

\* Every set of naturals that is not empty has a least one.
LEMMA Least ==
  ASSUME NEW S, S \subseteq Nat, S # {}
  PROVE  \E x \in S : \A y \in S : x <= y
<1>1. PICK x \in S : \A y \in S : ~ (<<y, x>> \in OpToRel(<, Nat))
  <2> DEFINE R == OpToRel(<, Nat)
  <2>1. IsWellFoundedOn(R, Nat) BY NatLessThanWellFounded
  <2> HIDE DEF R
  <2>2. \E x \in S : \A y \in S : ~ (<<y, x>> \in R) BY <2>1, WFMin
  <2> QED BY <2>2 DEF R
<1>2. \A y \in S : ~(y < x)
  BY <1>1 DEF OpToRel
<1>3. x \in Nat /\ \A y \in S : y \in Nat
  OBVIOUS
<1> QED BY <1>2, <1>3

\* Induction, for a set instead of a predicate.
LEMMA Induct ==
  ASSUME NEW S, 0 \in S, \A n \in Nat : n \in S => n + 1 \in S
  PROVE  Nat \subseteq S
<1> SUFFICES ASSUME Nat \ S # {} PROVE FALSE OBVIOUS
<1>1. PICK x \in Nat \ S : \A y \in Nat \ S : x <= y
  BY Least
<1>2. x # 0 /\ x \in Nat
  BY <1>1
<1>3. x - 1 \in Nat /\ (x - 1) + 1 = x /\ ~ (x <= x - 1)
  BY <1>2
<1>4. x - 1 \in S
  BY <1>1, <1>3
<1> QED BY <1>1, <1>3, <1>4

Chain(g, n, c, draws) ==
  g = [k \in 0 .. n |-> IF k = 0 THEN [profiles |-> profiles, wire |-> wire]
                        ELSE Forward(g[k - 1], calls[c].events[k], <<c, k>>, draws[k])]

\* The chain of a call's forwards exists up to each of its positions, by induction.
LEMMA ChainExists ==
  ASSUME NEW c, NEW draws
  PROVE  \A n \in Nat : \E g : Chain(g, n, c, draws)
<1> DEFINE S == {n \in Nat : \E g : Chain(g, n, c, draws)}
<1>1. 0 \in S
  <2>1. Chain([k \in 0 .. 0 |-> [profiles |-> profiles, wire |-> wire]], 0, c, draws)
    BY DEF Chain
  <2> QED BY <2>1
<1>2. ASSUME NEW n \in Nat, n \in S PROVE n + 1 \in S
  <2>1. PICK g : Chain(g, n, c, draws)
    BY <1>2
  <2> DEFINE Next1 == Forward(g[n], calls[c].events[n + 1], <<c, n + 1>>, draws[n + 1])
             h == [k \in 0 .. n + 1 |-> IF k = n + 1 THEN Next1 ELSE g[k]]
             h2 == [k \in 0 .. n + 1 |-> IF k = 0 THEN [profiles |-> profiles, wire |-> wire]
                        ELSE Forward(h[k - 1], calls[c].events[k], <<c, k>>, draws[k])]
  <2>2. ASSUME NEW k \in 0 .. n + 1 PROVE h[k] = h2[k]
    <3>1. CASE k = n + 1
      <4>1. h[k] = Next1 /\ k - 1 = n /\ k # 0 /\ h[k - 1] = g[n]
        BY <3>1
      <4>2. h2[k] = Forward(h[k - 1], calls[c].events[k], <<c, k>>, draws[k])
        BY <4>1
      <4> QED BY <4>1, <4>2, <3>1
    <3>2. CASE k # n + 1
      <4>1. k \in 0 .. n /\ h[k] = g[k]
        BY <3>2
      <4>2. CASE k = 0
        BY <4>1, <4>2, <2>1 DEF Chain
      <4>3. CASE k # 0
        <5>1. k - 1 \in 0 .. n + 1 /\ k - 1 # n + 1
          BY <4>1, <4>3
        <5>2. h[k - 1] = g[k - 1]
          BY <5>1
        <5>3. g[k] = Forward(g[k - 1], calls[c].events[k], <<c, k>>, draws[k])
          BY <2>1, <4>1, <4>3 DEF Chain
        <5> QED BY <4>1, <4>3, <5>2, <5>3
      <4> QED BY <4>2, <4>3
    <3> QED BY <3>1, <3>2
  <2>3. h = h2
    <3> HIDE DEF Next1
    <3> QED BY <2>2
  <2>4. Chain(h, n + 1, c, draws)
    <3> HIDE DEF h
    <3> QED BY <2>3 DEF Chain
  <2> QED BY <2>4
<1> QED BY <1>1, <1>2, Induct

\* What a call forwards is the end of its chain.
LEMMA Unfolded ==
  ASSUME NEW c, NEW draws, Len(calls[c].events) \in Nat
  PROVE  \E g : Chain(g, Len(calls[c].events), c, draws) /\ Forwarded(c, draws) = g[Len(calls[c].events)]
<1> DEFINE es == calls[c].events
           f[k \in 0..Len(es)] == IF k = 0 THEN [profiles |-> profiles, wire |-> wire]
                               ELSE Forward(f[k - 1], es[k], <<c, k>>, draws[k])
<1>1. f = CHOOSE g : g = [k \in 0..Len(es) |-> IF k = 0 THEN [profiles |-> profiles, wire |-> wire]
                               ELSE Forward(g[k - 1], es[k], <<c, k>>, draws[k])]
  OBVIOUS
<1>2. f = CHOOSE g : Chain(g, Len(es), c, draws)
  BY <1>1 DEF Chain
<1>3. Forwarded(c, draws) = f[Len(es)]
  BY DEF Forwarded
<1> HIDE DEF f
<1> QED BY <1>2, <1>3, ChainExists

(* ---- the cache of profiles ---- *)
Profile == [session : Sessions, place : Places, invented : BOOLEAN, seen : Nat]
Sent == [id : Nat \X Nat, session : Sessions, place : Places, marked : BOOLEAN, at : Nat]

\* The cache holds at most its limit, and a session once.
Kept(ps) ==
    /\ ps \in Seq(Profile) /\ Len(ps) <= MaxProfiles
    /\ \A i, j \in DOMAIN ps : ps[i].session = ps[j].session => i = j

\* The profile that is evicted is there, and none was seen longer ago.
LEMMA OldestIsThere ==
  ASSUME NEW ps \in Seq(Profile), ps # <<>>
  PROVE  /\ Oldest(ps) \in DOMAIN ps
         /\ \A j \in DOMAIN ps : ps[Oldest(ps)].seen <= ps[j].seen
<1> DEFINE Times == {ps[i].seen : i \in DOMAIN ps}
<1>1. Len(ps) \in Nat \ {0} /\ DOMAIN ps = 1 .. Len(ps) /\ \A i \in DOMAIN ps : ps[i].seen \in Nat
  <2>1. Len(ps) \in Nat \ {0} /\ DOMAIN ps = 1 .. Len(ps) /\ \A i \in DOMAIN ps : ps[i] \in Profile
    OBVIOUS
  <2> QED BY <2>1 DEF Profile
<1>2. PICK m \in Times : \A t \in Times : m <= t
  <2>1. Times \subseteq Nat /\ Times # {}
    BY <1>1
  <2> QED BY <2>1, Least
<1> DEFINE First == {i \in DOMAIN ps : ps[i].seen = m}
<1>3. PICK i \in First : \A j \in First : i <= j
  <2>1. First \subseteq Nat /\ First # {}
    BY <1>1, <1>2
  <2> QED BY <2>1, Least
<1>4. \A j \in DOMAIN ps : ps[i].seen < ps[j].seen \/ (ps[i].seen = ps[j].seen /\ i <= j)
  <2> TAKE j \in DOMAIN ps
  <2>1. ps[i].seen = m /\ m <= ps[j].seen /\ m \in Nat /\ ps[j].seen \in Nat
    BY <1>1, <1>2, <1>3
  <2>2. CASE ps[j].seen = m
    BY <2>1, <2>2, <1>3
  <2>3. CASE ps[j].seen # m
    BY <2>1, <2>3
  <2> QED BY <2>2, <2>3
<1>5. /\ Oldest(ps) \in DOMAIN ps
      /\ \A j \in DOMAIN ps : \/ ps[Oldest(ps)].seen < ps[j].seen
                              \/ ps[Oldest(ps)].seen = ps[j].seen /\ Oldest(ps) <= j
  BY <1>3, <1>4 DEF Oldest
<1> QED BY <1>5, <1>1

\* Evicting makes room, and drops the oldest of a full cache only.
LEMMA EvictMakesRoom ==
  ASSUME NEW ps, Kept(ps)
  PROVE  /\ Kept(Evict(ps)) /\ Len(Evict(ps)) < MaxProfiles
         /\ \A i \in DOMAIN Evict(ps) : \E j \in DOMAIN ps : Evict(ps)[i] = ps[j]
         /\ \A j \in DOMAIN ps :
               \/ \E i \in DOMAIN Evict(ps) : Evict(ps)[i] = ps[j]
               \/ Len(ps) = MaxProfiles /\ j = Oldest(ps)
<1> USE TrackerAssumption
<1>1. ps \in Seq(Profile) /\ Len(ps) \in Nat /\ MaxProfiles \in Nat \ {0} /\ DOMAIN ps = 1 .. Len(ps)
  BY DEF Kept
<1>2. CASE Len(ps) < MaxProfiles
  BY <1>1, <1>2 DEF Evict
<1>3. CASE ~ (Len(ps) < MaxProfiles)
  <2> DEFINE o == Oldest(ps)
             n == Len(ps) - 1
             back(i) == IF i < o THEN i ELSE i + 1
             qs == [i \in 1 .. n |-> ps[back(i)]]
  <2>1. Len(ps) = MaxProfiles /\ n \in Nat /\ Evict(ps) = qs
    BY <1>1, <1>3 DEF Kept, Evict
  <2>2. o \in 1 .. Len(ps)
    BY <1>1, <2>1, OldestIsThere
  <2> HIDE DEF o
  <2>3. \A i \in 1 .. n : back(i) \in 1 .. Len(ps) /\ back(i) # o
    BY <1>1, <2>1, <2>2
  <2>4. \A i, j \in 1 .. n : back(i) = back(j) => i = j
    BY <1>1, <2>1, <2>2
  <2>5. \A j \in 1 .. Len(ps) : j # o => \E i \in 1 .. n : back(i) = j
    <3> TAKE j \in 1 .. Len(ps)
    <3>1. CASE j < o
      <4>1. j \in 1 .. n /\ back(j) = j
        BY <1>1, <2>1, <2>2, <3>1
      <4> QED BY <4>1
    <3>2. CASE j > o
      <4>1. j - 1 \in 1 .. n /\ back(j - 1) = j
        BY <1>1, <2>1, <2>2, <3>2
      <4> QED BY <4>1
    <3> QED BY <3>1, <3>2, <2>2
  <2> HIDE DEF back
  <2>6. qs \in Seq(Profile) /\ Len(qs) = n /\ DOMAIN qs = 1 .. n
    <3>1. \A i \in 1 .. n : ps[back(i)] \in Profile
      BY <2>3, <1>1
    <3>2. qs \in [1 .. n -> Profile]
      BY <3>1
    <3> QED BY <3>2, <2>1
  <2>7. Kept(qs) /\ Len(qs) < MaxProfiles
    BY <2>1, <2>3, <2>4, <2>6, <1>1 DEF Kept
  <2>8. \A i \in DOMAIN qs : qs[i] = ps[back(i)]
    BY <2>6
  <2>9. \A i \in DOMAIN qs : \E j \in DOMAIN ps : qs[i] = ps[j]
    BY <2>3, <2>6, <2>8, <1>1
  <2>10. \A j \in DOMAIN ps : j # o => \E i \in DOMAIN qs : qs[i] = ps[j]
    BY <2>5, <2>6, <2>8, <1>1
  <2> HIDE DEF qs
  <2> QED BY <2>1, <2>7, <2>9, <2>10 DEF o
<1> QED BY <1>2, <1>3

\* What one call finds or makes: a profile of its session, seen now, with the place the
\* session had, or else the caller's or one that is marked; and what it costs the others.
LEMMA ProfileIsFound ==
  ASSUME NEW ps, Kept(ps), NEW e \in Events, NEW draw \in Invented, now \in Nat
  PROVE  LET qs == GetSessionProfile(ps, e, draw)  p == ProfileOf(qs, e.session)
         IN  /\ Kept(qs) /\ p \in Profile /\ p.session = e.session /\ p.seen = now
             /\ \E x \in DOMAIN qs : qs[x] = p
             /\ \A i \in DOMAIN qs : qs[i] = p \/ \E j \in DOMAIN ps : qs[i] = ps[j] /\ ps[j].session # e.session
             /\ \/ \E j \in DOMAIN ps : ps[j].session = e.session /\ p.place = ps[j].place /\ p.invented = ps[j].invented
                \/ (\A j \in DOMAIN ps : ps[j].session # e.session) /\ (p.invented \/ p.place = e.given)
             /\ \A j \in DOMAIN ps :
                   \/ ps[j].session = e.session /\ p.place = ps[j].place
                   \/ \E i \in DOMAIN qs : qs[i] = ps[j]
                   \/ /\ Len(ps) = MaxProfiles /\ \A k \in DOMAIN ps : ps[k].session # e.session
                      /\ \A k \in DOMAIN ps : ps[j].seen <= ps[k].seen
<1> USE TrackerAssumption
<1> DEFINE qs == GetSessionProfile(ps, e, draw)
           p == ProfileOf(qs, e.session)
<1>1. ps \in Seq(Profile) /\ Len(ps) \in Nat /\ DOMAIN ps = 1 .. Len(ps)
  BY DEF Kept
<1>a. e.session \in Sessions /\ e.given \in Real \cup {NoPlace} /\ draw \in Places
  BY DEF Events, Places
<1>2. CASE \E i \in DOMAIN ps : ps[i].session = e.session
  <2>1. PICK x \in DOMAIN ps : ps[x].session = e.session
    BY <1>2
  <2>2. qs = [i \in DOMAIN ps |-> IF ps[i].session = e.session THEN Seen(ps[i]) ELSE ps[i]]
    BY <1>2 DEF GetSessionProfile
  <2>3. \A i \in DOMAIN ps : ps[i].session = e.session => i = x
    BY <2>1 DEF Kept
  <2>4. ps[x] \in Profile /\ Seen(ps[x]) \in Profile
        /\ Seen(ps[x]).session = e.session /\ Seen(ps[x]).place = ps[x].place
        /\ Seen(ps[x]).invented = ps[x].invented /\ Seen(ps[x]).seen = now
    <3>1. ps[x] \in Profile BY <1>1
    <3> QED BY <3>1, <2>1 DEF Seen, Profile
  <2>5. \A i \in DOMAIN ps : qs[i] = IF i = x THEN Seen(ps[x]) ELSE ps[i]
    BY <2>1, <2>2, <2>3
  <2>6. qs \in Seq(Profile) /\ Len(qs) = Len(ps) /\ DOMAIN qs = DOMAIN ps
    <3>1. \A i \in 1 .. Len(ps) : qs[i] \in Profile
      BY <2>5, <2>4, <1>1
    <3>2. qs \in [1 .. Len(ps) -> Profile]
      BY <2>2, <3>1, <1>1
    <3> QED BY <3>2, <1>1
  <2>7. \A i \in DOMAIN ps : qs[i].session = ps[i].session
    BY <2>5, <2>4, <2>1
  <2>8. Kept(qs)
    BY <2>6, <2>7 DEF Kept
  <2> HIDE DEF qs
  <2>9. p = qs[x]
    <3>1. qs[x].session = e.session /\ \A i \in DOMAIN qs : qs[i].session = e.session => i = x
      BY <2>1, <2>3, <2>6, <2>7
    <3>2. (CHOOSE i \in DOMAIN qs : qs[i].session = e.session) = x
      BY <3>1, <2>6
    <3> QED BY <3>2 DEF ProfileOf
  <2>10. p = Seen(ps[x])
    BY <2>9, <2>5
  <2> HIDE DEF p
  <2>11. \A i \in DOMAIN qs : qs[i] = p \/ (qs[i] = ps[i] /\ ps[i].session # e.session)
    BY <2>3, <2>5, <2>6, <2>10
  <2>12. \A j \in DOMAIN ps : (ps[j].session = e.session /\ p.place = ps[j].place) \/ qs[j] = ps[j]
    BY <2>1, <2>3, <2>4, <2>5, <2>10
  <2> QED BY <2>1, <2>4, <2>6, <2>8, <2>9, <2>10, <2>11, <2>12 DEF qs, p
<1>3. CASE \A i \in DOMAIN ps : ps[i].session # e.session
  <2> DEFINE vs == Evict(ps)
             d == Drawn(e, draw)
  <2>1. qs = Append(vs, d)
    BY <1>3 DEF GetSessionProfile
  <2>2. d \in Profile /\ d.session = e.session /\ d.seen = now /\ (d.invented \/ d.place = e.given)
    <3>1. CASE e.given # NoPlace
      BY <1>a, <3>1 DEF Drawn, Profile, Places
    <3>2. CASE e.given = NoPlace
      BY <1>a, <3>2 DEF Drawn, Profile
    <3> QED BY <3>1, <3>2
  <2>3. /\ Kept(vs) /\ Len(vs) < MaxProfiles
        /\ \A i \in DOMAIN vs : \E j \in DOMAIN ps : vs[i] = ps[j]
        /\ \A j \in DOMAIN ps :
               \/ \E i \in DOMAIN vs : vs[i] = ps[j]
               \/ Len(ps) = MaxProfiles /\ j = Oldest(ps)
    BY EvictMakesRoom
  <2> HIDE DEF vs, d
  <2>4. vs \in Seq(Profile) /\ Len(vs) \in Nat /\ DOMAIN vs = 1 .. Len(vs)
    BY <2>3 DEF Kept
  <2>5. /\ qs \in Seq(Profile) /\ Len(qs) = Len(vs) + 1 /\ DOMAIN qs = 1 .. Len(vs) + 1
        /\ \A i \in 1 .. Len(vs) : qs[i] = vs[i]
        /\ qs[Len(vs) + 1] = d
    BY <2>1, <2>2, <2>4
  <2>6. \A i \in 1 .. Len(vs) : vs[i].session # e.session
    BY <1>3, <2>3, <2>4
  <2>7. Kept(qs)
    <3>1. Len(qs) <= MaxProfiles
      BY <2>3, <2>4, <2>5
    <3>2. ASSUME NEW i \in DOMAIN qs, NEW j \in DOMAIN qs, qs[i].session = qs[j].session PROVE i = j
      <4>1. CASE i \in 1 .. Len(vs) /\ j \in 1 .. Len(vs)
        BY <3>2, <4>1, <2>3, <2>4, <2>5 DEF Kept
      <4>2. CASE ~ (i \in 1 .. Len(vs) /\ j \in 1 .. Len(vs))
        BY <3>2, <4>2, <2>2, <2>4, <2>5, <2>6
      <4> QED BY <4>1, <4>2
    <3> QED BY <2>5, <3>1, <3>2 DEF Kept
  <2> HIDE DEF qs
  <2>8. p = d
    <3>1. \A i \in DOMAIN qs : qs[i].session = e.session <=> i = Len(vs) + 1
      BY <2>2, <2>4, <2>5, <2>6
    <3>2. (CHOOSE i \in DOMAIN qs : qs[i].session = e.session) = Len(vs) + 1
      BY <3>1, <2>4, <2>5
    <3> QED BY <3>2, <2>5 DEF ProfileOf
  <2> HIDE DEF p
  <2>9. \A i \in DOMAIN qs : qs[i] = p \/ \E j \in DOMAIN ps : qs[i] = ps[j] /\ ps[j].session # e.session
    BY <1>3, <2>3, <2>4, <2>5, <2>8
  <2>10. \A j \in DOMAIN ps :
            \/ \E i \in DOMAIN qs : qs[i] = ps[j]
            \/ Len(ps) = MaxProfiles /\ \A k \in DOMAIN ps : ps[j].seen <= ps[k].seen
    <3> TAKE j \in DOMAIN ps
    <3>1. CASE \E i \in DOMAIN vs : vs[i] = ps[j]
      BY <3>1, <2>4, <2>5
    <3>2. CASE Len(ps) = MaxProfiles /\ j = Oldest(ps)
      <4>1. ps # <<>>
        BY <1>1
      <4> QED BY <3>2, <4>1, <1>1, OldestIsThere
    <3> QED BY <3>1, <3>2, <2>3
  <2>11. \E x \in DOMAIN qs : qs[x] = p
    BY <2>4, <2>5, <2>8
  <2> QED BY <1>3, <2>2, <2>7, <2>8, <2>9, <2>10, <2>11 DEF qs, p
<1> QED BY <1>2, <1>3

(* ---- what is forwarded ---- *)
\* The other sessions heard of since entry i, among the first n.
Heard(ws, i, n) == {ws[k].session : k \in {k \in 1 .. n : ws[k].at >= ws[i].at}} \ {ws[i].session}

\* Every place a session reported is still its profile's, or the session was forgotten since.
Placed(ps, ws) ==
    \A i \in DOMAIN ws :
        \/ \E q \in DOMAIN ps : ps[q].session = ws[i].session /\ ps[q].place = ws[i].place
        \/ Cardinality(Heard(ws, i, Len(ws))) >= MaxProfiles
Keeps(ws) ==
    \A i, j \in DOMAIN ws :
        i < j /\ ws[i].session = ws[j].session /\ ws[i].place # ws[j].place
        => Cardinality(Heard(ws, i, j - 1)) >= MaxProfiles
\* A profile was seen when its session was forwarded last.
Dated(ps, ws) ==
    /\ \A k \in DOMAIN ws : ws[k].at <= now
    /\ \A i \in DOMAIN ps :
          /\ \E k \in DOMAIN ws : ws[k].session = ps[i].session /\ ws[k].at = ps[i].seen
          /\ \A k \in DOMAIN ws : ws[k].session = ps[i].session => ws[k].at <= ps[i].seen
\* A place that is not marked is one a row of the session names.
Named(rs, session, place) == \E r \in rs : r.session = session /\ r.given = place
Backed(ps, rs) == \A i \in DOMAIN ps : ps[i].invented \/ Named(rs, ps[i].session, ps[i].place)
Recorded(ws, rs) ==
    \A i \in DOMAIN ws :
        /\ \E r \in rs : r.id = ws[i].id /\ r.session = ws[i].session
        /\ ws[i].marked \/ Named(rs, ws[i].session, ws[i].place)
Sound(st, rs) ==
    /\ Kept(st.profiles) /\ st.wire \in Seq(Sent) /\ now \in Nat
    /\ Placed(st.profiles, st.wire) /\ Keeps(st.wire) /\ Dated(st.profiles, st.wire)
    /\ Backed(st.profiles, rs) /\ Recorded(st.wire, rs)

\* The sessions heard of are finitely many.
LEMMA HeardIsFinite ==
  ASSUME NEW ws, NEW i, NEW n \in Nat
  PROVE  IsFiniteSet(Heard(ws, i, n))
<1> DEFINE K == {k \in 1 .. n : ws[k].at >= ws[i].at}
           T == {ws[k].session : k \in K}
           f == [k \in K |-> ws[k].session]
<1>1. IsFiniteSet(K)
  <2>1. IsFiniteSet(1 .. n)
    BY FS_Interval
  <2>2. K \in SUBSET (1 .. n)
    OBVIOUS
  <2> HIDE DEF K
  <2> QED BY <2>1, <2>2, FS_Subset
<1>2. f \in Surjection(K, T)
  BY DEF Surjection
<1> HIDE DEF K, f
<1>3. IsFiniteSet(T)
  BY <1>1, <1>2, FS_Surjection
<1>4. IsFiniteSet(T \ {ws[i].session})
  BY <1>3, FS_Difference
<1> QED BY <1>4 DEF Heard, K

\* More of the same wire is heard by more sessions.
LEMMA HeardGrows ==
  ASSUME NEW ws, NEW vs, NEW i, NEW m \in Nat, NEW n \in Nat, m <= n, i \in 1 .. m,
         \A k \in 1 .. m : vs[k] = ws[k]
  PROVE  /\ Heard(ws, i, m) \subseteq Heard(vs, i, n) /\ Heard(ws, i, m) = Heard(vs, i, m)
         /\ MaxProfiles \in Nat /\ Cardinality(Heard(ws, i, m)) >= MaxProfiles =>
               Cardinality(Heard(vs, i, n)) >= MaxProfiles
<1>1. Heard(ws, i, m) \subseteq Heard(vs, i, n)
  BY DEF Heard
<1>2. Heard(ws, i, m) = Heard(vs, i, m)
  BY DEF Heard
<1>3. /\ Cardinality(Heard(ws, i, m)) \in Nat /\ Cardinality(Heard(vs, i, n)) \in Nat
      /\ Cardinality(Heard(ws, i, m)) <= Cardinality(Heard(vs, i, n))
  BY <1>1, HeardIsFinite, FS_CardinalityType, FS_Subset
<1> QED BY <1>1, <1>2, <1>3

\* Whoever is evicted from a full cache has been passed by as many sessions as it holds.
LEMMA EvictedIsPassed ==
  ASSUME NEW ps, Kept(ps), Len(ps) = MaxProfiles, NEW ws \in Seq(Sent), Dated(ps, ws), now \in Nat,
         NEW q \in DOMAIN ps, \A k \in DOMAIN ps : ps[q].seen <= ps[k].seen,
         NEW i \in DOMAIN ws, ws[i].session = ps[q].session,
         NEW x \in Sent, x.at = now, \A k \in DOMAIN ps : ps[k].session # x.session
  PROVE  Cardinality(Heard(Append(ws, x), i, Len(ws) + 1)) >= MaxProfiles
<1> USE TrackerAssumption
<1> DEFINE vs == Append(ws, x)
           H == Heard(vs, i, Len(ws) + 1)
           f == [k \in 1 .. MaxProfiles |-> IF k = q THEN x.session ELSE ps[k].session]
<1>1. /\ Len(ws) \in Nat /\ DOMAIN ws = 1 .. Len(ws) /\ DOMAIN ps = 1 .. MaxProfiles
      /\ vs \in Seq(Sent) /\ \A k \in 1 .. Len(ws) : vs[k] = ws[k]
      /\ vs[Len(ws) + 1] = x
  BY DEF Kept
<1>2. /\ \A k \in DOMAIN ps : ps[k] \in Profile /\ ps[k].seen \in Nat
      /\ \A k \in DOMAIN ws : ws[k] \in Sent /\ ws[k].at \in Nat
  <2>1. \A k \in DOMAIN ps : ps[k] \in Profile
    BY DEF Kept
  <2>2. \A k \in DOMAIN ws : ws[k] \in Sent
    BY <1>1
  <2> QED BY <2>1, <2>2 DEF Profile, Sent
<1>3. ws[i].at <= ps[q].seen /\ ws[i].at <= now
  BY DEF Dated
<1> HIDE DEF vs
<1>a. \A n \in 1 .. Len(ws) + 1 : vs[n].at >= vs[i].at /\ vs[n].session # vs[i].session => vs[n].session \in H
  BY DEF Heard
<1>b. vs[i] = ws[i] /\ i \in 1 .. Len(ws) /\ Len(ws) + 1 \in 1 .. Len(ws) + 1
  BY <1>1
<1>4. ASSUME NEW k \in 1 .. MaxProfiles PROVE f[k] \in H
  <2>1. CASE k = q
    <3>1. vs[Len(ws) + 1].at >= vs[i].at /\ x.session # ws[i].session
      BY <1>1, <1>2, <1>3
    <3> HIDE DEF H
    <3> QED BY <1>1, <1>a, <1>b, <2>1, <3>1
  <2>2. CASE k # q
    <3>1. PICK n \in DOMAIN ws : ws[n].session = ps[k].session /\ ws[n].at = ps[k].seen
      BY <1>1 DEF Dated
    <3>2. vs[n].at >= vs[i].at
      <4>1. ps[q].seen <= ps[k].seen /\ ps[k].seen \in Nat /\ ps[q].seen \in Nat /\ ws[i].at \in Nat
        BY <1>1, <1>2
      <4>2. vs[n] = ws[n]
        BY <1>1, <3>1
      <4> QED BY <1>3, <1>b, <3>1, <4>1, <4>2
    <3>3. ps[k].session # ps[q].session
      BY <1>1, <2>2 DEF Kept
    <3>4. vs[n] = ws[n] /\ n \in 1 .. Len(ws) + 1
      BY <1>1, <3>1
    <3> HIDE DEF H
    <3> QED BY <1>a, <1>b, <2>2, <3>1, <3>2, <3>3, <3>4
  <2> QED BY <2>1, <2>2
<1>5. \A k, l \in 1 .. MaxProfiles : f[k] = f[l] => k = l
  BY <1>1 DEF Kept
<1> HIDE DEF f, H
<1>6. f \in Injection(1 .. MaxProfiles, H)
  <2>1. f \in [1 .. MaxProfiles -> H]
    BY <1>4 DEF f
  <2> QED BY <1>5, <2>1 DEF Injection, IsInjective
<1>7. IsFiniteSet(H)
  BY <1>1, HeardIsFinite DEF H
<1>8. Cardinality(1 .. MaxProfiles) <= Cardinality(H)
  BY <1>6, <1>7, FS_Injection
<1>9. Cardinality(1 .. MaxProfiles) = MaxProfiles
  BY FS_Interval
<1>10. Cardinality(H) \in Nat
  BY <1>7, FS_CardinalityType
<1> QED BY <1>8, <1>9, <1>10 DEF H, vs

\* One more event keeps the cache and the wire sound, and is the last on the wire.
LEMMA ForwardIsSound ==
  ASSUME NEW st, NEW rs, Sound(st, rs), NEW e \in Events, NEW id \in Nat \X Nat, NEW draw \in Invented,
         \E r \in rs : r.id = id /\ r.session = e.session /\ r.given = e.given
  PROVE  LET nx == Forward(st, e, id, draw)
         IN  /\ Sound(nx, rs) /\ Len(nx.wire) = Len(st.wire) + 1
             /\ \A k \in 1 .. Len(st.wire) : nx.wire[k] = st.wire[k]
             /\ nx.wire[Len(st.wire) + 1].id = id
<1> USE TrackerAssumption
<1> DEFINE ps == st.profiles
           ws == st.wire
           qs == GetSessionProfile(ps, e, draw)
           p == ProfileOf(qs, e.session)
           x == [id |-> id, session |-> e.session, place |-> PlaceOf(e, p), marked |-> Marked(e, p), at |-> now]
           vs == Append(ws, x)
           nx == Forward(st, e, id, draw)
<1>1. nx.profiles = qs /\ nx.wire = vs
  BY DEF Forward
<1>2. Kept(ps) /\ ws \in Seq(Sent) /\ now \in Nat
  BY DEF Sound
<1>3. Kept(qs) /\ p \in Profile /\ p.session = e.session /\ p.seen = now /\ \E q \in DOMAIN qs : qs[q] = p
  BY <1>2, ProfileIsFound
<1>4. \E q \in DOMAIN qs : qs[q] = p
  BY <1>3
<1>5. \A i \in DOMAIN qs : qs[i] = p \/ \E j \in DOMAIN ps : qs[i] = ps[j] /\ ps[j].session # e.session
  <2> HIDE DEF ps
  <2> QED BY <1>2, ProfileIsFound
<1>6. \/ \E j \in DOMAIN ps : ps[j].session = e.session /\ p.place = ps[j].place /\ p.invented = ps[j].invented
      \/ (\A j \in DOMAIN ps : ps[j].session # e.session) /\ (p.invented \/ p.place = e.given)
  BY <1>2, ProfileIsFound
<1>7. \A j \in DOMAIN ps :
         \/ ps[j].session = e.session /\ p.place = ps[j].place
         \/ \E i \in DOMAIN qs : qs[i] = ps[j]
         \/ /\ Len(ps) = MaxProfiles /\ \A k \in DOMAIN ps : ps[k].session # e.session
            /\ \A k \in DOMAIN ps : ps[j].seen <= ps[k].seen
  BY <1>2, ProfileIsFound
<1> HIDE DEF ps, ws, qs, p, nx
<1>8. x \in Sent /\ x.at = now /\ x.session = e.session /\ x.place = p.place /\ x.marked = Marked(e, p) /\ x.id = id
  <2>1. e.session \in Sessions /\ p.place \in Places /\ p.invented \in BOOLEAN
    BY <1>3 DEF Events, Profile
  <2>2. Marked(e, p) \in BOOLEAN
    BY DEF Marked
  <2> QED BY <2>1, <2>2, <1>2 DEF PlaceOf, Sent
<1> HIDE DEF x
<1>9. /\ vs \in Seq(Sent) /\ Len(ws) \in Nat /\ Len(vs) = Len(ws) + 1
      /\ DOMAIN vs = 1 .. Len(ws) + 1 /\ DOMAIN ws = 1 .. Len(ws)
      /\ \A k \in 1 .. Len(ws) : vs[k] = ws[k]
      /\ vs[Len(ws) + 1] = x
  BY <1>2, <1>8
<1>10. \A k \in DOMAIN vs : k \in DOMAIN ws \/ k = Len(ws) + 1
  BY <1>9
<1> HIDE DEF vs
<1>11. Recorded(vs, rs)
  <2>1. PICK r \in rs : r.id = id /\ r.session = e.session /\ r.given = e.given
    OBVIOUS
  <2>2. Recorded(ws, rs) /\ Backed(ps, rs)
    BY DEF Sound, ps, ws
  <2>3. x.marked \/ Named(rs, x.session, x.place)
    <3> SUFFICES ASSUME ~ p.invented PROVE Named(rs, x.session, x.place)
      BY <1>8 DEF Marked
    <3>1. CASE \E j \in DOMAIN ps : ps[j].session = e.session /\ p.place = ps[j].place /\ p.invented = ps[j].invented
      BY <3>1, <2>2, <1>8 DEF Backed
    <3>2. CASE p.place = e.given
      BY <3>2, <2>1, <1>8 DEF Named
    <3> QED BY <3>1, <3>2, <1>6
  <2>4. ASSUME NEW i \in DOMAIN vs
        PROVE  (\E s \in rs : s.id = vs[i].id /\ s.session = vs[i].session) /\ (vs[i].marked \/ Named(rs, vs[i].session, vs[i].place))
    <3>1. CASE i \in DOMAIN ws
      BY <3>1, <1>9, <2>2 DEF Recorded
    <3>2. CASE i = Len(ws) + 1
      BY <3>2, <1>8, <1>9, <2>1, <2>3
    <3> QED BY <3>1, <3>2, <1>10
  <2> QED BY <2>4 DEF Recorded
<1>12. Backed(qs, rs)
  <2>1. Backed(ps, rs)
    BY DEF Sound, ps
  <2>2. p.invented \/ Named(rs, p.session, p.place)
    <3>1. CASE \E j \in DOMAIN ps : ps[j].session = e.session /\ p.place = ps[j].place /\ p.invented = ps[j].invented
      BY <3>1, <2>1, <1>3 DEF Backed
    <3>2. CASE p.invented \/ p.place = e.given
      BY <3>2, <1>3 DEF Named
    <3> QED BY <3>1, <3>2, <1>6
  <2> QED BY <2>1, <2>2, <1>5 DEF Backed
<1>13. Dated(ps, ws) /\ Placed(ps, ws) /\ Keeps(ws)
  BY DEF Sound, ps, ws
<1>14. Dated(qs, vs)
  <2>1. \A k \in DOMAIN vs : vs[k].at <= now
    BY <1>2, <1>8, <1>9, <1>10, <1>13 DEF Dated
  <2>2. ASSUME NEW i \in DOMAIN qs
        PROVE  /\ \E k \in DOMAIN vs : vs[k].session = qs[i].session /\ vs[k].at = qs[i].seen
               /\ \A k \in DOMAIN vs : vs[k].session = qs[i].session => vs[k].at <= qs[i].seen
    <3>1. CASE qs[i] = p
      <4>1. Len(ws) + 1 \in DOMAIN vs
        BY <1>9
      <4> QED BY <3>1, <4>1, <2>1, <1>3, <1>8, <1>9
    <3>2. CASE \E j \in DOMAIN ps : qs[i] = ps[j] /\ ps[j].session # e.session
      <4>1. PICK j \in DOMAIN ps : qs[i] = ps[j] /\ ps[j].session # e.session
        BY <3>2
      <4>2. PICK k \in DOMAIN ws : ws[k].session = ps[j].session /\ ws[k].at = ps[j].seen
        BY <1>13 DEF Dated
      <4>3. \A l \in DOMAIN ws : ws[l].session = ps[j].session => ws[l].at <= ps[j].seen
        BY <1>13 DEF Dated
      <4> QED BY <4>1, <4>2, <4>3, <1>8, <1>9, <1>10
    <3> QED BY <3>1, <3>2, <1>5
  <2> QED BY <2>1, <2>2 DEF Dated
<1>15. Placed(qs, vs)
  <2> SUFFICES ASSUME NEW i \in DOMAIN vs
               PROVE  \/ \E q \in DOMAIN qs : qs[q].session = vs[i].session /\ qs[q].place = vs[i].place
                      \/ Cardinality(Heard(vs, i, Len(vs))) >= MaxProfiles
    BY DEF Placed
  <2>1. CASE i = Len(ws) + 1
    BY <2>1, <1>3, <1>4, <1>8, <1>9
  <2>2. CASE i \in DOMAIN ws
    <3>1. CASE Cardinality(Heard(ws, i, Len(ws))) >= MaxProfiles
      <4>1. /\ Len(ws) <= Len(vs) /\ Len(vs) \in Nat /\ i \in 1 .. Len(ws) /\ MaxProfiles \in Nat
            /\ \A k \in 1 .. Len(ws) : vs[k] = ws[k]
        BY <2>2, <1>9
      <4> QED BY <3>1, <4>1, <1>9, HeardGrows
    <3>2. ASSUME NEW j \in DOMAIN ps, ps[j].session = ws[i].session, ps[j].place = ws[i].place
          PROVE  \/ \E q \in DOMAIN qs : qs[q].session = vs[i].session /\ qs[q].place = vs[i].place
                 \/ Cardinality(Heard(vs, i, Len(vs))) >= MaxProfiles
      <4>0. vs[i] = ws[i]
        BY <2>2, <1>9
      <4>1. CASE ps[j].session = e.session /\ p.place = ps[j].place
        BY <3>2, <4>0, <4>1, <1>3, <1>4
      <4>2. CASE \E q \in DOMAIN qs : qs[q] = ps[j]
        BY <3>2, <4>0, <4>2
      <4>3. CASE /\ Len(ps) = MaxProfiles /\ \A k \in DOMAIN ps : ps[k].session # e.session
                 /\ \A k \in DOMAIN ps : ps[j].seen <= ps[k].seen
        <5>1. \A k \in DOMAIN ps : ps[k].session # x.session
          BY <4>3, <1>8
        <5>2. Cardinality(Heard(Append(ws, x), i, Len(ws) + 1)) >= MaxProfiles
          BY <2>2, <3>2, <4>3, <5>1, <1>2, <1>8, <1>13, EvictedIsPassed
        <5> QED BY <5>2, <1>9 DEF vs
      <4> QED BY <4>1, <4>2, <4>3, <1>7
    <3> QED BY <3>1, <3>2, <2>2, <1>13 DEF Placed
  <2> QED BY <2>1, <2>2, <1>10
<1>16. Keeps(vs)
  <2> SUFFICES ASSUME NEW i \in DOMAIN vs, NEW j \in DOMAIN vs, i < j,
                      vs[i].session = vs[j].session, vs[i].place # vs[j].place
               PROVE  Cardinality(Heard(vs, i, j - 1)) >= MaxProfiles
    BY DEF Keeps
  <2>1. i \in DOMAIN ws /\ i \in 1 .. j - 1 /\ j - 1 \in Nat
    BY <1>9
  <2>2. CASE j \in DOMAIN ws
    <3>1. Cardinality(Heard(ws, i, j - 1)) >= MaxProfiles
      BY <2>1, <2>2, <1>9, <1>13 DEF Keeps
    <3>2. \A k \in 1 .. j - 1 : vs[k] = ws[k]
      BY <2>2, <1>9
    <3> QED BY <2>1, <3>1, <3>2, HeardGrows
  <2>3. CASE j = Len(ws) + 1
    <3>1. ~ \E q \in DOMAIN ps : ps[q].session = ws[i].session /\ ps[q].place = ws[i].place
      <4> SUFFICES ASSUME NEW q \in DOMAIN ps, ps[q].session = ws[i].session, ps[q].place = ws[i].place PROVE FALSE
        OBVIOUS
      <4>1. ps[q].session = e.session /\ ps[q].place # p.place
        BY <2>1, <2>3, <1>8, <1>9
      <4>2. \A k \in DOMAIN ps : ps[k].session = e.session => k = q
        BY <4>1, <1>2 DEF Kept
      <4> QED BY <4>1, <4>2, <1>6
    <3>2. Cardinality(Heard(ws, i, Len(ws))) >= MaxProfiles
      BY <2>1, <3>1, <1>13 DEF Placed
    <3>3. Len(ws) = j - 1
      BY <2>3, <1>9
    <3>4. i \in 1 .. Len(ws) /\ \A k \in 1 .. Len(ws) : vs[k] = ws[k]
      BY <2>1, <1>9
    <3>5. Heard(ws, i, Len(ws)) = Heard(vs, i, Len(ws))
      BY <3>4 DEF Heard
    <3> QED BY <3>2, <3>3, <3>5
  <2> QED BY <2>2, <2>3, <1>10
<1>17. Sound(nx, rs)
  BY <1>1, <1>2, <1>3, <1>9, <1>11, <1>12, <1>14, <1>15, <1>16 DEF Sound
<1> QED BY <1>1, <1>8, <1>9, <1>17 DEF nx, ws

\* More rows are no harm to what is sound.
LEMMA MoreRows ==
  ASSUME NEW st, NEW rs, NEW ss, rs \subseteq ss, Sound(st, rs)
  PROVE  Sound(st, ss)
BY DEF Sound, Backed, Recorded, Named

\* A whole batch: one entry for each event, in their order, each under its row's id.
LEMMA BatchIsSound ==
  ASSUME NEW c \in Nat, calls[c].events \in Seq(Events), NEW draws \in [DOMAIN calls[c].events -> Invented],
         Sound([profiles |-> profiles, wire |-> wire], rows)
  PROVE  LET f == Forwarded(c, draws)  n == Len(calls[c].events)
         IN  /\ Sound(f, rows \cup Rows(c)) /\ n \in Nat /\ Len(wire) \in Nat /\ Len(f.wire) = Len(wire) + n
             /\ \A k \in 1 .. Len(wire) : f.wire[k] = wire[k]
             /\ \A k \in 1 .. n : f.wire[Len(wire) + k].id = <<c, k>>
<1> DEFINE es == calls[c].events
           n == Len(es)
           st == [profiles |-> profiles, wire |-> wire]
           rs == rows \cup Rows(c)
<1>1. n \in Nat /\ DOMAIN es = 1 .. n /\ \A k \in 1 .. n : es[k] \in Events
  OBVIOUS
<1>2. PICK g : Chain(g, n, c, draws) /\ Forwarded(c, draws) = g[n]
  BY <1>1, Unfolded
<1>3. g[0] = st /\ \A k \in 1 .. n : g[k] = Forward(g[k - 1], es[k], <<c, k>>, draws[k])
  <2>1. \A k \in 0 .. n : g[k] = IF k = 0 THEN st ELSE Forward(g[k - 1], es[k], <<c, k>>, draws[k])
    BY <1>2 DEF Chain
  <2>2. 0 \in 0 .. n /\ \A k \in 1 .. n : k \in 0 .. n /\ k # 0
    BY <1>1
  <2> HIDE DEF st, es
  <2> QED BY <2>1, <2>2
<1>4. ASSUME NEW k \in 1 .. n
      PROVE  \E r \in rs : r.id = <<c, k>> /\ r.session = es[k].session /\ r.given = es[k].given
  <2> DEFINE r == [id |-> <<c, k>>, session |-> calls[c].events[k].session, given |-> calls[c].events[k].given]
  <2>1. r \in Rows(c)
    BY <1>1 DEF Rows
  <2> QED BY <2>1
<1>5. Sound(st, rs) /\ Len(wire) \in Nat
  <2>1. Sound(st, rs)
    BY MoreRows
  <2> QED BY <2>1 DEF Sound
<1> DEFINE Done(k) == /\ Sound(g[k], rs) /\ Len(g[k].wire) = Len(wire) + k
                      /\ \A l \in 1 .. Len(wire) : g[k].wire[l] = wire[l]
                      /\ \A l \in 1 .. k : g[k].wire[Len(wire) + l].id = <<c, l>>
           S == {k \in Nat : k <= n => Done(k)}
<1>6. 0 \in S
  BY <1>3, <1>5
<1>7. ASSUME NEW k \in Nat, k \in S PROVE k + 1 \in S
  <2> SUFFICES ASSUME k + 1 <= n PROVE Done(k + 1)
    <3> HIDE DEF Done, n
    <3> QED OBVIOUS
  <2>1. Done(k) /\ k + 1 \in 1 .. n
    <3> HIDE DEF Done, n
    <3> QED BY <1>1, <1>7
  <2>2. g[k + 1] = Forward(g[k], es[k + 1], <<c, k + 1>>, draws[k + 1])
    BY <1>3, <2>1
  <2>3. draws[k + 1] \in Invented /\ es[k + 1] \in Events /\ <<c, k + 1>> \in Nat \X Nat
    BY <1>1, <2>1
  <2>a. \E r \in rs : r.id = <<c, k + 1>> /\ r.session = es[k + 1].session /\ r.given = es[k + 1].given
    BY <1>4, <2>1
  <2> HIDE DEF es, rs
  <2>4. /\ Sound(g[k + 1], rs) /\ Len(g[k + 1].wire) = Len(g[k].wire) + 1
        /\ \A l \in 1 .. Len(g[k].wire) : g[k + 1].wire[l] = g[k].wire[l]
        /\ g[k + 1].wire[Len(g[k].wire) + 1].id = <<c, k + 1>>
    <3> DEFINE nx == Forward(g[k], es[k + 1], <<c, k + 1>>, draws[k + 1])
    <3>1. Sound(g[k], rs)
      BY <2>1
    <3>2. /\ Sound(nx, rs) /\ Len(nx.wire) = Len(g[k].wire) + 1
          /\ \A l \in 1 .. Len(g[k].wire) : nx.wire[l] = g[k].wire[l]
          /\ nx.wire[Len(g[k].wire) + 1].id = <<c, k + 1>>
      BY <2>a, <2>3, <3>1, ForwardIsSound
    <3> QED BY <2>2, <3>2
  <2>5. \A l \in 1 .. Len(wire) : g[k + 1].wire[l] = wire[l]
    BY <1>5, <2>1, <2>4
  <2>6. ASSUME NEW l \in 1 .. k + 1 PROVE g[k + 1].wire[Len(wire) + l].id = <<c, l>>
    <3>1. CASE l = k + 1
      BY <3>1, <1>5, <2>1, <2>4
    <3>2. CASE l \in 1 .. k
      <4>1. Len(wire) + l \in 1 .. Len(g[k].wire)
        BY <3>2, <1>5, <2>1
      <4> QED BY <3>2, <4>1, <2>1, <2>4
    <3> QED BY <3>1, <3>2
  <2>7. Len(g[k + 1].wire) = Len(wire) + (k + 1)
    BY <1>5, <2>1, <2>4
  <2> QED BY <2>4, <2>5, <2>6, <2>7
<1>8. n \in S
  <2> HIDE DEF S
  <2> QED BY <1>1, <1>6, <1>7, Induct
<1>9. Done(n)
  <2> HIDE DEF Done, n
  <2> QED BY <1>1, <1>8
<1> QED BY <1>1, <1>2, <1>5, <1>9

(* ---- the invariant ---- *)
\* An event goes out when its call stores it, and a call does so once.
Once ==
    /\ \A i \in DOMAIN wire : \E c \in DOMAIN calls, k \in Nat : wire[i].id = <<c, k>> /\ calls[c].stage = "sent"
    /\ \A i, j \in DOMAIN wire : wire[i].id = wire[j].id => i = j
Inv == TypeOK /\ Sound([profiles |-> profiles, wire |-> wire], rows) /\ Once

\* What the two properties say of a sound state.
LEMMA SoundIsSafe ==
  ASSUME Inv
  PROVE  SessionKeepsItsPlace /\ ForwardedIsStored
<1>1. wire \in Seq(Sent) /\ Keeps(wire) /\ Recorded(wire, rows) /\ Once
  BY DEF Inv, Sound
<1>2. SessionKeepsItsPlace
  BY <1>1 DEF SessionKeepsItsPlace, Keeps, Heard
<1>3. ForwardedIsStored
  BY <1>1 DEF ForwardedIsStored, Recorded, Named, Once
<1> QED BY <1>2, <1>3

Stages == {"locate", "lookup", "store", "sent", "lost"}
\* A step that leaves the wire, the cache and the rows, and no call that was sent.
LEMMA QuietStep ==
  ASSUME Inv, wire' = wire, profiles' = profiles, rows \subseteq rows', now' \in Nat, now <= now',
         rows' \subseteq [id : Nat \X Nat, session : Sessions, given : Real \cup {NoPlace}],
         calls' \in Seq([stage : Stages, events : Seq(Events)]), DOMAIN calls \subseteq DOMAIN calls',
         \A c \in DOMAIN calls : calls[c].stage = "sent" => calls'[c].stage = "sent"
  PROVE  Inv'
<1>1. TypeOK'
  BY DEF Inv, TypeOK, Stages
<1>2. Once'
  BY DEF Inv, Once
<1>3. Sound([profiles |-> profiles, wire |-> wire], rows')
  BY MoreRows DEF Inv
<1> DEFINE st == [profiles |-> profiles, wire |-> wire]
<1>4. Dated(profiles, wire)'
  <2>1. \A k \in DOMAIN wire : wire[k].at \in Nat
    <3>1. \A k \in DOMAIN wire : wire[k] \in Sent
      BY DEF Inv, Sound
    <3> QED BY <3>1 DEF Sent
  <2>2. now \in Nat
    BY DEF Inv, Sound
  <2> QED BY <1>3, <2>1, <2>2 DEF Sound, Dated
<1>5. Sound(st, rows)'
  <2>1. /\ Kept(profiles) /\ wire \in Seq(Sent) /\ Placed(profiles, wire) /\ Keeps(wire)
        /\ Backed(profiles, rows') /\ Recorded(wire, rows')
    BY <1>3 DEF Sound
  <2>2. (Kept(profiles) /\ wire \in Seq(Sent))'
    BY <2>1 DEF Kept
  <2>3. (Placed(profiles, wire) /\ Keeps(wire))'
    BY <2>1 DEF Placed, Keeps
  <2>4. (Backed(profiles, rows) /\ Recorded(wire, rows))'
    BY <2>1 DEF Backed, Recorded, Named
  <2> QED BY <1>4, <2>2, <2>3, <2>4 DEF Sound
<1> QED BY <1>1, <1>2, <1>5 DEF Inv

\* The tracker begins in the invariant.
LEMMA TrackerInit ==
  ASSUME Init PROVE Inv
<1> USE TrackerAssumption DEF Init
<1>1. TypeOK
  BY DEF TypeOK
<1>2. Once
  BY DEF Once
<1>3. Sound([profiles |-> profiles, wire |-> wire], rows)
  BY DEF Sound, Kept, Placed, Keeps, Dated, Backed, Recorded
<1> QED BY <1>1, <1>2, <1>3 DEF Inv

\* What the calls are made of.
LEMMA CallTypes ==
  ASSUME Inv, NEW c \in DOMAIN calls
  PROVE  /\ c \in Nat /\ calls[c].stage \in Stages /\ calls[c].events \in Seq(Events)
         /\ calls \in Seq([stage : Stages, events : Seq(Events)]) /\ Len(calls) \in Nat
         /\ DOMAIN calls = 1 .. Len(calls) /\ calls[c] \in [stage : Stages, events : Seq(Events)]
<1>1. calls \in Seq([stage : Stages, events : Seq(Events)])
  BY DEF Inv, TypeOK, Stages
<1>2. /\ calls[c] \in [stage : Stages, events : Seq(Events)] /\ c \in Nat
      /\ Len(calls) \in Nat /\ DOMAIN calls = 1 .. Len(calls)
  <2> DEFINE T == [stage : Stages, events : Seq(Events)]
  <2> HIDE DEF T
  <2>1. calls \in Seq(T)
    BY <1>1 DEF T
  <2>2. calls[c] \in T /\ c \in Nat /\ Len(calls) \in Nat /\ DOMAIN calls = 1 .. Len(calls)
    BY <2>1
  <2> QED BY <2>2 DEF T
<1>3. calls[c].stage \in Stages /\ calls[c].events \in Seq(Events)
  BY <1>2
<1> QED BY <1>1, <1>2, <1>3

\* One call more.
LEMMA CallAdded ==
  ASSUME Inv, NEW stage \in Stages, NEW es \in Seq(Events), Call(stage, es),
         UNCHANGED <<now, rows, profiles, wire>>
  PROVE  Inv'
<1> DEFINE T == [stage : Stages, events : Seq(Events)]
           x == [stage |-> stage, events |-> es]
<1>1. calls \in Seq(T) /\ x \in T
  BY DEF Inv, TypeOK, Stages
<1>2. calls' = Append(calls, x)
  BY DEF Call
<1> HIDE DEF T, x
<1>3. /\ calls' \in Seq(T) /\ DOMAIN calls \subseteq DOMAIN calls'
      /\ \A c \in DOMAIN calls : calls'[c] = calls[c]
  BY <1>1, <1>2
<1>4. /\ now \in Nat /\ rows \subseteq [id : Nat \X Nat, session : Sessions, given : Real \cup {NoPlace}]
  BY DEF Inv, TypeOK
<1> QED BY <1>3, <1>4, QuietStep DEF T

\* One call goes on, or ends.
LEMMA CallChanged ==
  ASSUME Inv, NEW c \in DOMAIN calls, calls[c].stage # "sent", NEW x \in [stage : Stages, events : Seq(Events)],
         calls' = [calls EXCEPT ![c] = x], UNCHANGED <<now, profiles, wire>>, rows \subseteq rows',
         rows' \subseteq [id : Nat \X Nat, session : Sessions, given : Real \cup {NoPlace}]
  PROVE  Inv'
<1> DEFINE T == [stage : Stages, events : Seq(Events)]
<1>1. calls \in Seq(T) /\ x \in T /\ now \in Nat
  BY DEF Inv, TypeOK, Stages
<1> HIDE DEF T
<1>2. /\ calls' \in Seq(T) /\ DOMAIN calls = DOMAIN calls'
      /\ \A k \in DOMAIN calls : k # c => calls'[k] = calls[k]
  BY <1>1
<1> QED BY <1>1, <1>2, QuietStep DEF T

\* The rows of a call are rows.
LEMMA RowTypes ==
  ASSUME Inv, NEW c \in DOMAIN calls
  PROVE  rows \cup Rows(c) \subseteq [id : Nat \X Nat, session : Sessions, given : Real \cup {NoPlace}]
<1>1. c \in Nat /\ calls[c].events \in Seq(Events)
  BY CallTypes
<1>2. \A k \in DOMAIN calls[c].events : k \in Nat /\ calls[c].events[k] \in Events
  BY <1>1
<1>3. rows \subseteq [id : Nat \X Nat, session : Sessions, given : Real \cup {NoPlace}]
  BY DEF Inv, TypeOK
<1> QED BY <1>1, <1>2, <1>3 DEF Rows, Events

\* TrackEvent keeps the invariant.
LEMMA TrackEventInv ==
  ASSUME Inv, NEW e \in Live, TrackEvent(e)
  PROVE  Inv'
<1>1. <<e>> \in Seq(Events)
  <2>1. e \in Events
    BY DEF Live, Events
  <2> QED BY <2>1
<1>2. PICK customer \in BOOLEAN : Call(IF customer /\ e.given = NoPlace THEN "lookup" ELSE "store", <<e>>)
  BY DEF TrackEvent
<1> QED BY <1>1, <1>2, CallAdded DEF TrackEvent, Stages

\* TrackEventsBatch keeps the invariant.
LEMMA TrackEventsBatchInv ==
  ASSUME Inv, NEW n \in 1 .. MaxBatch, NEW es \in [1 .. n -> Runs], TrackEventsBatch(es)
  PROVE  Inv'
<1>1. es \in Seq(Events)
  <2>1. Runs \subseteq Events /\ n \in Nat
    BY TrackerAssumption DEF Runs, Events
  <2>2. es \in [1 .. n -> Events]
    BY <2>1
  <2> QED BY <2>1, <2>2
<1> QED BY <1>1, CallAdded DEF TrackEventsBatch, Stages

\* Lookup keeps the invariant.
LEMMA LookupInv ==
  ASSUME Inv, NEW c \in DOMAIN calls, Lookup(c)
  PROVE  Inv'
<1>1. /\ calls[c].events \in Seq(Events) /\ calls[c] \in [stage : Stages, events : Seq(Events)]
      /\ calls[c].stage = "lookup"
  BY CallTypes DEF Lookup
<1>2. rows' \subseteq [id : Nat \X Nat, session : Sessions, given : Real \cup {NoPlace}]
  BY DEF Lookup, Inv, TypeOK
<1>3. CASE calls' = [calls EXCEPT ![c].stage = "store", ![c].events[1].given = Home[calls[c].events[1].session]]
  <2> DEFINE es == calls[c].events
             fs == [es EXCEPT ![1].given = Home[es[1].session]]
             x == [stage |-> "store", events |-> fs]
  <2>1. fs \in Seq(Events)
    <3>1. es \in [1 .. Len(es) -> Events] /\ Len(es) \in Nat
      BY <1>1
    <3>2. \A i \in 1 .. Len(es) : [es[i] EXCEPT !.given = Home[es[i].session]] \in Events
      BY <3>1, TrackerAssumption DEF Events
    <3>3. \A i \in 1 .. Len(es) : fs[i] = IF i = 1 THEN [es[1] EXCEPT !.given = Home[es[1].session]] ELSE es[i]
      BY <3>1
    <3>4. fs \in [1 .. Len(es) -> Events]
      BY <3>1, <3>2, <3>3
    <3> QED BY <3>1, <3>4
  <2>2. x \in [stage : Stages, events : Seq(Events)]
    BY <2>1 DEF Stages
  <2>3. calls' = [calls EXCEPT ![c] = x]
    <3> DEFINE y == [calls[c] EXCEPT !.stage = "store", !.events[1].given = Home[es[1].session]]
    <3>1. calls' = [calls EXCEPT ![c] = y]
      BY <1>3
    <3>2. y = x
      <4>1. calls[c] = [stage |-> "lookup", events |-> es]
        BY <1>1
      <4>2. y = [calls[c] EXCEPT !.stage = "store", !.events = fs]
        OBVIOUS
      <4> HIDE DEF fs, y, es
      <4> QED BY <4>1, <4>2
    <3> QED BY <3>1, <3>2
  <2> HIDE DEF x
  <2> QED BY <1>1, <1>2, <2>2, <2>3, CallChanged DEF Lookup
<1>4. CASE Settle(c, "lost")
  <2> DEFINE x == [calls[c] EXCEPT !.stage = "lost", !.events = <<>>]
  <2>1. x \in [stage : Stages, events : Seq(Events)]
    <3>1. <<>> \in Seq(Events)
      OBVIOUS
    <3> QED BY <1>1, <3>1 DEF Stages
  <2>2. calls' = [calls EXCEPT ![c] = x]
    BY <1>4 DEF Settle
  <2> HIDE DEF x
  <2> QED BY <1>1, <1>2, <2>1, <2>2, CallChanged DEF Lookup
<1> QED BY <1>3, <1>4 DEF Lookup

\* A call that ends, whatever became of its rows.
LEMMA SettleInv ==
  ASSUME Inv, NEW c \in DOMAIN calls, calls[c].stage # "sent", Settle(c, "lost"),
         UNCHANGED <<now, profiles, wire>>, rows' \in {rows, rows \cup Rows(c)}
  PROVE  Inv'
<1> DEFINE x == [calls[c] EXCEPT !.stage = "lost", !.events = <<>>]
<1>1. x \in [stage : Stages, events : Seq(Events)]
  <2>1. <<>> \in Seq(Events) /\ calls[c] \in [stage : Stages, events : Seq(Events)]
    BY CallTypes
  <2> QED BY <2>1 DEF Stages
<1>2. calls' = [calls EXCEPT ![c] = x]
  BY DEF Settle
<1>3. rows \subseteq rows' /\ rows' \subseteq [id : Nat \X Nat, session : Sessions, given : Real \cup {NoPlace}]
  BY RowTypes
<1> HIDE DEF x
<1> QED BY <1>1, <1>2, <1>3, CallChanged

\* Locate keeps the invariant.
LEMMA LocateInv ==
  ASSUME Inv, NEW c \in DOMAIN calls, Locate(c)
  PROVE  Inv'
<1>1. calls[c] \in [stage : Stages, events : Seq(Events)] /\ calls[c].stage = "locate"
  BY CallTypes DEF Locate
<1>2. rows' \subseteq [id : Nat \X Nat, session : Sessions, given : Real \cup {NoPlace}]
  BY DEF Locate, Inv, TypeOK
<1>3. CASE calls' = [calls EXCEPT ![c].stage = IF calls[c].events[1].given = NoPlace THEN "lookup" ELSE "store"]
  <2> DEFINE x == [calls[c] EXCEPT !.stage = IF calls[c].events[1].given = NoPlace THEN "lookup" ELSE "store"]
  <2>1. x \in [stage : Stages, events : Seq(Events)]
    BY <1>1 DEF Stages
  <2>2. calls' = [calls EXCEPT ![c] = x]
    BY <1>3
  <2> HIDE DEF x
  <2> QED BY <1>1, <1>2, <2>1, <2>2, CallChanged DEF Locate
<1>4. CASE Settle(c, "lost")
  BY <1>1, <1>4, SettleInv DEF Locate
<1> QED BY <1>3, <1>4 DEF Locate

\* StoreFails keeps the invariant.
LEMMA StoreFailsInv ==
  ASSUME Inv, NEW c \in DOMAIN calls, StoreFails(c)
  PROVE  Inv'
BY SettleInv DEF StoreFails

\* The rows and the forwards of a call: its first, and its last.
LEMMA StoreInv ==
  ASSUME Inv, NEW c \in DOMAIN calls, Store(c)
  PROVE  Inv'
<1>1. PICK draws \in [DOMAIN calls[c].events -> Invented] :
         LET f == Forwarded(c, draws) IN profiles' = f.profiles /\ wire' = f.wire
  BY DEF Store
<1> DEFINE f == Forwarded(c, draws)
           n == Len(calls[c].events)
           T == [stage : Stages, events : Seq(Events)]
           x == [calls[c] EXCEPT !.stage = "sent", !.events = <<>>]
<1>2. /\ calls[c].stage = "store" /\ calls' = [calls EXCEPT ![c] = x] /\ rows' = rows \cup Rows(c) /\ now' = now
      /\ profiles' = f.profiles /\ wire' = f.wire
  BY <1>1 DEF Store, Settle
<1>3. c \in Nat /\ calls[c].events \in Seq(Events) /\ calls \in Seq(T) /\ calls[c] \in T
  BY CallTypes
<1>4. Sound([profiles |-> profiles, wire |-> wire], rows) /\ Once /\ now \in Nat
  BY DEF Inv, TypeOK
<1> HIDE DEF f
<1>5. /\ Sound(f, rows') /\ n \in Nat /\ Len(wire) \in Nat /\ Len(f.wire) = Len(wire) + n
      /\ \A k \in 1 .. Len(wire) : f.wire[k] = wire[k]
      /\ \A k \in 1 .. n : f.wire[Len(wire) + k].id = <<c, k>>
  BY <1>2, <1>3, <1>4, BatchIsSound DEF f
<1>6. calls' \in Seq(T) /\ DOMAIN calls' = DOMAIN calls /\ calls'[c] = x /\ x.stage = "sent"
      /\ \A k \in DOMAIN calls : k # c => calls'[k] = calls[k]
  <2>1. <<>> \in Seq(Events)
    OBVIOUS
  <2>2. x \in T /\ x.stage = "sent"
    BY <1>3, <2>1 DEF Stages
  <2> HIDE DEF x, T
  <2> QED BY <1>2, <1>3, <2>2
<1>7. wire \in Seq(Sent) /\ wire' \in Seq(Sent) /\ DOMAIN wire = 1 .. Len(wire) /\ DOMAIN wire' = 1 .. Len(wire) + n
  BY <1>2, <1>4, <1>5 DEF Sound
<1>8. \A i \in DOMAIN wire' : i \in DOMAIN wire \/ \E k \in 1 .. n : i = Len(wire) + k
  <2> SUFFICES ASSUME NEW i \in 1 .. Len(wire) + n, i \notin 1 .. Len(wire) PROVE \E k \in 1 .. n : i = Len(wire) + k
    BY <1>7
  <2>1. i - Len(wire) \in 1 .. n /\ i = Len(wire) + (i - Len(wire))
    BY <1>5
  <2> QED BY <2>1
<1>9. \A i \in DOMAIN wire : wire'[i] = wire[i] /\ \A k \in Nat : wire[i].id # <<c, k>>
  BY <1>2, <1>4, <1>5, <1>7 DEF Once
<1>10. Once'
  <2>1. ASSUME NEW i \in DOMAIN wire'
        PROVE  \E d \in DOMAIN calls', k \in Nat : wire'[i].id = <<d, k>> /\ calls'[d].stage = "sent"
    <3>1. CASE i \in DOMAIN wire
      <4>1. PICK d \in DOMAIN calls, k \in Nat : wire[i].id = <<d, k>> /\ calls[d].stage = "sent"
        BY <3>1, <1>4 DEF Once
      <4>2. d # c /\ calls'[d] = calls[d]
        BY <4>1, <1>2, <1>6
      <4> QED BY <3>1, <4>1, <4>2, <1>6, <1>9
    <3>2. CASE \E k \in 1 .. n : i = Len(wire) + k
      <4>1. PICK k \in 1 .. n : i = Len(wire) + k
        BY <3>2
      <4>2. wire'[i].id = <<c, k>> /\ k \in Nat
        BY <4>1, <1>2, <1>5
      <4>3. calls'[c].stage = "sent" /\ c \in DOMAIN calls'
        BY <1>6
      <4> QED BY <4>2, <4>3
    <3> QED BY <3>1, <3>2, <1>8
  <2>2. ASSUME NEW i \in DOMAIN wire', NEW j \in DOMAIN wire', wire'[i].id = wire'[j].id
        PROVE  i = j
    <3>1. CASE i \in DOMAIN wire /\ j \in DOMAIN wire
      BY <2>2, <3>1, <1>4, <1>9 DEF Once
    <3>2. \A k \in 1 .. n : k \in Nat /\ wire'[Len(wire) + k].id = <<c, k>>
      BY <1>2, <1>5
    <3>3. CASE i \notin DOMAIN wire /\ j \notin DOMAIN wire
      <4>1. PICK k \in 1 .. n : i = Len(wire) + k
        BY <3>3, <1>8
      <4>2. PICK l \in 1 .. n : j = Len(wire) + l
        BY <3>3, <1>8
      <4>3. wire'[i].id = <<c, k>> /\ wire'[j].id = <<c, l>>
        BY <3>2, <4>1, <4>2
      <4>4. k = l
        <5>1. <<c, k>> = <<c, l>>
          BY <2>2, <4>3
        <5> QED BY <5>1
      <4> QED BY <4>1, <4>2, <4>4
    <3>4. ASSUME NEW a \in DOMAIN wire, NEW b \in DOMAIN wire', b \notin DOMAIN wire, wire'[a].id = wire'[b].id PROVE FALSE
      BY <3>2, <3>4, <1>8, <1>9
    <3> QED BY <2>2, <3>1, <3>3, <3>4
  <2> QED BY <2>1, <2>2 DEF Once
<1>11. TypeOK'
  <2>1. rows' \subseteq [id : Nat \X Nat, session : Sessions, given : Real \cup {NoPlace}]
    BY <1>2, RowTypes
  <2>2. profiles' \in Seq(Profile) /\ wire' \in Seq(Sent)
    BY <1>2, <1>5 DEF Sound, Kept
  <2>3. calls' \in Seq([stage : Stages, events : Seq(Events)])
    BY <1>6
  <2> QED BY <1>2, <1>4, <2>1, <2>2, <2>3 DEF TypeOK, Stages, Profile, Sent
<1>12. Sound([profiles |-> profiles, wire |-> wire], rows)'
  <2>1. Kept(f.profiles) /\ f.wire \in Seq(Sent) /\ Placed(f.profiles, f.wire) /\ Keeps(f.wire)
        /\ Dated(f.profiles, f.wire) /\ Backed(f.profiles, rows') /\ Recorded(f.wire, rows')
    BY <1>5 DEF Sound
  <2>2. Dated(profiles', wire')
    BY <1>2, <2>1
  <2>3. Dated(profiles, wire)'
    BY <1>2, <2>2 DEF Dated
  <2> QED BY <1>2, <1>4, <2>1, <2>3 DEF Sound, Kept, Placed, Keeps, Backed, Recorded, Named
<1> QED BY <1>10, <1>11, <1>12 DEF Inv

\* The callbacks of the page post its first answer only.
LEMMA CallbackInv ==
  ASSUME Inv, TimerFires \/ Refused \/ Position \/ Geocoded
  PROVE  Inv'
<1>1. UNCHANGED <<now, rows, profiles, wire>>
  BY DEF TimerFires, Refused, Position, Geocoded, Callback
<1>2. calls' = calls \/ \E place \in Real \cup {NoPlace} : Call("locate", <<[session |-> PageSession, given |-> place]>>)
  BY DEF TimerFires, Refused, Position, Geocoded, PostOnce
<1>3. CASE calls' = calls
  BY <1>1, <1>3, QuietStep DEF Inv, TypeOK, Stages
<1>4. ASSUME NEW place \in Real \cup {NoPlace}, Call("locate", <<[session |-> PageSession, given |-> place]>>)
      PROVE  Inv'
  <2>1. [session |-> PageSession, given |-> place] \in Events
    BY TrackerAssumption DEF Events
  <2>2. <<[session |-> PageSession, given |-> place]>> \in Seq(Events)
    BY <2>1
  <2> QED BY <1>1, <1>4, <2>2, CallAdded DEF Stages
<1> QED BY <1>2, <1>3, <1>4

\* Every step of the tracker keeps the invariant.
LEMMA TrackerStep ==
  ASSUME Inv, [Next]_vars
  PROVE  Inv'
<1>1. CASE Tick
  BY <1>1, QuietStep DEF Tick, Inv, TypeOK, Stages
<1>2. CASE UNCHANGED vars
  BY <1>2, QuietStep DEF vars, Inv, TypeOK, Stages
<1> QED BY <1>1, <1>2, CallbackInv, TrackEventInv, TrackEventsBatchInv, LookupInv, LocateInv, StoreInv, StoreFailsInv DEF Next

\* The tracker keeps its types, its cache within its limit, and the wire sound.
THEOREM TrackerInvariant == Spec => []Inv
<1>1. Init => Inv
  BY TrackerInit
<1>2. Inv /\ [Next]_vars => Inv'
  BY TrackerStep
<1> QED BY <1>1, <1>2, PTL DEF Spec

\* A session is told with two places only if the cache forgot it in between: as many other
\* sessions as it holds were heard of since, however lookups, inserts and answers interleave.
THEOREM PlacesKept == Spec => []SessionKeepsItsPlace
<1>1. Inv => SessionKeepsItsPlace
  BY SoundIsSafe
<1> QED BY <1>1, TrackerInvariant, PTL

\* What is forwarded is a stored row's, once, under the row's id, and a place that is not marked
\* as simulated is one that a stored row of its session names.
THEOREM ForwardedStored == Spec => []ForwardedIsStored
<1>1. Inv => ForwardedIsStored
  BY SoundIsSafe
<1> QED BY <1>1, TrackerInvariant, PTL

(* ---- the script of a simulated customer ---- *)

Group == Seq(Names) \ {<<>>}
Found == [done : SUBSET Names, out : Seq(Names)]

\* A list of groups with another one behind it is a list of groups.
LEMMA Joined ==
  ASSUME NEW S, NEW a \in Seq(S), NEW b \in Seq(S)
  PROVE  a \o b \in Seq(S)
OBVIOUS

\* A sequence of one.
LEMMA One ==
  ASSUME NEW S, NEW x \in S
  PROVE  <<x>> \in Seq(S) /\ Len(<<x>>) = 1
OBVIOUS

\* The groups of an event are lists of events, none of them empty.
LEMMA GroupsTyped ==
  ASSUME NEW e \in Names
  PROVE  Groups(e) \in Seq(Group)
<1>1. ASSUME NEW x \in Names PROVE <<<<x>>>> \in Seq(Group)
  <2>1. <<x>> \in Seq(Names) /\ Len(<<x>>) = 1
    BY One
  <2>2. <<x>> \in Group
    <3>1. Len(<<>>) = 0
      OBVIOUS
    <3> QED BY <2>1, <3>1 DEF Group
  <2> QED BY <2>2, One
<1>2. <<>> \in Seq(Group)
  OBVIOUS
<1>3. Only(Funnel, e) \in Seq(Group)
  <2>1. CASE e \in DOMAIN Funnel
    <3>1. PICK x \in Names : x = Funnel[e]
      BY <2>1 DEF Funnel, Names, Catalogue, Entries, ProGated, Range
    <3> QED BY <1>1, <2>1, <3>1 DEF Only
  <2> QED BY <1>2, <2>1 DEF Only
<1>4. Only(ViewOf, e) \in Seq(Group)
  <2>1. CASE e \in DOMAIN ViewOf
    <3>1. PICK x \in Names : x = ViewOf[e]
      BY <2>1 DEF ViewOf, Names, Catalogue, Entries, ProGated, Range
    <3> QED BY <1>1, <2>1, <3>1 DEF Only
  <2> QED BY <1>2, <2>1 DEF Only
<1>5. Entries \in Group /\ ProAccess \in Group
  <2>1. Entries \in Seq(Names) /\ ProAccess \in Seq(Names) /\ Len(Entries) = 2 /\ Len(ProAccess) = 3
    BY DEF Entries, ProAccess, Names, Catalogue, ProGated, Range
  <2>2. Len(<<>>) = 0
    OBVIOUS
  <2>3. Entries # <<>> /\ ProAccess # <<>>
    BY DEF Entries, ProAccess
  <2> QED BY <2>1, <2>3 DEF Group
<1>6. <<Entries>> \in Seq(Group) /\ <<ProAccess>> \in Seq(Group)
  BY <1>5, One
<1>7. ContextGroups(e) \in Seq(Group)
  <2>1. CASE e \notin Catalogue \/ e \in Range(Entries)
    BY <2>1, <1>2 DEF ContextGroups
  <2>2. CASE ~ (e \notin Catalogue \/ e \in Range(Entries))
    <3>1. PICK mid \in Seq(Group) :
             mid = IF e \in ProGated /\ e \notin Range(ProAccess) THEN <<ProAccess>> ELSE <<>>
      BY <1>2, <1>6
    <3>2. ContextGroups(e) = <<Entries>> \o mid \o Only(ViewOf, e)
      BY <2>2, <3>1 DEF ContextGroups
    <3>3. <<Entries>> \o mid \in Seq(Group)
      BY <3>1, <1>6, Joined
    <3> QED BY <3>2, <3>3, <1>4, Joined
  <2> QED BY <2>1, <2>2
<1> QED BY <1>3, <1>7, Joined DEF Groups

\* One more level of the visit, from the level below.
Deeper(f) == [v \in Visit |->
    IF v.groups = <<>> THEN [done |-> v.done, out |-> <<>>]
    ELSE LET rep   == Head(v.groups)[1]
             inner == f[To(Groups(rep), v.done \cup {rep})]
             after == f[To(Tail(v.groups), inner.done)]
         IN  IF Range(Head(v.groups)) \cap v.done # {} THEN f[To(Tail(v.groups), v.done)]
             ELSE [done |-> after.done, out |-> inner.out \o <<rep>> \o after.out]]
Shallow == [v \in Visit |-> [done |-> v.done, out |-> <<>>]]

\* A visit one level deeper finds what a visit may find.
LEMMA DeeperTyped ==
  ASSUME NEW f \in [Visit -> Found]
  PROVE  Deeper(f) \in [Visit -> Found]
<1> DEFINE body(v) ==
    IF v.groups = <<>> THEN [done |-> v.done, out |-> <<>>]
    ELSE LET rep   == Head(v.groups)[1]
             inner == f[To(Groups(rep), v.done \cup {rep})]
             after == f[To(Tail(v.groups), inner.done)]
         IN  IF Range(Head(v.groups)) \cap v.done # {} THEN f[To(Tail(v.groups), v.done)]
             ELSE [done |-> after.done, out |-> inner.out \o <<rep>> \o after.out]
<1>1. ASSUME NEW v \in Visit PROVE body(v) \in Found
  <2>1. v.groups \in Seq(Group) /\ v.done \in SUBSET Names
    BY DEF Visit, Group
  <2>2. CASE v.groups = <<>>
    BY <2>1, <2>2 DEF Found
  <2>3. CASE v.groups # <<>>
    <3>1. Head(v.groups) \in Group /\ Tail(v.groups) \in Seq(Group)
      BY <2>1, <2>3
    <3>2. PICK rep : rep = Head(v.groups)[1]
      OBVIOUS
    <3>3. rep \in Names
      BY <3>1, <3>2 DEF Group
    <3>4. To(Groups(rep), v.done \cup {rep}) \in Visit
      BY <2>1, <3>3, GroupsTyped DEF To, Visit, Group
    <3>5. PICK inner \in Found : inner = f[To(Groups(rep), v.done \cup {rep})]
      BY <3>4
    <3>6. To(Tail(v.groups), inner.done) \in Visit /\ To(Tail(v.groups), v.done) \in Visit
      BY <2>1, <3>1, <3>5 DEF To, Visit, Group, Found
    <3>7. PICK after \in Found : after = f[To(Tail(v.groups), inner.done)]
      BY <3>6
    <3>8. inner.out \o <<rep>> \o after.out \in Seq(Names)
      <4>1. inner.out \in Seq(Names) /\ after.out \in Seq(Names) /\ <<rep>> \in Seq(Names)
        BY <3>3, <3>5, <3>7, One DEF Found
      <4>2. inner.out \o <<rep>> \in Seq(Names)
        BY <4>1, Joined
      <4> QED BY <4>1, <4>2, Joined
    <3>9. [done |-> after.done, out |-> inner.out \o <<rep>> \o after.out] \in Found
      BY <3>7, <3>8 DEF Found
    <3>10. f[To(Tail(v.groups), v.done)] \in Found
      BY <3>6
    <3>11. body(v) = IF Range(Head(v.groups)) \cap v.done # {} THEN f[To(Tail(v.groups), v.done)]
             ELSE [done |-> after.done, out |-> inner.out \o <<rep>> \o after.out]
      BY <2>3, <3>2, <3>5, <3>7
    <3> QED BY <3>9, <3>10, <3>11
  <2> QED BY <2>2, <2>3
<1>2. Deeper(f) = [v \in Visit |-> body(v)]
  BY DEF Deeper
<1> HIDE DEF body
<1> QED BY <1>1, <1>2

Levels(g, n) == g = [k \in 0..n |-> IF k = 0 THEN Shallow ELSE Deeper(g[k - 1])]

\* At depth zero a visit finds nothing.
LEMMA ShallowTyped == Shallow \in [Visit -> Found]
<1>1. ASSUME NEW v \in Visit PROVE [done |-> v.done, out |-> <<>>] \in Found
  BY DEF Visit, Found
<1> QED BY <1>1 DEF Shallow

\* The levels exist, by induction.
LEMMA LevelsExist == \A n \in Nat : \E g : Levels(g, n)
<1> DEFINE S == {n \in Nat : \E g : Levels(g, n)}
<1>1. 0 \in S
  <2>1. Levels([k \in 0..0 |-> Shallow], 0)
    BY DEF Levels
  <2> QED BY <2>1
<1>2. ASSUME NEW n \in Nat, n \in S PROVE n + 1 \in S
  <2>1. PICK g : Levels(g, n)
    BY <1>2
  <2> DEFINE top == Deeper(g[n])
             h == [k \in 0..n + 1 |-> IF k = n + 1 THEN top ELSE g[k]]
             h2 == [k \in 0..n + 1 |-> IF k = 0 THEN Shallow ELSE Deeper(h[k - 1])]
  <2>2. ASSUME NEW k \in 0..n + 1 PROVE h[k] = h2[k]
    <3>1. CASE k = n + 1
      <4>1. h[k] = top /\ k - 1 = n /\ k # 0 /\ h[k - 1] = g[n]
        BY <3>1
      <4>2. h2[k] = Deeper(h[k - 1])
        BY <4>1
      <4> QED BY <4>1, <4>2, <3>1
    <3>2. CASE k # n + 1
      <4>1. k \in 0..n /\ h[k] = g[k]
        BY <3>2
      <4>2. CASE k = 0
        BY <4>1, <4>2, <2>1 DEF Levels
      <4>3. CASE k # 0
        <5>1. k - 1 \in 0..n + 1 /\ k - 1 # n + 1
          BY <4>1, <4>3
        <5>2. h[k - 1] = g[k - 1]
          BY <5>1
        <5>3. g[k] = Deeper(g[k - 1])
          BY <2>1, <4>1, <4>3 DEF Levels
        <5> QED BY <4>1, <4>3, <5>2, <5>3
      <4> QED BY <4>2, <4>3
    <3> QED BY <3>1, <3>2
  <2>3. h = h2
    <3> HIDE DEF top
    <3> QED BY <2>2
  <2>4. Levels(h, n + 1)
    <3> HIDE DEF h
    <3> QED BY <2>3 DEF Levels
  <2> QED BY <2>4
<1> QED BY <1>1, <1>2, Induct

\* Missing is its levels.
LEMMA MissingLevels == Levels(Missing, Depth)
<1> DEFINE body(f, k) == [v \in Visit |->
    IF k = 0 \/ v.groups = <<>> THEN [done |-> v.done, out |-> <<>>]
    ELSE LET rep   == Head(v.groups)[1]
             inner == f[k - 1][To(Groups(rep), v.done \cup {rep})]
             after == f[k - 1][To(Tail(v.groups), inner.done)]
         IN  IF Range(Head(v.groups)) \cap v.done # {} THEN f[k - 1][To(Tail(v.groups), v.done)]
             ELSE [done |-> after.done, out |-> inner.out \o <<rep>> \o after.out]]
<1>1. Missing = CHOOSE f : f = [k \in 0..Depth |-> body(f, k)]
  BY DEF Missing
<1>2. ASSUME NEW f, NEW k \in 0..Depth PROVE body(f, k) = IF k = 0 THEN Shallow ELSE Deeper(f[k - 1])
  <2>1. CASE k = 0
    BY <2>1 DEF Shallow
  <2>2. CASE k # 0
    BY <2>2 DEF Deeper
  <2> QED BY <2>1, <2>2
<1> HIDE DEF body
<1>3. ASSUME NEW f PROVE (f = [k \in 0..Depth |-> body(f, k)]) <=> Levels(f, Depth)
  BY <1>2 DEF Levels
<1>4. \E f : f = [k \in 0..Depth |-> body(f, k)]
  <2>1. Depth \in Nat
    BY DEF Depth
  <2> QED BY <2>1, LevelsExist, <1>3
<1>5. Missing = [k \in 0..Depth |-> body(Missing, k)]
  BY <1>1, <1>4
<1> QED BY <1>3, <1>5

(* ---- the visit ---- *)
Past(s, i) == {s[j] : j \in 1..(i - 1)}   \* what a sequence holds before a place
Met(group, known) == Range(group) \cap known # {}
\* What a visit of these groups may find, when these events are known.
Fits(groups, known, found, below) ==
  /\ found \in Found
  /\ found.done = known \cup Range(found.out)
  /\ \A k \in DOMAIN groups : Met(groups[k], found.done)
  /\ \A i \in DOMAIN found.out :
        /\ found.out[i] \in below
        /\ \A k \in DOMAIN Groups(found.out[i]) :
              Met(Groups(found.out[i])[k], known \cup Past(found.out, i))
Visits(groups, w, below) ==
  \A n \in w..Depth : \A known \in SUBSET Names :
     Fits(groups, known, Missing[n][To(groups, known)], below)

\* The recursion of the back-fill, level by level.
LEMMA MissingAt ==
  ASSUME NEW n \in 1..Depth
  PROVE  /\ Missing[n] = Deeper(Missing[n - 1])
         /\ Missing[0] = Shallow
         /\ n - 1 \in 0..Depth
<1>1. Depth \in Nat
  BY DEF Depth
<1>2. Missing = [k \in 0..Depth |-> IF k = 0 THEN Shallow ELSE Deeper(Missing[k - 1])]
  BY MissingLevels DEF Levels
<1>3. n \in 0..Depth /\ n # 0 /\ 0 \in 0..Depth
  BY <1>1
<1>4. Missing[n] = IF n = 0 THEN Shallow ELSE Deeper(Missing[n - 1])
  BY <1>2, <1>3
<1>5. Missing[0] = IF 0 = 0 THEN Shallow ELSE Deeper(Missing[0 - 1])
  BY <1>2, <1>3
<1> QED BY <1>1, <1>3, <1>4, <1>5

\* Nothing is missing from no groups.
LEMMA VisitsNone ==
  ASSUME NEW below
  PROVE  Visits(<<>>, 0, below)
<1> SUFFICES ASSUME NEW n \in 0..Depth, NEW known \in SUBSET Names
             PROVE  Fits(<<>>, known, Missing[n][To(<<>>, known)], below)
  BY DEF Visits
<1>1. <<>> \in Seq(Group)
  OBVIOUS
<1>2. PICK v \in Visit : v = To(<<>>, known)
  BY <1>1 DEF To, Visit, Group
<1>3. v.groups = <<>> /\ v.done = known
  BY <1>2 DEF To
<1>4. Missing[n][v] = [done |-> known, out |-> <<>>]
  <2>1. CASE n = 0
    <3>1. Missing[0] = Shallow
      <4>1. 1 \in 1..Depth
        BY DEF Depth
      <4> QED BY <4>1, MissingAt
    <3> QED BY <1>2, <1>3, <2>1, <3>1 DEF Shallow
  <2>2. CASE n # 0
    <3>1. n \in 1..Depth
      BY <2>2 DEF Depth
    <3>2. Missing[n] = Deeper(Missing[n - 1])
      BY <3>1, MissingAt
    <3> QED BY <1>3, <3>2 DEF Deeper
  <2> QED BY <2>1, <2>2
<1>5. PICK m : m = [done |-> known, out |-> <<>>]
  OBVIOUS
<1>6. m.done = known /\ m.out = <<>>
  BY <1>5
<1>7. Fits(<<>>, known, m, below)
  <2>1. m \in Found
    BY <1>5 DEF Found
  <2>2. Range(m.out) = {}
    BY <1>6 DEF Range
  <2> QED BY <1>6, <2>1, <2>2 DEF Fits
<1> QED BY <1>2, <1>4, <1>5, <1>7

\* The first group is met already: the visit is that of the others.
LEMMA SoundMet ==
  ASSUME NEW groups \in Seq(Group), groups # <<>>, NEW known \in SUBSET Names, NEW m, NEW below,
         Met(Head(groups), known), Fits(Tail(groups), known, m, below)
  PROVE  Fits(groups, known, m, below)
<1>1. known \subseteq m.done
  BY DEF Fits
<1>2. ASSUME NEW k \in DOMAIN groups PROVE Met(groups[k], m.done)
  <2>1. CASE k = 1
    <3>1. groups[k] = Head(groups)
      BY <2>1
    <3> QED BY <3>1, <1>1 DEF Met
  <2>2. CASE k # 1
    <3>1. k - 1 \in DOMAIN Tail(groups) /\ Tail(groups)[k - 1] = groups[k]
      BY <2>2
    <3> QED BY <3>1 DEF Fits
  <2> QED BY <2>1, <2>2
<1> QED BY <1>2 DEF Fits

\* The places of three parts joined.
JoinOf(s, a, x, b) ==
  /\ DOMAIN s = 1..(Len(a) + 1 + Len(b))
  /\ \A j \in 1..Len(a) : s[j] = a[j]
  /\ s[Len(a) + 1] = x
  /\ \A j \in 1..Len(b) : s[Len(a) + 1 + j] = b[j]

\* The join of a visit: what comes before, the event, what comes after.
LEMMA JoinIs ==
  ASSUME NEW S, NEW a \in Seq(S), NEW x \in S, NEW b \in Seq(S)
  PROVE  JoinOf(a \o <<x>> \o b, a, x, b)
BY DEF JoinOf

\* What precedes a place of them.
LEMMA Before ==
  ASSUME NEW S, NEW a \in Seq(S), NEW x \in S, NEW b \in Seq(S),
         NEW s, JoinOf(s, a, x, b), NEW i \in DOMAIN s
  PROVE  \/ /\ i \in DOMAIN a /\ s[i] = a[i]
            /\ Past(s, i) = Past(a, i)
         \/ /\ i = Len(a) + 1 /\ s[i] = x
            /\ Past(s, i) = Range(a)
         \/ /\ i - Len(a) - 1 \in DOMAIN b /\ s[i] = b[i - Len(a) - 1]
            /\ Past(s, i) =
                  Range(a) \cup {x} \cup Past(b, i - Len(a) - 1)
<1>1. JoinOf(s, a, x, b)
  OBVIOUS
<1>2. PICK l \in Nat : l = Len(a)
  OBVIOUS
<1>3. PICK r \in Nat : r = Len(b)
  OBVIOUS
<1>4. DOMAIN a = 1..l /\ DOMAIN b = 1..r /\ DOMAIN s = 1..(l + 1 + r)
  BY <1>1, <1>2, <1>3 DEF JoinOf
<1>5. \A j \in 1..l : s[j] = a[j]
  BY <1>1, <1>2 DEF JoinOf
<1>6. s[l + 1] = x
  BY <1>1, <1>2 DEF JoinOf
<1>7. \A j \in 1..r : s[l + 1 + j] = b[j]
  BY <1>1, <1>2, <1>3 DEF JoinOf
<1>8. i \in 1..(l + 1 + r)
  BY <1>1, <1>4
<1>9. CASE i <= l
  <2>1. \A j \in 1..(i - 1) : s[j] = a[j]
    BY <1>5, <1>8, <1>9
  <2>2. i \in DOMAIN a /\ s[i] = a[i]
    BY <1>4, <1>5, <1>8, <1>9
  <2>3. Past(s, i) = Past(a, i)
    BY <2>1 DEF Past
  <2> QED BY <2>2, <2>3
<1>10. CASE i = l + 1
  <2>2. i - 1 = l
    BY <1>10
  <2>1. Past(s, i) = Range(a)
    BY <2>2, <1>4, <1>5 DEF Range, Past
  <2> QED BY <1>1, <1>2, <1>6, <1>10, <2>1
<1>11. CASE i > l + 1
  <2>1. PICK q \in 1..r : q = i - l - 1
    BY <1>8, <1>11
  <2>2. s[i] = b[q] /\ i = l + 1 + q
    BY <2>1, <1>7, <1>8
  <2>3. ASSUME NEW j \in 1..(i - 1) PROVE s[j] \in Range(a) \cup {x} \cup Past(b, q)
    <3>1. CASE j <= l
      <4>1. j \in 1..l
        BY <3>1
      <4> QED BY <4>1, <1>4, <1>5 DEF Range
    <3>2. CASE j = l + 1
      BY <3>2, <1>6
    <3>3. CASE j > l + 1
      <4>1. j - l - 1 \in 1..(q - 1) /\ j - l - 1 \in 1..r /\ j = l + 1 + (j - l - 1)
        BY <3>3, <2>2
      <4> QED BY <4>1, <1>7 DEF Past
    <3> QED BY <3>1, <3>2, <3>3
  <2>4. ASSUME NEW y \in Range(a) \cup {x} \cup Past(b, q) PROVE \E j \in 1..(i - 1) : s[j] = y
    <3>1. CASE y \in Range(a)
      <4>1. PICK j \in 1..l : y = a[j]
        BY <3>1, <1>4 DEF Range
      <4>2. j \in 1..(i - 1)
        BY <1>11, <1>8
      <4> QED BY <4>1, <4>2, <1>5
    <3>2. CASE y = x
      <4>1. l + 1 \in 1..(i - 1)
        BY <1>11, <1>8
      <4> QED BY <3>2, <4>1, <1>6
    <3>3. CASE y \in Past(b, q)
      <4>1. PICK t \in 1..(q - 1) : y = b[t]
        BY <3>3 DEF Past
      <4>2. l + 1 + t \in 1..(i - 1) /\ t \in 1..r
        BY <2>2
      <4> QED BY <4>1, <4>2, <1>7
    <3> QED BY <3>1, <3>2, <3>3
  <2>5. Past(s, i) = Range(a) \cup {x} \cup Past(b, q)
    BY <2>3, <2>4 DEF Past
  <2>6. i - Len(a) - 1 = q
    BY <1>2, <2>1
  <2> QED BY <1>1, <1>4, <2>2, <2>5, <2>6
<1>12. i <= l \/ i = l + 1 \/ i > l + 1
  BY <1>8
<1> QED BY <1>9, <1>10, <1>11, <1>12

\* The first group is missing: its first event is looked for, then the others.
LEMMA SoundMissing ==
  ASSUME NEW groups \in Seq(Group), groups # <<>>, NEW known \in SUBSET Names, NEW rep \in Names,
         rep = Head(groups)[1], NEW inner, NEW after, NEW lower, NEW below,
         Fits(Groups(rep), known \cup {rep}, inner, lower),
         Fits(Tail(groups), inner.done, after, below),
         lower \subseteq below, rep \in below,
         \A e \in lower \cup {rep} : \A k \in DOMAIN Groups(e) : rep \notin Range(Groups(e)[k])
  PROVE  Fits(groups, known, [done |-> after.done, out |-> inner.out \o <<rep>> \o after.out], below)
<1>1. PICK ins \in Seq(Names) : ins = inner.out
  BY DEF Fits, Found
<1>2. PICK rest \in Seq(Names) : rest = after.out
  BY DEF Fits, Found
<1>7. PICK m : m = [done |-> after.done, out |-> ins \o <<rep>> \o rest]
  OBVIOUS
<1> DEFINE out == m.out
<1>3. out \in Seq(Names) /\ JoinOf(out, ins, rep, rest)
  <2>1. ins \o <<rep>> \o rest \in Seq(Names)
    BY One, Joined
  <2> QED BY <1>7, <2>1, JoinIs
<1> HIDE DEF out
<1>4. inner.done = known \cup {rep} \cup Range(ins)
  BY <1>1 DEF Fits
<1>5. after.done = known \cup {rep} \cup Range(ins) \cup Range(rest)
  BY <1>2, <1>4 DEF Fits
<1>6. Range(out) = Range(ins) \cup {rep} \cup Range(rest)
  <2>1. PICK l \in Nat : l = Len(ins) /\ DOMAIN ins = 1..l
    OBVIOUS
  <2>2. PICK r \in Nat : r = Len(rest) /\ DOMAIN rest = 1..r
    OBVIOUS
  <2>3. DOMAIN out = 1..(l + 1 + r)
    BY <1>3, <2>1, <2>2 DEF JoinOf
  <2>4. /\ \A j \in 1..l : out[j] = ins[j]
        /\ out[l + 1] = rep
        /\ \A j \in 1..r : out[l + 1 + j] = rest[j]
    BY <1>3, <2>1, <2>2 DEF JoinOf
  <2>5. ASSUME NEW i \in 1..(l + 1 + r) PROVE out[i] \in Range(ins) \cup {rep} \cup Range(rest)
    <3>1. CASE i <= l
      <4>1. i \in 1..l
        BY <3>1
      <4> QED BY <4>1, <2>1, <2>4 DEF Range
    <3>2. CASE i = l + 1
      BY <3>2, <2>4
    <3>3. CASE i > l + 1
      <4>1. PICK q \in 1..r : i = l + 1 + q
        <5>1. i - l - 1 \in 1..r /\ i = l + 1 + (i - l - 1)
          BY <3>3
        <5> QED BY <5>1
      <4>2. out[i] = rest[q]
        BY <4>1, <2>4
      <4> QED BY <4>2, <2>2 DEF Range
    <3> QED BY <3>1, <3>2, <3>3
  <2>6. Range(ins) \subseteq Range(out)
    <3>1. ASSUME NEW j \in 1..l PROVE j \in 1..(l + 1 + r)
      OBVIOUS
    <3> QED BY <3>1, <2>1, <2>3, <2>4 DEF Range
  <2>7. rep \in Range(out)
    <3>1. l + 1 \in 1..(l + 1 + r)
      OBVIOUS
    <3> QED BY <3>1, <2>3, <2>4 DEF Range
  <2>8. Range(rest) \subseteq Range(out)
    <3>1. ASSUME NEW j \in 1..r PROVE l + 1 + j \in 1..(l + 1 + r)
      OBVIOUS
    <3>2. ASSUME NEW j \in 1..r PROVE rest[j] \in Range(out)
      <4>1. out[l + 1 + j] = rest[j] /\ l + 1 + j \in DOMAIN out
        BY <3>1, <2>3, <2>4
      <4> QED BY <4>1 DEF Range
    <3> QED BY <3>2, <2>2 DEF Range
  <2> QED BY <2>3, <2>5, <2>6, <2>7, <2>8 DEF Range
<1>8. m.done = after.done /\ m.out = out
  BY <1>7 DEF out
<1>9. m \in Found
  BY <1>3, <1>7 DEF out, Fits, Found
<1>10. m.done = known \cup Range(m.out)
  BY <1>5, <1>6, <1>8
<1>11. ASSUME NEW k \in DOMAIN groups PROVE Met(groups[k], m.done)
  <2>1. CASE k = 1
    <3>1. groups[k] = Head(groups) /\ Head(groups) \in Group
      BY <2>1
    <3>2. rep \in Range(groups[k])
      <4>1. PICK g \in Seq(Names) : g = groups[k] /\ g # <<>>
        BY <3>1 DEF Group
      <4>2. 1 \in DOMAIN g
        BY <4>1
      <4> QED BY <3>1, <4>1, <4>2 DEF Range
    <3> QED BY <3>2, <1>5, <1>8 DEF Met
  <2>2. CASE k # 1
    <3>1. k - 1 \in DOMAIN Tail(groups) /\ Tail(groups)[k - 1] = groups[k]
      BY <2>2
    <3> QED BY <3>1, <1>8 DEF Fits
  <2> QED BY <2>1, <2>2
<1>14. \A i \in DOMAIN ins :
          /\ ins[i] \in lower
          /\ \A k \in DOMAIN Groups(ins[i]) :
                Met(Groups(ins[i])[k], (known \cup {rep}) \cup Past(ins, i))
  BY <1>1 DEF Fits
<1>15. \A i \in DOMAIN rest :
          /\ rest[i] \in below
          /\ \A k \in DOMAIN Groups(rest[i]) :
                Met(Groups(rest[i])[k], inner.done \cup Past(rest, i))
  BY <1>2 DEF Fits
<1>12. ASSUME NEW i \in DOMAIN out, NEW e, e = out[i]
       PROVE  /\ e \in below
              /\ \A k \in DOMAIN Groups(e) :
                    Met(Groups(e)[k], known \cup Past(out, i))
  <2> DEFINE past == Past(out, i)
  <2>1. CASE i \in DOMAIN ins /\ e = ins[i] /\ past = Past(ins, i)
    <3>1. e \in lower
      BY <1>14, <2>1
    <3>2. ASSUME NEW k \in DOMAIN Groups(e) PROVE Met(Groups(e)[k], known \cup past)
      <4>1. Met(Groups(e)[k], (known \cup {rep}) \cup past)
        BY <1>14, <2>1
      <4>2. rep \notin Range(Groups(e)[k])
        BY <3>1
      <4> QED BY <4>1, <4>2 DEF Met
    <3> QED BY <3>1, <3>2
  <2>2. CASE e = rep /\ past = Range(ins)
    <3>1. ASSUME NEW k \in DOMAIN Groups(e) PROVE Met(Groups(e)[k], known \cup past)
      <4>1. Met(Groups(e)[k], inner.done)
        BY <2>2 DEF Fits
      <4>2. rep \notin Range(Groups(e)[k])
        BY <2>2
      <4> QED BY <4>1, <4>2, <1>4, <2>2 DEF Met
    <3> QED BY <3>1, <2>2
  <2>3. CASE /\ i - Len(ins) - 1 \in DOMAIN rest /\ e = rest[i - Len(ins) - 1]
             /\ past = Range(ins) \cup {rep} \cup Past(rest, i - Len(ins) - 1)
    <3>1. PICK q \in DOMAIN rest : q = i - Len(ins) - 1
      BY <2>3
    <3>2. e = rest[q] /\ past = Range(ins) \cup {rep} \cup Past(rest, q)
      BY <2>3, <3>1
    <3>3. e \in below
      BY <1>15, <3>2
    <3>4. ASSUME NEW k \in DOMAIN Groups(e) PROVE Met(Groups(e)[k], known \cup past)
      <4>1. Met(Groups(e)[k], inner.done \cup Past(rest, q))
        BY <1>15, <3>2
      <4> QED BY <4>1, <3>2, <1>4 DEF Met
    <3> QED BY <3>3, <3>4
  <2> HIDE DEF past
  <2>4. \/ i \in DOMAIN ins /\ e = ins[i] /\ past = Past(ins, i)
        \/ e = rep /\ past = Range(ins)
        \/ /\ i - Len(ins) - 1 \in DOMAIN rest /\ e = rest[i - Len(ins) - 1]
           /\ past = Range(ins) \cup {rep} \cup Past(rest, i - Len(ins) - 1)
    <3>2. \/ /\ i \in DOMAIN ins /\ out[i] = ins[i]
             /\ Past(out, i) = Past(ins, i)
          \/ /\ i = Len(ins) + 1 /\ out[i] = rep
             /\ Past(out, i) = Range(ins)
          \/ /\ i - Len(ins) - 1 \in DOMAIN rest /\ out[i] = rest[i - Len(ins) - 1]
             /\ Past(out, i) =
                   Range(ins) \cup {rep} \cup Past(rest, i - Len(ins) - 1)
      <4>1. i \in DOMAIN out
        BY <1>12
      <4>2. JoinOf(out, ins, rep, rest)
        BY <1>3
      <4> QED BY <4>1, <4>2, Before
    <3> QED BY <3>2, <1>12 DEF past
  <2> QED BY <2>1, <2>2, <2>3, <2>4 DEF past
<1>16. \A i \in DOMAIN out :
          /\ out[i] \in below
          /\ \A k \in DOMAIN Groups(out[i]) :
                Met(Groups(out[i])[k], known \cup Past(out, i))
  BY <1>12
<1>13. Fits(groups, known, m, below)
  BY <1>8, <1>9, <1>10, <1>11, <1>16 DEF Fits, out
<1> QED BY <1>1, <1>2, <1>3, <1>7, <1>13

\* A visit of a list of groups, from the visits of its first event's groups and of the others.
LEMMA VisitsMore ==
  ASSUME NEW groups \in Seq(Group), groups # <<>>, NEW rep \in Names, rep = Head(groups)[1],
         NEW w \in Nat, NEW lower, NEW below,
         Visits(Groups(rep), w, lower), Visits(Tail(groups), w, below),
         lower \subseteq below, rep \in below,
         \A e \in lower \cup {rep} : \A k \in DOMAIN Groups(e) : rep \notin Range(Groups(e)[k])
  PROVE  Visits(groups, w + 1, below)
<1> SUFFICES ASSUME NEW n \in (w + 1)..Depth, NEW known \in SUBSET Names
             PROVE  Fits(groups, known, Missing[n][To(groups, known)], below)
  BY DEF Visits
<1>1. n \in 1..Depth /\ n - 1 \in w..Depth
  BY DEF Depth
<1>2. PICK f : f = Missing[n - 1]
  OBVIOUS
<1>3. Missing[n] = Deeper(f)
  BY <1>1, <1>2, MissingAt
<1>4. \A s \in SUBSET Names : /\ Fits(Groups(rep), s, f[To(Groups(rep), s)], lower)
                              /\ Fits(Tail(groups), s, f[To(Tail(groups), s)], below)
  BY <1>1, <1>2 DEF Visits
<1>5. PICK v \in Visit : v = To(groups, known)
  BY DEF To, Visit, Group
<1>6. v.groups = groups /\ v.done = known
  BY <1>5 DEF To
<1>7. PICK inner : inner = f[To(Groups(rep), known \cup {rep})]
  OBVIOUS
<1>8. PICK after : after = f[To(Tail(groups), inner.done)]
  OBVIOUS
<1>9. Fits(Groups(rep), known \cup {rep}, inner, lower)
  BY <1>4, <1>7
<1>10. inner.done \in SUBSET Names
  BY <1>9 DEF Fits, Found
<1>11. Fits(Tail(groups), inner.done, after, below)
  BY <1>4, <1>8, <1>10
<1>12. Deeper(f)[v] = IF Range(Head(groups)) \cap known # {} THEN f[To(Tail(groups), known)]
                      ELSE [done |-> after.done, out |-> inner.out \o <<rep>> \o after.out]
  BY <1>6, <1>7, <1>8 DEF Deeper
<1>13. CASE Range(Head(groups)) \cap known # {}
  <2>1. Fits(Tail(groups), known, f[To(Tail(groups), known)], below)
    BY <1>4
  <2>2. Fits(groups, known, f[To(Tail(groups), known)], below)
    BY <2>1, <1>13, SoundMet DEF Met
  <2> QED BY <2>2, <1>3, <1>5, <1>12, <1>13
<1>14. CASE ~ (Range(Head(groups)) \cap known # {})
  <2>1. Fits(groups, known, [done |-> after.done, out |-> inner.out \o <<rep>> \o after.out], below)
    BY <1>9, <1>11, SoundMissing
  <2> QED BY <2>1, <1>3, <1>5, <1>12, <1>14
<1> QED BY <1>13, <1>14

(* ---- the journey graph ---- *)
\* Sequences of one length with the same elements are equal.
LEMMA SeqEq ==
  ASSUME NEW S, NEW s \in Seq(S), NEW t \in Seq(S), Len(s) = Len(t), \A i \in 1..Len(s) : s[i] = t[i]
  PROVE  s = t
OBVIOUS
\* Two groups in a row.
LEMMA JoinTwo ==
  ASSUME NEW a, NEW b
  PROVE  <<a>> \o <<b>> = <<a, b>>
<1>1. PICK S : a \in S /\ b \in S
  <2>1. a \in {a, b} /\ b \in {a, b}
    OBVIOUS
  <2> QED BY <2>1
<1>2. PICK s : s = <<a>> \o <<b>>
  OBVIOUS
<1>3. PICK t : t = <<a, b>>
  OBVIOUS
<1>4. s \in Seq(S) /\ Len(s) = 2 /\ s[1] = a /\ s[2] = b
  BY <1>1, <1>2
<1>5. t \in Seq(S) /\ Len(t) = 2 /\ t[1] = a /\ t[2] = b
  BY <1>1, <1>3
<1>6. s = t
  <2>1. \A i \in 1..Len(s) : s[i] = t[i]
    BY <1>4, <1>5
  <2> QED BY <2>1, <1>4, <1>5, SeqEq
<1> QED BY <1>2, <1>3, <1>6
\* Three groups in a row.
LEMMA JoinThree ==
  ASSUME NEW a, NEW b, NEW c
  PROVE  <<a, b>> \o <<c>> = <<a, b, c>>
<1>1. PICK S : a \in S /\ b \in S /\ c \in S
  <2>1. a \in {a, b, c} /\ b \in {a, b, c} /\ c \in {a, b, c}
    OBVIOUS
  <2> QED BY <2>1
<1>2. PICK s : s = <<a, b>> \o <<c>>
  OBVIOUS
<1>3. PICK t : t = <<a, b, c>>
  OBVIOUS
<1>4. s \in Seq(S) /\ Len(s) = 3 /\ s[1] = a /\ s[2] = b /\ s[3] = c
  <2>1. <<a, b>> \in Seq(S) /\ <<c>> \in Seq(S)
    BY <1>1
  <2> QED BY <1>2, <2>1
<1>5. t \in Seq(S) /\ Len(t) = 3 /\ t[1] = a /\ t[2] = b /\ t[3] = c
  BY <1>1, <1>3
<1>6. s = t
  <2>1. \A i \in 1..Len(s) : s[i] = t[i]
    BY <1>4, <1>5
  <2> QED BY <2>1, <1>4, <1>5, SeqEq
<1> QED BY <1>2, <1>3, <1>6
\* An empty sequence adds nothing.
LEMMA JoinNone ==
  ASSUME NEW S, NEW s \in Seq(S)
  PROVE  s \o <<>> = s /\ <<>> \o s = s
OBVIOUS

KycEvents == {"kyc_completed", "applied", "approved"}
\* The groups of every event, by its kind.
LEMMA GroupsAre ==
  ASSUME NEW e \in Names
  PROVE  \/ e \in {"login", "register", "disbursed"} /\ Groups(e) = <<>>
         \/ /\ e \in Catalogue \ ((ProGated \ {"features", "crypto"}) \cup KycEvents \cup {"login", "register"})
            /\ Groups(e) = <<Entries>>
         \/ e \in KycEvents /\ Groups(e) = <<<<Funnel[e]>>, Entries>>
         \/ e = "unlocked" /\ Groups(e) = <<<<"features">>, Entries>>
         \/ e = "unlock_failed" /\ Groups(e) = <<<<"features">>, Entries, ProAccess>>
         \/ e \in {"feeds_failed", "insights_failed"} /\ Groups(e) = <<Entries, ProAccess, <<ViewOf[e]>>>>
         \/ /\ e \in ProGated \ {"features", "crypto", "unlocked", "unlock_failed", "feeds_failed", "insights_failed"}
            /\ Groups(e) = <<Entries, ProAccess>>
<1>1. Range(Entries) = {"login", "register"}
  BY DEF Range, Entries
<1>2. Range(ProAccess) = {"features", "unlocked", "crypto"}
  BY DEF Range, ProAccess
<1>3. DOMAIN Funnel = {"kyc_completed", "applied", "approved", "unlocked", "unlock_failed"}
      /\ Funnel["unlocked"] = "features" /\ Funnel["unlock_failed"] = "features"
  BY DEF Funnel
<1>4. DOMAIN ViewOf = {"feeds_failed", "insights_failed"}
  BY DEF ViewOf
<1>5. e \in Catalogue \cup {"disbursed"} /\ "disbursed" \notin Catalogue
  BY <1>1 DEF Names, Catalogue, ProGated
<1>6. CASE e \notin Catalogue \/ e \in {"login", "register"}
  <2>1. e \in {"login", "register", "disbursed"}
    BY <1>5, <1>6
  <2>2. Only(Funnel, e) = <<>>
    BY <2>1, <1>3 DEF Only
  <2>3. ContextGroups(e) = <<>>
    BY <1>1, <1>6 DEF ContextGroups
  <2> QED BY <2>1, <2>2, <2>3 DEF Groups
<1>7. CASE e \in Catalogue /\ e \notin {"login", "register"}
  <2>1. ContextGroups(e) = <<Entries>>
                           \o (IF e \in ProGated /\ e \notin Range(ProAccess) THEN <<ProAccess>> ELSE <<>>)
                           \o Only(ViewOf, e)
    BY <1>1, <1>7 DEF ContextGroups
  <2>2. CASE e \in {"feeds_failed", "insights_failed"}
    <3>1. e \in ProGated /\ e \notin Range(ProAccess) /\ e \notin DOMAIN Funnel
      BY <2>2, <1>2, <1>3 DEF ProGated
    <3>2. Only(Funnel, e) = <<>> /\ Only(ViewOf, e) = <<<<ViewOf[e]>>>>
      BY <2>2, <3>1, <1>4 DEF Only
    <3>3. ContextGroups(e) = <<Entries>> \o <<ProAccess>> \o <<<<ViewOf[e]>>>>
      BY <2>1, <3>1, <3>2
    <3>4. ContextGroups(e) = <<Entries, ProAccess, <<ViewOf[e]>>>>
      BY <3>3, JoinTwo, JoinThree
    <3>5. Groups(e) = <<>> \o <<Entries, ProAccess, <<ViewOf[e]>>>>
      BY <3>2, <3>4 DEF Groups
    <3> QED BY <2>2, <3>5
  <2>3. CASE e \notin {"feeds_failed", "insights_failed"}
    <3>1. Only(ViewOf, e) = <<>>
      BY <2>3, <1>4 DEF Only
    <3>2. CASE e \in ProGated /\ e \notin Range(ProAccess)
      <4>1. ContextGroups(e) = <<Entries, ProAccess>>
        <5>1. ContextGroups(e) = <<Entries>> \o <<ProAccess>> \o <<>>
          BY <2>1, <3>1, <3>2
        <5>2. <<Entries>> \o <<ProAccess>> = <<Entries, ProAccess>>
          BY JoinTwo
        <5>3. <<Entries, ProAccess>> \in Seq({Entries, ProAccess})
          OBVIOUS
        <5> QED BY <5>1, <5>2, <5>3, JoinNone
      <4>2. CASE e = "unlock_failed"
        <5>1. Only(Funnel, e) = <<<<"features">>>>
          BY <4>2, <1>3 DEF Only
        <5>2. Groups(e) = <<<<"features">>>> \o <<Entries, ProAccess>>
          BY <4>1, <5>1 DEF Groups
        <5> QED BY <4>2, <5>2
      <4>3. CASE e # "unlock_failed"
        <5>1. e \notin DOMAIN Funnel
          BY <4>3, <3>2, <1>2, <1>3 DEF ProGated
        <5>2. Groups(e) = <<>> \o <<Entries, ProAccess>>
          BY <4>1, <5>1 DEF Groups, Only
        <5>3. e \in ProGated \ {"features", "crypto", "unlocked", "unlock_failed", "feeds_failed", "insights_failed"}
          BY <2>3, <3>2, <4>3, <1>2
        <5> QED BY <5>2, <5>3
      <4> QED BY <4>2, <4>3
    <3>3. CASE ~ (e \in ProGated /\ e \notin Range(ProAccess))
      <4>1. ContextGroups(e) = <<Entries>>
        <5>1. ContextGroups(e) = <<Entries>> \o <<>> \o <<>>
          BY <2>1, <3>1, <3>3
        <5> QED BY <5>1
      <4>2. CASE e = "unlocked"
        <5>1. Only(Funnel, e) = <<<<"features">>>>
          BY <4>2, <1>3 DEF Only
        <5>2. Groups(e) = <<<<"features">>>> \o <<Entries>>
          BY <4>1, <5>1 DEF Groups
        <5> QED BY <4>2, <5>2
      <4>3. CASE e \in KycEvents
        <5>1. Only(Funnel, e) = <<<<Funnel[e]>>>>
          BY <4>3, <1>3 DEF Only, KycEvents
        <5>2. Groups(e) = <<<<Funnel[e]>>>> \o <<Entries>>
          BY <4>1, <5>1 DEF Groups
        <5>3. Groups(e) = <<<<Funnel[e]>>, Entries>>
          BY <5>2, JoinTwo
        <5> QED BY <4>3, <5>3
      <4>4. CASE e # "unlocked" /\ e \notin KycEvents
        <5>1. e # "unlock_failed"
          BY <3>3, <1>2 DEF ProGated
        <5>2. e \notin DOMAIN Funnel
          BY <4>4, <5>1, <1>3 DEF KycEvents
        <5>3. Groups(e) = <<>> \o <<Entries>>
          BY <4>1, <5>2 DEF Groups, Only
        <5>4. e \notin (ProGated \ {"features", "crypto"})
          BY <3>3, <4>4, <1>2
        <5> QED BY <5>3, <5>4, <4>4, <1>7
      <4> QED BY <4>2, <4>3, <4>4
    <3> QED BY <3>2, <3>3
  <2> QED BY <2>2, <2>3
<1> QED BY <1>5, <1>6, <1>7

Starts == {"login"}
KycSide == {"kyc_started", "kyc_completed", "applied"}
ProSide == {"features", "unlocked", "crypto", "feeds", "insights"}
\* The events, the entry aside, that an event may wait for.
Upto(e) == IF e \in KycEvents THEN KycSide
           ELSE IF e \in ProGated \ {"features", "crypto"} THEN ProSide ELSE {}

\* The groups of the events a back-fill may add, and of the two kinds of failure.
LEMMA Shapes ==
  /\ Groups("login") = <<>> /\ Groups("kyc_started") = <<Entries>> /\ Groups("features") = <<Entries>>
  /\ Groups("kyc_completed") = <<<<"kyc_started">>, Entries>>
  /\ Groups("applied") = <<<<"kyc_completed">>, Entries>>
  /\ Groups("approved") = <<<<"applied">>, Entries>>
  /\ Groups("feeds") = <<Entries, ProAccess>> /\ Groups("insights") = <<Entries, ProAccess>>
<1>1. ASSUME NEW e \in {"login", "kyc_started", "kyc_completed", "applied", "approved",
                           "features", "feeds", "insights"}
      PROVE  e \in Names /\ e \in Catalogue
  BY <1>1 DEF Names, Catalogue, ProGated, Range, Entries
<1>2. Groups("login") = <<>>
  BY <1>1, GroupsAre DEF ProGated, KycEvents
<1>3. Groups("kyc_started") = <<Entries>> /\ Groups("features") = <<Entries>>
  BY <1>1, GroupsAre DEF ProGated, KycEvents
<1>4. ASSUME NEW e \in KycEvents PROVE Groups(e) = <<<<Funnel[e]>>, Entries>>
  BY <1>1, <1>4, GroupsAre DEF ProGated, KycEvents
<1>5. Funnel["kyc_completed"] = "kyc_started" /\ Funnel["applied"] = "kyc_completed" /\ Funnel["approved"] = "applied"
  BY DEF Funnel
<1>6. Groups("feeds") = <<Entries, ProAccess>> /\ Groups("insights") = <<Entries, ProAccess>>
  BY <1>1, GroupsAre DEF ProGated, KycEvents
<1> QED BY <1>2, <1>3, <1>4, <1>5, <1>6 DEF KycEvents

\* A visit of a list of one, two or three groups, from those of the first events' own groups.
LEMMA VisitsPart ==
  ASSUME NEW g \in Group, NEW rest \in Seq(Group), NEW rep \in Names, rep = g[1],
         NEW w \in Nat, NEW u \in 0..w, NEW v \in 0..w, NEW lower, NEW below,
         Visits(Groups(rep), u, lower), Visits(rest, v, below), lower \subseteq below, rep \in below,
         \A e \in lower \cup {rep} : \A k \in DOMAIN Groups(e) : rep \notin Range(Groups(e)[k])
  PROVE  Visits(<<g>> \o rest, w + 1, below)
<1>1. PICK groups : groups = <<g>> \o rest
  OBVIOUS
<1>2. groups \in Seq(Group) /\ groups # <<>> /\ Head(groups) = g /\ Tail(groups) = rest
  BY <1>1
<1>3. Visits(Groups(rep), w, lower) /\ Visits(rest, w, below)
  BY DEF Visits
<1> QED BY <1>1, <1>2, <1>3, VisitsMore

Waits(e) == UNION {Range(Groups(e)[k]) : k \in DOMAIN Groups(e)}
\* What each of them waits for.
LEMMA WaitsFor ==
  /\ Waits("login") = {} /\ Waits("kyc_started") \subseteq {"login", "register"}
  /\ Waits("features") \subseteq {"login", "register"}
  /\ Waits("kyc_completed") \subseteq {"kyc_started", "login", "register"}
  /\ Waits("applied") \subseteq {"kyc_completed", "login", "register"}
  /\ \A e \in {"feeds", "insights"} : Waits(e) \subseteq {"features", "unlocked", "crypto", "login", "register"}
<1>1. Range(Entries) = {"login", "register"} /\ Range(ProAccess) = {"features", "unlocked", "crypto"}
  BY DEF Range, Entries, ProAccess
<1>2. ASSUME NEW a PROVE Range(<<a>>) = {a}
  BY DEF Range
<1>3. ASSUME NEW gs, NEW a, NEW b, gs = <<a, b>> PROVE DOMAIN gs = {1, 2} /\ gs[1] = a /\ gs[2] = b
  BY <1>3
<1>4. Waits("login") = {}
  BY Shapes DEF Waits
<1>5. ASSUME NEW e \in {"kyc_started", "features"} PROVE Waits(e) \subseteq {"login", "register"}
  <2>1. Groups(e) = <<Entries>>
    BY Shapes
  <2>2. DOMAIN <<Entries>> = {1} /\ <<Entries>>[1] = Entries
    OBVIOUS
  <2> QED BY <2>1, <2>2, <1>1 DEF Waits
<1>6. ASSUME NEW e, NEW x, Groups(e) = <<<<x>>, Entries>> PROVE Waits(e) \subseteq {x, "login", "register"}
  <2>1. DOMAIN Groups(e) = {1, 2} /\ Groups(e)[1] = <<x>> /\ Groups(e)[2] = Entries
    BY <1>6, <1>3
  <2> QED BY <2>1, <1>1, <1>2 DEF Waits
<1>7. ASSUME NEW e \in {"feeds", "insights"}
      PROVE  Waits(e) \subseteq {"features", "unlocked", "crypto", "login", "register"}
  <2>1. Groups(e) = <<Entries, ProAccess>>
    BY Shapes
  <2>2. DOMAIN Groups(e) = {1, 2} /\ Groups(e)[1] = Entries /\ Groups(e)[2] = ProAccess
    BY <2>1, <1>3
  <2> QED BY <2>2, <1>1 DEF Waits
<1> QED BY <1>4, <1>5, <1>6, <1>7, Shapes

\* The group of entries is stood for by the login, the ways into the pro features by the features page, any other by itself.
LEMMA Reps ==
  /\ Entries \in Group /\ Entries[1] = "login" /\ ProAccess \in Group /\ ProAccess[1] = "features"
  /\ \A x \in Names : <<x>> \in Group /\ <<x>>[1] = x
  /\ {"login", "register", "kyc_started", "kyc_completed", "applied", "approved",
       "features", "unlocked", "crypto", "feeds", "insights"} \subseteq Names
<1>1. {"login", "register", "kyc_started", "kyc_completed", "applied", "approved",
       "features", "unlocked", "crypto", "feeds", "insights"} \subseteq Names
  BY DEF Names, Catalogue, ProGated, Range, Entries
<1>2. Entries \in Seq(Names) /\ ProAccess \in Seq(Names)
  BY <1>1 DEF Entries, ProAccess
<1>3. Entries # <<>> /\ ProAccess # <<>> /\ Entries[1] = "login" /\ ProAccess[1] = "features"
  BY DEF Entries, ProAccess
<1>4. ASSUME NEW x \in Names PROVE <<x>> \in Group /\ <<x>>[1] = x
  <2>1. <<x>> \in Seq(Names) /\ <<x>> # <<>>
    BY One
  <2> QED BY <2>1 DEF Group
<1> QED BY <1>1, <1>2, <1>3, <1>4 DEF Group

\* The groups put before others, one at a time.
LEMMA Apart ==
  ASSUME NEW lower, NEW rep, \A e \in lower \cup {rep} : rep \notin Waits(e)
  PROVE  \A e \in lower \cup {rep} : \A k \in DOMAIN Groups(e) : rep \notin Range(Groups(e)[k])
BY DEF Waits

\* A visit that begins with the entry needs one level for it.
LEMMA EntryVisits ==
  ASSUME NEW below, "login" \in below, NEW rest \in Seq(Group), NEW w \in Nat, Visits(rest, w, below)
  PROVE  Visits(<<Entries>> \o rest, w + 1, below)
<1>1. PICK lower : lower = {}
  OBVIOUS
<1>2. Visits(Groups("login"), 0, lower)
  BY Shapes, VisitsNone
<1>3. \A e \in lower \cup {"login"} : \A k \in DOMAIN Groups(e) : "login" \notin Range(Groups(e)[k])
  <2>1. \A e \in lower \cup {"login"} : "login" \notin Waits(e)
    BY <1>1, WaitsFor
  <2> QED BY <2>1, Apart
<1>4. /\ lower \subseteq below /\ 0 \in 0..w /\ w \in 0..w /\ "login" \in Names
      /\ Entries \in Group /\ "login" = Entries[1]
  BY <1>1, Reps
<1> QED BY <1>2, <1>3, <1>4, VisitsPart

\* The entry alone.
LEMMA EntryVisit ==
  ASSUME NEW below, "login" \in below
  PROVE  Visits(<<Entries>>, 1, below)
<1>1. Visits(<<>>, 0, below) /\ <<>> \in Seq(Group)
  BY VisitsNone
<1>2. Visits(<<Entries>> \o <<>>, 0 + 1, below)
  BY <1>1, EntryVisits
<1>3. <<Entries>> \o <<>> = <<Entries>>
  BY Reps, One, JoinNone
<1> QED BY <1>2, <1>3

\* The events of the loan funnel.
LEMMA KycVisit ==
  ASSUME NEW below, {"login", "kyc_started"} \subseteq below
  PROVE  Visits(<<<<"kyc_started">>, Entries>>, 2, below)
<1>1. Visits(Groups("kyc_started"), 1, {"login"})
  BY Shapes, EntryVisit
<1>2. Visits(<<Entries>>, 1, below)
  BY EntryVisit
<1>3. \A e \in {"login"} \cup {"kyc_started"} : \A k \in DOMAIN Groups(e) : "kyc_started" \notin Range(Groups(e)[k])
  <2>1. \A e \in {"login"} \cup {"kyc_started"} : "kyc_started" \notin Waits(e)
    BY WaitsFor
  <2> QED BY <2>1, Apart
<1>4. Visits(<<<<"kyc_started">>>> \o <<Entries>>, 1 + 1, below)
  <2>1. "kyc_started" \in Names /\ <<"kyc_started">> \in Group /\ <<"kyc_started">>[1] = "kyc_started"
        /\ <<Entries>> \in Seq(Group) /\ 1 \in 0..1 /\ 1 \in Nat
        /\ {"login"} \subseteq below /\ "kyc_started" \in below
    BY Reps, One
  <2> QED BY <2>1, <1>1, <1>2, <1>3, VisitsPart
<1>5. <<<<"kyc_started">>>> \o <<Entries>> = <<<<"kyc_started">>, Entries>>
  BY JoinTwo
<1>6. 1 + 1 = 2
  OBVIOUS
<1> QED BY <1>4, <1>5, <1>6, Zenon

\* An application waits for KYC, which waits for its start.
LEMMA AppliedVisit ==
  ASSUME NEW below, {"login", "kyc_started", "kyc_completed"} \subseteq below
  PROVE  Visits(<<<<"kyc_completed">>, Entries>>, 3, below)
<1>1. Visits(Groups("kyc_completed"), 2, {"login", "kyc_started"})
  BY Shapes, KycVisit
<1>2. Visits(<<Entries>>, 1, below)
  BY EntryVisit
<1>3. \A e \in {"login", "kyc_started"} \cup {"kyc_completed"} :
         \A k \in DOMAIN Groups(e) : "kyc_completed" \notin Range(Groups(e)[k])
  <2>1. \A e \in {"login", "kyc_started"} \cup {"kyc_completed"} : "kyc_completed" \notin Waits(e)
    BY WaitsFor
  <2> QED BY <2>1, Apart
<1>4. Visits(<<<<"kyc_completed">>>> \o <<Entries>>, 2 + 1, below)
  <2>1. "kyc_completed" \in Names /\ <<"kyc_completed">> \in Group /\ <<"kyc_completed">>[1] = "kyc_completed"
        /\ <<Entries>> \in Seq(Group) /\ 1 \in 0..2 /\ 2 \in 0..2 /\ 2 \in Nat
        /\ {"login", "kyc_started"} \subseteq below /\ "kyc_completed" \in below
    BY Reps, One
  <2> QED BY <2>1, <1>1, <1>2, <1>3, VisitsPart
<1>5. <<<<"kyc_completed">>>> \o <<Entries>> = <<<<"kyc_completed">>, Entries>>
  BY JoinTwo
<1>6. 2 + 1 = 3
  OBVIOUS
<1> QED BY <1>4, <1>5, <1>6, Zenon

\* An approval waits for an application.
LEMMA ApprovedVisit ==
  ASSUME NEW below, {"login", "kyc_started", "kyc_completed", "applied"} \subseteq below
  PROVE  Visits(<<<<"applied">>, Entries>>, 4, below)
<1>1. Visits(Groups("applied"), 3, {"login", "kyc_started", "kyc_completed"})
  BY Shapes, AppliedVisit
<1>2. Visits(<<Entries>>, 1, below)
  BY EntryVisit
<1>3. \A e \in {"login", "kyc_started", "kyc_completed"} \cup {"applied"} :
         \A k \in DOMAIN Groups(e) : "applied" \notin Range(Groups(e)[k])
  <2>1. \A e \in {"login", "kyc_started", "kyc_completed"} \cup {"applied"} : "applied" \notin Waits(e)
    BY WaitsFor
  <2> QED BY <2>1, Apart
<1>4. Visits(<<<<"applied">>>> \o <<Entries>>, 3 + 1, below)
  <2>1. "applied" \in Names /\ <<"applied">> \in Group /\ <<"applied">>[1] = "applied"
        /\ <<Entries>> \in Seq(Group) /\ 1 \in 0..3 /\ 3 \in 0..3 /\ 3 \in Nat
        /\ {"login", "kyc_started", "kyc_completed"} \subseteq below /\ "applied" \in below
    BY Reps, One
  <2> QED BY <2>1, <1>1, <1>2, <1>3, VisitsPart
<1>5. <<<<"applied">>>> \o <<Entries>> = <<<<"applied">>, Entries>>
  BY JoinTwo
<1>6. 3 + 1 = 4
  OBVIOUS
<1> QED BY <1>4, <1>5, <1>6, Zenon

\* The pro features.
LEMMA AccessVisits ==
  ASSUME NEW below, {"login", "features"} \subseteq below, NEW group \in Group, group[1] = "features",
         NEW rest \in Seq(Group), NEW w \in Nat \ {0}, Visits(rest, w, below)
  PROVE  Visits(<<group>> \o rest, w + 1, below)
<1>1. Visits(Groups("features"), 1, {"login"})
  BY Shapes, EntryVisit
<1>2. \A e \in {"login"} \cup {"features"} : \A k \in DOMAIN Groups(e) : "features" \notin Range(Groups(e)[k])
  <2>1. \A e \in {"login"} \cup {"features"} : "features" \notin Waits(e)
    BY WaitsFor
  <2> QED BY <2>1, Apart
<1>3. "features" \in Names /\ 1 \in 0..w /\ w \in 0..w
      /\ w \in Nat /\ {"login"} \subseteq below /\ "features" \in below
  BY Reps
<1> QED BY <1>1, <1>2, <1>3, VisitsPart

\* What one depth suffices for, a greater depth does too.
LEMMA VisitsLater ==
  ASSUME NEW groups, NEW w \in Nat, NEW v \in Nat, v <= w, NEW below, Visits(groups, v, below)
  PROVE  Visits(groups, w, below)
<1>1. \A n \in w..Depth : n \in v..Depth
  BY DEF Depth
<1> QED BY <1>1 DEF Visits

\* The entry and a way into the pro features need two levels.
LEMMA ProVisit ==
  ASSUME NEW below, {"login", "features"} \subseteq below, NEW rest \in Seq(Group), NEW w \in Nat \ {0},
         Visits(rest, w, below)
  PROVE  Visits(<<Entries>> \o (<<ProAccess>> \o rest), w + 2, below)
<1>1. Visits(<<ProAccess>> \o rest, w + 1, below)
  BY Reps, AccessVisits
<1>2. <<ProAccess>> \o rest \in Seq(Group) /\ w + 1 \in Nat /\ "login" \in below
  BY Reps, One, Joined
<1>3. Visits(<<Entries>> \o (<<ProAccess>> \o rest), (w + 1) + 1, below)
  BY <1>1, <1>2, EntryVisits
<1>4. (w + 1) + 1 = w + 2
  OBVIOUS
<1> QED BY <1>3, <1>4

\* One group before two others.
LEMMA JoinFront ==
  ASSUME NEW a, NEW b, NEW c
  PROVE  <<a>> \o <<b, c>> = <<a, b, c>>
<1>1. PICK S : a \in S /\ b \in S /\ c \in S
  <2>1. a \in {a, b, c} /\ b \in {a, b, c} /\ c \in {a, b, c}
    OBVIOUS
  <2> QED BY <2>1
<1>2. PICK s : s = <<a>> \o <<b, c>>
  OBVIOUS
<1>3. PICK t : t = <<a, b, c>>
  OBVIOUS
<1>4. s \in Seq(S) /\ Len(s) = 3 /\ s[1] = a /\ s[2] = b /\ s[3] = c
  <2>1. <<a>> \in Seq(S) /\ <<b, c>> \in Seq(S)
    BY <1>1
  <2> QED BY <1>2, <2>1
<1>5. t \in Seq(S) /\ Len(t) = 3 /\ t[1] = a /\ t[2] = b /\ t[3] = c
  BY <1>1, <1>3
<1>6. s = t
  <2>1. \A i \in 1..Len(s) : s[i] = t[i]
    BY <1>4, <1>5
  <2> QED BY <2>1, <1>4, <1>5, SeqEq
<1> QED BY <1>2, <1>3, <1>6

\* A pro feature waits for the entry and a way in.
LEMMA GatedVisit ==
  ASSUME NEW below, {"login", "features"} \subseteq below
  PROVE  Visits(<<Entries, ProAccess>>, 3, below)
<1>1. Visits(<<>>, 1, below) /\ <<>> \in Seq(Group)
  <2>1. Visits(<<>>, 0, below)
    BY VisitsNone
  <2> QED BY <2>1, VisitsLater
<1>6. 1 \in Nat \ {0} /\ {"login", "features"} \subseteq below
  OBVIOUS
<1>2. Visits(<<Entries>> \o (<<ProAccess>> \o <<>>), 1 + 2, below)
  BY <1>1, <1>6, ProVisit
<1>3. <<ProAccess>> \o <<>> = <<ProAccess>>
  BY Reps, One, JoinNone
<1>4. <<Entries>> \o <<ProAccess>> = <<Entries, ProAccess>>
  BY JoinTwo
<1>5. 1 + 2 = 3
  OBVIOUS
<1> QED BY <1>2, <1>3, <1>4, <1>5, Zenon

\* The view of a feature, as a group of its own.
LEMMA FeatureVisit ==
  ASSUME NEW x \in {"feeds", "insights"}, NEW below, {"login", "features", x} \subseteq below
  PROVE  Visits(<<<<x>>>>, 4, below)
<1>1. Visits(Groups(x), 3, {"login", "features"})
  <2>1. Groups(x) = <<Entries, ProAccess>>
    BY Shapes
  <2>2. Visits(<<Entries, ProAccess>>, 3, {"login", "features"})
    BY GatedVisit
  <2> QED BY <2>1, <2>2
<1>2. Visits(<<>>, 0, below) /\ <<>> \in Seq(Group)
  BY VisitsNone
<1>3. \A e \in {"login", "features"} \cup {x} : \A k \in DOMAIN Groups(e) : x \notin Range(Groups(e)[k])
  <2>1. \A e \in {"login", "features"} \cup {x} : x \notin Waits(e)
    BY WaitsFor
  <2> QED BY <2>1, Apart
<1>4. Visits(<<<<x>>>> \o <<>>, 3 + 1, below)
  <2>1. PICK lower : lower = {"login", "features"}
    OBVIOUS
  <2>2. PICK g \in Group : g = <<x>> /\ x = g[1]
    BY Reps
  <2>3. x \in Names /\ 0 \in 0..3 /\ 3 \in 0..3 /\ 3 \in Nat /\ lower \subseteq below /\ x \in below
    BY <2>1, Reps
  <2>4. Visits(Groups(x), 3, lower)
        /\ \A e \in lower \cup {x} : \A k \in DOMAIN Groups(e) : x \notin Range(Groups(e)[k])
    BY <2>1, <1>1, <1>3
  <2>5. Visits(<<g>> \o <<>>, 3 + 1, below)
    BY <2>2, <2>3, <2>4, <1>2, VisitsPart
  <2> QED BY <2>2, <2>5
<1>5. <<<<x>>>> \o <<>> = <<<<x>>>>
  <2>1. <<<<x>>>> \in Seq(Group)
    BY Reps, One
  <2> QED BY <2>1, JoinNone
<1>6. 3 + 1 = 4
  OBVIOUS
<1> QED BY <1>4, <1>5, <1>6, Zenon

\* The failure of a feature waits for its view: the deepest visit of all.
LEMMA FailedVisit ==
  ASSUME NEW x \in {"feeds", "insights"}, NEW below, {"login", "features", x} \subseteq below
  PROVE  Visits(<<Entries, ProAccess, <<x>>>>, 6, below)
<1>1. Visits(<<<<x>>>>, 4, below) /\ <<<<x>>>> \in Seq(Group)
  BY FeatureVisit, Reps, One
<1>2. {"login", "features"} \subseteq below
  OBVIOUS
<1>3. 4 \in Nat \ {0}
  OBVIOUS
<1>4. Visits(<<Entries>> \o (<<ProAccess>> \o <<<<x>>>>), 4 + 2, below)
  BY <1>1, <1>2, <1>3, ProVisit
<1>5. <<ProAccess>> \o <<<<x>>>> = <<ProAccess, <<x>>>>
  BY JoinTwo
<1>6. <<Entries>> \o <<ProAccess, <<x>>>> = <<Entries, ProAccess, <<x>>>>
  BY JoinFront
<1>7. 4 + 2 = 6
  OBVIOUS
<1> QED BY <1>4, <1>5, <1>6, <1>7, Zenon

\* Unlocking a feature waits for the features page.
LEMMA UnlockVisits ==
  ASSUME NEW below, {"login", "features"} \subseteq below
  PROVE  /\ Visits(<<<<"features">>, Entries>>, 2, below)
         /\ Visits(<<<<"features">>, Entries, ProAccess>>, 4, below)
<1>1. <<"features">> \in Group /\ <<"features">>[1] = "features"
  BY Reps
<1>2. Visits(<<Entries>>, 1, below) /\ <<Entries>> \in Seq(Group)
  BY EntryVisit, Reps, One
<1>3. Visits(<<Entries, ProAccess>>, 3, below) /\ <<Entries, ProAccess>> \in Seq(Group)
  BY GatedVisit, Reps
<1>4. 1 \in Nat \ {0} /\ 3 \in Nat \ {0}
  OBVIOUS
<1>5. Visits(<<<<"features">>>> \o <<Entries>>, 1 + 1, below)
  BY <1>1, <1>2, <1>4, AccessVisits
<1>6. Visits(<<<<"features">>>> \o <<Entries, ProAccess>>, 3 + 1, below)
  BY <1>1, <1>3, <1>4, AccessVisits
<1>7. <<<<"features">>>> \o <<Entries>> = <<<<"features">>, Entries>>
  BY JoinTwo
<1>8. <<<<"features">>>> \o <<Entries, ProAccess>> = <<<<"features">>, Entries, ProAccess>>
  BY JoinFront
<1>9. 1 + 1 = 2 /\ 3 + 1 = 4
  OBVIOUS
<1> QED BY <1>5, <1>6, <1>7, <1>8, <1>9, Zenon

\* What is missing before an event, in the order it is emitted: each of its groups is then
\* met, and so are the groups of whatever was filled in, by what came before.
LEMMA VisitIsSound ==
  ASSUME NEW e \in Names, NEW known \in SUBSET Names
  PROVE  Fits(Groups(e), known, Missing[Depth][To(Groups(e), known)], Starts \cup Upto(e))
<1> DEFINE below == Starts \cup Upto(e)
<1>1. SUFFICES \E w \in 0..Depth : Visits(Groups(e), w, below)
  BY DEF Visits, Depth
<1>2. 0 \in 0..Depth /\ 1 \in 0..Depth /\ 2 \in 0..Depth /\ 3 \in 0..Depth /\ 4 \in 0..Depth /\ 6 \in 0..Depth
  BY DEF Depth
<1>3. "login" \in below
  BY DEF Starts
<1>4. ASSUME e \in ProGated \ {"features", "crypto"}
      PROVE  {"login", "features", "feeds", "insights"} \subseteq below
  <2>1. e \notin KycEvents
    BY <1>4 DEF ProGated, KycEvents
  <2> QED BY <1>4, <2>1 DEF Upto, Starts, ProSide
<1>5. ASSUME e \in KycEvents PROVE {"login", "kyc_started", "kyc_completed", "applied"} \subseteq below
  BY <1>5 DEF Upto, Starts, KycSide
<1> HIDE DEF below
<1>6. CASE Groups(e) = <<>>
  BY <1>2, <1>6, VisitsNone
<1>7. CASE Groups(e) = <<Entries>>
  BY <1>2, <1>3, <1>7, EntryVisit
<1>8. CASE e \in KycEvents
  <2>1. CASE e = "kyc_completed"
    BY <2>1, <1>2, <1>5, <1>8, Shapes, KycVisit
  <2>2. CASE e = "applied"
    BY <2>2, <1>2, <1>5, <1>8, Shapes, AppliedVisit
  <2>3. CASE e = "approved"
    BY <2>3, <1>2, <1>5, <1>8, Shapes, ApprovedVisit
  <2> QED BY <1>8, <2>1, <2>2, <2>3 DEF KycEvents
<1>9. ASSUME e = "unlocked" \/ e = "unlock_failed" PROVE {"login", "features"} \subseteq below
  BY <1>4, <1>9 DEF ProGated
<1>10. CASE e = "unlocked" /\ Groups(e) = <<<<"features">>, Entries>>
  BY <1>2, <1>9, <1>10, UnlockVisits
<1>11. CASE e = "unlock_failed" /\ Groups(e) = <<<<"features">>, Entries, ProAccess>>
  BY <1>2, <1>9, <1>11, UnlockVisits
<1>12. CASE e \in {"feeds_failed", "insights_failed"} /\ Groups(e) = <<Entries, ProAccess, <<ViewOf[e]>>>>
  <2>1. PICK x \in {"feeds", "insights"} : x = ViewOf[e]
    BY <1>12 DEF ViewOf
  <2>2. {"login", "features", x} \subseteq below
    BY <1>4, <1>12 DEF ProGated
  <2>3. Visits(<<Entries, ProAccess, <<x>>>>, 6, below)
    BY <2>2, FailedVisit
  <2> QED BY <2>1, <2>3, <1>2, <1>12
<1>13. CASE e \in ProGated \ {"features", "crypto"} /\ Groups(e) = <<Entries, ProAccess>>
  <2>1. Visits(<<Entries, ProAccess>>, 3, below)
    BY <1>4, <1>13, GatedVisit
  <2> QED BY <2>1, <1>2, <1>13
<1> QED BY <1>6, <1>7, <1>8, <1>10, <1>11, <1>12, <1>13, GroupsAre

\* What simEmit fills in before an event.
Filled(e, known, fill) ==
  /\ fill \in Seq(Starts \cup Upto(e))
  /\ \A k \in DOMAIN Groups(e) : Met(Groups(e)[k], known \cup Range(fill))
  /\ \A i \in DOMAIN fill : \A k \in DOMAIN Groups(fill[i]) : Met(Groups(fill[i])[k], known \cup Past(fill, i))

\* The back-fill of every event of the catalogue is complete, in order, and nothing when the operator released it.
LEMMA BackfillFills ==
  ASSUME NEW e \in Names, NEW known \in SUBSET Names
  PROVE  /\ e \in Relaxed => Backfill(e, known) = <<>>
         /\ e \notin Relaxed => Filled(e, known, Backfill(e, known))
<1>1. PICK m : m = Missing[Depth][To(Groups(e), known)]
  OBVIOUS
<1>2. Fits(Groups(e), known, m, Starts \cup Upto(e))
  BY <1>1, VisitIsSound
<1>3. Filled(e, known, m.out)
  <2>1. m.out \in Seq(Starts \cup Upto(e))
    <3>1. m.out \in Seq(Names)
      BY <1>2 DEF Fits, Found
    <3>2. \A i \in DOMAIN m.out : m.out[i] \in Starts \cup Upto(e)
      BY <1>2 DEF Fits
    <3> QED BY <3>1, <3>2
  <2> QED BY <2>1, <1>2 DEF Fits, Filled
<1> QED BY <1>1, <1>3 DEF Backfill

(* ---- what a script emits ---- *)
\* The names emitted before a place.
Told(ps, i) == {ps[j][1] : j \in 1..(i - 1)}
\* The gate of one event: its groups are met by what is known, in time or by the entry.
EarnedAt(e, at, known, stamps) ==
  \A k \in DOMAIN Groups(e) :
     /\ Met(Groups(e)[k], known)
     /\ \E m \in Range(Groups(e)[k]) \cap DOMAIN stamps : m \in Range(Entries) \/ stamps[m] <= at
Reach(es) == es \cup Starts \cup UNION {Upto(e) : e \in es}
\* A runtime in the middle of a script of these events, the last of them at this time.
Going(rt, done, es, last) ==
  /\ rt.pushed \in Seq(Names \X Int)
  /\ DOMAIN rt.emitted \subseteq Names
  /\ DOMAIN rt.emitted \subseteq DOMAIN done \cup Told(rt.pushed, Len(rt.pushed) + 1)
  /\ \A x \in DOMAIN done : x \in DOMAIN rt.emitted /\ rt.emitted[x] = done[x]
  /\ \A x \in DOMAIN rt.emitted \ DOMAIN done :
        x \in Reach(es) /\ rt.emitted[x] \in Int /\ rt.emitted[x] <= last
  /\ \A i \in DOMAIN rt.pushed :
        /\ rt.pushed[i][1] \in Reach(es)
        /\ \/ rt.pushed[i][1] \in Relaxed
           \/ EarnedAt(rt.pushed[i][1], rt.pushed[i][2], DOMAIN done \cup Told(rt.pushed, i), rt.emitted)

\* What an event waits for is the entry, or on its own side.
LEMMA WaitsUpto ==
  ASSUME NEW e \in Names, NEW g \in Starts \cup Upto(e) \cup {e}
  PROVE  g \in Names /\ Waits(g) \subseteq Range(Entries) \cup Upto(e)
<1>1. Range(Entries) = {"login", "register"} /\ Range(ProAccess) = {"features", "unlocked", "crypto"}
  BY DEF Range, Entries, ProAccess
<1>2. ASSUME NEW a PROVE Range(<<a>>) = {a}
  BY DEF Range
<1>3. g \in Names
  BY Reps DEF Starts, Upto, KycSide, ProSide
<1>4. ASSUME NEW a, NEW b, Groups(g) = <<a, b>> PROVE Waits(g) = Range(a) \cup Range(b)
  <2>1. DOMAIN Groups(g) = {1, 2} /\ Groups(g)[1] = a /\ Groups(g)[2] = b
    BY <1>4
  <2> QED BY <2>1 DEF Waits
<1>5. ASSUME NEW a, NEW b, NEW c, Groups(g) = <<a, b, c>> PROVE Waits(g) = Range(a) \cup Range(b) \cup Range(c)
  <2>1. DOMAIN Groups(g) = {1, 2, 3} /\ Groups(g)[1] = a /\ Groups(g)[2] = b /\ Groups(g)[3] = c
    BY <1>5
  <2> QED BY <2>1 DEF Waits
<1>6. ASSUME NEW a, Groups(g) = <<a>> PROVE Waits(g) = Range(a)
  <2>1. DOMAIN Groups(g) = {1} /\ Groups(g)[1] = a
    BY <1>6
  <2> QED BY <2>1 DEF Waits
<1>7. g \in ProGated \ {"features", "crypto"} => Upto(e) = ProSide
  BY DEF ProGated, Upto, KycEvents, Starts, ProSide, KycSide
<1>8. CASE Groups(g) = <<>>
  <2>1. DOMAIN Groups(g) = {}
    BY <1>8
  <2> QED BY <1>3, <2>1 DEF Waits
<1>9. CASE Groups(g) = <<Entries>>
  BY <1>3, <1>6, <1>9
<1>10. CASE g \in KycEvents /\ Groups(g) = <<<<Funnel[g]>>, Entries>>
  <2>1. Upto(e) = KycSide
    BY <1>10 DEF KycEvents, ProSide, KycSide, Upto, Starts
  <2>2. PICK x \in KycSide : x = Funnel[g]
    BY <1>10 DEF KycEvents, KycSide, Funnel
  <2>3. Waits(g) = {x} \cup Range(Entries)
    BY <2>2, <1>2, <1>4, <1>10
  <2> QED BY <1>3, <2>1, <2>2, <2>3
<1>11. CASE g = "unlocked" /\ Groups(g) = <<<<"features">>, Entries>>
  <2>1. Upto(e) = ProSide
    BY <1>7, <1>11 DEF ProGated
  <2>2. Waits(g) = {"features"} \cup Range(Entries)
    BY <1>2, <1>4, <1>11
  <2> QED BY <1>3, <2>1, <2>2 DEF ProSide
<1>12. CASE g = "unlock_failed" /\ Groups(g) = <<<<"features">>, Entries, ProAccess>>
  <2>1. Upto(e) = ProSide
    BY <1>7, <1>12 DEF ProGated
  <2>2. Waits(g) = {"features"} \cup Range(Entries) \cup Range(ProAccess)
    BY <1>2, <1>5, <1>12
  <2> QED BY <1>1, <1>3, <2>1, <2>2 DEF ProSide
<1>13. CASE g \in {"feeds_failed", "insights_failed"} /\ Groups(g) = <<Entries, ProAccess, <<ViewOf[g]>>>>
  <2>1. Upto(e) = ProSide
    BY <1>7, <1>13 DEF ProGated
  <2>2. PICK x \in {"feeds", "insights"} : x = ViewOf[g]
    BY <1>13 DEF ViewOf
  <2>3. Waits(g) = Range(Entries) \cup Range(ProAccess) \cup {x}
    BY <2>2, <1>2, <1>5, <1>13
  <2> QED BY <1>1, <1>3, <2>1, <2>2, <2>3 DEF ProSide
<1>14. CASE g \in ProGated \ {"features", "crypto"} /\ Groups(g) = <<Entries, ProAccess>>
  <2>1. Waits(g) = Range(Entries) \cup Range(ProAccess)
    BY <1>4, <1>14
  <2> QED BY <1>1, <1>3, <1>7, <1>14, <2>1 DEF ProSide
<1> QED BY <1>3, <1>8, <1>9, <1>10, <1>11, <1>12, <1>13, <1>14, GroupsAre

\* The places of a sequence with a second one and an element behind it.
EndOf(s, a, b, x) ==
  /\ DOMAIN s = 1..(Len(a) + Len(b) + 1) /\ Len(s) = Len(a) + Len(b) + 1
  /\ \A j \in 1..Len(a) : s[j] = a[j]
  /\ \A j \in 1..Len(b) : s[Len(a) + j] = b[j]
  /\ s[Len(a) + Len(b) + 1] = x
\* The end of a sequence made of two and one more.
LEMMA EndIs ==
  ASSUME NEW S, NEW a \in Seq(S), NEW b \in Seq(S), NEW x \in S
  PROVE  EndOf(a \o b \o <<x>>, a, b, x) /\ a \o b \o <<x>> \in Seq(S)
<1>1. PICK c \in Seq(S) : c = a \o b
  BY Joined
<1>2. Len(c) = Len(a) + Len(b) /\ (\A j \in 1..Len(a) : c[j] = a[j]) /\ (\A j \in 1..Len(b) : c[Len(a) + j] = b[j])
  BY <1>1
<1>3. PICK s \in Seq(S) : s = c \o <<x>>
  BY One, Joined
<1>4. Len(s) = Len(c) + 1 /\ s[Len(c) + 1] = x /\ \A j \in 1..Len(c) : s[j] = c[j]
  BY <1>3
<1>5. PICK l \in Nat, r \in Nat : l = Len(a) /\ r = Len(b)
  OBVIOUS
<1>6. \A j \in 1..l : j \in 1..(l + r)
  BY <1>5
<1>7. \A j \in 1..r : l + j \in 1..(l + r)
  BY <1>5
<1>8. DOMAIN s = 1..(l + r + 1)
  BY <1>2, <1>3, <1>4, <1>5
<1>9. EndOf(s, a, b, x)
  BY <1>2, <1>4, <1>5, <1>6, <1>7, <1>8 DEF EndOf
<1> QED BY <1>1, <1>3, <1>9

\* What was earned stays so when more is known and stamped.
LEMMA EarnedLater ==
  ASSUME NEW e, NEW at, NEW known, NEW more, known \subseteq more, NEW stamps, NEW later,
         \A x \in DOMAIN stamps : x \in DOMAIN later /\ later[x] = stamps[x],
         EarnedAt(e, at, known, stamps)
  PROVE  EarnedAt(e, at, more, later)
BY DEF EarnedAt, Met

\* An event whose groups are met by what is known, where nothing it waits for is stamped later.
LEMMA EarnedInTime ==
  ASSUME NEW e, NEW at, NEW known, NEW stamps, known \subseteq DOMAIN stamps, NEW told, known \subseteq told,
         \A k \in DOMAIN Groups(e) : Met(Groups(e)[k], known),
         \A m \in Waits(e) \cap known : m \in Range(Entries) \/ stamps[m] <= at
  PROVE  EarnedAt(e, at, told, stamps)
<1> SUFFICES ASSUME NEW k \in DOMAIN Groups(e)
             PROVE  /\ Met(Groups(e)[k], told)
                    /\ \E m \in Range(Groups(e)[k]) \cap DOMAIN stamps : m \in Range(Entries) \/ stamps[m] <= at
  BY DEF EarnedAt
<1>1. PICK m \in Range(Groups(e)[k]) : m \in known
  BY DEF Met
<1>2. m \in Waits(e)
  BY <1>1 DEF Waits
<1> QED BY <1>1, <1>2 DEF Met

\* One event of a script, with what simEmit fills in before it.
LEMMA Emits ==
  ASSUME NEW rt, NEW done, NEW es \in SUBSET Names, NEW last \in Int, Going(rt, done, es, last),
         NEW e \in es, NEW at \in Int, last < at,
         \A x \in DOMAIN done \cap Upto(e) : done[x] \in Int /\ done[x] < at
  PROVE  Going(SimEmit(rt, <<e, at>>), done, es, at)
<1>1. PICK known \in SUBSET Names : known = DOMAIN rt.emitted
  BY DEF Going
<1>2. PICK fill : fill = Backfill(e, known)
  OBVIOUS
<1>3. e \in Names
  OBVIOUS
<1>4. fill \in Seq(Starts \cup Upto(e)) /\ (e \in Relaxed => fill = <<>>)
      /\ (e \notin Relaxed => Filled(e, known, fill))
  <2>1. CASE e \in Relaxed
    <3>1. fill = <<>>
      BY <2>1, <1>2, <1>3, BackfillFills
    <3>2. <<>> \in Seq(Starts \cup Upto(e))
      OBVIOUS
    <3> QED BY <2>1, <3>1, <3>2
  <2>2. CASE e \notin Relaxed
    BY <2>2, <1>2, <1>3, BackfillFills DEF Filled
  <2> QED BY <2>1, <2>2
<1>5. PICK old \in Seq(Names \X Int) : old = rt.pushed
  BY DEF Going
<1>6. PICK mid : mid = [i \in DOMAIN fill |-> <<fill[i], at - 1>>]
  OBVIOUS
<1>7. mid \in Seq(Names \X Int) /\ Len(mid) = Len(fill) /\ \A i \in 1..Len(fill) : mid[i] = <<fill[i], at - 1>>
  <2>1. \A i \in 1..Len(fill) : fill[i] \in Names
    BY <1>4, WaitsUpto
  <2>2. \A i \in 1..Len(fill) : <<fill[i], at - 1>> \in Names \X Int
    BY <2>1
  <2>3. PICK l \in Nat : l = Len(fill) /\ DOMAIN fill = 1..l
    BY <1>4
  <2>4. mid = [i \in 1..l |-> <<fill[i], at - 1>>]
    BY <1>6, <2>3
  <2>5. mid \in Seq(Names \X Int) /\ Len(mid) = l
    BY <2>2, <2>3, <2>4
  <2> QED BY <2>3, <2>4, <2>5
<1>8. <<e, at>> \in Names \X Int
  BY <1>3
<1>9. PICK new \in Seq(Names \X Int) : new = old \o mid \o <<<<e, at>>>> /\ EndOf(new, old, mid, <<e, at>>)
  BY <1>7, <1>8, EndIs
<1>10. PICK kept : kept = [x \in known \cup Range(fill) \cup ({e} \cap Prerequisites) |->
                         IF x \in known THEN rt.emitted[x] ELSE IF x \in Range(fill) THEN at - 1 ELSE at]
  OBVIOUS
<1>11. SimEmit(rt, <<e, at>>) = [emitted |-> kept, pushed |-> new]
  BY <1>1, <1>2, <1>5, <1>6, <1>9, <1>10 DEF SimEmit
<1>12. PICK n \in Nat, f \in Nat : n = Len(old) /\ f = Len(fill)
  BY <1>4
<1>13. DOMAIN old = 1..n /\ DOMAIN fill = 1..f /\ DOMAIN new = 1..(n + f + 1) /\ Len(new) = n + f + 1
  BY <1>4, <1>7, <1>9, <1>12 DEF EndOf
<1>14. \A j \in 1..n : new[j] = old[j]
  BY <1>9, <1>12 DEF EndOf
<1>15. \A j \in 1..f : new[n + j][1] = fill[j] /\ new[n + j][2] = at - 1
  BY <1>7, <1>9, <1>12 DEF EndOf
<1>16. new[n + f + 1][1] = e /\ new[n + f + 1][2] = at
  BY <1>7, <1>9, <1>12 DEF EndOf
<1>17. \A i \in 1..(n + 1) : Told(new, i) = Told(old, i)
  <2>1. ASSUME NEW i \in 1..(n + 1) PROVE \A j \in 1..(i - 1) : new[j] = old[j]
    BY <1>14, <2>1
  <2> QED BY <2>1 DEF Told
<1>18. \A i \in (n + 1)..(n + f + 2) : Told(old, n + 1) \subseteq Told(new, i)
  <2>1. ASSUME NEW i \in (n + 1)..(n + f + 2), NEW j \in 1..((n + 1) - 1) PROVE old[j][1] \in Told(new, i)
    <3>1. j \in 1..(i - 1) /\ new[j] = old[j]
      BY <1>14
    <3> QED BY <3>1 DEF Told
  <2> QED BY <2>1 DEF Told
<1>19. \A q \in 1..(f + 1) : Past(fill, q) \subseteq Told(new, n + q)
  <2>1. ASSUME NEW q \in 1..(f + 1), NEW j \in 1..(q - 1) PROVE fill[j] \in Told(new, n + q)
    <3>1. n + j \in 1..((n + q) - 1) /\ j \in 1..f
      OBVIOUS
    <3>2. new[n + j][1] = fill[j]
      BY <3>1, <1>15
    <3> QED BY <3>1, <3>2 DEF Told
  <2> QED BY <2>1 DEF Past
<1>20. Range(fill) \subseteq Told(new, n + f + 1) /\ Range(fill) \subseteq Told(new, n + f + 2)
  <2>1. ASSUME NEW j \in 1..f PROVE fill[j] \in Told(new, n + f + 1) /\ fill[j] \in Told(new, n + f + 2)
    <3>1. n + j \in 1..((n + f + 1) - 1) /\ n + j \in 1..((n + f + 2) - 1)
      OBVIOUS
    <3> QED BY <3>1, <1>15 DEF Told
  <2> QED BY <2>1, <1>13 DEF Range
<1>21. e \in Told(new, n + f + 2)
  <2>1. n + f + 1 \in 1..((n + f + 2) - 1)
    OBVIOUS
  <2> QED BY <2>1, <1>16 DEF Told
<1>22. known \subseteq DOMAIN done \cup Told(old, n + 1)
  BY <1>1, <1>5, <1>12 DEF Going
<1>23. DOMAIN kept = known \cup Range(fill) \cup ({e} \cap Prerequisites)
  BY <1>10
<1>24. Range(fill) \subseteq Starts \cup Upto(e)
  BY <1>4 DEF Range
<1>25. Starts \cup Upto(e) \cup {e} \subseteq Reach(es) /\ Starts \cup Upto(e) \subseteq Names
  BY <1>3, WaitsUpto DEF Reach
<1>26. \A x \in known : kept[x] = rt.emitted[x]
  BY <1>10
<1>27. \A x \in DOMAIN kept \ known : kept[x] \in {at - 1, at} /\ (x \in Range(fill) => kept[x] = at - 1)
  BY <1>10
<1>28. \A x \in known : x \in Upto(e) => rt.emitted[x] <= at - 1
  <2>1. ASSUME NEW x \in known, x \in Upto(e) PROVE rt.emitted[x] <= at - 1
    <3>1. CASE x \in DOMAIN done
      <4>1. rt.emitted[x] = done[x] /\ done[x] \in Int /\ done[x] < at
        BY <2>1, <3>1 DEF Going
      <4> QED BY <4>1
    <3>2. CASE x \notin DOMAIN done
      <4>1. rt.emitted[x] \in Int /\ rt.emitted[x] <= last
        BY <1>1, <3>2 DEF Going
      <4> QED BY <4>1
    <3> QED BY <3>1, <3>2
  <2> QED BY <2>1
<1>29. ASSUME NEW g \in Starts \cup Upto(e) \cup {e}, NEW m \in Waits(g), m \in known \cup Range(fill)
       PROVE  m \in Range(Entries) \/ kept[m] <= at - 1
  <2>1. m \in Range(Entries) \/ m \in Upto(e)
    BY <1>3, WaitsUpto
  <2>2. CASE m \in known /\ m \in Upto(e)
    BY <2>2, <1>26, <1>28
  <2>3. CASE m \notin known
    <3>1. m \in DOMAIN kept \ known /\ m \in Range(fill)
      BY <2>3, <1>23, <1>29
    <3>2. kept[m] = at - 1
      BY <3>1, <1>27
    <3> QED BY <3>2
  <2> QED BY <2>1, <2>2, <2>3
<1>30. ASSUME NEW i \in 1..(n + f + 1)
       PROVE  /\ new[i][1] \in Reach(es)
              /\ \/ new[i][1] \in Relaxed
                 \/ EarnedAt(new[i][1], new[i][2], DOMAIN done \cup Told(new, i), kept)
  <2>1. CASE i <= n
    <3>1. i \in DOMAIN old /\ new[i] = old[i] /\ Told(new, i) = Told(old, i)
      BY <2>1, <1>13, <1>14, <1>17
    <3>2. old[i][1] \in Reach(es) /\ (old[i][1] \in Relaxed \/
             EarnedAt(old[i][1], old[i][2], DOMAIN done \cup Told(old, i), rt.emitted))
      BY <3>1, <1>5 DEF Going
    <3>3. \A x \in DOMAIN rt.emitted : x \in DOMAIN kept /\ kept[x] = rt.emitted[x]
      BY <1>1, <1>23, <1>26
    <3>4. CASE EarnedAt(old[i][1], old[i][2], DOMAIN done \cup Told(old, i), rt.emitted)
      <4>1. EarnedAt(old[i][1], old[i][2], DOMAIN done \cup Told(old, i), kept)
        BY <3>3, <3>4, EarnedLater
      <4> QED BY <3>1, <3>2, <4>1
    <3> QED BY <3>1, <3>2, <3>4
  <2>2. CASE n < i /\ i <= n + f
    <3>1. PICK q \in 1..f : i = n + q
      <4>1. i - n \in 1..f /\ i = n + (i - n)
        BY <2>2
      <4> QED BY <4>1
    <3>2. new[i][1] = fill[q] /\ new[i][2] = at - 1 /\ fill[q] \in Starts \cup Upto(e)
      BY <3>1, <1>4, <1>12, <1>15
    <3>3. e \notin Relaxed
      <4>1. ASSUME e \in Relaxed PROVE FALSE
        <5>1. fill = <<>>
          BY <4>1, <1>4
        <5>2. f = 0
          BY <5>1, <1>12
        <5> QED BY <5>2
      <4> QED BY <4>1
    <3>4. PICK had : had = known \cup Past(fill, q)
      OBVIOUS
    <3>5. \A k \in DOMAIN Groups(fill[q]) : Met(Groups(fill[q])[k], had)
      BY <3>1, <3>3, <3>4, <1>4, <1>13 DEF Filled
    <3>6. Past(fill, q) \subseteq Range(fill)
      <4>1. ASSUME NEW j \in 1..(q - 1) PROVE fill[j] \in Range(fill)
        <5>1. j \in 1..f
          OBVIOUS
        <5> QED BY <5>1, <1>13 DEF Range
      <4> QED BY <4>1 DEF Past
    <3>7. had \subseteq DOMAIN kept /\ had \subseteq known \cup Range(fill)
      BY <3>4, <3>6, <1>23
    <3>8. had \subseteq DOMAIN done \cup Told(new, i)
      <4>1. Past(fill, q) \subseteq Told(new, n + q)
        <5>1. q \in 1..(f + 1)
          OBVIOUS
        <5> QED BY <5>1, <1>19
      <4>2. Told(old, n + 1) \subseteq Told(new, n + q)
        <5>1. n + q \in (n + 1)..(n + f + 2)
          OBVIOUS
        <5> QED BY <5>1, <1>18
      <4> QED BY <4>1, <4>2, <3>1, <3>4, <1>22
    <3>9. \A m \in Waits(fill[q]) \cap had : m \in Range(Entries) \/ kept[m] <= at - 1
      BY <3>2, <3>7, <1>29
    <3>10. EarnedAt(fill[q], at - 1, DOMAIN done \cup Told(new, i), kept)
      BY <3>5, <3>7, <3>8, <3>9, EarnedInTime
    <3> QED BY <3>2, <3>10, <1>25
  <2>3. CASE i = n + f + 1
    <3>1. new[i][1] = e /\ new[i][2] = at
      BY <2>3, <1>16
    <3>2. CASE e \in Relaxed
      BY <3>1, <3>2, <1>25
    <3>3. CASE e \notin Relaxed
      <4>1. PICK had : had = known \cup Range(fill)
        OBVIOUS
      <4>2. \A k \in DOMAIN Groups(e) : Met(Groups(e)[k], had)
        BY <3>3, <4>1, <1>4 DEF Filled
      <4>3. had \subseteq DOMAIN kept
        BY <4>1, <1>23
      <4>4. had \subseteq DOMAIN done \cup Told(new, i)
        <5>1. Told(old, n + 1) \subseteq Told(new, n + f + 1)
          <6>1. n + f + 1 \in (n + 1)..(n + f + 2)
            OBVIOUS
          <6> QED BY <6>1, <1>18
        <5> QED BY <5>1, <4>1, <2>3, <1>20, <1>22
      <4>5. \A m \in Waits(e) \cap had : m \in Range(Entries) \/ kept[m] <= at
        <5>1. ASSUME NEW m \in Waits(e) \cap had PROVE m \in Range(Entries) \/ kept[m] <= at
          <6>1. m \in Range(Entries) \/ kept[m] <= at - 1
            BY <4>1, <1>29
          <6>2. m \in Range(Entries) \/ m \in Upto(e)
            BY <1>3, WaitsUpto
          <6>3. m \in Range(Entries) \/ kept[m] \in Int
            <7>1. CASE m \in known /\ m \in Upto(e)
              <8>1. CASE m \in DOMAIN done
                <9>1. rt.emitted[m] = done[m] /\ done[m] \in Int
                  BY <7>1, <8>1 DEF Going
                <9> QED BY <9>1, <7>1, <1>26
              <8>2. CASE m \notin DOMAIN done
                <9>1. rt.emitted[m] \in Int
                  BY <1>1, <7>1, <8>2 DEF Going
                <9> QED BY <9>1, <7>1, <1>26
              <8> QED BY <8>1, <8>2
            <7>2. CASE m \notin known
              <8>1. m \in DOMAIN kept \ known
                BY <7>2, <4>1, <1>23
              <8> QED BY <8>1, <1>27
            <7> QED BY <6>2, <7>1, <7>2
          <6> QED BY <6>1, <6>3
        <5> QED BY <5>1
      <4>6. EarnedAt(e, at, DOMAIN done \cup Told(new, i), kept)
        BY <4>2, <4>3, <4>4, <4>5, EarnedInTime
      <4> QED BY <3>1, <4>6, <1>25
    <3> QED BY <3>2, <3>3
  <2>4. i <= n \/ (n < i /\ i <= n + f) \/ i = n + f + 1
    OBVIOUS
  <2> QED BY <2>1, <2>2, <2>3, <2>4
<1>31. PICK rt2 : rt2 = [emitted |-> kept, pushed |-> new]
  OBVIOUS
<1>32. rt2.emitted = kept /\ rt2.pushed = new
  BY <1>31
<1>33. DOMAIN kept \subseteq Names
  BY <1>23, <1>24, <1>25, <1>3
<1>34. DOMAIN kept \subseteq DOMAIN done \cup Told(new, Len(new) + 1)
  <2>1. Len(new) + 1 = n + f + 2
    BY <1>13
  <2>2. Told(old, n + 1) \subseteq Told(new, n + f + 2)
    <3>1. n + f + 2 \in (n + 1)..(n + f + 2)
      OBVIOUS
    <3> QED BY <3>1, <1>18
  <2> QED BY <2>1, <2>2, <1>20, <1>21, <1>22, <1>23
<1>35. \A x \in DOMAIN done : x \in DOMAIN kept /\ kept[x] = done[x]
  BY <1>1, <1>23, <1>26 DEF Going
<1>36. \A x \in DOMAIN kept \ DOMAIN done : x \in Reach(es) /\ kept[x] \in Int /\ kept[x] <= at
  <2>1. ASSUME NEW x \in DOMAIN kept, x \notin DOMAIN done PROVE x \in Reach(es) /\ kept[x] \in Int /\ kept[x] <= at
    <3>1. CASE x \in known
      <4>1. x \in Reach(es) /\ rt.emitted[x] \in Int /\ rt.emitted[x] <= last
        BY <1>1, <2>1, <3>1 DEF Going
      <4> QED BY <4>1, <3>1, <1>26
    <3>2. CASE x \notin known
      <4>1. kept[x] \in {at - 1, at}
        BY <2>1, <3>2, <1>27
      <4>2. x \in Reach(es)
        BY <2>1, <3>2, <1>23, <1>24, <1>25
      <4> QED BY <4>1, <4>2
    <3> QED BY <3>1, <3>2
  <2> QED BY <2>1
<1>37. Going(rt2, done, es, at)
  BY <1>13, <1>30, <1>32, <1>33, <1>34, <1>35, <1>36 DEF Going
<1> QED BY <1>11, <1>31, <1>37

\* A script of these events, its times increasing between two bounds.
InOrder(s, es, lo, hi) ==
  /\ s \in Seq(es \X Int)
  /\ \A k \in 1..Len(s) : /\ lo <= s[k][2] /\ s[k][2] <= hi
                          /\ \A j \in 1..(k - 1) : s[j][2] < s[k][2]

Rolling(g, n, s, done) ==
  g = [k \in 0..n |-> IF k = 0 THEN [emitted |-> done, pushed |-> <<>>] ELSE SimEmit(g[k - 1], s[k])]

\* A script's runtimes exist up to each of its places, by induction.
LEMMA RollingExists ==
  ASSUME NEW s, NEW done
  PROVE  \A n \in Nat : \E g : Rolling(g, n, s, done)
<1> DEFINE S == {n \in Nat : \E g : Rolling(g, n, s, done)}
<1>1. 0 \in S
  <2>1. Rolling([k \in 0..0 |-> [emitted |-> done, pushed |-> <<>>]], 0, s, done)
    BY DEF Rolling
  <2> QED BY <2>1
<1>2. ASSUME NEW n \in Nat, n \in S PROVE n + 1 \in S
  <2>1. PICK g : Rolling(g, n, s, done)
    BY <1>2
  <2> DEFINE top == SimEmit(g[n], s[n + 1])
             h == [k \in 0..n + 1 |-> IF k = n + 1 THEN top ELSE g[k]]
             h2 == [k \in 0..n + 1 |-> IF k = 0 THEN [emitted |-> done, pushed |-> <<>>] ELSE SimEmit(h[k - 1], s[k])]
  <2>2. ASSUME NEW k \in 0..n + 1 PROVE h[k] = h2[k]
    <3>1. CASE k = n + 1
      <4>1. h[k] = top /\ k - 1 = n /\ k # 0 /\ h[k - 1] = g[n]
        BY <3>1
      <4>2. h2[k] = SimEmit(h[k - 1], s[k])
        BY <4>1
      <4> QED BY <4>1, <4>2, <3>1
    <3>2. CASE k # n + 1
      <4>1. k \in 0..n /\ h[k] = g[k]
        BY <3>2
      <4>2. CASE k = 0
        BY <4>1, <4>2, <2>1 DEF Rolling
      <4>3. CASE k # 0
        <5>1. k - 1 \in 0..n + 1 /\ k - 1 # n + 1
          BY <4>1, <4>3
        <5>2. h[k - 1] = g[k - 1]
          BY <5>1
        <5>3. g[k] = SimEmit(g[k - 1], s[k])
          BY <2>1, <4>1, <4>3 DEF Rolling
        <5> QED BY <4>1, <4>3, <5>2, <5>3
      <4> QED BY <4>2, <4>3
    <3> QED BY <3>1, <3>2
  <2>3. h = h2
    <3> HIDE DEF top
    <3> QED BY <2>2
  <2>4. Rolling(h, n + 1, s, done)
    <3> HIDE DEF h
    <3> QED BY <2>3 DEF Rolling
  <2> QED BY <2>4
<1> QED BY <1>1, <1>2, Induct

\* What a script leaves is the last of its runtimes.
LEMMA PlayedIs ==
  ASSUME NEW s, NEW done, Len(s) \in Nat
  PROVE  \E g : Rolling(g, Len(s), s, done) /\ Played(s, done) = g[Len(s)]
<1> DEFINE f[k \in 0..Len(s)] == IF k = 0 THEN [emitted |-> done, pushed |-> <<>>] ELSE SimEmit(f[k - 1], s[k])
<1>1. f = CHOOSE g : g = [k \in 0..Len(s) |-> IF k = 0 THEN [emitted |-> done, pushed |-> <<>>]
                                               ELSE SimEmit(g[k - 1], s[k])]
  OBVIOUS
<1>2. f = CHOOSE g : Rolling(g, Len(s), s, done)
  BY <1>1 DEF Rolling
<1>3. Played(s, done) = f[Len(s)]
  BY DEF Played
<1> HIDE DEF f
<1> QED BY <1>2, <1>3, RollingExists

\* An order of times kept by every script a block may play: what it leaves is earned.
LEMMA PlayedGoes ==
  ASSUME NEW es \in SUBSET Names, NEW lo \in Int, NEW hi \in Int, NEW s, InOrder(s, es, lo, hi),
         NEW done, DOMAIN done \subseteq Names,
         \A k \in 1..Len(s) : \A x \in DOMAIN done \cap Upto(s[k][1]) : done[x] \in Int /\ done[x] < s[k][2]
  PROVE  Going(Played(s, done), done, es, hi)
<1>1. s \in Seq(es \X Int)
  BY DEF InOrder
<1>2. PICK l \in Nat : l = Len(s)
  BY <1>1
<1>3. PICK g : Rolling(g, l, s, done) /\ Played(s, done) = g[l]
  BY <1>2, PlayedIs
<1> DEFINE at(k) == IF k = 0 THEN lo - 1 ELSE s[k][2]
           S == {k \in Nat : k <= l => Going(g[k], done, es, at(k))}
<1>4. \A k \in 1..l : s[k] \in es \X Int
  BY <1>1, <1>2
<1>5. 0 \in S
  <2>1. g[0] = [emitted |-> done, pushed |-> <<>>]
    BY <1>3 DEF Rolling
  <2>2. PICK rt : rt = [emitted |-> done, pushed |-> <<>>]
    OBVIOUS
  <2>3. rt.emitted = done /\ rt.pushed = <<>>
    BY <2>2
  <2>4. Going(rt, done, es, lo - 1)
    <3>1. <<>> \in Seq(Names \X Int) /\ DOMAIN <<>> = {}
      OBVIOUS
    <3> QED BY <2>3, <3>1 DEF Going
  <2> QED BY <2>1, <2>2, <2>4
<1>6. ASSUME NEW k \in Nat, k \in S PROVE k + 1 \in S
  <2> SUFFICES ASSUME k + 1 <= l PROVE Going(g[k + 1], done, es, s[k + 1][2])
    OBVIOUS
  <2>1. k + 1 \in 1..l /\ k \in 0..l /\ k <= l
    OBVIOUS
  <2>2. g[k + 1] = SimEmit(g[k], s[k + 1])
    <3>1. k + 1 \in 0..l /\ k + 1 # 0 /\ (k + 1) - 1 = k
      BY <2>1
    <3> QED BY <3>1, <1>3 DEF Rolling
  <2>3. PICK e \in es, t \in Int : s[k + 1] = <<e, t>>
    BY <2>1, <1>4
  <2>4. s[k + 1][2] = t
    BY <2>3
  <2>5. PICK last \in Int : last = at(k) /\ last < t
    <3>1. CASE k = 0
      <4>1. lo <= t
        BY <2>1, <2>4, <1>2 DEF InOrder
      <4> QED BY <4>1, <3>1
    <3>2. CASE k # 0
      <4>1. k \in 1..((k + 1) - 1) /\ k \in 1..l
        BY <3>2, <2>1
      <4>2. s[k][2] < s[k + 1][2]
        BY <4>1, <2>1, <1>2 DEF InOrder
      <4>3. s[k][2] \in Int
        BY <4>1, <1>4
      <4> QED BY <4>2, <4>3, <2>4, <3>2
    <3> QED BY <3>1, <3>2
  <2>6. Going(g[k], done, es, last)
    BY <1>6, <2>1, <2>5
  <2>7. \A x \in DOMAIN done \cap Upto(e) : done[x] \in Int /\ done[x] < t
    <3>1. s[k + 1][1] = e /\ k + 1 \in 1..Len(s)
      BY <2>1, <2>3, <1>2
    <3> QED BY <3>1, <2>4
  <2>8. Going(SimEmit(g[k], <<e, t>>), done, es, t)
    BY <2>5, <2>6, <2>7, Emits
  <2> QED BY <2>2, <2>3, <2>4, <2>8
<1>7. Nat \subseteq S
  <2> HIDE DEF S
  <2> QED BY <1>5, <1>6, Induct
<1>8. Going(g[l], done, es, at(l))
  BY <1>2, <1>7
<1>9. CASE l = 0
  <2>1. g[0] = [emitted |-> done, pushed |-> <<>>]
    BY <1>3 DEF Rolling
  <2>2. PICK rt : rt = [emitted |-> done, pushed |-> <<>>]
    OBVIOUS
  <2>3. rt.emitted = done /\ rt.pushed = <<>>
    BY <2>2
  <2>4. Going(rt, done, es, hi)
    <3>1. <<>> \in Seq(Names \X Int) /\ DOMAIN <<>> = {}
      OBVIOUS
    <3> QED BY <2>3, <3>1 DEF Going
  <2> QED BY <1>3, <1>9, <2>1, <2>2, <2>4
<1>10. CASE l # 0
  <2>1. l \in 1..Len(s) /\ at(l) = s[l][2] /\ s[l][2] \in Int
    BY <1>2, <1>4, <1>10
  <2>2. s[l][2] <= hi
    BY <2>1 DEF InOrder
  <2>3. PICK top \in Int : top = at(l) /\ top <= hi
    BY <2>1, <2>2
  <2>4. PICK rt : rt = g[l]
    OBVIOUS
  <2>5. Going(rt, done, es, top)
    BY <1>8, <2>3, <2>4
  <2>6. Going(rt, done, es, hi)
    <3>1. \A x \in DOMAIN rt.emitted \ DOMAIN done : rt.emitted[x] \in Int /\ rt.emitted[x] <= hi
      BY <2>3, <2>5 DEF Going
    <3> QED BY <2>5, <3>1 DEF Going
  <2> QED BY <1>3, <2>4, <2>6
<1> QED BY <1>9, <1>10

(* ---- the scripts of a block ---- *)
Ordered(scripts, es, lo, hi) == \A s \in scripts : InOrder(s, es, lo, hi)
\* The events of these scripts that wait for more than the entry come from this time on.
FromOn(scripts, from) == \A s \in scripts : \A k \in 1..Len(s) : Upto(s[k][1]) # {} => from <= s[k][2]

\* Scripts in order are in order between wider bounds, among more events.
LEMMA Wider ==
  ASSUME NEW es, NEW more, es \subseteq more, NEW lo \in Int, NEW hi \in Int, NEW l2 \in Int, NEW h2 \in Int,
         l2 <= lo, hi <= h2, NEW scripts, Ordered(scripts, es, lo, hi)
  PROVE  Ordered(scripts, more, l2, h2)
<1> SUFFICES ASSUME NEW s \in scripts PROVE InOrder(s, more, l2, h2)
  BY DEF Ordered
<1>1. InOrder(s, es, lo, hi)
  BY DEF Ordered
<1>2. s \in Seq(es \X Int)
  BY <1>1 DEF InOrder
<1>3. PICK l \in Nat : l = Len(s) /\ DOMAIN s = 1..l
  BY <1>2
<1>4. \A k \in 1..l : s[k] \in es \X Int
  BY <1>2, <1>3
<1>5. s \in Seq(more \X Int)
  <2>1. \A k \in 1..l : s[k] \in more \X Int
    BY <1>4
  <2> QED BY <1>2, <1>3, <2>1
<1>6. \A k \in 1..l : s[k][2] \in Int
  BY <1>4
<1>7. ASSUME NEW k \in 1..l
      PROVE  l2 <= s[k][2] /\ s[k][2] <= h2 /\ \A j \in 1..(k - 1) : s[j][2] < s[k][2]
  <2>1. lo <= s[k][2] /\ s[k][2] <= hi /\ \A j \in 1..(k - 1) : s[j][2] < s[k][2]
    BY <1>1, <1>3 DEF InOrder
  <2> QED BY <2>1, <1>6
<1> QED BY <1>3, <1>5, <1>7 DEF InOrder

\* A script that says nothing is in order.
LEMMA NothingOrdered ==
  ASSUME NEW es, NEW lo, NEW hi
  PROVE  InOrder(<<>>, es, lo, hi)
<1>1. <<>> \in Seq(es \X Int) /\ Len(<<>>) = 0
  OBVIOUS
<1> QED BY <1>1 DEF InOrder

\* A script that says one thing is in order.
LEMMA SayOrdered ==
  ASSUME NEW es, NEW e \in es, NEW at \in Int
  PROVE  InOrder(Say(e, at), es, at, at)
<1>1. PICK s : s = <<<<e, at>>>>
  OBVIOUS
<1>2. s \in Seq(es \X Int) /\ Len(s) = 1 /\ s[1][2] = at
  <2>1. <<e, at>> \in es \X Int
    OBVIOUS
  <2> QED BY <1>1, <2>1
<1>3. InOrder(s, es, at, at)
  <2>1. \A k \in 1..Len(s) : s[k][2] = at /\ (1..(k - 1)) = {}
    BY <1>2
  <2> QED BY <1>2, <2>1 DEF InOrder
<1> QED BY <1>1, <1>3 DEF Say

\* A script after another is in order.
LEMMA JoinOrdered ==
  ASSUME NEW es, NEW lo \in Int, NEW m \in Int, NEW n \in Int, NEW hi \in Int, lo <= m, m < n, n <= hi,
         NEW a, NEW b, InOrder(a, es, lo, m), InOrder(b, es, n, hi)
  PROVE  InOrder(a \o b, es, lo, hi)
<1>1. a \in Seq(es \X Int) /\ b \in Seq(es \X Int)
  BY DEF InOrder
<1>2. PICK p \in Nat, q \in Nat : p = Len(a) /\ q = Len(b)
  BY <1>1
<1>3. PICK s \in Seq(es \X Int) : s = a \o b
  BY <1>1, Joined
<1>4. Len(s) = p + q /\ (\A j \in 1..p : s[j] = a[j]) /\ (\A j \in 1..q : s[p + j] = b[j])
  BY <1>1, <1>2, <1>3
<1>5. /\ \A j \in 1..p : a[j][2] \in Int /\ lo <= a[j][2] /\ a[j][2] <= m
      /\ \A j \in 1..q : b[j][2] \in Int /\ n <= b[j][2] /\ b[j][2] <= hi
      /\ \A k \in 1..p : \A j \in 1..(k - 1) : a[j][2] < a[k][2]
      /\ \A k \in 1..q : \A j \in 1..(k - 1) : b[j][2] < b[k][2]
  <2>1. (\A j \in 1..p : a[j] \in es \X Int) /\ (\A j \in 1..q : b[j] \in es \X Int)
    BY <1>1, <1>2
  <2>2. (\A j \in 1..p : a[j][2] \in Int) /\ (\A j \in 1..q : b[j][2] \in Int)
    BY <2>1
  <2> QED BY <1>2, <2>2 DEF InOrder
<1>6. ASSUME NEW k \in 1..(p + q)
      PROVE  lo <= s[k][2] /\ s[k][2] <= hi /\ \A j \in 1..(k - 1) : s[j][2] < s[k][2]
  <2>1. CASE k <= p
    <3>1. k \in 1..p /\ s[k] = a[k]
      BY <2>1, <1>4
    <3>2. lo <= a[k][2] /\ a[k][2] <= hi
      BY <3>1, <1>5
    <3>3. ASSUME NEW j \in 1..(k - 1) PROVE s[j][2] < s[k][2]
      <4>1. j \in 1..p
        BY <2>1
      <4>2. s[j] = a[j]
        BY <4>1, <1>4
      <4> QED BY <3>1, <4>2, <1>5
    <3> QED BY <3>1, <3>2, <3>3
  <2>2. CASE k > p
    <3>1. PICK u \in 1..q : k = p + u
      <4>1. k - p \in 1..q /\ k = p + (k - p)
        BY <2>2
      <4> QED BY <4>1
    <3>2. s[k] = b[u]
      BY <3>1, <1>4
    <3>3. b[u][2] \in Int /\ n <= b[u][2] /\ b[u][2] <= hi
      BY <1>5
    <3>4. ASSUME NEW j \in 1..(k - 1) PROVE s[j][2] < s[k][2]
      <4>1. CASE j <= p
        <5>1. j \in 1..p
          BY <4>1
        <5>2. s[j] = a[j] /\ a[j][2] \in Int /\ a[j][2] <= m
          BY <5>1, <1>4, <1>5
        <5> QED BY <5>2, <3>2, <3>3
      <4>2. CASE j > p
        <5>1. PICK v \in 1..(u - 1) : j = p + v
          <6>1. j - p \in 1..(u - 1) /\ j = p + (j - p)
            BY <4>2, <3>1
          <6> QED BY <6>1
        <5>2. v \in 1..q
          BY <5>1
        <5>3. s[j] = b[v]
          BY <5>1, <5>2, <1>4
        <5> QED BY <5>1, <5>3, <3>2, <1>5
      <4> QED BY <4>1, <4>2
    <3> QED BY <3>2, <3>3, <3>4
  <2> QED BY <2>1, <2>2
<1> QED BY <1>3, <1>4, <1>6 DEF InOrder

\* A roll of the dice says one thing or nothing.
LEMMA RollOrdered ==
  ASSUME NEW es, NEW e \in es, NEW at \in Int, NEW p
  PROVE  Ordered(Roll(e, p, at), es, at, at)
BY SayOrdered, NothingOrdered DEF Ordered, Roll

\* Perhaps a script.
LEMMA PerhapsOrdered ==
  ASSUME NEW es, NEW lo, NEW hi, NEW scripts, Ordered(scripts, es, lo, hi)
  PROVE  Ordered(Perhaps(scripts), es, lo, hi)
BY NothingOrdered DEF Ordered, Perhaps

\* One script and then another.
LEMMA ThenOrdered ==
  ASSUME NEW es, NEW lo \in Int, NEW m \in Int, NEW n \in Int, NEW hi \in Int, lo <= m, m < n, n <= hi,
         NEW first, NEW second, Ordered(first, es, lo, m), Ordered(second, es, n, hi)
  PROVE  Ordered(Then(first, second), es, lo, hi)
<1> SUFFICES ASSUME NEW s \in Then(first, second) PROVE InOrder(s, es, lo, hi)
  BY DEF Ordered
<1>1. PICK a \in first, b \in second : s = a \o b
  BY DEF Then
<1>2. InOrder(a, es, lo, m) /\ InOrder(b, es, n, hi)
  BY DEF Ordered
<1>3. InOrder(a \o b, es, lo, hi)
  BY <1>2, JoinOrdered
<1> QED BY <1>1, <1>3

\* A script that follows from what the first one said.
LEMMA FollowOrdered ==
  ASSUME NEW es, NEW lo \in Int, NEW m \in Int, NEW n \in Int, NEW hi \in Int, lo <= m, m < n, n <= hi,
         NEW first, NEW second, Ordered(first, es, lo, m), Ordered(second, es, n, hi)
  PROVE  Ordered(Follow(first, second), es, lo, hi)
<1>1. PICK said : said = first \ {<<>>}
  OBVIOUS
<1>2. Ordered(said, es, lo, m)
  BY <1>1 DEF Ordered
<1>3. Ordered(Then(said, second), es, lo, hi)
  BY <1>2, ThenOrdered
<1>4. \A a \in {x \in first : x = <<>>} : InOrder(a, es, lo, hi)
  BY NothingOrdered
<1> QED BY <1>1, <1>3, <1>4 DEF Follow, Ordered

\* An attempt, of one outcome or the other.
LEMMA AttemptOrdered ==
  ASSUME NEW es, NEW gate, NEW p, NEW good \in es, NEW bad \in es, NEW rate, NEW at \in Int
  PROVE  Ordered(Attempt(gate, p, good, bad, rate, at), es, at, at)
<1> SUFFICES ASSUME NEW s \in Attempt(gate, p, good, bad, rate, at) PROVE InOrder(s, es, at, at)
  BY DEF Ordered
<1>1. s = <<>> \/ s = Say(bad, at) \/ s = Say(good, at)
  BY DEF Attempt
<1> QED BY <1>1, SayOrdered, NothingOrdered

\* A set of one script that says one thing, or another.
LEMMA OneOrdered ==
  ASSUME NEW es, NEW lo, NEW hi, NEW s, InOrder(s, es, lo, hi)
  PROVE  Ordered({s}, es, lo, hi)
BY DEF Ordered

\* Scripts of either kind.
LEMMA BothOrdered ==
  ASSUME NEW es, NEW lo, NEW hi, NEW some, NEW others, Ordered(some, es, lo, hi), Ordered(others, es, lo, hi)
  PROVE  Ordered(some \cup others, es, lo, hi)
BY DEF Ordered

\* Scripts in order come from their earliest time on.
LEMMA OrderedFrom ==
  ASSUME NEW es, NEW lo \in Int, NEW hi \in Int, NEW scripts, Ordered(scripts, es, lo, hi)
  PROVE  FromOn(scripts, lo)
BY DEF FromOn, Ordered, InOrder

\* What the steps of a block must keep: the stamps of the loan funnel and of the pro features.
Stamped(stamps, kycLast, proLast) ==
  /\ DOMAIN stamps \subseteq Names
  /\ \A x \in DOMAIN stamps : /\ x \in KycSide => stamps[x] \in Int /\ stamps[x] <= kycLast
                              /\ x \in ProSide => stamps[x] \in Int /\ stamps[x] <= proLast
\* What the events of a step come to.
Gated(ps, before, stamps, es, d) ==
  \A i \in DOMAIN ps :
     /\ ps[i].event \in Reach(es) /\ ps[i].dims = d
     /\ \/ ps[i].event \in Relaxed
        \/ EarnedAt(ps[i].event, ps[i].at, DOMAIN before \cup {ps[j].event : j \in 1..(i - 1)}, stamps)

KycTouch == KycSide \cup KycEvents
\* An event waits for the loan funnel or for the pro features, never for both.
LEMMA SideOf ==
  ASSUME NEW e \in Names
  PROVE  /\ e \notin KycEvents => Upto(e) \cap KycSide = {}
         /\ e \notin ProGated => Upto(e) \cap ProSide = {}
         /\ Upto(e) \subseteq KycSide \cup ProSide
         /\ KycSide \cap ProSide = {} /\ ProSide \subseteq ProGated
BY DEF Upto, KycEvents, ProSide, KycSide, ProGated

\* Playing a block: every event it emits is earned, and its stamps stay within the bounds.
LEMMA PlayGated ==
  ASSUME NEW es \in SUBSET Names, NEW lo \in Int, NEW hi \in Int, NEW from \in Int, NEW scripts,
         Ordered(scripts, es, lo, hi), FromOn(scripts, from), Play(scripts),
         NEW k1 \in Int, NEW p1 \in Int, NEW k2 \in Int, NEW p2 \in Int, Stamped(emitted, k1, p1),
         k1 <= k2, p1 <= p2,
         es \cap KycTouch = {} \/ (k1 < from /\ hi <= k2),
         es \cap ProGated = {} \/ (p1 < from /\ hi <= p2)
  PROVE  Stamped(emitted', k2, p2) /\ Gated(pushed', emitted, emitted', es, dims)
<1>7. PICK s \in scripts : \E rt : /\ rt = Played(s, emitted)
                                   /\ emitted' = rt.emitted
                                   /\ pushed' = [i \in DOMAIN rt.pushed |->
                                      [event |-> rt.pushed[i][1], at |-> rt.pushed[i][2], dims |-> dims]]
  BY DEF Play
<1>1. PICK rt : /\ rt = Played(s, emitted)
                /\ emitted' = rt.emitted
                /\ pushed' = [i \in DOMAIN rt.pushed |->
                       [event |-> rt.pushed[i][1], at |-> rt.pushed[i][2], dims |-> dims]]
  BY <1>7
<1>2. InOrder(s, es, lo, hi)
  BY DEF Ordered
<1>3. ASSUME NEW k \in 1..Len(s), NEW x \in DOMAIN emitted \cap Upto(s[k][1])
      PROVE  emitted[x] \in Int /\ emitted[x] < s[k][2]
  <2>1. PICK e \in es, t \in Int : s[k] = <<e, t>>
    <3>1. s \in Seq(es \X Int)
      BY <1>2 DEF InOrder
    <3>2. s[k] \in es \X Int
      BY <3>1
    <3> QED BY <3>2
  <2>2. from <= t
    <3>1. Upto(s[k][1]) # {}
      BY <1>3
    <3>2. from <= s[k][2]
      BY <3>1 DEF FromOn
    <3> QED BY <3>2, <2>1
  <2>3. x \in Upto(e) /\ x \in DOMAIN emitted
    BY <2>1, <1>3
  <2>4. CASE x \in KycSide
    <3>1. e \in KycEvents
      BY <2>3, <2>4, SideOf
    <3>2. k1 < from
      BY <3>1 DEF KycTouch
    <3>3. emitted[x] \in Int /\ emitted[x] <= k1
      BY <2>3, <2>4 DEF Stamped
    <3> QED BY <3>2, <3>3, <2>1, <2>2
  <2>5. CASE x \in ProSide
    <3>1. e \in ProGated
      BY <2>3, <2>5, SideOf
    <3>2. p1 < from
      BY <3>1
    <3>3. emitted[x] \in Int /\ emitted[x] <= p1
      BY <2>3, <2>5 DEF Stamped
    <3> QED BY <3>2, <3>3, <2>1, <2>2
  <2> QED BY <2>3, <2>4, <2>5, SideOf
<1>4. Going(rt, emitted, es, hi)
  <2>1. DOMAIN emitted \subseteq Names
    BY DEF Stamped
  <2> QED BY <2>1, <1>1, <1>2, <1>3, PlayedGoes
<1>5. Stamped(emitted', k2, p2)
  <2>1. DOMAIN rt.emitted \subseteq Names
    BY <1>4 DEF Going
  <2>2. ASSUME NEW x \in DOMAIN rt.emitted, x \in KycSide PROVE rt.emitted[x] \in Int /\ rt.emitted[x] <= k2
    <3>1. CASE x \in DOMAIN emitted
      <4>1. rt.emitted[x] = emitted[x]
        BY <3>1, <1>4 DEF Going
      <4>2. emitted[x] \in Int /\ emitted[x] <= k1
        BY <3>1, <2>2 DEF Stamped
      <4> QED BY <4>1, <4>2
    <3>2. CASE x \notin DOMAIN emitted
      <4>1. x \in Reach(es) /\ rt.emitted[x] \in Int /\ rt.emitted[x] <= hi
        BY <3>2, <1>4 DEF Going
      <4>2. es \cap KycTouch # {}
        <5>1. x \notin Starts
          BY <2>2 DEF KycSide, Starts
        <5>2. CASE x \in es
          BY <5>2, <2>2 DEF KycTouch
        <5>3. CASE x \in UNION {Upto(e) : e \in es}
          <6>1. PICK e \in es : x \in Upto(e)
            BY <5>3
          <6>2. e \in KycEvents
            BY <6>1, <2>2, SideOf
          <6> QED BY <6>2 DEF KycTouch
        <5> QED BY <4>1, <5>1, <5>2, <5>3 DEF Reach
      <4>3. hi <= k2
        BY <4>2
      <4> QED BY <4>1, <4>3
    <3> QED BY <3>1, <3>2
  <2>3. ASSUME NEW x \in DOMAIN rt.emitted, x \in ProSide PROVE rt.emitted[x] \in Int /\ rt.emitted[x] <= p2
    <3>1. CASE x \in DOMAIN emitted
      <4>1. rt.emitted[x] = emitted[x]
        BY <3>1, <1>4 DEF Going
      <4>2. emitted[x] \in Int /\ emitted[x] <= p1
        BY <3>1, <2>3 DEF Stamped
      <4> QED BY <4>1, <4>2
    <3>2. CASE x \notin DOMAIN emitted
      <4>1. x \in Reach(es) /\ rt.emitted[x] \in Int /\ rt.emitted[x] <= hi
        BY <3>2, <1>4 DEF Going
      <4>2. es \cap ProGated # {}
        <5>1. x \notin Starts
          BY <2>3 DEF ProSide, Starts
        <5>2. CASE x \in es
          BY <5>2, <2>3, SideOf
        <5>3. CASE x \in UNION {Upto(e) : e \in es}
          <6>1. PICK e \in es : x \in Upto(e)
            BY <5>3
          <6>2. e \in ProGated
            BY <6>1, <2>3, SideOf
          <6> QED BY <6>2
        <5> QED BY <4>1, <5>1, <5>2, <5>3 DEF Reach
      <4>3. hi <= p2
        BY <4>2
      <4> QED BY <4>1, <4>3
    <3> QED BY <3>1, <3>2
  <2>4. Stamped(rt.emitted, k2, p2)
    BY <2>1, <2>2, <2>3 DEF Stamped
  <2> QED BY <1>1, <2>4
<1>6. Gated(pushed', emitted, emitted', es, dims)
  <2>1. PICK ps : ps = [i \in DOMAIN rt.pushed |->
                           [event |-> rt.pushed[i][1], at |-> rt.pushed[i][2], dims |-> dims]]
    OBVIOUS
  <2>2. DOMAIN ps = DOMAIN rt.pushed /\ \A i \in DOMAIN ps : /\ ps[i].event = rt.pushed[i][1]
                                                            /\ ps[i].at = rt.pushed[i][2] /\ ps[i].dims = dims
    BY <2>1
  <2>3. ASSUME NEW i \in DOMAIN ps PROVE {ps[j].event : j \in 1..(i - 1)} = Told(rt.pushed, i)
    <3>1. rt.pushed \in Seq(Names \X Int)
      BY <1>4 DEF Going
    <3>2. PICK l \in Nat : l = Len(rt.pushed) /\ DOMAIN rt.pushed = 1..l
      BY <3>1
    <3>3. \A j \in 1..(i - 1) : j \in DOMAIN ps
      BY <3>2, <2>2, <2>3
    <3>4. \A j \in 1..(i - 1) : ps[j].event = rt.pushed[j][1]
      BY <3>3, <2>2
    <3> QED BY <3>4 DEF Told
  <2>4. Gated(ps, emitted, rt.emitted, es, dims)
    <3>1. ASSUME NEW i \in DOMAIN ps
          PROVE  /\ ps[i].event \in Reach(es) /\ ps[i].dims = dims
                 /\ \/ ps[i].event \in Relaxed
                    \/ EarnedAt(ps[i].event, ps[i].at,
                                 DOMAIN emitted \cup {ps[j].event : j \in 1..(i - 1)}, rt.emitted)
      <4>1. /\ rt.pushed[i][1] \in Reach(es)
            /\ \/ rt.pushed[i][1] \in Relaxed
               \/ EarnedAt(rt.pushed[i][1], rt.pushed[i][2], DOMAIN emitted \cup Told(rt.pushed, i), rt.emitted)
        BY <2>2, <1>4 DEF Going
      <4>2. ps[i].event = rt.pushed[i][1] /\ ps[i].at = rt.pushed[i][2] /\ ps[i].dims = dims
        BY <2>2
      <4> QED BY <4>1, <4>2, <2>3
    <3> QED BY <3>1 DEF Gated
  <2> QED BY <1>1, <2>1, <2>4
<1> QED BY <1>5, <1>6

(* ---- the invariant of the journey ---- *)
\* How late the stamps of the loan funnel, and of the pro features, are when a block begins.
KycBy(b) == IF b \in {"register", "login", "browse", "start_kyc", "pulse"} THEN 0
            ELSE IF b = "kyc" THEN 200
            ELSE IF b \in {"spend", "flight", "spend_more", "crypto", "wealth", "payroll", "books", "violation",
                            "loan"} THEN 500
            ELSE 9000
ProBy(b) == IF b \in {"register", "login", "browse", "start_kyc", "kyc", "spend", "flight", "spend_more",
                       "crypto", "pulse"} THEN 0
            ELSE IF b = "wealth" THEN 1375
            ELSE IF b = "payroll" THEN 1398
            ELSE IF b = "books" THEN 1426
            ELSE IF b \in {"violation", "loan", "convert"} THEN 1444
            ELSE IF b = "use" THEN 4505
            ELSE 9000
InSession == {"login", "browse", "start_kyc", "kyc", "spend", "flight", "spend_more", "crypto", "wealth", "payroll", "books",
              "violation", "loan", "convert", "use", "leave"}
\* A session in scope is one the override applies to.
ScopeHolds == inScope => override # None /\ plan.joined - day < override.window /\ InSegment(dims)
JourneyInv == /\ JourneyTypes
              /\ block \in InSession => day <= plan.joined
              /\ ScopeHolds
              /\ Stamped(emitted, KycBy(block), ProBy(block))
              /\ PlantStaysInScope

Harmless == Names \ {"violation"}
\* A step of a block that plants nothing.
Stepped == /\ Stamped(emitted', KycBy(block'), ProBy(block'))
           /\ \E es \in SUBSET Harmless : Gated(pushed', emitted, emitted', es, dims)

\* No back-fill is a plant.
LEMMA ReachHarmless ==
  ASSUME NEW es \in SUBSET Harmless
  PROVE  Reach(es) \subseteq Harmless
<1>1. Starts \subseteq Harmless /\ KycSide \subseteq Harmless /\ ProSide \subseteq Harmless
  BY Reps DEF Starts, KycSide, ProSide, Harmless
<1>2. \A e \in es : Upto(e) \subseteq Harmless
  BY <1>1 DEF Upto
<1> QED BY <1>1, <1>2 DEF Reach

\* The bounds of the blocks are times.
LEMMA BoundsTyped ==
  ASSUME NEW b
  PROVE  KycBy(b) \in Int /\ ProBy(b) \in Int
BY DEF KycBy, ProBy

\* A block whose scripts are in order, between what came before and what it leaves behind.
LEMMA BlockStep ==
  ASSUME Stamped(emitted, KycBy(block), ProBy(block)), NEW here, NEW next, Step(here, next),
         NEW scripts, Play(scripts), NEW es \in SUBSET Harmless, NEW lo \in Int, NEW hi \in Int,
         Ordered(scripts, es, lo, hi), KycBy(here) <= KycBy(next), ProBy(here) <= ProBy(next),
         es \cap KycTouch = {} \/ (KycBy(here) < lo /\ hi <= KycBy(next)),
         es \cap ProGated = {} \/ (ProBy(here) < lo /\ hi <= ProBy(next))
  PROVE  Stepped /\ Gated(pushed', emitted, emitted', es, dims)
<1>1. block = here /\ block' = next
  BY DEF Step
<1>2. es \in SUBSET Names
  BY DEF Harmless
<1>3. FromOn(scripts, lo)
  BY OrderedFrom
<1>4. PICK k1 \in Int, p1 \in Int, k2 \in Int, p2 \in Int :
         k1 = KycBy(here) /\ p1 = ProBy(here) /\ k2 = KycBy(next) /\ p2 = ProBy(next)
  BY BoundsTyped
<1>5. Stamped(emitted', k2, p2) /\ Gated(pushed', emitted, emitted', es, dims)
  <2>1. Stamped(emitted, k1, p1) /\ k1 <= k2 /\ p1 <= p2
    BY <1>1, <1>4
  <2>2. es \cap KycTouch = {} \/ (k1 < lo /\ hi <= k2)
    BY <1>4
  <2>3. es \cap ProGated = {} \/ (p1 < lo /\ hi <= p2)
    BY <1>4
  <2> QED BY <2>1, <2>2, <2>3, <1>2, <1>3, PlayGated
<1> QED BY <1>1, <1>4, <1>5 DEF Stepped

\* Perhaps a failure is said.
LEMMA ChoiceOrdered ==
  ASSUME NEW es, NEW e \in es, NEW at \in Int, NEW flips
  PROVE  Ordered({IF f THEN Say(e, at) ELSE <<>> : f \in flips}, es, at, at)
<1> SUFFICES ASSUME NEW s \in {IF f THEN Say(e, at) ELSE <<>> : f \in flips} PROVE InOrder(s, es, at, at)
  BY DEF Ordered
<1>1. s = Say(e, at) \/ s = <<>>
  OBVIOUS
<1> QED BY <1>1, SayOrdered, NothingOrdered

\* One thing or another is said.
LEMMA EitherOrdered ==
  ASSUME NEW es, NEW e \in es, NEW c \in es, NEW at \in Int, NEW flips
  PROVE  Ordered({IF f THEN Say(e, at) ELSE Say(c, at) : f \in flips}, es, at, at)
<1> SUFFICES ASSUME NEW s \in {IF f THEN Say(e, at) ELSE Say(c, at) : f \in flips} PROVE InOrder(s, es, at, at)
  BY DEF Ordered
<1>1. s = Say(e, at) \/ s = Say(c, at)
  OBVIOUS
<1> QED BY <1>1, SayOrdered

\* A set of one script that says one thing.
LEMMA SaysOrdered ==
  ASSUME NEW es, NEW e \in es, NEW at \in Int
  PROVE  Ordered({Say(e, at)}, es, at, at)
BY SayOrdered, OneOrdered

\* Scripts that say nothing.
LEMMA EmptyOrdered ==
  ASSUME NEW es, NEW lo, NEW hi
  PROVE  Ordered({<<>>}, es, lo, hi) /\ Ordered({}, es, lo, hi)
BY NothingOrdered DEF Ordered

(* ---- the blocks ---- *)
\* The pages of the day, and what follows from the payee pages.
LEMMA BrowseSteps ==
  ASSUME JourneyInv, Browse
  PROVE  Stepped
<1>1. PICK es : es = {"dashboard", "accounts", "transactions", "payees", "payee_added", "paid"}
  OBVIOUS
<1>2. es \in SUBSET Harmless
  BY <1>1 DEF Harmless, Names, Catalogue, Range, Entries, ProGated
<1>3. es \cap KycTouch = {} \/ (KycBy("browse") < 200 /\ 1150 <= KycBy("start_kyc"))
  BY <1>1 DEF KycTouch, KycSide, KycEvents
<1>4. es \cap ProGated = {} \/ (ProBy("browse") < 200 /\ 1150 <= ProBy("start_kyc"))
  BY <1>1 DEF ProGated
<1>5. {"dashboard", "accounts", "transactions", "payees", "payee_added", "paid"} \subseteq es
  BY <1>1
<1>6. PICK dash : dash = Roll("dashboard", 70, 200)
  OBVIOUS
<1>7. Ordered(dash, es, 200, 200)
  BY <1>6, <1>5, RollOrdered
<1>8. PICK accts : accts = Roll("accounts", 40, 400)
  OBVIOUS
<1>9. Ordered(accts, es, 400, 400)
  BY <1>8, <1>5, RollOrdered
<1>10. PICK trans : trans = Roll("transactions", 30, 800)
  OBVIOUS
<1>11. Ordered(trans, es, 800, 800)
  BY <1>10, <1>5, RollOrdered
<1>12. PICK looks : looks = Then(dash, accts)
  OBVIOUS
<1>13. Ordered(looks, es, 200, 400)
  BY <1>12, <1>7, <1>9, ThenOrdered
<1>14. PICK reads : reads = Then(looks, trans)
  OBVIOUS
<1>15. Ordered(reads, es, 200, 800)
  BY <1>14, <1>11, <1>13, ThenOrdered
<1>16. PICK payees : payees = Roll("payees", 15, 1000)
  OBVIOUS
<1>17. Ordered(payees, es, 1000, 1000)
  BY <1>16, <1>5, RollOrdered
<1>18. PICK adds : adds = Roll("payee_added", 30, 1100)
  OBVIOUS
<1>19. Ordered(adds, es, 1100, 1100)
  BY <1>18, <1>5, RollOrdered
<1>20. PICK sends : sends = Roll("paid", 25, 1150)
  OBVIOUS
<1>21. Ordered(sends, es, 1150, 1150)
  BY <1>20, <1>5, RollOrdered
<1>22. PICK pays : pays = Then(adds, sends)
  OBVIOUS
<1>23. Ordered(pays, es, 1100, 1150)
  BY <1>22, <1>19, <1>21, ThenOrdered
<1>24. PICK moves : moves = Follow(payees, pays)
  OBVIOUS
<1>25. Ordered(moves, es, 1000, 1150)
  BY <1>24, <1>17, <1>23, FollowOrdered
<1>26. PICK scripts : scripts = Then(reads, moves)
  OBVIOUS
<1>27. Ordered(scripts, es, 200, 1150)
  BY <1>26, <1>15, <1>25, ThenOrdered
<1>28. Step("browse", "start_kyc") /\ Play(scripts)
  BY <1>6, <1>8, <1>10, <1>12, <1>14, <1>16, <1>18, <1>20, <1>22, <1>24, <1>26 DEF Browse
<1>29. KycBy("browse") <= KycBy("start_kyc") /\ ProBy("browse") <= ProBy("start_kyc")
  BY DEF KycBy, ProBy
<1>30. Stamped(emitted, KycBy(block), ProBy(block))
  BY DEF JourneyInv
<1> QED BY <1>2, <1>3, <1>4, <1>27, <1>28, <1>29, <1>30, BlockStep

\* The first of the suites of an enterprise persona.
LEMMA CryptoSteps ==
  ASSUME JourneyInv, Crypto
  PROVE  Stepped
<1>1. PICK es : es = {"features", "crypto", "feeds", "portfolio", "traded", "trade_failed"}
  OBVIOUS
<1>2. es \in SUBSET Harmless
  BY <1>1 DEF Harmless, Names, Catalogue, Range, Entries, ProGated
<1>3. es \cap KycTouch = {} \/ (KycBy("crypto") < 1300 /\ 1375 <= KycBy("wealth"))
  BY <1>1 DEF KycTouch, KycSide, KycEvents
<1>4. es \cap ProGated = {} \/ (ProBy("crypto") < 1300 /\ 1375 <= ProBy("wealth"))
  BY DEF ProBy
<1>5. {"features", "crypto", "feeds", "portfolio", "traded", "trade_failed"} \subseteq es
  BY <1>1
<1>6. PICK opens : opens = Roll("features", 100, 1300)
  OBVIOUS
<1>7. Ordered(opens, es, 1300, 1300)
  BY <1>6, <1>5, RollOrdered
<1>8. PICK looks : looks = Roll("crypto", 22, 1345)
  OBVIOUS
<1>9. Ordered(looks, es, 1345, 1345)
  BY <1>8, <1>5, RollOrdered
<1>10. PICK feeds : feeds = {Say("feeds", 1350)}
  OBVIOUS
<1>11. Ordered(feeds, es, 1350, 1350)
  BY <1>10, <1>5, SaysOrdered
<1>12. PICK reads : reads = Follow(looks, feeds)
  OBVIOUS
<1>13. Ordered(reads, es, 1345, 1350)
  BY <1>12, <1>9, <1>11, FollowOrdered
<1>14. PICK holds : holds = Roll("portfolio", 14, 1360)
  OBVIOUS
<1>15. Ordered(holds, es, 1360, 1360)
  BY <1>14, <1>5, RollOrdered
<1>16. PICK trades : trades = Roll("traded", 11, 1370)
  OBVIOUS
<1>17. Ordered(trades, es, 1370, 1370)
  BY <1>16, <1>5, RollOrdered
<1>18. PICK flips : flips = Fails("trade_failed", 9)
  OBVIOUS
<1>19. PICK fails : fails = {IF f THEN Say("trade_failed", 1375) ELSE <<>> : f \in flips}
  OBVIOUS
<1>20. Ordered(fails, es, 1375, 1375)
  BY <1>19, <1>5, ChoiceOrdered
<1>21. PICK deals : deals = Follow(trades, fails)
  OBVIOUS
<1>22. Ordered(deals, es, 1370, 1375)
  BY <1>21, <1>17, <1>20, FollowOrdered
<1>23. PICK ends : ends = Then(holds, deals)
  OBVIOUS
<1>24. Ordered(ends, es, 1360, 1375)
  BY <1>23, <1>15, <1>22, ThenOrdered
<1>25. PICK rest : rest = Then(reads, ends)
  OBVIOUS
<1>26. Ordered(rest, es, 1345, 1375)
  BY <1>25, <1>13, <1>24, ThenOrdered
<1>27. PICK scripts : scripts = Then(opens, rest)
  OBVIOUS
<1>28. Ordered(scripts, es, 1300, 1375)
  BY <1>27, <1>7, <1>26, ThenOrdered
<1>29. Step("crypto", "wealth") /\ Play(scripts)
  BY <1>6, <1>8, <1>10, <1>12, <1>14, <1>16, <1>18, <1>19, <1>21, <1>23, <1>25, <1>27 DEF Crypto, Suite
<1>30. KycBy("crypto") <= KycBy("wealth") /\ ProBy("crypto") <= ProBy("wealth")
  BY DEF KycBy, ProBy
<1>31. Stamped(emitted, KycBy(block), ProBy(block))
  BY DEF JourneyInv
<1> QED BY <1>2, <1>3, <1>4, <1>28, <1>29, <1>30, <1>31, BlockStep

\* The second suite.
LEMMA WealthSteps ==
  ASSUME JourneyInv, Wealth
  PROVE  Stepped
<1>1. PICK es : es = {"insights", "rebalanced", "rebalance_failed"}
  OBVIOUS
<1>2. es \in SUBSET Harmless
  BY <1>1 DEF Harmless, Names, Catalogue, Range, Entries, ProGated
<1>3. es \cap KycTouch = {} \/ (KycBy("wealth") < 1385 /\ 1398 <= KycBy("payroll"))
  BY <1>1 DEF KycTouch, KycSide, KycEvents
<1>4. es \cap ProGated = {} \/ (ProBy("wealth") < 1385 /\ 1398 <= ProBy("payroll"))
  BY DEF ProBy
<1>5. {"insights", "rebalanced", "rebalance_failed"} \subseteq es
  BY <1>1
<1>6. PICK looks : looks = Roll("insights", 16, 1385)
  OBVIOUS
<1>7. Ordered(looks, es, 1385, 1385)
  BY <1>6, <1>5, RollOrdered
<1>8. PICK moves : moves = Roll("rebalanced", 8, 1395)
  OBVIOUS
<1>9. Ordered(moves, es, 1395, 1395)
  BY <1>8, <1>5, RollOrdered
<1>10. PICK flips : flips = Fails("rebalance_failed", 6)
  OBVIOUS
<1>11. PICK fails : fails = {IF f THEN Say("rebalance_failed", 1398) ELSE <<>> : f \in flips}
  OBVIOUS
<1>12. Ordered(fails, es, 1398, 1398)
  BY <1>11, <1>5, ChoiceOrdered
<1>13. PICK deals : deals = Follow(moves, fails)
  OBVIOUS
<1>14. Ordered(deals, es, 1395, 1398)
  BY <1>13, <1>9, <1>12, FollowOrdered
<1>15. PICK scripts : scripts = Then(looks, deals)
  OBVIOUS
<1>16. Ordered(scripts, es, 1385, 1398)
  BY <1>15, <1>7, <1>14, ThenOrdered
<1>17. Step("wealth", "payroll") /\ Play(scripts)
  BY <1>6, <1>8, <1>10, <1>11, <1>13, <1>15 DEF Wealth, Suite
<1>18. KycBy("wealth") <= KycBy("payroll") /\ ProBy("wealth") <= ProBy("payroll")
  BY DEF KycBy, ProBy
<1>19. Stamped(emitted, KycBy(block), ProBy(block))
  BY DEF JourneyInv
<1> QED BY <1>2, <1>3, <1>4, <1>16, <1>17, <1>18, <1>19, BlockStep

\* The third suite.
LEMMA PayrollSteps ==
  ASSUME JourneyInv, Payroll
  PROVE  Stepped
<1>1. PICK es : es = {"payroll", "searched", "search_failed", "batch", "batch_failed"}
  OBVIOUS
<1>2. es \in SUBSET Harmless
  BY <1>1 DEF Harmless, Names, Catalogue, Range, Entries, ProGated
<1>3. es \cap KycTouch = {} \/ (KycBy("payroll") < 1410 /\ 1426 <= KycBy("books"))
  BY <1>1 DEF KycTouch, KycSide, KycEvents
<1>4. es \cap ProGated = {} \/ (ProBy("payroll") < 1410 /\ 1426 <= ProBy("books"))
  BY DEF ProBy
<1>5. {"payroll", "searched", "search_failed", "batch", "batch_failed"} \subseteq es
  BY <1>1
<1>6. PICK looks : looks = Roll("payroll", 13, 1410)
  OBVIOUS
<1>7. Ordered(looks, es, 1410, 1410)
  BY <1>6, <1>5, RollOrdered
<1>8. PICK seeks : seeks = Attempt("searched", 10, "searched", "search_failed", 12, 1418)
  OBVIOUS
<1>9. Ordered(seeks, es, 1418, 1418)
  BY <1>8, <1>5, AttemptOrdered
<1>10. PICK runs : runs = Attempt("batch", 7, "batch", "batch_failed", 10, 1426)
  OBVIOUS
<1>11. Ordered(runs, es, 1426, 1426)
  BY <1>10, <1>5, AttemptOrdered
<1>12. PICK rest : rest = Then(seeks, runs)
  OBVIOUS
<1>13. Ordered(rest, es, 1418, 1426)
  BY <1>12, <1>9, <1>11, ThenOrdered
<1>14. PICK scripts : scripts = Then(looks, rest)
  OBVIOUS
<1>15. Ordered(scripts, es, 1410, 1426)
  BY <1>14, <1>7, <1>13, ThenOrdered
<1>16. Step("payroll", "books") /\ Play(scripts)
  BY <1>6, <1>8, <1>10, <1>12, <1>14 DEF Payroll, Suite
<1>17. KycBy("payroll") <= KycBy("books") /\ ProBy("payroll") <= ProBy("books")
  BY DEF KycBy, ProBy
<1>18. Stamped(emitted, KycBy(block), ProBy(block))
  BY DEF JourneyInv
<1> QED BY <1>2, <1>3, <1>4, <1>15, <1>16, <1>17, <1>18, BlockStep

\* The last suite.
LEMMA BooksSteps ==
  ASSUME JourneyInv, Books
  PROVE  Stepped
<1>1. PICK es : es = {"stats", "book"}
  OBVIOUS
<1>2. es \in SUBSET Harmless
  BY <1>1 DEF Harmless, Names, Catalogue, Range, Entries, ProGated
<1>3. es \cap KycTouch = {} \/ (KycBy("books") < 1436 /\ 1444 <= KycBy("violation"))
  BY <1>1 DEF KycTouch, KycSide, KycEvents
<1>4. es \cap ProGated = {} \/ (ProBy("books") < 1436 /\ 1444 <= ProBy("violation"))
  BY DEF ProBy
<1>5. {"stats", "book"} \subseteq es
  BY <1>1
<1>6. PICK looks : looks = Roll("stats", 15, 1436)
  OBVIOUS
<1>7. Ordered(looks, es, 1436, 1436)
  BY <1>6, <1>5, RollOrdered
<1>8. PICK reads : reads = Roll("book", 9, 1444)
  OBVIOUS
<1>9. Ordered(reads, es, 1444, 1444)
  BY <1>8, <1>5, RollOrdered
<1>10. PICK scripts : scripts = Then(looks, reads)
  OBVIOUS
<1>11. Ordered(scripts, es, 1436, 1444)
  BY <1>10, <1>7, <1>9, ThenOrdered
<1>12. Step("books", "violation") /\ Play(scripts)
  BY <1>6, <1>8, <1>10 DEF Books, Suite
<1>13. KycBy("books") <= KycBy("violation") /\ ProBy("books") <= ProBy("violation")
  BY DEF KycBy, ProBy
<1>14. Stamped(emitted, KycBy(block), ProBy(block))
  BY DEF JourneyInv
<1> QED BY <1>2, <1>3, <1>4, <1>11, <1>12, <1>13, <1>14, BlockStep

\* The end of the day.
LEMMA LeaveSteps ==
  ASSUME JourneyInv, Leave
  PROVE  Stepped
<1>1. PICK es : es = {"profile", "history"}
  OBVIOUS
<1>2. es \in SUBSET Harmless
  BY <1>1 DEF Harmless, Names, Catalogue, Range, Entries, ProGated
<1>3. es \cap KycTouch = {} \/ (KycBy("leave") < 7000 /\ 7200 <= KycBy("open"))
  BY <1>1 DEF KycTouch, KycSide, KycEvents
<1>4. es \cap ProGated = {} \/ (ProBy("leave") < 7000 /\ 7200 <= ProBy("open"))
  BY <1>1 DEF ProGated
<1>5. {"profile", "history"} \subseteq es
  BY <1>1
<1>6. PICK looks : looks = Roll("profile", 8, 7000)
  OBVIOUS
<1>7. Ordered(looks, es, 7000, 7000)
  BY <1>6, <1>5, RollOrdered
<1>8. PICK reads : reads = Roll("history", 12, 7200)
  OBVIOUS
<1>9. Ordered(reads, es, 7200, 7200)
  BY <1>8, <1>5, RollOrdered
<1>10. PICK scripts : scripts = Then(looks, reads)
  OBVIOUS
<1>11. Ordered(scripts, es, 7000, 7200)
  BY <1>10, <1>7, <1>9, ThenOrdered
<1>12. Step("leave", "open") /\ Play(scripts)
  BY <1>6, <1>8, <1>10 DEF Leave
<1>13. KycBy("leave") <= KycBy("open") /\ ProBy("leave") <= ProBy("open")
  BY DEF KycBy, ProBy
<1>14. Stamped(emitted, KycBy(block), ProBy(block))
  BY DEF JourneyInv
<1> QED BY <1>2, <1>3, <1>4, <1>11, <1>12, <1>13, <1>14, BlockStep

\* KYC is started.
LEMMA StartKycSteps ==
  ASSUME JourneyInv, StartKyc
  PROVE  Stepped
<1>1. PICK es : es = {"kyc_started"}
  OBVIOUS
<1>2. es \in SUBSET Harmless
  BY <1>1 DEF Harmless, Names, Catalogue, Range, Entries, ProGated
<1>3. es \cap KycTouch = {} \/ (KycBy("start_kyc") < 200 /\ 200 <= KycBy("kyc"))
  BY DEF KycBy
<1>4. es \cap ProGated = {} \/ (ProBy("start_kyc") < 200 /\ 200 <= ProBy("kyc"))
  BY <1>1 DEF ProGated
<1>5. {"kyc_started"} \subseteq es
  BY <1>1
<1>6. PICK none : none = {<<>>}
  OBVIOUS
<1>7. Ordered(none, es, 200, 200)
  BY <1>6, EmptyOrdered
<1>8. PICK starts : starts = Roll("kyc_started", 25, 200)
  OBVIOUS
<1>9. Ordered(starts, es, 200, 200)
  BY <1>8, <1>5, RollOrdered
<1>10. PICK scripts : scripts = IF kyc = "NOT_STARTED" /\ day > KycAfter THEN starts ELSE none
  OBVIOUS
<1>11. Ordered(scripts, es, 200, 200)
  BY <1>10, <1>7, <1>9
<1>12. Step("start_kyc", "kyc") /\ Play(scripts)
  BY <1>6, <1>8, <1>10 DEF StartKyc
<1>13. KycBy("start_kyc") <= KycBy("kyc") /\ ProBy("start_kyc") <= ProBy("kyc")
  BY DEF KycBy, ProBy
<1>14. Stamped(emitted, KycBy(block), ProBy(block))
  BY DEF JourneyInv
<1> QED BY <1>2, <1>3, <1>4, <1>11, <1>12, <1>13, <1>14, BlockStep

\* KYC is decided.
LEMMA DecideKycSteps ==
  ASSUME JourneyInv, DecideKyc
  PROVE  Stepped
<1>1. PICK es : es = {"kyc_completed", "kyc_failed"}
  OBVIOUS
<1>2. es \in SUBSET Harmless
  BY <1>1 DEF Harmless, Names, Catalogue, Range, Entries, ProGated
<1>3. es \cap KycTouch = {} \/ (KycBy("kyc") < 500 /\ 500 <= KycBy("spend"))
  BY DEF KycBy
<1>4. es \cap ProGated = {} \/ (ProBy("kyc") < 500 /\ 500 <= ProBy("spend"))
  BY <1>1 DEF ProGated
<1>5. {"kyc_completed", "kyc_failed"} \subseteq es
  BY <1>1
<1>6. PICK none : none = {<<>>}
  OBVIOUS
<1>7. Ordered(none, es, 500, 500)
  BY <1>6, EmptyOrdered
<1>8. PICK decides : decides = Attempt("kyc_completed", Maybe, "kyc_completed", "kyc_failed", 15, 500)
  OBVIOUS
<1>9. Ordered(decides, es, 500, 500)
  BY <1>8, <1>5, AttemptOrdered
<1>10. PICK scripts : scripts = IF kyc = "PENDING" THEN decides ELSE none
  OBVIOUS
<1>11. Ordered(scripts, es, 500, 500)
  BY <1>10, <1>7, <1>9
<1>12. Step("kyc", "spend") /\ Play(scripts)
  BY <1>6, <1>8, <1>10 DEF DecideKyc
<1>13. KycBy("kyc") <= KycBy("spend") /\ ProBy("kyc") <= ProBy("spend")
  BY DEF KycBy, ProBy
<1>14. Stamped(emitted, KycBy(block), ProBy(block))
  BY DEF JourneyInv
<1> QED BY <1>2, <1>3, <1>4, <1>11, <1>12, <1>13, <1>14, BlockStep

\* The first session of a new customer.
LEMMA RegisterSteps ==
  ASSUME JourneyInv, Register
  PROVE  Stepped
<1>1. PICK es : es = {"register", "login", "opt_in"}
  OBVIOUS
<1>2. es \in SUBSET Harmless
  BY <1>1 DEF Harmless, Names, Catalogue, Range, Entries, ProGated
<1>3. es \cap KycTouch = {} \/ (KycBy("register") < 0 /\ 90 <= KycBy("open"))
  BY <1>1 DEF KycTouch, KycSide, KycEvents
<1>4. es \cap ProGated = {} \/ (ProBy("register") < 0 /\ 90 <= ProBy("open"))
  BY <1>1 DEF ProGated
<1>5. {"register", "login", "opt_in"} \subseteq es
  BY <1>1
<1>6. PICK registers : registers = Roll("register", 100, 0)
  OBVIOUS
<1>7. Ordered(registers, es, 0, 0)
  BY <1>6, <1>5, RollOrdered
<1>8. PICK perhaps : perhaps = Perhaps(registers)
  OBVIOUS
<1>9. Ordered(perhaps, es, 0, 0)
  BY <1>8, <1>7, PerhapsOrdered
<1>10. PICK logs : logs = Roll("login", 100, 60)
  OBVIOUS
<1>11. Ordered(logs, es, 60, 60)
  BY <1>10, <1>5, RollOrdered
<1>12. PICK begins : begins = Then(perhaps, logs)
  OBVIOUS
<1>13. Ordered(begins, es, 0, 60)
  BY <1>12, <1>9, <1>11, ThenOrdered
<1>14. PICK opts : opts = Roll("opt_in", 100, 90)
  OBVIOUS
<1>15. Ordered(opts, es, 90, 90)
  BY <1>14, <1>5, RollOrdered
<1>16. PICK says : says = Perhaps(opts)
  OBVIOUS
<1>17. Ordered(says, es, 90, 90)
  BY <1>16, <1>15, PerhapsOrdered
<1>18. PICK scripts : scripts = Then(begins, says)
  OBVIOUS
<1>19. Ordered(scripts, es, 0, 90)
  BY <1>18, <1>13, <1>17, ThenOrdered
<1>20. Step("register", "open") /\ Play(scripts)
  BY <1>6, <1>8, <1>10, <1>12, <1>14, <1>16, <1>18 DEF Register
<1>21. KycBy("register") <= KycBy("open") /\ ProBy("register") <= ProBy("open")
  BY DEF KycBy, ProBy
<1>22. Stamped(emitted, KycBy(block), ProBy(block))
  BY DEF JourneyInv
<1> QED BY <1>2, <1>3, <1>4, <1>19, <1>20, <1>21, <1>22, BlockStep

\* The login of a session.
LEMMA LoginSteps ==
  ASSUME JourneyInv, Login
  PROVE  Stepped
<1>1. PICK es : es = {"login"}
  OBVIOUS
<1>2. es \in SUBSET Harmless
  BY <1>1 DEF Harmless, Names, Catalogue, Range, Entries, ProGated
<1>3. es \cap KycTouch = {} \/ (KycBy("login") < 0 /\ 0 <= KycBy("browse"))
  BY <1>1 DEF KycTouch, KycSide, KycEvents
<1>4. es \cap ProGated = {} \/ (ProBy("login") < 0 /\ 0 <= ProBy("browse"))
  BY <1>1 DEF ProGated
<1>5. {"login"} \subseteq es
  BY <1>1
<1>6. PICK scripts : scripts = Roll("login", 100, 0)
  OBVIOUS
<1>7. Ordered(scripts, es, 0, 0)
  BY <1>6, <1>5, RollOrdered
<1>8. Step("login", "browse") /\ Play(scripts)
  BY <1>6 DEF Login
<1>9. KycBy("login") <= KycBy("browse") /\ ProBy("login") <= ProBy("browse")
  BY DEF KycBy, ProBy
<1>10. Stamped(emitted, KycBy(block), ProBy(block))
  BY DEF JourneyInv
<1> QED BY <1>2, <1>3, <1>4, <1>7, <1>8, <1>9, <1>10, BlockStep

\* Looking at the features, and what may come of it.
LEMMA UnlockOrdered ==
  ASSUME NEW es, "features" \in es, "unlocked" \in es, "unlock_failed" \in es,
         NEW t \in Int, NEW u \in Int, t < u
  PROVE  Ordered({Say("features", t) \o more : more \in {Say("unlocked", u), Say("unlock_failed", u), <<>>}},
                 es, t, u)
<1>1. PICK looks : looks = {Say("features", t)}
  OBVIOUS
<1>2. PICK ends : ends = {Say("unlocked", u), Say("unlock_failed", u), <<>>}
  OBVIOUS
<1>3. Ordered(looks, es, t, t)
  BY <1>1, SaysOrdered
<1>4. Ordered(ends, es, u, u)
  BY <1>2, SayOrdered, NothingOrdered DEF Ordered
<1>5. Ordered(Then(looks, ends), es, t, u)
  BY <1>3, <1>4, ThenOrdered
<1>6. Then(looks, ends) = {Say("features", t) \o more : more \in ends}
  BY <1>1 DEF Then
<1> QED BY <1>2, <1>5, <1>6

\* An application and what follows it.
LEMMA LoanOrdered ==
  ASSUME NEW es, "loans" \in es, "applied" \in es, "kyc_abandoned" \in es, "kyc_completed" \in es,
         "approved" \in es, "disbursed" \in es
  PROVE  Ordered(LoanScripts, es, 2800, 4400)
<1>0. PICK t1 \in Int, t2 \in Int, t3 \in Int, t4 \in Int, t5 \in Int :
         t1 = 2800 /\ t2 = 3000 /\ t3 = 3500 /\ t4 = 4200 /\ t5 = 4400
  OBVIOUS
<1>1. InOrder(Say("loans", t1), es, t1, t1) /\ InOrder(Say("applied", t2), es, t2, t2)
      /\ InOrder(Say("kyc_abandoned", t3), es, t3, t3) /\ InOrder(Say("kyc_completed", t3), es, t3, t3)
      /\ InOrder(Say("approved", t4), es, t4, t4) /\ InOrder(Say("disbursed", t5), es, t5, t5)
  BY SayOrdered
<1>2. PICK opens : opens = Say("loans", t1) \o Say("applied", t2)
  OBVIOUS
<1>3. InOrder(opens, es, t1, t2)
  BY <1>0, <1>1, <1>2, JoinOrdered
<1>4. PICK agrees : agrees = Say("kyc_completed", t3) \o Say("approved", t4)
  OBVIOUS
<1>5. InOrder(agrees, es, t3, t4)
  BY <1>0, <1>1, <1>4, JoinOrdered
<1>6. PICK pays : pays = agrees \o Say("disbursed", t5)
  OBVIOUS
<1>7. InOrder(pays, es, t3, t5)
  BY <1>0, <1>1, <1>5, <1>6, JoinOrdered
<1>8. InOrder(opens \o Say("kyc_abandoned", t3), es, t1, t3)
  BY <1>0, <1>1, <1>3, JoinOrdered
<1>9. InOrder(opens \o Say("kyc_completed", t3), es, t1, t3)
  BY <1>0, <1>1, <1>3, JoinOrdered
<1>10. InOrder(opens \o pays, es, t1, t5)
  BY <1>0, <1>3, <1>7, JoinOrdered
<1>11. PICK ends : ends = {opens \o Say("kyc_abandoned", t3), opens \o Say("kyc_completed", t3)}
  OBVIOUS
<1>12. Ordered(ends, es, t1, t3)
  BY <1>8, <1>9, <1>11 DEF Ordered
<1>13. Ordered(ends, es, t1, t5)
  BY <1>0, <1>12, Wider
<1>14. ASSUME NEW s \in LoanScripts PROVE s \in ends \/ s = opens \o pays
  <2>1. PICK rests : rests = {Say("kyc_abandoned", t3), Say("kyc_completed", t3)} \cup
                            {Say("kyc_completed", t3) \o Say("approved", t4) \o Say("disbursed", t5) :
                                g \in Gate("approved", 72) \cap {TRUE}}
    OBVIOUS
  <2>2. LoanScripts = {Say("loans", t1) \o Say("applied", t2) \o rest : rest \in rests}
    BY <1>0, <2>1 DEF LoanScripts
  <2>3. PICK rest \in rests : s = opens \o rest
    BY <2>2, <1>2
  <2>4. rest = Say("kyc_abandoned", t3) \/ rest = Say("kyc_completed", t3) \/ rest = pays
    BY <2>1, <2>3, <1>4, <1>6
  <2> QED BY <2>3, <2>4, <1>11
<1>15. Ordered(LoanScripts, es, t1, t5)
  BY <1>10, <1>13, <1>14 DEF Ordered
<1> QED BY <1>0, <1>15

\* The licensed feature is used: the credit book.
LEMMA BookOrdered ==
  ASSUME NEW es, "book" \in es, "book_failed" \in es, "stats" \in es, pro = "book"
  PROVE  Ordered(UseScripts, es, 5950, 6500)
<1>0. PICK t0 \in Int, t1 \in Int, t2 \in Int :
         t0 = 5950 /\ t1 = 6000 /\ t2 = 6100
  OBVIOUS
<1>1. PICK flips : flips = Fails("book_failed", 3)
  OBVIOUS
<1>2. UseScripts = {Say(e, t1) \o Say("stats", t2) : e \in {IF f THEN "book_failed" ELSE "book" : f \in flips}}
  BY <1>0, <1>1 DEF UseScripts
<1>3. ASSUME NEW e \in es PROVE InOrder(Say(e, t1) \o Say("stats", t2), es, t1, t2)
  BY <1>0, SayOrdered, JoinOrdered
<1>4. Ordered(UseScripts, es, t1, t2)
  BY <1>2, <1>3 DEF Ordered
<1> QED BY <1>0, <1>4, Wider

\* The trading desk.
LEMMA TradeOrdered ==
  ASSUME NEW es, "crypto" \in es, "feeds" \in es, "feeds_failed" \in es, "traded" \in es, "trade_failed" \in es,
         "portfolio" \in es, pro = "traded"
  PROVE  Ordered(UseScripts, es, 5950, 6500)
<1>0. PICK t0 \in Int, t1 \in Int, t2 \in Int, t3 \in Int :
         t0 = 5950 /\ t1 = 6000 /\ t2 = 6200 /\ t3 = 6300
  OBVIOUS
<1>1. PICK flips : flips = Fails("feeds_failed", 3)
  OBVIOUS
<1>2. ASSUME NEW f \in flips
      PROVE  Ordered(Then({Say("crypto", t0) \o Say(IF f THEN "feeds_failed" ELSE "feeds", t1)},
                          Then(Perhaps({Say(IF f THEN "trade_failed" ELSE "traded", t2)}),
                               {Say("portfolio", t3)})), es, t0, t3)
  <2>1. PICK feed \in es, trade \in es : feed = (IF f THEN "feeds_failed" ELSE "feeds")
                                         /\ trade = (IF f THEN "trade_failed" ELSE "traded")
    OBVIOUS
  <2>2. PICK opens : opens = {Say("crypto", t0) \o Say(feed, t1)}
    OBVIOUS
  <2>3. InOrder(Say("crypto", t0) \o Say(feed, t1), es, t0, t1)
    BY <1>0, SayOrdered, JoinOrdered
  <2>4. Ordered(opens, es, t0, t1)
    BY <2>2, <2>3, OneOrdered
  <2>5. PICK trades : trades = {Say(trade, t2)}
    OBVIOUS
  <2>6. Ordered(trades, es, t2, t2)
    BY <2>5, SaysOrdered
  <2>7. PICK deals : deals = Perhaps(trades)
    OBVIOUS
  <2>8. Ordered(deals, es, t2, t2)
    BY <2>6, <2>7, PerhapsOrdered
  <2>9. PICK looks : looks = {Say("portfolio", t3)}
    OBVIOUS
  <2>10. Ordered(looks, es, t3, t3)
    BY <2>9, SaysOrdered
  <2>11. PICK ends : ends = Then(deals, looks)
    OBVIOUS
  <2>12. Ordered(ends, es, t2, t3)
    BY <1>0, <2>8, <2>10, <2>11, ThenOrdered
  <2>13. Ordered(Then(opens, ends), es, t0, t3)
    BY <1>0, <2>4, <2>12, ThenOrdered
  <2> QED BY <2>1, <2>2, <2>5, <2>7, <2>9, <2>11, <2>13
<1>3. UseScripts = UNION {Then({Say("crypto", t0) \o Say(IF f THEN "feeds_failed" ELSE "feeds", t1)},
                               Then(Perhaps({Say(IF f THEN "trade_failed" ELSE "traded", t2)}),
                                    {Say("portfolio", t3)})) : f \in flips}
  BY <1>0, <1>1 DEF UseScripts
<1>4. Ordered(UseScripts, es, t0, t3)
  <2>1. ASSUME NEW s \in UseScripts PROVE InOrder(s, es, t0, t3)
    <3>1. PICK f \in flips : s \in Then({Say("crypto", t0) \o Say(IF f THEN "feeds_failed" ELSE "feeds", t1)},
                                        Then(Perhaps({Say(IF f THEN "trade_failed" ELSE "traded", t2)}),
                                             {Say("portfolio", t3)}))
      BY <1>3
    <3> QED BY <3>1, <1>2 DEF Ordered
  <2> QED BY <2>1 DEF Ordered
<1> QED BY <1>0, <1>4, Wider

\* The wealth insights.
LEMMA InsightsOrdered ==
  ASSUME NEW es, "insights" \in es, "insights_failed" \in es, "rebalanced" \in es, pro = "insights"
  PROVE  Ordered(UseScripts, es, 5950, 6500)
<1>0. PICK t0 \in Int, t1 \in Int, t2 \in Int :
         t0 = 5950 /\ t1 = 6000 /\ t2 = 6500
  OBVIOUS
<1>1. PICK flips : flips = Fails("insights_failed", 3)
  OBVIOUS
<1>2. PICK looks : looks = {IF f THEN Say("insights_failed", t1) ELSE Say("insights", t1) : f \in flips}
  OBVIOUS
<1>3. Ordered(looks, es, t1, t1)
  BY <1>2, EitherOrdered
<1>4. PICK moves : moves = {Say("rebalanced", t2)}
  OBVIOUS
<1>5. Ordered(moves, es, t2, t2)
  BY <1>4, SaysOrdered
<1>6. PICK ends : ends = Perhaps(moves)
  OBVIOUS
<1>7. Ordered(ends, es, t2, t2)
  BY <1>5, <1>6, PerhapsOrdered
<1>8. Ordered(Then(looks, ends), es, t1, t2)
  BY <1>0, <1>3, <1>7, ThenOrdered
<1>9. UseScripts = Then(looks, ends)
  BY <1>0, <1>1, <1>2, <1>4, <1>6 DEF UseScripts
<1> QED BY <1>0, <1>8, <1>9, Wider

\* The payroll batches.
LEMMA BatchOrdered ==
  ASSUME NEW es, "payroll" \in es, "batch" \in es, "batch_failed" \in es, pro = "batch"
  PROVE  Ordered(UseScripts, es, 5950, 6500)
<1>0. PICK t0 \in Int, t1 \in Int, t2 \in Int :
         t0 = 5950 /\ t1 = 6000 /\ t2 = 6500
  OBVIOUS
<1>1. PICK flips : flips = Fails("batch_failed", 3)
  OBVIOUS
<1>2. PICK looks : looks = {Say("payroll", t1)}
  OBVIOUS
<1>3. Ordered(looks, es, t1, t1)
  BY <1>2, SaysOrdered
<1>4. PICK moves : moves = {IF f THEN Say("batch_failed", t2) ELSE Say("batch", t2) : f \in flips}
  OBVIOUS
<1>5. Ordered(moves, es, t2, t2)
  BY <1>4, EitherOrdered
<1>6. PICK ends : ends = Perhaps(moves)
  OBVIOUS
<1>7. Ordered(ends, es, t2, t2)
  BY <1>5, <1>6, PerhapsOrdered
<1>8. Ordered(Then(looks, ends), es, t1, t2)
  BY <1>0, <1>3, <1>7, ThenOrdered
<1>9. UseScripts = Then(looks, ends)
  BY <1>0, <1>1, <1>2, <1>4, <1>6 DEF UseScripts
<1> QED BY <1>0, <1>8, <1>9, Wider

\* Whichever feature the licence is for.
LEMMA UseOrdered ==
  ASSUME NEW es, pro \in Features,
         {"book", "book_failed", "stats", "crypto", "feeds", "feeds_failed", "traded", "trade_failed", "portfolio",
          "insights", "insights_failed", "rebalanced", "payroll", "batch", "batch_failed"} \subseteq es
  PROVE  Ordered(UseScripts, es, 5950, 6500)
<1>1. pro = "book" \/ pro = "traded" \/ pro = "insights" \/ pro = "batch"
  BY DEF Features
<1>2. CASE pro = "book"
  BY <1>2, BookOrdered
<1>3. CASE pro = "traded"
  BY <1>3, TradeOrdered
<1>4. CASE pro = "insights"
  BY <1>4, InsightsOrdered
<1>5. CASE pro = "batch"
  BY <1>5, BatchOrdered
<1> QED BY <1>1, <1>2, <1>3, <1>4, <1>5

\* Scripts that are empty or among scripts in order are in order.
LEMMA SomeOrdered ==
  ASSUME NEW es, NEW lo, NEW hi, NEW some, Ordered(some, es, lo, hi),
         NEW scripts, \A s \in scripts : s = <<>> \/ s \in some
  PROVE  Ordered(scripts, es, lo, hi)
<1>1. ASSUME NEW s \in scripts PROVE InOrder(s, es, lo, hi)
  <2>1. CASE s = <<>>
    <3>1. InOrder(<<>>, es, lo, hi)
      BY NothingOrdered
    <3> QED BY <2>1, <3>1
  <2>2. CASE s \in some
    BY <2>2 DEF Ordered
  <2> QED BY <2>1, <2>2
<1> QED BY <1>1 DEF Ordered

\* The upgrade: the features are looked at, and one may be unlocked.
LEMMA ConvertSteps ==
  ASSUME JourneyInv, Convert
  PROVE  Stepped
<1> DEFINE looks == {Say("features", 4000) \o more : more \in
                        {Say("unlocked", 4505), Say("unlock_failed", 4505), <<>>}}
           scripts == {<<>>} \cup (IF pro = "" /\ TRUE \in Gate("features", 12) THEN looks ELSE {})
<1>1. PICK es : es = {"features", "unlocked", "unlock_failed"}
  OBVIOUS
<1>2. es \in SUBSET Harmless
  BY <1>1 DEF Harmless, Names, Catalogue, Range, Entries, ProGated
<1>3. es \cap KycTouch = {} \/ (KycBy("convert") < 4000 /\ 4505 <= KycBy("use"))
  BY <1>1 DEF KycTouch, KycSide, KycEvents
<1>4. es \cap ProGated = {} \/ (ProBy("convert") < 4000 /\ 4505 <= ProBy("use"))
  BY DEF ProBy
<1>5. "features" \in es /\ "unlocked" \in es /\ "unlock_failed" \in es
  BY <1>1
<1>6. Step("convert", "use") /\ Play(scripts)
  BY DEF Convert
<1>7. Ordered(looks, es, 4000, 4505)
  BY <1>5, UnlockOrdered
<1> HIDE DEF looks
<1>8. \A s \in scripts : s = <<>> \/ s \in looks
  OBVIOUS
<1> HIDE DEF scripts
<1>9. Ordered(scripts, es, 4000, 4505)
  BY <1>7, <1>8, SomeOrdered
<1>10. KycBy("convert") <= KycBy("use") /\ ProBy("convert") <= ProBy("use")
  BY DEF KycBy, ProBy
<1>11. Stamped(emitted, KycBy(block), ProBy(block))
  BY DEF JourneyInv
<1> QED BY <1>2, <1>3, <1>4, <1>6, <1>9, <1>10, <1>11, BlockStep

\* The loan of the day.
LEMMA LoanSteps ==
  ASSUME JourneyInv, Loan
  PROVE  Stepped
<1> DEFINE scripts == {<<>>} \cup (IF /\ loans.count < MaxLoans /\ day - loans.last >= Cooldown
                                      /\ kyc = "VERIFIED" /\ day > LoanAfter /\ TRUE \in Gate("applied", 8)
                                   THEN LoanScripts ELSE {})
<1>1. PICK es : es = {"loans", "applied", "kyc_abandoned", "kyc_completed", "approved", "disbursed"}
  OBVIOUS
<1>2. es \in SUBSET Harmless
  BY <1>1 DEF Harmless, Names, Catalogue, Range, Entries, ProGated
<1>3. es \cap KycTouch = {} \/ (KycBy("loan") < 2800 /\ 4400 <= KycBy("convert"))
  BY DEF KycBy
<1>4. es \cap ProGated = {} \/ (ProBy("loan") < 2800 /\ 4400 <= ProBy("convert"))
  BY <1>1 DEF ProGated
<1>5. Ordered(LoanScripts, es, 2800, 4400)
  BY <1>1, LoanOrdered
<1>6. Step("loan", "convert") /\ Play(scripts)
  BY DEF Loan
<1>7. \A s \in scripts : s = <<>> \/ s \in LoanScripts
  OBVIOUS
<1> HIDE DEF scripts
<1>8. Ordered(scripts, es, 2800, 4400)
  BY <1>5, <1>7, SomeOrdered
<1>9. KycBy("loan") <= KycBy("convert") /\ ProBy("loan") <= ProBy("convert")
  BY DEF KycBy, ProBy
<1>10. Stamped(emitted, KycBy(block), ProBy(block))
  BY DEF JourneyInv
<1> QED BY <1>2, <1>3, <1>4, <1>6, <1>8, <1>9, <1>10, BlockStep

\* The licensed feature is used.
LEMMA UseSteps ==
  ASSUME JourneyInv, Use
  PROVE  Stepped
<1> DEFINE ends == {Say("dashboard", 6800)}
           uses == Then(UseScripts, ends)
           scripts == {<<>>} \cup (IF pro # "" /\ TRUE \in Gate(pro, 50) THEN uses ELSE {})
<1>1. PICK es : es = {"book", "book_failed", "stats", "crypto", "feeds", "feeds_failed", "traded", "trade_failed",
                      "portfolio", "insights", "insights_failed", "rebalanced", "payroll", "batch", "batch_failed",
                      "dashboard"}
  OBVIOUS
<1>2. es \in SUBSET Harmless
  BY <1>1 DEF Harmless, Names, Catalogue, Range, Entries, ProGated
<1>3. es \cap KycTouch = {} \/ (KycBy("use") < 5950 /\ 6800 <= KycBy("leave"))
  BY <1>1 DEF KycTouch, KycSide, KycEvents
<1>4. es \cap ProGated = {} \/ (ProBy("use") < 5950 /\ 6800 <= ProBy("leave"))
  BY DEF ProBy
<1>5. Step("use", "leave") /\ Play(scripts)
  BY DEF Use
<1>6. Ordered(ends, es, 6800, 6800)
  BY <1>1, SaysOrdered
<1> HIDE DEF ends
<1>7. ASSUME pro \in Features PROVE Ordered(uses, es, 5950, 6800)
  <2>2. Ordered(UseScripts, es, 5950, 6500)
    BY <1>1, <1>7, UseOrdered
  <2> QED BY <1>6, <2>2, ThenOrdered
<1> HIDE DEF uses
<1>8. \A s \in scripts : s = <<>> \/ (pro # "" /\ s \in uses)
  OBVIOUS
<1> HIDE DEF scripts
<1>9. Ordered(scripts, es, 5950, 6800)
  <2>1. CASE pro \notin Features
    <3>1. PICK none : none = {<<>>}
      OBVIOUS
    <3>2. Ordered(none, es, 5950, 6800)
      BY <3>1, EmptyOrdered
    <3>3. pro = ""
      BY <2>1 DEF JourneyInv, JourneyTypes
    <3>4. \A s \in scripts : s = <<>> \/ s \in none
      BY <1>8, <3>3
    <3> QED BY <3>2, <3>4, SomeOrdered
  <2>2. CASE pro \in Features
    <3>1. \A s \in scripts : s = <<>> \/ s \in uses
      BY <1>8
    <3> QED BY <3>1, <2>2, <1>7, SomeOrdered
  <2> QED BY <2>1, <2>2
<1>10. KycBy("use") <= KycBy("leave") /\ ProBy("use") <= ProBy("leave")
  BY DEF KycBy, ProBy
<1>11. Stamped(emitted, KycBy(block), ProBy(block))
  BY DEF JourneyInv
<1> QED BY <1>2, <1>3, <1>4, <1>5, <1>9, <1>10, <1>11, BlockStep

\* A purchase.
LEMMA SpendSteps ==
  ASSUME JourneyInv, Spend
  PROVE  Stepped
<1> DEFINE first == {IF f THEN Say("payment_failed", 1205) ELSE Say("paid", 1205) : f \in Fails("payment_failed", Maybe)}
<1>1. PICK es : es = {"payment_failed", "paid"}
  OBVIOUS
<1>2. es \in SUBSET Harmless
  BY <1>1 DEF Harmless, Names, Catalogue, Range, Entries, ProGated
<1>3. es \cap KycTouch = {} /\ es \cap ProGated = {}
  BY <1>1 DEF KycTouch, KycSide, KycEvents, ProGated
<1>4. PICK g \in Gate("paid", Maybe) : /\ block = "spend"
                                       /\ block' = IF g THEN "flight" ELSE NextSuite
                                       /\ Play(IF g THEN Perhaps(first) ELSE {<<>>})
  BY DEF Spend
<1>5. PICK next : next = IF g THEN "flight" ELSE NextSuite
  OBVIOUS
<1>6. PICK scripts : scripts = IF g THEN Perhaps(first) ELSE {<<>>}
  OBVIOUS
<1>7. Step("spend", next) /\ Play(scripts) /\ next \in {"flight", "crypto", "violation"}
  BY <1>4, <1>5, <1>6 DEF Step, NextSuite
<1>8. Ordered(first, es, 1205, 1205)
  BY <1>1, EitherOrdered
<1> HIDE DEF first
<1>9. Ordered(Perhaps(first), es, 1205, 1205)
  BY <1>8, PerhapsOrdered
<1>10. \A s \in scripts : s = <<>> \/ s \in Perhaps(first)
  BY <1>6
<1>11. Ordered(scripts, es, 1205, 1205)
  BY <1>9, <1>10, SomeOrdered
<1>12. KycBy("spend") <= KycBy(next)
  BY <1>7 DEF KycBy
<1>13. ProBy("spend") <= ProBy(next)
  BY <1>7 DEF ProBy
<1>14. Stamped(emitted, KycBy(block), ProBy(block))
  BY DEF JourneyInv
<1> QED BY <1>2, <1>3, <1>7, <1>11, <1>12, <1>13, <1>14, BlockStep

\* Perhaps a second purchase.
LEMMA SpendMoreSteps ==
  ASSUME JourneyInv, SpendMore
  PROVE  Stepped
<1> DEFINE again == {Say("paid", 5005)}
<1>1. PICK es : es = {"paid"}
  OBVIOUS
<1>2. es \in SUBSET Harmless
  BY <1>1 DEF Harmless, Names, Catalogue, Range, Entries, ProGated
<1>3. es \cap KycTouch = {} /\ es \cap ProGated = {}
  BY <1>1 DEF KycTouch, KycSide, KycEvents, ProGated
<1>4. PICK next \in {"crypto", "violation"} : Step("spend_more", next) /\ Play(Perhaps(again))
  BY DEF SpendMore, NextSuite
<1>5. Ordered(again, es, 5005, 5005)
  BY <1>1, SaysOrdered
<1> HIDE DEF again
<1>6. Ordered(Perhaps(again), es, 5005, 5005)
  BY <1>5, PerhapsOrdered
<1>7. KycBy("spend_more") <= KycBy(next)
  BY <1>4 DEF KycBy
<1>8. ProBy("spend_more") <= ProBy(next)
  BY <1>4 DEF ProBy
<1>9. Stamped(emitted, KycBy(block), ProBy(block))
  BY DEF JourneyInv
<1> QED BY <1>2, <1>3, <1>4, <1>6, <1>7, <1>8, <1>9, BlockStep

\* The times from which events wait for more than the entry, for scripts in a row.
LEMMA ThenFrom ==
  ASSUME NEW es, NEW from, NEW lo \in Int, NEW m \in Int, NEW n \in Int, NEW hi \in Int,
         NEW first, NEW second, Ordered(first, es, lo, m), Ordered(second, es, n, hi),
         FromOn(first, from), FromOn(second, from)
  PROVE  FromOn(Then(first, second), from)
<1> SUFFICES ASSUME NEW s \in Then(first, second), NEW k \in 1..Len(s), Upto(s[k][1]) # {}
             PROVE  from <= s[k][2]
  BY DEF FromOn
<1>1. PICK a \in first, b \in second : s = a \o b
  BY DEF Then
<1>2. a \in Seq(es \X Int) /\ b \in Seq(es \X Int)
  BY DEF Ordered, InOrder
<1>3. PICK p \in Nat, q \in Nat : p = Len(a) /\ q = Len(b)
  BY <1>2
<1>4. /\ Len(s) = p + q
      /\ \A i \in 1..p : s[i] = a[i]
      /\ \A i \in 1..q : s[p + i] = b[i]
  BY <1>1, <1>2, <1>3, Joined
<1>5. CASE k <= p
  <2>1. k \in 1..Len(a) /\ s[k] = a[k]
    BY <1>3, <1>4, <1>5
  <2> QED BY <2>1 DEF FromOn
<1>6. CASE k > p
  <2>1. PICK i \in 1..q : k = p + i
    <3>1. k - p \in 1..q /\ k = p + (k - p)
      BY <1>3, <1>4, <1>6
    <3> QED BY <3>1
  <2>2. i \in 1..Len(b) /\ s[k] = b[i]
    BY <1>3, <1>4, <2>1
  <2> QED BY <2>2 DEF FromOn
<1> QED BY <1>3, <1>4, <1>5, <1>6

\* An event that waits for the entry at most may come at any time.
LEMMA SayFrom ==
  ASSUME NEW e, Upto(e) = {}, NEW at, NEW p, NEW from
  PROVE  FromOn(Roll(e, p, at), from)
<1>1. PICK s1 : s1 = Say(e, at)
  OBVIOUS
<1>2. Len(s1) = 1 /\ s1[1][1] = e
  BY <1>1 DEF Say
<1>3. ASSUME NEW s \in Roll(e, p, at), NEW k \in 1..Len(s), Upto(s[k][1]) # {}
      PROVE  FALSE
  <2>1. s = s1 \/ s = <<>>
    BY <1>1 DEF Roll
  <2>2. CASE s = s1
    <3>1. k = 1
      BY <2>2, <1>2
    <3> QED BY <3>1, <2>2, <1>2, <1>3
  <2>3. CASE s = <<>>
    <3>1. Len(s) = 0
      BY <2>3
    <3> QED BY <3>1
  <2> QED BY <2>1, <2>2, <2>3
<1> QED BY <1>3 DEF FromOn

\* The live pulse looks at the dashboard at once and trades, perhaps, a quarter of a minute later.
LEMMA LivePulseSteps ==
  ASSUME JourneyInv, LivePulse
  PROVE  Stepped
<1> DEFINE looks  == Roll("dashboard", 100, 0)
           trades == IF plan.enterprise THEN Perhaps(Roll("traded", 100, 15)) ELSE {<<>>}
           scripts == Then(looks, trades)
<1>1. PICK es : es = {"dashboard", "traded"}
  OBVIOUS
<1>2. es \in SUBSET Harmless /\ es \in SUBSET Names
  BY <1>1 DEF Harmless, Names, Catalogue, Range, Entries, ProGated
<1>3. es \cap KycTouch = {}
  BY <1>1 DEF KycTouch, KycSide, KycEvents
<1>4. Step("pulse", "done") /\ Play(scripts)
  BY DEF LivePulse, Suite
<1>5. Ordered(looks, es, 0, 0)
  BY <1>1, RollOrdered
<1>6. Upto("dashboard") = {}
  BY DEF Upto, KycEvents, ProGated
<1>7. FromOn(looks, 15)
  BY <1>6, SayFrom
<1>8. Ordered(trades, es, 15, 15)
  <2>1. Ordered(Perhaps(Roll("traded", 100, 15)), es, 15, 15)
    BY <1>1, RollOrdered, PerhapsOrdered
  <2>2. Ordered({<<>>}, es, 15, 15)
    BY EmptyOrdered
  <2> QED BY <2>1, <2>2
<1> HIDE DEF looks, trades
<1>9. FromOn(trades, 15)
  BY <1>8, OrderedFrom
<1>10. Ordered(scripts, es, 0, 15)
  BY <1>5, <1>8, ThenOrdered
<1>11. FromOn(scripts, 15)
  BY <1>5, <1>7, <1>8, <1>9, ThenFrom
<1> HIDE DEF scripts
<1>12. block = "pulse" /\ block' = "done"
  BY <1>4 DEF Step
<1>13. KycBy(block) = 0 /\ ProBy(block) = 0 /\ KycBy(block') = 9000 /\ ProBy(block') = 9000
  BY <1>12 DEF KycBy, ProBy
<1>14. Stamped(emitted, 0, 0)
  BY <1>13 DEF JourneyInv
<1>15. Stamped(emitted', 9000, 9000) /\ Gated(pushed', emitted, emitted', es, dims)
  BY <1>2, <1>3, <1>4, <1>10, <1>11, <1>14, PlayGated
<1> QED BY <1>2, <1>13, <1>15 DEF Stepped

(* ---- a planted event ---- *)
\* A set of multipliers has a largest.
LEMMA Largest ==
  ASSUME NEW S, S \subseteq 0..20, S # {}
  PROVE  Max(S) \in 0..20
<1>1. PICK T : T = {20 - x : x \in S}
  OBVIOUS
<1>2. T \subseteq Nat /\ T # {}
  <2>1. \A x \in S : x \in 0..20 /\ 20 - x \in Nat
    OBVIOUS
  <2>2. PICK x \in S : TRUE
    OBVIOUS
  <2>3. 20 - x \in T
    BY <1>1
  <2> QED BY <1>1, <2>1, <2>3
<1>3. PICK t \in T : \A u \in T : t <= u
  BY <1>2, Least
<1>4. PICK x \in S : t = 20 - x
  BY <1>1
<1>5. \A y \in S : x >= y
  <2>1. ASSUME NEW y \in S PROVE x >= y
    <3>1. 20 - y \in T
      BY <1>1
    <3>2. t <= 20 - y /\ x \in 0..20 /\ y \in 0..20
      BY <3>1, <1>3
    <3> QED BY <3>2, <1>4
  <2> QED BY <2>1
<1> QED BY <1>5 DEF Max

\* A set of multipliers has a smallest.
LEMMA Smallest ==
  ASSUME NEW S, S \subseteq 0..20, S # {}
  PROVE  Min(S) \in 0..20
<1>1. S \subseteq Nat
  OBVIOUS
<1>2. PICK x \in S : \A y \in S : x <= y
  BY <1>1, Least
<1> QED BY <1>2 DEF Min

\* A target of the override is one the operator may send.
LEMMA TargetTyped ==
  ASSUME JourneyTypes, NEW t \in override.targets
  PROVE  t.traffic \in 0..20
<1>1. CASE override = None
  BY <1>1 DEF None
<1>2. CASE override \in Overrides
  <2>1. override.targets \subseteq Target
    BY <1>2, JourneyAssumption
  <2> QED BY <2>1 DEF Target
<1> QED BY <1>1, <1>2 DEF JourneyTypes

\* A multiplier is a number.
LEMMA MultiplierTyped ==
  ASSUME JourneyTypes, NEW e
  PROVE  Multiplier(e) \in Int
<1>1. Direct(e) \subseteq 0..20
  BY TargetTyped DEF Direct, Moved
<1>2. Upstream(e) \subseteq 0..20
  BY TargetTyped DEF Upstream, Moved
<1>3. PICK all : all = Direct(e) \cup Upstream(e)
  OBVIOUS
<1>4. PICK ups : ups = {1} \cup {x \in all : x > 1}
  OBVIOUS
<1>5. PICK downs : downs = {1} \cup {x \in all : x < 1}
  OBVIOUS
<1>6. Max(ups) \in 0..20 /\ Min(downs) \in 0..20
  BY <1>1, <1>2, <1>3, <1>4, <1>5, Largest, Smallest
<1>7. PICK m \in 0..20, n \in 0..20 : m = Max(ups) /\ n = Min(downs)
  BY <1>6
<1>8. Multiplier(e) = m * n
  BY <1>3, <1>4, <1>5, <1>7 DEF Multiplier
<1> QED BY <1>8

\* Nobody tries the admin routes unless an override in scope raises just that event.
LEMMA OnlyPlanted ==
  ASSUME JourneyTypes, Effective("violation", 0) > 0
  PROVE  inScope /\ \E t \in override.targets : "violation" \in t.events /\ t.traffic > 1
<1>1. inScope /\ override.targets # {}
  BY DEF Effective
<1>2. PICK m \in Int : m = Multiplier("violation")
  BY MultiplierTyped
<1>3. Clamp(0 * m) = 0
  BY <1>2 DEF Clamp
<1>4. \E x \in Direct("violation") : x > 1 /\ 0 < InjectFloor
  <2>1. CASE ~ \E x \in Direct("violation") : x > 1 /\ 0 < InjectFloor
    <3>1. Effective("violation", 0) = Clamp(0 * Multiplier("violation"))
      BY <2>1, <1>1 DEF Effective
    <3>2. Effective("violation", 0) = 0
      BY <3>1, <1>2, <1>3
    <3> QED BY <3>2
  <2> QED BY <2>1
<1>5. PICK x \in Direct("violation") : x > 1
  BY <1>4
<1>6. PICK t \in Moved : "violation" \in t.events /\ x = t.traffic
  BY <1>5 DEF Direct
<1> QED BY <1>1, <1>5, <1>6 DEF Moved

\* The block that plants: what it pushes, if it is an attempt on the admin routes, is in scope.
LEMMA ViolationSteps ==
  ASSUME JourneyInv, Violation
  PROVE  /\ Stamped(emitted', KycBy(block'), ProBy(block'))
         /\ \E es \in SUBSET Names : Gated(pushed', emitted, emitted', es, dims)
         /\ PlantStaysInScope'
<1> DEFINE scripts == Roll("violation", 0, 2600)
<1>1. Step("violation", "loan") /\ Play(scripts) /\ UNCHANGED <<override, plan, day, dims>>
  BY DEF Violation, Suite, Keep
<1>2. block = "violation" /\ block' = "loan"
  BY <1>1 DEF Step
<1>3. KycBy(block) = 500 /\ ProBy(block) = 1444 /\ KycBy(block') = 500 /\ ProBy(block') = 1444
  BY <1>2 DEF KycBy, ProBy
<1>4. Stamped(emitted, 500, 1444)
  BY <1>3 DEF JourneyInv
<1>5. CASE Effective("violation", 0) > 0
  <2>1. inScope /\ \E t \in override.targets : "violation" \in t.events /\ t.traffic > 1
    BY <1>5, OnlyPlanted DEF JourneyInv
  <2>2. plan.joined - day < override.window /\ InSegment(dims)
    BY <2>1 DEF JourneyInv, ScopeHolds
  <2>3. PICK es : es = {"violation"}
    OBVIOUS
  <2>4. es \in SUBSET Names /\ es \cap KycTouch = {} /\ es \cap ProGated = {} /\ "violation" \in es
    BY <2>3 DEF Names, Catalogue, KycTouch, KycSide, KycEvents, ProGated
  <2>5. Ordered(scripts, es, 2600, 2600)
    BY <2>4, RollOrdered
  <2> HIDE DEF scripts
  <2>6. FromOn(scripts, 2600)
    BY <2>5, OrderedFrom
  <2>7. Stamped(emitted', 500, 1444) /\ Gated(pushed', emitted, emitted', es, dims)
    <3>1. es \in SUBSET Names /\ es \cap KycTouch = {} /\ es \cap ProGated = {}
      BY <2>4
    <3> QED BY <1>1, <1>4, <3>1, <2>5, <2>6, PlayGated
  <2>8. PlantStaysInScope'
    <3>1. \A i \in DOMAIN pushed' : pushed'[i].dims = dims
      BY <2>7 DEF Gated
    <3>2. ASSUME NEW i \in DOMAIN pushed' PROVE InSegment(pushed[i].dims)'
      <4>1. pushed'[i].dims = dims /\ override' = override
        BY <3>1, <1>1
      <4> QED BY <4>1, <2>2 DEF InSegment
    <3>3. override' = override /\ plan' = plan /\ day' = day
      BY <1>1
    <3> QED BY <3>2, <3>3, <2>1, <2>2 DEF PlantStaysInScope
  <2> QED BY <2>4, <2>7, <2>8, <1>3
<1>6. CASE ~ (Effective("violation", 0) > 0)
  <2>1. \A s \in scripts : s = <<>>
    BY <1>6 DEF Roll, Outcomes
  <2> HIDE DEF scripts
  <2>2. PICK es : es = {}
    OBVIOUS
  <2>3. es \in SUBSET Names /\ es \cap KycTouch = {} /\ es \cap ProGated = {} /\ es \in SUBSET Harmless
    BY <2>2
  <2>4. PICK none : none = {<<>>}
    OBVIOUS
  <2>5. Ordered(none, es, 2600, 2600)
    BY <2>4, EmptyOrdered
  <2>6. Ordered(scripts, es, 2600, 2600)
    BY <2>1, <2>5, SomeOrdered
  <2>7. FromOn(scripts, 2600)
    BY <2>6, OrderedFrom
  <2>8. Stamped(emitted', 500, 1444) /\ Gated(pushed', emitted, emitted', es, dims)
    BY <1>1, <1>4, <2>3, <2>6, <2>7, PlayGated
  <2>9. PlantStaysInScope'
    <3>1. \A i \in DOMAIN pushed' : pushed'[i].event \in Harmless
      BY <2>3, <2>8, ReachHarmless DEF Gated
    <3> QED BY <3>1 DEF PlantStaysInScope, Harmless
  <2> QED BY <2>3, <2>8, <2>9, <1>3
<1> QED BY <1>5, <1>6

\* The numbers the invariant compares.
LEMMA NumbersTyped ==
  ASSUME JourneyTypes
  PROVE  plan.joined \in Int /\ day \in Nat /\ override.window \in Int /\ MaxJoin \in Nat /\ plan.joined <= MaxJoin
<1>1. MaxJoin \in Nat
  BY JourneyAssumption
<1>2. plan.joined \in 0..MaxJoin /\ day \in 0..(MaxJoin + 1)
  BY DEF JourneyTypes
<1>3. override.window \in Int
  <2>1. CASE override = None
    BY <2>1 DEF None
  <2>2. CASE override \in Overrides
    BY <2>2, JourneyAssumption
  <2> QED BY <2>1, <2>2 DEF JourneyTypes
<1> QED BY <1>1, <1>2, <1>3

\* A block that plants nothing leaves nothing planted.
LEMMA SteppedPlants ==
  ASSUME Stepped
  PROVE  PlantStaysInScope'
<1>1. PICK es \in SUBSET Harmless : Gated(pushed', emitted, emitted', es, dims)
  BY DEF Stepped
<1>2. \A i \in DOMAIN pushed' : pushed'[i].event \in Harmless
  BY <1>1, ReachHarmless DEF Gated
<1> QED BY <1>2 DEF PlantStaysInScope, Harmless

\* The scope of a session stays what it was resolved to, within the day and after it.
LEMMA ScopeKept ==
  ASSUME JourneyTypes, ScopeHolds, UNCHANGED <<override, plan, dims, inScope>>, day' = day \/ day' = day + 1
  PROVE  ScopeHolds'
<1>1. ASSUME inScope PROVE plan.joined - day' < override.window
  <2>1. plan.joined - day < override.window
    BY <1>1 DEF ScopeHolds
  <2> QED BY <2>1, NumbersTyped
<1>2. InSegment(dims)' <=> InSegment(dims)
  BY DEF InSegment
<1> QED BY <1>1, <1>2 DEF ScopeHolds

\* A step that keeps what a session is, and whose own variables keep their types.
LEMMA BlockKeeps ==
  ASSUME JourneyInv, Stepped, Keep, block' \in InSession => day <= plan.joined,
         kyc' \in {"NOT_STARTED", "PENDING", "VERIFIED", "REJECTED"},
         loans'.count \in 0..MaxLoans, pro' \in Features \cup {""}
  PROVE  JourneyInv'
<1>1. JourneyTypes'
  BY DEF Keep, JourneyInv, JourneyTypes
<1>2. ScopeHolds'
  BY ScopeKept DEF Keep, JourneyInv
<1>3. PlantStaysInScope'
  BY SteppedPlants
<1>4. block' \in InSession => day' <= plan'.joined
  BY DEF Keep
<1> QED BY <1>1, <1>2, <1>3, <1>4 DEF JourneyInv, Stepped

\* Blocks that leave KYC, the loans and the licence alone.
LEMMA PlainKeeps ==
  ASSUME JourneyInv, Stepped, Keep, UNCHANGED <<kyc, loans, pro>>, block' \in InSession => day <= plan.joined
  PROVE  JourneyInv'
<1>1. kyc' \in {"NOT_STARTED", "PENDING", "VERIFIED", "REJECTED"} /\ loans'.count \in 0..MaxLoans
      /\ pro' \in Features \cup {""}
  BY DEF JourneyInv, JourneyTypes
<1> QED BY <1>1, BlockKeeps

\* No more loans are applied for than a customer may have.
LEMMA LoanCounted ==
  ASSUME JourneyInv, Loan
  PROVE  loans'.count \in 0..MaxLoans
<1>1. loans.count \in 0..MaxLoans /\ MaxLoans \in Nat
  BY JourneyAssumption DEF JourneyInv, JourneyTypes
<1>2. loans' = IF Said("applied") THEN [count |-> loans.count + 1, last |-> day] ELSE loans
  BY DEF Loan
<1>3. CASE loans.count < MaxLoans
  <2>1. loans.count + 1 \in 0..MaxLoans
    BY <1>1, <1>3
  <2>2. loans'.count = loans.count + 1 \/ loans' = loans
    BY <1>2
  <2> QED BY <2>1, <2>2, <1>1
<1>4. CASE ~ (loans.count < MaxLoans)
  <2> DEFINE scripts == {<<>>} \cup (IF /\ loans.count < MaxLoans /\ day - loans.last >= Cooldown
                                        /\ kyc = "VERIFIED" /\ day > LoanAfter /\ TRUE \in Gate("applied", 8)
                                     THEN LoanScripts ELSE {})
  <2>1. Step("loan", "convert") /\ Play(scripts)
    BY DEF Loan
  <2>2. \A s \in scripts : s = <<>>
    BY <1>4
  <2> HIDE DEF scripts
  <2>3. PICK none : none = {}
    OBVIOUS
  <2>4. Ordered(none, none, 0, 0)
    BY <2>3 DEF Ordered
  <2>5. Ordered(scripts, none, 0, 0)
    BY <2>2, <2>4, SomeOrdered
  <2>6. none \in SUBSET Harmless /\ none \cap KycTouch = {} /\ none \cap ProGated = {}
    BY <2>3
  <2>7. KycBy("loan") <= KycBy("convert") /\ ProBy("loan") <= ProBy("convert")
    BY DEF KycBy, ProBy
  <2>8. Stamped(emitted, KycBy(block), ProBy(block))
    BY DEF JourneyInv
  <2>9. Gated(pushed', emitted, emitted', none, dims)
    BY <2>1, <2>5, <2>6, <2>7, <2>8, BlockStep
  <2>10. Reach(none) = {"login"}
    BY <2>3 DEF Reach, Starts
  <2>11. ~ Said("applied")
    <3>1. \A i \in DOMAIN pushed' : pushed'[i].event = "login"
      BY <2>9, <2>10 DEF Gated
    <3> QED BY <3>1 DEF Said
  <2> QED BY <2>11, <1>1, <1>2
<1> QED BY <1>3, <1>4

\* Every block of a script steps, and keeps the invariant.
LEMMA BlocksKeep ==
  ASSUME JourneyInv
  PROVE  /\ Register => JourneyInv' /\ Stepped
         /\ Login => JourneyInv' /\ Stepped
         /\ Browse => JourneyInv' /\ Stepped
         /\ StartKyc => JourneyInv' /\ Stepped
         /\ DecideKyc => JourneyInv' /\ Stepped
         /\ Spend => JourneyInv' /\ Stepped
         /\ SpendMore => JourneyInv' /\ Stepped
<1>1. ASSUME Register PROVE JourneyInv' /\ Stepped
  <2>1. Stepped
    BY <1>1, RegisterSteps
  <2>2. Keep /\ UNCHANGED <<kyc, loans, pro>> /\ block' = "open"
    BY <1>1 DEF Register, Step
  <2>3. block' \notin InSession
    BY <2>2 DEF InSession
  <2> QED BY <2>1, <2>2, <2>3, PlainKeeps
<1>2. ASSUME Login PROVE JourneyInv' /\ Stepped
  <2>1. Stepped
    BY <1>2, LoginSteps
  <2>2. Keep /\ UNCHANGED <<kyc, loans, pro>> /\ block = "login"
    BY <1>2 DEF Login, Step
  <2>3. day <= plan.joined
    BY <2>2 DEF InSession, JourneyInv
  <2> QED BY <2>1, <2>2, <2>3, PlainKeeps
<1>3. ASSUME Browse PROVE JourneyInv' /\ Stepped
  <2>1. Stepped
    BY <1>3, BrowseSteps
  <2>2. Keep /\ UNCHANGED <<kyc, loans, pro>> /\ block = "browse"
    BY <1>3 DEF Browse, Step
  <2>3. day <= plan.joined
    BY <2>2 DEF InSession, JourneyInv
  <2> QED BY <2>1, <2>2, <2>3, PlainKeeps
<1>4. ASSUME StartKyc PROVE JourneyInv' /\ Stepped
  <2>1. Stepped
    BY <1>4, StartKycSteps
  <2>2. Keep /\ UNCHANGED <<loans, pro>> /\ block = "start_kyc"
    BY <1>4 DEF StartKyc, Step
  <2>3. day <= plan.joined
    BY <2>2 DEF InSession, JourneyInv
  <2>4. kyc' = "PENDING" \/ kyc' = kyc
    BY <1>4 DEF StartKyc
  <2>5. kyc' \in {"NOT_STARTED", "PENDING", "VERIFIED", "REJECTED"} /\ loans'.count \in 0..MaxLoans
        /\ pro' \in Features \cup {""}
    BY <2>2, <2>4 DEF JourneyInv, JourneyTypes
  <2> QED BY <2>1, <2>2, <2>3, <2>5, BlockKeeps
<1>5. ASSUME DecideKyc PROVE JourneyInv' /\ Stepped
  <2>1. Stepped
    BY <1>5, DecideKycSteps
  <2>2. Keep /\ UNCHANGED <<loans, pro>> /\ block = "kyc"
    BY <1>5 DEF DecideKyc, Step
  <2>3. day <= plan.joined
    BY <2>2 DEF InSession, JourneyInv
  <2>4. kyc' = "VERIFIED" \/ kyc' = "REJECTED" \/ kyc' = kyc
    BY <1>5 DEF DecideKyc
  <2>5. kyc' \in {"NOT_STARTED", "PENDING", "VERIFIED", "REJECTED"} /\ loans'.count \in 0..MaxLoans
        /\ pro' \in Features \cup {""}
    BY <2>2, <2>4 DEF JourneyInv, JourneyTypes
  <2> QED BY <2>1, <2>2, <2>3, <2>5, BlockKeeps
<1>6. ASSUME Spend PROVE JourneyInv' /\ Stepped
  <2>1. Stepped
    BY <1>6, SpendSteps
  <2>2. Keep /\ UNCHANGED <<kyc, loans, pro>> /\ block = "spend"
    BY <1>6 DEF Spend, Step
  <2>3. day <= plan.joined
    BY <2>2 DEF InSession, JourneyInv
  <2> QED BY <2>1, <2>2, <2>3, PlainKeeps
<1>7. ASSUME SpendMore PROVE JourneyInv' /\ Stepped
  <2>1. Stepped
    BY <1>7, SpendMoreSteps
  <2>2. Keep /\ UNCHANGED <<kyc, loans, pro>> /\ block = "spend_more"
    BY <1>7 DEF SpendMore, Step
  <2>3. day <= plan.joined
    BY <2>2 DEF InSession, JourneyInv
  <2> QED BY <2>1, <2>2, <2>3, PlainKeeps
<1> QED BY <1>1, <1>2, <1>3, <1>4, <1>5, <1>6, <1>7

\* The suites of an enterprise persona, and the live pulse.
LEMMA SuitesKeep ==
  ASSUME JourneyInv, Crypto \/ Wealth \/ Payroll \/ Books \/ LivePulse
  PROVE  JourneyInv' /\ Stepped
<1>1. Stepped
  BY CryptoSteps, WealthSteps, PayrollSteps, BooksSteps, LivePulseSteps
<1>2. Keep /\ UNCHANGED <<kyc, loans, pro>>
  BY DEF Crypto, Wealth, Payroll, Books, LivePulse, Suite
<1>3. block \in {"crypto", "wealth", "payroll", "books"} \/ block' = "done"
  BY DEF Crypto, Wealth, Payroll, Books, LivePulse, Suite, Step
<1>4. block' \in InSession => day <= plan.joined
  BY <1>3 DEF InSession, JourneyInv
<1> QED BY <1>1, <1>2, <1>4, PlainKeeps

\* The loan, the upgrade, the use of the licence and the end of the day.
LEMMA LateBlocksKeep ==
  ASSUME JourneyInv
  PROVE  /\ Loan => JourneyInv' /\ Stepped
         /\ Convert => JourneyInv' /\ Stepped
         /\ Use => JourneyInv' /\ Stepped
         /\ Leave => JourneyInv' /\ Stepped
<1>1. ASSUME Loan PROVE JourneyInv' /\ Stepped
  <2>1. Stepped
    BY <1>1, LoanSteps
  <2>2. Keep /\ UNCHANGED <<kyc, pro>> /\ block = "loan"
    BY <1>1 DEF Loan, Step
  <2>3. day <= plan.joined
    BY <2>2 DEF InSession, JourneyInv
  <2>4. loans'.count \in 0..MaxLoans
    BY <1>1, LoanCounted
  <2>5. kyc' \in {"NOT_STARTED", "PENDING", "VERIFIED", "REJECTED"} /\ pro' \in Features \cup {""}
    BY <2>2 DEF JourneyInv, JourneyTypes
  <2> QED BY <2>1, <2>2, <2>3, <2>4, <2>5, BlockKeeps
<1>2. ASSUME Convert PROVE JourneyInv' /\ Stepped
  <2>1. Stepped
    BY <1>2, ConvertSteps
  <2>2. Keep /\ UNCHANGED <<kyc, loans>> /\ block = "convert"
    BY <1>2 DEF Convert, Step
  <2>3. day <= plan.joined
    BY <2>2 DEF InSession, JourneyInv
  <2>4. pro' \in Features \/ pro' = pro
    BY <1>2 DEF Convert
  <2>5. kyc' \in {"NOT_STARTED", "PENDING", "VERIFIED", "REJECTED"} /\ loans'.count \in 0..MaxLoans
        /\ pro' \in Features \cup {""}
    BY <2>2, <2>4 DEF JourneyInv, JourneyTypes
  <2> QED BY <2>1, <2>2, <2>3, <2>5, BlockKeeps
<1>3. ASSUME Use PROVE JourneyInv' /\ Stepped
  <2>1. Stepped
    BY <1>3, UseSteps
  <2>2. Keep /\ UNCHANGED <<kyc, loans, pro>> /\ block = "use"
    BY <1>3 DEF Use, Step
  <2>3. day <= plan.joined
    BY <2>2 DEF InSession, JourneyInv
  <2> QED BY <2>1, <2>2, <2>3, PlainKeeps
<1>4. ASSUME Leave PROVE JourneyInv' /\ Stepped
  <2>1. Stepped
    BY <1>4, LeaveSteps
  <2>2. UNCHANGED <<override, plan, dims, inScope, kyc, loans, pro>> /\ block = "leave" /\ block' = "open"
        /\ day' = day + 1
    BY <1>4 DEF Leave, Step
  <2>3. day <= plan.joined
    BY <2>2 DEF InSession, JourneyInv
  <2>4. day' \in 0..(MaxJoin + 1)
    <3>1. JourneyTypes
      BY DEF JourneyInv
    <3> QED BY <3>1, <2>2, <2>3, NumbersTyped
  <2>5. JourneyTypes'
    BY <2>2, <2>4 DEF JourneyInv, JourneyTypes
  <2>6. ScopeHolds'
    BY <2>2, ScopeKept DEF JourneyInv
  <2>7. block' \notin InSession
    BY <2>2 DEF InSession
  <2> QED BY <2>1, <2>5, <2>6, <2>7, SteppedPlants DEF JourneyInv, Stepped
<1> QED BY <1>1, <1>2, <1>3, <1>4

\* The block that plants.
LEMMA ViolationKeeps ==
  ASSUME JourneyInv, Violation
  PROVE  JourneyInv'
<1>1. Stamped(emitted', KycBy(block'), ProBy(block')) /\ PlantStaysInScope'
  BY ViolationSteps
<1>2. Keep /\ UNCHANGED <<kyc, loans, pro>> /\ block = "violation"
  BY DEF Violation, Suite, Step
<1>3. JourneyTypes'
  BY <1>2 DEF Keep, JourneyInv, JourneyTypes
<1>4. ScopeHolds'
  BY <1>2, ScopeKept DEF Keep, JourneyInv
<1>5. block' \in InSession => day' <= plan'.joined
  BY <1>2 DEF Keep, JourneyInv, InSession
<1> QED BY <1>1, <1>3, <1>4, <1>5 DEF JourneyInv

\* An absent day, and the end of a customer without a live session.
LEMMA QuietKeeps ==
  ASSUME JourneyInv, Absent \/ Finish
  PROVE  JourneyInv'
<1>1. /\ UNCHANGED <<override, plan, dims, inScope, emitted, kyc, loans, pro>> /\ pushed' = <<>>
      /\ block = "open" /\ block' \in {"open", "done"}
      /\ day' = day \/ (day' = day + 1 /\ day <= plan.joined)
  BY DEF Absent, Finish, Step
<1>2. day' \in 0..(MaxJoin + 1)
  <2>1. JourneyTypes /\ day \in 0..(MaxJoin + 1)
    BY DEF JourneyInv, JourneyTypes
  <2> QED BY <2>1, <1>1, NumbersTyped
<1>3. JourneyTypes'
  BY <1>1, <1>2 DEF JourneyInv, JourneyTypes
<1>4. ScopeHolds'
  BY <1>1, ScopeKept DEF JourneyInv
<1>5. block' \notin InSession
  BY <1>1 DEF InSession
<1>6. KycBy(block') = KycBy(block) /\ ProBy(block') = ProBy(block)
  BY <1>1 DEF KycBy, ProBy
<1>7. Stamped(emitted', KycBy(block'), ProBy(block'))
  BY <1>1, <1>6 DEF JourneyInv
<1>8. PlantStaysInScope'
  BY <1>1 DEF PlantStaysInScope
<1> QED BY <1>3, <1>4, <1>5, <1>7, <1>8 DEF JourneyInv

\* The payment of the deposit flight is not gated, plants nothing and leaves the session's stamps.
LEMMA FlightKeeps ==
  ASSUME JourneyInv, Flight
  PROVE  JourneyInv'
<1>1. /\ UNCHANGED <<override, plan, day, dims, inScope, emitted, kyc, loans, pro>>
      /\ block = "flight" /\ block' = "spend_more"
  BY DEF Flight, Step, Keep
<1>2. \A i \in DOMAIN pushed' : pushed'[i].event = "paid"
  <2>0. PICK t \in Int : t = 6600
    OBVIOUS
  <2>1. PICK row : row = [event |-> "paid", at |-> t, dims |-> dims]
    OBVIOUS
  <2>2. row.event = "paid"
    BY <2>1
  <2>3. pushed' = <<>> \/ pushed' = <<row>>
    BY <2>0, <2>1 DEF Flight
  <2> QED BY <2>2, <2>3
<1>3. JourneyTypes'
  BY <1>1 DEF JourneyInv, JourneyTypes
<1>4. ScopeHolds'
  BY <1>1, ScopeKept DEF JourneyInv
<1>5. day' <= plan'.joined
  BY <1>1 DEF JourneyInv, InSession
<1>6. KycBy(block') = KycBy(block) /\ ProBy(block') = ProBy(block)
  BY <1>1 DEF KycBy, ProBy
<1>7. Stamped(emitted', KycBy(block'), ProBy(block'))
  BY <1>1, <1>6 DEF JourneyInv
<1>8. PlantStaysInScope'
  BY <1>2 DEF PlantStaysInScope
<1> QED BY <1>3, <1>4, <1>5, <1>7, <1>8 DEF JourneyInv

\* A forced mix is made of device types, countries and their cities.
LEMMA ForcedTyped ==
  ASSUME JourneyInv, NEW daysAgo, NEW d \in Forced(daysAgo)
  PROVE  d \in Mixes
<1> DEFINE brought == UNION {{[device |-> v, country |-> c, city |-> t] :
                            v \in ForcedDevices(daysAgo), t \in IF Cities[c] = {} THEN {NoCity} ELSE Cities[c]} :
                        c \in ForcedCountries(daysAgo)}
           changed == {[dims EXCEPT !.device = v] :
                     v \in IF ForcedCountries(daysAgo) = {} THEN ForcedDevices(daysAgo) ELSE {}}
<1>1. dims \in Mixes
  BY DEF JourneyInv, JourneyTypes
<1>2. override.devices \subseteq Devices /\ override.countries \subseteq Countries
  <2>1. CASE override = None
    BY <2>1 DEF None
  <2>2. CASE override \in Overrides
    BY <2>2, JourneyAssumption
  <2> QED BY <2>1, <2>2 DEF JourneyInv, JourneyTypes
<1>3. ForcedDevices(daysAgo) \subseteq Devices /\ ForcedCountries(daysAgo) \subseteq Countries
  BY <1>1, <1>2 DEF ForcedDevices, ForcedCountries, Mixes
<1>4. CASE d \in brought
  <2>1. PICK c \in ForcedCountries(daysAgo) :
           d \in {[device |-> v, country |-> c, city |-> t] :
                     v \in ForcedDevices(daysAgo), t \in IF Cities[c] = {} THEN {NoCity} ELSE Cities[c]}
    BY <1>4
  <2>2. PICK cities : cities = IF Cities[c] = {} THEN {NoCity} ELSE Cities[c]
    OBVIOUS
  <2>3. PICK v \in ForcedDevices(daysAgo), t \in cities : d = [device |-> v, country |-> c, city |-> t]
    BY <2>1, <2>2
  <2>4. v \in Devices /\ c \in Countries
    BY <1>3
  <2>5. t \in {NoCity} \cup UNION {Cities[x] : x \in Countries}
    BY <2>2, <2>4
  <2> QED BY <2>3, <2>4, <2>5 DEF Mixes
<1>5. CASE d \in changed
  <2>1. PICK v \in ForcedDevices(daysAgo) : d = [dims EXCEPT !.device = v]
    BY <1>5
  <2> QED BY <2>1, <1>1, <1>3 DEF Mixes
<1>6. Forced(daysAgo) = brought \cup changed
  BY DEF Forced
<1> HIDE DEF brought, changed
<1> QED BY <1>4, <1>5, <1>6

\* A session begins: its mix, and then its scope.
LEMMA OpenKeeps ==
  ASSUME JourneyInv, Open
  PROVE  JourneyInv'
<1>1. /\ UNCHANGED <<override, plan, day, kyc, loans, pro>> /\ pushed' = <<>> /\ emitted' = <<>>
      /\ block' = "login" /\ day <= plan.joined /\ dims' \in Forced(plan.joined - day)
      /\ inScope' = Applies(plan.joined - day, dims')
  BY DEF Open, Step
<1>2. dims' \in Mixes
  BY <1>1, ForcedTyped
<1>3. inScope' \in BOOLEAN
  BY <1>1 DEF Applies
<1>4. JourneyTypes'
  BY <1>1, <1>2, <1>3 DEF JourneyInv, JourneyTypes
<1>5. ScopeHolds'
  <2>1. InSegment(dims') => InSegment(dims)'
    BY <1>1 DEF InSegment
  <2> QED BY <1>1, <2>1 DEF ScopeHolds, Applies
<1>6. Stamped(emitted', KycBy(block'), ProBy(block'))
  <2>1. DOMAIN emitted' = {}
    BY <1>1
  <2> QED BY <2>1 DEF Stamped
<1>7. PlantStaysInScope'
  BY <1>1 DEF PlantStaysInScope
<1> QED BY <1>1, <1>4, <1>5, <1>6, <1>7 DEF JourneyInv

\* The live session begins: its login is implied.
LEMMA PulseKeeps ==
  ASSUME JourneyInv, Pulse
  PROVE  JourneyInv'
<1>1. /\ UNCHANGED <<override, plan, day, dims, kyc, loans, pro>> /\ pushed' = <<>>
      /\ block' = "pulse" /\ day > plan.joined /\ inScope' = Applies(0, dims)
      /\ emitted' = [e \in {"login"} \cup (IF plan.enterprise THEN {"features"} ELSE {}) |-> 0]
  BY DEF Pulse, Step
<1>2. inScope' \in BOOLEAN
  BY <1>1 DEF Applies
<1>3. JourneyTypes'
  BY <1>1, <1>2 DEF JourneyInv, JourneyTypes
<1>4. ScopeHolds'
  <2>1. ASSUME inScope' PROVE override # None /\ plan.joined - day < override.window /\ InSegment(dims)
    <3>1. override # None /\ 0 < override.window /\ InSegment(dims)
      BY <2>1, <1>1 DEF Applies
    <3>2. plan.joined - day < override.window
      BY <3>1, <1>1, NumbersTyped DEF JourneyInv
    <3> QED BY <3>1, <3>2
  <2>2. InSegment(dims) => InSegment(dims)'
    BY <1>1 DEF InSegment
  <2> QED BY <1>1, <2>1, <2>2 DEF ScopeHolds
<1>5. Stamped(emitted', KycBy(block'), ProBy(block'))
  <2>1. DOMAIN emitted' \subseteq {"login", "features"} /\ \A x \in DOMAIN emitted' : emitted'[x] = 0
    BY <1>1
  <2>2. KycBy(block') = 0 /\ ProBy(block') = 0
    BY <1>1 DEF KycBy, ProBy
  <2> QED BY <2>1, <2>2, Reps DEF Stamped
<1>6. block' \notin InSession
  BY <1>1 DEF InSession
<1>7. PlantStaysInScope'
  BY <1>1 DEF PlantStaysInScope
<1> QED BY <1>3, <1>4, <1>5, <1>6, <1>7 DEF JourneyInv

\* The invariant holds before the first block.
LEMMA JourneyInvInit ==
  ASSUME JourneyInit
  PROVE  JourneyInv
<1>1. /\ override \in Overrides \cup {None} /\ plan \in [enterprise : BOOLEAN, joined : 0..MaxJoin]
      /\ block = "register" /\ day = 0 /\ emitted = <<>> /\ pushed = <<>>
      /\ inScope = Applies(plan.joined, dims)
      /\ kyc = "NOT_STARTED" /\ loans = [count |-> 0, last |-> -99] /\ pro = ""
  BY DEF JourneyInit
<1>2. dims \in Mixes
  <2>1. PICK c \in Countries, v \in Devices : \E t \in Cities[c] : dims = [device |-> v, country |-> c, city |-> t]
    BY DEF JourneyInit
  <2>2. PICK t \in Cities[c] : dims = [device |-> v, country |-> c, city |-> t]
    BY <2>1
  <2>3. t \in {NoCity} \cup UNION {Cities[x] : x \in Countries}
    OBVIOUS
  <2> QED BY <2>2, <2>3 DEF Mixes
<1>3. MaxLoans \in Nat /\ MaxJoin \in Nat
  BY JourneyAssumption
<1>4. loans.count \in 0..MaxLoans /\ day \in 0..(MaxJoin + 1)
  <2>1. loans.count = 0 /\ day = 0
    BY <1>1
  <2> QED BY <2>1, <1>3
<1>5. inScope \in BOOLEAN
  BY <1>1 DEF Applies
<1>6. JourneyTypes
  BY <1>1, <1>2, <1>4, <1>5 DEF JourneyTypes
<1>7. ScopeHolds
  <2>0. day = 0
    BY <1>1
  <2>1. plan.joined - day = plan.joined
    BY <2>0, <1>6, NumbersTyped
  <2> QED BY <1>1, <2>1 DEF ScopeHolds, Applies
<1>8. Stamped(emitted, KycBy(block), ProBy(block))
  <2>0. emitted = <<>>
    BY <1>1
  <2>1. DOMAIN emitted = {}
    BY <2>0
  <2> QED BY <2>1 DEF Stamped
<1>9. block \notin InSession
  BY <1>1 DEF InSession
<1>10. PlantStaysInScope
  <2>1. pushed = <<>>
    BY <1>1
  <2> QED BY <2>1 DEF PlantStaysInScope
<1> QED BY <1>6, <1>7, <1>8, <1>9, <1>10 DEF JourneyInv

\* Every step keeps the invariant.
LEMMA JourneyInvNext ==
  ASSUME JourneyInv, [JourneyNext]_journeyVars
  PROVE  JourneyInv'
<1>1. CASE UNCHANGED journeyVars
  <2>1. UNCHANGED <<override, plan, block, day, dims, inScope, emitted, pushed, kyc, loans, pro>>
    BY <1>1 DEF journeyVars
  <2>2. JourneyTypes'
    BY <2>1 DEF JourneyInv, JourneyTypes
  <2>3. ScopeHolds' /\ PlantStaysInScope'
    BY <2>1 DEF JourneyInv, ScopeHolds, PlantStaysInScope, InSegment
  <2>4. Stamped(emitted', KycBy(block'), ProBy(block'))
    BY <2>1 DEF JourneyInv
  <2> QED BY <2>1, <2>2, <2>3, <2>4 DEF JourneyInv
<1>2. CASE Register \/ Login \/ Browse \/ StartKyc \/ DecideKyc \/ Spend \/ SpendMore
  BY <1>2, BlocksKeep
<1>3. CASE Crypto \/ Wealth \/ Payroll \/ Books \/ LivePulse
  BY <1>3, SuitesKeep
<1>4. CASE Violation
  BY <1>4, ViolationKeeps
<1>5. CASE Loan \/ Convert \/ Use \/ Leave
  BY <1>5, LateBlocksKeep
<1>6. CASE Absent \/ Finish
  BY <1>6, QuietKeeps
<1>7. CASE Open
  BY <1>7, OpenKeeps
<1>8. CASE Pulse
  BY <1>8, PulseKeeps
<1>9. CASE Flight
  BY <1>9, FlightKeeps
<1> QED BY <1>1, <1>2, <1>3, <1>4, <1>5, <1>6, <1>7, <1>8, <1>9 DEF JourneyNext

\* The invariant of the journey, for every catalogue of overrides and every length of a plan.
THEOREM JourneyInvariant == JourneySpec => []JourneyInv
<1>1. JourneyInit => JourneyInv
  BY JourneyInvInit
<1>2. JourneyInv /\ [JourneyNext]_journeyVars => JourneyInv'
  BY JourneyInvNext
<1> QED BY <1>1, <1>2, PTL DEF JourneySpec

\* An anomaly the operator plants stays inside its window and its segment.
THEOREM PlantAlways == JourneySpec => []PlantStaysInScope
<1>1. JourneyInv => PlantStaysInScope
  BY DEF JourneyInv
<1> QED BY <1>1, JourneyInvariant, PTL

\* What the gate of the model asks is what the property asks.
LEMMA GatedIsEarned ==
  ASSUME NEW es, Gated(pushed', emitted, emitted', es, dims)
  PROVE  \A i \in DOMAIN pushed' : pushed'[i].event \in Relaxed \/ Earned(i)
<1> SUFFICES ASSUME NEW i \in DOMAIN pushed', pushed'[i].event \notin Relaxed PROVE Earned(i)
  OBVIOUS
<1>1. PICK e, at : e = pushed'[i].event /\ at = pushed'[i].at
  OBVIOUS
<1>2. PICK known : known = DOMAIN emitted \cup {pushed'[j].event : j \in 1..(i - 1)}
  OBVIOUS
<1>3. EarnedAt(e, at, known, emitted')
  BY <1>1, <1>2 DEF Gated
<1>4. ASSUME NEW k \in DOMAIN Groups(e)
      PROVE  LET group == Range(Groups(e)[k])
             IN  /\ group \cap known # {}
                 /\ \E m \in group \cap DOMAIN emitted' : m \in Range(Entries) \/ emitted'[m] <= at
  BY <1>3 DEF EarnedAt, Met
<1> QED BY <1>1, <1>2, <1>4 DEF Earned, Groups

\* Every event a session sends through simEmit is earned, or the operator released it.
THEOREM EarnedAlways == JourneySpec => GatedEventsAreEarned
<1>1. ASSUME JourneyInv, [JourneyNext]_journeyVars
      PROVE  [block # "flight" =>
                \A i \in DOMAIN pushed' : pushed'[i].event \in Relaxed \/ Earned(i)]_journeyVars
  <2>1. CASE UNCHANGED journeyVars
    BY <2>1
  <2>2. CASE Absent \/ Finish \/ Open \/ Pulse
    <3>1. pushed' = <<>>
      BY <2>2 DEF Absent, Finish, Open, Pulse
    <3>2. DOMAIN pushed' = {}
      BY <3>1
    <3> QED BY <3>2
  <2>3. CASE Violation
    <3>1. PICK es \in SUBSET Names : Gated(pushed', emitted, emitted', es, dims)
      BY <2>3, <1>1, ViolationSteps
    <3> QED BY <3>1, GatedIsEarned
  <2>4. CASE Register \/ Login \/ Browse \/ StartKyc \/ DecideKyc \/ Spend \/ SpendMore \/ Crypto \/ Wealth
             \/ Payroll \/ Books \/ LivePulse \/ Loan \/ Convert \/ Use \/ Leave
    <3>1. Stepped
      BY <2>4, <1>1, BlocksKeep, SuitesKeep, LateBlocksKeep
    <3>2. PICK es \in SUBSET Harmless : Gated(pushed', emitted, emitted', es, dims)
      BY <3>1 DEF Stepped
    <3> QED BY <3>2, GatedIsEarned
  <2>5. CASE Flight
    BY <2>5 DEF Flight, Step
  <2> QED BY <1>1, <2>1, <2>2, <2>3, <2>4, <2>5 DEF JourneyNext
<1> QED BY <1>1, JourneyInvariant, PTL DEF JourneySpec, GatedEventsAreEarned
=============================================================================
