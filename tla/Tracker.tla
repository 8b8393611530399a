-------------------------------- MODULE Tracker --------------------------------
(* Telemetry inside the bank: what becomes of an event between the page or the *)
(* handler that reports it and the ingestion API. trackEvent and its batched   *)
(* twin store a row and forward it, without waiting for the answer; the place  *)
(* an event reports comes from a bounded cache of session profiles, which is   *)
(* filled by whichever call of the session gets there first. The page reports  *)
(* its location once, whatever the timer, the position and the refusal race.   *)
EXTENDS Integers, FiniteSets, Sequences

CONSTANTS
    Sessions,     \* session ids; one that a request lacks is made up by the server
    Simulated,    \* those of simulate runs, whose callers declare what they invent
    PageSession,  \* the session of a page that asks for the browser's position
    Home,         \* the place of the branch of each session's customer, or NoPlace
    Real,         \* places a browser or a simulate run may report
    Invented,     \* places selectGeoProfile draws from
    NoPlace,
    MaxProfiles,  \* 10000 in the code
    MaxCalls,     \* bound: calls of the tracker
    MaxBatch,     \* bound: events of a batch
    MaxNow,       \* bound: milliseconds
    MaxFaults     \* bound: database calls that throw

ASSUME TrackerAssumption ==
    /\ Simulated \subseteq Sessions /\ PageSession \in Sessions \ Simulated
    /\ Home \in [Sessions -> Real \cup {NoPlace}]
    /\ NoPlace \notin Real \cup Invented /\ Real \cap Invented = {} /\ Invented # {}
    /\ {MaxProfiles, MaxBatch} \subseteq Nat \ {0} /\ {MaxCalls, MaxNow, MaxFaults} \subseteq Nat

VARIABLES
    now,       \* Date.now()
    calls,     \* the calls so far: where each one is, and its events
    rows,      \* the Event table: [id, session, given]
    profiles,  \* sessionProfiles, in the order of insertion: [session, place, invented, seen]
    wire,      \* what was posted to the ingestion API, in order
    page,      \* useGeoLocation: the timer, the position, and postedRef
    faults
vars == <<now, calls, rows, profiles, wire, page, faults>>

Places == Real \cup Invented
Events == [session : Sessions, given : Real \cup {NoPlace}]
Init ==
    /\ now = 0 /\ calls = <<>> /\ rows = {} /\ profiles = <<>> /\ wire = <<>> /\ faults = 0
    /\ page = [timer |-> "armed", position |-> "asked", posted |-> FALSE]

(* ---- the session profile ---- *)
\* a profile that is there is kept, and only its time is refreshed
Seen(p) == [p EXCEPT !.seen = now]
\* a new one: the caller's place, or one drawn and marked as invented
Drawn(e, draw) ==
    IF e.given # NoPlace
    THEN [session |-> e.session, place |-> e.given, invented |-> FALSE, seen |-> now]
    ELSE [session |-> e.session, place |-> draw, invented |-> TRUE, seen |-> now]
\* at the limit the profile seen longest ago goes, the first inserted of several
Oldest(ps) == CHOOSE i \in DOMAIN ps :
                  \A j \in DOMAIN ps : \/ ps[i].seen < ps[j].seen
                                       \/ ps[i].seen = ps[j].seen /\ i <= j
Evict(ps) == IF Len(ps) < MaxProfiles THEN ps
             ELSE [i \in 1..(Len(ps) - 1) |-> ps[IF i < Oldest(ps) THEN i ELSE i + 1]]
GetSessionProfile(ps, e, draw) ==
    IF \E i \in DOMAIN ps : ps[i].session = e.session
    THEN [i \in DOMAIN ps |-> IF ps[i].session = e.session THEN Seen(ps[i]) ELSE ps[i]]
    ELSE Append(Evict(ps), Drawn(e, draw))
ProfileOf(ps, s) == ps[CHOOSE i \in DOMAIN ps : ps[i].session = s]

(* ---- forwardToIngestionAPI ---- *)
\* mutant: the place the event itself came with, when it has one
PlaceOfEvent(e, p) == IF e.given # NoPlace THEN e.given ELSE p.place
\* the place is the session's, never the event's
PlaceOf(e, p) == p.place
\* what the profile invented, and what the caller declares it did
Marked(e, p) == p.invented \/ e.session \in Simulated
Forward(st, e, id, draw) ==
    LET ps == GetSessionProfile(st.profiles, e, draw)
        p == ProfileOf(ps, e.session)
    IN [profiles |-> ps,
        wire |-> Append(st.wire, [id |-> id, session |-> e.session, place |-> PlaceOf(e, p),
                                  marked |-> Marked(e, p), at |-> now])]
\* the events of a call are forwarded in their order, in one turn
Forwarded(c, draws) ==
    LET es == calls[c].events
        f[k \in 0..Len(es)] == IF k = 0 THEN [profiles |-> profiles, wire |-> wire]
                               ELSE Forward(f[k - 1], es[k], <<c, k>>, draws[k])
    IN f[Len(es)]

(* ---- trackEvent and trackEventsBatch ---- *)
Call(stage, events) ==
    /\ Len(calls) < MaxCalls
    /\ calls' = Append(calls, [stage |-> stage, events |-> events])
Settle(c, stage) == calls' = [calls EXCEPT ![c].stage = stage, ![c].events = <<>>]
Fault == faults < MaxFaults /\ faults' = faults + 1
\* an event that brings no place has its customer's branch looked up first, when it has a
\* customer: before the login a session's events have none
TrackEvent(e) ==
    /\ \E customer \in BOOLEAN : Call(IF customer /\ e.given = NoPlace THEN "lookup" ELSE "store", <<e>>)
    /\ UNCHANGED <<now, rows, profiles, wire, page, faults>>
TrackEventsBatch(es) == Call("store", es) /\ UNCHANGED <<now, rows, profiles, wire, page, faults>>
Lookup(c) ==
    /\ calls[c].stage = "lookup"
    /\ \/ /\ calls' = [calls EXCEPT ![c].stage = "store", ![c].events[1].given = Home[calls[c].events[1].session]]
          /\ faults' = faults
       \/ Fault /\ Settle(c, "lost")
    /\ UNCHANGED <<now, rows, profiles, wire, page>>
Rows(c) == {[id |-> <<c, k>>, session |-> calls[c].events[k].session, given |-> calls[c].events[k].given] :
               k \in DOMAIN calls[c].events}
\* the rows, then the forwards, with no await in between
Store(c) ==
    /\ calls[c].stage = "store" /\ Settle(c, "sent") /\ rows' = rows \cup Rows(c)
    /\ \E draws \in [DOMAIN calls[c].events -> Invented] :
           LET f == Forwarded(c, draws) IN profiles' = f.profiles /\ wire' = f.wire
    /\ UNCHANGED <<now, page, faults>>
\* mutant: the batch is forwarded although the database refused it
StoreFailsAnyway(c) ==
    /\ calls[c].stage = "store" /\ Fault /\ Settle(c, "lost") /\ rows' \in {rows, rows \cup Rows(c)}
    /\ \E draws \in [DOMAIN calls[c].events -> Invented] :
           LET f == Forwarded(c, draws) IN profiles' = f.profiles /\ wire' = f.wire
    /\ UNCHANGED <<now, page>>
\* the database throws, and the rows may be there all the same: nothing is forwarded
StoreFails(c) ==
    /\ calls[c].stage = "store" /\ Fault /\ Settle(c, "lost") /\ rows' \in {rows, rows \cup Rows(c)}
    /\ UNCHANGED <<now, profiles, wire, page>>

(* ---- the page's position ---- *)
\* postOnce: the first of the callbacks that gets here posts, and the ref settles it
PostOnce(place) ==
    IF page.posted THEN calls' = calls ELSE Call("locate", <<[session |-> PageSession, given |-> place]>>)
CallbackDone(change) == page' = [change EXCEPT !.posted = TRUE]
Callback == UNCHANGED <<now, rows, profiles, wire, faults>>
TimerFires == /\ page.timer = "armed" /\ PostOnce(NoPlace)
              /\ CallbackDone([page EXCEPT !.timer = "off"]) /\ Callback
Refused == /\ page.position = "asked" /\ PostOnce(NoPlace)
           /\ CallbackDone([page EXCEPT !.timer = "off", !.position = "settled"]) /\ Callback
Position == /\ page.position = "asked" /\ page' = [page EXCEPT !.timer = "off", !.position = "geocoding"]
            /\ calls' = calls /\ Callback
\* the place two services name, or none does
Geocoded == /\ page.position = "geocoding" /\ (\E place \in Real \cup {NoPlace} : PostOnce(place))
            /\ CallbackDone([page EXCEPT !.position = "settled"]) /\ Callback
\* POST /events/location stores the position before it tracks the event
Locate(c) ==
    /\ calls[c].stage = "locate"
    /\ \/ /\ calls' = [calls EXCEPT ![c].stage = IF calls[c].events[1].given = NoPlace
                                                 THEN "lookup" ELSE "store"]
          /\ faults' = faults
       \/ Fault /\ Settle(c, "lost")
    /\ UNCHANGED <<now, rows, profiles, wire, page>>

Tick == now < MaxNow /\ now' = now + 1 /\ UNCHANGED <<calls, rows, profiles, wire, page, faults>>
\* a simulate run names a place for each of its events; a handler names none
Live == [session : Sessions \ Simulated, given : {NoPlace}]
Runs == [session : Simulated, given : Real]
Next ==
    \/ Tick \/ TimerFires \/ Refused \/ Position \/ Geocoded
    \/ \E e \in Live : TrackEvent(e)
    \/ \E n \in 1..MaxBatch : \E es \in [1..n -> Runs] : TrackEventsBatch(es)
    \/ \E c \in DOMAIN calls : Lookup(c) \/ Locate(c) \/ Store(c) \/ StoreFails(c)
Spec == Init /\ [][Next]_vars

(* ---- properties ---- *)
TypeOK ==
    /\ now \in Nat /\ rows \subseteq [id : Nat \X Nat, session : Sessions, given : Real \cup {NoPlace}]
    /\ calls \in Seq([stage : {"locate", "lookup", "store", "sent", "lost"}, events : Seq(Events)])
    /\ profiles \in Seq([session : Sessions, place : Places, invented : BOOLEAN, seen : Nat])
    /\ wire \in Seq([id : Nat \X Nat, session : Sessions, place : Places, marked : BOOLEAN, at : Nat])

\* What a session reported once it reports for as long as it is active: the ingestion API is
\* told two places for one session only if, since the first of them, as many other sessions
\* were heard of as the cache holds profiles. Concurrent calls of a session with different
\* places, lookups that end in another order, and a full cache all come to it.
SessionKeepsItsPlace ==
    \A i, j \in DOMAIN wire :
        i < j /\ wire[i].session = wire[j].session /\ wire[i].place # wire[j].place
        => Cardinality({wire[k].session : k \in {k \in 1..(j - 1) : wire[k].at >= wire[i].at}}
                       \ {wire[i].session}) >= MaxProfiles

\* What is forwarded is on record: every forwarded event is a stored row's, forwarded once
\* under the row's id, whatever the database does to the other rows of its batch; and a place
\* that is not marked as simulated is one that a stored row of the session names, so no draw
\* of the tracker reaches the warehouse as a measurement.
ForwardedIsStored ==
    /\ \A i \in DOMAIN wire : \E r \in rows : r.id = wire[i].id /\ r.session = wire[i].session
    /\ \A i, j \in DOMAIN wire : wire[i].id = wire[j].id => i = j
    /\ \A i \in DOMAIN wire : wire[i].marked \/
        \E r \in rows : r.session = wire[i].session /\ r.given = wire[i].place

===============================================================================
