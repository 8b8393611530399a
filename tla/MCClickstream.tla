----------------------------- MODULE MCClickstream -----------------------------
(* The two sources of the clickstream: the script of a simulated customer,     *)
(* which is Journey, and the tracker the pages and the handlers call, which is  *)
(* Tracker. A behaviour follows one of them while the other rests: they share   *)
(* only the Event table, where the rows of a simulate run are never read back.  *)
(*                                                                              *)
(* Journey: two countries of the city table and one it lacks, two device types, *)
(* and overrides that force each of them, narrow the scope, plant admin         *)
(* attempts, raise the loan funnel, silence logins and release the safeguard.   *)
(* Tracker: three sessions and room for two profiles; the customer of the page   *)
(* has a branch, and the simulated sessions are alike.                          *)
EXTENDS Journey, Tracker, TLC
CONSTANTS page_session, sim1, sim2, india, tokyo, berlin
VARIABLE source

TheCities == [India |-> {"Mumbai"}, Egypt |-> {"Cairo"}, Malta |-> {}]
Anywhere == [devices |-> {}, countries |-> {}]
On(events, traffic, failure) == [events |-> events, traffic |-> traffic, failure |-> failure]
Override(window, segment, devices, countries, targets, relax) ==
    [window |-> window, segment |-> segment, devices |-> devices, countries |-> countries,
     targets |-> targets, relax |-> relax]
TheOverrides ==
    {Override(1, [Anywhere EXCEPT !.devices = {"mobile"}], {"desktop", "mobile"}, {},
              {On({"violation"}, 2, 1)}, FALSE),
     Override(2, Anywhere, {}, {"Egypt", "Malta"}, {On({"approved"}, 20, 1), On({"login"}, 0, 1)}, FALSE),
     Override(2, [Anywhere EXCEPT !.countries = {"India"}], {}, {},
              {On({"approved", "feeds_failed"}, 3, 20)}, TRUE)}

TheHome == [s \in Sessions |-> IF s = page_session THEN india ELSE NoPlace]
Alike == Permutations(Simulated)

\* the script rests before the first block of a customer who joined today, without override
NoScript == /\ override = None /\ plan = [enterprise |-> FALSE, joined |-> 0]
            /\ dims = [device |-> "mobile", country |-> "India", city |-> "Mumbai"]
ClickstreamInit == /\ JourneyInit /\ Init
                   /\ \/ source = "script"
                      \/ source = "tracker" /\ NoScript
ClickstreamNext == /\ UNCHANGED source
                   /\ \/ source = "script" /\ JourneyNext /\ UNCHANGED vars
                      \/ source = "tracker" /\ Next /\ UNCHANGED journeyVars
ClickstreamSpec == ClickstreamInit /\ [][ClickstreamNext]_<<source, journeyVars, vars>>
===============================================================================
