----------------------------- MODULE MCSimulationRun -----------------------------
(* Three customers, so that the payee pass runs: the days of the first hold    *)
(* three things to do, the others never log in. LoanDraws are one customer's.    *)
EXTENDS SimulationRun

TheDraws == <<3, 0, 0>>
LoanDraws == <<4>>
===============================================================================
