------------------------------- MODULE MCLoanDesk -------------------------------
(* Who acts at the loan pages: one administrator with an application of each of    *)
(* two customers before him, or one customer with a form, in four acts and without   *)
(* a fault.                                                                          *)
EXTENDS LoanDesk, TLC
CONSTANTS asha, ravi, admin
TheWaiting == <<ravi, asha>>
TheBudgets == {admin :> 4 @@ asha :> 0 @@ Mishaps :> 0}
FormBudgets == {admin :> 0 @@ asha :> 4 @@ Mishaps :> 0}
================================================================================
