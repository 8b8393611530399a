---------------------------- MODULE MCBankLedger ----------------------------
(* Small instances of the bank: two accounts of one customer and, where the *)
(* constants say so, one of another.                                        *)
EXTENDS BankLedger

CONSTANTS Savings, Current, Foreign
OneCustomer == [x \in Accounts |-> IF x = Foreign THEN "other" ELSE "owner"]
OneEach == [x \in Accounts |-> 1]
OneLoan == [x \in Apps |-> 1]
Payrolls == {<<Current>>, <<Savings, Current>>}
=============================================================================
