------------------------------- MODULE Sifting -------------------------------
(* Part of a sequence, in its order.  The proofs know nothing of SelectSeq, *)
(* whose test is an operator; here the positions that stay are a set.       *)
EXTENDS Naturals, Sequences, FiniteSets

\* where position j of the whole is in what the positions K leave
Place(K, j) == Cardinality({i \in K : i <= j})
Sifted(s, K) == [n \in 1 .. Cardinality(K) |-> s[CHOOSE j \in K : Place(K, j) = n]]

\* what of s is in T, and what passes a test
Among(s, T) ==
  LET kept[n \in 0 .. Len(s)] ==
        IF n = 0 THEN <<>> ELSE IF s[n] \in T THEN Append(kept[n - 1], s[n]) ELSE kept[n - 1]
  IN  kept[Len(s)]
Those(s, Test(_)) == Among(s, {s[i] : i \in {i \in DOMAIN s : Test(s[i])}})
===============================================================================
