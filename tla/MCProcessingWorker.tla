-------------------------- MODULE MCProcessingWorker --------------------------
(* Small instances of ProcessingWorker: two replicas, the orders topic and *)
(* the retry topic, and the events each run needs.                         *)
EXTENDS ProcessingWorker, TLC

CONSTANTS w1, w2, orders, retry, eA, eB, eC

Symmetry == Permutations(Workers)

MCPartitions == {orders, retry}
MCTopic == [p \in Partitions |-> p]

\* eA: a risky payment; eB: an envelope with the id of eA and other contents;
\* eC: an order.
MCRisky == {eA}
MCIdShared == [e \in Envelopes |-> IF e = eC THEN 2 ELSE 1]
MCIdOwn == [e \in Envelopes |-> CASE e = eA -> 1 [] e = eB -> 3 [] e = eC -> 2]
MCKindPayment == [e \in Envelopes |-> IF e = eC THEN "order" ELSE "payment"]
MCKindSession == [e \in Envelopes |-> IF e = eC THEN "session" ELSE "payment"]
MCKeyOwn == [e \in Envelopes |-> IF e = eC THEN 2 ELSE 1]
MCOneTenant == [e \in Envelopes |-> "t1"]
MCTwoTenants == [e \in Envelopes |-> IF e = eA THEN "t1" ELSE "t2"]
MCNoDelta == [e \in Envelopes |-> 0]
MCAllRoutes == [e \in Envelopes |-> Partitions]

\* Product events of one product: eB before eA is cut off at zero.
MCKindProduct == [e \in Envelopes |-> "product"]
MCDelta == [e \in Envelopes |-> CASE e = eA -> 3 [] e = eB -> -2 [] e = eC -> 1]
MCKeySame == [e \in Envelopes |-> 1]
MCDomainRoute == [e \in Envelopes |-> {orders}]
===============================================================================
