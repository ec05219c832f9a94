---------------------------- MODULE AckedDelivery ----------------------------
(***************************************************************************)
(* What ack-on-enqueue promises, and no more: a point is accepted once and *)
(* settled once.  Settling stores it, loses it, or leaves it in doubt, and *)
(* then it may be stored later; it is never stored twice, nor before it is *)
(* settled.  The comments it states are those of ingester.go: "ack-on-     *)
(* enqueue" and "small crash-loss window" (54-58), "drop the batch         *)
(* (accepted data-loss limitation)" (192-193).                             *)
(***************************************************************************)
EXTENDS Naturals

CONSTANT Points

VARIABLES accepted, settled, copies, inDoubt
vars == << accepted, settled, copies, inDoubt >>

Init == /\ accepted = {} /\ settled = {} /\ inDoubt = {}
        /\ copies = [p \in Points |-> 0]

Stored(S) == copies' = [p \in Points |-> IF p \in S THEN 1 ELSE copies[p]]

\* A request is acknowledged.
Accept(P) == /\ P \cap accepted = {}
             /\ accepted' = accepted \cup P
             /\ UNCHANGED << settled, copies, inDoubt >>

\* The points P leave memory: those of S are stored, those of D in doubt, others lost.
Settle(P, S, D) == /\ P \cap settled = {} /\ S \cap D = {}
                   /\ settled' = settled \cup P
                   /\ Stored(S)
                   /\ inDoubt' = inDoubt \cup D
                   /\ UNCHANGED accepted

\* The store carries out a write that was given up.
Land(p) == /\ Stored({p})
           /\ inDoubt' = inDoubt \ {p}
           /\ UNCHANGED << accepted, settled >>

Next == \/ \E P \in SUBSET Points : Accept(P)
        \/ \E P \in SUBSET accepted : \E S, D \in SUBSET P : Settle(P, S, D)
        \/ \E p \in inDoubt : Land(p)

Spec == Init /\ [][Next]_vars
=============================================================================
