-------------------------- MODULE ConsentedDelivery --------------------------
(***************************************************************************)
(* What the execution tools promise, whatever the storage and the workers  *)
(* do: an action is first offered, the user consents to it, and only then  *)
(* does anything leave the system.  Nothing is said of how often a         *)
(* consented item is dispatched: the code does not bound that (README).    *)
(***************************************************************************)
CONSTANT Item

VARIABLES offered, consented, dispatched

vars == <<offered, consented, dispatched>>

Init == /\ offered = {}
        /\ consented = {}
        /\ dispatched = {}

Offer(i) == /\ i \notin offered
            /\ offered' = offered \cup {i}
            /\ UNCHANGED <<consented, dispatched>>

Consent(i) == /\ i \in offered
              /\ consented' = consented \cup {i}
              /\ UNCHANGED <<offered, dispatched>>

Dispatch(i) == /\ i \in consented
               /\ dispatched' = dispatched \cup {i}
               /\ UNCHANGED <<offered, consented>>

Next == \E i \in Item : Offer(i) \/ Consent(i) \/ Dispatch(i)

Spec == Init /\ [][Next]_vars
=============================================================================
