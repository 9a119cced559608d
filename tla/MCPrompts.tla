------------------------------- MODULE MCPrompts -------------------------------
(***************************************************************************)
(* Activations alone: the configuration exists, its first version is       *)
(* active and approved and a second one is a draft, as a creation and a    *)
(* createVersion leave it.  What was answered counts from here.            *)
(***************************************************************************)
EXTENDS Prompts

Configured ==
  /\ stored = [active |-> 1, status |-> <<"approved", "draft">>]
  /\ tx = [c \in Conn |-> Closed]
  /\ admin = [a \in Admin |-> Idle]
  /\ coach = [k \in Coach |-> Nothing]
  /\ chosen = {1} /\ answered = FALSE /\ strayed = FALSE /\ faults = 0

Activations == Configured /\ [][Next]_vars
================================================================================
