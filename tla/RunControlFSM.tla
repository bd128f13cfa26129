--------------------------- MODULE RunControlFSM ---------------------------
(***************************************************************************)
(* What the run control promises of each node of its tree, with nothing    *)
(* said of how: a node goes from one FSM state to another only along a     *)
(* transition of the configured machine, one transition at a time, and     *)
(* once it has failed it neither moves nor recovers.  Controller.tla is    *)
(* shown to implement this specification.                                  *)
(***************************************************************************)
EXTENDS FSM

CONSTANT Node

VARIABLES
  operational_state,   \* the FSM state of each node
  in_error             \* has the node failed?

Init ==
  /\ operational_state = [n \in Node |-> InitialState]
  /\ in_error = [n \in Node |-> FALSE]

(* A healthy node takes a transition its state offers. *)
Move(n, t) ==
  /\ ~in_error[n]
  /\ can_execute_transition(operational_state[n], t)
  /\ operational_state' = [operational_state EXCEPT ![n] = get_destination_state(@, t)]
  /\ UNCHANGED in_error

(* A node fails for good. *)
Fail(n) ==
  /\ in_error' = [in_error EXCEPT ![n] = TRUE]
  /\ UNCHANGED operational_state

Next == \E n \in Node : Fail(n) \/ \E t \in Transition : Move(n, t)

vars == <<operational_state, in_error>>

Spec == Init /\ [][Next]_vars
=============================================================================
