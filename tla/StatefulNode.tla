--------------------------- MODULE StatefulNode ---------------------------
(***************************************************************************)
(* Class StatefulNode of controller/stateful_node.py: the operational      *)
(* state, the sub-state that follows a transition through its steps, the   *)
(* inclusion and the error flags of a controller.  One StatefulNode lives  *)
(* in every controller process, so each variable is a function over Node.  *)
(*                                                                         *)
(* Every operation is an action.  A Python exception raised by one of the  *)
(* *_mark methods leaves the node unchanged, so it is simply not enabled   *)
(* here; an exception raised by an FSM action (a callback run before or    *)
(* after the transition) leaves the sub-state where it was written last,   *)
(* and is the case ok = FALSE of the two actions that run callbacks.       *)
(***************************************************************************)
EXTENDS FSM

CONSTANT Node           \* the controllers

VARIABLES
  operational_state,      \* [Node -> State]
  operational_sub_state,  \* [Node -> SubState]
  included,               \* [Node -> BOOLEAN]
  in_error                \* [Node -> BOOLEAN]

nodeVars == <<operational_state, operational_sub_state, included, in_error>>
-----------------------------------------------------------------------------
(* A sub-state string is either the name of a state or the name of a       *)
(* transition with a prefix or a suffix: here a pair <<kind, name>>.       *)
BeforeMove == {"preparing", "ready", "propagating", "propagated", "executing"}
AfterMove  == {"terminated", "finalising"}
SubState   == ({"state"} \X State) \cup ((BeforeMove \cup AfterMove) \X Transition)

(* No transition under way: sub-state and state are the same string. *)
settled(n) == operational_sub_state[n] = <<"state", operational_state[n]>>

(* Faults: one of the two tests of can_transition is forgotten. *)
can_transition_if_settled(n, t) == settled(n)

can_transition_if_offered(n, t) == can_execute_transition(operational_state[n], t)

can_transition(n, t) == settled(n) /\ can_execute_transition(operational_state[n], t)

NodeInit ==
  /\ operational_state = [n \in Node |-> InitialState]
  /\ operational_sub_state = [n \in Node |-> <<"state", InitialState>>]
  /\ included = [n \in Node |-> TRUE]
  /\ in_error = [n \in Node |-> FALSE]

include_node(n) ==
  /\ ~included[n]
  /\ included' = [included EXCEPT ![n] = TRUE]
  /\ UNCHANGED <<operational_state, operational_sub_state, in_error>>

exclude_node(n) ==
  /\ included[n]
  /\ included' = [included EXCEPT ![n] = FALSE]
  /\ UNCHANGED <<operational_state, operational_sub_state, in_error>>

to_error(n) ==
  /\ in_error' = [in_error EXCEPT ![n] = TRUE]
  /\ UNCHANGED <<operational_state, operational_sub_state, included>>

(* preparing-t, the callbacks, then t-ready unless a callback raised *)
prepare_transition(n, t, ok) ==
  /\ can_transition(n, t)
  /\ operational_sub_state' =
       [operational_sub_state EXCEPT ![n] = <<IF ok THEN "ready" ELSE "preparing", t>>]
  /\ UNCHANGED <<operational_state, included, in_error>>

(* A *_transition_mark method: the sub-state must be the expected one.     *)
Mark(n, t, from, to) ==
  /\ operational_sub_state[n] = <<from, t>>
  /\ operational_sub_state' = [operational_sub_state EXCEPT ![n] = <<to, t>>]
  /\ UNCHANGED <<operational_state, included, in_error>>

propagate_transition_mark(n, t)        == Mark(n, t, "ready", "propagating")
finish_propagating_transition_mark(n, t) == Mark(n, t, "propagating", "propagated")
start_transition_mark(n, t)            == Mark(n, t, "propagated", "executing")

(* Fault: the sub-state is not tested before the state is changed. *)
terminate_unchecked(n, t) ==
  /\ operational_sub_state' = [operational_sub_state EXCEPT ![n] = <<"terminated", t>>]
  /\ operational_state' = [operational_state EXCEPT ![n] = get_destination_state(@, t)]
  /\ UNCHANGED <<included, in_error>>

(* The only operation that moves the node to another operational state. *)
terminate_transition_mark(n, t) ==
  /\ operational_sub_state[n] = <<"executing", t>>
  /\ operational_sub_state' = [operational_sub_state EXCEPT ![n] = <<"terminated", t>>]
  /\ operational_state' = [operational_state EXCEPT ![n] = get_destination_state(@, t)]
  /\ UNCHANGED <<included, in_error>>

(* finalising-t, the callbacks, then settled again unless a callback raised *)
finalise_transition(n, t, ok) ==
  /\ operational_sub_state[n] = <<"terminated", t>>
  /\ operational_sub_state' =
       [operational_sub_state EXCEPT
          ![n] = IF ok THEN <<"state", operational_state[n]>> ELSE <<"finalising", t>>]
  /\ UNCHANGED <<operational_state, included, in_error>>

TransitionStep(n, t) ==
  \/ \E ok \in BOOLEAN : prepare_transition(n, t, ok)
  \/ propagate_transition_mark(n, t)
  \/ finish_propagating_transition_mark(n, t)
  \/ start_transition_mark(n, t)
  \/ terminate_transition_mark(n, t)
  \/ \E ok \in BOOLEAN : finalise_transition(n, t, ok)

NodeNext ==
  \E n \in Node :
    \/ include_node(n)
    \/ exclude_node(n)
    \/ to_error(n)
    \/ \E t \in Transition : TransitionStep(n, t)

NodeSpec == NodeInit /\ [][NodeNext]_nodeVars
-----------------------------------------------------------------------------
(* The values the four attributes of a StatefulNode range over. *)
NodeTypeOK ==
  /\ operational_state \in [Node -> State]
  /\ operational_sub_state \in [Node -> SubState]
  /\ included \in [Node -> BOOLEAN]
  /\ in_error \in [Node -> BOOLEAN]

(* The sub-state never contradicts the state: while the sub-state names a  *)
(* transition that has not moved the node yet, the node is in a state this *)
(* transition may leave; once the transition has moved it, the node is in  *)
(* a state the transition leads to; a sub-state that names a state names   *)
(* the current one.  (The code writes the two attributes one after the     *)
(* other, in terminate_transition_mark and finalise_transition.)           *)
SubStateAgrees ==
  \A n \in Node :
    LET kind == operational_sub_state[n][1]
        name == operational_sub_state[n][2]
    IN /\ kind = "state" => name = operational_state[n]
       /\ kind \in BeforeMove => can_execute_transition(operational_state[n], name)
       /\ kind \in AfterMove =>
            \E s \in Source[name] : operational_state[n] = get_destination_state(s, name)

(* A callback that raises is the end of the road: a node left in           *)
(* preparing-t or finalising-t never changes state or sub-state again,     *)
(* because can_transition insists on sub-state = state and nothing but a   *)
(* transition writes the sub-state.                                        *)
RaisedIsFinal ==
  [][\A n \in Node :
       operational_sub_state[n][1] \in {"preparing", "finalising"} =>
         /\ operational_sub_state'[n] = operational_sub_state[n]
         /\ operational_state'[n] = operational_state[n]]_nodeVars

(* A node changes its operational state only as the effect of the          *)
(* transition its sub-state says is executing, from a state that           *)
(* transition may leave, into the state it leads to.                       *)
StateFollowsTransition ==
  [][\A n \in Node :
       operational_state'[n] # operational_state[n] =>
         \E t \in Transition :
           /\ operational_sub_state[n] = <<"executing", t>>
           /\ can_execute_transition(operational_state[n], t)
           /\ operational_state'[n] = get_destination_state(operational_state[n], t)]_nodeVars
=============================================================================
