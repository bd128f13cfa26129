------------------------ MODULE StatefulNode_proofs ------------------------
(* What StatefulNode keeps for every machine and every set of nodes.       *)
EXTENDS StatefulNode, TLAPS

(* A transition taken from a state of the machine leads to a state of it.  *)
LEMMA DestinationIsState ==
  ASSUME NEW s \in State, NEW t \in Transition
  PROVE  get_destination_state(s, t) \in State
BY FSMAssumption DEF get_destination_state

(* The sub-states a transition can be at, one by one. *)
LEMMA SubStateMembers ==
  /\ \A s \in State : <<"state", s>> \in SubState
  /\ \A k \in BeforeMove \cup AfterMove, t \in Transition : <<k, t>> \in SubState
BY DEF SubState

NodeInv == NodeTypeOK /\ SubStateAgrees

(* SubStateAgrees at one node. *)
Agrees(n) ==
  LET kind == operational_sub_state[n][1]
      name == operational_sub_state[n][2]
  IN /\ kind = "state" => name = operational_state[n]
     /\ kind \in BeforeMove => can_execute_transition(operational_state[n], name)
     /\ kind \in AfterMove =>
          \E s \in Source[name] : operational_state[n] = get_destination_state(s, name)

LEMMA AgreesUnchanged ==
  ASSUME NEW n \in Node, Agrees(n), operational_state'[n] = operational_state[n],
         operational_sub_state'[n] = operational_sub_state[n]
  PROVE  Agrees(n)'
BY DEF Agrees, can_execute_transition, get_destination_state

(* A node starts settled in the initial state, free of error and included. *)
LEMMA NodeInitInv == NodeInit => NodeInv
<1> SUFFICES ASSUME NodeInit PROVE NodeInv
  OBVIOUS
<1>1. NodeTypeOK
  BY FSMAssumption, SubStateMembers DEF NodeInit, NodeTypeOK
<1>2. SubStateAgrees
  BY DEF NodeInit, SubStateAgrees, BeforeMove, AfterMove
<1> QED
  BY <1>1, <1>2 DEF NodeInv

(* Each operation keeps both the types and the agreement of the two        *)
(* attributes, whatever the node it is called on.                          *)
LEMMA NodeStepInv ==
  ASSUME NodeInv, [NodeNext]_nodeVars
  PROVE  NodeInv'
<1> USE FSMAssumption DEF NodeInv
<1>1. CASE UNCHANGED nodeVars
  BY <1>1 DEF nodeVars, NodeTypeOK, SubStateAgrees, can_execute_transition, get_destination_state
<1>2. ASSUME NEW n \in Node, include_node(n) \/ exclude_node(n) \/ to_error(n)
      PROVE  NodeInv'
  BY <1>2 DEF include_node, exclude_node, to_error, NodeTypeOK, SubStateAgrees,
              can_execute_transition, get_destination_state
<1>3. ASSUME NEW n \in Node, NEW t \in Transition, NEW ok \in BOOLEAN, prepare_transition(n, t, ok)
      PROVE  NodeInv'
  <2>1. NodeTypeOK'
    BY <1>3, SubStateMembers DEF prepare_transition, NodeTypeOK, BeforeMove
  <2>2. SubStateAgrees'
    BY <1>3 DEF prepare_transition, can_transition, NodeTypeOK, SubStateAgrees, BeforeMove, AfterMove,
                can_execute_transition, get_destination_state
  <2> QED BY <2>1, <2>2
<1>4. ASSUME NEW n \in Node, NEW t \in Transition,
             NEW from \in BeforeMove, NEW to \in BeforeMove, Mark(n, t, from, to)
      PROVE  NodeInv'
  <2>1. NodeTypeOK'
    BY <1>4, SubStateMembers DEF Mark, NodeTypeOK
  <2>2. ASSUME NEW m \in Node PROVE Agrees(m)'
    <3>1. CASE m = n
      <4>1. /\ operational_sub_state[n] = <<from, t>> /\ operational_sub_state'[n] = <<to, t>>
            /\ operational_state'[n] = operational_state[n]
        BY <1>4 DEF Mark, NodeTypeOK
      <4>2. can_execute_transition(operational_state[n], t)
        BY <4>1 DEF SubStateAgrees
      <4> QED BY <3>1, <4>1, <4>2 DEF Agrees, BeforeMove, AfterMove, can_execute_transition
    <3>2. CASE m # n
      BY <1>4, <3>2, AgreesUnchanged DEF Mark, NodeTypeOK, SubStateAgrees, Agrees
    <3> QED BY <3>1, <3>2
  <2> QED BY <2>1, <2>2 DEF SubStateAgrees, Agrees
<1>5. ASSUME NEW n \in Node, NEW t \in Transition, terminate_transition_mark(n, t)
      PROVE  NodeInv'
  <2>1. NodeTypeOK'
    BY <1>5, SubStateMembers, DestinationIsState DEF terminate_transition_mark, NodeTypeOK, AfterMove
  <2>2. ASSUME NEW m \in Node PROVE Agrees(m)'
    <3>1. CASE m = n
      <4>1. /\ operational_sub_state[n] = <<"executing", t>>
            /\ operational_sub_state'[n] = <<"terminated", t>>
            /\ operational_state'[n] = get_destination_state(operational_state[n], t)
        BY <1>5 DEF terminate_transition_mark, NodeTypeOK
      <4>2. operational_state[n] \in Source[t]
        BY <4>1 DEF SubStateAgrees, BeforeMove, can_execute_transition
      <4> QED BY <3>1, <4>1, <4>2 DEF Agrees, BeforeMove, AfterMove, get_destination_state
    <3>2. CASE m # n
      BY <1>5, <3>2, AgreesUnchanged DEF terminate_transition_mark, NodeTypeOK, SubStateAgrees, Agrees
    <3> QED BY <3>1, <3>2
  <2> QED BY <2>1, <2>2 DEF SubStateAgrees, Agrees
<1>6. ASSUME NEW n \in Node, NEW t \in Transition, NEW ok \in BOOLEAN, finalise_transition(n, t, ok)
      PROVE  NodeInv'
  <2>1. NodeTypeOK'
    BY <1>6, SubStateMembers DEF finalise_transition, NodeTypeOK, AfterMove
  <2>2. ASSUME NEW m \in Node PROVE Agrees(m)'
    <3>1. CASE m = n
      <4>1. /\ operational_sub_state[n] = <<"terminated", t>>
            /\ operational_sub_state'[n] \in {<<"state", operational_state[n]>>, <<"finalising", t>>}
            /\ operational_state'[n] = operational_state[n]
        BY <1>6 DEF finalise_transition, NodeTypeOK
      <4>2. \E s \in Source[t] : operational_state[n] = get_destination_state(s, t)
        BY <4>1 DEF SubStateAgrees, AfterMove
      <4> QED BY <3>1, <4>1, <4>2 DEF Agrees, BeforeMove, AfterMove, get_destination_state
    <3>2. CASE m # n
      BY <1>6, <3>2, AgreesUnchanged DEF finalise_transition, NodeTypeOK, SubStateAgrees, Agrees
    <3> QED BY <3>1, <3>2
  <2> QED BY <2>1, <2>2 DEF SubStateAgrees, Agrees
<1> QED
  BY <1>1, <1>2, <1>3, <1>4, <1>5, <1>6
  DEF NodeNext, TransitionStep, propagate_transition_mark, finish_propagating_transition_mark,
      start_transition_mark, BeforeMove

(* The attributes keep their types and never contradict each other.        *)
THEOREM NodeSafety == NodeSpec => [](NodeTypeOK /\ SubStateAgrees)
BY NodeInitInv, NodeStepInv, PTL DEF NodeSpec, NodeInv

(* One operation changes the operational state only out of executing-t,    *)
(* along t.                                                                *)
LEMMA NodeStepFollows ==
  ASSUME NodeInv, [NodeNext]_nodeVars, NEW n \in Node,
         operational_state'[n] # operational_state[n]
  PROVE  \E t \in Transition :
           /\ operational_sub_state[n] = <<"executing", t>>
           /\ can_execute_transition(operational_state[n], t)
           /\ operational_state'[n] = get_destination_state(operational_state[n], t)
<1>1. PICK m \in Node, t \in Transition : terminate_transition_mark(m, t)
  BY DEF NodeNext, TransitionStep, nodeVars, include_node, exclude_node, to_error, Mark,
         prepare_transition, propagate_transition_mark, finish_propagating_transition_mark,
         start_transition_mark, finalise_transition
<1>2. m = n /\ operational_state'[n] = get_destination_state(operational_state[n], t)
  BY <1>1 DEF terminate_transition_mark, NodeInv, NodeTypeOK
<1>3. can_execute_transition(operational_state[n], t)
  BY <1>1, <1>2 DEF terminate_transition_mark, NodeInv, SubStateAgrees, BeforeMove
<1> QED
  BY <1>1, <1>2, <1>3 DEF terminate_transition_mark

(* A node changes its operational state only as the effect of the          *)
(* transition its sub-state names.                                         *)
THEOREM StateChangesFollowTransitions == NodeSpec => StateFollowsTransition
<1>1. NodeInv /\ [NodeNext]_nodeVars =>
        [\A n \in Node :
           operational_state'[n] # operational_state[n] =>
             \E t \in Transition :
               /\ operational_sub_state[n] = <<"executing", t>>
               /\ can_execute_transition(operational_state[n], t)
               /\ operational_state'[n] = get_destination_state(operational_state[n], t)]_nodeVars
  BY NodeStepFollows
<1> QED
  BY <1>1, NodeSafety, PTL DEF NodeSpec, NodeInv, StateFollowsTransition

(* A node whose callback raised is left where it is for good.              *)
THEOREM RaisedCallbackIsFinal == NodeSpec => RaisedIsFinal
<1> DEFINE Raised(n) == operational_sub_state[n][1] \in {"preparing", "finalising"}
           Stays(n)  == /\ operational_sub_state'[n] = operational_sub_state[n]
                        /\ operational_state'[n] = operational_state[n]
<1>1. ASSUME NodeInv, NodeNext, NEW n \in Node, Raised(n)
      PROVE  Stays(n)
  <2>1. ~settled(n) /\ \A k \in {"ready", "propagating", "propagated", "executing", "terminated"},
                          t \in Transition : operational_sub_state[n] # <<k, t>>
    BY <1>1 DEF settled
  <2> QED
    BY <1>1, <2>1
    DEF NodeInv, NodeTypeOK, NodeNext, TransitionStep, include_node, exclude_node, to_error, Mark,
        prepare_transition, can_transition, propagate_transition_mark,
        finish_propagating_transition_mark, start_transition_mark, terminate_transition_mark,
        finalise_transition
<1>2. NodeInv /\ [NodeNext]_nodeVars => [\A n \in Node : Raised(n) => Stays(n)]_nodeVars
  BY <1>1
<1> QED
  BY <1>2, NodeSafety, PTL DEF NodeSpec, NodeInv, RaisedIsFinal
=============================================================================
