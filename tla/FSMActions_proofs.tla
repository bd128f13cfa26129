------------------------- MODULE FSMActions_proofs -------------------------
(* What the callbacks keep, for every machine and every configuration of   *)
(* the sequences of callbacks.                                             *)
EXTENDS FSMActions, TLAPS

sub == operational_sub_state

SubStates == ({"state"} \X State) \cup
  ({"preparing", "ready", "propagating", "propagated", "executing",
    "terminated", "finalising"} \X Transition)

(* A sequence is that of the callbacks before or after a transition while  *)
(* they are executed, and empty otherwise.                                 *)
LEMMA SequenceIs ==
  ASSUME sub \in SubStates
  PROVE  /\ sequence \in Seq([action : STRING, mandatory : BOOLEAN])
         /\ sub[1] = "preparing" => sequence = pre_transition_sequences[sub[2]]
         /\ sub[1] = "finalising" => sequence = post_transition_sequences[sub[2]]
         /\ sub[1] \notin {"preparing", "finalising"} => sequence = <<>>
<1>1. CASE sub[1] = "preparing"
  <2>1. sub[2] \in Transition
    BY <1>1 DEF SubStates
  <2>2. sequence = pre_transition_sequences[sub[2]]
    BY <1>1 DEF sequence, sub
  <2> QED
    BY <1>1, <2>1, <2>2, ActionsAssumption
<1>2. CASE sub[1] = "finalising"
  <2>1. sub[2] \in Transition
    BY <1>2 DEF SubStates
  <2>2. sequence = post_transition_sequences[sub[2]]
    BY <1>2 DEF sequence, sub
  <2> QED
    BY <1>2, <2>1, <2>2, ActionsAssumption
<1>3. CASE sub[1] \notin {"preparing", "finalising"}
  BY <1>3 DEF sequence, sub
<1> QED
  BY <1>1, <1>2, <1>3

InPlace == at # 0 => sub[1] \in {"preparing", "finalising"}

TypeInv == TypeOK /\ InPlace

LEMMA TypeInit == Init => TypeInv
<1> SUFFICES ASSUME Init PROVE TypeInv
  OBVIOUS
<1> USE FSMAssumption, ActionsAssumption
<1>1. operational_sub_state \in ({"state"} \X State)
  BY DEF Init
<1>2. {data, told, run_number, last_run} \subseteq 0..MaxRun
  BY DEF Init
<1>3. recorded \in [Registry -> SUBSET Run]
  BY DEF Init
<1>4. elisa \in [run_num : 0..MaxRun, thread_id : 0..MaxRun, det_id : BOOLEAN]
  BY DEF Init
<1> QED
  BY <1>1, <1>2, <1>3, <1>4 DEF Init, TypeInv, TypeOK, InPlace

LEMMA TypedSub == TypeOK => sub \in SubStates
BY DEF TypeOK, sub, SubStates

(* What every callback does: it returns, raises and is passed over, or     *)
(* raises and ends the sequence; it leaves the node as it is.              *)
CallbackEffect(t) ==
  /\ sub \in {<<"preparing", t>>, <<"finalising", t>>}
  /\ at \in DOMAIN sequence
  /\ at' \in {0, at + 1}
  /\ UNCHANGED <<nodeVars, children, told>>

LEMMA CallbackMoves ==
  ASSUME NEW t \in Transition, Callback(t)
  PROVE  CallbackEffect(t)
<1> USE DEF Calls, returns, raises, sub
<1>1. ASSUME NEW action, NEW kind \in {"preparing", "finalising"}, NEW u, Calls(action, kind, u)
      PROVE  /\ at \in DOMAIN sequence
             /\ sub = <<kind, u>>
  BY <1>1
<1>2. sub[2] = t /\ UNCHANGED <<nodeVars, children, told>>
  BY DEF Callback
<1>3. at \in DOMAIN sequence /\ at' \in {0, at + 1} /\ sub[1] \in {"preparing", "finalising"}
      /\ sub = <<sub[1], sub[2]>>
  <2>1. CASE UserProvidedRunNumber_pre_start
    BY <2>1 DEF UserProvidedRunNumber_pre_start
  <2>2. CASE UsvcProvidedRunNumber_pre_start
    BY <2>2 DEF UsvcProvidedRunNumber_pre_start
  <2>3. CASE DBRunRegistry_pre_start
    BY <2>3 DEF DBRunRegistry_pre_start
  <2>4. CASE DBRunRegistry_post_drain_dataflow
    BY <2>4 DEF DBRunRegistry_post_drain_dataflow
  <2>5. CASE FileRunRegistry_pre_start
    BY <2>5 DEF FileRunRegistry_pre_start
  <2>6. CASE FileLogbook(t)
    BY <2>6 DEF FileLogbook
  <2>7. CASE ElisaLogbook_post_start
    BY <2>7 DEF ElisaLogbook_post_start
  <2>8. CASE ElisaLogbook_post_drain_dataflow
    BY <2>8 DEF ElisaLogbook_post_drain_dataflow
  <2>9. ASSUME NEW kind \in {"preparing", "finalising"}, ThreadPinning(kind, t)
        PROVE  at \in DOMAIN sequence /\ at' \in {0, at + 1}
               /\ sub[1] \in {"preparing", "finalising"} /\ sub = <<sub[1], sub[2]>>
    BY <2>9 DEF ThreadPinning
  <2>10. ASSUME NEW action, AddsArguments(action, t)
         PROVE  at \in DOMAIN sequence /\ at' \in {0, at + 1}
                /\ sub[1] \in {"preparing", "finalising"} /\ sub = <<sub[1], sub[2]>>
    BY <2>10 DEF AddsArguments
  <2> QED
    BY <2>1, <2>2, <2>3, <2>4, <2>5, <2>6, <2>7, <2>8, <2>9, <2>10 DEF Callback
<1> QED
  BY <1>2, <1>3 DEF CallbackEffect

(* The values that callbacks keep and hand on stay in their types. *)
ValuesOK ==
  /\ {data, told, run_number, last_run} \subseteq 0..MaxRun
  /\ elisa \in [run_num : 0..MaxRun, thread_id : 0..MaxRun, det_id : BOOLEAN]
  /\ recorded \in [Registry -> SUBSET Run]

LEMMA CallbackValues ==
  ASSUME ValuesOK, NEW t \in Transition, Callback(t)
  PROVE  ValuesOK'
<1> USE ActionsAssumption DEF ValuesOK, returns, raises, actionVars, outside, Run
<1> told' = told
  BY DEF Callback
<1>1. CASE UserProvidedRunNumber_pre_start
  BY <1>1 DEF UserProvidedRunNumber_pre_start
<1>2. CASE UsvcProvidedRunNumber_pre_start
  BY <1>2 DEF UsvcProvidedRunNumber_pre_start
<1>n. data \in 0..MaxRun /\ (data # 0 => data \in 1..MaxRun)
  OBVIOUS
<1>r. ASSUME NEW r \in Registry, NEW d \in 1..MaxRun
      PROVE  [recorded EXCEPT ![r] = @ \cup {d}] \in [Registry -> SUBSET (1..MaxRun)]
  OBVIOUS
<1>3. CASE DBRunRegistry_pre_start
  <2>1. recorded' \in [Registry -> SUBSET (1..MaxRun)]
    <3>1. CASE data = 0
      BY <1>3, <3>1 DEF DBRunRegistry_pre_start
    <3>2. CASE data # 0
      BY <1>3, <3>2, <1>n, <1>r DEF DBRunRegistry_pre_start, Registry
    <3> QED
      BY <3>1, <3>2
  <2>2. data' = data /\ run_number' \in {run_number, data} /\ UNCHANGED <<elisa, last_run>>
    BY <1>3 DEF DBRunRegistry_pre_start
  <2> QED
    BY <2>1, <2>2
<1>4. CASE DBRunRegistry_post_drain_dataflow
  <2>1. /\ data' \in {data, 0}
        /\ UNCHANGED <<run_number, elisa, last_run, recorded>>
    BY <1>4 DEF DBRunRegistry_post_drain_dataflow
  <2> QED
    BY <2>1
<1>5. CASE FileRunRegistry_pre_start
  <2>1. recorded' \in [Registry -> SUBSET (1..MaxRun)]
    BY <1>5, <1>n, <1>r DEF FileRunRegistry_pre_start, Registry
  <2>2. data' = data /\ UNCHANGED <<run_number, elisa, last_run>>
    BY <1>5 DEF FileRunRegistry_pre_start
  <2> QED
    BY <2>1, <2>2
<1>6. CASE FileLogbook(t)
  BY <1>6 DEF FileLogbook
<1>7. CASE ElisaLogbook_post_start
  <2> DEFINE run == IF data = 0 THEN elisa.run_num ELSE data
             Became(thread, found) ==
               elisa' = [run_num |-> run, thread_id |-> thread, det_id |-> found]
  <2>1. {run, data, 0} \subseteq 0..MaxRun /\ elisa.det_id \in BOOLEAN
    OBVIOUS
  <2>2. Became(0, elisa.det_id) \/ Became(0, TRUE) \/ Became(data, TRUE)
    BY <1>7 DEF ElisaLogbook_post_start
  <2> HIDE ActionsAssumption DEF run
  <2>3. ASSUME NEW thread \in 0..MaxRun, NEW found \in BOOLEAN, Became(thread, found)
        PROVE  elisa' \in [run_num : 0..MaxRun, thread_id : 0..MaxRun, det_id : BOOLEAN]
    BY <2>1, <2>3
  <2>4. data' = data /\ UNCHANGED <<run_number, last_run, recorded>>
    BY <1>7 DEF ElisaLogbook_post_start
  <2> HIDE DEF Became
  <2>5. elisa' \in [run_num : 0..MaxRun, thread_id : 0..MaxRun, det_id : BOOLEAN]
    BY <2>1, <2>2, <2>3
  <2> QED
    BY <2>4, <2>5
<1>8. CASE ElisaLogbook_post_drain_dataflow
  BY <1>8 DEF ElisaLogbook_post_drain_dataflow
<1>9. ASSUME NEW kind \in {"preparing", "finalising"}, ThreadPinning(kind, t)
      PROVE  ValuesOK'
  BY <1>9 DEF ThreadPinning
<1>10. ASSUME NEW action, AddsArguments(action, t) PROVE ValuesOK'
  BY <1>10 DEF AddsArguments
<1> QED
  BY <1>1, <1>2, <1>3, <1>4, <1>5, <1>6, <1>7, <1>8, <1>9, <1>10 DEF Callback

LEMMA AtLeastOne ==
  ASSUME NEW t \in Transition,
         operational_sub_state' \in {<<"preparing", t>>, <<"finalising", t>>}
  PROVE  1 \in 1..(Len(sequence) + 1)'
<1>1. CASE operational_sub_state' = <<"preparing", t>>
  <2>1. sequence' = pre_transition_sequences[t]
    BY <1>1 DEF sequence
  <2>2. Len(pre_transition_sequences[t]) \in Nat
    BY ActionsAssumption
  <2> QED
    BY <2>1, <2>2
<1>2. CASE operational_sub_state' = <<"finalising", t>>
  <2>1. sequence' = post_transition_sequences[t]
    BY <1>2 DEF sequence
  <2>2. Len(post_transition_sequences[t]) \in Nat
    BY ActionsAssumption
  <2> QED
    BY <2>1, <2>2
<1> QED
  BY <1>1, <1>2

LEMMA DestinationIsState ==
  ASSUME NEW s \in State, NEW t \in Transition
  PROVE  get_destination_state(s, t) \in State
BY FSMAssumption DEF get_destination_state

NodeOK ==
  /\ operational_state \in State
  /\ operational_sub_state \in SubStates
  /\ in_error \in BOOLEAN
  /\ children \in {"ok", "failed"}

LEMMA TypeParts == TypeOK <=> NodeOK /\ ValuesOK /\ (at = 0 \/ at \in 1..Len(sequence) + 1)
BY DEF TypeOK, NodeOK, ValuesOK, SubStates

LEMMA CallbackTypes ==
  ASSUME TypeInv, NEW t \in Transition, Callback(t)
  PROVE  TypeInv'
<1>1. CallbackEffect(t)
  BY CallbackMoves
<1>2. ValuesOK'
  BY CallbackValues, TypeParts DEF TypeInv
<1>3. NodeOK' /\ InPlace'
  BY <1>1, TypeParts DEF NodeOK, InPlace, TypeInv, CallbackEffect, nodeVars, sub
<1>4. at' = 0 \/ at' \in 1..(Len(sequence) + 1)'
  <2>1. sequence' = sequence
    BY <1>1 DEF CallbackEffect, nodeVars, sequence
  <2>2. sequence \in Seq([action : STRING, mandatory : BOOLEAN])
    BY SequenceIs, TypedSub DEF TypeInv
  <2>3. at \in 1..Len(sequence) /\ at' \in {0, at + 1}
    BY <1>1, <2>2 DEF CallbackEffect
  <2>4. Len(sequence) \in Nat
    BY <2>2
  <2>5. at' = 0 \/ at' \in 1..(Len(sequence) + 1)
    BY <2>3, <2>4
  <2> QED
    BY <2>1, <2>5
<1>5. TypeOK'
  BY <1>2, <1>3, <1>4 DEF TypeOK, NodeOK, ValuesOK, SubStates
<1> QED
  BY <1>3, <1>5 DEF TypeInv

(* A step of the transition itself: the values are those there were, or    *)
(* come with the command.                                                  *)
LEMMA MoveTypes ==
  ASSUME TypeInv, NEW t \in Transition,
         \/ \E given \in Given, d \in Incoming : prepare_transition(t, given, d)
         \/ execute_ends(t)
         \/ propagate(t)
         \/ \E answer \in {"ok", "failed"} : finish_propagating(t, answer)
         \/ start_transition(t)
         \/ terminate_transition(t)
         \/ finalise_transition(t)
  PROVE  TypeInv'
<1> NodeOK /\ ValuesOK /\ InPlace /\ (at = 0 \/ at \in 1..Len(sequence) + 1)
  BY TypeParts DEF TypeInv
<1> USE DEF MoveSubState, outside, actionVars
<1>1. ValuesOK'
  <2>1. UNCHANGED <<run_number, last_run, elisa, recorded>>
    BY DEF prepare_transition, execute_ends, propagate, finish_propagating, start_transition,
           terminate_transition, finalise_transition
  <2>2. data' \in 0..MaxRun /\ told' \in 0..MaxRun
    BY ActionsAssumption DEF prepare_transition, execute_ends, propagate, finish_propagating,
       start_transition, terminate_transition, finalise_transition, ValuesOK
  <2> QED
    BY <2>1, <2>2 DEF ValuesOK
<1>2. NodeOK'
  <2>1. children' \in {"ok", "failed"} /\ in_error' \in BOOLEAN
    BY DEF prepare_transition, execute_ends, propagate, finish_propagating, start_transition,
           terminate_transition, finalise_transition, NodeOK
  <2>2. operational_state' \in State
    BY DestinationIsState DEF prepare_transition, execute_ends, propagate, finish_propagating,
       start_transition, terminate_transition, finalise_transition, NodeOK
  <2>3. operational_sub_state' \in SubStates
    BY DEF prepare_transition, execute_ends, propagate, finish_propagating, start_transition,
           terminate_transition, finalise_transition, NodeOK, SubStates
  <2> QED
    BY <2>1, <2>2, <2>3 DEF NodeOK
<1>3. InPlace' /\ (at' = 0 \/ at' \in 1..(Len(sequence) + 1)')
  <2>1. CASE \/ \E given \in Given, d \in Incoming : prepare_transition(t, given, d)
             \/ finalise_transition(t)
    <3>1. /\ at' \in {0, 1}
          /\ operational_sub_state' \in {<<"preparing", t>>, <<"finalising", t>>}
      BY <2>1 DEF prepare_transition, finalise_transition
    <3> QED
      BY <3>1, AtLeastOne DEF InPlace, sub
  <2>2. CASE execute_ends(t)
    BY <2>2 DEF execute_ends, InPlace
  <2>3. CASE \/ propagate(t) \/ start_transition(t) \/ terminate_transition(t)
             \/ \E answer \in {"ok", "failed"} : finish_propagating(t, answer)
    <3>1. at' = at /\ sub[1] \notin {"preparing", "finalising"}
      BY <2>3 DEF propagate, finish_propagating, start_transition, terminate_transition, sub
    <3> QED
      BY <3>1 DEF InPlace
  <2> QED
    BY <2>1, <2>2, <2>3
<1>4. TypeOK'
  BY <1>1, <1>2, <1>3 DEF TypeOK, NodeOK, ValuesOK, SubStates
<1> QED
  BY <1>3, <1>4 DEF TypeInv

LEMMA TypeStep == TypeInv /\ [Next]_vars => TypeInv'
<1> SUFFICES ASSUME TypeInv, [Next]_vars PROVE TypeInv'
  OBVIOUS
<1>1. CASE to_error
  <2>1. sequence' = sequence
    BY <1>1 DEF to_error, sequence
  <2> QED
    BY <1>1, <2>1 DEF to_error, TypeInv, TypeOK, InPlace, sub, actionVars, outside
<1>2. CASE UNCHANGED vars
  <2>1. sequence' = sequence
    BY <1>2 DEF vars, nodeVars, sequence
  <2> QED
    BY <1>2, <2>1 DEF vars, nodeVars, actionVars, outside, TypeInv, TypeOK, InPlace, sub
<1> QED
  BY <1>1, <1>2, CallbackTypes, MoveTypes DEF Next

(* The place in a sequence of callbacks never runs out of it, and there is *)
(* one only while a sequence is executed; every value keeps its type.      *)
THEOREM TypeCorrect == Spec => []TypeOK
BY TypeInit, TypeStep, PTL DEF Spec, TypeInv
-----------------------------------------------------------------------------
(* While the callbacks before a transition are executed, the node is in a  *)
(* state that the transition may leave.                                    *)
MayStillLeave ==
  at # 0 /\ sub[1] = "preparing" => can_execute_transition(operational_state, sub[2])

LEMMA CallbackInPlace ==
  ASSUME TypeInv, NEW t \in Transition, Callback(t)
  PROVE  at \in Nat \ {0} /\ at + 1 # 0
<1>1. sequence \in Seq([action : STRING, mandatory : BOOLEAN])
  BY SequenceIs, TypedSub DEF TypeInv
<1>2. at \in DOMAIN sequence
  BY CallbackMoves DEF CallbackEffect
<1> QED
  BY <1>1, <1>2

LEMMA MayStillLeaveStep == TypeInv /\ MayStillLeave /\ [Next]_vars => MayStillLeave'
<1> SUFFICES ASSUME TypeInv, MayStillLeave, [Next]_vars PROVE MayStillLeave'
  OBVIOUS
<1> USE DEF MayStillLeave, sub, can_execute_transition
<1>1. ASSUME NEW t \in Transition, Callback(t) PROVE MayStillLeave'
  <2>1. CallbackEffect(t) /\ at # 0
    BY <1>1, CallbackMoves, CallbackInPlace
  <2>2. at # 0 /\ UNCHANGED <<operational_state, operational_sub_state>>
    BY <2>1 DEF CallbackEffect, nodeVars
  <2> QED
    BY <2>2
<1>2. ASSUME NEW t \in Transition, NEW given \in Given, NEW d \in Incoming,
             prepare_transition(t, given, d)
      PROVE  MayStillLeave'
  BY <1>2 DEF prepare_transition, can_transition
<1>3. ASSUME NEW t \in Transition, execute_ends(t) PROVE MayStillLeave'
  BY <1>3 DEF execute_ends
<1>4. ASSUME NEW t \in Transition,
             \/ propagate(t)
             \/ \E answer \in {"ok", "failed"} : finish_propagating(t, answer)
             \/ start_transition(t) \/ terminate_transition(t) \/ finalise_transition(t)
      PROVE  MayStillLeave'
  BY <1>4 DEF propagate, finish_propagating, start_transition, terminate_transition,
     finalise_transition, MoveSubState
<1>5. CASE to_error \/ UNCHANGED vars
  BY <1>5 DEF to_error, vars, nodeVars
<1> QED
  BY <1>1, <1>2, <1>3, <1>4, <1>5 DEF Next

LEMMA SeenInit == Init => StatefulNode!NodeInit
BY DEF Init, StatefulNode!NodeInit, seen_sub_state

LEMMA SeenUnchanged ==
  ASSUME UNCHANGED <<operational_state, seen_sub_state, in_error>>
  PROVE  UNCHANGED StatefulNode!nodeVars
BY DEF StatefulNode!nodeVars

(* A callback is a stutter, unless it raises and ends its sequence: then   *)
(* the sequence has failed as a whole.                                     *)
LEMMA SeenCallback ==
  ASSUME TypeInv, MayStillLeave, NEW t \in Transition, Callback(t)
  PROVE  [StatefulNode!NodeNext]_StatefulNode!nodeVars
<1>1. CallbackEffect(t)
  BY CallbackMoves
<1>2. at # 0 /\ at + 1 # 0
  BY CallbackInPlace
<1>3. UNCHANGED <<operational_state, operational_sub_state, in_error>>
  BY <1>1 DEF CallbackEffect, nodeVars
<1>4. CASE at' # 0
  <2>1. seen_sub_state' = seen_sub_state
    BY <1>2, <1>3, <1>4 DEF seen_sub_state
  <2> QED
    BY <1>3, <2>1, SeenUnchanged
<1>5. CASE at' = 0 /\ sub = <<"preparing", t>>
  <2>1. seen_sub_state = <<"state", operational_state>> /\ seen_sub_state' = <<"preparing", t>>
    BY <1>2, <1>3, <1>5 DEF seen_sub_state, sub
  <2>2. can_execute_transition(operational_state, t)
    BY <1>2, <1>5 DEF MayStillLeave
  <2>3. StatefulNode!prepare_transition("controller", t, FALSE)
    BY <1>3, <2>1, <2>2 DEF StatefulNode!prepare_transition, StatefulNode!can_transition,
       StatefulNode!settled, StatefulNode!can_execute_transition, can_execute_transition
  <2> QED
    BY <2>3 DEF StatefulNode!NodeNext, StatefulNode!TransitionStep
<1>6. CASE at' = 0 /\ sub = <<"finalising", t>>
  <2>1. seen_sub_state = <<"terminated", t>> /\ seen_sub_state' = <<"finalising", t>>
    BY <1>2, <1>3, <1>6 DEF seen_sub_state, sub
  <2>2. StatefulNode!finalise_transition("controller", t, FALSE)
    BY <1>3, <2>1 DEF StatefulNode!finalise_transition
  <2> QED
    BY <2>2 DEF StatefulNode!NodeNext, StatefulNode!TransitionStep
<1> QED
  BY <1>1, <1>4, <1>5, <1>6 DEF CallbackEffect

LEMMA SeenEnd ==
  ASSUME TypeInv, MayStillLeave, NEW t \in Transition, execute_ends(t)
  PROVE  [StatefulNode!NodeNext]_StatefulNode!nodeVars
<1>1. at # 0 /\ at' = 0
  <2>1. sequence \in Seq([action : STRING, mandatory : BOOLEAN])
    BY SequenceIs, TypedSub DEF TypeInv
  <2> QED
    BY <2>1 DEF execute_ends
<1>2. UNCHANGED <<operational_state, in_error>>
  BY DEF execute_ends
<1>3. CASE operational_sub_state = <<"preparing", t>>
  <2>1. seen_sub_state = <<"state", operational_state>> /\ seen_sub_state' = <<"ready", t>>
    BY <1>1, <1>3 DEF seen_sub_state, execute_ends
  <2>2. can_execute_transition(operational_state, t)
    BY <1>1, <1>3 DEF MayStillLeave, sub
  <2>3. StatefulNode!prepare_transition("controller", t, TRUE)
    BY <1>2, <2>1, <2>2 DEF StatefulNode!prepare_transition, StatefulNode!can_transition,
       StatefulNode!settled, StatefulNode!can_execute_transition, can_execute_transition
  <2> QED
    BY <2>3 DEF StatefulNode!NodeNext, StatefulNode!TransitionStep
<1>4. CASE operational_sub_state = <<"finalising", t>>
  <2>1. /\ seen_sub_state = <<"terminated", t>>
        /\ seen_sub_state' = <<"state", operational_state>>
    BY <1>1, <1>2, <1>4 DEF seen_sub_state, execute_ends
  <2>2. StatefulNode!finalise_transition("controller", t, TRUE)
    BY <1>2, <2>1 DEF StatefulNode!finalise_transition
  <2> QED
    BY <2>2 DEF StatefulNode!NodeNext, StatefulNode!TransitionStep
<1> QED
  BY <1>3, <1>4 DEF execute_ends

LEMMA SeenMove ==
  ASSUME TypeInv, NEW t \in Transition,
         \/ \E given \in Given, d \in Incoming : prepare_transition(t, given, d)
         \/ propagate(t)
         \/ \E answer \in {"ok", "failed"} : finish_propagating(t, answer)
         \/ start_transition(t)
         \/ terminate_transition(t)
         \/ finalise_transition(t)
  PROVE  [StatefulNode!NodeNext]_StatefulNode!nodeVars
<1> USE DEF MoveSubState
<1>1. ASSUME NEW given \in Given, NEW d \in Incoming, prepare_transition(t, given, d)
      PROVE  [StatefulNode!NodeNext]_StatefulNode!nodeVars
  <2>1. /\ operational_sub_state = <<"state", operational_state>>
        /\ operational_sub_state' = <<"preparing", t>>
        /\ at' \in {0, 1} /\ UNCHANGED <<operational_state, in_error>>
        /\ can_execute_transition(operational_state, t)
    BY <1>1 DEF prepare_transition, can_transition
  <2>2. seen_sub_state = <<"state", operational_state>>
    BY <2>1 DEF seen_sub_state
  <2>3. CASE at' = 1
    <3>1. seen_sub_state' = <<"state", operational_state>>
      BY <2>1, <2>3 DEF seen_sub_state
    <3> QED
      BY <2>1, <2>2, <3>1, SeenUnchanged
  <2>4. CASE at' = 0
    <3>1. seen_sub_state' = <<"preparing", t>>
      BY <2>1, <2>4 DEF seen_sub_state
    <3>2. StatefulNode!prepare_transition("controller", t, FALSE)
      BY <2>1, <2>2, <3>1 DEF StatefulNode!prepare_transition, StatefulNode!can_transition,
         StatefulNode!settled, StatefulNode!can_execute_transition, can_execute_transition
    <3> QED
      BY <3>2 DEF StatefulNode!NodeNext, StatefulNode!TransitionStep
  <2> QED
    BY <2>1, <2>3, <2>4
<1>2. ASSUME NEW from \in {"ready", "propagating", "propagated"},
             NEW to \in {"propagating", "propagated", "executing"},
             MoveSubState(from, to, t), UNCHANGED <<operational_state, at>>
      PROVE  /\ UNCHANGED <<operational_state, in_error>>
             /\ seen_sub_state = <<from, t>> /\ seen_sub_state' = <<to, t>>
  BY <1>2 DEF seen_sub_state
<1>3. CASE propagate(t)
  <2>1. StatefulNode!propagate_transition_mark("controller", t)
    BY <1>2, <1>3 DEF propagate, StatefulNode!propagate_transition_mark, StatefulNode!Mark
  <2> QED
    BY <2>1 DEF StatefulNode!NodeNext, StatefulNode!TransitionStep
<1>4. ASSUME NEW answer \in {"ok", "failed"}, finish_propagating(t, answer)
      PROVE  [StatefulNode!NodeNext]_StatefulNode!nodeVars
  <2>1. StatefulNode!finish_propagating_transition_mark("controller", t)
    BY <1>2, <1>4 DEF finish_propagating, StatefulNode!finish_propagating_transition_mark,
       StatefulNode!Mark
  <2> QED
    BY <2>1 DEF StatefulNode!NodeNext, StatefulNode!TransitionStep
<1>5. CASE start_transition(t)
  <2>1. StatefulNode!start_transition_mark("controller", t)
    BY <1>2, <1>5 DEF start_transition, StatefulNode!start_transition_mark, StatefulNode!Mark
  <2> QED
    BY <2>1 DEF StatefulNode!NodeNext, StatefulNode!TransitionStep
<1>6. CASE terminate_transition(t)
  <2>1. /\ seen_sub_state = <<"executing", t>> /\ seen_sub_state' = <<"terminated", t>>
        /\ operational_state' = get_destination_state(operational_state, t)
        /\ in_error' = in_error
    BY <1>6 DEF terminate_transition, seen_sub_state
  <2>2. StatefulNode!terminate_transition_mark("controller", t)
    BY <2>1 DEF StatefulNode!terminate_transition_mark, get_destination_state, Stay,
       StatefulNode!get_destination_state, StatefulNode!Stay
  <2> QED
    BY <2>2 DEF StatefulNode!NodeNext, StatefulNode!TransitionStep
<1>7. CASE finalise_transition(t)
  <2>1. /\ seen_sub_state = <<"terminated", t>> /\ seen_sub_state' = <<"terminated", t>>
        /\ UNCHANGED <<operational_state, in_error>>
    BY <1>7 DEF finalise_transition, seen_sub_state
  <2> QED
    BY <2>1, SeenUnchanged
<1> QED
  BY <1>1, <1>3, <1>4, <1>5, <1>6, <1>7

LEMMA SeenOther ==
  ASSUME to_error \/ UNCHANGED vars
  PROVE  [StatefulNode!NodeNext]_StatefulNode!nodeVars
<1>1. CASE to_error
  <2>1. /\ UNCHANGED <<operational_state, seen_sub_state>> /\ in_error' = TRUE
    BY <1>1 DEF to_error, seen_sub_state
  <2>2. StatefulNode!to_error("controller")
    BY <2>1 DEF StatefulNode!to_error
  <2> QED
    BY <2>2 DEF StatefulNode!NodeNext
<1>2. CASE UNCHANGED vars
  <2>1. UNCHANGED <<operational_state, seen_sub_state, in_error>>
    BY <1>2 DEF vars, nodeVars, seen_sub_state
  <2> QED
    BY <2>1, SeenUnchanged
<1> QED
  BY <1>1, <1>2

(* Whatever the callbacks, their order, and which of them are mandatory or *)
(* fail, a controller that executes them one by one is a StatefulNode.     *)
THEOREM CallbacksAreNode == Spec => CallbacksImplementNode
<1>1. Init => TypeInv /\ MayStillLeave
  BY TypeInit DEF Init, MayStillLeave
<1>2. TypeInv /\ MayStillLeave /\ [Next]_vars => (TypeInv /\ MayStillLeave)'
  BY TypeStep, MayStillLeaveStep
<1>3. TypeInv /\ MayStillLeave /\ [Next]_vars
        => [StatefulNode!NodeNext]_StatefulNode!nodeVars
  BY SeenCallback, SeenEnd, SeenMove, SeenOther DEF Next
<1> QED
  BY <1>1, <1>2, <1>3, SeenInit, PTL DEF Spec, CallbacksImplementNode, StatefulNode!NodeSpec

-----------------------------------------------------------------------------
(* The run number, from the callback that provides it to the registries,   *)
(* the children and the logbook.                                           *)

before_start == pre_transition_sequences["start"]
after_start  == post_transition_sequences["start"]

Provider == {"user-provided-run-number", "usvc-provided-run-number"}

(* The configuration asks for a run number before it records the run.      *)
NumbersFirst ==
  \A i, j \in DOMAIN before_start :
    before_start[i].action \in Registry /\ before_start[j].action \in Provider => j < i

Preparing(t) == sub = <<"preparing", t>>
Ready(t)     == sub = <<"ready", t>>

(* The mandatory registries have recorded the run up to place n of the     *)
(* sequence.                                                               *)
RecordedUpTo(n) ==
  \A i \in DOMAIN before_start :
    i < n /\ before_start[i].action \in Registry /\ before_start[i].mandatory =>
      data \in recorded[before_start[i].action]

RecordInv ==
  /\ RunIsRecorded
  /\ Preparing("start") /\ at # 0 => RecordedUpTo(at)
  /\ Ready("start") => RecordedUpTo(Len(before_start) + 1)

(* DBRunRegistry has been called, at a place before n. *)
RegistryCalled(n) == \E i \in DOMAIN before_start : i < n /\ before_start[i].action = "db-run-registry"

NumberInv ==
  /\ StopTimeOfThisRun
  /\ run_number # 0 => \E i \in DOMAIN before_start : before_start[i].action = "db-run-registry"
  /\ Preparing("start") /\ at # 0 /\ RegistryCalled(at) => run_number = data
  /\ Ready("start") /\ run_number # 0 => run_number = data
  /\ ~Preparing("start") /\ ~Ready("start") => run_number \in {0, told}

(* What the logbook knows is of the run that goes on, or it knows nothing. *)
LogbookCurrent ==
  elisa.run_num # 0 => elisa.run_num = told /\ elisa.thread_id \in {0, told}

LogbookCalled(n) == \E i \in DOMAIN after_start : i < n /\ after_start[i].action = "elisa-logbook"

LogbookInv ==
  /\ StopRepliesToItsRun
  /\ elisa.run_num # 0 => \E i \in DOMAIN after_start : after_start[i].action = "elisa-logbook"
  /\ sub \in {"propagating", "propagated", "executing", "terminated", "finalising"} \X {"start"} =>
       data = told
  /\ sub = <<"finalising", "start">> /\ at # 0 /\ LogbookCalled(at) => LogbookCurrent
  /\ sub[1] = "state" \/ sub[2] # "start" => LogbookCurrent

(* The callbacks that touch neither the registries nor the logbook.        *)
Plain(t) ==
  \/ FileLogbook(t)
  \/ \E kind \in {"preparing", "finalising"} : ThreadPinning(kind, t)
  \/ \E action \in {"trigger-rate-specifier", "master-send-fl-command", "test-action"} :
       AddsArguments(action, t)

LEMMA PlainCallback ==
  ASSUME NEW t \in Transition, Plain(t)
  PROVE  /\ data' = data /\ UNCHANGED <<actionVars, outside>>
         /\ sequence[at].action \notin Registry \cup Provider \cup {"elisa-logbook"}
<1>1. CASE FileLogbook(t)
  BY <1>1 DEF FileLogbook, Calls, returns, raises, Registry, Provider
<1>2. ASSUME NEW kind \in {"preparing", "finalising"}, ThreadPinning(kind, t)
      PROVE  /\ data' = data /\ UNCHANGED <<actionVars, outside>>
             /\ sequence[at].action \notin Registry \cup Provider \cup {"elisa-logbook"}
  BY <1>2 DEF ThreadPinning, Calls, returns, raises, Registry, Provider
<1>3. ASSUME NEW action \in {"trigger-rate-specifier", "master-send-fl-command", "test-action"},
             AddsArguments(action, t)
      PROVE  /\ data' = data /\ UNCHANGED <<actionVars, outside>>
             /\ sequence[at].action \notin Registry \cup Provider \cup {"elisa-logbook"}
  BY <1>3 DEF AddsArguments, Calls, returns, Registry, Provider
<1> QED BY <1>1, <1>2, <1>3 DEF Plain

(* Records are only ever added, and a mandatory registry that lets the     *)
(* sequence go on has recorded the run.  The data change when a run number *)
(* is provided, and in the registry's callback at the end of a run.        *)
LEMMA CallbackRecords ==
  ASSUME TypeInv, NEW t \in Transition, Callback(t)
  PROVE  /\ \A r \in Registry : recorded[r] \subseteq recorded'[r]
         /\ \/ data' = data
            \/ Preparing("start") /\ sequence[at].action \in Provider
            \/ sub = <<"finalising", "drain_dataflow">>
         /\ Preparing("start") /\ at' # 0 /\ sequence[at].action \in Registry
              /\ sequence[at].mandatory => data \in recorded'[sequence[at].action]
<1> USE DEF Calls, returns, raises, actionVars, outside, sub, Preparing, Registry, Provider
<1>1. recorded \in [Registry -> SUBSET Run] /\ at # 0
  BY CallbackInPlace DEF TypeInv, TypeOK
<1>2. CASE Plain(t)
  BY <1>2, PlainCallback
<1>3. CASE UserProvidedRunNumber_pre_start \/ UsvcProvidedRunNumber_pre_start
  BY <1>1, <1>3 DEF UserProvidedRunNumber_pre_start, UsvcProvidedRunNumber_pre_start
<1>4. CASE DBRunRegistry_pre_start
  <2>1. CASE data = 0
    BY <1>1, <1>4, <2>1 DEF DBRunRegistry_pre_start
  <2>2. ASSUME data # 0, NEW done \in BOOLEAN,
               recorded' = [recorded EXCEPT !["db-run-registry"] =
                              IF done THEN @ \cup {data} ELSE @],
               (\E exception \in Exception : raises(exception, data)) \/ (done /\ returns(data))
        PROVE  /\ data' = data
               /\ \A r \in Registry : recorded[r] \subseteq recorded'[r]
               /\ at' # 0 /\ sequence[at].mandatory => data \in recorded'["db-run-registry"]
    BY <1>1, <2>2
  <2>3. sequence[at].action = "db-run-registry"
    BY <1>4 DEF DBRunRegistry_pre_start
  <2> QED BY <1>4, <2>1, <2>2, <2>3 DEF DBRunRegistry_pre_start
<1>5. CASE FileRunRegistry_pre_start
  BY <1>1, <1>5 DEF FileRunRegistry_pre_start
<1>6. CASE DBRunRegistry_post_drain_dataflow
  BY <1>1, <1>6 DEF DBRunRegistry_post_drain_dataflow
<1>7. CASE ElisaLogbook_post_start \/ ElisaLogbook_post_drain_dataflow
  BY <1>1, <1>7 DEF ElisaLogbook_post_start, ElisaLogbook_post_drain_dataflow
<1> QED
  BY <1>2, <1>3, <1>4, <1>5, <1>6, <1>7 DEF Callback, Plain

(* DBRunRegistry learns the run number in its first callback, even if this *)
(* fails, and names it in its second one.                                  *)
LEMMA CallbackNumber ==
  ASSUME TypeInv, NEW t \in Transition, Callback(t)
  PROVE  /\ \/ UNCHANGED run_number
            \/ Preparing("start") /\ sequence[at].action = "db-run-registry"
         /\ Preparing("start") /\ at' # 0 /\ sequence[at].action = "db-run-registry" =>
              run_number' = data
         /\ \/ UNCHANGED stops
            \/ /\ run_number # 0 /\ sub = <<"finalising", "drain_dataflow">>
               /\ stops' = stops \cup {<<run_number, told>>}
<1> USE DEF Calls, returns, raises, actionVars, outside, sub, Preparing
<1>1. CASE Plain(t)
  BY <1>1, PlainCallback DEF Registry
<1>2. CASE UserProvidedRunNumber_pre_start \/ UsvcProvidedRunNumber_pre_start
  BY <1>2 DEF UserProvidedRunNumber_pre_start, UsvcProvidedRunNumber_pre_start
<1>3. CASE DBRunRegistry_pre_start
  BY <1>3 DEF DBRunRegistry_pre_start, Exception
<1>4. CASE FileRunRegistry_pre_start
  BY <1>4 DEF FileRunRegistry_pre_start
<1>5. CASE DBRunRegistry_post_drain_dataflow
  BY <1>5 DEF DBRunRegistry_post_drain_dataflow
<1>6. CASE ElisaLogbook_post_start \/ ElisaLogbook_post_drain_dataflow
  BY <1>6 DEF ElisaLogbook_post_start, ElisaLogbook_post_drain_dataflow
<1> QED
  BY <1>1, <1>2, <1>3, <1>4, <1>5, <1>6 DEF Callback, Plain

(* The logbook notes the run and forgets the message of an earlier one     *)
(* before anything can fail.                                               *)
LEMMA CallbackLogbook ==
  ASSUME TypeInv, NEW t \in Transition, Callback(t)
  PROVE  /\ \/ UNCHANGED elisa
            \/ sub = <<"finalising", "start">> /\ sequence[at].action = "elisa-logbook"
         /\ sub = <<"finalising", "start">> /\ at' # 0 /\ sequence[at].action = "elisa-logbook" =>
              elisa'.run_num = data /\ elisa'.thread_id \in {0, data}
         /\ \/ UNCHANGED replies
            \/ /\ elisa.run_num # 0 /\ sub = <<"finalising", "drain_dataflow">>
               /\ replies' = replies \cup {<<elisa.run_num, elisa.thread_id, told>>}
<1> USE DEF Calls, returns, raises, actionVars, outside, sub
<1>1. CASE Plain(t)
  BY <1>1, PlainCallback
<1>2. CASE UserProvidedRunNumber_pre_start \/ UsvcProvidedRunNumber_pre_start
  BY <1>2 DEF UserProvidedRunNumber_pre_start, UsvcProvidedRunNumber_pre_start
<1>3. CASE DBRunRegistry_pre_start \/ FileRunRegistry_pre_start
  BY <1>3 DEF DBRunRegistry_pre_start, FileRunRegistry_pre_start
<1>4. CASE DBRunRegistry_post_drain_dataflow
  BY <1>4 DEF DBRunRegistry_post_drain_dataflow
<1>5. CASE ElisaLogbook_post_start
  BY <1>5 DEF ElisaLogbook_post_start, Exception
<1>6. CASE ElisaLogbook_post_drain_dataflow
  BY <1>6 DEF ElisaLogbook_post_drain_dataflow
<1> QED
  BY <1>1, <1>2, <1>3, <1>4, <1>5, <1>6 DEF Callback, Plain


(* The two sequences around start, while they are being executed. *)
LEMMA StartSequences ==
  ASSUME TypeInv
  PROVE  /\ Preparing("start") => /\ sequence = before_start
                                  /\ before_start \in Seq([action : STRING, mandatory : BOOLEAN])
         /\ sub = <<"finalising", "start">> =>
              /\ sequence = after_start
              /\ after_start \in Seq([action : STRING, mandatory : BOOLEAN])
<1>1. sub \in SubStates
  BY TypedSub DEF TypeInv
<1>2. CASE Preparing("start")
  BY <1>1, <1>2, SequenceIs DEF Preparing, before_start
<1>3. CASE sub = <<"finalising", "start">>
  BY <1>1, <1>3, SequenceIs DEF Preparing, after_start
<1>4. CASE ~Preparing("start") /\ sub # <<"finalising", "start">>
  BY <1>4
<1> QED BY <1>2, <1>3, <1>4

(* What a step other than a callback does to what is carried along. *)
Carried == <<run_number, elisa, recorded, stops, replies>>

LEMMA MovesCarry ==
  ASSUME TypeInv, [Next]_vars, \A t \in Transition : ~Callback(t)
  PROVE  UNCHANGED Carried
BY DEF Next, prepare_transition, execute_ends, propagate, finish_propagating, start_transition,
       terminate_transition, finalise_transition, MoveSubState, to_error, vars, actionVars, outside,
       Carried

(* How a controller comes to a sub-state that the invariants speak of.     *)
LEMMA Moves ==
  ASSUME TypeInv, [Next]_vars, \A t \in Transition : ~Callback(t)
  PROVE  \/ UNCHANGED <<sub, at, data, told>>
         \/ \E t \in Transition :
              \/ /\ sub[1] = "state" /\ sub' = <<"preparing", t>>
                 /\ at' \in {0, 1} /\ told' = told
              \/ /\ sub = <<"preparing", t>> /\ sub' = <<"ready", t>>
                 /\ at = Len(sequence) + 1 /\ UNCHANGED <<data, told>>
              \/ /\ sub = <<"finalising", t>> /\ sub' = <<"state", operational_state>>
                 /\ at = Len(sequence) + 1 /\ UNCHANGED <<data, told>>
              \/ /\ sub = <<"ready", t>> /\ sub' = <<"propagating", t>>
                 /\ data' = data /\ told' = IF t = "start" THEN data ELSE told
              \/ /\ sub = <<"propagating", t>> /\ sub' = <<"propagated", t>>
                 /\ UNCHANGED <<data, told>>
              \/ /\ sub = <<"propagated", t>> /\ sub' = <<"executing", t>>
                 /\ UNCHANGED <<data, told>>
              \/ /\ sub = <<"executing", t>> /\ sub' = <<"terminated", t>>
                 /\ UNCHANGED <<data, told>>
              \/ /\ sub = <<"terminated", t>> /\ sub' = <<"finalising", t>> /\ at' = 1
                 /\ UNCHANGED <<data, told>>
<1> USE DEF sub, MoveSubState
<1>1. CASE to_error \/ UNCHANGED vars
  BY <1>1 DEF to_error, vars, nodeVars
<1>2. ASSUME NEW t \in Transition, NEW given \in Given, NEW d \in Incoming,
             prepare_transition(t, given, d)
      PROVE  /\ sub[1] = "state" /\ sub' = <<"preparing", t>>
             /\ at' \in {0, 1} /\ told' = told
  BY <1>2 DEF prepare_transition, can_transition
<1>3. ASSUME NEW t \in Transition, execute_ends(t)
      PROVE  /\ \/ /\ sub = <<"preparing", t>> /\ sub' = <<"ready", t>>
                \/ /\ sub = <<"finalising", t>> /\ sub' = <<"state", operational_state>>
             /\ at = Len(sequence) + 1 /\ UNCHANGED <<data, told>>
  BY <1>3 DEF execute_ends
<1>4. ASSUME NEW t \in Transition,
             \/ propagate(t)
             \/ \E answer \in {"ok", "failed"} : finish_propagating(t, answer)
             \/ start_transition(t)
             \/ terminate_transition(t)
             \/ finalise_transition(t)
      PROVE  \/ /\ sub = <<"ready", t>> /\ sub' = <<"propagating", t>>
                /\ data' = data /\ told' = IF t = "start" THEN data ELSE told
             \/ /\ sub = <<"propagating", t>> /\ sub' = <<"propagated", t>>
                /\ UNCHANGED <<data, told>>
             \/ /\ sub = <<"propagated", t>> /\ sub' = <<"executing", t>>
                /\ UNCHANGED <<data, told>>
             \/ /\ sub = <<"executing", t>> /\ sub' = <<"terminated", t>>
                /\ UNCHANGED <<data, told>>
             \/ /\ sub = <<"terminated", t>> /\ sub' = <<"finalising", t>> /\ at' = 1
                /\ UNCHANGED <<data, told>>
  BY <1>4 DEF propagate, finish_propagating, start_transition, terminate_transition,
              finalise_transition
<1> QED BY <1>1, <1>2, <1>3, <1>4 DEF Next

LEMMA RecordInit == Init => RecordInv
BY DEF Init, RecordInv, RunIsRecorded, Preparing, Ready, sub

LEMMA RecordMoves ==
  ASSUME TypeInv, RecordInv, [Next]_vars, \A t \in Transition : ~Callback(t)
  PROVE  RecordInv'
<1>1. recorded' = recorded
  BY MovesCarry DEF Carried
<1>2. CASE UNCHANGED <<sub, at, data, told>>
  BY <1>1, <1>2 DEF RecordInv, RunIsRecorded, Preparing, Ready, RecordedUpTo
<1>3. ASSUME NEW t \in Transition, sub' = <<"preparing", t>>, at' \in {0, 1}, told' = told
      PROVE  RecordInv'
  <2>1. RunIsRecorded'
    BY <1>1, <1>3 DEF RecordInv, RunIsRecorded
  <2>2. Preparing("start")' => RecordedUpTo(1)'
    <3> SUFFICES ASSUME Preparing("start")' PROVE RecordedUpTo(1)'
      OBVIOUS
    <3>1. "start" \in Transition
      BY <1>3 DEF Preparing
    <3>2. DOMAIN before_start \subseteq Nat \ {0}
      BY <3>1, ActionsAssumption DEF before_start
    <3> QED BY <3>2 DEF RecordedUpTo
  <2> QED BY <1>3, <2>1, <2>2 DEF RecordInv, Ready
<1>4. ASSUME NEW t \in Transition, sub = <<"preparing", t>>, sub' = <<"ready", t>>,
             at = Len(sequence) + 1, UNCHANGED <<data, told>>
      PROVE  RecordInv'
  <2>1. RunIsRecorded'
    BY <1>1, <1>4 DEF RecordInv, RunIsRecorded
  <2>2. Ready("start")' => RecordedUpTo(Len(before_start) + 1)'
    <3> SUFFICES ASSUME t = "start" PROVE RecordedUpTo(Len(before_start) + 1)'
      BY <1>4 DEF Ready
    <3>1. at = Len(before_start) + 1 /\ Preparing("start")
      BY <1>4, StartSequences DEF Preparing
    <3>2. at # 0
      BY <3>1, StartSequences
    <3> QED BY <1>1, <1>4, <3>1, <3>2 DEF RecordInv, RecordedUpTo
  <2> QED BY <1>4, <2>1, <2>2 DEF RecordInv, Preparing
<1>5. ASSUME NEW t \in Transition, sub = <<"ready", t>>, sub' = <<"propagating", t>>,
             data' = data, told' = IF t = "start" THEN data ELSE told
      PROVE  RecordInv'
  <2>1. CASE t # "start"
    BY <1>1, <1>5, <2>1 DEF RecordInv, RunIsRecorded, Preparing, Ready
  <2>2. CASE t = "start"
    <3>1. before_start \in Seq([action : STRING, mandatory : BOOLEAN])
      BY <2>2, ActionsAssumption DEF before_start
    <3>2. RecordedUpTo(Len(before_start) + 1) /\ told' = data
      BY <1>5, <2>2 DEF RecordInv, Ready
    <3>3. \A i \in DOMAIN before_start : i < Len(before_start) + 1
      BY <3>1
    <3>4. RunIsRecorded'
      BY <1>1, <3>2, <3>3 DEF RecordedUpTo, RunIsRecorded, before_start, ToSet
    <3> QED BY <1>5, <3>4 DEF RecordInv, Preparing, Ready
  <2> QED BY <2>1, <2>2
<1>6. ASSUME told' = told, sub'[1] \notin {"preparing", "ready"}
      PROVE  RecordInv'
  BY <1>1, <1>6 DEF RecordInv, RunIsRecorded, Preparing, Ready
<1> QED BY <1>2, <1>3, <1>4, <1>5, <1>6, Moves

LEMMA RecordCallback ==
  ASSUME NumbersFirst, TypeInv, RecordInv, NEW t \in Transition, Callback(t)
  PROVE  RecordInv'
<1>1. /\ sub' = sub /\ told' = told /\ at' \in {0, at + 1} /\ at \in DOMAIN sequence
      /\ sub \in {<<"preparing", t>>, <<"finalising", t>>} /\ at # 0
  BY CallbackMoves, CallbackInPlace DEF CallbackEffect, nodeVars, sub
<1>2. \A r \in Registry : recorded[r] \subseteq recorded'[r]
  BY CallbackRecords
<1>3. RunIsRecorded'
  BY <1>1, <1>2 DEF RecordInv, RunIsRecorded
<1>4. ~Ready("start")'
  BY <1>1 DEF Ready
<1>5. ASSUME Preparing("start"), at' # 0
      PROVE  RecordedUpTo(at)'
  <2> DEFINE here == before_start[at]
  <2>1. /\ sequence = before_start /\ before_start \in Seq([action : STRING, mandatory : BOOLEAN])
        /\ at \in DOMAIN before_start /\ at' = at + 1
    BY <1>1, <1>5, StartSequences
  <2>2. RecordedUpTo(at)
    BY <1>1, <1>5 DEF RecordInv
  <2>3. SUFFICES ASSUME NEW i \in DOMAIN before_start, i < at + 1,
                        before_start[i].action \in Registry, before_start[i].mandatory
                 PROVE  data' \in recorded'[before_start[i].action]
    BY <2>1 DEF RecordedUpTo
  <2>4. i = at \/ i < at
    BY <2>1, <2>3
  <2>5. CASE here.action \in Provider
    <3>1. at < i
      BY <2>1, <2>3, <2>5 DEF NumbersFirst
    <3> QED BY <2>1, <2>3, <3>1
  <2>6. CASE here.action \notin Provider
    <3>1. data' = data
      BY <1>5, <2>1, <2>6, CallbackRecords DEF Preparing
    <3>2. i < at => data \in recorded[before_start[i].action]
      BY <2>2, <2>3 DEF RecordedUpTo
    <3>3. i = at => data \in recorded'[before_start[i].action]
      BY <1>5, <2>1, <2>3, CallbackRecords
    <3> QED BY <1>2, <2>3, <2>4, <3>1, <3>2, <3>3
  <2> QED BY <2>5, <2>6
<1>6. Preparing("start")' => Preparing("start")
  BY <1>1 DEF Preparing
<1> QED BY <1>3, <1>4, <1>5, <1>6 DEF RecordInv

(* No run is started on the children that a mandatory registry has no      *)
(* record of, whichever registries there are, wherever they come in the    *)
(* sequence after the run number, and whatever fails.                      *)
THEOREM RunsAreRecorded ==
  ASSUME NumbersFirst
  PROVE  Spec => []RunIsRecorded
<1>1. TypeInv /\ RecordInv /\ [Next]_vars => RecordInv'
  BY RecordMoves, RecordCallback
<1>2. RecordInv => RunIsRecorded
  BY DEF RecordInv
<1> QED BY <1>1, <1>2, RecordInit, TypeInit, TypeStep, PTL DEF Spec

-----------------------------------------------------------------------------
(* The run number that DBRunRegistry keeps from start to drain_dataflow.   *)

LEMMA NumberInit == Init => NumberInv
<1> SUFFICES ASSUME Init PROVE NumberInv
  OBVIOUS
<1>1. sub = <<"state", InitialState>> /\ run_number = 0 /\ stops = {}
  BY DEF Init, sub
<1> QED BY <1>1 DEF NumberInv, StopTimeOfThisRun, Preparing, Ready

LEMMA NumberMoves ==
  ASSUME TypeInv, NumberInv, [Next]_vars, \A t \in Transition : ~Callback(t)
  PROVE  NumberInv'
<1>1. run_number' = run_number /\ stops' = stops
  BY MovesCarry DEF Carried
<1>2. StopTimeOfThisRun'
  BY <1>1 DEF NumberInv, StopTimeOfThisRun
<1>3. CASE UNCHANGED <<sub, at, data, told>>
  BY <1>1, <1>2, <1>3 DEF NumberInv, Preparing, Ready, RegistryCalled
<1>4. ASSUME NEW t \in Transition, sub' = <<"preparing", t>>, at' \in {0, 1}, sub[1] = "state",
             told' = told
      PROVE  NumberInv'
  <2>1. ~Preparing("start") /\ ~Ready("start") /\ ~Ready("start")'
    BY <1>4 DEF Preparing, Ready
  <2>2. Preparing("start")' => ~RegistryCalled(1)
    <3> SUFFICES ASSUME Preparing("start")' PROVE ~RegistryCalled(1)
      OBVIOUS
    <3>1. "start" \in Transition
      BY <1>4 DEF Preparing
    <3>2. DOMAIN before_start \subseteq Nat \ {0}
      BY <3>1, ActionsAssumption DEF before_start
    <3> QED BY <3>2 DEF RegistryCalled
  <2>3. Preparing("start")' /\ at' # 0 => ~RegistryCalled(at)'
    BY <1>4, <2>2 DEF RegistryCalled
  <2> QED BY <1>1, <1>2, <1>4, <2>1, <2>3 DEF NumberInv
<1>5. ASSUME NEW t \in Transition, sub = <<"preparing", t>>, sub' = <<"ready", t>>,
             at = Len(sequence) + 1, UNCHANGED <<data, told>>
      PROVE  NumberInv'
  <2>1. CASE t # "start"
    BY <1>1, <1>2, <1>5, <2>1 DEF NumberInv, Preparing, Ready
  <2>2. CASE t = "start"
    <3>1. /\ at = Len(before_start) + 1 /\ Preparing("start")
          /\ before_start \in Seq([action : STRING, mandatory : BOOLEAN])
      BY <1>5, <2>2, StartSequences DEF Preparing
    <3>2. at # 0 /\ \A i \in DOMAIN before_start : i < at
      BY <3>1
    <3>3. run_number # 0 => RegistryCalled(at)
      BY <3>2 DEF NumberInv, RegistryCalled
    <3> QED BY <1>1, <1>2, <1>5, <2>2, <3>1, <3>2, <3>3 DEF NumberInv, Preparing, Ready
  <2> QED BY <2>1, <2>2
<1>6. ASSUME NEW t \in Transition, sub = <<"ready", t>>, sub' = <<"propagating", t>>,
             data' = data, told' = IF t = "start" THEN data ELSE told
      PROVE  NumberInv'
  <2>1. ~Preparing("start")' /\ ~Ready("start")' /\ ~Preparing("start")
    BY <1>6 DEF Preparing, Ready
  <2>2. run_number \in {0, told'}
    BY <1>6, <2>1 DEF NumberInv, Ready
  <2> QED BY <1>1, <1>2, <2>1, <2>2 DEF NumberInv
<1>7. ASSUME told' = told, sub'[1] \notin {"preparing", "ready"}, sub[1] \notin {"preparing", "ready"}
      PROVE  NumberInv'
  BY <1>1, <1>2, <1>7 DEF NumberInv, Preparing, Ready
<1> QED BY <1>3, <1>4, <1>5, <1>6, <1>7, Moves

LEMMA NumberCallback ==
  ASSUME NumbersFirst, TypeInv, NumberInv, NEW t \in Transition, Callback(t)
  PROVE  NumberInv'
<1>1. /\ sub' = sub /\ told' = told /\ at' \in {0, at + 1} /\ at \in DOMAIN sequence
      /\ sub \in {<<"preparing", t>>, <<"finalising", t>>} /\ at # 0
  BY CallbackMoves, CallbackInPlace DEF CallbackEffect, nodeVars, sub
<1>2. ~Ready("start") /\ ~Ready("start")' /\ (Preparing("start")' <=> Preparing("start"))
  BY <1>1 DEF Preparing, Ready
<1>3. CASE ~Preparing("start")
  <2>1. run_number' = run_number /\ run_number \in {0, told}
    BY <1>2, <1>3, CallbackNumber DEF NumberInv
  <2>2. StopTimeOfThisRun'
    BY <2>1, CallbackNumber DEF NumberInv, StopTimeOfThisRun
  <2> QED BY <1>1, <1>2, <1>3, <2>1, <2>2 DEF NumberInv
<1>4. CASE Preparing("start")
  <2>1. /\ sequence = before_start /\ before_start \in Seq([action : STRING, mandatory : BOOLEAN])
        /\ at \in DOMAIN before_start
    BY <1>1, <1>4, StartSequences
  <2>2. stops' = stops
    BY <1>4, CallbackNumber DEF Preparing
  <2>3. StopTimeOfThisRun'
    BY <2>2 DEF NumberInv, StopTimeOfThisRun
  <2>4. run_number' # 0 => \E i \in DOMAIN before_start : before_start[i].action = "db-run-registry"
    BY <1>4, <2>1, CallbackNumber DEF NumberInv
  <2>5. ASSUME at' # 0, RegistryCalled(at)'
        PROVE  run_number' = data'
    <3>1. PICK i \in DOMAIN before_start : i < at + 1 /\ before_start[i].action = "db-run-registry"
      BY <1>1, <2>5 DEF RegistryCalled
    <3>2. i = at \/ i < at
      BY <2>1, <3>1
    <3>3. before_start[at].action \notin Provider
      BY <2>1, <3>1, <3>2 DEF NumbersFirst, Registry
    <3>4. data' = data
      BY <1>4, <2>1, <3>3, CallbackRecords DEF Preparing
    <3>5. CASE i = at
      BY <1>4, <2>1, <2>5, <3>1, <3>4, <3>5, CallbackNumber
    <3>6. CASE i < at
      <4>1. run_number = data
        BY <1>1, <1>4, <3>1, <3>6 DEF NumberInv, RegistryCalled
      <4>2. CASE before_start[at].action = "db-run-registry"
        BY <1>4, <2>1, <2>5, <3>4, <4>2, CallbackNumber
      <4>3. CASE before_start[at].action # "db-run-registry"
        BY <2>1, <3>4, <4>1, <4>3, CallbackNumber
      <4> QED BY <4>2, <4>3
    <3> QED BY <3>2, <3>5, <3>6
  <2> QED BY <1>2, <1>4, <2>3, <2>4, <2>5 DEF NumberInv
<1> QED BY <1>3, <1>4

(* A stop time is never put on another run than the one the children were  *)
(* told to start, although the registry's first callback may have failed   *)
(* and been passed over.                                                   *)
THEOREM StopTimesAreOfTheRun ==
  ASSUME NumbersFirst
  PROVE  Spec => []StopTimeOfThisRun
<1>1. TypeInv /\ NumberInv /\ [Next]_vars => NumberInv'
  BY NumberMoves, NumberCallback
<1>2. NumberInv => StopTimeOfThisRun
  BY DEF NumberInv
<1> QED BY <1>1, <1>2, NumberInit, TypeInit, TypeStep, PTL DEF Spec
-----------------------------------------------------------------------------
(* What the logbook knows of the run, from start to drain_dataflow.        *)

LEMMA LogbookInit == Init => LogbookInv
<1> SUFFICES ASSUME Init PROVE LogbookInv
  OBVIOUS
<1>1. sub = <<"state", InitialState>> /\ elisa.run_num = 0 /\ replies = {}
  BY DEF Init, sub
<1> QED BY <1>1 DEF LogbookInv, StopRepliesToItsRun, LogbookCurrent

LEMMA LogbookMoves ==
  ASSUME TypeInv, LogbookInv, [Next]_vars, \A t \in Transition : ~Callback(t)
  PROVE  LogbookInv'
<1>1. elisa' = elisa /\ replies' = replies
  BY MovesCarry DEF Carried
<1>2. StopRepliesToItsRun'
  BY <1>1 DEF LogbookInv, StopRepliesToItsRun
<1>3. CASE UNCHANGED <<sub, at, data, told>>
  BY <1>1, <1>2, <1>3 DEF LogbookInv, LogbookCurrent, LogbookCalled
<1>4. ASSUME NEW t \in Transition, sub[1] = "state", sub' = <<"preparing", t>>, told' = told
      PROVE  LogbookInv'
  BY <1>1, <1>2, <1>4 DEF LogbookInv, LogbookCurrent
<1>5. ASSUME NEW t \in Transition, sub = <<"preparing", t>>, sub' = <<"ready", t>>,
             UNCHANGED <<data, told>>
      PROVE  LogbookInv'
  BY <1>1, <1>2, <1>5 DEF LogbookInv, LogbookCurrent
<1>6. ASSUME NEW t \in Transition, sub = <<"ready", t>>, sub' = <<"propagating", t>>,
             data' = data, told' = IF t = "start" THEN data ELSE told
      PROVE  LogbookInv'
  BY <1>1, <1>2, <1>6 DEF LogbookInv, LogbookCurrent
<1>7. ASSUME NEW t \in Transition, UNCHANGED <<data, told>>,
             \/ sub = <<"propagating", t>> /\ sub' = <<"propagated", t>>
             \/ sub = <<"propagated", t>> /\ sub' = <<"executing", t>>
             \/ sub = <<"executing", t>> /\ sub' = <<"terminated", t>>
      PROVE  LogbookInv'
  BY <1>1, <1>2, <1>7 DEF LogbookInv, LogbookCurrent
<1>8. ASSUME NEW t \in Transition, sub = <<"terminated", t>>, sub' = <<"finalising", t>>, at' = 1,
             UNCHANGED <<data, told>>
      PROVE  LogbookInv'
  <2>1. t = "start" => ~LogbookCalled(at)'
    <3> SUFFICES ASSUME t = "start" PROVE ~LogbookCalled(at)'
      OBVIOUS
    <3>1. DOMAIN after_start \subseteq Nat \ {0}
      BY ActionsAssumption DEF after_start
    <3> QED BY <1>8, <3>1 DEF LogbookCalled
  <2> QED BY <1>1, <1>2, <1>8, <2>1 DEF LogbookInv, LogbookCurrent
<1>9. ASSUME NEW t \in Transition, sub = <<"finalising", t>>, sub' = <<"state", operational_state>>,
             at = Len(sequence) + 1, UNCHANGED <<data, told>>
      PROVE  LogbookInv'
  <2>1. LogbookCurrent
    <3>1. CASE t # "start"
      BY <1>9, <3>1 DEF LogbookInv
    <3>2. CASE t = "start"
      <4>1. /\ at = Len(after_start) + 1
            /\ after_start \in Seq([action : STRING, mandatory : BOOLEAN])
        BY <1>9, <3>2, StartSequences
      <4>2. at # 0 /\ \A i \in DOMAIN after_start : i < at
        BY <4>1
      <4>3. elisa.run_num # 0 => LogbookCalled(at)
        BY <4>2 DEF LogbookInv, LogbookCalled
      <4> QED BY <1>9, <3>2, <4>2, <4>3 DEF LogbookInv, LogbookCurrent
    <3> QED BY <3>1, <3>2
  <2> QED BY <1>1, <1>2, <1>9, <2>1 DEF LogbookInv, LogbookCurrent
<1> QED BY <1>3, <1>4, <1>5, <1>6, <1>7, <1>8, <1>9, Moves

LEMMA LogbookCallback ==
  ASSUME TypeInv, LogbookInv, NEW t \in Transition, Callback(t)
  PROVE  LogbookInv'
<1>1. /\ sub' = sub /\ told' = told /\ at' \in {0, at + 1} /\ at \in DOMAIN sequence
      /\ sub \in {<<"preparing", t>>, <<"finalising", t>>} /\ at # 0
  BY CallbackMoves, CallbackInPlace DEF CallbackEffect, nodeVars, sub
<1>2. CASE sub # <<"finalising", "start">>
  <2>1. elisa' = elisa
    BY <1>2, CallbackLogbook
  <2>2. StopRepliesToItsRun'
    BY CallbackLogbook DEF LogbookInv, StopRepliesToItsRun, LogbookCurrent
  <2>3. sub \notin {"propagating", "propagated", "executing", "terminated", "finalising"} \X {"start"}
    BY <1>1, <1>2
  <2> QED BY <1>1, <1>2, <2>1, <2>2, <2>3 DEF LogbookInv, LogbookCurrent
<1>3. CASE sub = <<"finalising", "start">>
  <2>1. /\ sequence = after_start /\ after_start \in Seq([action : STRING, mandatory : BOOLEAN])
        /\ at \in DOMAIN after_start
    BY <1>1, <1>3, StartSequences
  <2>2. data = told /\ data' = data /\ replies' = replies
    BY <1>3, CallbackRecords, CallbackLogbook DEF LogbookInv, Preparing
  <2>3. StopRepliesToItsRun'
    BY <2>2 DEF LogbookInv, StopRepliesToItsRun
  <2>4. elisa'.run_num # 0 => \E i \in DOMAIN after_start : after_start[i].action = "elisa-logbook"
    BY <1>3, <2>1, CallbackLogbook DEF LogbookInv
  <2>5. ASSUME at' # 0, LogbookCalled(at)'
        PROVE  LogbookCurrent'
    <3>1. CASE after_start[at].action = "elisa-logbook"
      BY <1>1, <1>3, <2>1, <2>2, <2>5, <3>1, CallbackLogbook DEF LogbookCurrent
    <3>2. CASE after_start[at].action # "elisa-logbook"
      <4>1. elisa' = elisa
        BY <2>1, <3>2, CallbackLogbook
      <4>2. LogbookCalled(at)
        BY <1>1, <2>1, <2>5, <3>2 DEF LogbookCalled
      <4> QED BY <1>1, <1>3, <4>1, <4>2 DEF LogbookInv, LogbookCurrent
    <3> QED BY <3>1, <3>2
  <2> QED BY <1>1, <1>3, <2>2, <2>3, <2>4, <2>5 DEF LogbookInv
<1> QED BY <1>2, <1>3

(* The message at the end of a run names that run, and replies to the      *)
(* message about its start or to none, whichever of the logbook's calls    *)
(* failed in this run or in an earlier one.                                *)
THEOREM RepliesAreToTheRun == Spec => []StopRepliesToItsRun
<1>1. TypeInv /\ LogbookInv /\ [Next]_vars => LogbookInv'
  BY LogbookMoves, LogbookCallback
<1>2. LogbookInv => StopRepliesToItsRun
  BY DEF LogbookInv
<1> QED BY <1>1, <1>2, LogbookInit, TypeInit, TypeStep, PTL DEF Spec
=============================================================================
