-------------------------------- MODULE FSM --------------------------------
(***************************************************************************)
(* The finite state machine that every controller and every client-side    *)
(* child carries (class FSM of fsm/core.py, Transition of fsm/transition.py*)
(* and the part of FSMConfHandler that fills it).  The machine itself is   *)
(* configuration data: a set of transitions, each with a regular           *)
(* expression over the states it may leave and with the state it enters.   *)
(***************************************************************************)
CONSTANTS
  State,         \* the states named by the configuration
  Transition,    \* the transition names (FSM._enusure_unique_transition)
  Source,        \* Source[t]: the states the regular expression of t matches
  Destination,   \* Destination[t]: the state t enters, or Stay
  InitialState   \* FSMconfiguration.initial_state

(* The empty destination string: the transition enters no new state. *)
Stay == "stay"

ASSUME FSMAssumption ==
  /\ InitialState \in State
  /\ Source \in [Transition -> SUBSET State]
  /\ Destination \in [Transition -> State \cup {Stay}]

(* regex_match(transition.source, source_state) *)
can_execute_transition(s, t) == s \in Source[t]

(* Fault: a transition without a destination is not seen as one that stays.*)
destination_as_configured(s, t) == Destination[t]

(* The destination of an executable transition; the code returns None when *)
(* the transition cannot be executed, callers here test that first.        *)
get_destination_state(s, t) ==
  IF Destination[t] = Stay THEN s ELSE Destination[t]

(* The transitions a state offers: what describe_fsm lists.                *)
get_executable_transitions(s) == {t \in Transition : can_execute_transition(s, t)}
=============================================================================
