---------------------------- MODULE FSMActions ----------------------------
(***************************************************************************)
(* The callbacks that a controller runs before and after a transition:     *)
(* PreOrPostTransitionSequence of fsm/core.py, the way FSMConfHandler      *)
(* fills it, and the actions of fsm/actions.  StatefulNode takes a whole   *)
(* sequence as one step; here it is run callback by callback, with the     *)
(* attributes each action object keeps between one transition and another, *)
(* and shown to implement StatefulNode.                                    *)
(*                                                                         *)
(* One controller is modelled.  The run-number service, the run registries,*)
(* the logbook and the children are external.  Of the data that goes from  *)
(* callback to callback only the run number is kept, 0 when there is none. *)
(***************************************************************************)
EXTENDS FSM, Integers, SequencesExt

CONSTANTS
  PreTransitions,   \* the entries of FSMconfiguration.pre_transitions
  PostTransitions,  \* and of post_transitions: [transition, order, mandatory]
  Given,            \* the sets of arguments that commands bring
  Incoming,         \* the run numbers that the data of a command may hold
  MaxRun            \* bound on the run numbers the service hands out

(* _fill_pre_post_transition_sequence_oks *)
fill_pre_post_transition_sequence(conf, t) ==
  LET entries == SelectSeq(conf, LAMBDA entry : entry.transition = t)
      entry   == Last(entries)
  IN IF entries = <<>> THEN <<>> ELSE
       [i \in DOMAIN entry.order |->
          [action |-> entry.order[i], mandatory |-> entry.order[i] \in entry.mandatory]]

pre_transition_sequences ==
  [t \in Transition |-> fill_pre_post_transition_sequence(PreTransitions, t)]

post_transition_sequences ==
  [t \in Transition |-> fill_pre_post_transition_sequence(PostTransitions, t)]

(* The methods FSMActionFactory finds in the actions it knows.             *)
Method ==
  {<<"user-provided-run-number", "pre", "start">>,
   <<"usvc-provided-run-number", "pre", "start">>,
   <<"db-run-registry", "pre", "start">>, <<"db-run-registry", "post", "drain_dataflow">>,
   <<"file-run-registry", "pre", "start">>,
   <<"file-logbook", "post", "start">>, <<"file-logbook", "post", "drain_dataflow">>,
   <<"elisa-logbook", "post", "start">>, <<"elisa-logbook", "post", "drain_dataflow">>,
   <<"thread-pinning", "pre", "conf">>, <<"thread-pinning", "post", "conf">>,
   <<"thread-pinning", "post", "start">>,
   <<"trigger-rate-specifier", "pre", "change_rate">>,
   <<"master-send-fl-command", "pre", "master_send_fl_command">>,
   <<"test-action", "pre", "conf">>}

(* The parameters of a method that have no default. *)
required(action) ==
  CASE action = "user-provided-run-number" -> {"run_number"}
    [] action = "trigger-rate-specifier"   -> {"trigger_rate"}
    [] action = "test-action"              -> {"some_int", "some_str"}
    [] action = "master-send-fl-command"   ->
         {"fl_cmd_id", "channel", "number_of_commands_to_send"}
    [] OTHER -> {}

(* The mandatory ones of get_arguments, over both sequences. *)
get_arguments(t) ==
  UNION {required(cb.action) :
    cb \in ToSet(pre_transition_sequences[t] \o post_transition_sequences[t])}

ASSUME ActionsAssumption ==
  /\ MaxRun \in Nat /\ Incoming \subseteq 0..MaxRun
  /\ {pre_transition_sequences, post_transition_sequences} \subseteq
       [Transition -> Seq([action : STRING, mandatory : BOOLEAN])]
  /\ \A t \in Transition :
       /\ \A cb \in ToSet(pre_transition_sequences[t]) : <<cb.action, "pre", t>> \in Method
       /\ \A cb \in ToSet(post_transition_sequences[t]) : <<cb.action, "post", t>> \in Method

VARIABLES
  operational_state,      \* of the one controller, as in StatefulNode
  operational_sub_state,
  in_error,
  at,           \* the place in the sequence being executed, 0 when none is
  data,         \* the run number in the data handed from callback to callback
  children,     \* what the children answered to the last transition
  told,         \* the run number the children were told at the last start
  run_number,   \* DBRunRegistry.run_number, 0 when never set
  elisa,        \* ElisaLogbook: run_num, thread_id (0 is None), det_id
  last_run,     \* the last number the run-number service handed out
  recorded,     \* [registry -> runs it has a record of]
  stops,        \* <<run named, run told>> for every stop time reported
  replies       \* <<run named, thread, run told>> for every reply to a message

nodeVars   == <<operational_state, operational_sub_state, in_error>>
actionVars == <<run_number, elisa>>
outside    == <<last_run, recorded, stops, replies>>
vars == <<nodeVars, at, data, children, told, actionVars, outside>>

Registry == {"db-run-registry", "file-run-registry"}
Run == 1..MaxRun
-----------------------------------------------------------------------------
Init ==
  /\ operational_state = InitialState
  /\ operational_sub_state = <<"state", InitialState>>
  /\ in_error = FALSE
  /\ at = 0 /\ data = 0 /\ children = "ok" /\ told = 0
  /\ run_number = 0
  /\ elisa = [run_num |-> 0, thread_id |-> 0, det_id |-> FALSE]
  /\ last_run = 0
  /\ recorded = [r \in Registry |-> {}]
  /\ stops = {} /\ replies = {}

sequence ==
  LET kind == operational_sub_state[1]
      t    == operational_sub_state[2]
  IN CASE kind = "preparing"  -> pre_transition_sequences[t]
       [] kind = "finalising" -> post_transition_sequences[t]
       [] OTHER -> <<>>

(* The next callback is the method of that action. *)
Calls(action, kind, t) ==
  /\ operational_sub_state = <<kind, t>>
  /\ at \in DOMAIN sequence
  /\ sequence[at].action = action

returns(d) == at' = at + 1 /\ data' = d

(* Fault: no callback is mandatory. *)
raises_optional(exception, d) ==
  /\ data' = d
  /\ at' = IF exception = "DruncException" THEN at + 1 ELSE 0

(* The end of the transition, the sub-state being left as it is, unless    *)
(* the exception is one of drunc's own and the callback is optional.       *)
raises(exception, d) ==
  /\ data' = d
  /\ at' = IF exception = "DruncException" /\ ~sequence[at].mandatory THEN at + 1 ELSE 0

Exception == {"DruncException", "other"}

-----------------------------------------------------------------------------
(* The actions.  Each leaves the rest of the controller as it is.          *)

UserProvidedRunNumber_pre_start ==
  /\ Calls("user-provided-run-number", "preparing", "start")
  /\ (\E r \in Run : returns(r)) \/ raises("DruncException", data)
  /\ UNCHANGED <<actionVars, outside>>

(* The run type is refused, or the service cannot be asked, or answers     *)
(* something else than a number; a number whose answer is lost is spent.   *)
UsvcProvidedRunNumber_pre_start ==
  /\ Calls("usvc-provided-run-number", "preparing", "start")
  /\ \/ /\ last_run < MaxRun
        /\ last_run' = last_run + 1
        /\ returns(last_run + 1) \/ raises("DruncException", data)
     \/ /\ UNCHANGED last_run
        /\ \E exception \in Exception : raises(exception, data)
  /\ UNCHANGED <<actionVars, recorded, stops, replies>>

(* Fault: the attribute is set once the registry has the run. *)
DBRunRegistry_sets_last ==
  /\ Calls("db-run-registry", "preparing", "start")
  /\ \/ returns(data) /\ run_number' = data
     \/ (\E exception \in Exception : raises(exception, data)) /\ UNCHANGED run_number
  /\ UNCHANGED <<elisa, outside>>

(* Without a run number there is a KeyError.  The registry may have the    *)
(* run although its answer was lost.                                       *)
DBRunRegistry_pre_start ==
  /\ Calls("db-run-registry", "preparing", "start")
  /\ IF data = 0
       THEN raises("other", data) /\ UNCHANGED <<run_number, recorded>>
       ELSE /\ run_number' = data
            /\ \E done \in BOOLEAN, exception \in Exception :
                 /\ recorded' = [recorded EXCEPT !["db-run-registry"] =
                                   IF done THEN @ \cup {data} ELSE @]
                 /\ raises(exception, data) \/ (done /\ returns(data))
  /\ UNCHANGED <<elisa, last_run, stops, replies>>

(* An error status of the service is not seen; nothing is returned.        *)
DBRunRegistry_post_drain_dataflow ==
  /\ Calls("db-run-registry", "finalising", "drain_dataflow")
  /\ IF run_number = 0
       THEN raises("other", data) /\ UNCHANGED stops
       ELSE /\ returns(0) \/ \E exception \in Exception : raises(exception, data)
            /\ stops' = stops \cup {<<run_number, told>>}
  /\ UNCHANGED <<actionVars, last_run, recorded, replies>>

FileRunRegistry_pre_start ==
  /\ Calls("file-run-registry", "preparing", "start")
  /\ \/ /\ data # 0 /\ returns(data)
        /\ recorded' = [recorded EXCEPT !["file-run-registry"] = @ \cup {data}]
     \/ /\ \E exception \in IF data = 0 THEN {"other"} ELSE Exception : raises(exception, data)
        /\ UNCHANGED recorded
  /\ UNCHANGED <<actionVars, last_run, stops, replies>>

FileLogbook(t) ==
  /\ Calls("file-logbook", "finalising", t)
  /\ \/ (t = "start" => data # 0) /\ returns(data)
     \/ raises("other", data)
  /\ UNCHANGED <<actionVars, outside>>

(* Fault: the message of an earlier run is not forgotten. *)
ElisaLogbook_keeps_thread ==
  /\ Calls("elisa-logbook", "finalising", "start")
  /\ data # 0
  /\ \E sent \in BOOLEAN :
       elisa' = [run_num |-> data, det_id |-> TRUE,
                 thread_id |-> IF sent THEN data ELSE elisa.thread_id]
  /\ returns(data)
  /\ UNCHANGED <<run_number, outside>>

(* Cleared first: a message that cannot be sent is only warned about.  The *)
(* configuration is looked for in between, and the answer may be anything. *)
ElisaLogbook_post_start ==
  /\ Calls("elisa-logbook", "finalising", "start")
  /\ LET run == IF data = 0 THEN elisa.run_num ELSE data
         Becomes(thread, found) ==
           elisa' = [run_num |-> run, thread_id |-> thread, det_id |-> found]
     IN \/ /\ data = 0
           /\ Becomes(0, elisa.det_id) /\ raises("other", data)
        \/ /\ data # 0
           /\ \/ Becomes(0, elisa.det_id) /\ \E exception \in Exception : raises(exception, data)
              \/ Becomes(0, TRUE) /\ (returns(data) \/ raises("other", data))
              \/ Becomes(data, TRUE) /\ returns(data)
  /\ UNCHANGED <<run_number, outside>>

ElisaLogbook_post_drain_dataflow ==
  /\ Calls("elisa-logbook", "finalising", "drain_dataflow")
  /\ IF elisa.run_num = 0 \/ ~elisa.det_id
       THEN raises("other", data) /\ UNCHANGED replies
       ELSE /\ returns(data) \/ raises("other", data)
            /\ replies' = replies \cup {<<elisa.run_num, elisa.thread_id, told>>}
  /\ UNCHANGED <<actionVars, last_run, recorded, stops>>

(* ssh to every host of the session, with no time-out. *)
ThreadPinning(kind, t) ==
  /\ Calls("thread-pinning", kind, t)
  /\ returns(data) \/ \E exception \in Exception : raises(exception, data)
  /\ UNCHANGED <<actionVars, outside>>

(* The three actions that only put their arguments in the data. *)
AddsArguments(action, t) ==
  /\ Calls(action, "preparing", t)
  /\ returns(data)
  /\ UNCHANGED <<actionVars, outside>>

Callback(t) ==
  /\ \/ UserProvidedRunNumber_pre_start
     \/ UsvcProvidedRunNumber_pre_start
     \/ DBRunRegistry_pre_start
     \/ DBRunRegistry_post_drain_dataflow
     \/ FileRunRegistry_pre_start
     \/ FileLogbook(t)
     \/ ElisaLogbook_post_start
     \/ ElisaLogbook_post_drain_dataflow
     \/ \E kind \in {"preparing", "finalising"} : ThreadPinning(kind, t)
     \/ \E action \in {"trigger-rate-specifier", "master-send-fl-command", "test-action"} :
          AddsArguments(action, t)
  /\ operational_sub_state[2] = t
  /\ UNCHANGED <<nodeVars, children, told>>
-----------------------------------------------------------------------------
(* The transition itself, as execute_fsm_command goes through it.          *)

can_transition(t) ==
  /\ operational_sub_state = <<"state", operational_state>>
  /\ can_execute_transition(operational_state, t)

MoveSubState(from, to, t) ==
  /\ operational_sub_state = <<from, t>>
  /\ operational_sub_state' = <<to, t>>
  /\ UNCHANGED <<in_error, actionVars, outside>>

(* Fault: the sub-state is not tested before the transition is prepared. *)
prepare_unsettled(t, given, d) ==
  /\ at = 0 /\ can_execute_transition(operational_state, t)
  /\ operational_sub_state' = <<"preparing", t>>
  /\ at' = 1 /\ data' = d
  /\ UNCHANGED <<operational_state, in_error, children, told, actionVars, outside>>

(* decode_fsm_arguments, then the start of prepare_transition: data that   *)
(* cannot be read raise before the first callback.                         *)
prepare_transition(t, given, d) ==
  /\ ~in_error /\ children = "ok"
  /\ can_transition(t)
  /\ get_arguments(t) \subseteq given
  /\ operational_sub_state' = <<"preparing", t>>
  /\ (at' = 1 /\ data' = d) \/ (at' = 0 /\ data' = data)
  /\ UNCHANGED <<operational_state, in_error, children, told, actionVars, outside>>

(* Fault: the place in the sequence is left where it was. *)
execute_ends_in_place(t) ==
  /\ at = Len(sequence) + 1
  /\ operational_sub_state' =
       IF operational_sub_state[1] = "preparing" THEN <<"ready", t>>
       ELSE <<"state", operational_state>>
  /\ UNCHANGED <<at, operational_state, in_error, data, children, told, actionVars, outside>>

(* The last callback is done: execute returns. *)
execute_ends(t) ==
  /\ operational_sub_state \in {<<"preparing", t>>, <<"finalising", t>>}
  /\ at = Len(sequence) + 1
  /\ at' = 0
  /\ operational_sub_state' =
       IF operational_sub_state[1] = "preparing" THEN <<"ready", t>>
       ELSE <<"state", operational_state>>
  /\ UNCHANGED <<operational_state, in_error, data, children, told, actionVars, outside>>

propagate(t) ==
  /\ MoveSubState("ready", "propagating", t)
  /\ told' = IF t = "start" THEN data ELSE told
  /\ UNCHANGED <<operational_state, at, data, children>>

finish_propagating(t, answer) ==
  /\ MoveSubState("propagating", "propagated", t)
  /\ children' = answer
  /\ UNCHANGED <<operational_state, at, data, told>>

start_transition(t) ==
  /\ MoveSubState("propagated", "executing", t)
  /\ UNCHANGED <<operational_state, at, data, children, told>>

terminate_transition(t) ==
  /\ MoveSubState("executing", "terminated", t)
  /\ operational_state' = get_destination_state(operational_state, t)
  /\ UNCHANGED <<at, data, children, told>>

finalise_transition(t) ==
  /\ MoveSubState("terminated", "finalising", t)
  /\ at' = 1
  /\ UNCHANGED <<operational_state, data, children, told>>

(* The end of execute_fsm_command when a child has failed. *)
to_error ==
  /\ children = "failed" /\ operational_sub_state = <<"state", operational_state>>
  /\ in_error' = TRUE /\ children' = "ok"
  /\ UNCHANGED <<operational_state, operational_sub_state, at, data, told, actionVars, outside>>

Next ==
  \/ \E t \in Transition :
       \/ \E given \in Given, d \in Incoming : prepare_transition(t, given, d)
       \/ Callback(t)
       \/ execute_ends(t)
       \/ propagate(t)
       \/ \E answer \in {"ok", "failed"} : finish_propagating(t, answer)
       \/ start_transition(t)
       \/ terminate_transition(t)
       \/ finalise_transition(t)
  \/ to_error

Spec == Init /\ [][Next]_vars
-----------------------------------------------------------------------------
TypeOK ==
  /\ operational_state \in State
  /\ operational_sub_state \in ({"state"} \X State) \cup
       ({"preparing", "ready", "propagating", "propagated", "executing",
         "terminated", "finalising"} \X Transition)
  /\ in_error \in BOOLEAN
  /\ at = 0 \/ at \in 1..Len(sequence) + 1
  /\ {data, told, run_number, last_run} \subseteq 0..MaxRun
  /\ children \in {"ok", "failed"}
  /\ elisa \in [run_num : 0..MaxRun, thread_id : 0..MaxRun, det_id : BOOLEAN]
  /\ recorded \in [Registry -> SUBSET Run]

(* The sub-state a reader of StatefulNode would see if every sequence of   *)
(* callbacks took no time: while one is being executed it has not started. *)
seen_sub_state ==
  CASE at # 0 /\ operational_sub_state[1] = "preparing" -> <<"state", operational_state>>
    [] at # 0 /\ operational_sub_state[1] = "finalising" ->
         <<"terminated", operational_sub_state[2]>>
    [] OTHER -> operational_sub_state

StatefulNode == INSTANCE StatefulNode WITH
  Node <- {"controller"},
  operational_state <- [n \in {"controller"} |-> operational_state],
  operational_sub_state <- [n \in {"controller"} |-> seen_sub_state],
  included <- [n \in {"controller"} |-> TRUE],
  in_error <- [n \in {"controller"} |-> in_error]

(* Executed callback by callback, with each callback failing as it may,    *)
(* the node still does what StatefulNode says of whole sequences.          *)
(* (stateful_node.py prepare_transition and finalise_transition, and       *)
(* execute of core.py below them.)                                         *)
CallbacksImplementNode == StatefulNode!NodeSpec

(* No run is started on the children before every run registry that is     *)
(* mandatory in the sequence has recorded it: a failure of a mandatory     *)
(* callback stops the transition short of the children, at whatever place  *)
(* of the sequence it is.  (execute, and the order of the actions.)        *)
RunIsRecorded ==
  told # 0 =>
    \A cb \in ToSet(pre_transition_sequences["start"]) :
      cb.action \in Registry /\ cb.mandatory => told \in recorded[cb.action]

(* A stop time is reported for the run the children were last told to      *)
(* start, although the registry learns the number in one transition and    *)
(* uses it in another, and although its first call may have failed and     *)
(* been ignored.  (DBRunRegistry.run_number.)                              *)
StopTimeOfThisRun == \A stop \in stops : stop[1] = stop[2]

(* At the end of a run the logbook is told of that run, in reply to the    *)
(* message about its start or to none: "Clear this value here, so that if  *)
(* it fails stop can't reply to an old message".  (usvc_elisa_logbook.py)  *)
StopRepliesToItsRun ==
  \A reply \in replies : reply[1] = reply[3] /\ reply[2] \in {0, reply[3]}
=============================================================================
