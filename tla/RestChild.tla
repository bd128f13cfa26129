----------------------------- MODULE RestChild -----------------------------
(***************************************************************************)
(* How a controller drives its DAQ applications:                           *)
(* RESTAPIChildNode.propagate_fsm_command, AppCommander, ResponseListener  *)
(* and ResponseDispatcher of children_interface/rest_api_child.py, with    *)
(* the ClientSideState of client_side_child.py.                            *)
(*                                                                         *)
(* A thread for each application posts the command and waits for a reply   *)
(* in a queue of its own.  Replies of all the applications arrive at one   *)
(* web server (a forked process), cross one queue and are handed out by    *)
(* one thread, the dispatcher.  Nothing in a reply says which command it   *)
(* answers.  Controller.tla sees of all this the actions RestExecute and   *)
(* RestFail; the state of the application itself is only here.             *)
(***************************************************************************)
EXTENDS FSM, Naturals, Sequences

CONSTANTS
  App,           \* the applications, registered with the listener
  Stranger,      \* senders of replies that are not registered
  Restartable,   \* the applications that the process manager may restart
  MaxQueue,      \* a bound on the queue, for replies of strangers
  ClientInitial, \* the state 'initial' that ClientSideState starts with
  NoTransition,
  NoCommand

ASSUME RestAssumption ==
  /\ App \cap Stranger = {}
  /\ Restartable \subseteq App
  /\ NoTransition \notin Transition
  /\ NoCommand \notin [tr : Transition, entry_state : State, exit_state : State]

(* The state an application is first taken to be in is not read from the   *)
(* configuration: the code has the one that configurations begin with.     *)
ASSUME ClientAssumption == ClientInitial = InitialState

VARIABLES
  parent,          \* the controller: its state, the transition it propagates,
                   \*   and whether it has failed (in error, or stuck half way)
  child,           \* child[a]: the ClientSideState of a
  thread,          \* thread[a]: where the thread that drives a is
  queue,           \* the replies between the web server and the dispatcher
  response_queue,  \* response_queue[a]: the replies handed to the commander of a
  dispatcher,      \* is the dispatcher thread "running" or "dead"?
  request,         \* request[a]: the command that a was sent and has not looked at
  application      \* application[a]: what a is really doing

vars == <<parent, child, thread, queue, response_queue, dispatcher, request, application>>
parentVars == <<parent, child, thread>>
listenerVars == <<queue, response_queue, dispatcher>>
appVars == <<request, application>>
-----------------------------------------------------------------------------
Command == [tr : Transition, entry_state : State, exit_state : State]

(* The three fields that matter, cmd being for the properties only. *)
Reply == [appname : App \cup Stranger, cmd : Transition \cup {NoTransition}, success : BOOLEAN]

(* new: started, and nothing executed yet.  replied: the reply is sent and *)
(* the state not yet changed.                                              *)
Application == [status : {"new", "idle", "busy", "replied", "down"}, state : State,
                cmd : Command \cup {NoCommand}]

started == [status |-> "new", state |-> InitialState, cmd |-> NoCommand]

Init ==
  /\ parent = [state |-> InitialState, tr |-> NoTransition, failed |-> FALSE]
  /\ child = [a \in App |-> [state |-> ClientInitial, executing |-> FALSE, errored |-> FALSE]]
  /\ thread = [a \in App |-> "idle"]
  /\ queue = <<>>
  /\ response_queue = [a \in App |-> <<>>]
  /\ dispatcher = "running"
  /\ request = [a \in App |-> NoCommand]
  /\ application = [a \in App |-> started]
-----------------------------------------------------------------------------
(* The controller, as in Controller.tla: one transition at a time, passed  *)
(* to all the children at once, and none after a failure.                  *)

Propagate(t) ==
  /\ parent.tr = NoTransition
  /\ ~parent.failed
  /\ can_execute_transition(parent.state, t)
  /\ parent' = [parent EXCEPT !.tr = t]
  /\ thread' = [a \in App |-> "send"]
  /\ UNCHANGED <<child, listenerVars, appVars>>

Joined == parent.tr # NoTransition /\ \A a \in App : thread[a] \in {"succeeded", "failed"}

(* Fault: a child that failed does not put the parent in error. *)
Conclude_regardless ==
  /\ Joined
  /\ parent' = [parent EXCEPT !.state = get_destination_state(@, parent.tr), !.tr = NoTransition]
  /\ thread' = [a \in App |-> "idle"]
  /\ UNCHANGED <<child, listenerVars, appVars>>

Conclude ==
  /\ Joined
  /\ parent' = [state |-> get_destination_state(parent.state, parent.tr), tr |-> NoTransition,
                failed |-> \E a \in App : thread[a] = "failed"]
  /\ thread' = [a \in App |-> "idle"]
  /\ UNCHANGED <<child, listenerVars, appVars>>

(* A callback of the controller raises: its sub-state is stuck. *)
ConcludeStuck ==
  /\ Joined
  /\ parent' = [parent EXCEPT !.tr = NoTransition, !.failed = TRUE]
  /\ thread' = [a \in App |-> "idle"]
  /\ UNCHANGED <<child, listenerVars, appVars>>
-----------------------------------------------------------------------------
(* propagate_fsm_command for application a *)

command(a) == [tr |-> parent.tr, entry_state |-> child[a].state,
               exit_state |-> get_destination_state(child[a].state, parent.tr)]

(* An exception of any kind: in error, and executing for ever. *)
Raise(a) ==
  /\ child' = [child EXCEPT ![a] = [@ EXCEPT !.errored = TRUE, !.executing = TRUE]]
  /\ thread' = [thread EXCEPT ![a] = "failed"]

(* The POST is acknowledged... *)
Send(a) ==
  /\ thread[a] = "send"
  /\ application[a].status # "down"
  /\ request' = [request EXCEPT ![a] = command(a)]
  /\ child' = [child EXCEPT ![a].executing = TRUE]
  /\ thread' = [thread EXCEPT ![a] = "wait"]
  /\ UNCHANGED <<parent, listenerVars, application>>

(* ... or takes longer than the second it has, and arrives nevertheless    *)
(* (ReadTimeout)...                                                        *)
SendUnacknowledged(a) ==
  /\ thread[a] = "send"
  /\ application[a].status # "down"
  /\ request' = [request EXCEPT ![a] = command(a)]
  /\ Raise(a)
  /\ UNCHANGED <<parent, listenerVars, application>>

(* ... or does not get there (ConnectionError). *)
CouldnotSend(a) ==
  /\ thread[a] = "send"
  /\ Raise(a)
  /\ UNCHANGED <<parent, listenerVars, appVars>>

(* Fault: a reply is a success whatever it says. *)
Receive_blind(a) ==
  /\ thread[a] = "wait"
  /\ response_queue[a] # <<>>
  /\ response_queue' = [response_queue EXCEPT ![a] = Tail(@)]
  /\ child' = [child EXCEPT ![a] = [@ EXCEPT !.executing = FALSE, !.state = command(a).exit_state]]
  /\ thread' = [thread EXCEPT ![a] = "succeeded"]
  /\ UNCHANGED <<parent, queue, dispatcher, appVars>>

(* Fault: no return after a failure, so that the state is changed too. *)
Receive_fallthrough(a) ==
  /\ thread[a] = "wait"
  /\ response_queue[a] # <<>>
  /\ response_queue' = [response_queue EXCEPT ![a] = Tail(@)]
  /\ child' = [child EXCEPT ![a] = [state |-> command(a).exit_state, executing |-> FALSE,
                                   errored |-> ~Head(response_queue[a]).success]]
  /\ thread' = [thread EXCEPT ![a] = "succeeded"]
  /\ UNCHANGED <<parent, queue, dispatcher, appVars>>

(* check_response has a reply: success is the new state, failure an error. *)
Receive(a) ==
  /\ thread[a] = "wait"
  /\ response_queue[a] # <<>>
  /\ response_queue' = [response_queue EXCEPT ![a] = Tail(@)]
  /\ \/ /\ Head(response_queue[a]).success
        /\ child' = [child EXCEPT ![a] = [@ EXCEPT !.executing = FALSE, !.state = command(a).exit_state]]
        /\ thread' = [thread EXCEPT ![a] = "succeeded"]
     \/ /\ ~Head(response_queue[a]).success
        /\ Raise(a)
  /\ UNCHANGED <<parent, queue, dispatcher, appVars>>

(* Fault: the wait ends only when the connection to the application breaks. *)
ResponseTimeout_connected(a) ==
  /\ thread[a] = "wait"
  /\ response_queue[a] = <<>>
  /\ application[a].status = "down"
  /\ Raise(a)
  /\ UNCHANGED <<parent, listenerVars, appVars>>

(* Nothing in 150 seconds.  The reply may still come. *)
ResponseTimeout(a) ==
  /\ thread[a] = "wait"
  /\ response_queue[a] = <<>>
  /\ Raise(a)
  /\ UNCHANGED <<parent, listenerVars, appVars>>
-----------------------------------------------------------------------------
(* The dispatcher hands a reply to the commander of its application.  For  *)
(* an unregistered one it wants to log a warning, on a logger that the     *)
(* class does not have: the exception ends the thread.                     *)
Dispatch ==
  /\ dispatcher = "running"
  /\ queue # <<>>
  /\ queue' = Tail(queue)
  /\ \/ \E a \in App :
          /\ Head(queue).appname = a
          /\ response_queue' = [response_queue EXCEPT ![a] = Append(@, Head(queue))]
          /\ UNCHANGED dispatcher
     \/ /\ Head(queue).appname \notin App
        /\ dispatcher' = "dead"
        /\ UNCHANGED response_queue
  /\ UNCHANGED <<parentVars, appVars>>

Stray(s) ==
  /\ Len(queue) < MaxQueue
  /\ queue' = Append(queue, [appname |-> s, cmd |-> NoTransition, success |-> TRUE])
  /\ UNCHANGED <<parentVars, response_queue, dispatcher, appVars>>
-----------------------------------------------------------------------------
(* The application: AppState of apps/__main_fake_daqapp_rest__.py, the     *)
(* description of the protocol that the repository has.                    *)

(* send_response: when it cannot be sent the reply is lost. *)
send_response(a, t, success) ==
  /\ \/ queue' = Append(queue, [appname |-> a, cmd |-> t, success |-> success])
     \/ UNCHANGED queue
  /\ UNCHANGED <<response_queue, dispatcher>>

(* A command is refused while another one is executing, and in a state     *)
(* that is not its entry state.                                            *)
Executable(a) ==
  /\ application[a].status \in {"new", "idle"}
  /\ application[a].state = request[a].entry_state

Refuse(a) ==
  /\ request[a] # NoCommand
  /\ ~Executable(a)
  /\ send_response(a, request[a].tr, FALSE)
  /\ request' = [request EXCEPT ![a] = NoCommand]
  /\ UNCHANGED <<parentVars, application>>

Execute(a) ==
  /\ request[a] # NoCommand
  /\ Executable(a)
  /\ application' = [application EXCEPT ![a] = [@ EXCEPT !.status = "busy", !.cmd = request[a]]]
  /\ request' = [request EXCEPT ![a] = NoCommand]
  /\ UNCHANGED <<parentVars, listenerVars>>

(* The reply goes first, the new state comes after. *)
Succeed(a) ==
  /\ application[a].status = "busy"
  /\ send_response(a, application[a].cmd.tr, TRUE)
  /\ application' = [application EXCEPT ![a].status = "replied"]
  /\ UNCHANGED <<parentVars, request>>

Settle(a) ==
  /\ application[a].status = "replied"
  /\ application' = [application EXCEPT ![a] =
       [status |-> "idle", state |-> application[a].cmd.exit_state, cmd |-> NoCommand]]
  /\ UNCHANGED <<parentVars, listenerVars, request>>

(* The command throws: the state stays. *)
Fail(a) ==
  /\ application[a].status = "busy"
  /\ send_response(a, application[a].cmd.tr, FALSE)
  /\ application' = [application EXCEPT ![a] = [@ EXCEPT !.status = "idle", !.cmd = NoCommand]]
  /\ UNCHANGED <<parentVars, request>>

(* It dies with what it was doing, and is started again by the user.       *)
Die(a) ==
  /\ application' = [application EXCEPT ![a] = [@ EXCEPT !.status = "down", !.cmd = NoCommand]]
  /\ request' = [request EXCEPT ![a] = NoCommand]
  /\ UNCHANGED <<parentVars, listenerVars>>

Restart(a) ==
  /\ a \in Restartable
  /\ application[a].status = "down"
  /\ application' = [application EXCEPT ![a] = started]
  /\ UNCHANGED <<parentVars, listenerVars, request>>
-----------------------------------------------------------------------------
Conclusion == Conclude \/ ConcludeStuck

ThreadStep(a) ==
  Send(a) \/ SendUnacknowledged(a) \/ CouldnotSend(a) \/ Receive(a) \/ ResponseTimeout(a)

AppStep(a) == Refuse(a) \/ Execute(a) \/ Succeed(a) \/ Settle(a) \/ Fail(a) \/ Die(a) \/ Restart(a)

Next ==
  \/ \E t \in Transition : Propagate(t)
  \/ Conclusion
  \/ \E a \in App : ThreadStep(a) \/ AppStep(a)
  \/ Dispatch
  \/ \E s \in Stranger : Stray(s)

Spec == Init /\ [][Next]_vars

(* Fairness: the threads of the controller run on.  Nothing is assumed of  *)
(* the applications, the network and the dispatcher.                       *)
FairSpec == Spec /\ WF_vars(Conclusion) /\ \A a \in App : WF_vars(ThreadStep(a))
-----------------------------------------------------------------------------
TypeOK ==
  /\ parent \in [state : State, tr : Transition \cup {NoTransition}, failed : BOOLEAN]
  /\ child \in [App -> [state : State, executing : BOOLEAN, errored : BOOLEAN]]
  /\ thread \in [App -> {"idle", "send", "wait", "succeeded", "failed"}]
  /\ queue \in Seq(Reply)
  /\ response_queue \in [App -> Seq(Reply)]
  /\ dispatcher \in {"running", "dead"}
  /\ request \in [App -> Command \cup {NoCommand}]
  /\ application \in [App -> Application]

(* The state an application is in, or changes to right after its reply. *)
settling(a) == IF application[a].status = "replied" THEN application[a].cmd.exit_state
                                                    ELSE application[a].state

(* What the controller believes of a healthy application is true, unless   *)
(* the application has died or been started again behind its back.         *)
BeliefIsTrue ==
  \A a \in App :
    ~child[a].errored /\ thread[a] # "wait" =>
      application[a].status \in {"new", "down"} \/ settling(a) = child[a].state

(* A reply is taken for the command it answers, although it does not say   *)
(* which one that is and replies may come after their time out.            *)
OwnReply ==
  [][\A a \in App : thread[a] = "wait" /\ response_queue'[a] # response_queue[a]
                      /\ thread'[a] # "wait" => Head(response_queue[a]).cmd = parent.tr]_vars

(* Each propagation of a transition ends, whatever the applications, the   *)
(* network and the dispatcher do.                                          *)
PropagationEnds == parent.tr # NoTransition ~> parent.tr = NoTransition

(* The children are nodes of the run control: their states follow the      *)
(* transitions of the machine and never change once they are in error.     *)
RunControl == INSTANCE RunControlFSM WITH
  Node <- App,
  operational_state <- [a \in App |-> child[a].state],
  in_error <- [a \in App |-> child[a].errored]

ImplementsRunControl == RunControl!Spec

(* What the code is written for: the reply of an unregistered application  *)
(* is ignored, after a warning.                                            *)
StrayReplyIgnored == dispatcher = "running"
=============================================================================
