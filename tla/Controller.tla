---------------------------- MODULE Controller ----------------------------
(***************************************************************************)
(* The tree of drunc controllers: class Controller and ControllerActor of  *)
(* controller/controller.py, the in_control and broadcasted decorators,    *)
(* the gRPC children (controller/children_interface/grpc_child.py) and the *)
(* REST children as their parent sees them (client_side_child.py and       *)
(* rest_api_child.py).                                                     *)
(*                                                                         *)
(* Each controller is a process whose gRPC server runs one command at a    *)
(* time (ThreadPoolExecutor(max_workers=1)).  A command that concerns the  *)
(* children is passed to all of them at once, each from a thread of its    *)
(* own, and the handler waits for all the threads.  Different controllers  *)
(* run concurrently, users may send commands to several of them, and a     *)
(* controller process may die at any moment.                               *)
(***************************************************************************)
EXTENDS StatefulNode

CONSTANTS
  RestChild,     \* the DAQ applications, children reached through REST
  User,          \* the users, each with the token it sends
  Root,          \* the root controller
  parent,        \* parent[x]: the controller that x is a child of
  Entry,         \* Entry[u]: the controllers the shells of u are connected to
  Issued,        \* Issued[u]: the commands u gives (a bound on the model)
  Mortal,        \* the controllers whose process may die
  Acting,        \* the controllers whose FSM configuration has actions
  ClientInitial, \* the state 'initial' that ClientSideState starts with
  InitToken,     \* the token "controller_init_token" set at start up
  NoToken,       \* Token(): nobody is in control
  NoTransition   \* a command name that is not a transition, or no argument

Command == {"execute_fsm_command", "include", "exclude", "take_control", "surrender_control"}

ASSUME TreeAssumption ==
  /\ Root \in Node
  /\ parent \in [(Node \ {Root}) \cup RestChild -> Node]
  /\ Entry \in [User -> SUBSET Node]
  /\ Issued \in [User -> SUBSET Command]
  /\ Mortal \subseteq Node
  /\ Acting \subseteq Node
  /\ Node \cap RestChild = {}
  /\ User \cap (Node \cup RestChild) = {}
  /\ InitToken # NoToken
  /\ {InitToken, NoToken} \cap User = {}
  /\ NoTransition \notin Transition

(* The state an application is first taken to be in is not read from the   *)
(* configuration: the code has the one that configurations begin with.     *)
ASSUME ClientAssumption == ClientInitial = InitialState

(* The parents go up to the root: no controllers are below one another in  *)
(* a circle.                                                               *)
ASSUME RootedAssumption ==
  \A T \in SUBSET Node : T # {} => \E k \in T : k = Root \/ parent[k] \notin T

VARIABLES
  actor,    \* actor[c]: the token ControllerActor holds
  worker,   \* worker[c]: what the single worker thread of c is doing
  call,     \* call[x]: the command x is waiting an answer for, x being a user
            \*   or the thread of a parent that passes a command to child x
  rest,     \* rest[a]: the ClientSideState of REST child a, held by its parent
  up        \* up[c]: is the process of c alive?

vars == <<nodeVars, actor, worker, call, rest, up>>
-----------------------------------------------------------------------------
Children(c) == {x \in DOMAIN parent : parent[x] = c}

Caller == User \cup Node \cup RestChild
Token  == User \cup {InitToken, NoToken}

(* Fault: include and exclude are not wrapped in the in_control decorator. *)
InControlCommand_undecorated == Command \ {"take_control", "include", "exclude"}

(* The commands wrapped in the in_control decorator. *)
InControlCommand == Command \ {"take_control"}

(* ResponseFlag, with the two *_EXCEPTION_THROWN flags made one, and the   *)
(* FSMResponseFlag of the data of a response ("NONE": data of another kind)*)
Flag == {"EXECUTED_SUCCESSFULLY", "FAILED", "NOT_IN_CONTROL", "NOT_IMPLEMENTED", "EXCEPTION"}
FSMFlag == {"NONE", "FSM_EXECUTED_SUCCESSFULLY", "FSM_FAILED", "FSM_INVALID_TRANSITION",
            "FSM_NOT_EXECUTED_EXCLUDED", "FSM_NOT_EXECUTED_IN_ERROR"}

(* A response.  clean: it and every response nested in its children field  *)
(* say that the command was executed successfully.                         *)
Response == [flag : Flag, fsm : FSMFlag, clean : BOOLEAN]

Succeeded(flag, fsm) ==
  flag = "EXECUTED_SUCCESSFULLY" /\ fsm \in {"NONE", "FSM_EXECUTED_SUCCESSFULLY"}

respond(flag, fsm, cleanChildren) ==
  [flag |-> flag, fsm |-> fsm, clean |-> Succeeded(flag, fsm) /\ cleanChildren]

(* What the broadcasted decorator and propagate_to_child make of an        *)
(* exception, and what a caller is left with when the server is gone.      *)
exceptionResponse == respond("EXCEPTION", "NONE", FALSE)

Call == [status : {"free", "sent", "served", "answered"}, to : Node \cup RestChild,
         cmd : Command, arg : Transition \cup {NoTransition}, token : Token,
         response : Response]

free == [status |-> "free", to |-> Root, cmd |-> "include", arg |-> NoTransition,
         token |-> NoToken, response |-> exceptionResponse]

request(to, cmd, arg, token) ==
  [free EXCEPT !.status = "sent", !.to = to, !.cmd = cmd, !.arg = arg, !.token = token]

answered(x, r) == [call[x] EXCEPT !.status = "answered", !.response = r]

(* The worker thread: where the handler is, whose command it serves, and   *)
(* what it remembers of the responses of the children.                     *)
Worker == [pc : {"idle", "begin", "prepared", "wait", "joined", "finalised"},
           caller : Caller, childFailed : BOOLEAN, cleanChildren : BOOLEAN]

idle == [pc |-> "idle", caller |-> Root, childFailed |-> FALSE, cleanChildren |-> TRUE]

RestState == [state : State, included : BOOLEAN, errored : BOOLEAN, executing : BOOLEAN]
-----------------------------------------------------------------------------
Init ==
  /\ NodeInit
  /\ actor = [c \in Node |-> InitToken]
  /\ worker = [c \in Node |-> idle]
  /\ call = [x \in Caller |-> free]
  /\ rest = [a \in RestChild |-> [state |-> ClientInitial, included |-> TRUE,
                                  errored |-> FALSE, executing |-> FALSE]]
  /\ up = [c \in Node |-> TRUE]
-----------------------------------------------------------------------------
(* The users.  A shell sends one command and waits for its response.       *)

UserSend(u, c, cmd, arg) ==
  /\ call[u].status = "free"
  /\ c \in Entry[u]
  /\ cmd # "execute_fsm_command" => arg = NoTransition
  /\ call' = [call EXCEPT ![u] = request(c, cmd, arg, u)]
  /\ UNCHANGED <<nodeVars, actor, worker, rest, up>>

UserReceive(u) ==
  /\ call[u].status = "answered"
  /\ call' = [call EXCEPT ![u] = free]
  /\ UNCHANGED <<nodeVars, actor, worker, rest, up>>
-----------------------------------------------------------------------------
(* The gRPC server: one worker thread, so a request waits until the worker *)
(* is idle.  in_control compares the token of the request with the actor.  *)

(* Fault: the server has more than one worker thread. *)
Pending_threads(c, x) == up[c] /\ call[x].status = "sent" /\ call[x].to = c

Pending(c, x) ==
  /\ up[c]
  /\ worker[c].pc = "idle"
  /\ call[x].status = "sent"
  /\ call[x].to = c

token_is_current_actor(c, token) == token = actor[c]

NotInControl(c, x) ==
  /\ Pending(c, x)
  /\ call[x].cmd \in InControlCommand
  /\ ~token_is_current_actor(c, call[x].token)
  /\ call' = [call EXCEPT ![x] = answered(x, respond("NOT_IN_CONTROL", "NONE", FALSE))]
  /\ UNCHANGED <<nodeVars, actor, worker, rest, up>>

Accept(c, x) ==
  /\ Pending(c, x)
  /\ call[x].cmd \in InControlCommand => token_is_current_actor(c, call[x].token)
  /\ worker' = [worker EXCEPT ![c] = [idle EXCEPT !.pc = "begin", !.caller = x]]
  /\ call' = [call EXCEPT ![x].status = "served"]
  /\ UNCHANGED <<nodeVars, actor, rest, up>>

(* The handler running in c is at pc with command cmd. *)
At(c, pc, cmd) == up[c] /\ worker[c].pc = pc /\ call[worker[c].caller].cmd = cmd

(* The argument and the token of the command served by c. *)
Arg(c)      == call[worker[c].caller].arg
TokenOf(c)  == call[worker[c].caller].token

(* The handler of c returns r: its caller gets it, the threads that have   *)
(* been joined are gone, the worker is free for the next request.          *)
Return(c, r) ==
  /\ worker' = [worker EXCEPT ![c] = idle]
  /\ call' = [x \in Caller |->
       IF x = worker[c].caller THEN answered(x, r)
       ELSE IF x \in Children(c) THEN free ELSE call[x]]
-----------------------------------------------------------------------------
(* propagate_to_list: a thread for each child, all started, then all       *)
(* joined.                                                                 *)

propagate_to_list(c, cmd, arg) ==
  /\ worker' = [worker EXCEPT ![c].pc = "wait"]
  /\ call' = [x \in Caller |->
       IF x \in Children(c) THEN request(x, cmd, arg, TokenOf(c)) ELSE call[x]]

(* Fault: the threads are not all joined. *)
Joined_one(c) == Children(c) = {} \/ \E x \in Children(c) : call[x].status = "answered"

Joined(c) == \A x \in Children(c) : call[x].status = "answered"

(* Fault: the nested responses are not looked at. *)
cleanChildren_ignored(c) == TRUE

cleanChildren(c) == \A x \in Children(c) : call[x].response.clean
-----------------------------------------------------------------------------
(* take_control, surrender_control.  surrender_control of ControllerActor  *)
(* returns None, which the caller finds different from 0: the response is  *)
(* FAILED and the children are never asked.                                *)

(* Fault: the children are not asked. *)
TakeControl_alone(c) ==
  /\ At(c, "begin", "take_control")
  /\ actor' = [actor EXCEPT ![c] = TokenOf(c)]
  /\ Return(c, respond("EXECUTED_SUCCESSFULLY", "NONE", TRUE))
  /\ UNCHANGED <<nodeVars, rest, up>>

TakeControl(c) ==
  /\ At(c, "begin", "take_control")
  /\ actor' = [actor EXCEPT ![c] = TokenOf(c)]
  /\ propagate_to_list(c, "take_control", NoTransition)
  /\ UNCHANGED <<nodeVars, rest, up>>

TookControl(c) ==
  /\ At(c, "wait", "take_control")
  /\ Joined(c)
  /\ LET refused == \E x \in Children(c) :
           call[x].response.flag \notin {"EXECUTED_SUCCESSFULLY", "NOT_IMPLEMENTED"}
     IN  Return(c, respond(IF refused THEN "FAILED" ELSE "EXECUTED_SUCCESSFULLY",
                           "NONE", cleanChildren(c)))
  /\ UNCHANGED <<nodeVars, actor, rest, up>>

(* Fault: the actor is set to None rather than to the empty token. *)
SurrenderControl_none(c) ==
  /\ At(c, "begin", "surrender_control")
  /\ actor' = [actor EXCEPT ![c] = NoTransition]
  /\ Return(c, respond("FAILED", "NONE", TRUE))
  /\ UNCHANGED <<nodeVars, rest, up>>

SurrenderControl(c) ==
  /\ At(c, "begin", "surrender_control")
  /\ actor' = [actor EXCEPT ![c] = NoToken]
  /\ Return(c, respond("FAILED", "NONE", TRUE))
  /\ UNCHANGED <<nodeVars, rest, up>>
-----------------------------------------------------------------------------
(* include, exclude: the children first, whatever they answer, then self,  *)
(* which raises when it is already so.                                     *)

PropagateInclusion(c, cmd) ==
  /\ At(c, "begin", cmd)
  /\ propagate_to_list(c, cmd, NoTransition)
  /\ UNCHANGED <<nodeVars, actor, rest, up>>

Include(c) ==
  /\ At(c, "wait", "include")
  /\ Joined(c)
  /\ \/ /\ include_node(c)
        /\ Return(c, respond("EXECUTED_SUCCESSFULLY", "NONE", cleanChildren(c)))
     \/ /\ included[c]
        /\ Return(c, exceptionResponse)
        /\ UNCHANGED nodeVars
  /\ UNCHANGED <<actor, rest, up>>

Exclude(c) ==
  /\ At(c, "wait", "exclude")
  /\ Joined(c)
  /\ \/ /\ exclude_node(c)
        /\ Return(c, respond("EXECUTED_SUCCESSFULLY", "NONE", cleanChildren(c)))
     \/ /\ ~included[c]
        /\ Return(c, exceptionResponse)
        /\ UNCHANGED nodeVars
  /\ UNCHANGED <<actor, rest, up>>
-----------------------------------------------------------------------------
(* execute_fsm_command *)

Executing(c, pc) == At(c, pc, "execute_fsm_command")

(* The two refusals that are ordinary responses... *)
RefuseInError(c) ==
  /\ Executing(c, "begin")
  /\ in_error[c]
  /\ Return(c, respond("EXECUTED_SUCCESSFULLY", "FSM_NOT_EXECUTED_IN_ERROR", TRUE))
  /\ UNCHANGED <<nodeVars, actor, rest, up>>

RefuseExcluded(c) ==
  /\ Executing(c, "begin")
  /\ ~in_error[c]
  /\ ~included[c]
  /\ Return(c, respond("EXECUTED_SUCCESSFULLY", "FSM_NOT_EXECUTED_EXCLUDED", TRUE))
  /\ UNCHANGED <<nodeVars, actor, rest, up>>

(* ... and those that come out as exceptions: get_transition has no such   *)
(* name (IndexError), the transition is not possible now (the line that    *)
(* logs it calls a method that does not exist), or an argument the actions *)
(* of this controller need is missing (decode_fsm_arguments).              *)
CannotExecute(c) ==
  /\ Executing(c, "begin")
  /\ ~in_error[c]
  /\ included[c]
  /\ \/ Arg(c) \notin Transition
     \/ Arg(c) \in Transition /\ ~can_transition(c, Arg(c))
     \/ c \in Acting
  /\ Return(c, exceptionResponse)
  /\ UNCHANGED <<nodeVars, actor, rest, up>>

(* Fault: a node in error is not refused. *)
Prepare_in_error(c, ok) ==
  /\ Executing(c, "begin")
  /\ included[c]
  /\ ok
  /\ Arg(c) \in Transition
  /\ prepare_transition(c, Arg(c), ok)
  /\ worker' = [worker EXCEPT ![c].pc = "prepared"]
  /\ UNCHANGED <<call, actor, rest, up>>

(* prepare_transition: the callbacks may raise, then the command is over   *)
(* and the sub-state stays preparing-t.                                    *)
Prepare(c, ok) ==
  /\ Executing(c, "begin")
  /\ ~in_error[c]
  /\ included[c]
  /\ Arg(c) \in Transition
  /\ ok \/ c \in Acting
  /\ prepare_transition(c, Arg(c), ok)
  /\ \/ /\ ok
        /\ worker' = [worker EXCEPT ![c].pc = "prepared"]
        /\ UNCHANGED call
     \/ ~ok /\ Return(c, exceptionResponse)
  /\ UNCHANGED <<actor, rest, up>>

Propagate(c) ==
  /\ Executing(c, "prepared")
  /\ propagate_transition_mark(c, Arg(c))
  /\ propagate_to_list(c, "execute_fsm_command", Arg(c))
  /\ UNCHANGED <<actor, rest, up>>

(* Faults: only one of the two flags of a response is looked at. *)
ChildFailed_flag(c) ==
  \E x \in Children(c) : call[x].response.flag # "EXECUTED_SUCCESSFULLY"

ChildFailed_fsm(c) ==
  \E x \in Children(c) : /\ call[x].response.flag = "EXECUTED_SUCCESSFULLY"
                         /\ call[x].response.fsm # "FSM_EXECUTED_SUCCESSFULLY"

(* child_worst_response_flag or child_worst_fsm_flag is not success. *)
ChildFailed(c) ==
  \E x \in Children(c) : \/ call[x].response.flag # "EXECUTED_SUCCESSFULLY"
                         \/ call[x].response.fsm # "FSM_EXECUTED_SUCCESSFULLY"

(* The fold over the responses: any flag but success is remembered. *)
Collect(c) ==
  /\ Executing(c, "wait")
  /\ Joined(c)
  /\ finish_propagating_transition_mark(c, Arg(c))
  /\ worker' = [worker EXCEPT ![c] =
       [@ EXCEPT !.pc = "joined",
                 !.childFailed = ChildFailed(c),
                 !.cleanChildren = cleanChildren(c)]]
  /\ call' = [x \in Caller |-> IF x \in Children(c) THEN free ELSE call[x]]
  /\ UNCHANGED <<actor, rest, up>>

Start(c) ==
  /\ Executing(c, "joined")
  /\ start_transition_mark(c, Arg(c))
  /\ UNCHANGED <<actor, worker, call, rest, up>>

Terminate(c) ==
  /\ Executing(c, "joined")
  /\ terminate_transition_mark(c, Arg(c))
  /\ UNCHANGED <<actor, worker, call, rest, up>>

(* finalise_transition: when a callback raises, the rest of the handler,   *)
(* to_error included, is skipped.                                          *)
Finalise(c, ok) ==
  /\ Executing(c, "joined")
  /\ ok \/ c \in Acting
  /\ finalise_transition(c, Arg(c), ok)
  /\ \/ /\ ok
        /\ worker' = [worker EXCEPT ![c].pc = "finalised"]
        /\ UNCHANGED call
     \/ ~ok /\ Return(c, exceptionResponse)
  /\ UNCHANGED <<actor, rest, up>>

(* Self has succeeded even when a child has not: only in_error tells. *)
Conclude(c) ==
  /\ Executing(c, "finalised")
  /\ IF worker[c].childFailed THEN to_error(c) ELSE UNCHANGED nodeVars
  /\ Return(c, respond("EXECUTED_SUCCESSFULLY", "FSM_EXECUTED_SUCCESSFULLY",
                       worker[c].cleanChildren))
  /\ UNCHANGED <<actor, rest, up>>
-----------------------------------------------------------------------------
(* A REST child: propagate_command of ClientSideChild and of               *)
(* RESTAPIChildNode, run by the thread of its parent.  It would refuse a   *)
(* transition while it is excluded, but then its parent is excluded too    *)
(* (RestInclusionFollows) and never asks.                                  *)

Sent(a, cmd) == call[a].status = "sent" /\ call[a].cmd = cmd

RestAnswer(a, new, r) ==
  /\ rest' = [rest EXCEPT ![a] = new]
  /\ call' = [call EXCEPT ![a] = answered(a, r)]
  /\ UNCHANGED <<nodeVars, actor, worker, up>>

RestInclusion(a) ==
  \/ /\ Sent(a, "include")
     /\ RestAnswer(a, [rest[a] EXCEPT !.included = TRUE],
                   respond("EXECUTED_SUCCESSFULLY", "NONE", TRUE))
  \/ /\ Sent(a, "exclude")
     /\ RestAnswer(a, [rest[a] EXCEPT !.included = FALSE],
                   respond("EXECUTED_SUCCESSFULLY", "NONE", TRUE))

(* take_control is for controllers only; on an excluded child the refusal  *)
(* itself fails, as it reads a field of data that are None.                *)
RestTakeControl(a) ==
  /\ Sent(a, "take_control")
  /\ RestAnswer(a, rest[a], IF rest[a].included THEN respond("NOT_IMPLEMENTED", "NONE", TRUE)
                            ELSE exceptionResponse)

(* The application executed the command: only now does the child forget    *)
(* that it was executing and take the exit state.                          *)
RestExecute(a) ==
  /\ Sent(a, "execute_fsm_command")
  /\ rest[a].included
  /\ can_execute_transition(rest[a].state, call[a].arg)
  /\ RestAnswer(a,
       [rest[a] EXCEPT !.state = get_destination_state(@, call[a].arg), !.executing = FALSE],
       respond("EXECUTED_SUCCESSFULLY", "FSM_EXECUTED_SUCCESSFULLY", TRUE))

(* The application said no (FSM_FAILED), or the command could not be sent, *)
(* or no answer came in time, or the child assumes a state the transition  *)
(* does not leave, so that it has no exit state to send (exceptions).      *)
RestFail(a, r) ==
  /\ Sent(a, "execute_fsm_command")
  /\ rest[a].included
  /\ r.fsm = "FSM_FAILED" => can_execute_transition(rest[a].state, call[a].arg)
  /\ RestAnswer(a, [rest[a] EXCEPT !.errored = TRUE, !.executing = TRUE], r)

RestStep(a) ==
  \/ RestInclusion(a)
  \/ RestTakeControl(a)
  \/ RestExecute(a)
  \/ RestFail(a, respond("EXECUTED_SUCCESSFULLY", "FSM_FAILED", TRUE))
  \/ RestFail(a, exceptionResponse)
-----------------------------------------------------------------------------
(* The process of a controller dies (killed, or its host does), and with   *)
(* it the threads that were talking to its REST children.  Its gRPC        *)
(* children go on with what they were asked.                               *)
Crash(c) ==
  /\ c \in Mortal
  /\ up[c]
  /\ up' = [up EXCEPT ![c] = FALSE]
  /\ worker' = [worker EXCEPT ![c] = idle]
  /\ call' = [x \in Caller |-> IF x \in Children(c) \cap RestChild THEN free ELSE call[x]]
  /\ UNCHANGED <<nodeVars, actor, rest>>

(* Fault: the call of a server that dies while it serves it never returns. *)
Unreachable_if_waiting(x) ==
  /\ call[x].status = "sent"
  /\ call[x].to \in Node
  /\ ~up[call[x].to]
  /\ call' = [call EXCEPT ![x] = answered(x, exceptionResponse)]
  /\ UNCHANGED <<nodeVars, actor, worker, rest, up>>

(* Whoever was or gets connected to it has its call fail (ServerUnreachable)*)
Unreachable(x) ==
  /\ call[x].status \in {"sent", "served"}
  /\ call[x].to \in Node
  /\ ~up[call[x].to]
  /\ call' = [call EXCEPT ![x] = answered(x, exceptionResponse)]
  /\ UNCHANGED <<nodeVars, actor, worker, rest, up>>
-----------------------------------------------------------------------------
ActorStep(c) == TakeControl(c) \/ TookControl(c) \/ SurrenderControl(c)

InclusionStep(c) ==
  \/ PropagateInclusion(c, "include")
  \/ PropagateInclusion(c, "exclude")
  \/ Include(c)
  \/ Exclude(c)

ExecuteStep(c) ==
  \/ RefuseInError(c)
  \/ RefuseExcluded(c)
  \/ CannotExecute(c)
  \/ \E ok \in BOOLEAN : Prepare(c, ok) \/ Finalise(c, ok)
  \/ Propagate(c)
  \/ Collect(c)
  \/ Start(c)
  \/ Terminate(c)
  \/ Conclude(c)

HandlerStep(c) == ActorStep(c) \/ InclusionStep(c) \/ ExecuteStep(c)

UserStep(u) ==
  \/ UserReceive(u)
  \/ \E c \in Entry[u], cmd \in Issued[u], arg \in Transition \cup {NoTransition} :
       UserSend(u, c, cmd, arg)

Next ==
  \/ \E u \in User : UserStep(u)
  \/ \E c \in Node, x \in Caller : NotInControl(c, x) \/ Accept(c, x)
  \/ \E c \in Node : HandlerStep(c) \/ Crash(c)
  \/ \E a \in RestChild : RestStep(a)
  \/ \E x \in Caller : Unreachable(x)

Spec == Init /\ [][Next]_vars
-----------------------------------------------------------------------------
(* Fairness: a worker thread and the threads it starts run on; a request   *)
(* waits in the FIFO queue of its server's executor, so it is not passed   *)
(* over for ever even though the worker is busy in between; a REST child   *)
(* answers or times out.  Users are free to stop; crashes may not happen.  *)
Fairness ==
  /\ \A c \in Node : WF_vars(HandlerStep(c))
  /\ \A c \in Node : \A x \in User \cup {c} : SF_vars(NotInControl(c, x) \/ Accept(c, x))
  /\ \A a \in RestChild : WF_vars(RestStep(a))
  /\ \A x \in User \cup Node : WF_vars(Unreachable(x))

FairSpec == Spec /\ Fairness
-----------------------------------------------------------------------------
(* The values of the state of the tree. *)
TypeOK ==
  /\ NodeTypeOK
  /\ actor \in [Node -> Token]
  /\ worker \in [Node -> Worker]
  /\ call \in [Caller -> Call]
  /\ rest \in [RestChild -> RestState]
  /\ up \in [Node -> BOOLEAN]

(* Alive, doing nothing, fit for a next transition. *)
Healthy(c) == up[c] /\ worker[c].pc = "idle" /\ settled(c) /\ ~in_error[c]

(* x and all that it is below. *)
ancestors[x \in Node \cup RestChild] ==
  IF x = Root THEN {Root} ELSE {x} \cup ancestors[parent[x]]

(* Every node below c, c included. *)
Tree(c) == {x \in Node \cup RestChild : c \in ancestors[x]}

(* A controller that is ready for a next transition has all of its         *)
(* applications with it: each is in the same state, not failed and not     *)
(* executing.  A failure of any of them, however it showed (refusal,       *)
(* exception, timeout), must have taken the controller out of service,     *)
(* through in_error or through a sub-state that stays behind.              *)
RestInStep ==
  \A c \in Node : Healthy(c) =>
    \A a \in Children(c) \cap RestChild :
      /\ rest[a].state = operational_state[c]
      /\ ~rest[a].errored
      /\ ~rest[a].executing

(* The same between controllers, when users talk to the root only: two     *)
(* healthy controllers, one the parent of the other, are in the same state.*)
ControllersInStep ==
  \A k \in Node \ {Root} :
    Healthy(k) /\ Healthy(parent[k]) => operational_state[k] = operational_state[parent[k]]

(* Applications are included and excluded with their controller, although  *)
(* include and exclude change them first and then may raise.               *)
RestInclusionFollows ==
  \A c \in Node : up[c] /\ worker[c].pc = "idle" =>
    \A a \in Children(c) \cap RestChild : rest[a].included = included[c]

(* Whoever is served has a worker working for it, and no one is served     *)
(* twice: no accepted command is forgotten while the process lives.        *)
ServedIsWorkedOn ==
  \A x \in Caller :
    /\ call[x].status = "served" /\ up[call[x].to] => worker[call[x].to].caller = x
                                                    /\ worker[call[x].to].pc # "idle"
    /\ \A c \in Node : worker[c].pc # "idle" /\ worker[c].caller = x =>
         call[x].status = "served" /\ call[x].to = c

(* The stages of a transition are made by the one handler that serves it:  *)
(* at each of its places a handler finds the sub-state it left there, of   *)
(* its own transition, whatever other users and parents ask for meanwhile. *)
(* And no transition is left half-way by a live controller, unless at one  *)
(* of the two stages whose callbacks may raise.                            *)
TransitionIsServed ==
  \A c \in Node : up[c] =>
    LET stage == operational_sub_state[c]
    IN /\ stage[1] \in {"ready", "propagating", "propagated", "executing", "terminated"} =>
            /\ \E pc \in {"prepared", "wait", "joined"} : Executing(c, pc)
            /\ Arg(c) = stage[2]
       /\ Executing(c, "prepared") => stage = <<"ready", Arg(c)>>
       /\ Executing(c, "wait") => stage = <<"propagating", Arg(c)>>
       /\ Executing(c, "joined") =>
            \E kind \in {"propagated", "executing", "terminated"} : stage = <<kind, Arg(c)>>
       /\ Executing(c, "finalised") => settled(c)

(* When users talk to the root only, taking control of the root is taking  *)
(* control of every controller that can still be reached.                  *)
ControlIsTreeWide ==
  up[Root] /\ worker[Root].pc = "idle" /\ actor[Root] # NoToken =>
    \A k \in Node : (\A m \in ancestors[k] : up[m]) => actor[k] = actor[Root]

(* A controller changes state or inclusion only on behalf of the user who  *)
(* is in control of it at that very moment, not merely when the command    *)
(* was let in.                                                             *)
OnlyInControl ==
  [][\A c \in Node :
       \/ operational_sub_state'[c] # operational_sub_state[c]
       \/ included'[c] # included[c]
       => TokenOf(c) = actor[c]]_vars

(* When a user hears from the root that a transition went well everywhere  *)
(* (the response and all the nested ones), it did: every controller and    *)
(* application of the tree is in the new state and none is in error.       *)
HonestReport ==
  [][\A u \in User :
       LET told == call'[u]
       IN  call[u].status = "served" /\ told.status = "answered" /\ told.response.clean
           /\ told.cmd = "execute_fsm_command" =>
             /\ \A k \in Node \cap Tree(told.to) :
                  /\ operational_state'[k] = operational_state'[told.to]
                  /\ ~in_error'[k]
             /\ \A a \in RestChild \cap Tree(told.to) :
                  rest'[a].state = operational_state'[told.to] /\ ~rest'[a].errored]_vars

(* The tree implements the run control promise of RunControlFSM: states    *)
(* change along transitions only, and never on a node that is in error.    *)
RC == INSTANCE RunControlFSM
ImplementsRunControl == RC!Spec

(* Every command a user sends is answered, whoever crashes meanwhile and   *)
(* however many users and parents queue up at a controller.                *)
EveryCallAnswered ==
  \A u \in User : call[u].status \in {"sent", "served"} ~> call[u].status = "answered"
-----------------------------------------------------------------------------
(* What the documentation says and the code does not do.                   *)

(* "Surrenders control of a controller and it's children": once the root   *)
(* has been surrendered its children are nobody's either.                  *)
SurrenderReachesChildren ==
  \A k \in Node \ {Root} :
    worker[parent[k]].pc = "idle" /\ actor[parent[k]] = NoToken => actor[k] = NoToken
=============================================================================
