------------------------- MODULE Controller_proofs -------------------------
(* What holds for every tree, every machine and every number of users.     *)
EXTENDS Controller, StatefulNode_proofs

-----------------------------------------------------------------------------
(* Types *)

(* Responses are well formed whatever they say. *)
LEMMA RespondType ==
  /\ \A f \in Flag, g \in FSMFlag, b \in BOOLEAN : respond(f, g, b) \in Response
  /\ exceptionResponse \in Response
<1>1. \A f \in Flag, g \in FSMFlag, b \in BOOLEAN : respond(f, g, b) \in Response
  BY DEF respond, Response, Succeeded
<1>2. "EXCEPTION" \in Flag /\ "NONE" \in FSMFlag
  BY DEF Flag, FSMFlag
<1> QED
  BY <1>1, <1>2 DEF exceptionResponse

LEMMA NodeIsCaller == /\ Node \subseteq Caller /\ RestChild \subseteq Caller /\ User \subseteq Caller
                      /\ Root \in Caller
BY TreeAssumption DEF Caller

LEMMA FreeType == free \in Call /\ idle \in Worker
BY RespondType, NodeIsCaller, TreeAssumption DEF free, idle, Call, Worker, Command, Token

LEMMA RequestType ==
  ASSUME NEW to \in Node \cup RestChild, NEW cmd \in Command,
         NEW arg \in Transition \cup {NoTransition}, NEW token \in Token
  PROVE  request(to, cmd, arg, token) \in Call
BY FreeType DEF request, Call

LEMMA AnsweredType ==
  ASSUME TypeOK, NEW x \in Caller, NEW r \in Response
  PROVE  answered(x, r) \in Call
<1>1. call[x] \in Call
  BY DEF TypeOK
<1> QED
  BY <1>1 DEF answered, Call

(* A child of a controller is a caller: its parent's thread calls it. *)
LEMMA ChildIsCaller ==
  ASSUME NEW c \in Node, NEW x \in Children(c)
  PROVE  x \in Caller /\ x \in Node \cup RestChild /\ x \notin User /\ x # Root
BY TreeAssumption DEF Children, Caller

LEMMA ReturnType ==
  ASSUME TypeOK, NEW c \in Node, NEW r \in Response, Return(c, r)
  PROVE  worker' \in [Node -> Worker] /\ call' \in [Caller -> Call]
<1>1. worker' \in [Node -> Worker]
  BY FreeType DEF Return, TypeOK
<1>2. call' \in [Caller -> Call]
  BY FreeType, AnsweredType DEF Return, TypeOK
<1> QED BY <1>1, <1>2

LEMMA PropagateType ==
  ASSUME TypeOK, NEW c \in Node, NEW cmd \in Command, NEW arg \in Transition \cup {NoTransition},
         propagate_to_list(c, cmd, arg)
  PROVE  worker' \in [Node -> Worker] /\ call' \in [Caller -> Call]
<1>1. worker' \in [Node -> Worker]
  BY DEF propagate_to_list, TypeOK, Worker
<1>2. TokenOf(c) \in Token
  BY DEF TokenOf, TypeOK, Worker, Call
<1>3. call' \in [Caller -> Call]
  BY <1>2, RequestType, ChildIsCaller DEF propagate_to_list, TypeOK
<1> QED BY <1>1, <1>3
-----------------------------------------------------------------------------
(* Every step of the tree is a step of one StatefulNode or of none.        *)

LEMMA HandlerIsNodeStep ==
  ASSUME TypeOK, NEW c \in Node, HandlerStep(c)
  PROVE  [NodeNext]_nodeVars
<1>1. CASE ActorStep(c)
  BY <1>1 DEF ActorStep, TakeControl, TookControl, SurrenderControl
<1>2. CASE InclusionStep(c)
  BY <1>2 DEF InclusionStep, PropagateInclusion, Include, Exclude, NodeNext
<1>3. CASE ExecuteStep(c)
  <2>1. CASE RefuseInError(c) \/ RefuseExcluded(c) \/ CannotExecute(c)
    BY <2>1 DEF RefuseInError, RefuseExcluded, CannotExecute
  <2>2. ASSUME NEW ok \in BOOLEAN, Prepare(c, ok)
        PROVE  NodeNext
    BY <2>2 DEF Prepare, NodeNext, TransitionStep
  <2>3. ASSUME NEW ok \in BOOLEAN, Finalise(c, ok)
        PROVE  NodeNext
    <3>1. Arg(c) \in Transition
      BY <2>3 DEF Finalise, finalise_transition, TypeOK, NodeTypeOK, SubState, AfterMove, BeforeMove
    <3> QED BY <2>3, <3>1 DEF Finalise, NodeNext, TransitionStep
  <2>4. CASE Propagate(c) \/ Collect(c) \/ Start(c) \/ Terminate(c)
    <3>1. Arg(c) \in Transition
      BY <2>4 DEF Propagate, Collect, Start, Terminate, propagate_transition_mark,
                  finish_propagating_transition_mark, start_transition_mark,
                  terminate_transition_mark, Mark, TypeOK, NodeTypeOK, SubState, AfterMove, BeforeMove
    <3> QED BY <2>4, <3>1 DEF Propagate, Collect, Start, Terminate, NodeNext, TransitionStep
  <2>5. CASE Conclude(c)
    BY <2>5 DEF Conclude, NodeNext
  <2> QED BY <1>3, <2>1, <2>2, <2>3, <2>4, <2>5 DEF ExecuteStep
<1> QED BY <1>1, <1>2, <1>3 DEF HandlerStep

LEMMA StepIsNodeStep ==
  ASSUME TypeOK, [Next]_vars
  PROVE  [NodeNext]_nodeVars
<1>1. CASE \E c \in Node : HandlerStep(c)
  BY <1>1, HandlerIsNodeStep
<1>2. CASE \/ \E u \in User : UserStep(u)
           \/ \E c \in Node, x \in Caller : NotInControl(c, x) \/ Accept(c, x)
           \/ \E c \in Node : Crash(c)
           \/ \E a \in RestChild : RestStep(a)
           \/ \E x \in Caller : Unreachable(x)
           \/ UNCHANGED vars
  BY <1>2 DEF UserStep, UserSend, UserReceive, NotInControl, Accept, Crash, RestStep, RestInclusion,
              RestTakeControl, RestExecute, RestFail, RestAnswer, Unreachable, vars
<1> QED BY <1>1, <1>2 DEF Next
-----------------------------------------------------------------------------
(* Types of the variables of the tree, step by step. *)

TreeTypeOK ==
  /\ actor \in [Node -> Token]
  /\ worker \in [Node -> Worker]
  /\ call \in [Caller -> Call]
  /\ rest \in [RestChild -> RestState]
  /\ up \in [Node -> BOOLEAN]

(* What the command served by c carries. *)
LEMMA ServedTypes ==
  ASSUME TypeOK, NEW c \in Node
  PROVE  TokenOf(c) \in Token /\ Arg(c) \in Transition \cup {NoTransition}
BY DEF TypeOK, TokenOf, Arg, Worker, Call

(* The responses the handlers build. *)
LEMMA HandlerResponses ==
  \A b \in BOOLEAN :
    /\ respond("EXECUTED_SUCCESSFULLY", "NONE", b) \in Response
    /\ respond("FAILED", "NONE", b) \in Response
    /\ respond("NOT_IN_CONTROL", "NONE", b) \in Response
    /\ respond("NOT_IMPLEMENTED", "NONE", b) \in Response
    /\ respond("EXECUTED_SUCCESSFULLY", "FSM_NOT_EXECUTED_IN_ERROR", b) \in Response
    /\ respond("EXECUTED_SUCCESSFULLY", "FSM_NOT_EXECUTED_EXCLUDED", b) \in Response
    /\ respond("EXECUTED_SUCCESSFULLY", "FSM_FAILED", b) \in Response
    /\ respond("EXECUTED_SUCCESSFULLY", "FSM_EXECUTED_SUCCESSFULLY", b) \in Response
BY RespondType DEF Flag, FSMFlag

LEMMA ActorStepType ==
  ASSUME TypeOK, NEW c \in Node, ActorStep(c)
  PROVE  TreeTypeOK'
<1>1. CASE TakeControl(c)
  <2>1. worker' \in [Node -> Worker] /\ call' \in [Caller -> Call]
    BY <1>1, PropagateType DEF TakeControl, Command
  <2> QED BY <1>1, <2>1, ServedTypes DEF TakeControl, TypeOK, TreeTypeOK
<1>2. CASE TookControl(c)
  <2>1. cleanChildren(c) \in BOOLEAN
    BY DEF cleanChildren
  <2>2. worker' \in [Node -> Worker] /\ call' \in [Caller -> Call]
    BY <1>2, <2>1, ReturnType, HandlerResponses DEF TookControl
  <2> QED BY <1>2, <2>2 DEF TookControl, TypeOK, TreeTypeOK
<1>3. CASE SurrenderControl(c)
  <2>1. worker' \in [Node -> Worker] /\ call' \in [Caller -> Call]
    BY <1>3, ReturnType, HandlerResponses DEF SurrenderControl
  <2> QED BY <1>3, <2>1 DEF SurrenderControl, TypeOK, TreeTypeOK, Token
<1> QED BY <1>1, <1>2, <1>3 DEF ActorStep

LEMMA InclusionStepType ==
  ASSUME TypeOK, NEW c \in Node, InclusionStep(c)
  PROVE  TreeTypeOK'
<1>1. ASSUME NEW cmd \in {"include", "exclude"}, PropagateInclusion(c, cmd)
      PROVE  TreeTypeOK'
  <2>1. worker' \in [Node -> Worker] /\ call' \in [Caller -> Call]
    BY <1>1, PropagateType DEF PropagateInclusion, Command
  <2> QED BY <1>1, <2>1 DEF PropagateInclusion, TypeOK, TreeTypeOK
<1>2. CASE Include(c) \/ Exclude(c)
  <2>1. cleanChildren(c) \in BOOLEAN
    BY DEF cleanChildren
  <2>2. worker' \in [Node -> Worker] /\ call' \in [Caller -> Call]
    BY <1>2, <2>1, ReturnType, HandlerResponses, RespondType DEF Include, Exclude
  <2> QED BY <1>2, <2>2 DEF Include, Exclude, TypeOK, TreeTypeOK
<1> QED BY <1>1, <1>2 DEF InclusionStep

LEMMA ExecuteStepType ==
  ASSUME TypeOK, NEW c \in Node, ExecuteStep(c)
  PROVE  TreeTypeOK'
<1>1. CASE RefuseInError(c) \/ RefuseExcluded(c) \/ CannotExecute(c)
  <2>1. worker' \in [Node -> Worker] /\ call' \in [Caller -> Call]
    BY <1>1, ReturnType, HandlerResponses, RespondType DEF RefuseInError, RefuseExcluded, CannotExecute
  <2> QED BY <1>1, <2>1 DEF RefuseInError, RefuseExcluded, CannotExecute, TypeOK, TreeTypeOK
<1>2. ASSUME NEW ok \in BOOLEAN, Prepare(c, ok) \/ Finalise(c, ok)
      PROVE  TreeTypeOK'
  <2>1. worker' \in [Node -> Worker] /\ call' \in [Caller -> Call]
    <3>1. CASE ok
      <4>1. worker' \in {[worker EXCEPT ![c].pc = "prepared"], [worker EXCEPT ![c].pc = "finalised"]}
        BY <1>2, <3>1 DEF Prepare, Finalise
      <4>2. call' = call
        BY <1>2, <3>1 DEF Prepare, Finalise
      <4> QED BY <4>1, <4>2 DEF TypeOK, Worker
    <3>2. CASE ~ok
      BY <1>2, <3>2, ReturnType, RespondType DEF Prepare, Finalise
    <3> QED BY <3>1, <3>2
  <2> QED BY <1>2, <2>1 DEF Prepare, Finalise, TypeOK, TreeTypeOK
<1>3. CASE Propagate(c)
  <2>1. worker' \in [Node -> Worker] /\ call' \in [Caller -> Call]
    BY <1>3, PropagateType, ServedTypes DEF Propagate, Command
  <2> QED BY <1>3, <2>1 DEF Propagate, TypeOK, TreeTypeOK
<1>4. CASE Collect(c)
  <2>1. worker' \in [Node -> Worker]
    <3>1. ChildFailed(c) \in BOOLEAN /\ cleanChildren(c) \in BOOLEAN
      BY DEF ChildFailed, cleanChildren
    <3> QED BY <1>4, <3>1 DEF Collect, TypeOK, Worker
  <2>2. call' \in [Caller -> Call]
    BY <1>4, FreeType DEF Collect, TypeOK
  <2> QED BY <1>4, <2>1, <2>2 DEF Collect, TypeOK, TreeTypeOK
<1>5. CASE Start(c) \/ Terminate(c)
  BY <1>5 DEF Start, Terminate, TypeOK, TreeTypeOK
<1>6. CASE Conclude(c)
  <2>1. worker[c].cleanChildren \in BOOLEAN
    BY DEF TypeOK, Worker
  <2>2. worker' \in [Node -> Worker] /\ call' \in [Caller -> Call]
    BY <1>6, <2>1, ReturnType, HandlerResponses DEF Conclude
  <2> QED BY <1>6, <2>2 DEF Conclude, TypeOK, TreeTypeOK
<1> QED BY <1>1, <1>2, <1>3, <1>4, <1>5, <1>6 DEF ExecuteStep

(* A command is passed to a child for execution only after the parent has  *)
(* found the transition in its own machine.                                *)
ChildrenGetTransitions ==
  \A x \in DOMAIN parent :
    call[x].status = "sent" /\ call[x].cmd = "execute_fsm_command" => call[x].arg \in Transition

LEMMA RestStepType ==
  ASSUME TypeOK, ChildrenGetTransitions, NEW a \in RestChild, RestStep(a)
  PROVE  TreeTypeOK'
<1>1. ASSUME NEW new \in RestState, NEW r \in Response, RestAnswer(a, new, r)
      PROVE  TreeTypeOK'
  BY <1>1, AnsweredType, NodeIsCaller DEF RestAnswer, TypeOK, TreeTypeOK
<1>2. rest[a] \in RestState
  BY DEF TypeOK
<1>3. CASE RestInclusion(a) \/ RestTakeControl(a)
  <2>1. \A b \in BOOLEAN : [rest[a] EXCEPT !.included = b] \in RestState
    BY <1>2 DEF RestState
  <2> QED
    BY <1>1, <1>2, <1>3, <2>1, HandlerResponses, RespondType
    DEF RestInclusion, RestTakeControl
<1>4. CASE RestExecute(a)
  <2>1. call[a].arg \in Transition
    BY <1>4, TreeAssumption DEF ChildrenGetTransitions, RestExecute, Sent
  <2>2. get_destination_state(rest[a].state, call[a].arg) \in State
    BY <1>2, <2>1, DestinationIsState DEF RestState
  <2>3. [rest[a] EXCEPT !.state = get_destination_state(@, call[a].arg), !.executing = FALSE]
          \in RestState
    BY <1>2, <2>2 DEF RestState
  <2> QED BY <1>1, <1>4, <2>3, HandlerResponses DEF RestExecute
<1>5. ASSUME NEW r \in Response, RestFail(a, r)
      PROVE  TreeTypeOK'
  <2>1. [rest[a] EXCEPT !.errored = TRUE, !.executing = TRUE] \in RestState
    BY <1>2 DEF RestState
  <2> QED BY <1>1, <1>5, <2>1 DEF RestFail
<1> QED BY <1>3, <1>4, <1>5, HandlerResponses, RespondType DEF RestStep

(* The steps that are no part of a handler: users, the server, a crash. *)
LEMMA OtherStepType ==
  ASSUME TypeOK,
         \/ \E u \in User : UserStep(u)
         \/ \E c \in Node, x \in Caller : NotInControl(c, x) \/ Accept(c, x)
         \/ \E c \in Node : Crash(c)
         \/ \E x \in Caller : Unreachable(x)
  PROVE  TreeTypeOK'
<1>1. ASSUME NEW u \in User, UserStep(u)
      PROVE  TreeTypeOK'
  <2>1. CASE UserReceive(u)
    BY <2>1, FreeType DEF UserReceive, TypeOK, TreeTypeOK
  <2>2. ASSUME NEW c \in Entry[u], NEW cmd \in Issued[u], NEW arg \in Transition \cup {NoTransition},
               UserSend(u, c, cmd, arg)
        PROVE  TreeTypeOK'
    <3>1. request(c, cmd, arg, u) \in Call
      BY TreeAssumption, RequestType DEF Token
    <3> QED BY <2>2, <3>1 DEF UserSend, TypeOK, TreeTypeOK
  <2> QED BY <1>1, <2>1, <2>2 DEF UserStep
<1>2. ASSUME NEW c \in Node, NEW x \in Caller, NotInControl(c, x)
      PROVE  TreeTypeOK'
  BY <1>2, AnsweredType, HandlerResponses DEF NotInControl, TypeOK, TreeTypeOK
<1>3. ASSUME NEW c \in Node, NEW x \in Caller, Accept(c, x)
      PROVE  TreeTypeOK'
  <2>1. worker' \in [Node -> Worker]
    <3>1. [idle EXCEPT !.pc = "begin", !.caller = x] \in Worker
      BY FreeType DEF Worker
    <3> QED BY <1>3, <3>1 DEF Accept, TypeOK
  <2>2. call' \in [Caller -> Call]
    BY <1>3 DEF Accept, TypeOK, Call
  <2> QED BY <1>3, <2>1, <2>2 DEF Accept, TypeOK, TreeTypeOK
<1>4. ASSUME NEW c \in Node, Crash(c)
      PROVE  TreeTypeOK'
  BY <1>4, FreeType DEF Crash, TypeOK, TreeTypeOK
<1>5. ASSUME NEW x \in Caller, Unreachable(x)
      PROVE  TreeTypeOK'
  BY <1>5, AnsweredType, RespondType DEF Unreachable, TypeOK, TreeTypeOK
<1> QED BY <1>1, <1>2, <1>3, <1>4, <1>5
-----------------------------------------------------------------------------
(* The discipline of calls.  It is what makes the thread of a handler and  *)
(* the command it serves belong together: a child's line is used for that  *)
(* child only, only by its parent, and only while the parent waits.        *)

Routed ==
  \A x \in Caller :
    /\ x \in DOMAIN parent /\ call[x].status # "free" => call[x].to = x
    /\ call[x].status = "served" => call[x].to \in Node

LinesFreeUnlessWaiting ==
  \A c \in Node : up[c] /\ worker[c].pc # "wait" => \A x \in Children(c) : call[x].status = "free"

WorkersAlive == \A c \in Node : worker[c].pc # "idle" => up[c]

CallInv ==
  /\ Routed
  /\ LinesFreeUnlessWaiting
  /\ WorkersAlive
  /\ ServedIsWorkedOn
  /\ ChildrenGetTransitions

(* The caller a worker serves is no child of that worker's controller. *)
LEMMA CallerIsNoChild ==
  ASSUME TypeOK, CallInv, NEW c \in Node, worker[c].pc # "idle",
         worker[c].pc = "wait" => Joined(c)
  PROVE  /\ worker[c].caller \in Caller
         /\ worker[c].caller \notin Children(c)
         /\ call[worker[c].caller].status = "served"
         /\ call[worker[c].caller].to = c
<1>1. worker[c].caller \in Caller
  BY DEF TypeOK, Worker
<1>2. call[worker[c].caller].status = "served" /\ call[worker[c].caller].to = c
  BY <1>1 DEF CallInv, ServedIsWorkedOn
<1>3. worker[c].caller \notin Children(c)
  BY <1>2 DEF CallInv, LinesFreeUnlessWaiting, WorkersAlive, Joined
<1> QED BY <1>1, <1>2, <1>3

LEMMA ReturnKeepsCalls ==
  ASSUME TypeOK, CallInv, NEW c \in Node, worker[c].pc # "idle",
         worker[c].pc = "wait" => Joined(c),
         NEW r, Return(c, r), up' = up
  PROVE  CallInv'
<1> DEFINE y == worker[c].caller
<1>1. /\ y \in Caller /\ y \notin Children(c)
      /\ call[y].status = "served" /\ call[y].to = c
  BY CallerIsNoChild
<1>2. /\ call'[y] = answered(y, r)
      /\ \A x \in Children(c) : call'[x] = free
      /\ \A x \in Caller : x # y /\ x \notin Children(c) => call'[x] = call[x]
  BY <1>1, ChildIsCaller DEF Return
<1>3. /\ call'[y].status = "answered" /\ call'[y].to = c
      /\ call[y] \in Call
  <2>1. call[y] \in Call
    BY <1>1 DEF TypeOK
  <2> QED BY <1>1, <1>2, <2>1 DEF answered, Call
<1>4. free.status = "free"
  BY DEF free
<1>5. worker'[c] = idle /\ \A d \in Node : d # c => worker'[d] = worker[d]
  BY DEF Return, TypeOK
<1>6. idle.pc = "idle"
  BY DEF idle
<1> HIDE DEF y
<1>7. \A x \in Children(c) : call[x].status \in {"free", "answered"}
  BY DEF CallInv, LinesFreeUnlessWaiting, WorkersAlive, Joined
<1>8. Routed'
  BY <1>1, <1>2, <1>3, <1>4 DEF CallInv, Routed
<1>9. LinesFreeUnlessWaiting'
  <2>1. ASSUME NEW d \in Node, up[d], worker'[d].pc # "wait", NEW x \in Children(d)
        PROVE  call'[x].status = "free"
    <3>1. CASE d = c
      BY <2>1, <3>1, <1>2, <1>4
    <3>2. CASE d # c
      <4>1. call[x].status = "free" /\ x \in Caller
        BY <2>1, <3>2, <1>5, ChildIsCaller DEF CallInv, LinesFreeUnlessWaiting
      <4> QED BY <4>1, <1>1, <1>2, <1>4
    <3> QED BY <3>1, <3>2
  <2> QED BY <2>1 DEF LinesFreeUnlessWaiting, Children
<1>10. WorkersAlive'
  BY <1>5, <1>6 DEF CallInv, WorkersAlive
<1>11. ServedIsWorkedOn'
  <2>1. ASSUME NEW x \in Caller, call'[x].status = "served"
        PROVE  x # y /\ call'[x] = call[x] /\ call[x].to # c
    <3>1. x # y /\ call'[x] = call[x]
      BY <2>1, <1>2, <1>3, <1>4
    <3>2. call[x].to # c
      BY <2>1, <3>1 DEF CallInv, ServedIsWorkedOn, WorkersAlive, y
    <3> QED BY <3>1, <3>2
  <2>2. ASSUME NEW d \in Node, worker'[d].pc # "idle"
        PROVE  /\ d # c /\ worker'[d] = worker[d]
               /\ call'[worker[d].caller] = call[worker[d].caller]
    <3>1. d # c /\ worker'[d] = worker[d]
      BY <2>2, <1>5, <1>6
    <3>2. /\ worker[d].caller \in Caller /\ call[worker[d].caller].status = "served"
          /\ call[worker[d].caller].to = d
      BY <2>2, <3>1 DEF CallInv, ServedIsWorkedOn, TypeOK, Worker
    <3> QED BY <3>1, <3>2, <1>1, <1>2, <1>7
  <2>3. \A x \in Caller : call[x].status = "served" => call[x].to \in Node
    BY DEF CallInv, Routed
  <2> QED BY <2>1, <2>2, <2>3, <1>5 DEF CallInv, ServedIsWorkedOn
<1>12. ChildrenGetTransitions'
  BY <1>2, <1>3, <1>4, TreeAssumption DEF CallInv, ChildrenGetTransitions, Caller
<1> QED BY <1>8, <1>9, <1>10, <1>11, <1>12 DEF CallInv

LEMMA PropagateKeepsCalls ==
  ASSUME TypeOK, CallInv, NEW c \in Node, worker[c].pc \notin {"idle", "wait"},
         NEW cmd \in Command, NEW arg \in Transition \cup {NoTransition},
         cmd = "execute_fsm_command" => arg \in Transition,
         propagate_to_list(c, cmd, arg), up' = up
  PROVE  CallInv'
<1> DEFINE y == worker[c].caller
           sent(x) == request(x, cmd, arg, TokenOf(c))
<1>1. /\ y \in Caller /\ y \notin Children(c)
      /\ call[y].status = "served" /\ call[y].to = c
  BY CallerIsNoChild
<1>2. /\ \A x \in Children(c) : call'[x] = sent(x)
      /\ \A x \in Caller : x \notin Children(c) => call'[x] = call[x]
  BY ChildIsCaller DEF propagate_to_list
<1>3. \A x \in Children(c) : /\ sent(x).status = "sent" /\ sent(x).to = x
                             /\ sent(x).cmd = cmd /\ sent(x).arg = arg
  BY DEF request, free
<1>4. /\ worker'[c].pc = "wait" /\ worker'[c].caller = y
      /\ \A d \in Node : d # c => worker'[d] = worker[d]
  BY DEF propagate_to_list, TypeOK, Worker
<1> HIDE DEF y, sent
<1>5. \A x \in Children(c) : call[x].status = "free"
  BY DEF CallInv, LinesFreeUnlessWaiting, WorkersAlive
<1>6. Routed'
  BY <1>2, <1>3 DEF CallInv, Routed
<1>7. LinesFreeUnlessWaiting'
  <2>1. ASSUME NEW d \in Node, up[d], worker'[d].pc # "wait", NEW x \in Children(d)
        PROVE  call'[x].status = "free"
    <3>1. d # c /\ worker'[d] = worker[d]
      BY <2>1, <1>4
    <3>2. x \in Caller /\ x \notin Children(c) /\ call[x].status = "free"
      BY <2>1, <3>1, ChildIsCaller DEF CallInv, LinesFreeUnlessWaiting, Children
    <3> QED BY <3>2, <1>2
  <2> QED BY <2>1 DEF LinesFreeUnlessWaiting, Children
<1>8. WorkersAlive'
  BY <1>4 DEF CallInv, WorkersAlive
<1>9. ServedIsWorkedOn'
  <2>1. \A d \in Node : /\ worker'[d].caller = worker[d].caller
                        /\ worker'[d].pc = "idle" <=> worker[d].pc = "idle"
    BY <1>4 DEF y
  <2>2. ASSUME NEW x \in Caller, call'[x].status = "served"
        PROVE  call'[x] = call[x]
    BY <2>2, <1>2, <1>3
  <2>3. ASSUME NEW d \in Node, worker[d].pc # "idle"
        PROVE  /\ call'[worker[d].caller] = call[worker[d].caller]
               /\ call[worker[d].caller].status = "served"
    <3>1. worker[d].caller \in Caller /\ call[worker[d].caller].status = "served"
      BY <2>3 DEF CallInv, ServedIsWorkedOn, TypeOK, Worker
    <3> QED BY <3>1, <1>2, <1>5
  <2>4. \A x \in Caller : call[x].status = "served" => call[x].to \in Node
    BY DEF CallInv, Routed
  <2> QED BY <2>1, <2>2, <2>3, <2>4 DEF CallInv, ServedIsWorkedOn
<1>10. ChildrenGetTransitions'
  BY <1>2, <1>3, TreeAssumption DEF CallInv, ChildrenGetTransitions, Caller
<1> QED BY <1>6, <1>7, <1>8, <1>9, <1>10 DEF CallInv

(* The worker goes on to a step at which its children's lines are free:    *)
(* they are so already, or it has just joined the threads.                 *)
LEMMA AdvanceKeepsCalls ==
  ASSUME TypeOK, CallInv, NEW c \in Node, worker[c].pc # "idle",
         worker[c].pc = "wait" => Joined(c),
         worker'[c].pc \notin {"idle", "wait"}, worker'[c].caller = worker[c].caller,
         \A d \in Node : d # c => worker'[d] = worker[d],
         \A x \in Children(c) : call'[x].status = "free",
         \A x \in Caller : x \notin Children(c) => call'[x] = call[x],
         up' = up
  PROVE  CallInv'
<1>1. \A x \in Children(c) : call[x].status \in {"free", "answered"}
  BY DEF CallInv, LinesFreeUnlessWaiting, WorkersAlive, Joined
<1>2. Routed'
  BY DEF CallInv, Routed
<1>3. LinesFreeUnlessWaiting'
  BY ChildIsCaller DEF CallInv, LinesFreeUnlessWaiting, Children
<1>4. WorkersAlive'
  BY DEF CallInv, WorkersAlive
<1>5. ServedIsWorkedOn'
  <2>1. ASSUME NEW x \in Caller
        PROVE  call[x].status = "served" \/ call'[x].status = "served" => call'[x] = call[x]
    BY <1>1
  <2>2. \A x \in Caller : call[x].status = "served" => call[x].to \in Node
    BY DEF CallInv, Routed
  <2>3. \A d \in Node : worker[d].caller \in Caller
    BY DEF TypeOK, Worker
  <2> QED BY <2>1, <2>2, <2>3 DEF CallInv, ServedIsWorkedOn
<1>6. ChildrenGetTransitions'
  BY TreeAssumption DEF CallInv, ChildrenGetTransitions, Caller
<1> QED BY <1>2, <1>3, <1>4, <1>5, <1>6 DEF CallInv

(* A call that no worker serves may go from one status to another, as long *)
(* as it stays where it was going and is not served by magic.              *)
LEMMA LineKeepsCalls ==
  ASSUME TypeOK, CallInv, NEW x \in Caller,
         UNCHANGED <<worker, up>>,
         \A z \in Caller : z # x => call'[z] = call[z],
         call[x].status = "served" => ~up[call[x].to],
         call'[x].status # "served",
         x \in DOMAIN parent => /\ call[x].status # "free"
                               /\ call'[x].to = call[x].to
                               /\ call'[x].status # "sent"
  PROVE  CallInv'
<1>1. Routed'
  BY DEF CallInv, Routed
<1>2. LinesFreeUnlessWaiting'
  <2>1. ASSUME NEW d \in Node, up[d], worker[d].pc # "wait", NEW z \in Children(d)
        PROVE  call'[z].status = "free"
    BY <2>1, ChildIsCaller DEF CallInv, LinesFreeUnlessWaiting, Children
  <2> QED BY <2>1 DEF LinesFreeUnlessWaiting, Children
<1>3. WorkersAlive'
  BY DEF CallInv, WorkersAlive
<1>4. ServedIsWorkedOn'
  <2>1. ASSUME NEW d \in Node, worker[d].pc # "idle"
        PROVE  worker[d].caller \in Caller /\ worker[d].caller # x
    BY <2>1 DEF CallInv, ServedIsWorkedOn, WorkersAlive, TypeOK, Worker
  <2> QED BY <2>1 DEF CallInv, ServedIsWorkedOn
<1>5. ChildrenGetTransitions'
  BY TreeAssumption DEF CallInv, ChildrenGetTransitions, Caller
<1> QED BY <1>1, <1>2, <1>3, <1>4, <1>5 DEF CallInv

LEMMA HandlerKeepsCalls ==
  ASSUME TypeOK, CallInv, NEW c \in Node, HandlerStep(c)
  PROVE  CallInv'
<1>1. CASE \/ TookControl(c) \/ SurrenderControl(c)
           \/ Include(c) \/ Exclude(c)
           \/ RefuseInError(c) \/ RefuseExcluded(c) \/ CannotExecute(c) \/ Conclude(c)
           \/ \E ok \in BOOLEAN : ~ok /\ (Prepare(c, ok) \/ Finalise(c, ok))
  <2>1. PICK r : Return(c, r)
    BY <1>1 DEF TookControl, SurrenderControl, Include, Exclude, RefuseInError, RefuseExcluded,
                CannotExecute, Conclude, Prepare, Finalise
  <2>2. worker[c].pc # "idle" /\ (worker[c].pc = "wait" => Joined(c)) /\ up' = up
    BY <1>1 DEF TookControl, SurrenderControl, Include, Exclude, RefuseInError, RefuseExcluded,
                CannotExecute, Conclude, Prepare, Finalise, Executing, At
  <2> QED BY <2>1, <2>2, ReturnKeepsCalls
<1>2. CASE TakeControl(c) \/ PropagateInclusion(c, "include") \/ PropagateInclusion(c, "exclude")
  <2>1. PICK cmd \in {"take_control", "include", "exclude"} : propagate_to_list(c, cmd, NoTransition)
    BY <1>2 DEF TakeControl, PropagateInclusion
  <2>2. worker[c].pc = "begin" /\ up' = up
    BY <1>2 DEF TakeControl, PropagateInclusion, At
  <2> QED BY <2>1, <2>2, PropagateKeepsCalls DEF Command
<1>3. CASE Propagate(c)
  <2>1. worker[c].pc = "prepared" /\ up' = up
    BY <1>3 DEF Propagate, Executing, At
  <2>2. Arg(c) \in Transition
    BY <1>3 DEF Propagate, propagate_transition_mark, Mark, TypeOK, NodeTypeOK, SubState, AfterMove,
                BeforeMove
  <2> QED BY <1>3, <2>1, <2>2, PropagateKeepsCalls DEF Propagate, Command
<1>4. CASE Collect(c) \/ Start(c) \/ Terminate(c)
           \/ \E ok \in BOOLEAN : ok /\ (Prepare(c, ok) \/ Finalise(c, ok))
  <2>1. /\ worker[c].pc # "idle" /\ (worker[c].pc = "wait" => Joined(c)) /\ up' = up
        /\ up[c]
        /\ Collect(c) \/ worker[c].pc # "wait"
    BY <1>4 DEF Collect, Start, Terminate, Prepare, Finalise, Executing, At
  <2>2. worker[c] \in Worker
    BY DEF TypeOK
  <2>3. /\ worker'[c].pc \notin {"idle", "wait"} /\ worker'[c].caller = worker[c].caller
        /\ \A d \in Node : d # c => worker'[d] = worker[d]
    <3>1. CASE Collect(c)
      BY <3>1, <2>2 DEF Collect, TypeOK, Worker
    <3>2. CASE Start(c) \/ Terminate(c)
      BY <3>2 DEF Start, Terminate, Executing, At
    <3>3. CASE \E ok \in BOOLEAN : ok /\ (Prepare(c, ok) \/ Finalise(c, ok))
      <4>1. \/ worker' = [worker EXCEPT ![c].pc = "prepared"]
            \/ worker' = [worker EXCEPT ![c].pc = "finalised"]
        BY <3>3 DEF Prepare, Finalise
      <4> QED BY <4>1, <2>2 DEF TypeOK, Worker
    <3> QED BY <1>4, <3>1, <3>2, <3>3
  <2>4. /\ \A x \in Children(c) : call'[x].status = "free"
        /\ \A x \in Caller : x \notin Children(c) => call'[x] = call[x]
    <3>1. CASE Collect(c)
      BY <3>1, ChildIsCaller DEF Collect, free
    <3>2. CASE ~Collect(c)
      <4>1. call' = call
        BY <1>4, <3>2 DEF Start, Terminate, Prepare, Finalise
      <4>2. \A x \in Children(c) : call[x].status = "free"
        BY <2>1, <3>2 DEF CallInv, LinesFreeUnlessWaiting
      <4> QED BY <4>1, <4>2
    <3> QED BY <3>1, <3>2
  <2> QED BY <2>1, <2>3, <2>4, AdvanceKeepsCalls
<1> QED
  BY <1>1, <1>2, <1>3, <1>4 DEF HandlerStep, ActorStep, InclusionStep, ExecuteStep

LEMMA AcceptKeepsCalls ==
  ASSUME TypeOK, CallInv, NEW c \in Node, NEW x \in Caller, Accept(c, x)
  PROVE  CallInv'
<1>1. /\ up[c] /\ worker[c].pc = "idle" /\ call[x].status = "sent" /\ call[x].to = c
      /\ up' = up /\ call[x] \in Call
  BY DEF Accept, Pending, TypeOK
<1>2. /\ worker'[c].pc = "begin" /\ worker'[c].caller = x
      /\ \A d \in Node : d # c => worker'[d] = worker[d]
  BY DEF Accept, TypeOK, idle
<1>3. /\ call'[x].status = "served" /\ call'[x].to = c
      /\ \A z \in Caller : z # x => call'[z] = call[z]
  BY <1>1 DEF Accept, TypeOK, Call
<1>4. Routed'
  BY <1>1, <1>3 DEF CallInv, Routed
<1>5. LinesFreeUnlessWaiting'
  <2>1. ASSUME NEW d \in Node, up[d], worker'[d].pc # "wait", NEW z \in Children(d)
        PROVE  call'[z].status = "free"
    <3>1. call[z].status = "free" /\ z \in Caller
      BY <2>1, <1>1, <1>2, ChildIsCaller DEF CallInv, LinesFreeUnlessWaiting
    <3> QED BY <3>1, <1>1, <1>3
  <2> QED BY <1>1, <2>1 DEF LinesFreeUnlessWaiting, Children
<1>6. WorkersAlive'
  BY <1>1, <1>2 DEF CallInv, WorkersAlive
<1>7. ServedIsWorkedOn'
  <2>1. ASSUME NEW d \in Node, d # c, worker[d].pc # "idle"
        PROVE  worker[d].caller \in Caller /\ worker[d].caller # x
    BY <2>1, <1>1 DEF CallInv, ServedIsWorkedOn, TypeOK, Worker
  <2>2. ASSUME NEW z \in Caller, z # x, call[z].status = "served", up[call[z].to]
        PROVE  call[z].to # c
    BY <2>2, <1>1 DEF CallInv, ServedIsWorkedOn
  <2>3. \A z \in Caller : call[z].status = "served" => call[z].to \in Node
    BY DEF CallInv, Routed
  <2> QED BY <1>1, <1>2, <1>3, <2>1, <2>2, <2>3 DEF CallInv, ServedIsWorkedOn
<1>8. ChildrenGetTransitions'
  BY <1>1, <1>3, TreeAssumption DEF CallInv, ChildrenGetTransitions, Caller
<1> QED BY <1>4, <1>5, <1>6, <1>7, <1>8 DEF CallInv

LEMMA CrashKeepsCalls ==
  ASSUME TypeOK, CallInv, NEW c \in Node, Crash(c)
  PROVE  CallInv'
<1>1. /\ up'[c] = FALSE /\ \A d \in Node : d # c => up'[d] = up[d]
      /\ worker'[c].pc = "idle" /\ \A d \in Node : d # c => worker'[d] = worker[d]
  BY DEF Crash, TypeOK, idle
<1>2. /\ \A x \in Children(c) \cap RestChild : call'[x].status = "free"
      /\ \A x \in Caller : x \notin Children(c) \cap RestChild => call'[x] = call[x]
  BY ChildIsCaller DEF Crash, free
<1>3. \A x \in RestChild : x \in Caller /\ call[x].status # "served"
  BY TreeAssumption DEF CallInv, Routed, Caller
<1>4. Routed'
  BY <1>2 DEF CallInv, Routed
<1>5. LinesFreeUnlessWaiting'
  BY <1>1, <1>2, ChildIsCaller DEF CallInv, LinesFreeUnlessWaiting, Children
<1>6. WorkersAlive'
  BY <1>1 DEF CallInv, WorkersAlive
<1>7. ServedIsWorkedOn'
  <2>1. ASSUME NEW x \in Caller
        PROVE  call[x].status = "served" \/ call'[x].status = "served" => call'[x] = call[x]
    BY <1>2, <1>3
  <2>2. \A z \in Caller : call[z].status = "served" => call[z].to \in Node
    BY DEF CallInv, Routed
  <2>3. \A d \in Node : worker[d].caller \in Caller
    BY DEF TypeOK, Worker
  <2> QED BY <1>1, <2>1, <2>2, <2>3 DEF CallInv, ServedIsWorkedOn
<1>8. ChildrenGetTransitions'
  BY <1>2, TreeAssumption DEF CallInv, ChildrenGetTransitions, Caller
<1> QED BY <1>4, <1>5, <1>6, <1>7, <1>8 DEF CallInv

LEMMA LineStepKeepsCalls ==
  ASSUME TypeOK, CallInv,
         \/ \E u \in User : UserStep(u)
         \/ \E c \in Node, x \in Caller : NotInControl(c, x)
         \/ \E a \in RestChild : RestStep(a)
         \/ \E x \in Caller : Unreachable(x)
  PROVE  CallInv'
<1>1. ASSUME NEW u \in User, UserStep(u)
      PROVE  CallInv'
  <2>1. u \in Caller /\ u \notin DOMAIN parent
    BY TreeAssumption DEF Caller
  <2>2. /\ call'[u].status # "served"
        /\ \A z \in Caller : z # u => call'[z] = call[z]
    <3>1. CASE UserReceive(u)
      BY <2>1, <3>1 DEF UserReceive, free, TypeOK
    <3>2. ASSUME NEW c, NEW cmd, NEW arg, UserSend(u, c, cmd, arg)
          PROVE  /\ call'[u].status # "served"
                 /\ \A z \in Caller : z # u => call'[z] = call[z]
      BY <2>1, <3>2 DEF UserSend, request, free, TypeOK
    <3> QED BY <1>1, <3>1, <3>2 DEF UserStep
  <2>3. UNCHANGED <<worker, up>> /\ call[u].status # "served"
    BY <1>1 DEF UserStep, UserSend, UserReceive
  <2> QED BY <2>1, <2>2, <2>3, LineKeepsCalls
<1>2. ASSUME NEW x \in Caller, NEW r, call' = [call EXCEPT ![x] = answered(x, r)],
             UNCHANGED <<worker, up>>,
             \/ call[x].status = "sent"
             \/ call[x].status = "served" /\ ~up[call[x].to]
      PROVE  CallInv'
  <2>1. call'[x].status = "answered" /\ call'[x].to = call[x].to
    <3>1. call[x] \in Call
      BY DEF TypeOK
    <3> QED BY <1>2, <3>1 DEF answered, Call, TypeOK
  <2> QED BY <1>2, <2>1, LineKeepsCalls DEF TypeOK
<1>3. ASSUME NEW a \in RestChild, RestStep(a)
      PROVE  CallInv'
  <2>1. PICK new, r : RestAnswer(a, new, r)
    BY <1>3 DEF RestStep, RestInclusion, RestTakeControl, RestExecute, RestFail
  <2>2. call[a].status = "sent"
    BY <1>3 DEF RestStep, RestInclusion, RestTakeControl, RestExecute, RestFail, Sent
  <2> QED BY <1>2, <2>1, <2>2, NodeIsCaller DEF RestAnswer
<1> QED BY <1>1, <1>2, <1>3 DEF NotInControl, Pending, Unreachable
-----------------------------------------------------------------------------
(* Types and the discipline of calls hold together: the arguments passed   *)
(* to the children are typed because of the discipline.                    *)

TreeInv == TypeOK /\ SubStateAgrees /\ CallInv

LEMMA TreeInvInit == Init => TreeInv
<1> SUFFICES ASSUME Init PROVE TreeInv
  OBVIOUS
<1>1. NodeTypeOK /\ SubStateAgrees
  BY NodeInitInv DEF Init, NodeInv
<1>2. TypeOK
  BY <1>1, FreeType, FSMAssumption, ClientAssumption DEF Init, TypeOK, Token, RestState
<1>3. \A x \in Caller : call[x].status = "free"
  BY DEF Init, free
<1>4. \A c \in Node : worker[c].pc = "idle"
  BY DEF Init, idle
<1>5. Routed /\ WorkersAlive /\ ServedIsWorkedOn
  BY <1>3, <1>4 DEF Routed, WorkersAlive, ServedIsWorkedOn
<1>6. LinesFreeUnlessWaiting /\ ChildrenGetTransitions
  BY <1>3, ChildIsCaller, TreeAssumption DEF LinesFreeUnlessWaiting, ChildrenGetTransitions, Caller
<1> QED BY <1>1, <1>2, <1>5, <1>6 DEF TreeInv, CallInv

LEMMA TreeInvStep ==
  ASSUME TreeInv, [Next]_vars
  PROVE  TreeInv'
<1>1. NodeTypeOK' /\ SubStateAgrees'
  BY StepIsNodeStep, NodeStepInv DEF TreeInv, TypeOK, NodeInv
<1>2. TreeTypeOK'
  <2>1. ASSUME NEW c \in Node, HandlerStep(c)
        PROVE  TreeTypeOK'
    BY <2>1, ActorStepType, InclusionStepType, ExecuteStepType DEF HandlerStep, TreeInv
  <2>2. ASSUME NEW a \in RestChild, RestStep(a)
        PROVE  TreeTypeOK'
    BY <2>2, RestStepType DEF TreeInv, CallInv
  <2>3. CASE UNCHANGED vars
    BY <2>3 DEF vars, TreeInv, TypeOK, TreeTypeOK
  <2> QED BY <2>1, <2>2, <2>3, OtherStepType DEF Next, TreeInv
<1>3. CallInv'
  <2>1. ASSUME NEW c \in Node, HandlerStep(c)
        PROVE  CallInv'
    BY <2>1, HandlerKeepsCalls DEF TreeInv
  <2>2. ASSUME NEW c \in Node, Crash(c) \/ \E x \in Caller : Accept(c, x)
        PROVE  CallInv'
    BY <2>2, CrashKeepsCalls, AcceptKeepsCalls DEF TreeInv
  <2>3. CASE UNCHANGED vars
    BY <2>3 DEF vars, TreeInv, CallInv, Routed, LinesFreeUnlessWaiting, WorkersAlive,
                ServedIsWorkedOn, ChildrenGetTransitions
  <2> QED BY <2>1, <2>2, <2>3, LineStepKeepsCalls DEF Next, TreeInv
<1> QED BY <1>1, <1>2, <1>3 DEF TreeInv, TypeOK, TreeTypeOK

(* The variables of the tree keep their types.                             *)
THEOREM TypeCorrect == Spec => []TypeOK
BY TreeInvInit, TreeInvStep, PTL DEF Spec, TreeInv

(* No command that a controller accepted is forgotten or served twice      *)
(* while its process lives.                                                *)
THEOREM AcceptedCommandsAreServed == Spec => []ServedIsWorkedOn
BY TreeInvInit, TreeInvStep, PTL DEF Spec, TreeInv, CallInv

-----------------------------------------------------------------------------
(* What a step does to the command a worker serves: nothing, until it is   *)
(* answered.                                                               *)

LEMMA HandlerEffect ==
  ASSUME TypeOK, NEW c \in Node, HandlerStep(c)
  PROVE  /\ up[c] /\ worker[c].pc # "idle"
         /\ \A d \in Node : d # c => worker'[d] = worker[d]
         /\ worker'[c].pc # "idle" => worker'[c].caller = worker[c].caller
         /\ \A x \in Caller : call'[x] = call[x] \/ call'[x].status # "served"
<1>1. up[c] /\ worker[c].pc # "idle"
  BY DEF HandlerStep, ActorStep, InclusionStep, ExecuteStep, TakeControl, TookControl,
         SurrenderControl, PropagateInclusion, Include, Exclude, RefuseInError, RefuseExcluded,
         CannotExecute, Prepare, Propagate, Collect, Start, Terminate, Finalise, Conclude,
         Executing, At
<1>2. ASSUME NEW r, Return(c, r)
      PROVE  /\ worker'[c].pc = "idle"
             /\ \A d \in Node : d # c => worker'[d] = worker[d]
             /\ \A x \in Caller : call'[x] = call[x] \/ call'[x].status # "served"
  <2>1. \A x \in Caller : answered(x, r).status # "served"
    <3>1. ASSUME NEW x \in Caller PROVE call[x] \in Call
      BY DEF TypeOK
    <3> QED BY <3>1 DEF answered, Call
  <2> QED BY <1>2, <2>1 DEF Return, TypeOK, idle, free
<1>3. ASSUME NEW cmd, NEW arg, propagate_to_list(c, cmd, arg)
      PROVE  /\ worker'[c].caller = worker[c].caller
             /\ \A d \in Node : d # c => worker'[d] = worker[d]
             /\ \A x \in Caller : call'[x] = call[x] \/ call'[x].status # "served"
  BY <1>3 DEF propagate_to_list, TypeOK, Worker, request, free
<1>4. CASE \E r : Return(c, r)
  BY <1>1, <1>2, <1>4
<1>5. CASE \E cmd, arg : propagate_to_list(c, cmd, arg)
  BY <1>1, <1>3, <1>5
<1>6. CASE Collect(c)
  BY <1>1, <1>6 DEF Collect, TypeOK, Worker, free
<1>7. CASE Start(c) \/ Terminate(c)
  BY <1>1, <1>7 DEF Start, Terminate
<1>8. CASE \E ok \in BOOLEAN : ok /\ (Prepare(c, ok) \/ Finalise(c, ok))
  <2>1. /\ \/ worker' = [worker EXCEPT ![c].pc = "prepared"]
           \/ worker' = [worker EXCEPT ![c].pc = "finalised"]
        /\ call' = call
    BY <1>8 DEF Prepare, Finalise
  <2> QED BY <1>1, <2>1 DEF TypeOK, Worker
<1>9. ASSUME NEW ok \in BOOLEAN, ~ok, Prepare(c, ok) \/ Finalise(c, ok)
      PROVE  \E r : Return(c, r)
  BY <1>9 DEF Prepare, Finalise
<1>10. CASE \/ TookControl(c) \/ SurrenderControl(c) \/ Include(c) \/ Exclude(c)
            \/ RefuseInError(c) \/ RefuseExcluded(c) \/ CannotExecute(c) \/ Conclude(c)
  BY <1>4, <1>10 DEF TookControl, SurrenderControl, Include, Exclude, RefuseInError, RefuseExcluded,
                     CannotExecute, Conclude
<1>11. CASE TakeControl(c) \/ PropagateInclusion(c, "include") \/ PropagateInclusion(c, "exclude")
            \/ Propagate(c)
  BY <1>5, <1>11 DEF TakeControl, PropagateInclusion, Propagate
<1> QED
  BY <1>4, <1>6, <1>7, <1>8, <1>9, <1>10, <1>11 DEF HandlerStep, ActorStep, InclusionStep, ExecuteStep

(* A call that is served before and after a step is untouched by it. *)
LEMMA ServedSticks ==
  ASSUME TreeInv, [Next]_vars, NEW x \in Caller,
         call[x].status = "served", call'[x].status = "served"
  PROVE  call'[x] = call[x]
<1>1. TypeOK
  BY DEF TreeInv
<1>2. CASE \E c \in Node : HandlerStep(c)
  BY <1>1, <1>2, HandlerEffect
<1>3. ASSUME NEW y \in Caller, NEW m, call' = [call EXCEPT ![y] = m], y # x
      PROVE  call'[x] = call[x]
  BY <1>1, <1>3 DEF TypeOK
<1>4. CASE \E u \in User : UserStep(u)
  BY <1>4, <1>3, NodeIsCaller DEF UserStep, UserSend, UserReceive
<1>5. CASE \E c \in Node, y \in Caller : NotInControl(c, y) \/ Accept(c, y)
  <2>1. PICK y \in Caller : call[y].status = "sent" /\ \A z \in Caller : z # y => call'[z] = call[z]
    BY <1>1, <1>5 DEF NotInControl, Accept, Pending, TypeOK
  <2> QED BY <2>1
<1>6. CASE \E c \in Node : Crash(c)
  BY <1>6 DEF Crash, free
<1>7. CASE \E a \in RestChild : RestStep(a)
  <2>1. PICK a \in RestChild : RestStep(a)
    BY <1>7
  <2>2. call[a].status = "sent" /\ \E new, r : RestAnswer(a, new, r)
    BY <2>1 DEF RestStep, RestInclusion, RestTakeControl, RestExecute, RestFail, Sent
  <2> QED BY <2>2, <1>3, NodeIsCaller DEF RestAnswer
<1>8. CASE \E y \in Caller : Unreachable(y)
  <2>1. PICK y \in Caller : Unreachable(y)
    BY <1>8
  <2>2. call[y] \in Call
    BY <1>1 DEF TypeOK
  <2>3. call'[y].status # "served"
    BY <1>1, <2>1, <2>2 DEF Unreachable, answered, TypeOK, Call
  <2> QED BY <1>1, <2>1, <2>3 DEF Unreachable, TypeOK
<1>9. CASE UNCHANGED vars
  BY <1>9 DEF vars
<1> QED BY <1>2, <1>4, <1>5, <1>6, <1>7, <1>8, <1>9 DEF Next

(* A worker gets busier by taking a command or by a step of its handler.   *)
LEMMA WorkerMoves ==
  ASSUME TypeOK, [Next]_vars, NEW c \in Node, worker'[c] # worker[c], worker'[c].pc # "idle"
  PROVE  HandlerStep(c) \/ \E x \in Caller : Accept(c, x)
<1>1. ASSUME NEW d \in Node, HandlerStep(d)
      PROVE  d = c
  BY <1>1, HandlerEffect
<1>2. ASSUME NEW d \in Node, Crash(d)
      PROVE  FALSE
  BY <1>2 DEF Crash, TypeOK, idle
<1>3. ASSUME NEW d \in Node, NEW x \in Caller, Accept(d, x)
      PROVE  d = c
  BY <1>3 DEF Accept, TypeOK
<1>4. ~UNCHANGED worker
  OBVIOUS
<1> QED
  BY <1>1, <1>2, <1>3, <1>4
  DEF Next, UserStep, UserSend, UserReceive, NotInControl, RestStep, RestInclusion, RestTakeControl,
      RestExecute, RestFail, RestAnswer, Unreachable, vars

(* A live worker stops by a step of its handler.                           *)
LEMMA WorkerStops ==
  ASSUME TypeOK, [Next]_vars, NEW c \in Node, worker'[c].pc = "idle", worker[c].pc # "idle", up'[c]
  PROVE  HandlerStep(c)
<1>1. ASSUME NEW d \in Node, HandlerStep(d)
      PROVE  d = c
  BY <1>1, HandlerEffect
<1>2. ASSUME NEW d \in Node, Crash(d)
      PROVE  FALSE
  BY <1>2 DEF Crash, TypeOK
<1>3. ASSUME NEW d \in Node, NEW x \in Caller, Accept(d, x)
      PROVE  FALSE
  BY <1>3 DEF Accept, TypeOK, idle
<1>4. ~UNCHANGED worker
  OBVIOUS
<1> QED
  BY <1>1, <1>2, <1>3, <1>4
  DEF Next, UserStep, UserSend, UserReceive, NotInControl, RestStep, RestInclusion, RestTakeControl,
      RestExecute, RestFail, RestAnswer, Unreachable, vars

(* A busy worker that stays busy serves the same command.  *)
LEMMA SameCommand ==
  ASSUME TreeInv, TreeInv', [Next]_vars, NEW c \in Node,
         worker[c].pc # "idle", worker'[c].pc # "idle"
  PROVE  /\ worker'[c].caller = worker[c].caller
         /\ call'[worker[c].caller] = call[worker[c].caller]
         /\ TokenOf(c)' = TokenOf(c) /\ Arg(c)' = Arg(c)
<1>1. worker'[c].caller = worker[c].caller
  <2>1. CASE \E d \in Node : HandlerStep(d)
    BY <2>1, HandlerEffect DEF TreeInv
  <2>2. ASSUME NEW d \in Node, Crash(d) \/ \E x \in Caller : Accept(d, x)
        PROVE  worker'[c].caller = worker[c].caller
    <3>1. CASE Crash(d)
      BY <3>1 DEF Crash, TreeInv, TypeOK, idle
    <3>2. ASSUME NEW x \in Caller, Accept(d, x)
          PROVE  worker'[c] = worker[c]
      BY <3>2 DEF Accept, Pending, TreeInv, TypeOK
    <3> QED BY <2>2, <3>1, <3>2
  <2>3. CASE \/ \E u \in User : UserStep(u)
             \/ \E d \in Node, x \in Caller : NotInControl(d, x)
             \/ \E a \in RestChild : RestStep(a)
             \/ \E x \in Caller : Unreachable(x)
             \/ UNCHANGED vars
    BY <2>3 DEF UserStep, UserSend, UserReceive, NotInControl, RestStep, RestInclusion,
                RestTakeControl, RestExecute, RestFail, RestAnswer, Unreachable, vars
  <2> QED BY <2>1, <2>2, <2>3 DEF Next
<1>2. worker[c].caller \in Caller
  BY DEF TreeInv, TypeOK, Worker
<1>3. call[worker[c].caller].status = "served" /\ call'[worker[c].caller].status = "served"
  BY <1>1, <1>2 DEF TreeInv, CallInv, ServedIsWorkedOn
<1>4. call'[worker[c].caller] = call[worker[c].caller]
  BY <1>2, <1>3, ServedSticks
<1> QED BY <1>1, <1>4 DEF TokenOf, Arg
-----------------------------------------------------------------------------
(* Control: while a command that needs control is served, its token is the *)
(* actor's.  It has to be said of the whole handler and not only of the    *)
(* moment in_control looks; it holds because the worker that could change  *)
(* the actor is the one that is busy.                                      *)

ControlInv ==
  \A c \in Node :
    worker[c].pc # "idle" /\ call[worker[c].caller].cmd \in InControlCommand => TokenOf(c) = actor[c]

(* The actor of c changes only while c serves take_control, or as the last *)
(* act of surrender_control.                                               *)
LEMMA ActorChanges ==
  ASSUME TypeOK, [Next]_vars, NEW c \in Node, actor'[c] # actor[c]
  PROVE  \/ call[worker[c].caller].cmd = "take_control"
         \/ worker'[c].pc = "idle"
<1>1. PICK d \in Node : TakeControl(d) \/ SurrenderControl(d)
  BY DEF Next, UserStep, UserSend, UserReceive, NotInControl, Accept, HandlerStep, ActorStep,
         InclusionStep, ExecuteStep, TookControl, PropagateInclusion, Include, Exclude, RefuseInError,
         RefuseExcluded, CannotExecute, Prepare, Propagate, Collect, Start, Terminate, Finalise,
         Conclude, Crash, RestStep, RestInclusion, RestTakeControl, RestExecute, RestFail,
         RestAnswer, Unreachable, vars
<1>2. d = c
  BY <1>1 DEF TakeControl, SurrenderControl, TypeOK
<1>3. CASE TakeControl(c)
  BY <1>3 DEF TakeControl, At
<1>4. CASE SurrenderControl(c)
  <2>1. worker' = [worker EXCEPT ![c] = idle]
    BY <1>4 DEF SurrenderControl, Return
  <2> QED BY <2>1 DEF TypeOK, idle
<1> QED BY <1>1, <1>2, <1>3, <1>4

LEMMA ControlStep ==
  ASSUME TreeInv, TreeInv', ControlInv, [Next]_vars
  PROVE  ControlInv'
<1> SUFFICES ASSUME NEW c \in Node, worker'[c].pc # "idle",
                    call'[worker'[c].caller].cmd \in InControlCommand
             PROVE  TokenOf(c)' = actor'[c]
  BY DEF ControlInv, InControlCommand, Command
<1>1. CASE worker[c].pc # "idle"
  <2>1. /\ call[worker[c].caller].cmd \in InControlCommand
        /\ TokenOf(c)' = TokenOf(c)
    BY <1>1, SameCommand
  <2>2. actor'[c] = actor[c]
    BY <2>1, ActorChanges DEF TreeInv, InControlCommand
  <2> QED BY <1>1, <2>1, <2>2 DEF ControlInv
<1>2. CASE worker[c].pc = "idle"
  <2>1. PICK x \in Caller : Accept(c, x)
    BY <1>2, WorkerMoves, HandlerEffect DEF TreeInv
  <2>2. /\ worker'[c].caller = x /\ actor' = actor /\ call[x] \in Call
        /\ call'[x] = [call[x] EXCEPT !.status = "served"]
    BY <2>1 DEF Accept, TreeInv, TypeOK, idle
  <2>3. call'[x].cmd = call[x].cmd /\ call'[x].token = call[x].token
    BY <2>2 DEF Call
  <2> QED BY <2>1, <2>2, <2>3 DEF Accept, token_is_current_actor, TokenOf
<1> QED BY <1>1, <1>2

(* The two attributes that only commands under control may change.         *)
LEMMA ControlledChange ==
  ASSUME TreeInv, ControlInv, [Next]_vars, NEW c \in Node,
         operational_sub_state'[c] # operational_sub_state[c] \/ included'[c] # included[c]
  PROVE  TokenOf(c) = actor[c]
<1>1. PICK d \in Node : InclusionStep(d) \/ ExecuteStep(d)
  BY DEF Next, UserStep, UserSend, UserReceive, NotInControl, Accept, HandlerStep, ActorStep,
         TakeControl, SurrenderControl, TookControl, Crash, RestStep, RestInclusion, RestTakeControl,
         RestExecute, RestFail, RestAnswer, Unreachable, vars, nodeVars
<1>2. d = c
  BY <1>1 DEF InclusionStep, ExecuteStep, PropagateInclusion, Include, Exclude, RefuseInError,
              RefuseExcluded, CannotExecute, Prepare, Propagate, Collect, Start, Terminate, Finalise,
              Conclude, include_node, exclude_node, to_error, prepare_transition, Mark,
              propagate_transition_mark, finish_propagating_transition_mark, start_transition_mark,
              terminate_transition_mark, finalise_transition, nodeVars, TreeInv, TypeOK, NodeTypeOK
<1>3. worker[c].pc # "idle" /\ call[worker[c].caller].cmd \in {"include", "exclude", "execute_fsm_command"}
  BY <1>1, <1>2 DEF InclusionStep, ExecuteStep, PropagateInclusion, Include, Exclude, RefuseInError,
              RefuseExcluded, CannotExecute, Prepare, Propagate, Collect, Start, Terminate, Finalise,
              Conclude, Executing, At
<1> QED BY <1>3 DEF ControlInv, InControlCommand, Command

(* A controller changes sub-state or inclusion only on behalf of the user  *)
(* who is in control of it at that moment.                                 *)
THEOREM OnlyInControlTheorem == Spec => OnlyInControl
<1>1. Init => ControlInv
  BY DEF Init, ControlInv, idle
<1>2. TreeInv /\ ControlInv /\ [Next]_vars =>
        [\A c \in Node :
           \/ operational_sub_state'[c] # operational_sub_state[c]
           \/ included'[c] # included[c]
           => TokenOf(c) = actor[c]]_vars
  BY ControlledChange
<1> QED
  BY <1>1, <1>2, TreeInvInit, TreeInvStep, ControlStep, PTL DEF Spec, OnlyInControl
-----------------------------------------------------------------------------
(* The tree implements the promise of RunControlFSM.  A node that is part  *)
(* of the way through a transition is not in error: in_error is tested     *)
(* once, when the command comes in, and set only when it is over.          *)

ExecutingIsHealthy ==
  \A c \in Node :
    /\ worker[c].pc \in {"prepared", "wait", "joined", "finalised"}
    /\ call[worker[c].caller].cmd = "execute_fsm_command"
    => ~in_error[c]

(* in_error is written only by the last act of the handler.                *)
LEMMA ErrorChanges ==
  ASSUME TypeOK, [Next]_vars, NEW c \in Node, in_error'[c] # in_error[c]
  PROVE  Conclude(c)
<1>1. PICK d \in Node : Conclude(d)
  BY DEF Next, UserStep, UserSend, UserReceive, NotInControl, Accept, HandlerStep, ActorStep,
         TakeControl, SurrenderControl, TookControl, InclusionStep, ExecuteStep, PropagateInclusion,
         Include, Exclude, RefuseInError, RefuseExcluded, CannotExecute, Prepare, Propagate, Collect,
         Start, Terminate, Finalise, include_node, exclude_node, prepare_transition, Mark,
         propagate_transition_mark, finish_propagating_transition_mark, start_transition_mark,
         terminate_transition_mark, finalise_transition, Crash, RestStep, RestInclusion,
         RestTakeControl, RestExecute, RestFail, RestAnswer, Unreachable, vars, nodeVars
<1>2. d = c
  BY <1>1 DEF Conclude, to_error, nodeVars, TypeOK, NodeTypeOK
<1> QED BY <1>1, <1>2

LEMMA ConcludeIdles ==
  ASSUME TypeOK, NEW c \in Node, Conclude(c)
  PROVE  worker'[c].pc = "idle"
<1>1. worker' = [worker EXCEPT ![c] = idle]
  BY DEF Conclude, Return
<1> QED BY <1>1 DEF TypeOK, idle

LEMMA ExecutingIsHealthyStep ==
  ASSUME TreeInv, TreeInv', ExecutingIsHealthy, [Next]_vars
  PROVE  ExecutingIsHealthy'
<1> SUFFICES ASSUME NEW c \in Node,
                    worker'[c].pc \in {"prepared", "wait", "joined", "finalised"},
                    call'[worker'[c].caller].cmd = "execute_fsm_command"
             PROVE  ~in_error'[c]
  BY DEF ExecutingIsHealthy
<1>1. in_error'[c] = in_error[c]
  BY ErrorChanges, ConcludeIdles DEF TreeInv
<1>2. CASE worker[c].pc \in {"prepared", "wait", "joined", "finalised"}
  BY <1>1, <1>2, SameCommand DEF ExecutingIsHealthy
<1>3. CASE worker[c].pc \in {"idle", "begin"}
  <2>1. HandlerStep(c) \/ \E x \in Caller : Accept(c, x)
    BY <1>3, WorkerMoves DEF TreeInv
  <2>2. worker'[c].pc # "begin" /\ worker[c].pc = "begin" /\ HandlerStep(c)
    <3>1. ASSUME NEW x \in Caller, Accept(c, x)
          PROVE  worker'[c].pc = "begin"
      BY <3>1 DEF Accept, TreeInv, TypeOK, idle
    <3> QED BY <1>3, <2>1, <3>1, HandlerEffect DEF TreeInv
  <2>3. call[worker[c].caller].cmd = "execute_fsm_command"
    BY <2>2, SameCommand
  <2>4. \E ok \in BOOLEAN : Prepare(c, ok)
    <3>1. ASSUME NEW r, Return(c, r)
          PROVE  FALSE
      BY <3>1 DEF Return, TreeInv, TypeOK, idle
    <3> QED
      BY <2>2, <2>3, <3>1 DEF HandlerStep, ActorStep, InclusionStep, ExecuteStep, TakeControl, TookControl,
         SurrenderControl, PropagateInclusion, Include, Exclude, RefuseInError, RefuseExcluded,
         CannotExecute, Propagate, Collect, Start, Terminate, Finalise, Conclude, Executing, At
  <2> QED BY <1>1, <2>4 DEF Prepare
<1> QED BY <1>2, <1>3 DEF TreeInv, TypeOK, Worker

(* A step that moves a controller is a Move along a transition its state   *)
(* offers; one that sets in_error is a Fail; the others are stutters.      *)
LEMMA StepImplements ==
  ASSUME TreeInv, ExecutingIsHealthy, [Next]_vars
  PROVE  [RC!Next]_(RC!vars)
<1>1. ASSUME NEW c \in Node, Terminate(c)
      PROVE  RC!Next
  <2>1. /\ Arg(c) \in Transition
        /\ operational_sub_state[c] = <<"executing", Arg(c)>>
    BY <1>1 DEF Terminate, terminate_transition_mark, TreeInv, TypeOK, NodeTypeOK, SubState,
                BeforeMove, AfterMove
  <2>2. can_execute_transition(operational_state[c], Arg(c))
    BY <2>1 DEF TreeInv, SubStateAgrees, BeforeMove
  <2>3. ~in_error[c]
    BY <1>1 DEF Terminate, Executing, At, ExecutingIsHealthy
  <2>4. RC!Move(c, Arg(c))
    BY <1>1, <2>2, <2>3 DEF Terminate, terminate_transition_mark, RC!Move, RC!can_execute_transition,
       RC!get_destination_state, can_execute_transition, get_destination_state, RC!Stay, Stay
  <2> QED BY <2>1, <2>4 DEF RC!Next
<1>2. ASSUME NEW c \in Node, Conclude(c)
      PROVE  [RC!Next]_(RC!vars)
  BY <1>2 DEF Conclude, to_error, nodeVars, RC!Next, RC!Fail, RC!vars
<1>3. ASSUME NEW c \in Node, HandlerStep(c), ~Terminate(c), ~Conclude(c)
      PROVE  UNCHANGED RC!vars
  BY <1>3 DEF HandlerStep, ActorStep, InclusionStep, ExecuteStep, TakeControl, TookControl,
     SurrenderControl, PropagateInclusion, Include, Exclude, RefuseInError, RefuseExcluded,
     CannotExecute, Prepare, Propagate, Collect, Start, Finalise, include_node, exclude_node,
     prepare_transition, Mark, propagate_transition_mark, finish_propagating_transition_mark,
     start_transition_mark, finalise_transition, nodeVars, RC!vars
<1>4. CASE \/ \E u \in User : UserStep(u)
           \/ \E c \in Node, x \in Caller : NotInControl(c, x) \/ Accept(c, x)
           \/ \E c \in Node : Crash(c)
           \/ \E a \in RestChild : RestStep(a)
           \/ \E x \in Caller : Unreachable(x)
           \/ UNCHANGED vars
  BY <1>4 DEF UserStep, UserSend, UserReceive, NotInControl, Accept, Crash, RestStep, RestInclusion,
              RestTakeControl, RestExecute, RestFail, RestAnswer, Unreachable, vars,
              nodeVars, RC!vars
<1> QED BY <1>1, <1>2, <1>3, <1>4 DEF Next

(* The states of the tree change along transitions only, never on a node   *)
(* that is in error, and an error is for good.                             *)
THEOREM TreeImplementsRunControl == Spec => ImplementsRunControl
<1>1. Init => RC!Init /\ ExecutingIsHealthy
  BY DEF Init, NodeInit, RC!Init, ExecutingIsHealthy, idle
<1>2. TreeInv /\ ExecutingIsHealthy /\ [Next]_vars => [RC!Next]_(RC!vars)
  BY StepImplements
<1> QED
  BY <1>1, <1>2, TreeInvInit, TreeInvStep, ExecutingIsHealthyStep, PTL
  DEF Spec, ImplementsRunControl, RC!Spec
-----------------------------------------------------------------------------
(* The stages of a transition and the handler that makes them.  The        *)
(* sub-state and the place of the worker are written by one handler, and   *)
(* only that of the controller in question.                                *)

Midway == {"ready", "propagating", "propagated", "executing", "terminated"}

(* The part of TransitionIsServed that is about c. *)
Served(c) ==
  LET stage == operational_sub_state[c]
  IN /\ stage[1] \in Midway =>
          /\ \E pc \in {"prepared", "wait", "joined"} : Executing(c, pc)
          /\ Arg(c) = stage[2]
     /\ Executing(c, "prepared") => stage = <<"ready", Arg(c)>>
     /\ Executing(c, "wait") => stage = <<"propagating", Arg(c)>>
     /\ Executing(c, "joined") =>
          \E kind \in {"propagated", "executing", "terminated"} : stage = <<kind, Arg(c)>>
     /\ Executing(c, "finalised") => settled(c)

LEMMA ServedByEach == TransitionIsServed <=> \A c \in Node : up[c] => Served(c)
BY DEF TransitionIsServed, Served, Midway

(* The sub-state of c is written by the handlers of c. *)
LEMMA StageChanges ==
  ASSUME TreeInv, [Next]_vars, NEW c \in Node,
         operational_sub_state'[c] # operational_sub_state[c] \/ operational_state'[c] # operational_state[c]
  PROVE  ExecuteStep(c)
<1>1. PICK d \in Node : ExecuteStep(d)
  BY DEF Next, UserStep, UserSend, UserReceive, NotInControl, Accept, HandlerStep, ActorStep,
         TakeControl, SurrenderControl, TookControl, InclusionStep, PropagateInclusion, Include,
         Exclude, include_node, exclude_node, Crash, RestStep, RestInclusion, RestTakeControl,
         RestExecute, RestFail, RestAnswer, Unreachable, vars, nodeVars
<1>2. d = c
  BY <1>1 DEF ExecuteStep, RefuseInError, RefuseExcluded, CannotExecute, Prepare, Propagate, Collect,
              Start, Terminate, Finalise, Conclude, to_error, prepare_transition, Mark,
              propagate_transition_mark, finish_propagating_transition_mark, start_transition_mark,
              terminate_transition_mark, finalise_transition, nodeVars, TreeInv, TypeOK, NodeTypeOK
<1> QED BY <1>1, <1>2

(* A handler that returns leaves an idle worker. *)
LEMMA ReturnIdles ==
  ASSUME TypeOK, NEW c \in Node, NEW r, Return(c, r)
  PROVE  worker'[c].pc = "idle"
BY DEF Return, TypeOK, idle

(* One step of the handler that executes a transition. *)
LEMMA ServedByExecution ==
  ASSUME TreeInv, TreeInv', [Next]_vars, NEW c \in Node, up[c], Served(c), ExecuteStep(c)
  PROVE  Served(c)'
<1>1. /\ worker[c].pc # "idle" /\ up' = up
      /\ Executing(c, worker[c].pc)
      /\ operational_sub_state \in [Node -> SubState] /\ worker \in [Node -> Worker]
      /\ operational_sub_state[c] \in SubState
  BY HandlerEffect DEF ExecuteStep, HandlerStep, RefuseInError, RefuseExcluded, CannotExecute, Prepare,
     Propagate, Collect, Start, Terminate, Finalise, Conclude, Executing, At, TreeInv, TypeOK,
     NodeTypeOK
<1>2. worker'[c].pc # "idle" => /\ Arg(c)' = Arg(c)
                               /\ \A pc : Executing(c, pc)' <=> worker'[c].pc = pc
  BY <1>1, SameCommand DEF Executing, At
<1>3. worker'[c].pc = "idle" => ~\E pc \in {"prepared", "wait", "joined", "finalised"} : Executing(c, pc)'
  BY DEF Executing, At
<1>4. ASSUME NEW kind, operational_sub_state'[c] = <<kind, Arg(c)>>,
             \/ kind = "ready" /\ worker'[c].pc = "prepared"
             \/ kind = "propagating" /\ worker'[c].pc = "wait"
             \/ kind \in {"propagated", "executing", "terminated"} /\ worker'[c].pc = "joined"
             \/ kind \in {"preparing", "finalising"} /\ worker'[c].pc = "idle"
      PROVE  Served(c)'
  BY <1>2, <1>3, <1>4 DEF Served, Midway
<1>5. ASSUME operational_sub_state'[c] = operational_sub_state[c], worker'[c].pc = "idle",
             operational_sub_state[c][1] \notin Midway
      PROVE  Served(c)'
  BY <1>3, <1>5 DEF Served, Midway
<1>6. CASE \/ RefuseInError(c) \/ RefuseExcluded(c) \/ CannotExecute(c) \/ Conclude(c)
  <2>1. worker'[c].pc = "idle" /\ operational_sub_state' = operational_sub_state
    BY <1>6, ReturnIdles DEF RefuseInError, RefuseExcluded, CannotExecute, Conclude, to_error, nodeVars,
                             TreeInv
  <2>2. worker[c].pc \in {"begin", "finalised"}
    BY <1>6 DEF RefuseInError, RefuseExcluded, CannotExecute, Conclude, Executing, At
  <2>3. operational_sub_state[c][1] \notin Midway
    BY <2>2 DEF Served, Executing, At
  <2> QED BY <1>5, <2>1, <2>3
<1>7. ASSUME NEW ok \in BOOLEAN, Prepare(c, ok)
      PROVE  Served(c)'
  <2>1. operational_sub_state'[c] = <<IF ok THEN "ready" ELSE "preparing", Arg(c)>>
    BY <1>1, <1>7 DEF Prepare, prepare_transition
  <2>2. worker'[c].pc = IF ok THEN "prepared" ELSE "idle"
    BY <1>1, <1>7, ReturnIdles DEF Prepare, TreeInv, Worker
  <2>3. CASE ok
    BY <1>4, <2>1, <2>2, <2>3
  <2>4. CASE ~ok
    BY <1>4, <2>1, <2>2, <2>4
  <2> QED BY <2>3, <2>4
<1>8. CASE Propagate(c)
  <2>1. operational_sub_state'[c] = <<"propagating", Arg(c)>> /\ worker'[c].pc = "wait"
    BY <1>1, <1>8 DEF Propagate, propagate_transition_mark, Mark, propagate_to_list, Worker
  <2> QED BY <1>4, <2>1
<1>9. CASE Collect(c)
  <2>1. operational_sub_state'[c] = <<"propagated", Arg(c)>> /\ worker'[c].pc = "joined"
    BY <1>1, <1>9 DEF Collect, finish_propagating_transition_mark, Mark, Worker
  <2> QED BY <1>4, <2>1
<1>10. CASE Start(c) \/ Terminate(c)
  <2>1. /\ \E kind \in {"executing", "terminated"} : operational_sub_state'[c] = <<kind, Arg(c)>>
        /\ worker'[c].pc = "joined"
    BY <1>1, <1>10 DEF Start, start_transition_mark, Mark, Terminate, terminate_transition_mark,
                       Executing, At
  <2> QED BY <1>4, <2>1
<1>11. ASSUME NEW ok \in BOOLEAN, Finalise(c, ok)
       PROVE  Served(c)'
  <2>1. CASE ok
    <3>1. /\ operational_sub_state'[c] = <<"state", operational_state'[c]>>
          /\ worker'[c].pc = "finalised"
      BY <1>1, <1>11, <2>1 DEF Finalise, finalise_transition, Worker
    <3> QED BY <1>2, <3>1 DEF Served, Midway, settled
  <2>2. CASE ~ok
    <3>1. operational_sub_state'[c] = <<"finalising", Arg(c)>> /\ worker'[c].pc = "idle"
      BY <1>1, <1>11, <2>2, ReturnIdles DEF Finalise, finalise_transition, TreeInv
    <3> QED BY <1>4, <3>1
  <2> QED BY <2>1, <2>2
<1> QED BY <1>6, <1>7, <1>8, <1>9, <1>10, <1>11 DEF ExecuteStep

LEMMA ServedStep ==
  ASSUME TreeInv, TreeInv', [Next]_vars, TransitionIsServed
  PROVE  TransitionIsServed'
<1> SUFFICES ASSUME NEW c \in Node, up'[c] PROVE Served(c)'
  BY ServedByEach DEF TransitionIsServed, Served, Midway
<1>1. up[c]
  BY DEF Next, UserStep, UserSend, UserReceive, NotInControl, Accept, HandlerStep, ActorStep,
         TakeControl, SurrenderControl, TookControl, InclusionStep, PropagateInclusion, Include,
         Exclude, ExecuteStep, RefuseInError, RefuseExcluded, CannotExecute, Prepare, Propagate,
         Collect, Start, Terminate, Finalise, Conclude, Crash, RestStep, RestInclusion,
         RestTakeControl, RestExecute, RestFail, RestAnswer, Unreachable, vars, TreeInv, TypeOK
<1>2. Served(c)
  BY <1>1, ServedByEach
<1>3. CASE ExecuteStep(c)
  BY <1>1, <1>2, <1>3, ServedByExecution
<1>4. CASE ~ExecuteStep(c)
  <2>1. /\ operational_sub_state'[c] = operational_sub_state[c]
        /\ operational_state'[c] = operational_state[c]
    BY <1>4, StageChanges
  <2>2. CASE worker'[c] = worker[c] /\ worker[c].pc # "idle"
    <3>1. Arg(c)' = Arg(c) /\ \A pc : Executing(c, pc)' <=> Executing(c, pc)
      BY <1>1, <2>2, SameCommand DEF Executing, At
    <3> QED BY <1>2, <2>1, <3>1 DEF Served, settled
  <2>3. ASSUME worker'[c].pc \in {"idle", "begin"} \/ call'[worker'[c].caller].cmd # "execute_fsm_command",
               worker[c].pc \in {"idle", "begin"} \/ call[worker[c].caller].cmd # "execute_fsm_command"
        PROVE  Served(c)'
    <3>1. ~\E pc \in {"prepared", "wait", "joined", "finalised"} : Executing(c, pc) \/ Executing(c, pc)'
      BY <2>3 DEF Executing, At
    <3> QED BY <1>2, <2>1, <3>1 DEF Served
  <2>4. CASE worker'[c].pc = "idle" /\ worker[c].pc = "idle"
    BY <2>3, <2>4
  <2>5. CASE \E x \in Caller : Accept(c, x)
    <3>1. worker[c].pc = "idle" /\ worker'[c].pc = "begin"
      BY <2>5 DEF Accept, Pending, TreeInv, TypeOK, idle
    <3> QED BY <2>3, <3>1
  <2>6. CASE ActorStep(c) \/ InclusionStep(c)
    <3>1. worker[c].pc # "idle" /\ call[worker[c].caller].cmd # "execute_fsm_command"
      BY <2>6 DEF ActorStep, InclusionStep, TakeControl, TookControl, SurrenderControl,
                  PropagateInclusion, Include, Exclude, At
    <3>2. worker'[c].pc = "idle" \/ call'[worker'[c].caller].cmd # "execute_fsm_command"
      BY <3>1, SameCommand
    <3> QED BY <2>3, <3>1, <3>2
  <2>7. CASE worker'[c].pc = "idle" /\ worker[c].pc # "idle"
    BY <1>4, <2>6, <2>7, WorkerStops DEF HandlerStep, TreeInv
  <2> QED
    BY <1>4, <2>2, <2>4, <2>5, <2>6, <2>7, WorkerMoves DEF HandlerStep, TreeInv
<1> QED BY <1>3, <1>4

(* The stages of a transition are made by the handler that serves it, each *)
(* where the one before left it, and none is left half-way by a live       *)
(* controller but where a callback raised: in every tree, for every        *)
(* machine, and wherever users are connected.                              *)
THEOREM TransitionsAreServed == Spec => []TransitionIsServed
<1>1. Init => TransitionIsServed
  BY DEF Init, NodeInit, TransitionIsServed, Executing, At, idle
<1> QED BY <1>1, TreeInvInit, TreeInvStep, ServedStep, PTL DEF Spec
=============================================================================
