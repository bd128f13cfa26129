---------------------- MODULE ControllerInStep_proofs ----------------------
(* Controllers and what is below them stay in step.  Both invariants of    *)
(* this module are about one controller and one child of it: what the      *)
(* child does is known from where the worker of its parent is, as the line *)
(* to a child is used by that worker only.                                 *)
EXTENDS Controller_proofs

Cmd(c) == call[worker[c].caller].cmd
Pc(c)  == worker[c].pc

(* Where c leaves from, once it is fit for it. *)
Fit(c) == settled(c) /\ ~in_error[c]

Kind(c) == operational_sub_state[c][1]

Destination_of(c) == get_destination_state(operational_state[c], Arg(c))

(* The state that c is in when its transition is over. *)
Exit(c) == IF Kind(c) = "terminated" THEN operational_state[c] ELSE Destination_of(c)
-----------------------------------------------------------------------------
(* Applications *)

With(a, s) == rest[a].state = s /\ ~rest[a].errored /\ ~rest[a].executing

Success(r) == r.flag = "EXECUTED_SUCCESSFULLY" /\ r.fsm = "FSM_EXECUTED_SUCCESSFULLY"

(* The line to an application, while c waits, bears the command of c. *)
LineFollows(c, a) ==
  Pc(c) = "wait" =>
    /\ call[a].status \in {"sent", "answered"} /\ call[a].cmd = Cmd(c)
    /\ Cmd(c) = "execute_fsm_command" => call[a].arg = Arg(c)

InclusionFollows(c, a) ==
  IF Pc(c) = "wait" /\ Cmd(c) \in {"include", "exclude"} /\ call[a].status = "answered"
    THEN rest[a].included = (Cmd(c) = "include")
    ELSE rest[a].included = included[c]

StateFollows(c, a) ==
  /\ Pc(c) \in {"idle", "begin"} \/ (Pc(c) = "wait" /\ Cmd(c) # "execute_fsm_command") =>
       (Fit(c) => With(a, operational_state[c]))
  /\ Pc(c) = "prepared" => With(a, operational_state[c])
  /\ Pc(c) = "wait" /\ Cmd(c) = "execute_fsm_command" =>
       /\ call[a].status = "sent" => With(a, operational_state[c])
       /\ call[a].status = "answered" /\ Success(call[a].response) => With(a, Destination_of(c))
  /\ Pc(c) = "joined" /\ ~worker[c].childFailed => With(a, Exit(c))
  /\ Pc(c) = "finalised" /\ ~worker[c].childFailed => With(a, operational_state[c])

Follows(c, a) == LineFollows(c, a) /\ InclusionFollows(c, a) /\ StateFollows(c, a)

ApplicationsFollow ==
  \A c \in Node : up[c] => \A a \in Children(c) \cap RestChild : Follows(c, a)
-----------------------------------------------------------------------------
(* Controllers *)

(* The line to a controller, while c waits, bears the command of c. *)
CallFollows(c, k) ==
  Pc(c) = "wait" =>
    /\ call[k].status # "free" /\ call[k].cmd = Cmd(c)
    /\ Cmd(c) = "execute_fsm_command" => call[k].arg = Arg(c)

(* The child is in state s when it is fit for a transition. *)
Beside(k, s) == Fit(k) => operational_state[k] = s

ChildFollows(c, k) ==
  /\ Pc(c) \in {"idle", "begin"} \/ (Pc(c) = "wait" /\ Cmd(c) # "execute_fsm_command") =>
       (Fit(c) => Beside(k, operational_state[c]))
  /\ Pc(c) = "prepared" => Beside(k, operational_state[c])
  /\ Pc(c) = "wait" /\ Cmd(c) = "execute_fsm_command" =>
       /\ call[k].status = "sent" => Beside(k, operational_state[c])
       /\ call[k].status = "served" =>
            /\ Pc(k) = "begin" => Beside(k, operational_state[c])
            /\ Pc(k) \in {"prepared", "wait"} => operational_state[k] = operational_state[c]
            /\ Pc(k) = "joined" => Exit(k) = Destination_of(c)
            /\ Pc(k) = "finalised" => operational_state[k] = Destination_of(c)
       /\ call[k].status = "answered" /\ Success(call[k].response) => Beside(k, Destination_of(c))
  /\ Pc(c) = "joined" /\ ~worker[c].childFailed => Beside(k, Exit(c))
  /\ Pc(c) = "finalised" /\ ~worker[c].childFailed => Beside(k, operational_state[c])

ControllersFollow ==
  \A k \in Node \ {Root} :
    up[k] /\ up[parent[k]] => CallFollows(parent[k], k) /\ ChildFollows(parent[k], k)

(* Nobody calls the root but users, and users call nobody but the root. *)
RootIsNoCallee == call[Root].status = "free"

UsersAtRoot == \A u \in User : call[u].status # "free" => call[u].to = Root

AtRoot == RootIsNoCallee /\ UsersAtRoot
-----------------------------------------------------------------------------
(* Proofs about applications *)

(* No step of anybody else touches the line to an application, nor what    *)
(* its parent believes about it.                                           *)
LEMMA LineIsPrivate ==
  ASSUME TreeInv, [Next]_vars, NEW c \in Node, NEW a \in Children(c) \cap RestChild,
         up[c], ~HandlerStep(c), ~RestStep(a), ~Crash(c)
  PROVE  call'[a] = call[a] /\ rest'[a] = rest[a]
<1> USE DEF TreeInv
<1>1. /\ a \in Caller /\ a \notin User /\ a \notin Node /\ a # Root /\ a \in DOMAIN parent
      /\ parent[a] = c
  BY TreeAssumption, ChildIsCaller DEF Children
<1>2. call[a].status # "free" => call[a].to = a
  BY <1>1 DEF CallInv, Routed
<1>3. ASSUME NEW d \in Node, HandlerStep(d)
      PROVE  call'[a] = call[a] /\ rest' = rest
  <2>1. d # c /\ a \notin Children(d)
    BY <1>1, <1>3 DEF Children
  <2>2. worker[d].pc # "idle"
    BY <1>3, HandlerEffect
  <2>3. a # worker[d].caller
    <3>1. worker[d].caller \in Caller /\ call[worker[d].caller].to = d
          /\ call[worker[d].caller].status = "served"
      BY <2>2 DEF CallInv, ServedIsWorkedOn, TypeOK, Worker
    <3> QED BY <3>1, <1>1, <1>2
  <2> QED
    BY <1>1, <1>3, <2>1, <2>3
    DEF HandlerStep, ActorStep, InclusionStep, ExecuteStep, TakeControl, TookControl,
        SurrenderControl, PropagateInclusion, Include, Exclude, RefuseInError, RefuseExcluded,
        CannotExecute, Prepare, Propagate, Collect, Start, Terminate, Finalise, Conclude,
        Return, propagate_to_list
<1>4. ASSUME NEW d \in Node, NEW x \in Caller, NotInControl(d, x) \/ Accept(d, x)
      PROVE  call'[a] = call[a] /\ rest' = rest
  <2>1. x # a
    BY <1>1, <1>2, <1>4 DEF NotInControl, Accept, Pending
  <2> QED BY <1>1, <1>4, <2>1 DEF NotInControl, Accept, TypeOK
<1>5. ASSUME NEW d \in Node, Crash(d)
      PROVE  call'[a] = call[a] /\ rest' = rest
  <2>1. d # c /\ a \notin Children(d)
    BY <1>1, <1>5 DEF Children
  <2> QED BY <1>1, <1>5, <2>1 DEF Crash
<1>6. ASSUME NEW b \in RestChild, RestStep(b)
      PROVE  call'[a] = call[a] /\ rest'[a] = rest[a]
  <2>1. b # a
    BY <1>6
  <2>2. \E new, r : RestAnswer(b, new, r)
    BY <1>6 DEF RestStep, RestInclusion, RestTakeControl, RestExecute, RestFail
  <2> QED BY <1>1, <2>1, <2>2 DEF RestAnswer, TypeOK
<1>7. ASSUME NEW x \in Caller, Unreachable(x)
      PROVE  call'[a] = call[a] /\ rest' = rest
  <2>1. x # a
    BY <1>1, <1>2, <1>7 DEF Unreachable
  <2> QED BY <1>1, <1>7, <2>1 DEF Unreachable, TypeOK
<1>8. ASSUME NEW u \in User, UserStep(u)
      PROVE  call'[a] = call[a] /\ rest' = rest
  BY <1>1, <1>8 DEF UserStep, UserSend, UserReceive, TypeOK
<1>9. CASE UNCHANGED vars
  BY <1>9 DEF vars
<1> QED BY <1>3, <1>4, <1>5, <1>6, <1>7, <1>8, <1>9 DEF Next

(* The node of c changes by handler steps of c alone. *)
LEMMA NodeIsPrivate ==
  ASSUME TypeOK, [Next]_vars, NEW c \in Node, ~HandlerStep(c)
  PROVE  /\ operational_state'[c] = operational_state[c]
         /\ operational_sub_state'[c] = operational_sub_state[c]
         /\ included'[c] = included[c]
         /\ in_error'[c] = in_error[c]
<1>1. ASSUME NEW d \in Node, HandlerStep(d), d # c
      PROVE  /\ operational_state'[c] = operational_state[c]
             /\ operational_sub_state'[c] = operational_sub_state[c]
             /\ included'[c] = included[c]
             /\ in_error'[c] = in_error[c]
  BY <1>1
  DEF HandlerStep, ActorStep, InclusionStep, ExecuteStep, TakeControl, TookControl,
      SurrenderControl, PropagateInclusion, Include, Exclude, RefuseInError, RefuseExcluded,
      CannotExecute, Prepare, Propagate, Collect, Start, Terminate, Finalise, Conclude,
      include_node, exclude_node, to_error, prepare_transition, Mark, propagate_transition_mark,
      finish_propagating_transition_mark, start_transition_mark, terminate_transition_mark,
      finalise_transition, nodeVars, TypeOK, NodeTypeOK
<1>2. CASE \A d \in Node : ~HandlerStep(d)
  <2>1. UNCHANGED nodeVars
    BY <1>2 DEF Next, UserStep, UserSend, UserReceive, NotInControl, Accept, Crash, RestStep,
                RestInclusion, RestTakeControl, RestExecute, RestFail, RestAnswer, Unreachable, vars
  <2> QED BY <2>1 DEF nodeVars
<1> QED BY <1>1, <1>2


(* A worker is moved by its handler, by a request it takes, and by nothing *)
(* else while its process lives.                                           *)
LEMMA WorkerIsPrivate ==
  ASSUME TypeOK, [Next]_vars, NEW c \in Node, ~HandlerStep(c), ~Crash(c)
  PROVE  worker'[c] = worker[c] \/ \E x \in Caller : Accept(c, x)
<1>1. ASSUME NEW d \in Node, HandlerStep(d)
      PROVE  worker'[c] = worker[c]
  BY <1>1, HandlerEffect
<1>2. ASSUME NEW d \in Node, Crash(d)
      PROVE  worker'[c] = worker[c]
  BY <1>2 DEF Crash, TypeOK
<1>3. ASSUME NEW d \in Node, NEW x \in Caller, Accept(d, x), d # c
      PROVE  worker'[c] = worker[c]
  BY <1>3 DEF Accept, TypeOK
<1>4. CASE ~UNCHANGED worker
  BY <1>1, <1>2, <1>3, <1>4
  DEF Next, UserStep, UserSend, UserReceive, NotInControl, RestStep, RestInclusion, RestTakeControl,
      RestExecute, RestFail, RestAnswer, Unreachable, vars
<1> QED BY <1>4

LEMMA FollowsUntouched ==
  ASSUME TreeInv, TreeInv', [Next]_vars, NEW c \in Node, NEW a \in Children(c) \cap RestChild,
         up[c], ~HandlerStep(c), ~RestStep(a), ~Crash(c), Follows(c, a)
  PROVE  Follows(c, a)'
<1>1. /\ call'[a] = call[a] /\ rest'[a] = rest[a]
      /\ operational_state'[c] = operational_state[c]
      /\ operational_sub_state'[c] = operational_sub_state[c]
      /\ included'[c] = included[c]
      /\ in_error'[c] = in_error[c]
  BY LineIsPrivate, NodeIsPrivate DEF TreeInv
<1>2. CASE worker'[c] = worker[c] /\ Pc(c) # "idle"
  <2>1. call'[worker'[c].caller] = call[worker[c].caller]
    BY <1>2, SameCommand DEF Pc
  <2> QED
    BY <1>1, <1>2, <2>1
    DEF Follows, LineFollows, InclusionFollows, StateFollows, With, Fit, settled, Kind, Exit,
        Destination_of, Pc, Cmd, Arg, get_destination_state, Success
<1>3. CASE Pc(c) = "idle" /\ Pc(c)' \in {"idle", "begin"}
  BY <1>1, <1>3
  DEF Follows, LineFollows, InclusionFollows, StateFollows, With, Fit, settled
<1>4. ASSUME NEW x \in Caller, Accept(c, x)
      PROVE  Pc(c) = "idle" /\ Pc(c)' = "begin"
  BY <1>4 DEF Accept, Pending, Pc, TreeInv, TypeOK, idle
<1> QED BY <1>2, <1>3, <1>4, WorkerIsPrivate DEF TreeInv, Pc

(* The application, or rather the thread that drives it, answers. *)
LEMMA FollowsRestStep ==
  ASSUME TreeInv, TreeInv', NEW c \in Node, NEW a \in Children(c) \cap RestChild,
         up[c], RestStep(a), Follows(c, a)
  PROVE  Follows(c, a)'
<1> USE DEF TreeInv
<1>1. /\ a \in Caller /\ a \in DOMAIN parent /\ call[a] \in Call /\ rest[a] \in RestState
  BY TreeAssumption, ChildIsCaller DEF Children, TypeOK
<1>2. /\ UNCHANGED <<nodeVars, actor, worker, up>> /\ call[a].status = "sent"
      /\ \E new, r : RestAnswer(a, new, r)
  BY DEF RestStep, RestInclusion, RestTakeControl, RestExecute, RestFail, RestAnswer, Sent
<1>3. Pc(c) = "wait"
  BY <1>2 DEF CallInv, LinesFreeUnlessWaiting, Pc
<1>4. call'[worker[c].caller] = call[worker[c].caller]
  <2>1. worker[c].caller \in Caller /\ call[worker[c].caller].status = "served"
    BY <1>3 DEF CallInv, ServedIsWorkedOn, TypeOK, Worker, Pc
  <2> QED BY <1>2, <2>1 DEF RestAnswer, TypeOK
<1>5. /\ Pc(c)' = "wait" /\ Cmd(c)' = Cmd(c) /\ Arg(c)' = Arg(c)
      /\ operational_state' = operational_state /\ included' = included
      /\ Fit(c)' = Fit(c) /\ Destination_of(c)' = Destination_of(c)
  BY <1>2, <1>3, <1>4
  DEF Pc, Cmd, Arg, Fit, settled, Destination_of, get_destination_state, nodeVars
<1>6. ASSUME NEW new \in RestState, NEW r \in Response, RestAnswer(a, new, r)
      PROVE  /\ rest'[a] = new /\ call'[a].status = "answered" /\ call'[a].response = r
             /\ call'[a].cmd = call[a].cmd /\ call'[a].arg = call[a].arg
  BY <1>1, <1>6 DEF RestAnswer, TypeOK, answered, Call
<1>7. /\ call[a].cmd = Cmd(c)
      /\ Cmd(c) = "execute_fsm_command" => call[a].arg = Arg(c)
  BY <1>3 DEF Follows, LineFollows
<1>8. SUFFICES ASSUME NEW new \in RestState, NEW r \in Response, RestAnswer(a, new, r),
                      IF Cmd(c) \in {"include", "exclude"}
                        THEN new.included = (Cmd(c) = "include")
                        ELSE new.included = rest[a].included,
                      IF Cmd(c) = "execute_fsm_command"
                        THEN Success(r) /\ With(a, operational_state[c]) =>
                               /\ new.state = Destination_of(c)
                               /\ ~new.errored /\ ~new.executing
                        ELSE /\ new.state = rest[a].state /\ new.errored = rest[a].errored
                             /\ new.executing = rest[a].executing
               PROVE  Follows(c, a)'
  <2>1. CASE RestInclusion(a)
    <3>1. ASSUME NEW b \in BOOLEAN
          PROVE  /\ [rest[a] EXCEPT !.included = b] \in RestState
                 /\ [rest[a] EXCEPT !.included = b].included = b
                 /\ [rest[a] EXCEPT !.included = b].state = rest[a].state
                 /\ [rest[a] EXCEPT !.included = b].errored = rest[a].errored
                 /\ [rest[a] EXCEPT !.included = b].executing = rest[a].executing
      BY <1>1 DEF RestState
    <3>2. CASE Sent(a, "include")
      <4>1. RestAnswer(a, [rest[a] EXCEPT !.included = TRUE], respond("EXECUTED_SUCCESSFULLY", "NONE", TRUE))
        BY <2>1, <3>2 DEF RestInclusion, Sent
      <4> HIDE DEF TreeInv
      <4> QED BY <1>7, <1>8, <3>1, <3>2, <4>1, HandlerResponses DEF Sent
    <3>3. CASE Sent(a, "exclude")
      <4>1. RestAnswer(a, [rest[a] EXCEPT !.included = FALSE], respond("EXECUTED_SUCCESSFULLY", "NONE", TRUE))
        BY <2>1, <3>3 DEF RestInclusion, Sent
      <4> HIDE DEF TreeInv
      <4> QED BY <1>7, <1>8, <3>1, <3>3, <4>1, HandlerResponses DEF Sent
    <3> QED BY <2>1, <3>2, <3>3 DEF RestInclusion
  <2>2. CASE RestTakeControl(a)
    <3>1. PICK r \in Response : RestAnswer(a, rest[a], r)
      BY <2>2, HandlerResponses, RespondType DEF RestTakeControl
    <3>2. Cmd(c) = "take_control"
      BY <1>7, <2>2 DEF RestTakeControl, Sent
    <3> HIDE DEF TreeInv
    <3> QED BY <1>1, <1>8, <3>1, <3>2
  <2>3. CASE RestExecute(a)
    <3> DEFINE new == [rest[a] EXCEPT !.state = get_destination_state(@, call[a].arg), !.executing = FALSE]
    <3>1. Cmd(c) = "execute_fsm_command" /\ call[a].arg = Arg(c)
      BY <1>7, <2>3 DEF RestExecute, Sent
    <3>2. call[a].arg \in Transition
      BY <1>1, <1>2, <1>7, <3>1 DEF CallInv, ChildrenGetTransitions
    <3>3. get_destination_state(rest[a].state, call[a].arg) \in State
      BY <1>1, <3>2, DestinationIsState DEF RestState
    <3>4. /\ new \in RestState /\ new.included = rest[a].included /\ new.errored = rest[a].errored
          /\ ~new.executing /\ new.state = get_destination_state(rest[a].state, Arg(c))
      BY <1>1, <3>1, <3>3 DEF RestState
    <3>5. PICK r \in Response : RestAnswer(a, new, r)
      BY <2>3, HandlerResponses DEF RestExecute
    <3> HIDE DEF TreeInv, new
    <3> QED BY <1>8, <3>1, <3>4, <3>5 DEF With, Destination_of
  <2>4. ASSUME NEW r \in Response, RestFail(a, r), ~Success(r)
        PROVE  Follows(c, a)'
    <3> DEFINE new == [rest[a] EXCEPT !.errored = TRUE, !.executing = TRUE]
    <3>1. new \in RestState /\ new.included = rest[a].included
      BY <1>1 DEF RestState
    <3>2. Cmd(c) = "execute_fsm_command"
      BY <1>7, <2>4 DEF RestFail, Sent
    <3>3. RestAnswer(a, new, r)
      BY <2>4 DEF RestFail
    <3> HIDE DEF TreeInv, new
    <3> QED BY <1>8, <2>4, <3>1, <3>2, <3>3
  <2>5. /\ ~Success(respond("EXECUTED_SUCCESSFULLY", "FSM_FAILED", TRUE))
        /\ ~Success(exceptionResponse)
    BY DEF Success, respond, exceptionResponse
  <2> HIDE DEF TreeInv
  <2> QED BY <2>1, <2>2, <2>3, <2>4, <2>5, HandlerResponses, RespondType DEF RestStep
<1> HIDE DEF TreeInv
<1>9. LineFollows(c, a)'
  BY <1>5, <1>6, <1>7, <1>8 DEF LineFollows
<1>10. InclusionFollows(c, a)'
  BY <1>2, <1>3, <1>5, <1>6, <1>8 DEF Follows, InclusionFollows
<1>11. StateFollows(c, a)'
  BY <1>2, <1>3, <1>5, <1>6, <1>8 DEF Follows, StateFollows, With
<1> QED BY <1>9, <1>10, <1>11 DEF Follows


(* A handler of c that returns leaves c idle. *)
LEMMA FollowsReturn ==
  ASSUME TypeOK, NEW c \in Node, NEW a \in RestChild, NEW r, Return(c, r), rest' = rest,
         rest[a].included = included'[c],
         Fit(c)' => With(a, operational_state'[c])
  PROVE  Follows(c, a)'
<1>1. Pc(c)' = "idle"
  BY DEF Return, Pc, TypeOK, idle
<1> QED
  BY <1>1 DEF Follows, LineFollows, InclusionFollows, StateFollows, With

(* A handler of c that passes its command on: every application has it.    *)
LEMMA FollowsPropagate ==
  ASSUME TypeOK, NEW c \in Node, NEW a \in Children(c) \cap RestChild,
         Pc(c) # "idle", worker[c].caller \notin Children(c),
         NEW arg, propagate_to_list(c, Cmd(c), arg),
         Cmd(c) = "execute_fsm_command" => arg = Arg(c),
         rest' = rest, included' = included, operational_state' = operational_state,
         rest[a].included = included[c],
         Fit(c)' \/ Cmd(c) = "execute_fsm_command" => With(a, operational_state[c])
  PROVE  Follows(c, a)'
<1>1. worker[c] \in Worker /\ worker[c].caller \in Caller /\ a \in Caller
  BY ChildIsCaller DEF TypeOK, Worker
<1>2. Pc(c)' = "wait" /\ worker'[c].caller = worker[c].caller
  BY <1>1 DEF propagate_to_list, Pc, TypeOK, Worker
<1>3. call'[worker[c].caller] = call[worker[c].caller]
  BY <1>1 DEF propagate_to_list
<1>4. Cmd(c)' = Cmd(c) /\ Arg(c)' = Arg(c)
  BY <1>2, <1>3 DEF Cmd, Arg
<1>5. call'[a].status = "sent" /\ call'[a].cmd = Cmd(c) /\ call'[a].arg = arg
  BY <1>1 DEF propagate_to_list, request, free
<1>6. LineFollows(c, a)'
  BY <1>4, <1>5 DEF LineFollows
<1>7. InclusionFollows(c, a)'
  BY <1>2, <1>5 DEF InclusionFollows
<1>8. StateFollows(c, a)'
  BY <1>2, <1>4, <1>5 DEF StateFollows, With
<1> QED BY <1>6, <1>7, <1>8 DEF Follows

(* A handler of c that goes on by itself, its applications left alone.     *)
LEMMA FollowsAdvance ==
  ASSUME NEW c \in Node, NEW a \in Children(c) \cap RestChild,
         Pc(c)' \in {"prepared", "joined", "finalised"},
         rest' = rest, included' = included, rest[a].included = included[c],
         Pc(c)' = "prepared" => With(a, operational_state'[c]),
         Pc(c)' = "joined" /\ ~worker'[c].childFailed => With(a, Exit(c)'),
         Pc(c)' = "finalised" /\ ~worker'[c].childFailed => With(a, operational_state'[c])
  PROVE  Follows(c, a)'
BY DEF Follows, LineFollows, InclusionFollows, StateFollows, With

LEMMA FollowsActorStep ==
  ASSUME TreeInv, NEW c \in Node, NEW a \in Children(c) \cap RestChild, Follows(c, a), ActorStep(c)
  PROVE  Follows(c, a)'
<1>1. /\ UNCHANGED nodeVars /\ rest' = rest /\ Pc(c) \in {"begin", "wait"}
      /\ Cmd(c) # "execute_fsm_command" /\ Cmd(c) \notin {"include", "exclude"}
  BY DEF ActorStep, TakeControl, TookControl, SurrenderControl, At, Pc, Cmd
<1>2. /\ rest[a].included = included[c]
      /\ Fit(c)' => With(a, operational_state[c])
  BY <1>1 DEF Follows, InclusionFollows, StateFollows, Fit, settled, nodeVars
<1>3. CASE TakeControl(c)
  <2>1. propagate_to_list(c, Cmd(c), NoTransition) /\ Pc(c) = "begin"
    BY <1>3 DEF TakeControl, At, Cmd, Pc
  <2>2. worker[c].caller \notin Children(c)
    BY <2>1, CallerIsNoChild DEF TreeInv, Pc
  <2> QED BY <1>1, <1>2, <2>1, <2>2, FollowsPropagate DEF TreeInv, nodeVars
<1>4. CASE TookControl(c) \/ SurrenderControl(c)
  <2>1. PICK r : Return(c, r)
    BY <1>4 DEF TookControl, SurrenderControl
  <2> QED BY <1>1, <1>2, <2>1, FollowsReturn DEF TreeInv, nodeVars
<1> QED BY <1>3, <1>4 DEF ActorStep

LEMMA FollowsInclusionStep ==
  ASSUME TreeInv, NEW c \in Node, NEW a \in Children(c) \cap RestChild, Follows(c, a),
         InclusionStep(c)
  PROVE  Follows(c, a)'
<1>1. ASSUME NEW cmd \in {"include", "exclude"}, PropagateInclusion(c, cmd)
      PROVE  Follows(c, a)'
  <2>1. /\ propagate_to_list(c, Cmd(c), NoTransition) /\ Pc(c) = "begin" /\ rest' = rest
        /\ Cmd(c) # "execute_fsm_command" /\ UNCHANGED nodeVars
    BY <1>1 DEF PropagateInclusion, At, Cmd, Pc
  <2>2. worker[c].caller \notin Children(c)
    BY <2>1, CallerIsNoChild DEF TreeInv, Pc
  <2>3. /\ rest[a].included = included[c]
        /\ Fit(c)' => With(a, operational_state[c])
    BY <2>1 DEF Follows, InclusionFollows, StateFollows, Fit, settled, nodeVars
  <2> QED BY <2>1, <2>2, <2>3, FollowsPropagate DEF TreeInv, nodeVars
<1>2. CASE Include(c) \/ Exclude(c)
  <2>1. /\ Pc(c) = "wait" /\ Cmd(c) \in {"include", "exclude"} /\ Joined(c) /\ rest' = rest
        /\ included'[c] = (Cmd(c) = "include")
        /\ operational_state' = operational_state /\ Fit(c)' = Fit(c)
        /\ \E r : Return(c, r)
    BY <1>2 DEF Include, Exclude, At, Pc, Cmd, include_node, exclude_node, nodeVars, TreeInv,
                TypeOK, NodeTypeOK, Fit, settled
  <2>2. call[a].status = "answered"
    BY <2>1 DEF Joined
  <2>3. /\ rest[a].included = included'[c]
        /\ Fit(c)' => With(a, operational_state'[c])
    BY <2>1, <2>2 DEF Follows, InclusionFollows, StateFollows
  <2> QED BY <2>1, <2>3, FollowsReturn DEF TreeInv
<1> QED BY <1>1, <1>2 DEF InclusionStep

LEMMA FollowsExecuteStep ==
  ASSUME TreeInv, NEW c \in Node, NEW a \in Children(c) \cap RestChild, Follows(c, a),
         ExecuteStep(c)
  PROVE  Follows(c, a)'
<1>1. /\ Pc(c) # "idle" /\ rest' = rest /\ included' = included /\ worker[c] \in Worker
      /\ Cmd(c) = "execute_fsm_command"
      /\ rest[a].included = included[c]
  <2>1. /\ Pc(c) # "idle" /\ rest' = rest /\ included' = included
        /\ Cmd(c) = "execute_fsm_command"
    BY DEF ExecuteStep, RefuseInError, RefuseExcluded, CannotExecute, Prepare, Propagate, Collect,
           Start, Terminate, Finalise, Conclude, Executing, At, Pc, Cmd, nodeVars, to_error,
           prepare_transition, Mark, propagate_transition_mark, finish_propagating_transition_mark,
           start_transition_mark, terminate_transition_mark, finalise_transition
  <2> QED BY <2>1 DEF TreeInv, TypeOK, Follows, InclusionFollows
<1>2. CASE RefuseInError(c) \/ RefuseExcluded(c) \/ CannotExecute(c)
  <2>1. /\ UNCHANGED nodeVars /\ Pc(c) = "begin" /\ \E r : Return(c, r)
    BY <1>2 DEF RefuseInError, RefuseExcluded, CannotExecute, Executing, At, Pc
  <2>2. Fit(c)' => With(a, operational_state'[c])
    BY <2>1 DEF Follows, StateFollows, Fit, settled, nodeVars
  <2> QED BY <1>1, <2>1, <2>2, FollowsReturn DEF TreeInv
<1>3. ASSUME NEW ok \in BOOLEAN, Prepare(c, ok)
      PROVE  Follows(c, a)'
  <2>1. /\ Pc(c) = "begin" /\ Fit(c) /\ operational_state' = operational_state
        /\ operational_sub_state'[c] = <<IF ok THEN "ready" ELSE "preparing", Arg(c)>>
    BY <1>3 DEF Prepare, Executing, At, Pc, prepare_transition, can_transition, Fit, TreeInv, TypeOK,
                NodeTypeOK
  <2>2. With(a, operational_state'[c])
    BY <2>1 DEF Follows, StateFollows
  <2>3. CASE ok
    <3>1. Pc(c)' = "prepared"
      BY <1>1, <1>3, <2>3 DEF Prepare, Pc, TreeInv, TypeOK, Worker
    <3> QED BY <1>1, <2>2, <3>1, FollowsAdvance
  <2>4. CASE ~ok
    BY <1>1, <1>3, <2>2, <2>4, FollowsReturn DEF Prepare, TreeInv
  <2> QED BY <2>3, <2>4
<1>4. CASE Propagate(c)
  <2>1. /\ propagate_to_list(c, Cmd(c), Arg(c)) /\ Pc(c) = "prepared"
        /\ operational_state' = operational_state
    BY <1>1, <1>4 DEF Propagate, Executing, At, Pc, propagate_transition_mark, Mark
  <2>2. worker[c].caller \notin Children(c)
    BY <2>1, CallerIsNoChild DEF TreeInv, Pc
  <2>3. With(a, operational_state[c])
    BY <2>1 DEF Follows, StateFollows
  <2> QED BY <1>1, <2>1, <2>2, <2>3, FollowsPropagate DEF TreeInv
<1>5. CASE Collect(c)
  <2>1. /\ Pc(c) = "wait" /\ Joined(c) /\ operational_state' = operational_state
        /\ operational_sub_state'[c] = <<"propagated", Arg(c)>>
    BY <1>5 DEF Collect, Executing, At, Pc, finish_propagating_transition_mark, Mark, TreeInv, TypeOK,
                NodeTypeOK
  <2>2. /\ Pc(c)' = "joined" /\ worker'[c].childFailed = ChildFailed(c)
        /\ worker'[c].caller = worker[c].caller
    BY <1>1, <1>5 DEF Collect, Pc, TreeInv, TypeOK, Worker
  <2>3. call'[worker[c].caller] = call[worker[c].caller]
    <3>1. worker[c].caller \notin Children(c) /\ worker[c].caller \in Caller
      BY <2>1, CallerIsNoChild DEF TreeInv, Pc
    <3> QED BY <1>5, <3>1 DEF Collect
  <2>4. Exit(c)' = Destination_of(c)
    BY <2>1, <2>2, <2>3 DEF Exit, Kind, Destination_of, Arg, get_destination_state
  <2>5. ~worker'[c].childFailed => With(a, Exit(c)')
    <3>1. call[a].status = "answered"
      BY <2>1 DEF Joined
    <3>2. ~ChildFailed(c) => Success(call[a].response)
      BY DEF ChildFailed, Success
    <3> QED BY <1>1, <2>1, <2>2, <2>4, <3>1, <3>2 DEF Follows, StateFollows
  <2> QED BY <1>1, <2>2, <2>5, FollowsAdvance
<1>6. CASE Start(c) \/ Terminate(c)
  <2>1. /\ Pc(c) = "joined" /\ worker' = worker /\ call' = call /\ Kind(c) # "terminated"
        /\ \/ /\ operational_state' = operational_state
              /\ Kind(c)' # "terminated"
           \/ /\ operational_state'[c] = Destination_of(c)
              /\ Kind(c)' = "terminated"
    BY <1>6 DEF Start, Terminate, Executing, At, Pc, start_transition_mark, terminate_transition_mark,
                Mark, TreeInv, TypeOK, NodeTypeOK, Kind, Destination_of
  <2>2. Exit(c)' = Exit(c)
    BY <2>1 DEF Exit, Destination_of, Arg, get_destination_state
  <2>3. Pc(c)' = "joined" /\ worker'[c].childFailed = worker[c].childFailed
    BY <2>1 DEF Pc
  <2>4. ~worker'[c].childFailed => With(a, Exit(c)')
    BY <2>1, <2>2, <2>3 DEF Follows, StateFollows
  <2> QED BY <1>1, <2>3, <2>4, FollowsAdvance
<1>7. ASSUME NEW ok \in BOOLEAN, Finalise(c, ok)
      PROVE  Follows(c, a)'
  <2>1. /\ Pc(c) = "joined" /\ operational_state' = operational_state
        /\ Kind(c) = "terminated"
        /\ ~ok => operational_sub_state'[c] = <<"finalising", Arg(c)>>
    BY <1>7 DEF Finalise, Executing, At, Pc, finalise_transition, TreeInv, TypeOK, NodeTypeOK, Kind
  <2>2. CASE ok
    <3>1. Pc(c)' = "finalised" /\ worker'[c].childFailed = worker[c].childFailed
      BY <1>1, <1>7, <2>2 DEF Finalise, Pc, TreeInv, TypeOK, Worker
    <3>2. ~worker'[c].childFailed => With(a, operational_state'[c])
      BY <2>1, <3>1 DEF Follows, StateFollows, Exit
    <3> QED BY <1>1, <3>1, <3>2, FollowsAdvance
  <2>3. CASE ~ok
    <3>1. ~Fit(c)'
      BY <2>1, <2>3 DEF Fit, settled
    <3> QED BY <1>1, <1>7, <2>3, <3>1, FollowsReturn DEF Finalise, TreeInv
  <2> QED BY <2>2, <2>3
<1>8. CASE Conclude(c)
  <2>1. /\ Pc(c) = "finalised" /\ operational_state' = operational_state
        /\ worker[c].childFailed => in_error'[c]
        /\ \E r : Return(c, r)
    BY <1>8 DEF Conclude, Executing, At, Pc, to_error, nodeVars, TreeInv, TypeOK, NodeTypeOK
  <2>2. Fit(c)' => With(a, operational_state'[c])
    BY <2>1 DEF Follows, StateFollows, Fit
  <2> QED BY <1>1, <2>1, <2>2, FollowsReturn DEF TreeInv
<1> QED BY <1>2, <1>3, <1>4, <1>5, <1>6, <1>7, <1>8 DEF ExecuteStep

LEMMA ApplicationsFollowInit ==
  ASSUME Init
  PROVE  ApplicationsFollow
<1> SUFFICES ASSUME NEW c \in Node, NEW a \in Children(c) \cap RestChild
             PROVE  Follows(c, a)
  BY DEF ApplicationsFollow
<1>1. Pc(c) = "idle" /\ With(a, operational_state[c]) /\ rest[a].included = included[c]
  BY ClientAssumption DEF Init, NodeInit, idle, With, Pc
<1> QED
  BY <1>1 DEF Follows, LineFollows, InclusionFollows, StateFollows

LEMMA ApplicationsFollowStep ==
  ASSUME TreeInv, TreeInv', ApplicationsFollow, [Next]_vars
  PROVE  ApplicationsFollow'
<1> SUFFICES ASSUME NEW c \in Node, up'[c], NEW a \in Children(c) \cap RestChild
             PROVE  Follows(c, a)'
  BY DEF ApplicationsFollow, Children
<1>1. up[c]
  <2>1. up' = up \/ \E d \in Node : Crash(d)
    BY DEF Next, UserStep, UserSend, UserReceive, NotInControl, Accept, HandlerStep, ActorStep,
           InclusionStep, ExecuteStep, TakeControl, TookControl, SurrenderControl,
           PropagateInclusion, Include, Exclude, RefuseInError, RefuseExcluded, CannotExecute,
           Prepare, Propagate, Collect, Start, Terminate, Finalise, Conclude, RestStep,
           RestInclusion, RestTakeControl, RestExecute, RestFail, RestAnswer, Unreachable, vars
  <2> QED BY <2>1 DEF Crash, TreeInv, TypeOK
<1>2. Follows(c, a)
  BY <1>1 DEF ApplicationsFollow
<1>3. ~Crash(c)
  BY DEF Crash, TreeInv, TypeOK
<1> QED
  BY <1>1, <1>2, <1>3, FollowsUntouched, FollowsRestStep, FollowsActorStep, FollowsInclusionStep,
     FollowsExecuteStep DEF HandlerStep

(* A controller that is ready for a next transition has all of its         *)
(* applications in its own state, none failed and none executing.          *)
THEOREM ApplicationsInStep == Spec => []RestInStep
<1>1. ApplicationsFollow => RestInStep
  BY DEF ApplicationsFollow, Follows, StateFollows, Fit, With, Pc, RestInStep, Healthy
<1> QED
  BY <1>1, TreeInvInit, TreeInvStep, ApplicationsFollowInit, ApplicationsFollowStep, PTL DEF Spec

(* Applications are included and excluded with their controller.           *)
THEOREM InclusionReachesApplications == Spec => []RestInclusionFollows
<1>1. ApplicationsFollow => RestInclusionFollows
  BY DEF ApplicationsFollow, Follows, InclusionFollows, Pc, RestInclusionFollows
<1> QED
  BY <1>1, TreeInvInit, TreeInvStep, ApplicationsFollowInit, ApplicationsFollowStep, PTL DEF Spec

-----------------------------------------------------------------------------
(* Proofs about controllers, when users talk to the root only *)

LEMMA AtRootStep ==
  ASSUME \A u \in User : Entry[u] \subseteq {Root}, TreeInv, AtRoot, [Next]_vars
  PROVE  AtRoot'
<1> USE DEF TreeInv
<1>1. Root \in Caller /\ Root \notin User /\ Root \notin RestChild /\ Root \notin DOMAIN parent
  BY TreeAssumption DEF Caller
<1>2. call[Root].status = "free" /\ \A u \in User : u \in Caller /\ u \notin DOMAIN parent
  BY TreeAssumption DEF AtRoot, RootIsNoCallee, Caller
<1>3. \A x \in Caller : call[x] \in Call
  BY DEF TypeOK
<1>4. SUFFICES ASSUME NEW x \in User \cup {Root}
               PROVE  \/ call'[x].status = "free"
                      \/ call'[x].status = call[x].status /\ call'[x].to = call[x].to
                      \/ x # Root /\ call[x].status # "free" /\ call'[x].to = call[x].to
                      \/ x # Root /\ call'[x].to = Root
  BY <1>1, <1>4 DEF AtRoot, RootIsNoCallee, UsersAtRoot
<1>5. x \in Caller /\ x \notin DOMAIN parent /\ x \notin RestChild /\ (x = Root \/ x \in User)
  BY <1>1, <1>2, <1>4, TreeAssumption
<1>6. CASE call'[x] = call[x] \/ call'[x].status = "free"
  BY <1>6
<1>7. ASSUME NEW d \in Node, HandlerStep(d), call'[x] # call[x]
      PROVE  call[x].status # "free" /\ call'[x].to = call[x].to
  <2>1. x \notin Children(d)
    BY <1>5 DEF Children
  <2>2. x = worker[d].caller /\ \E r : call'[x] = answered(x, r)
    BY <1>5, <1>7, <2>1
    DEF HandlerStep, ActorStep, InclusionStep, ExecuteStep, TakeControl, TookControl,
        SurrenderControl, PropagateInclusion, Include, Exclude, RefuseInError, RefuseExcluded,
        CannotExecute, Prepare, Propagate, Collect, Start, Terminate, Finalise, Conclude,
        Return, propagate_to_list
  <2>3. call[x].status = "served"
    BY <1>7, <2>2, HandlerEffect DEF CallInv, ServedIsWorkedOn, TypeOK, Worker
  <2> QED BY <1>3, <1>5, <2>2, <2>3 DEF answered, Call
<1>8. ASSUME NEW d \in Node, NEW y \in Caller,
             NotInControl(d, y) \/ Accept(d, y) \/ Unreachable(y), call'[x] # call[x]
      PROVE  call[x].status # "free" /\ call'[x].to = call[x].to
  <2>1. y = x
    BY <1>5, <1>8 DEF NotInControl, Accept, Unreachable, TypeOK
  <2>2. /\ call[x].status # "free"
        /\ (\E r : call'[x] = answered(x, r)) \/ call'[x] = [call[x] EXCEPT !.status = "served"]
    BY <1>5, <1>8, <2>1 DEF NotInControl, Accept, Unreachable, Pending, TypeOK
  <2> QED BY <1>3, <1>5, <2>2 DEF answered, Call
<1>9. ASSUME NEW u \in User, UserStep(u), call'[x] # call[x], call'[x].status # "free"
      PROVE  x # Root /\ call'[x].to = Root
  <2>1. CASE UserReceive(u)
    BY <1>1, <1>2, <1>5, <1>9, <2>1 DEF UserReceive, TypeOK, free
  <2>2. ASSUME NEW c \in Entry[u], NEW cmd \in Issued[u], NEW arg \in Transition \cup {NoTransition},
               UserSend(u, c, cmd, arg)
        PROVE  x # Root /\ call'[x].to = Root
    BY <1>1, <1>2, <1>5, <1>9, <2>2 DEF UserSend, TypeOK, request, free
  <2> QED BY <1>9, <2>1, <2>2 DEF UserStep
<1>10. CASE (\E d \in Node : Crash(d)) \/ UNCHANGED vars
  BY <1>5, <1>10 DEF Crash, vars
<1>11. CASE \E a \in RestChild : RestStep(a)
  <2>1. PICK a \in RestChild : \E new, r : RestAnswer(a, new, r)
    BY <1>11 DEF RestStep, RestInclusion, RestTakeControl, RestExecute, RestFail
  <2> QED BY <1>5, <2>1 DEF RestAnswer, TypeOK
<1>12. CASE \E y \in Caller : Unreachable(y)
  BY <1>1, <1>2, <1>4, <1>6, <1>8, <1>12, TreeAssumption
<1>13. CASE \E d \in Node, y \in Caller : NotInControl(d, y) \/ Accept(d, y)
  BY <1>1, <1>2, <1>4, <1>6, <1>8, <1>13
<1>14. CASE \E d \in Node : HandlerStep(d)
  BY <1>1, <1>2, <1>4, <1>6, <1>7, <1>14
<1>15. CASE \E u \in User : UserStep(u)
  BY <1>6, <1>9, <1>15
<1> QED BY <1>10, <1>11, <1>12, <1>13, <1>14, <1>15 DEF Next

(* Whoever calls a controller below the root is its parent. *)
LEMMA OnlyTheParentCalls ==
  ASSUME TreeInv, AtRoot, NEW k \in Node \ {Root}, NEW x \in Caller,
         call[x].status # "free", call[x].to = k
  PROVE  x = k
<1>1. x \in User \/ x = Root \/ x \in DOMAIN parent
  BY TreeAssumption DEF Caller
<1> QED BY <1>1 DEF AtRoot, RootIsNoCallee, UsersAtRoot, TreeInv, CallInv, Routed

(* A controller below the root works for its parent, which waits for it.   *)
LEMMA WorksForParent ==
  ASSUME TreeInv, AtRoot, NEW k \in Node \ {Root}, up[parent[k]], Pc(k) # "idle"
  PROVE  worker[k].caller = k /\ call[k].status = "served" /\ Pc(parent[k]) = "wait"
<1>1. /\ worker[k].caller \in Caller
      /\ call[worker[k].caller].status = "served" /\ call[worker[k].caller].to = k
  BY DEF TreeInv, TypeOK, Worker, CallInv, ServedIsWorkedOn, Pc
<1>2. worker[k].caller = k /\ call[k].status = "served"
  BY <1>1, OnlyTheParentCalls
<1>3. parent[k] \in Node /\ k \in Children(parent[k])
  BY TreeAssumption DEF Children
<1> QED BY <1>2, <1>3 DEF TreeInv, CallInv, LinesFreeUnlessWaiting, Pc

(* While a controller takes a step of its own its children do nothing.     *)
LEMMA ChildRests ==
  ASSUME TreeInv, AtRoot, NEW k \in Node \ {Root}, HandlerStep(parent[k])
  PROVE  /\ parent[k] \in Node /\ k \in Children(parent[k]) /\ k \in Caller
         /\ Pc(k) = "idle" /\ parent[k] # k /\ up[parent[k]] /\ Pc(parent[k]) # "idle"
         /\ worker[parent[k]].caller # k
         /\ Pc(parent[k]) = "wait" => call[k].status = "answered"
<1> DEFINE p == parent[k]
<1>1. p \in Node /\ k \in Children(p) /\ k \in Caller
  BY TreeAssumption DEF Children, Caller
<1>2. up[p] /\ Pc(p) # "idle"
  BY <1>1, HandlerEffect DEF TreeInv, Pc
<1>3. Pc(p) = "wait" => Joined(p)
  BY <1>1 DEF HandlerStep, ActorStep, InclusionStep, ExecuteStep, TakeControl, TookControl,
         SurrenderControl, PropagateInclusion, Include, Exclude, RefuseInError, RefuseExcluded,
         CannotExecute, Prepare, Propagate, Collect, Start, Terminate, Finalise, Conclude,
         Executing, At, Pc
<1>4. Pc(p) = "wait" => call[k].status = "answered"
  BY <1>1, <1>3 DEF Joined
<1>5. Pc(k) = "idle"
  BY <1>2, <1>4, WorksForParent
<1>6. worker[p].caller # k
  BY <1>1, <1>2, <1>3, CallerIsNoChild DEF TreeInv, Pc
<1> QED BY <1>1, <1>2, <1>4, <1>5, <1>6

(* No step of anybody else touches the line to a controller.               *)
LEMMA LineIsQuiet ==
  ASSUME TreeInv, AtRoot, [Next]_vars, NEW k \in Node \ {Root}, ~Unreachable(k),
         ~HandlerStep(parent[k]), ~HandlerStep(k), ~NotInControl(k, k), ~Accept(k, k)
  PROVE  call'[k] = call[k]
<1> USE DEF TreeInv
<1>1. /\ k \in Caller /\ k \notin User /\ k \notin RestChild /\ k \in DOMAIN parent
  BY TreeAssumption DEF Caller
<1>2. call[k].status # "free" => call[k].to = k
  BY <1>1 DEF CallInv, Routed
<1>3. ASSUME NEW d \in Node, HandlerStep(d)
      PROVE  call'[k] = call[k]
  <2>1. d # k /\ k \notin Children(d)
    BY <1>3 DEF Children
  <2>2. k # worker[d].caller
    <3>1. worker[d].caller \in Caller /\ call[worker[d].caller].to = d
          /\ call[worker[d].caller].status = "served"
      BY <1>3, HandlerEffect DEF CallInv, ServedIsWorkedOn, TypeOK, Worker
    <3> QED BY <1>2, <2>1, <3>1
  <2> QED
    BY <1>1, <1>3, <2>1, <2>2
    DEF HandlerStep, ActorStep, InclusionStep, ExecuteStep, TakeControl, TookControl,
        SurrenderControl, PropagateInclusion, Include, Exclude, RefuseInError, RefuseExcluded,
        CannotExecute, Prepare, Propagate, Collect, Start, Terminate, Finalise, Conclude,
        Return, propagate_to_list
<1>4. ASSUME NEW d \in Node, NEW x \in Caller, NotInControl(d, x) \/ Accept(d, x)
      PROVE  call'[k] = call[k]
  <2>1. x # k
    BY <1>2, <1>4 DEF NotInControl, Accept, Pending
  <2> QED BY <1>1, <1>4, <2>1 DEF NotInControl, Accept, TypeOK
<1>5. ASSUME NEW x \in Caller, Unreachable(x)
      PROVE  call'[k] = call[k]
  <2>1. x # k
    BY <1>5
  <2> QED BY <1>1, <1>5, <2>1 DEF Unreachable, TypeOK
<1>6. ASSUME NEW a \in RestChild, RestStep(a)
      PROVE  call'[k] = call[k]
  <2>1. \E new, r : RestAnswer(a, new, r)
    BY <1>6 DEF RestStep, RestInclusion, RestTakeControl, RestExecute, RestFail
  <2> QED BY <1>1, <2>1 DEF RestAnswer, TypeOK
<1>7. CASE (\E d \in Node : Crash(d)) \/ (\E u \in User : UserStep(u)) \/ UNCHANGED vars
  BY <1>1, <1>7 DEF Crash, UserStep, UserSend, UserReceive, vars, TypeOK
<1> QED BY <1>3, <1>4, <1>5, <1>6, <1>7 DEF Next

LEMMA LineOfControllerIsPrivate ==
  ASSUME TreeInv, AtRoot, [Next]_vars, NEW k \in Node \ {Root}, up[k],
         ~HandlerStep(parent[k]), ~HandlerStep(k), ~NotInControl(k, k), ~Accept(k, k)
  PROVE  call'[k] = call[k]
<1>1. k \in Caller /\ k \in DOMAIN parent
  BY TreeAssumption DEF Caller
<1>2. ~Unreachable(k)
  BY <1>1 DEF Unreachable, TreeInv, CallInv, Routed
<1> QED BY <1>2, LineIsQuiet

Pair(k) == CallFollows(parent[k], k) /\ ChildFollows(parent[k], k)

(* A step of neither the parent's handler nor the child's line, nor the    *)
(* child's handler.                                                        *)
LEMMA PairUntouched ==
  ASSUME TreeInv, TreeInv', AtRoot, [Next]_vars, NEW k \in Node \ {Root},
         up[k], up[parent[k]], up'[k], up'[parent[k]],
         ~HandlerStep(parent[k]), ~HandlerStep(k), ~NotInControl(k, k), ~Accept(k, k), Pair(k)
  PROVE  Pair(k)'
<1> DEFINE p == parent[k]
<1>0. p \in Node /\ k \in Node
  BY TreeAssumption
<1>1. /\ call'[k] = call[k]
      /\ operational_state'[p] = operational_state[p]
      /\ operational_state'[k] = operational_state[k]
      /\ operational_sub_state'[k] = operational_sub_state[k]
      /\ Fit(p)' = Fit(p) /\ Fit(k)' = Fit(k)
  BY <1>0, LineOfControllerIsPrivate, NodeIsPrivate DEF TreeInv, Fit, settled
<1>2. ~Crash(p) /\ ~Crash(k)
  BY <1>0 DEF Crash, TreeInv, TypeOK
<1>3. worker'[k] = worker[k]
  <2>1. ASSUME NEW x \in Caller, Accept(k, x)
        PROVE  x = k
    BY <2>1, OnlyTheParentCalls DEF Accept, Pending
  <2> QED BY <1>0, <1>2, <2>1, WorkerIsPrivate DEF TreeInv
<1>4. CASE Pc(p) # "idle" /\ worker'[p] = worker[p]
  <2>1. call'[worker'[p].caller] = call[worker[p].caller]
    BY <1>0, <1>4, SameCommand DEF Pc
  <2>2. /\ Pc(p)' = Pc(p) /\ Cmd(p)' = Cmd(p) /\ Arg(p)' = Arg(p)
        /\ worker'[p].childFailed = worker[p].childFailed
    BY <1>4, <2>1 DEF Pc, Cmd, Arg
  <2>3. Destination_of(p)' = Destination_of(p)
    BY <1>1, <2>2 DEF Destination_of, get_destination_state
  <2>4. CallFollows(p, k)'
    BY <1>1, <2>2 DEF CallFollows, Pair
  <2>5. CASE Pc(p) # "wait"
    <3>1. Pc(p) = "joined" => Exit(p)' = Exit(p)
      BY <1>0, <1>1, <2>2, <2>3, NodeIsPrivate DEF Exit, Kind, TreeInv
    <3> QED BY <1>1, <2>2, <2>4, <2>5, <3>1 DEF Pair, ChildFollows, Beside
  <2>6. CASE Pc(p) = "wait" /\ Cmd(p) # "execute_fsm_command"
    BY <1>1, <2>2, <2>4, <2>6 DEF Pair, ChildFollows, Beside
  <2>7. CASE Pc(p) = "wait" /\ Cmd(p) = "execute_fsm_command"
    <3>1. Pc(k)' = Pc(k)
      BY <1>3 DEF Pc
    <3>2. Pc(k) # "idle" => Exit(k)' = Exit(k)
      <4> SUFFICES ASSUME Pc(k) # "idle" PROVE Exit(k)' = Exit(k)
        OBVIOUS
      <4>1. Arg(k)' = Arg(k)
        BY <1>0, <1>3, SameCommand DEF Pc
      <4> QED BY <1>1, <4>1 DEF Exit, Kind, Destination_of, get_destination_state
    <3> QED BY <1>1, <2>2, <2>3, <2>4, <2>7, <3>1, <3>2 DEF Pair, ChildFollows, Beside
  <2> QED BY <2>5, <2>6, <2>7
<1>5. CASE Pc(p) = "idle" /\ Pc(p)' \in {"idle", "begin"}
  BY <1>1, <1>5 DEF Pair, CallFollows, ChildFollows, Beside
<1>6. ASSUME NEW x \in Caller, Accept(p, x)
      PROVE  Pc(p) = "idle" /\ Pc(p)' = "begin"
  BY <1>0, <1>6 DEF Accept, Pending, Pc, TreeInv, TypeOK, idle
<1> QED BY <1>0, <1>2, <1>4, <1>5, <1>6, WorkerIsPrivate DEF TreeInv, Pc

(* The child takes the command from its line, or says that the user is not *)
(* in control of it.                                                       *)
LEMMA PairServed ==
  ASSUME TreeInv, TreeInv', AtRoot, [Next]_vars, NEW k \in Node \ {Root},
         up[k], up[parent[k]], NotInControl(k, k) \/ Accept(k, k), Pair(k)
  PROVE  Pair(k)'
<1> DEFINE p == parent[k]
<1>1. /\ p \in Node /\ k \in Node /\ k \in Caller /\ k \in Children(p) /\ call[k] \in Call
  BY TreeAssumption DEF Children, Caller, TreeInv, TypeOK
<1>2. /\ Pc(k) = "idle" /\ call[k].status = "sent" /\ UNCHANGED nodeVars
  BY DEF NotInControl, Accept, Pending, Pc
<1>3. Pc(p) = "wait"
  BY <1>1, <1>2 DEF TreeInv, CallInv, LinesFreeUnlessWaiting, Pc
<1>4. worker'[p] = worker[p]
  BY <1>1, <1>2, <1>3 DEF NotInControl, Accept, TreeInv, TypeOK, Pc
<1>5. call'[worker'[p].caller] = call[worker[p].caller]
  BY <1>1, <1>3, <1>4, SameCommand DEF Pc
<1>6. /\ Pc(p)' = "wait" /\ Cmd(p)' = Cmd(p) /\ Arg(p)' = Arg(p)
      /\ operational_state' = operational_state /\ Fit(p)' = Fit(p) /\ Fit(k)' = Fit(k)
      /\ Destination_of(p)' = Destination_of(p)
  BY <1>2, <1>3, <1>4, <1>5
  DEF Pc, Cmd, Arg, Destination_of, get_destination_state, Fit, settled, nodeVars
<1>7. \/ /\ call'[k].status = "answered" /\ ~Success(call'[k].response)
         /\ call'[k].cmd = call[k].cmd /\ call'[k].arg = call[k].arg
      \/ /\ call'[k].status = "served" /\ Pc(k)' = "begin"
         /\ call'[k].cmd = call[k].cmd /\ call'[k].arg = call[k].arg
  <2>1. CASE NotInControl(k, k)
    <3>1. call'[k] = answered(k, respond("NOT_IN_CONTROL", "NONE", FALSE))
      BY <1>1, <2>1 DEF NotInControl, TreeInv, TypeOK
    <3> QED BY <1>1, <3>1 DEF answered, respond, Success, Call
  <2>2. CASE Accept(k, k)
    <3>1. /\ call'[k] = [call[k] EXCEPT !.status = "served"] /\ Pc(k)' = "begin"
      BY <1>1, <2>2 DEF Accept, TreeInv, TypeOK, Pc, idle
    <3> QED BY <1>1, <3>1 DEF Call
  <2> QED BY <2>1, <2>2
<1>8. CallFollows(p, k)'
  BY <1>3, <1>6, <1>7 DEF Pair, CallFollows
<1>9. ChildFollows(p, k)'
  BY <1>2, <1>3, <1>6, <1>7 DEF Pair, ChildFollows, Beside
<1> QED BY <1>8, <1>9 DEF Pair


(* A step of the parent leaves the child, which rests, as it is.           *)
Resting(k) ==
  /\ Pc(k) = "idle" /\ Pc(k)' = "idle" /\ Fit(k)' = Fit(k)
  /\ operational_state'[k] = operational_state[k]

LEMMA ParentStepRests ==
  ASSUME TreeInv, AtRoot, [Next]_vars, NEW k \in Node \ {Root}, HandlerStep(parent[k])
  PROVE  Resting(k)
<1>1. parent[k] \in Node /\ parent[k] # k /\ Pc(k) = "idle"
  BY ChildRests
<1>2. ~HandlerStep(k)
  BY <1>1, HandlerEffect DEF TreeInv, Pc
<1> QED BY <1>1, <1>2, HandlerEffect, NodeIsPrivate DEF TreeInv, Resting, Pc, Fit, settled

LEMMA PairReturn ==
  ASSUME TypeOK, NEW k \in Node \ {Root}, Resting(k), NEW r, Return(parent[k], r),
         Fit(parent[k])' => (Fit(k) => operational_state[k] = operational_state'[parent[k]])
  PROVE  Pair(k)'
<1>1. Pc(parent[k])' = "idle"
  BY TreeAssumption DEF Return, Pc, TypeOK, idle
<1> QED BY <1>1 DEF Resting, Pair, CallFollows, ChildFollows, Beside

LEMMA PairPropagate ==
  ASSUME TypeOK, NEW k \in Node \ {Root}, Resting(k), k \in Children(parent[k]),
         Pc(parent[k]) # "idle", worker[parent[k]].caller \notin Children(parent[k]),
         NEW arg, propagate_to_list(parent[k], Cmd(parent[k]), arg),
         Cmd(parent[k]) = "execute_fsm_command" => arg = Arg(parent[k]),
         operational_state' = operational_state,
         Fit(parent[k])' \/ Cmd(parent[k]) = "execute_fsm_command" =>
           Beside(k, operational_state[parent[k]])
  PROVE  Pair(k)'
<1> DEFINE p == parent[k]
<1>1. worker[p] \in Worker /\ worker[p].caller \in Caller /\ k \in Caller /\ p \in Node
  BY TreeAssumption DEF TypeOK, Worker, Caller
<1>2. Pc(p)' = "wait" /\ worker'[p].caller = worker[p].caller
  BY <1>1 DEF propagate_to_list, Pc, TypeOK, Worker
<1>3. call'[worker[p].caller] = call[worker[p].caller]
  BY <1>1 DEF propagate_to_list
<1>4. Cmd(p)' = Cmd(p) /\ Arg(p)' = Arg(p)
  BY <1>2, <1>3 DEF Cmd, Arg
<1>5. call'[k].status = "sent" /\ call'[k].cmd = Cmd(p) /\ call'[k].arg = arg
  BY <1>1 DEF propagate_to_list, request, free
<1>6. CallFollows(p, k)'
  BY <1>4, <1>5 DEF CallFollows
<1>7. ChildFollows(p, k)'
  BY <1>2, <1>4, <1>5 DEF ChildFollows, Beside, Resting
<1> QED BY <1>6, <1>7 DEF Pair

LEMMA PairAdvance ==
  ASSUME NEW k \in Node \ {Root}, Resting(k),
         Pc(parent[k])' \in {"prepared", "joined", "finalised"},
         Pc(parent[k])' = "prepared" => Beside(k, operational_state'[parent[k]]),
         Pc(parent[k])' = "joined" /\ ~worker'[parent[k]].childFailed =>
           Beside(k, Exit(parent[k])'),
         Pc(parent[k])' = "finalised" /\ ~worker'[parent[k]].childFailed =>
           Beside(k, operational_state'[parent[k]])
  PROVE  Pair(k)'
BY DEF Resting, Pair, CallFollows, ChildFollows, Beside

LEMMA PairParentAsks ==
  ASSUME TreeInv, NEW k \in Node \ {Root}, Resting(k), k \in Children(parent[k]), Pair(k),
         ActorStep(parent[k]) \/ InclusionStep(parent[k])
  PROVE  Pair(k)'
<1> DEFINE p == parent[k]
<1>1. p \in Node
  BY TreeAssumption
<1>2. /\ Pc(p) \in {"begin", "wait"} /\ Cmd(p) # "execute_fsm_command"
      /\ operational_state' = operational_state /\ Fit(p)' = Fit(p)
  BY <1>1 DEF ActorStep, InclusionStep, TakeControl, TookControl, SurrenderControl,
              PropagateInclusion, Include, Exclude, At, Pc, Cmd, Fit, settled, include_node,
              exclude_node, nodeVars
<1>3. Fit(p)' => Beside(k, operational_state[p])
  BY <1>2 DEF Pair, ChildFollows
<1>4. CASE TakeControl(p) \/ PropagateInclusion(p, "include") \/ PropagateInclusion(p, "exclude")
  <2>1. propagate_to_list(p, Cmd(p), NoTransition) /\ Pc(p) = "begin"
    BY <1>4 DEF TakeControl, PropagateInclusion, At, Cmd, Pc
  <2>2. worker[p].caller \notin Children(p)
    BY <1>1, <2>1, CallerIsNoChild DEF TreeInv, Pc
  <2> QED BY <1>2, <1>3, <2>1, <2>2, PairPropagate DEF TreeInv
<1>5. CASE TookControl(p) \/ SurrenderControl(p) \/ Include(p) \/ Exclude(p)
  <2>1. PICK r : Return(p, r)
    BY <1>5 DEF TookControl, SurrenderControl, Include, Exclude
  <2> QED BY <1>2, <1>3, <2>1, PairReturn DEF TreeInv, Beside
<1> QED BY <1>4, <1>5 DEF ActorStep, InclusionStep

LEMMA PairParentExecutes ==
  ASSUME TreeInv, NEW k \in Node \ {Root}, Resting(k), k \in Children(parent[k]), Pair(k),
         ExecuteStep(parent[k])
  PROVE  Pair(k)'
<1> DEFINE p == parent[k]
<1>1. /\ p \in Node /\ Pc(p) # "idle" /\ worker[p] \in Worker
      /\ Cmd(p) = "execute_fsm_command"
  <2>1. p \in Node
    BY TreeAssumption
  <2>2. Pc(p) # "idle" /\ Cmd(p) = "execute_fsm_command"
    BY DEF ExecuteStep, RefuseInError, RefuseExcluded, CannotExecute, Prepare, Propagate, Collect,
           Start, Terminate, Finalise, Conclude, Executing, At, Pc, Cmd
  <2> QED BY <2>1, <2>2 DEF TreeInv, TypeOK
<1>2. CASE RefuseInError(p) \/ RefuseExcluded(p) \/ CannotExecute(p)
  <2>1. /\ UNCHANGED nodeVars /\ Pc(p) = "begin" /\ \E r : Return(p, r)
    BY <1>2 DEF RefuseInError, RefuseExcluded, CannotExecute, Executing, At, Pc
  <2>2. Fit(p)' => Beside(k, operational_state'[p])
    BY <2>1 DEF Pair, ChildFollows, Fit, settled, nodeVars
  <2> QED BY <2>1, <2>2, PairReturn DEF TreeInv, Beside
<1>3. ASSUME NEW ok \in BOOLEAN, Prepare(p, ok)
      PROVE  Pair(k)'
  <2>1. /\ Pc(p) = "begin" /\ Fit(p) /\ operational_state' = operational_state
    BY <1>1, <1>3 DEF Prepare, Executing, At, Pc, prepare_transition, can_transition, Fit
  <2>2. Beside(k, operational_state'[p])
    BY <2>1 DEF Pair, ChildFollows
  <2>3. CASE ok
    <3>1. Pc(p)' = "prepared"
      BY <1>1, <1>3, <2>3 DEF Prepare, Pc, TreeInv, TypeOK, Worker
    <3> QED BY <2>2, <3>1, PairAdvance
  <2>4. CASE ~ok
    BY <1>3, <2>2, <2>4, PairReturn DEF Prepare, TreeInv, Beside
  <2> QED BY <2>3, <2>4
<1>4. CASE Propagate(p)
  <2>1. /\ propagate_to_list(p, Cmd(p), Arg(p)) /\ Pc(p) = "prepared"
        /\ operational_state' = operational_state
    BY <1>1, <1>4 DEF Propagate, Executing, At, Pc, propagate_transition_mark, Mark
  <2>2. worker[p].caller \notin Children(p)
    BY <1>1, <2>1, CallerIsNoChild DEF TreeInv, Pc
  <2>3. Beside(k, operational_state[p])
    BY <2>1 DEF Pair, ChildFollows
  <2> QED BY <1>1, <2>1, <2>2, <2>3, PairPropagate DEF TreeInv
<1>5. CASE Collect(p)
  <2>1. /\ Pc(p) = "wait" /\ Joined(p) /\ operational_state' = operational_state
        /\ operational_sub_state'[p] = <<"propagated", Arg(p)>>
    BY <1>1, <1>5 DEF Collect, Executing, At, Pc, finish_propagating_transition_mark, Mark, TreeInv,
                      TypeOK, NodeTypeOK
  <2>2. /\ Pc(p)' = "joined" /\ worker'[p].childFailed = ChildFailed(p)
        /\ worker'[p].caller = worker[p].caller
    BY <1>1, <1>5 DEF Collect, Pc, TreeInv, TypeOK, Worker
  <2>3. call'[worker[p].caller] = call[worker[p].caller]
    <3>1. worker[p].caller \notin Children(p) /\ worker[p].caller \in Caller
      BY <1>1, <2>1, CallerIsNoChild DEF TreeInv, Pc
    <3> QED BY <1>5, <3>1 DEF Collect
  <2>4. Exit(p)' = Destination_of(p)
    BY <2>1, <2>2, <2>3 DEF Exit, Kind, Destination_of, Arg, get_destination_state
  <2>5. ~worker'[p].childFailed => Beside(k, Exit(p)')
    <3>1. call[k].status = "answered"
      BY <2>1 DEF Joined
    <3>2. ~ChildFailed(p) => Success(call[k].response)
      BY DEF ChildFailed, Success
    <3> QED BY <1>1, <2>1, <2>2, <2>4, <3>1, <3>2 DEF Pair, ChildFollows
  <2> QED BY <2>2, <2>5, PairAdvance
<1>6. CASE Start(p) \/ Terminate(p)
  <2>1. /\ Pc(p) = "joined" /\ worker' = worker /\ call' = call /\ Kind(p) # "terminated"
        /\ \/ /\ operational_state' = operational_state
              /\ Kind(p)' # "terminated"
           \/ /\ operational_state'[p] = Destination_of(p)
              /\ Kind(p)' = "terminated"
    BY <1>1, <1>6 DEF Start, Terminate, Executing, At, Pc, start_transition_mark,
                      terminate_transition_mark, Mark, TreeInv, TypeOK, NodeTypeOK, Kind,
                      Destination_of
  <2>2. Exit(p)' = Exit(p)
    BY <2>1 DEF Exit, Destination_of, Arg, get_destination_state
  <2>3. Pc(p)' = "joined" /\ worker'[p].childFailed = worker[p].childFailed
    BY <2>1 DEF Pc
  <2>4. ~worker'[p].childFailed => Beside(k, Exit(p)')
    BY <2>1, <2>2, <2>3 DEF Pair, ChildFollows
  <2> QED BY <2>3, <2>4, PairAdvance
<1>7. ASSUME NEW ok \in BOOLEAN, Finalise(p, ok)
      PROVE  Pair(k)'
  <2>1. /\ Pc(p) = "joined" /\ operational_state' = operational_state
        /\ Kind(p) = "terminated"
        /\ ~ok => operational_sub_state'[p] = <<"finalising", Arg(p)>>
    BY <1>1, <1>7 DEF Finalise, Executing, At, Pc, finalise_transition, TreeInv, TypeOK, NodeTypeOK,
                      Kind
  <2>2. CASE ok
    <3>1. Pc(p)' = "finalised" /\ worker'[p].childFailed = worker[p].childFailed
      BY <1>1, <1>7, <2>2 DEF Finalise, Pc, TreeInv, TypeOK, Worker
    <3>2. ~worker'[p].childFailed => Beside(k, operational_state'[p])
      BY <2>1, <3>1 DEF Pair, ChildFollows, Exit
    <3> QED BY <3>1, <3>2, PairAdvance
  <2>3. CASE ~ok
    <3>1. ~Fit(p)'
      BY <2>1, <2>3 DEF Fit, settled
    <3> QED BY <1>7, <2>3, <3>1, PairReturn DEF Finalise, TreeInv
  <2> QED BY <2>2, <2>3
<1>8. CASE Conclude(p)
  <2>1. /\ Pc(p) = "finalised" /\ operational_state' = operational_state
        /\ worker[p].childFailed => in_error'[p]
        /\ \E r : Return(p, r)
    BY <1>1, <1>8 DEF Conclude, Executing, At, Pc, to_error, nodeVars, TreeInv, TypeOK, NodeTypeOK
  <2>2. Fit(p)' => Beside(k, operational_state'[p])
    BY <2>1 DEF Pair, ChildFollows, Fit
  <2> QED BY <2>1, <2>2, PairReturn DEF TreeInv, Beside
<1> QED BY <1>2, <1>3, <1>4, <1>5, <1>6, <1>7, <1>8 DEF ExecuteStep


(* While a child is at work its parent waits, and keeps still.             *)
Waiting(k) ==
  LET p == parent[k]
  IN  /\ Pc(p) = "wait" /\ Pc(p)' = "wait" /\ Cmd(p)' = Cmd(p) /\ Arg(p)' = Arg(p)
      /\ operational_state'[p] = operational_state[p]
      /\ Fit(p)' = Fit(p) /\ Destination_of(p)' = Destination_of(p)
      /\ k \notin Children(k) /\ worker[k].caller = k
      /\ call[k].status = "served" /\ call[k] \in Call /\ k \in Caller

LEMMA ChildStepWaits ==
  ASSUME TreeInv, TreeInv', AtRoot, [Next]_vars, NEW k \in Node \ {Root}, up[parent[k]],
         HandlerStep(k)
  PROVE  Waiting(k)
<1> DEFINE p == parent[k]
<1>1. p \in Node /\ Pc(k) # "idle"
  BY TreeAssumption, HandlerEffect DEF TreeInv, Pc
<1>2. ~HandlerStep(p) /\ p # k
  BY <1>1, ChildRests
<1>3. worker[k].caller = k /\ call[k].status = "served" /\ Pc(p) = "wait"
  BY <1>1, WorksForParent
<1>4. worker'[p] = worker[p]
  BY <1>1, <1>2, HandlerEffect DEF TreeInv
<1>5. call'[worker'[p].caller] = call[worker[p].caller]
  BY <1>1, <1>3, <1>4, SameCommand DEF Pc
<1>6. /\ operational_state'[p] = operational_state[p] /\ Fit(p)' = Fit(p)
  BY <1>1, <1>2, NodeIsPrivate DEF TreeInv, Fit, settled
<1>7. Pc(p)' = "wait" /\ Cmd(p)' = Cmd(p) /\ Arg(p)' = Arg(p)
  BY <1>3, <1>4, <1>5 DEF Pc, Cmd, Arg
<1>8. Destination_of(p)' = Destination_of(p)
  BY <1>6, <1>7 DEF Destination_of, get_destination_state
<1>9. k \notin Children(k) /\ call[k] \in Call /\ k \in Caller
  BY <1>2, NodeIsCaller DEF Children, TreeInv, TypeOK
<1> QED BY <1>3, <1>6, <1>7, <1>8, <1>9 DEF Waiting

(* The child answers. *)
LEMMA PairAnswered ==
  ASSUME NEW k \in Node \ {Root}, Waiting(k), Pair(k), NEW r, Return(k, r),
         Cmd(parent[k]) # "execute_fsm_command" /\ Fit(parent[k]) =>
           (Fit(k)' => operational_state'[k] = operational_state[parent[k]]),
         Cmd(parent[k]) = "execute_fsm_command" /\ Success(r) =>
           (Fit(k)' => operational_state'[k] = Destination_of(parent[k]))
  PROVE  Pair(k)'
<1> DEFINE p == parent[k]
<1>1. call'[k] = answered(k, r)
  BY DEF Return, Waiting
<1>2. /\ call'[k].status = "answered" /\ call'[k].response = r
      /\ call'[k].cmd = call[k].cmd /\ call'[k].arg = call[k].arg
  BY <1>1 DEF answered, Waiting, Call
<1>3. CallFollows(p, k)'
  BY <1>2 DEF Waiting, Pair, CallFollows
<1>4. ChildFollows(p, k)'
  BY <1>2 DEF Waiting, ChildFollows, Beside
<1> QED BY <1>3, <1>4 DEF Pair

(* The child goes on with the transition. *)
LEMMA PairServes ==
  ASSUME NEW k \in Node \ {Root}, Waiting(k), Pair(k), call'[k] = call[k],
         Cmd(parent[k]) # "execute_fsm_command" /\ Fit(parent[k]) =>
           (Fit(k)' => operational_state'[k] = operational_state[parent[k]]),
         Cmd(parent[k]) = "execute_fsm_command" =>
           /\ Pc(k)' # "begin"
           /\ Pc(k)' \in {"prepared", "wait"} =>
                operational_state'[k] = operational_state[parent[k]]
           /\ Pc(k)' = "joined" => Exit(k)' = Destination_of(parent[k])
           /\ Pc(k)' = "finalised" => operational_state'[k] = Destination_of(parent[k])
  PROVE  Pair(k)'
<1> DEFINE p == parent[k]
<1>1. CallFollows(p, k)'
  BY DEF Waiting, Pair, CallFollows
<1>2. ChildFollows(p, k)'
  BY DEF Waiting, ChildFollows, Beside
<1> QED BY <1>1, <1>2 DEF Pair

LEMMA PairChildAsks ==
  ASSUME TreeInv, NEW k \in Node \ {Root}, Waiting(k), Pair(k), ActorStep(k) \/ InclusionStep(k)
  PROVE  Pair(k)'
<1> DEFINE p == parent[k]
<1>1. /\ operational_state' = operational_state /\ Fit(k)' = Fit(k)
      /\ Cmd(k) # "execute_fsm_command"
  BY DEF ActorStep, InclusionStep, TakeControl, TookControl, SurrenderControl, PropagateInclusion,
         Include, Exclude, At, Cmd, Fit, settled, include_node, exclude_node, nodeVars
<1>2. Cmd(p) # "execute_fsm_command"
  BY <1>1 DEF Waiting, Pair, CallFollows, Cmd
<1>3. Fit(p) => (Fit(k)' => operational_state'[k] = operational_state[p])
  BY <1>1, <1>2 DEF Waiting, Pair, ChildFollows, Beside
<1>4. CASE TakeControl(k) \/ PropagateInclusion(k, "include") \/ PropagateInclusion(k, "exclude")
  <2>1. call'[k] = call[k]
    BY <1>4 DEF TakeControl, PropagateInclusion, propagate_to_list, Waiting
  <2> QED BY <1>2, <1>3, <2>1, PairServes
<1>5. CASE TookControl(k) \/ SurrenderControl(k) \/ Include(k) \/ Exclude(k)
  <2>1. PICK r : Return(k, r)
    BY <1>5 DEF TookControl, SurrenderControl, Include, Exclude
  <2> QED BY <1>2, <1>3, <2>1, PairAnswered
<1> QED BY <1>4, <1>5 DEF ActorStep, InclusionStep

LEMMA PairChildExecutes ==
  ASSUME TreeInv, NEW k \in Node \ {Root}, Waiting(k), Pair(k), ExecuteStep(k)
  PROVE  Pair(k)'
<1> DEFINE p == parent[k]
<1>1. Cmd(k) = "execute_fsm_command" /\ worker[k] \in Worker
  BY DEF ExecuteStep, RefuseInError, RefuseExcluded, CannotExecute, Prepare, Propagate, Collect,
         Start, Terminate, Finalise, Conclude, Executing, At, Cmd, TreeInv, TypeOK
<1>2. Cmd(p) = "execute_fsm_command" /\ Arg(k) = Arg(p)
  BY <1>1 DEF Waiting, Pair, CallFollows, Cmd, Arg
<1>3. /\ Pc(k) = "begin" => Beside(k, operational_state[p])
      /\ Pc(k) \in {"prepared", "wait"} => operational_state[k] = operational_state[p]
      /\ Pc(k) = "joined" => Exit(k) = Destination_of(p)
      /\ Pc(k) = "finalised" => operational_state[k] = Destination_of(p)
  BY <1>2 DEF Waiting, Pair, ChildFollows
<1>4. CASE RefuseInError(k) \/ RefuseExcluded(k) \/ CannotExecute(k)
  <2>1. PICK r : Return(k, r) /\ ~Success(r)
    BY <1>4 DEF RefuseInError, RefuseExcluded, CannotExecute, respond, exceptionResponse, Success
  <2> QED BY <1>2, <2>1, PairAnswered
<1>5. ASSUME NEW ok \in BOOLEAN, Prepare(k, ok)
      PROVE  Pair(k)'
  <2>1. /\ Pc(k) = "begin" /\ Fit(k) /\ operational_state' = operational_state
    BY <1>5 DEF Prepare, Executing, At, Pc, prepare_transition, can_transition, Fit
  <2>2. CASE ok
    <3>1. Pc(k)' = "prepared" /\ call'[k] = call[k]
      BY <1>1, <1>5, <2>2 DEF Prepare, Pc, TreeInv, TypeOK, Worker
    <3>2. operational_state'[k] = operational_state[p]
      BY <1>3, <2>1 DEF Beside
    <3> QED BY <1>2, <3>1, <3>2, PairServes
  <2>3. CASE ~ok
    <3>1. Return(k, exceptionResponse) /\ ~Success(exceptionResponse)
      BY <1>5, <2>3 DEF Prepare, exceptionResponse, respond, Success
    <3> QED BY <1>2, <3>1, PairAnswered
  <2> QED BY <2>2, <2>3
<1>6. CASE Propagate(k)
  <2>1. /\ Pc(k) = "prepared" /\ operational_state' = operational_state
    BY <1>6 DEF Propagate, Executing, At, Pc, propagate_transition_mark, Mark
  <2>2. Pc(k)' = "wait" /\ call'[k] = call[k]
    BY <1>1, <1>6 DEF Propagate, propagate_to_list, Pc, TreeInv, TypeOK, Worker, Waiting
  <2> QED BY <1>2, <1>3, <2>1, <2>2, PairServes
<1>7. CASE Collect(k)
  <2>1. /\ Pc(k) = "wait" /\ operational_state' = operational_state
        /\ operational_sub_state'[k] = <<"propagated", Arg(k)>>
    BY <1>7 DEF Collect, Executing, At, Pc, finish_propagating_transition_mark, Mark, TreeInv,
                TypeOK, NodeTypeOK
  <2>2. Pc(k)' = "joined" /\ call'[k] = call[k] /\ worker'[k].caller = k
    BY <1>1, <1>7 DEF Collect, Pc, TreeInv, TypeOK, Worker, Waiting
  <2>3. Arg(k)' = Arg(k)
    BY <2>2 DEF Arg, Waiting
  <2>4. Exit(k)' = Destination_of(p)
    BY <1>2, <1>3, <2>1, <2>3 DEF Exit, Kind, Destination_of, get_destination_state
  <2> QED BY <1>2, <2>2, <2>4, PairServes
<1>8. CASE Start(k) \/ Terminate(k)
  <2>1. /\ Pc(k) = "joined" /\ worker' = worker /\ call' = call /\ Kind(k) # "terminated"
        /\ \/ /\ operational_state' = operational_state
              /\ Kind(k)' # "terminated"
           \/ /\ operational_state'[k] = Destination_of(k)
              /\ Kind(k)' = "terminated"
    BY <1>8 DEF Start, Terminate, Executing, At, Pc, start_transition_mark,
                terminate_transition_mark, Mark, TreeInv, TypeOK, NodeTypeOK, Kind, Destination_of
  <2>2. Exit(k)' = Exit(k)
    BY <2>1 DEF Exit, Destination_of, Arg, get_destination_state
  <2>3. Pc(k)' = "joined" /\ call'[k] = call[k]
    BY <2>1 DEF Pc
  <2> QED BY <1>2, <1>3, <2>1, <2>2, <2>3, PairServes
<1>9. ASSUME NEW ok \in BOOLEAN, Finalise(k, ok)
      PROVE  Pair(k)'
  <2>1. /\ Pc(k) = "joined" /\ operational_state' = operational_state
        /\ Kind(k) = "terminated"
    BY <1>9 DEF Finalise, Executing, At, Pc, finalise_transition, TreeInv, TypeOK, NodeTypeOK, Kind
  <2>2. CASE ok
    <3>1. Pc(k)' = "finalised" /\ call'[k] = call[k]
      BY <1>1, <1>9, <2>2 DEF Finalise, Pc, TreeInv, TypeOK, Worker
    <3>2. operational_state'[k] = Destination_of(p)
      BY <1>3, <2>1 DEF Exit
    <3> QED BY <1>2, <3>1, <3>2, PairServes
  <2>3. CASE ~ok
    <3>1. Return(k, exceptionResponse) /\ ~Success(exceptionResponse)
      BY <1>9, <2>3 DEF Finalise, exceptionResponse, respond, Success
    <3> QED BY <1>2, <3>1, PairAnswered
  <2> QED BY <2>2, <2>3
<1>10. CASE Conclude(k)
  <2>1. /\ Pc(k) = "finalised" /\ operational_state' = operational_state
        /\ \E r : Return(k, r)
    BY <1>10 DEF Conclude, Executing, At, Pc, to_error, nodeVars
  <2> QED BY <1>2, <1>3, <2>1, PairAnswered
<1> QED BY <1>4, <1>5, <1>6, <1>7, <1>8, <1>9, <1>10 DEF ExecuteStep

LEMMA ControllersFollowInit ==
  ASSUME Init
  PROVE  ControllersFollow /\ AtRoot
<1>1. AtRoot
  BY NodeIsCaller DEF Init, AtRoot, RootIsNoCallee, UsersAtRoot, free
<1>2. ASSUME NEW k \in Node \ {Root}
      PROVE  CallFollows(parent[k], k) /\ ChildFollows(parent[k], k)
  <2>1. /\ Pc(parent[k]) = "idle" /\ k \in Node /\ parent[k] \in Node
        /\ operational_state[k] = operational_state[parent[k]]
    BY TreeAssumption DEF Init, NodeInit, idle, Pc
  <2> QED BY <2>1 DEF CallFollows, ChildFollows, Beside
<1> QED BY <1>1, <1>2 DEF ControllersFollow

(* No process comes back. *)
LEMMA AliveBefore ==
  ASSUME TreeInv, [Next]_vars, NEW c \in Node, up'[c]
  PROVE  up[c]
<1>1. ASSUME NEW d \in Node, HandlerStep(d)
      PROVE  up' = up
  BY <1>1 DEF HandlerStep, ActorStep, InclusionStep, ExecuteStep, TakeControl, TookControl,
         SurrenderControl, PropagateInclusion, Include, Exclude, RefuseInError, RefuseExcluded,
         CannotExecute, Prepare, Propagate, Collect, Start, Terminate, Finalise, Conclude
<1>2. CASE \E d \in Node : Crash(d)
  BY <1>2 DEF Crash, TreeInv, TypeOK
<1>3. CASE ~ \E d \in Node : HandlerStep(d) \/ Crash(d)
  BY <1>3 DEF Next, UserStep, UserSend, UserReceive, NotInControl, Accept, RestStep,
         RestInclusion, RestTakeControl, RestExecute, RestFail, RestAnswer, Unreachable, vars
<1> QED BY <1>1, <1>2, <1>3

LEMMA ControllersFollowStep ==
  ASSUME \A u \in User : Entry[u] \subseteq {Root}, TreeInv, TreeInv', AtRoot, ControllersFollow,
         [Next]_vars
  PROVE  ControllersFollow'
<1> SUFFICES ASSUME NEW k \in Node \ {Root}, up'[k], up'[parent[k]]
             PROVE  Pair(k)'
  BY DEF ControllersFollow, Pair
<1>1. parent[k] \in Node
  BY TreeAssumption
<1>2. up[k] /\ up[parent[k]]
  BY <1>1, AliveBefore
<1>3. Pair(k)
  BY <1>2 DEF ControllersFollow, Pair
<1>4. CASE HandlerStep(parent[k])
  BY <1>3, <1>4, ChildRests, ParentStepRests, PairParentAsks, PairParentExecutes DEF HandlerStep
<1>5. CASE HandlerStep(k)
  BY <1>2, <1>3, <1>5, ChildStepWaits, PairChildAsks, PairChildExecutes DEF HandlerStep
<1>6. CASE NotInControl(k, k) \/ Accept(k, k)
  BY <1>2, <1>3, <1>6, PairServed
<1> QED BY <1>2, <1>3, <1>4, <1>5, <1>6, PairUntouched

(* When users talk to the root only, two controllers that are ready for a  *)
(* next transition, one the parent of the other, are in the same state,    *)
(* whatever failed, died or was refused before.                            *)
THEOREM ControllersStayInStep ==
  ASSUME \A u \in User : Entry[u] \subseteq {Root}
  PROVE  Spec => []ControllersInStep
<1>1. TreeInv /\ ControllersFollow => ControllersInStep
  <2> SUFFICES ASSUME TreeInv, ControllersFollow, NEW k \in Node \ {Root}, Healthy(k),
                      Healthy(parent[k])
               PROVE  operational_state[k] = operational_state[parent[k]]
    BY DEF ControllersInStep
  <2>1. up[k] /\ up[parent[k]] /\ Fit(k) /\ Fit(parent[k]) /\ Pc(parent[k]) = "idle"
    BY DEF Healthy, Fit, Pc
  <2> QED BY <2>1 DEF ControllersFollow, ChildFollows, Beside
<1>2. TreeInv /\ TreeInv' /\ AtRoot /\ ControllersFollow /\ [Next]_vars =>
        AtRoot' /\ ControllersFollow'
  BY AtRootStep, ControllersFollowStep
<1>3. Init => AtRoot /\ ControllersFollow
  BY ControllersFollowInit
<1> QED
  BY <1>1, <1>2, <1>3, TreeInvInit, TreeInvStep, PTL DEF Spec

-----------------------------------------------------------------------------
(* Control over the tree, when users talk to the root only *)

(* A controller and its child have one actor, unless nobody is in control  *)
(* of the parent, or it is at work on passing take_control on: then the    *)
(* child has the new actor from where it answers, or waits for its own     *)
(* children.  Nothing else that is passed on changes an actor.             *)
OneActor(c, k) ==
  /\ Pc(c) = "wait" => Cmd(c) # "surrender_control"
  /\ IF Pc(c) = "wait" /\ Cmd(c) = "take_control"
       THEN /\ call[k].token = actor[c]
            /\ Pc(k) = "wait" \/ call[k].status = "answered" => actor[k] = actor[c]
       ELSE actor[c] # NoToken => actor[k] = actor[c]

ActorsAgree ==
  \A k \in Node \ {Root} : up[k] /\ up[parent[k]] => OneActor(parent[k], k)

LEMMA ActorIsPrivate ==
  ASSUME TypeOK, [Next]_vars, NEW c \in Node, ~TakeControl(c), ~SurrenderControl(c)
  PROVE  actor'[c] = actor[c]
<1>1. CASE \E d \in Node : TakeControl(d) \/ SurrenderControl(d)
  BY <1>1 DEF TakeControl, SurrenderControl, TypeOK
<1>2. ASSUME NEW d \in Node, HandlerStep(d), ~TakeControl(d), ~SurrenderControl(d)
      PROVE  actor' = actor
  BY <1>2 DEF HandlerStep, ActorStep, InclusionStep, ExecuteStep, TookControl, PropagateInclusion,
     Include, Exclude, RefuseInError, RefuseExcluded, CannotExecute, Prepare, Propagate, Collect,
     Start, Terminate, Finalise, Conclude
<1>3. CASE ~ \E d \in Node : HandlerStep(d)
  BY <1>3 DEF Next, UserStep, UserSend, UserReceive, NotInControl, Accept, Crash, RestStep,
     RestInclusion, RestTakeControl, RestExecute, RestFail, RestAnswer, Unreachable, vars
<1> QED BY <1>1, <1>2, <1>3

(* A step of neither of the two handlers, nor of the line between them.    *)
LEMMA ActorsUntouched ==
  ASSUME TreeInv, TreeInv', AtRoot, [Next]_vars, NEW k \in Node \ {Root},
         up[k], up[parent[k]], up'[k], up'[parent[k]],
         ~HandlerStep(parent[k]), ~HandlerStep(k), ~NotInControl(k, k), ~Accept(k, k),
         OneActor(parent[k], k)
  PROVE  OneActor(parent[k], k)'
<1> DEFINE p == parent[k]
<1>1. p \in Node /\ k \in Node
  BY TreeAssumption
<1>2. call'[k] = call[k]
  BY LineOfControllerIsPrivate
<1>3. actor'[k] = actor[k] /\ actor'[p] = actor[p]
  BY <1>1, ActorIsPrivate DEF HandlerStep, ActorStep, TreeInv
<1>4. ~Crash(p) /\ ~Crash(k)
  BY <1>1 DEF Crash, TreeInv, TypeOK
<1>5. Pc(k)' = Pc(k)
  <2>1. ASSUME NEW x \in Caller, Accept(k, x)
        PROVE  x = k
    BY <2>1, OnlyTheParentCalls DEF Accept, Pending
  <2> QED BY <1>1, <1>4, <2>1, WorkerIsPrivate DEF TreeInv, Pc
<1>6. CASE Pc(p) # "idle" /\ worker'[p] = worker[p]
  <2>1. call'[worker'[p].caller] = call[worker[p].caller]
    BY <1>1, <1>6, SameCommand DEF Pc
  <2>2. Pc(p)' = Pc(p) /\ Cmd(p)' = Cmd(p)
    BY <1>6, <2>1 DEF Pc, Cmd
  <2> QED BY <1>2, <1>3, <1>5, <2>2 DEF OneActor
<1>7. CASE Pc(p) = "idle" /\ Pc(p)' \in {"idle", "begin"}
  BY <1>2, <1>3, <1>5, <1>7 DEF OneActor
<1>8. ASSUME NEW x \in Caller, Accept(p, x)
      PROVE  Pc(p) = "idle" /\ Pc(p)' = "begin"
  BY <1>1, <1>8 DEF Accept, Pending, Pc, TreeInv, TypeOK, idle
<1> QED BY <1>1, <1>4, <1>6, <1>7, <1>8, WorkerIsPrivate DEF TreeInv, Pc

(* The child takes the command from its line.  It is in control of no one  *)
(* to take control, so that this command is not refused.                   *)
LEMMA ActorsServed ==
  ASSUME TreeInv, TreeInv', AtRoot, [Next]_vars, NEW k \in Node \ {Root},
         up[k], up[parent[k]], NotInControl(k, k) \/ Accept(k, k),
         CallFollows(parent[k], k), OneActor(parent[k], k)
  PROVE  OneActor(parent[k], k)'
<1> DEFINE p == parent[k]
<1>1. /\ p \in Node /\ k \in Node /\ k \in Caller /\ k \in Children(p) /\ call[k] \in Call
  BY TreeAssumption DEF Children, Caller, TreeInv, TypeOK
<1>2. /\ Pc(k) = "idle" /\ call[k].status = "sent" /\ actor' = actor
  BY DEF NotInControl, Accept, Pending, Pc
<1>3. Pc(p) = "wait"
  BY <1>1, <1>2 DEF TreeInv, CallInv, LinesFreeUnlessWaiting, Pc
<1>4. worker'[p] = worker[p]
  BY <1>1, <1>2, <1>3 DEF NotInControl, Accept, TreeInv, TypeOK, Pc
<1>5. call'[worker'[p].caller] = call[worker[p].caller]
  BY <1>1, <1>3, <1>4, SameCommand DEF Pc
<1>6. Pc(p)' = "wait" /\ Cmd(p)' = Cmd(p)
  BY <1>3, <1>4, <1>5 DEF Pc, Cmd
<1>7. CASE Cmd(p) # "take_control"
  BY <1>2, <1>3, <1>6, <1>7 DEF OneActor
<1>8. CASE Cmd(p) = "take_control"
  <2>1. Accept(k, k)
    BY <1>3, <1>8 DEF CallFollows, NotInControl, InControlCommand
  <2>2. call'[k] = [call[k] EXCEPT !.status = "served"] /\ Pc(k)' = "begin"
    BY <1>1, <2>1 DEF Accept, TreeInv, TypeOK, Pc, idle
  <2>3. call'[k].status = "served" /\ call'[k].token = call[k].token
    BY <1>1, <2>2 DEF Call
  <2> QED BY <1>2, <1>3, <1>6, <1>8, <2>2, <2>3 DEF OneActor
<1> QED BY <1>7, <1>8

(* The parent takes a step while its child rests.                          *)
LEMMA ActorsParentSteps ==
  ASSUME TreeInv, TreeInv', AtRoot, [Next]_vars, NEW k \in Node \ {Root},
         HandlerStep(parent[k]), OneActor(parent[k], k)
  PROVE  OneActor(parent[k], k)'
<1> DEFINE p == parent[k]
<1>1. /\ p \in Node /\ k \in Children(p) /\ k \in Caller /\ p # k
      /\ Pc(p) = "wait" => call[k].status = "answered"
  BY ChildRests
<1>2. Pc(k) = "idle" /\ Pc(k)' = "idle"
  BY ParentStepRests DEF Resting
<1>3. Pc(p) # "idle" /\ worker[p] \in Worker /\ worker[p].caller \in Caller
  BY <1>1, HandlerEffect DEF TreeInv, TypeOK, Worker, Pc
<1>4. ~HandlerStep(k)
  BY <1>2, HandlerEffect DEF TreeInv, Pc
<1>5. actor'[k] = actor[k]
  BY <1>4, ActorIsPrivate DEF HandlerStep, ActorStep, TreeInv
<1>6. Pc(p)' # "idle" => Cmd(p)' = Cmd(p)
  <2> SUFFICES ASSUME Pc(p)' # "idle" PROVE Cmd(p)' = Cmd(p)
    OBVIOUS
  <2>1. /\ worker'[p].caller = worker[p].caller
        /\ call'[worker[p].caller] = call[worker[p].caller]
    BY <1>1, <1>3, SameCommand DEF Pc
  <2> QED BY <2>1 DEF Cmd
<1>7. CASE TakeControl(p)
  <2>1. actor'[p] = TokenOf(p) /\ Pc(p)' = "wait" /\ Cmd(p) = "take_control"
    BY <1>1, <1>3, <1>7 DEF TakeControl, propagate_to_list, At, Pc, Cmd, TreeInv, TypeOK, Worker
  <2>2. call'[k] = request(k, "take_control", NoTransition, TokenOf(p))
    BY <1>1, <1>7 DEF TakeControl, propagate_to_list
  <2>3. call'[k].token = TokenOf(p) /\ call'[k].status = "sent"
    BY <2>2 DEF request, free
  <2> QED BY <1>2, <1>6, <2>1, <2>3 DEF OneActor
<1>8. CASE TookControl(p)
  <2>1. actor' = actor /\ Pc(p) = "wait" /\ Cmd(p) = "take_control"
    BY <1>8 DEF TookControl, At, Pc, Cmd
  <2>2. Pc(p)' = "idle"
    BY <1>1, <1>8 DEF TookControl, Return, Pc, TreeInv, TypeOK, idle
  <2> QED BY <1>1, <2>1, <2>2 DEF OneActor
<1>9. CASE SurrenderControl(p)
  <2>1. actor'[p] = NoToken /\ Pc(p)' = "idle"
    BY <1>1, <1>9 DEF SurrenderControl, Return, Pc, TreeInv, TypeOK, idle
  <2> QED BY <2>1 DEF OneActor
<1>10. CASE InclusionStep(p) \/ ExecuteStep(p)
  <2>1. Cmd(p) \notin {"take_control", "surrender_control"} /\ actor' = actor
    BY <1>10 DEF InclusionStep, ExecuteStep, PropagateInclusion, Include, Exclude, RefuseInError,
       RefuseExcluded, CannotExecute, Prepare, Propagate, Collect, Start, Terminate, Finalise,
       Conclude, Executing, At, Cmd
  <2> QED BY <1>6, <2>1 DEF OneActor
<1> QED BY <1>7, <1>8, <1>9, <1>10 DEF HandlerStep, ActorStep

(* The child takes a step while its parent waits for it.                   *)
LEMMA ActorsChildSteps ==
  ASSUME TreeInv, TreeInv', AtRoot, [Next]_vars, NEW k \in Node \ {Root}, up[parent[k]],
         HandlerStep(k), CallFollows(parent[k], k), OneActor(parent[k], k)
  PROVE  OneActor(parent[k], k)'
<1> DEFINE p == parent[k]
<1>1. /\ Pc(p) = "wait" /\ Pc(p)' = "wait" /\ Cmd(p)' = Cmd(p)
      /\ k \notin Children(k) /\ worker[k].caller = k
      /\ call[k].status = "served" /\ call[k] \in Call /\ k \in Caller
  BY ChildStepWaits DEF Waiting
<1>2. Cmd(k) = Cmd(p) /\ TokenOf(k) = call[k].token
  BY <1>1 DEF CallFollows, Cmd, TokenOf
<1>3. p \in Node /\ ~HandlerStep(p)
  <2>1. Pc(k) # "idle"
    BY HandlerEffect DEF TreeInv, Pc
  <2> QED BY <2>1, ChildRests, TreeAssumption
<1>4. actor'[p] = actor[p]
  BY <1>3, ActorIsPrivate DEF HandlerStep, ActorStep, TreeInv
<1>5. CASE TakeControl(k)
  <2>1. Cmd(p) = "take_control" /\ actor'[k] = call[k].token /\ call'[k] = call[k]
    BY <1>1, <1>2, <1>5 DEF TakeControl, propagate_to_list, At, Cmd, TreeInv, TypeOK
  <2> QED BY <1>1, <1>4, <2>1 DEF OneActor
<1>6. CASE TookControl(k)
  <2>1. Cmd(p) = "take_control" /\ actor' = actor /\ Pc(k) = "wait"
    BY <1>2, <1>6 DEF TookControl, At, Cmd, Pc
  <2>2. \E r : call'[k] = answered(k, r)
    BY <1>1, <1>6 DEF TookControl, Return
  <2>3. call'[k].token = call[k].token
    BY <1>1, <2>2 DEF answered, Call
  <2> QED BY <1>1, <2>1, <2>3 DEF OneActor
<1>7. ~SurrenderControl(k)
  BY <1>1, <1>2 DEF SurrenderControl, At, Cmd, OneActor
<1>8. CASE InclusionStep(k) \/ ExecuteStep(k)
  <2>1. Cmd(k) # "take_control" /\ actor' = actor
    BY <1>8 DEF InclusionStep, ExecuteStep, PropagateInclusion, Include, Exclude, RefuseInError,
       RefuseExcluded, CannotExecute, Prepare, Propagate, Collect, Start, Terminate, Finalise,
       Conclude, Executing, At, Cmd
  <2> QED BY <1>1, <1>2, <2>1 DEF OneActor
<1> QED BY <1>5, <1>6, <1>7, <1>8 DEF HandlerStep, ActorStep

LEMMA ActorsAgreeInit ==
  ASSUME Init
  PROVE  ActorsAgree
<1>1. ASSUME NEW k \in Node \ {Root}
      PROVE  OneActor(parent[k], k)
  <2>1. Pc(parent[k]) = "idle" /\ actor[k] = actor[parent[k]]
    BY TreeAssumption DEF Init, idle, Pc
  <2> QED BY <2>1 DEF OneActor
<1> QED BY <1>1 DEF ActorsAgree

LEMMA ActorsAgreeStep ==
  ASSUME TreeInv, TreeInv', AtRoot, ControllersFollow, ActorsAgree, [Next]_vars
  PROVE  ActorsAgree'
<1> SUFFICES ASSUME NEW k \in Node \ {Root}, up'[k], up'[parent[k]]
             PROVE  OneActor(parent[k], k)'
  BY DEF ActorsAgree
<1>1. up[k] /\ up[parent[k]]
  BY TreeAssumption, AliveBefore
<1>2. CallFollows(parent[k], k) /\ OneActor(parent[k], k)
  BY <1>1 DEF ControllersFollow, ActorsAgree
<1>3. CASE HandlerStep(parent[k])
  BY <1>2, <1>3, ActorsParentSteps
<1>4. CASE HandlerStep(k)
  BY <1>1, <1>2, <1>4, ActorsChildSteps
<1>5. CASE NotInControl(k, k) \/ Accept(k, k)
  BY <1>1, <1>2, <1>5, ActorsServed
<1> QED BY <1>1, <1>2, <1>3, <1>4, <1>5, ActorsUntouched

-----------------------------------------------------------------------------
(* From one parent and its child to the whole tree *)

(* A node and what is above its parent is what is above a node.  There is  *)
(* a function that says so, whatever the parents: it gives what every set  *)
(* has that has x and, with a node, its parent.                            *)
LEMMA AncestorsUnfold ==
  ASSUME NEW x \in Node \cup RestChild
  PROVE  ancestors[x] = IF x = Root THEN {Root} ELSE {x} \cup ancestors[parent[x]]
<1> DEFINE All       == Node \cup RestChild
           Closed(C) == \A z \in C : z = Root \/ parent[z] \in C
           Above(z)  == {y \in All : \A C \in SUBSET All : z \in C /\ Closed(C) => y \in C}
           above     == [z \in All |-> Above(z)]
           Step(f)   == [z \in All |-> IF z = Root THEN {Root} ELSE {z} \cup f[parent[z]]]
<1>1. Above(Root) = {Root}
  <2>1. Root \in All
    BY TreeAssumption
  <2>2. {Root} \in SUBSET All /\ Closed({Root})
    BY <2>1
  <2> QED BY <2>1, <2>2
<1>2. ASSUME NEW z \in All, z # Root
      PROVE  Above(z) = {z} \cup Above(parent[z])
  <2>1. parent[z] \in All
    BY <1>2, TreeAssumption
  <2>2. ASSUME NEW y \in Above(parent[z])
        PROVE  y \in Above(z)
    BY <1>2, <2>2
  <2>3. ASSUME NEW y \in Above(z), y # z, NEW C \in SUBSET All, parent[z] \in C, Closed(C)
        PROVE  y \in C
    <3>1. C \cup {z} \in SUBSET All /\ z \in C \cup {z} /\ Closed(C \cup {z})
      BY <2>3
    <3>2. y \in C \cup {z}
      BY <2>3, <3>1
    <3> QED BY <2>3, <3>2
  <2> QED BY <2>2, <2>3
<1>3. above = Step(above)
  <2>1. ASSUME NEW z \in All
        PROVE  above[z] = IF z = Root THEN {Root} ELSE {z} \cup above[parent[z]]
    <3>1. CASE z = Root
      BY <1>1, <3>1, TreeAssumption
    <3>2. CASE z # Root
      <4>1. parent[z] \in All
        BY <3>2, TreeAssumption
      <4> HIDE DEF Above
      <4> QED BY <1>2, <3>2, <4>1
    <3> QED BY <3>1, <3>2
  <2> HIDE DEF Above
  <2> QED BY <2>1
<1>4. ancestors = CHOOSE f : f = Step(f)
  BY DEF ancestors
<1> HIDE DEF above
<1>5. ancestors = Step(ancestors)
  BY <1>3, <1>4
<1> QED BY <1>5


(* A controller below one that is idle and has an actor is idle too, and   *)
(* has the same actor.                                                     *)
LEMMA ActorPassesDown ==
  ASSUME TreeInv, AtRoot, ActorsAgree, NEW k \in Node \ {Root}, up[k], up[parent[k]],
         Pc(parent[k]) = "idle", actor[parent[k]] # NoToken
  PROVE  Pc(k) = "idle" /\ actor[k] = actor[parent[k]]
<1>1. OneActor(parent[k], k)
  BY DEF ActorsAgree
<1>2. actor[k] = actor[parent[k]]
  BY <1>1 DEF OneActor
<1> QED BY <1>2, WorksForParent

(* Induction over the tree: of the controllers that can be reached and     *)
(* have another actor than the root, one is under a controller that has    *)
(* the root's.                                                             *)
LEMMA OneActorInTheTree ==
  ASSUME TreeInv, AtRoot, ActorsAgree
  PROVE  ControlIsTreeWide
<1> SUFFICES ASSUME up[Root], Pc(Root) = "idle", actor[Root] # NoToken
             PROVE  \A k \in Node : (\A m \in ancestors[k] : up[m]) => actor[k] = actor[Root]
  BY DEF ControlIsTreeWide, Pc
<1> DEFINE Reached(k) == \A m \in ancestors[k] : up[m]
           Obeys(k)   == Pc(k) = "idle" /\ actor[k] = actor[Root]
           Apart      == {k \in Node : Reached(k) /\ ~Obeys(k)}
<1>1. ASSUME Apart # {}
      PROVE  FALSE
  <2>1. PICK k \in Apart : k = Root \/ parent[k] \notin Apart
    BY <1>1, RootedAssumption
  <2>2. k # Root
    BY <2>1
  <2>3. parent[k] \in Node /\ ancestors[k] = {k} \cup ancestors[parent[k]]
    BY <2>1, <2>2, AncestorsUnfold, TreeAssumption
  <2>4. parent[k] \in ancestors[parent[k]]
    BY <2>3, AncestorsUnfold
  <2>5. up[k] /\ up[parent[k]] /\ Obeys(parent[k])
    BY <2>1, <2>2, <2>3, <2>4
  <2> QED BY <2>1, <2>2, <2>5, ActorPassesDown
<1> QED BY <1>1

(* When users talk to the root only, taking control of the root is taking  *)
(* control of every controller that can be reached from it, in every tree, *)
(* whatever commands come before and after and whatever controllers die.   *)
THEOREM ControlReachesTheTree ==
  ASSUME \A u \in User : Entry[u] \subseteq {Root}
  PROVE  Spec => []ControlIsTreeWide
<1>1. TreeInv /\ TreeInv' /\ AtRoot /\ ControllersFollow /\ ActorsAgree /\ [Next]_vars =>
        AtRoot' /\ ControllersFollow' /\ ActorsAgree'
  BY AtRootStep, ControllersFollowStep, ActorsAgreeStep
<1>2. Init => AtRoot /\ ControllersFollow /\ ActorsAgree
  BY ControllersFollowInit, ActorsAgreeInit
<1>3. TreeInv /\ AtRoot /\ ActorsAgree => ControlIsTreeWide
  BY OneActorInTheTree
<1> QED
  BY <1>1, <1>2, <1>3, TreeInvInit, TreeInvStep, PTL DEF Spec

-----------------------------------------------------------------------------
(* What a clean response speaks for, when users talk to the root only *)

(* Fit for a next transition, and nothing under way below it, ... *)
Quiet(y) ==
  /\ y \in Node => /\ Fit(y) /\ Pc(y) = "idle"
                   /\ \A z \in Children(y) : call[z].status = "free"
  /\ y \in RestChild => ~rest[y].errored

State_of(y) == IF y \in Node THEN operational_state[y] ELSE rest[y].state

(* ... and the same for all that is below x, in the state of x. *)
AllDone(x) == \A y \in Tree(x) : Quiet(y) /\ State_of(y) = State_of(x)

(* The state that c is in, or goes to, past its propagation. *)
Target(c) ==
  IF Pc(c) = "wait" THEN Destination_of(c)
  ELSE IF Pc(c) = "joined" THEN Exit(c) ELSE operational_state[c]

(* The parent of k has it that k and all below it have executed. *)
Reported(k) ==
  LET p == parent[k]
  IN  \/ /\ Pc(p) = "wait" /\ Cmd(p) = "execute_fsm_command"
         /\ call[k].status = "answered" /\ call[k].response.clean
      \/ Pc(p) \in {"joined", "finalised"} /\ worker[p].cleanChildren

ReportsHold ==
  \A k \in Node \ {Root} :
    up[parent[k]] /\ Reported(k) => AllDone(k) /\ operational_state[k] = Target(parent[k])

(* No clean response is a failure, neither one that is sent nor those that *)
(* a handler remembers; and who is done with its callbacks is settled.     *)
CleanIsSuccess ==
  \A x \in Caller :
    /\ call[x].status = "answered" /\ call[x].cmd = "execute_fsm_command"
    /\ call[x].response.clean
    => Success(call[x].response)

Sound(c) ==
  /\ Pc(c) \in {"joined", "finalised"} /\ worker[c].cleanChildren => ~worker[c].childFailed
  /\ Pc(c) = "finalised" => settled(c)

(* The line to x bears the command of the parent that waits for it.        *)
Bears(x) ==
  up[parent[x]] /\ Pc(parent[x]) = "wait" =>
    call[x].status # "free" /\ call[x].cmd = Cmd(parent[x])

HonestInv ==
  /\ ExecutingIsHealthy
  /\ \A x \in DOMAIN parent : Bears(x)
  /\ CleanIsSuccess
  /\ \A c \in Node : Sound(c)
  /\ ReportsHold

(* Down the tree: below x, but not x, is what has its parent in the tree   *)
(* of x, ...                                                               *)
LEMMA TreeHasParents ==
  ASSUME NEW x \in (Node \cup RestChild) \ {Root}, NEW y \in Tree(x)
  PROVE  /\ y \in (Node \cup RestChild) \ {Root}
         /\ y # x => parent[y] \in Node \cap Tree(x) /\ y \in Children(parent[y])
<1>1. y \in Node \cup RestChild /\ x \in ancestors[y]
  BY DEF Tree
<1>2. y # Root
  BY <1>1, AncestorsUnfold
<1>3. parent[y] \in Node /\ y \in Children(parent[y])
  BY <1>1, <1>2, TreeAssumption DEF Children
<1>4. y # x => x \in ancestors[parent[y]]
  BY <1>1, <1>2, AncestorsUnfold
<1> QED BY <1>1, <1>2, <1>3, <1>4 DEF Tree

(* ... which is what is in the tree of a child of x.  By induction, as     *)
(* otherwise there is such a node whose parent is not one.                 *)
LEMMA TreeHasChildren ==
  ASSUME NEW x \in Node \cup RestChild, NEW y \in Tree(x), y # x
  PROVE  \E z \in Children(x) : y \in Tree(z)
<1> DEFINE Under(w) == \E z \in Children(x) : z \in ancestors[w]
           Odd == {w \in Node : w # x /\ x \in ancestors[w] /\ ~Under(w)}
<1>1. ASSUME NEW w \in Node \cup RestChild, w # x, x \in ancestors[w], parent[w] \notin Odd
      PROVE  Under(w)
  <2>0. ancestors[Root] = {Root}
    BY AncestorsUnfold, TreeAssumption
  <2>1. w # Root
    <3> HIDE DEF Under, Odd
    <3> QED BY <1>1, <2>0
  <2>2. parent[w] \in Node /\ w \in Children(parent[w])
    BY <1>1, <2>1, TreeAssumption DEF Children
  <2>3. ancestors[w] = {w} \cup ancestors[parent[w]]
    BY <1>1, <2>1, AncestorsUnfold
  <2>4. x \in ancestors[parent[w]]
    BY <1>1, <2>3
  <2>5. CASE parent[w] = x
    BY <2>2, <2>3, <2>5
  <2>6. CASE parent[w] # x
    <3>1. Under(parent[w])
      BY <1>1, <2>2, <2>4, <2>6
    <3> QED BY <2>3, <3>1
  <2> QED BY <2>5, <2>6
<1> HIDE DEF Under
<1>2. Odd = {}
  <2> SUFFICES ASSUME Odd # {} PROVE FALSE
    OBVIOUS
  <2>1. PICK w \in Odd : w = Root \/ parent[w] \notin Odd
    <3>1. Odd \in SUBSET Node
      OBVIOUS
    <3> HIDE DEF Odd
    <3> QED BY <3>1, RootedAssumption
  <2>2. w \in Node /\ w # x /\ x \in ancestors[w] /\ ~Under(w)
    OBVIOUS
  <2> HIDE DEF Odd
  <2>3. ancestors[Root] = {Root}
    BY AncestorsUnfold, TreeAssumption
  <2>4. w # Root
    BY <2>2, <2>3
  <2> QED BY <1>1, <2>1, <2>2, <2>4
<1>3. y \in Node \cup RestChild /\ x \in ancestors[y]
  BY DEF Tree
<1>4. Under(y)
  BY <1>1, <1>2, <1>3
<1> QED BY <1>3, <1>4 DEF Tree, Children, Under


(* An application is told something through its line only, ... *)
LEMMA RestIsPrivate ==
  ASSUME TypeOK, [Next]_vars, NEW a \in RestChild, call[a].status # "sent"
  PROVE  rest'[a] = rest[a]
<1>1. ASSUME NEW b \in RestChild, RestStep(b)
      PROVE  rest'[a] = rest[a]
  <2>1. b # a
    BY <1>1 DEF RestStep, RestInclusion, RestTakeControl, RestExecute, RestFail, Sent
  <2>2. \E new, r : RestAnswer(b, new, r)
    BY <1>1 DEF RestStep, RestInclusion, RestTakeControl, RestExecute, RestFail
  <2> QED BY <2>1, <2>2 DEF RestAnswer, TypeOK
<1>2. ASSUME NEW d \in Node, HandlerStep(d)
      PROVE  rest' = rest
  BY <1>2 DEF HandlerStep, ActorStep, InclusionStep, ExecuteStep, TakeControl, TookControl,
     SurrenderControl, PropagateInclusion, Include, Exclude, RefuseInError, RefuseExcluded,
     CannotExecute, Prepare, Propagate, Collect, Start, Terminate, Finalise, Conclude
<1>3. CASE ~ \E d \in Node : HandlerStep(d)
  <2>1. rest' = rest \/ \E b \in RestChild : RestStep(b)
    BY <1>3 DEF Next, UserStep, UserSend, UserReceive, NotInControl, Accept, Crash, Unreachable, vars
  <2> QED BY <1>1, <2>1
<1> QED BY <1>2, <1>3

(* ... and a line that is free is taken up by the parent only.             *)
LEMMA FreeLineStays ==
  ASSUME TreeInv, [Next]_vars, NEW z \in DOMAIN parent, call[z].status = "free",
         ~HandlerStep(parent[z])
  PROVE  call'[z].status = "free"
<1>1. z \in Caller /\ z \notin User
  BY TreeAssumption DEF Caller
<1>2. ASSUME NEW d \in Node, HandlerStep(d)
      PROVE  call'[z] = call[z]
  <2>1. z \notin Children(d)
    BY <1>2 DEF Children
  <2>2. z # worker[d].caller
    <3>1. worker[d].caller \in Caller /\ call[worker[d].caller].status = "served"
      BY <1>2, HandlerEffect DEF TreeInv, CallInv, ServedIsWorkedOn, TypeOK, Worker
    <3> QED BY <3>1
  <2> QED
    BY <1>1, <1>2, <2>1, <2>2
    DEF HandlerStep, ActorStep, InclusionStep, ExecuteStep, TakeControl, TookControl,
        SurrenderControl, PropagateInclusion, Include, Exclude, RefuseInError, RefuseExcluded,
        CannotExecute, Prepare, Propagate, Collect, Start, Terminate, Finalise, Conclude,
        Return, propagate_to_list
<1>3. ASSUME NEW d \in Node, NEW x \in Caller, NotInControl(d, x) \/ Accept(d, x)
      PROVE  call'[z] = call[z]
  <2>1. x # z
    BY <1>3 DEF NotInControl, Accept, Pending
  <2> QED BY <1>1, <1>3, <2>1 DEF NotInControl, Accept, TreeInv, TypeOK
<1>4. ASSUME NEW x \in Caller, Unreachable(x)
      PROVE  call'[z] = call[z]
  <2>1. x # z
    BY <1>4 DEF Unreachable
  <2> QED BY <1>1, <1>4, <2>1 DEF Unreachable, TreeInv, TypeOK
<1>5. ASSUME NEW a \in RestChild, RestStep(a)
      PROVE  call'[z] = call[z]
  <2>1. a # z
    BY <1>5 DEF RestStep, RestInclusion, RestTakeControl, RestExecute, RestFail, Sent
  <2>2. \E new, r : RestAnswer(a, new, r)
    BY <1>5 DEF RestStep, RestInclusion, RestTakeControl, RestExecute, RestFail
  <2> QED BY <1>1, <2>1, <2>2 DEF RestAnswer, TreeInv, TypeOK
<1>6. CASE \E d \in Node : Crash(d)
  BY <1>1, <1>6 DEF Crash, free
<1>7. CASE (\E u \in User : UserStep(u)) \/ UNCHANGED vars
  BY <1>1, <1>7 DEF UserStep, UserSend, UserReceive, vars, TreeInv, TypeOK
<1> QED BY <1>2, <1>3, <1>4, <1>5, <1>6, <1>7 DEF Next

(* What is quiet stays so, until it is sent a command.                     *)
LEMMA QuietStays ==
  ASSUME TreeInv, AtRoot, [Next]_vars, NEW y \in (Node \cup RestChild) \ {Root},
         call[y].status \in {"free", "answered"}, Quiet(y)
  PROVE  Quiet(y)' /\ State_of(y)' = State_of(y)
<1>1. CASE y \in RestChild
  <2>1. y \notin Node
    BY <1>1, TreeAssumption
  <2>2. rest'[y] = rest[y]
    BY <1>1, RestIsPrivate DEF TreeInv
  <2> QED BY <1>1, <2>1, <2>2 DEF Quiet, State_of
<1>2. CASE y \in Node
  <2>1. y \notin RestChild
    BY <1>2, TreeAssumption
  <2>2. ~HandlerStep(y)
    BY <1>2, HandlerEffect DEF Quiet, TreeInv, Pc
  <2>3. Fit(y)' = Fit(y) /\ State_of(y)' = State_of(y)
    BY <1>2, <2>2, NodeIsPrivate DEF TreeInv, Fit, settled, State_of
  <2>4. Pc(y)' = "idle"
    <3>1. CASE Crash(y)
      BY <1>2, <3>1 DEF Crash, TreeInv, TypeOK, Pc, idle
    <3>2. ASSUME NEW x \in Caller, Accept(y, x)
          PROVE  FALSE
      BY <1>2, <3>2, OnlyTheParentCalls DEF Accept, Pending
    <3> QED BY <1>2, <2>2, <3>1, <3>2, WorkerIsPrivate DEF TreeInv, Pc, Quiet
  <2>5. ASSUME NEW z \in Children(y)
        PROVE  call'[z].status = "free"
    <3>1. z \in DOMAIN parent /\ parent[z] = y
      BY DEF Children
    <3> QED BY <1>2, <2>2, <3>1, FreeLineStays DEF Quiet
  <2> QED BY <1>2, <2>1, <2>3, <2>4, <2>5 DEF Quiet
<1> QED BY <1>1, <1>2

(* So does a whole tree.                                                   *)
LEMMA AllDoneStays ==
  ASSUME TreeInv, AtRoot, [Next]_vars, NEW x \in (Node \cup RestChild) \ {Root},
         call[x].status \in {"free", "answered"}, AllDone(x)
  PROVE  AllDone(x)' /\ State_of(x)' = State_of(x)
<1>1. x \in Tree(x)
  BY AncestorsUnfold DEF Tree
<1>2. ASSUME NEW y \in Tree(x)
      PROVE  Quiet(y)' /\ State_of(y)' = State_of(y)
  <2>1. y \in (Node \cup RestChild) \ {Root} /\ Quiet(y)
    BY TreeHasParents DEF AllDone
  <2>2. CASE y = x
    BY <2>1, <2>2, QuietStays
  <2>3. CASE y # x
    <3>1. parent[y] \in Node \cap Tree(x) /\ y \in Children(parent[y])
      BY <2>3, TreeHasParents
    <3>2. call[y].status = "free"
      BY <3>1 DEF AllDone, Quiet
    <3> QED BY <2>1, <3>2, QuietStays
  <2> QED BY <2>2, <2>3
<1> QED BY <1>1, <1>2 DEF AllDone


(* The only clean answer to a transition is that of a handler that has     *)
(* come to its end and remembers clean responses.                          *)
LEMMA CleanAnswer ==
  ASSUME TreeInv, NEW c \in Node, ExecuteStep(c),
         call'[worker[c].caller].status = "answered", call'[worker[c].caller].response.clean
  PROVE  Conclude(c) /\ worker[c].cleanChildren /\ Success(call'[worker[c].caller].response)
<1> DEFINE x == worker[c].caller
<1>1. worker[c].pc # "idle" /\ (worker[c].pc = "wait" => Joined(c))
  BY DEF ExecuteStep, RefuseInError, RefuseExcluded, CannotExecute, Prepare, Propagate, Collect,
         Start, Terminate, Finalise, Conclude, Executing, At
<1>2. x \in Caller /\ x \notin Children(c) /\ call[x].status = "served" /\ call[x] \in Call
  BY <1>1, CallerIsNoChild DEF TreeInv, TypeOK
<1>3. call'[x] # call[x]
  BY <1>2
<1>4. ASSUME NEW r, Return(c, r)
      PROVE  call'[x].response = r
  BY <1>2, <1>4 DEF Return, answered, Call
<1>5. /\ ~exceptionResponse.clean
      /\ ~respond("EXECUTED_SUCCESSFULLY", "FSM_NOT_EXECUTED_IN_ERROR", TRUE).clean
      /\ ~respond("EXECUTED_SUCCESSFULLY", "FSM_NOT_EXECUTED_EXCLUDED", TRUE).clean
  BY DEF respond, exceptionResponse, Succeeded
<1>6. ~RefuseInError(c) /\ ~RefuseExcluded(c) /\ ~CannotExecute(c)
  BY <1>4, <1>5 DEF RefuseInError, RefuseExcluded, CannotExecute
<1>7. \A ok \in BOOLEAN : ~Prepare(c, ok) /\ ~Finalise(c, ok)
  BY <1>3, <1>4, <1>5 DEF Prepare, Finalise
<1>8. ~Propagate(c) /\ ~Collect(c) /\ ~Start(c) /\ ~Terminate(c)
  BY <1>2, <1>3 DEF Propagate, Collect, Start, Terminate, propagate_to_list
<1>9. Conclude(c)
  BY <1>6, <1>7, <1>8 DEF ExecuteStep
<1>10. call'[x].response = respond("EXECUTED_SUCCESSFULLY", "FSM_EXECUTED_SUCCESSFULLY",
                                   worker[c].cleanChildren)
  BY <1>4, <1>9 DEF Conclude
<1>11. CASE worker[c].cleanChildren
  BY <1>9, <1>10, <1>11 DEF respond, Success
<1>12. CASE ~worker[c].cleanChildren
  <2>1. ~respond("EXECUTED_SUCCESSFULLY", "FSM_EXECUTED_SUCCESSFULLY", worker[c].cleanChildren).clean
    BY <1>12 DEF respond
  <2> QED BY <1>10, <2>1
<1> QED BY <1>11, <1>12

(* A command that is answered is the one that was served or sent; the      *)
(* answer comes from the handler that served it, unless it is none, or     *)
(* that of an application.                                                 *)
LEMMA WhoAnswers ==
  ASSUME TreeInv, [Next]_vars, NEW x \in Caller, call'[x].status = "answered",
         call'[x] # call[x], call'[x].response.clean
  PROVE  /\ call'[x].cmd = call[x].cmd
         /\ \/ \E c \in Node : HandlerStep(c) /\ x = worker[c].caller
            \/ x \in RestChild /\ RestStep(x)
<1>1. call[x] \in Call /\ ~exceptionResponse.clean
  BY DEF TreeInv, TypeOK, respond, exceptionResponse, Succeeded
<1>2. ASSUME NEW r
      PROVE  answered(x, r).cmd = call[x].cmd /\ answered(x, r).response = r
  BY <1>1 DEF answered, Call
<1>3. ASSUME NEW c \in Node, HandlerStep(c)
      PROVE  x = worker[c].caller /\ call'[x].cmd = call[x].cmd
  <2>1. ASSUME NEW r, Return(c, r)
        PROVE  x = worker[c].caller /\ call'[x].cmd = call[x].cmd
    BY <1>2, <2>1 DEF Return, free
  <2>2. ASSUME NEW cmd, NEW arg, propagate_to_list(c, cmd, arg)
        PROVE  FALSE
    BY <2>2 DEF propagate_to_list, request, free
  <2>3. ~Collect(c) /\ ~Start(c) /\ ~Terminate(c)
    BY DEF Collect, Start, Terminate, free
  <2> QED
    BY <1>3, <2>1, <2>2, <2>3
    DEF HandlerStep, ActorStep, InclusionStep, ExecuteStep, TakeControl, TookControl,
        SurrenderControl, PropagateInclusion, Include, Exclude, RefuseInError, RefuseExcluded,
        CannotExecute, Prepare, Propagate, Finalise, Conclude
<1>4. ASSUME NEW d \in Node, NEW y \in Caller, NotInControl(d, y) \/ Accept(d, y)
      PROVE  FALSE
  <2>1. y = x
    BY <1>4 DEF NotInControl, Accept, TreeInv, TypeOK
  <2>2. call'[x] = answered(x, respond("NOT_IN_CONTROL", "NONE", FALSE))
        \/ call'[x] = [call[x] EXCEPT !.status = "served"]
    BY <1>4, <2>1 DEF NotInControl, Accept, TreeInv, TypeOK
  <2>3. ~respond("NOT_IN_CONTROL", "NONE", FALSE).clean
    BY DEF respond
  <2> QED BY <1>1, <1>2, <2>2, <2>3 DEF Call
<1>5. ASSUME NEW y \in Caller, Unreachable(y)
      PROVE  FALSE
  <2>1. y = x
    BY <1>5 DEF Unreachable, TreeInv, TypeOK
  <2>2. call'[x] = answered(x, exceptionResponse)
    BY <1>5, <2>1 DEF Unreachable, TreeInv, TypeOK
  <2> QED BY <1>1, <1>2, <2>2
<1>6. ASSUME NEW a \in RestChild, RestStep(a)
      PROVE  a = x /\ call'[x].cmd = call[x].cmd
  <2>1. \E new, r : RestAnswer(a, new, r)
    BY <1>6 DEF RestStep, RestInclusion, RestTakeControl, RestExecute, RestFail
  <2>2. a = x
    BY <2>1 DEF RestAnswer, TreeInv, TypeOK
  <2> QED BY <1>2, <2>1, <2>2 DEF RestAnswer, TreeInv, TypeOK
<1>7. ~ (\E d \in Node : Crash(d)) /\ ~UNCHANGED vars
  BY DEF Crash, vars, free
<1>8. ASSUME NEW u \in User, UserStep(u)
      PROVE  FALSE
  <2>1. ASSUME NEW c, NEW cmd, NEW arg, NEW token
        PROVE  request(c, cmd, arg, token).status = "sent"
    BY DEF request, free
  <2>2. \A v : call' = [call EXCEPT ![u] = v] => call'[x] = v
    BY DEF TreeInv, TypeOK
  <2>3. ~UserReceive(u)
    BY <2>2 DEF UserReceive, free
  <2>4. ASSUME NEW c, NEW cmd, NEW arg, UserSend(u, c, cmd, arg)
        PROVE  FALSE
    BY <2>1, <2>2, <2>4 DEF UserSend
  <2> QED BY <1>8, <2>3, <2>4 DEF UserStep
<1> QED BY <1>3, <1>4, <1>5, <1>6, <1>7, <1>8 DEF Next

LEMMA CleanIsSuccessStep ==
  ASSUME TreeInv, [Next]_vars, CleanIsSuccess
  PROVE  CleanIsSuccess'
<1> SUFFICES ASSUME NEW x \in Caller, call'[x].status = "answered",
                    call'[x].cmd = "execute_fsm_command", call'[x].response.clean
             PROVE  Success(call'[x].response)
  BY DEF CleanIsSuccess, Success
<1>1. CASE call'[x] = call[x]
  BY <1>1 DEF CleanIsSuccess
<1>2. CASE call'[x] # call[x]
  <2>1. call[x].cmd = "execute_fsm_command"
    BY <1>2, WhoAnswers
  <2>2. ASSUME NEW c \in Node, HandlerStep(c), x = worker[c].caller
        PROVE  Success(call'[x].response)
    <3>1. ExecuteStep(c)
      BY <2>1, <2>2 DEF HandlerStep, ActorStep, InclusionStep, TakeControl, TookControl,
         SurrenderControl, PropagateInclusion, Include, Exclude, At
    <3> QED BY <2>2, <3>1, CleanAnswer
  <2>3. CASE x \in RestChild /\ RestStep(x)
    <3>1. ASSUME NEW new, NEW r, RestAnswer(x, new, r)
          PROVE  call'[x].response = r
      BY <3>1 DEF RestAnswer, answered, TreeInv, TypeOK, Call
    <3>2. /\ ~exceptionResponse.clean
          /\ ~respond("EXECUTED_SUCCESSFULLY", "FSM_FAILED", TRUE).clean
          /\ Success(respond("EXECUTED_SUCCESSFULLY", "FSM_EXECUTED_SUCCESSFULLY", TRUE))
      BY DEF respond, exceptionResponse, Succeeded, Success
    <3>3. RestExecute(x)
      BY <2>1, <2>3, <3>1, <3>2 DEF RestStep, RestInclusion, RestTakeControl, RestFail, Sent
    <3> QED BY <3>1, <3>2, <3>3 DEF RestExecute
  <2> QED BY <1>2, <2>2, <2>3, WhoAnswers
<1> QED BY <1>1, <1>2


(* From its propagation on, a handler goes to one and the same state; and  *)
(* what it remembers of the responses it remembers to the end.             *)
LEMMA ExecutionMoves ==
  ASSUME TreeInv, NEW p \in Node, HandlerStep(p), Pc(p)' \in {"joined", "finalised"}
  PROVE  /\ Cmd(p) = "execute_fsm_command"
         /\ Target(p)' = Target(p)
         /\ \/ Pc(p) = "wait" /\ Collect(p) /\ Pc(p)' = "joined"
            \/ /\ Pc(p) = "joined"
               /\ worker'[p].cleanChildren = worker[p].cleanChildren
               /\ worker'[p].childFailed = worker[p].childFailed
         /\ Pc(p)' = "finalised" => settled(p)'
<1>1. worker[p] \in Worker
  BY DEF TreeInv, TypeOK
<1>2. ASSUME NEW r, Return(p, r)
      PROVE  FALSE
  BY <1>2 DEF Return, Pc, TreeInv, TypeOK, idle
<1>3. ASSUME NEW cmd, NEW arg, propagate_to_list(p, cmd, arg)
      PROVE  FALSE
  BY <1>1, <1>3 DEF propagate_to_list, Pc, TreeInv, TypeOK, Worker
<1>4. ASSUME NEW ok \in BOOLEAN, Prepare(p, ok)
      PROVE  FALSE
  BY <1>1, <1>2, <1>4 DEF Prepare, Pc, TreeInv, TypeOK, Worker
<1>5. CASE Collect(p)
  <2>1. /\ Pc(p) = "wait" /\ Joined(p) /\ operational_state' = operational_state
        /\ operational_sub_state'[p] = <<"propagated", Arg(p)>>
        /\ Cmd(p) = "execute_fsm_command"
    BY <1>5 DEF Collect, Executing, At, Pc, Cmd, finish_propagating_transition_mark, Mark, TreeInv,
                TypeOK, NodeTypeOK
  <2>2. Pc(p)' = "joined" /\ worker'[p].caller = worker[p].caller
    BY <1>1, <1>5 DEF Collect, Pc, TreeInv, TypeOK, Worker
  <2>3. call'[worker[p].caller] = call[worker[p].caller]
    <3>1. worker[p].caller \notin Children(p) /\ worker[p].caller \in Caller
      BY <2>1, CallerIsNoChild DEF TreeInv, Pc
    <3> QED BY <1>5, <3>1 DEF Collect
  <2>4. Exit(p)' = Destination_of(p)
    BY <2>1, <2>2, <2>3 DEF Exit, Kind, Destination_of, Arg, get_destination_state
  <2> QED BY <1>5, <2>1, <2>2, <2>4 DEF Target
<1>6. CASE Start(p) \/ Terminate(p)
  <2>1. /\ Pc(p) = "joined" /\ worker' = worker /\ call' = call /\ Kind(p) # "terminated"
        /\ Cmd(p) = "execute_fsm_command"
        /\ \/ /\ operational_state' = operational_state
              /\ Kind(p)' # "terminated"
           \/ /\ operational_state'[p] = Destination_of(p)
              /\ Kind(p)' = "terminated"
    BY <1>6 DEF Start, Terminate, Executing, At, Pc, Cmd, start_transition_mark,
                terminate_transition_mark, Mark, TreeInv, TypeOK, NodeTypeOK, Kind, Destination_of
  <2>2. Exit(p)' = Exit(p)
    BY <2>1 DEF Exit, Destination_of, Arg, get_destination_state
  <2>3. Pc(p)' = "joined"
    BY <2>1 DEF Pc
  <2> QED BY <2>1, <2>2, <2>3 DEF Target
<1>7. ASSUME NEW ok \in BOOLEAN, Finalise(p, ok)
      PROVE  /\ Pc(p) = "joined" /\ Pc(p)' = "finalised" /\ Cmd(p) = "execute_fsm_command"
             /\ worker'[p].cleanChildren = worker[p].cleanChildren
             /\ worker'[p].childFailed = worker[p].childFailed
             /\ Exit(p) = operational_state'[p]
             /\ settled(p)'
  <2>1. ok
    BY <1>2, <1>7 DEF Finalise
  <2>2. /\ Pc(p) = "joined" /\ operational_state' = operational_state
        /\ Kind(p) = "terminated" /\ Cmd(p) = "execute_fsm_command"
        /\ operational_sub_state'[p] = <<"state", operational_state[p]>>
    BY <1>7, <2>1 DEF Finalise, Executing, At, Pc, Cmd, finalise_transition, TreeInv, TypeOK,
                      NodeTypeOK, Kind
  <2>3. /\ Pc(p)' = "finalised" /\ worker'[p].childFailed = worker[p].childFailed
        /\ worker'[p].cleanChildren = worker[p].cleanChildren
    BY <1>1, <1>7, <2>1 DEF Finalise, Pc, TreeInv, TypeOK, Worker
  <2> QED BY <2>2, <2>3 DEF Exit, settled
<1>8. ~ActorStep(p) /\ ~InclusionStep(p)
  BY <1>2, <1>3 DEF ActorStep, InclusionStep, TakeControl, TookControl, SurrenderControl,
                    PropagateInclusion, Include, Exclude
<1>9. ~RefuseInError(p) /\ ~RefuseExcluded(p) /\ ~CannotExecute(p) /\ ~Propagate(p) /\ ~Conclude(p)
  BY <1>2, <1>3 DEF RefuseInError, RefuseExcluded, CannotExecute, Propagate, Conclude
<1>10. CASE \E ok \in BOOLEAN : Finalise(p, ok)
  BY <1>7, <1>10 DEF Target
<1>11. Collect(p) \/ Start(p) \/ Terminate(p) \/ \E ok \in BOOLEAN : Finalise(p, ok)
  BY <1>4, <1>8, <1>9 DEF HandlerStep, ExecuteStep
<1>12. CASE Start(p) \/ Terminate(p)
  <2>1. Pc(p)' = "joined" /\ worker' = worker
    BY <1>6, <1>12 DEF Start, Terminate, Pc
  <2> QED BY <1>6, <1>12, <2>1
<1>13. CASE Collect(p)
  BY <1>5, <1>13
<1> QED BY <1>10, <1>11, <1>12, <1>13

(* The line to a child bears its parent's command while the parent waits.  *)
LEMMA LineKeepsCommand ==
  ASSUME TreeInv, [Next]_vars, NEW x \in DOMAIN parent, call[x].status # "free",
         ~HandlerStep(parent[x]), up'[parent[x]]
  PROVE  call'[x].cmd = call[x].cmd /\ call'[x].status # "free"
<1> DEFINE Kept == call'[x].cmd = call[x].cmd /\ call'[x].status # "free"
<1>1. x \in Caller /\ x \notin User /\ call[x] \in Call
  BY TreeAssumption DEF Caller, TreeInv, TypeOK
<1>2. ASSUME NEW r
      PROVE  answered(x, r).cmd = call[x].cmd /\ answered(x, r).status # "free"
  BY <1>1 DEF answered, Call
<1>3. ASSUME NEW d \in Node, HandlerStep(d)
      PROVE  Kept
  <2>1. x \notin Children(d)
    BY <1>3 DEF Children
  <2>2. ASSUME NEW r, Return(d, r)
        PROVE  Kept
    BY <1>1, <1>2, <2>1, <2>2 DEF Return
  <2>3. ASSUME NEW cmd, NEW arg, propagate_to_list(d, cmd, arg)
        PROVE  Kept
    BY <1>1, <2>1, <2>3 DEF propagate_to_list
  <2>4. CASE ActorStep(d) \/ InclusionStep(d)
    BY <2>2, <2>3, <2>4 DEF ActorStep, InclusionStep, TakeControl, TookControl, SurrenderControl,
                            PropagateInclusion, Include, Exclude
  <2>5. CASE ExecuteStep(d)
    BY <1>1, <2>1, <2>2, <2>3, <2>5 DEF ExecuteStep, RefuseInError, RefuseExcluded, CannotExecute,
                       Prepare, Propagate, Collect, Start, Terminate, Finalise, Conclude
  <2> QED BY <1>3, <2>4, <2>5 DEF HandlerStep
<1>4. ASSUME NEW d \in Node, NEW y \in Caller, NotInControl(d, y) \/ Accept(d, y)
      PROVE  Kept
  <2>1. CASE y # x
    BY <1>1, <1>4, <2>1 DEF NotInControl, Accept, TreeInv, TypeOK
  <2>2. CASE y = x /\ NotInControl(d, y)
    BY <1>1, <1>2, <2>2 DEF NotInControl, TreeInv, TypeOK
  <2>3. CASE y = x /\ Accept(d, y)
    <3>1. call'[x] = [call[x] EXCEPT !.status = "served"]
      BY <1>1, <2>3 DEF Accept, TreeInv, TypeOK
    <3> QED BY <1>1, <3>1 DEF Call
  <2> QED BY <1>4, <2>1, <2>2, <2>3
<1>5. ASSUME NEW y \in Caller, Unreachable(y)
      PROVE  Kept
  BY <1>1, <1>2, <1>5 DEF Unreachable, TreeInv, TypeOK
<1>6. ASSUME NEW a \in RestChild, RestStep(a)
      PROVE  Kept
  <2>1. \E new, r : RestAnswer(a, new, r)
    BY <1>6 DEF RestStep, RestInclusion, RestTakeControl, RestExecute, RestFail
  <2> QED BY <1>1, <1>2, <2>1 DEF RestAnswer, TreeInv, TypeOK
<1>7. ASSUME NEW d \in Node, Crash(d)
      PROVE  Kept
  <2>1. d # parent[x]
    BY <1>7 DEF Crash, TreeInv, TypeOK
  <2> QED BY <1>1, <1>7, <2>1 DEF Crash, Children
<1>8. CASE (\E u \in User : UserStep(u)) \/ UNCHANGED vars
  BY <1>1, <1>8 DEF UserStep, UserSend, UserReceive, vars, TreeInv, TypeOK
<1> QED BY <1>3, <1>4, <1>5, <1>6, <1>7, <1>8 DEF Next


LEMMA ParentAsks ==
  ASSUME TreeInv, TreeInv', [Next]_vars, NEW p \in Node, HandlerStep(p), Pc(p)' = "wait",
         NEW x \in Children(p)
  PROVE  call'[x].status = "sent" /\ call'[x].cmd = Cmd(p) /\ Cmd(p)' = Cmd(p)
<1>1. x \in Caller
  BY TreeAssumption DEF Children, Caller
<1>2. Cmd(p)' = Cmd(p)
  <2>1. Pc(p) # "idle"
    BY HandlerEffect DEF TreeInv, Pc
  <2> QED BY <2>1, SameCommand DEF Pc, Cmd
<1>3. ASSUME NEW r, Return(p, r)
      PROVE  FALSE
  BY <1>3 DEF Return, Pc, TreeInv, TypeOK, idle
<1>4. ASSUME NEW arg, propagate_to_list(p, Cmd(p), arg)
      PROVE  call'[x].status = "sent" /\ call'[x].cmd = Cmd(p)
  <2>1. call'[x] = request(x, Cmd(p), arg, TokenOf(p))
    BY <1>1, <1>4 DEF propagate_to_list
  <2> QED BY <2>1 DEF request, free
<1>5. worker[p] \in Worker
  BY DEF TreeInv, TypeOK
<1>6. ASSUME NEW ok \in BOOLEAN, Prepare(p, ok) \/ Finalise(p, ok)
      PROVE  FALSE
  BY <1>3, <1>5, <1>6 DEF Prepare, Finalise, Pc, TreeInv, TypeOK, Worker
<1>7. ~Collect(p) /\ ~Start(p) /\ ~Terminate(p)
  <2>1. ASSUME Collect(p)
        PROVE  FALSE
    <3>1. Pc(p)' = "joined"
      BY <1>5, <2>1 DEF Collect, Pc, TreeInv, TypeOK, Worker
    <3> QED BY <3>1
  <2>2. ~Start(p) /\ ~Terminate(p)
    BY DEF Start, Terminate, Executing, At, Pc
  <2> QED BY <2>1, <2>2
<1>8. TakeControl(p) \/ (\E cmd : PropagateInclusion(p, cmd)) \/ Propagate(p)
  BY <1>3, <1>6, <1>7
     DEF HandlerStep, ActorStep, InclusionStep, ExecuteStep, TookControl, SurrenderControl,
         Include, Exclude, RefuseInError, RefuseExcluded, CannotExecute, Conclude
<1>9. \E arg : propagate_to_list(p, Cmd(p), arg)
  BY <1>8 DEF TakeControl, PropagateInclusion, Propagate, Executing, At, Cmd
<1> QED BY <1>2, <1>4, <1>9

(* While a parent that waits takes no step, it goes on waiting.            *)
LEMMA ParentWaits ==
  ASSUME TreeInv, TreeInv', [Next]_vars, NEW p \in Node, ~HandlerStep(p), up'[p],
         Pc(p)' \notin {"idle", "begin"}
  PROVE  /\ up[p] /\ worker'[p] = worker[p] /\ Pc(p)' = Pc(p) /\ Cmd(p)' = Cmd(p)
         /\ Target(p)' = Target(p)
<1>1. ~Crash(p) /\ up[p]
  BY AliveBefore DEF Crash, TreeInv, TypeOK
<1>2. ASSUME NEW x \in Caller, Accept(p, x)
      PROVE  FALSE
  BY <1>2 DEF Accept, Pc, TreeInv, TypeOK, idle
<1>3. worker'[p] = worker[p]
  BY <1>1, <1>2, WorkerIsPrivate DEF TreeInv
<1>4. call'[worker'[p].caller] = call[worker[p].caller]
  BY <1>3, SameCommand DEF Pc
<1>5. /\ operational_state'[p] = operational_state[p]
      /\ operational_sub_state'[p] = operational_sub_state[p]
  BY NodeIsPrivate DEF TreeInv
<1> QED
  BY <1>1, <1>3, <1>4, <1>5
  DEF Pc, Cmd, Target, Destination_of, Exit, Kind, Arg, get_destination_state

LEMMA BearsStep ==
  ASSUME TreeInv, TreeInv', [Next]_vars, NEW x \in DOMAIN parent, Bears(x)
  PROVE  Bears(x)'
<1> DEFINE p == parent[x]
<1> SUFFICES ASSUME up'[p], Pc(p)' = "wait"
             PROVE  call'[x].status # "free" /\ call'[x].cmd = Cmd(p)'
  BY DEF Bears
<1>1. p \in Node /\ x \in Children(p)
  BY TreeAssumption DEF Children
<1>2. CASE HandlerStep(p)
  BY <1>1, <1>2, ParentAsks
<1>3. CASE ~HandlerStep(p)
  <2>1. up[p] /\ Pc(p) = "wait" /\ Cmd(p)' = Cmd(p)
    BY <1>1, <1>3, ParentWaits
  <2> QED BY <1>3, <2>1, LineKeepsCommand DEF Bears
<1> QED BY <1>2, <1>3

LEMMA SoundStep ==
  ASSUME TreeInv, TreeInv', [Next]_vars, HonestInv, NEW c \in Node
  PROVE  Sound(c)'
<1> SUFFICES ASSUME Pc(c)' \in {"joined", "finalised"}
             PROVE  Sound(c)'
  BY DEF Sound
<1>1. up'[c]
  BY DEF TreeInv, CallInv, WorkersAlive, Pc
<1>2. CASE ~HandlerStep(c)
  <2>1. worker'[c] = worker[c] /\ Pc(c)' = Pc(c)
    BY <1>1, <1>2, ParentWaits
  <2>2. settled(c)' = settled(c)
    BY <1>2, NodeIsPrivate DEF TreeInv, settled
  <2> QED BY <2>1, <2>2 DEF HonestInv, Sound
<1>3. CASE HandlerStep(c) /\ Pc(c) = "joined"
  BY <1>3, ExecutionMoves DEF HonestInv, Sound
<1>4. CASE HandlerStep(c) /\ Pc(c) # "joined"
  <2>1. /\ Collect(c) /\ Pc(c) = "wait" /\ Pc(c)' = "joined"
        /\ Cmd(c) = "execute_fsm_command" /\ up[c]
    BY <1>4, ExecutionMoves, HandlerEffect DEF TreeInv
  <2>2. /\ worker'[c].childFailed = ChildFailed(c) /\ worker'[c].cleanChildren = cleanChildren(c)
        /\ Joined(c)
    BY <2>1 DEF Collect, TreeInv, TypeOK, Worker
  <2>3. ASSUME NEW x \in Children(c), call[x].response.clean
        PROVE  Success(call[x].response)
    <3>1. x \in Caller /\ x \in DOMAIN parent /\ parent[x] = c
      BY TreeAssumption DEF Children, Caller
    <3> QED BY <2>1, <2>2, <2>3, <3>1 DEF HonestInv, Bears, CleanIsSuccess, Joined
  <2>4. cleanChildren(c) => ~ChildFailed(c)
    BY <2>3 DEF cleanChildren, ChildFailed, Success
  <2> QED BY <2>1, <2>2, <2>4 DEF Sound
<1> QED BY <1>2, <1>3, <1>4


(* A handler that concludes and remembers clean responses only speaks for  *)
(* all that is below it.                                                   *)
LEMMA ConcludeSpeaks ==
  ASSUME TreeInv, AtRoot, [Next]_vars, ApplicationsFollow, HonestInv, NEW p \in Node,
         Conclude(p), worker[p].cleanChildren
  PROVE  AllDone(p)' /\ operational_state'[p] = operational_state[p]
<1>1. up[p] /\ Pc(p) = "finalised" /\ Cmd(p) = "execute_fsm_command"
  BY DEF Conclude, Executing, At, Pc, Cmd
<1>2. ~worker[p].childFailed /\ settled(p)
  BY <1>1 DEF HonestInv, Sound
<1>3. UNCHANGED nodeVars /\ rest' = rest
  BY <1>2 DEF Conclude
<1>4. ~in_error[p]
  BY <1>1 DEF HonestInv, ExecutingIsHealthy, Pc, Cmd
<1>5. Pc(p)' = "idle"
  BY ConcludeIdles DEF TreeInv, Pc
<1>6. ASSUME NEW z \in Children(p)
      PROVE  z \in (Node \cup RestChild) \ {Root} /\ call[z].status = "free" /\ call'[z].status = "free"
  <2>1. z \in Caller /\ z \in (Node \cup RestChild) \ {Root}
    BY ChildIsCaller
  <2>2. z # worker[p].caller
    BY <1>1, CallerIsNoChild DEF TreeInv, Pc
  <2>3. call'[z] = free
    BY <2>1, <2>2 DEF Conclude, Return
  <2>4. call[z].status = "free"
    BY <1>1 DEF TreeInv, CallInv, LinesFreeUnlessWaiting, Pc
  <2> QED BY <2>1, <2>3, <2>4 DEF free
<1>7. p \notin RestChild
  BY TreeAssumption
<1>8. Quiet(p)' /\ State_of(p)' = operational_state[p]
  BY <1>2, <1>3, <1>4, <1>5, <1>6, <1>7 DEF Quiet, State_of, Fit, settled, nodeVars
<1>9. ASSUME NEW z \in Children(p)
      PROVE  AllDone(z) /\ State_of(z) = operational_state[p]
  <2>1. CASE z \in Node
    <3>1. z \in Node \ {Root} /\ parent[z] = p
      BY <1>6, <2>1 DEF Children
    <3>2. Reported(z) /\ Target(p) = operational_state[p]
      BY <1>1, <3>1 DEF Reported, Target
    <3> QED BY <1>1, <3>1, <3>2 DEF HonestInv, ReportsHold, State_of
  <2>2. CASE z \in RestChild
    <3>1. z \notin Node
      BY <2>2, TreeAssumption
    <3>2. With(z, operational_state[p])
      BY <1>1, <1>2, <2>2 DEF ApplicationsFollow, Follows, StateFollows
    <3>3. Tree(z) \subseteq {z}
      <4> SUFFICES ASSUME NEW y \in Tree(z), y # z PROVE FALSE
        OBVIOUS
      <4>1. PICK v \in Children(z) : y \in Tree(v)
        BY <2>2, TreeHasChildren
      <4>2. z \in Node
        BY <4>1, TreeAssumption DEF Children
      <4> QED BY <3>1, <4>2
    <3>4. Quiet(z) /\ State_of(z) = operational_state[p]
      BY <3>1, <3>2 DEF Quiet, State_of, With
    <3> QED BY <3>3, <3>4 DEF AllDone
  <2> QED BY <1>6, <2>1, <2>2
<1>10. ASSUME NEW y \in Tree(p)
       PROVE  Quiet(y)' /\ State_of(y)' = operational_state[p]
  <2>1. CASE y = p
    BY <1>8, <2>1
  <2>2. CASE y # p
    <3>1. PICK z \in Children(p) : y \in Tree(z)
      BY <2>2, TreeHasChildren
    <3>2. AllDone(z)' /\ State_of(z)' = operational_state[p]
      BY <1>6, <1>9, AllDoneStays
    <3> QED BY <3>1, <3>2 DEF AllDone
  <2> QED BY <2>1, <2>2
<1> QED BY <1>3, <1>8, <1>10 DEF AllDone, nodeVars

(* What a parent has reported it had reported before, and the child and    *)
(* all below it were left alone since; or it is what the child says just   *)
(* now, and the child goes on what its children said.                      *)
LEMMA ReportedBefore ==
  ASSUME TreeInv, TreeInv', AtRoot, [Next]_vars, HonestInv, NEW k \in Node \ {Root},
         up'[parent[k]], Reported(k)'
  PROVE  /\ up[parent[k]] /\ Target(parent[k])' = Target(parent[k])
         /\ \/ Reported(k) /\ call[k].status \in {"free", "answered"}
            \/ /\ Conclude(k) /\ worker[k].cleanChildren
               /\ Pc(parent[k]) = "wait" /\ Cmd(parent[k]) = "execute_fsm_command"
               /\ call[k].status = "served"
<1> DEFINE p == parent[k]
<1>1. p \in Node /\ k \in Children(p) /\ k \in Caller /\ k \in DOMAIN parent /\ k \notin RestChild
  BY TreeAssumption DEF Children, Caller
<1>2. up[p]
  BY <1>1, AliveBefore
<1>3. Pc(p) # "wait" => call[k].status = "free"
  BY <1>1, <1>2 DEF TreeInv, CallInv, LinesFreeUnlessWaiting, Pc
<1>4. CASE HandlerStep(p)
  <2>1. Pc(p)' # "wait"
    BY <1>1, <1>4, ParentAsks DEF Reported
  <2>2. Pc(p)' \in {"joined", "finalised"} /\ worker'[p].cleanChildren
    BY <2>1 DEF Reported
  <2>3. /\ Cmd(p) = "execute_fsm_command" /\ Target(p)' = Target(p)
        /\ \/ Pc(p) = "wait" /\ Collect(p) /\ Pc(p)' = "joined"
           \/ Pc(p) = "joined" /\ worker'[p].cleanChildren = worker[p].cleanChildren
    BY <1>1, <1>4, <2>2, ExecutionMoves
  <2>4. CASE Pc(p) = "wait" /\ Collect(p)
    <3>1. Joined(p) /\ worker'[p].cleanChildren = cleanChildren(p)
      BY <1>1, <2>4 DEF Collect, TreeInv, TypeOK, Worker
    <3>2. call[k].status = "answered" /\ call[k].response.clean
      BY <1>1, <2>2, <3>1 DEF Joined, cleanChildren
    <3> QED BY <1>2, <2>3, <2>4, <3>2 DEF Reported
  <2> QED BY <1>2, <1>3, <2>2, <2>3, <2>4 DEF Reported
<1>5. CASE ~HandlerStep(p)
  <2>1. worker'[p] = worker[p] /\ Pc(p)' = Pc(p) /\ Cmd(p)' = Cmd(p) /\ Target(p)' = Target(p)
    BY <1>1, <1>5, ParentWaits DEF Reported
  <2>2. CASE Pc(p) \in {"joined", "finalised"}
    BY <1>2, <1>3, <2>1, <2>2 DEF Reported
  <2>3. CASE Pc(p) = "wait" /\ call'[k] = call[k]
    BY <1>2, <2>1, <2>3 DEF Reported
  <2>4. CASE Pc(p) = "wait" /\ call'[k] # call[k]
    <3>1. /\ call'[k].status = "answered" /\ call'[k].response.clean
          /\ Cmd(p) = "execute_fsm_command"
      BY <2>1, <2>4 DEF Reported
    <3>2. PICK c \in Node : HandlerStep(c) /\ k = worker[c].caller
      BY <1>1, <2>4, <3>1, WhoAnswers
    <3>3. call[k].status = "served" /\ call[k].to = c
      BY <1>1, <3>2, HandlerEffect DEF TreeInv, CallInv, ServedIsWorkedOn
    <3>4. c = k
      BY <1>1, <3>3 DEF TreeInv, CallInv, Routed
    <3>5. Cmd(k) = "execute_fsm_command"
      BY <1>1, <1>2, <2>4, <3>1, <3>2, <3>4 DEF HonestInv, Bears, Cmd
    <3>6. ExecuteStep(k)
      BY <3>2, <3>4, <3>5 DEF HandlerStep, ActorStep, InclusionStep, TakeControl, TookControl,
         SurrenderControl, PropagateInclusion, Include, Exclude, At, Cmd
    <3>7. Conclude(k) /\ worker[k].cleanChildren
      BY <3>1, <3>2, <3>4, <3>6, CleanAnswer
    <3> QED BY <1>2, <2>1, <2>4, <3>1, <3>3, <3>7
  <2> QED BY <2>1, <2>2, <2>3, <2>4 DEF Reported
<1> QED BY <1>4, <1>5

LEMMA ReportsStep ==
  ASSUME TreeInv, TreeInv', AtRoot, [Next]_vars, ApplicationsFollow, ControllersFollow, HonestInv
  PROVE  ReportsHold'
<1> SUFFICES ASSUME NEW k \in Node \ {Root}, up'[parent[k]], Reported(k)'
             PROVE  AllDone(k)' /\ operational_state'[k] = Target(parent[k])'
  BY DEF ReportsHold
<1> DEFINE p == parent[k]
<1>1. up[p] /\ Target(p)' = Target(p)
  BY ReportedBefore
<1>2. CASE Reported(k) /\ call[k].status \in {"free", "answered"}
  <2>1. AllDone(k) /\ operational_state[k] = Target(p)
    BY <1>1, <1>2 DEF HonestInv, ReportsHold
  <2>2. AllDone(k)' /\ State_of(k)' = State_of(k)
    BY <1>2, <2>1, AllDoneStays
  <2> QED BY <1>1, <2>1, <2>2 DEF State_of
<1>3. CASE /\ Conclude(k) /\ worker[k].cleanChildren
           /\ Pc(p) = "wait" /\ Cmd(p) = "execute_fsm_command" /\ call[k].status = "served"
  <2>1. AllDone(k)' /\ operational_state'[k] = operational_state[k]
    BY <1>3, ConcludeSpeaks
  <2>2. up[k] /\ Pc(k) = "finalised"
    BY <1>3 DEF Conclude, Executing, At, Pc
  <2>3. operational_state[k] = Destination_of(p)
    BY <1>1, <1>3, <2>2 DEF ControllersFollow, ChildFollows
  <2> QED BY <1>1, <1>3, <2>1, <2>3 DEF Target
<1> QED BY <1>2, <1>3, ReportedBefore

LEMMA HonestInvInit ==
  ASSUME Init
  PROVE  HonestInv
<1>1. \A c \in Node : Pc(c) = "idle" /\ ~in_error[c]
  BY DEF Init, NodeInit, idle, Pc
<1>2. \A x \in Caller : call[x].status = "free"
  BY DEF Init, free
<1>3. \A x \in DOMAIN parent : parent[x] \in Node
  BY TreeAssumption
<1>4. ExecutingIsHealthy
  BY <1>1 DEF ExecutingIsHealthy
<1>5. CleanIsSuccess
  BY <1>2 DEF CleanIsSuccess
<1>6. ReportsHold
  <2>1. \A k \in Node \ {Root} : parent[k] \in Node
    BY TreeAssumption
  <2> QED BY <1>1, <2>1 DEF ReportsHold, Reported
<1> QED BY <1>1, <1>3, <1>4, <1>5, <1>6 DEF HonestInv, Bears, Sound

LEMMA HonestInvStep ==
  ASSUME TreeInv, TreeInv', AtRoot, [Next]_vars, ApplicationsFollow, ControllersFollow, HonestInv
  PROVE  HonestInv'
<1>1. ExecutingIsHealthy'
  BY ExecutingIsHealthyStep DEF HonestInv
<1>2. \A x \in DOMAIN parent : Bears(x)'
  BY BearsStep DEF HonestInv
<1>3. CleanIsSuccess'
  BY CleanIsSuccessStep DEF HonestInv
<1>4. \A c \in Node : Sound(c)'
  BY SoundStep
<1>5. ReportsHold'
  BY ReportsStep
<1> QED BY <1>1, <1>2, <1>3, <1>4, <1>5 DEF HonestInv

(* A user who hears a clean answer to a transition hears it from the       *)
(* handler that concludes it.                                              *)
LEMMA ToldByConclude ==
  ASSUME TreeInv, AtRoot, [Next]_vars, ApplicationsFollow, HonestInv, NEW u \in User,
         call[u].status = "served", call'[u].status = "answered", call'[u].response.clean,
         call'[u].cmd = "execute_fsm_command"
  PROVE  \E c \in Node : call'[u].to = c /\ AllDone(c)'
<1>1. u \in Caller /\ u \notin RestChild /\ call[u] \in Call
  BY TreeAssumption DEF Caller, TreeInv, TypeOK
<1>2. call'[u] # call[u]
  OBVIOUS
<1>3. call[u].cmd = "execute_fsm_command"
  BY <1>1, <1>2, WhoAnswers
<1>4. PICK c \in Node : HandlerStep(c) /\ u = worker[c].caller
  BY <1>1, <1>2, WhoAnswers
<1>5. call[u].to = c
  BY <1>1, <1>4, HandlerEffect DEF TreeInv, CallInv, ServedIsWorkedOn
<1>6. ExecuteStep(c)
  BY <1>3, <1>4 DEF HandlerStep, ActorStep, InclusionStep, TakeControl, TookControl,
     SurrenderControl, PropagateInclusion, Include, Exclude, At
<1>7. Conclude(c) /\ worker[c].cleanChildren
  BY <1>4, <1>6, CleanAnswer
<1>8. call'[u].to = c
  <2>1. PICK r : call'[u] = answered(u, r)
    BY <1>1, <1>4, <1>7 DEF Conclude, Return
  <2> QED BY <1>1, <1>5, <2>1 DEF answered, Call
<1> QED BY <1>7, <1>8, ConcludeSpeaks

(* When users talk to the root only, a user who hears that a transition    *)
(* went well everywhere is told the truth, in every tree: each controller  *)
(* and application is in the new state and none is in error, whatever      *)
(* failed, died or was refused before and whoever else sends commands.     *)
THEOREM CleanReportsAreTrue ==
  ASSUME \A u \in User : Entry[u] \subseteq {Root}
  PROVE  Spec => HonestReport
<1> DEFINE Inv == AtRoot /\ ApplicationsFollow /\ ControllersFollow /\ HonestInv
           Told(u) == /\ call[u].status = "served" /\ call'[u].status = "answered"
                      /\ call'[u].response.clean /\ call'[u].cmd = "execute_fsm_command"
           Holds(c) == /\ \A k \in Node \cap Tree(c) :
                           /\ operational_state'[k] = operational_state'[c]
                           /\ ~in_error'[k]
                      /\ \A a \in RestChild \cap Tree(c) :
                           rest'[a].state = operational_state'[c] /\ ~rest'[a].errored
<1>1. Init => Inv
  BY ApplicationsFollowInit, ControllersFollowInit, HonestInvInit
<1>2. TreeInv /\ TreeInv' /\ Inv /\ [Next]_vars => Inv'
  BY AtRootStep, ApplicationsFollowStep, ControllersFollowStep, HonestInvStep
<1>3. TreeInv /\ Inv /\ [Next]_vars => [\A u \in User : Told(u) => Holds(call'[u].to)]_vars
  <2> SUFFICES ASSUME TreeInv, Inv, [Next]_vars, NEW u \in User, Told(u)
               PROVE  Holds(call'[u].to)
    OBVIOUS
  <2>1. PICK c \in Node : call'[u].to = c /\ AllDone(c)'
    BY ToldByConclude
  <2>2. c \in Tree(c)
    <3> HIDE DEF Inv
    <3> QED BY AncestorsUnfold DEF Tree
  <2>3. Node \cap RestChild = {}
    BY TreeAssumption
  <2> QED BY <2>1, <2>2, <2>3 DEF AllDone, Quiet, Fit, State_of
<1>4. TreeInv /\ Inv /\ [Next]_vars =>
        [\A u \in User :
           LET told == call'[u]
           IN  call[u].status = "served" /\ told.status = "answered" /\ told.response.clean
               /\ told.cmd = "execute_fsm_command" =>
                 /\ \A k \in Node \cap Tree(told.to) :
                      /\ operational_state'[k] = operational_state'[told.to]
                      /\ ~in_error'[k]
                 /\ \A a \in RestChild \cap Tree(told.to) :
                      rest'[a].state = operational_state'[told.to] /\ ~rest'[a].errored]_vars
  BY <1>3
<1> QED
  BY <1>1, <1>2, <1>4, TreeInvInit, TreeInvStep, PTL DEF Spec, HonestReport
=============================================================================
