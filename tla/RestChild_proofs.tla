-------------------------- MODULE RestChild_proofs --------------------------
(* What holds of the applications of a controller, for any number of them, *)
(* any machine and any queue.                                              *)
EXTENDS RestChild, TLAPS

LEMMA DestinationIsState ==
  ASSUME NEW s \in State, NEW t \in Transition
  PROVE  get_destination_state(s, t) \in State
BY FSMAssumption DEF get_destination_state

(* What the two operations on queues do. *)
LEMMA AppendEffect ==
  ASSUME NEW q \in Seq(Reply), NEW r \in Reply
  PROVE  /\ Append(q, r) \in Seq(Reply)
         /\ Len(Append(q, r)) = Len(q) + 1
         /\ \A i \in 1..Len(q) : Append(q, r)[i] = q[i]
         /\ Append(q, r)[Len(q) + 1] = r
OBVIOUS

LEMMA TailEffect ==
  ASSUME NEW q \in Seq(Reply), q # <<>>
  PROVE  /\ Tail(q) \in Seq(Reply)
         /\ Len(Tail(q)) = Len(q) - 1
         /\ \A i \in 1..Len(Tail(q)) : i + 1 \in 1..Len(q) /\ Tail(q)[i] = q[i + 1]
         /\ Head(q) = q[1] /\ Head(q) \in Reply /\ 1 \in 1..Len(q)
OBVIOUS

ChildState == [state : State, executing : BOOLEAN, errored : BOOLEAN]

(* What Raise does, child by child. *)
LEMMA RaiseEffect ==
  ASSUME child \in [App -> ChildState], NEW a \in App, Raise(a)
  PROVE  /\ child' \in [App -> ChildState]
         /\ child'[a].errored
         /\ child'[a].state = child[a].state
         /\ \A b \in App : b # a => child'[b] = child[b]
<1> DEFINE new == [child[a] EXCEPT !.errored = TRUE, !.executing = TRUE]
<1>1. new \in ChildState /\ new.errored /\ new.state = child[a].state
  BY DEF ChildState
<1>2. child' = [child EXCEPT ![a] = new]
  BY DEF Raise
<1> QED
  BY <1>1, <1>2

(* A thread that works has a transition to pass on. *)
Shape ==
  /\ \A a \in App : thread[a] # "idle" => parent.tr \in Transition
  /\ \A a \in App : application[a].status \in {"busy", "replied"} => application[a].cmd \in Command

TypeInv == TypeOK /\ Shape

LEMMA TypeInvInit == Init => TypeInv
<1> SUFFICES ASSUME Init PROVE TypeInv
  OBVIOUS
<1>1. TypeOK
  BY FSMAssumption, ClientAssumption DEF Init, TypeOK, Application, started
<1>2. Shape
  BY DEF Init, Shape, started
<1> QED
  BY <1>1, <1>2 DEF TypeInv

LEMMA CommandType ==
  ASSUME TypeInv, NEW a \in App, thread[a] # "idle"
  PROVE  command(a) \in Command
BY DestinationIsState DEF TypeInv, TypeOK, Shape, command, Command

LEMMA SendResponseType ==
  ASSUME TypeInv, NEW a \in App, NEW t \in Transition, NEW ok \in BOOLEAN,
         send_response(a, t, ok)
  PROVE  queue' \in Seq(Reply) /\ response_queue' = response_queue /\ dispatcher' = dispatcher
<1> DEFINE r == [appname |-> a, cmd |-> t, success |-> ok]
<1>1. r \in Reply
  BY DEF Reply
<1>2. queue \in Seq(Reply)
  BY DEF TypeInv, TypeOK
<1>3. Append(queue, r) \in Seq(Reply)
  BY <1>1, <1>2, AppendEffect
<1> QED
  BY <1>2, <1>3 DEF send_response

LEMMA TypeInvStep ==
  ASSUME TypeInv, [Next]_vars
  PROVE  TypeInv'
<1> USE DEF TypeInv
<1>1. ASSUME NEW t \in Transition, Propagate(t)
      PROVE  TypeInv'
  BY <1>1 DEF Propagate, TypeOK, Shape, listenerVars, appVars
<1>2. CASE Conclusion
  <2>1. parent.tr \in Transition
    BY <1>2 DEF Conclusion, Conclude, ConcludeStuck, Joined, TypeOK
  <2>2. get_destination_state(parent.state, parent.tr) \in State
    BY <2>1, DestinationIsState DEF TypeOK
  <2>3. parent' \in [state : State, tr : Transition \cup {NoTransition}, failed : BOOLEAN]
    <3>1. CASE Conclude
      BY <2>2, <3>1 DEF Conclude
    <3>2. CASE ConcludeStuck
      BY <3>2 DEF ConcludeStuck, TypeOK
    <3> QED
      BY <1>2, <3>1, <3>2 DEF Conclusion
  <2>4. /\ thread' = [a \in App |-> "idle"]
        /\ UNCHANGED <<child, queue, response_queue, dispatcher, request, application>>
    BY <1>2 DEF Conclusion, Conclude, ConcludeStuck, listenerVars, appVars
  <2> QED
    BY <2>3, <2>4 DEF TypeOK, Shape
<1>3. ASSUME NEW a \in App, ThreadStep(a)
      PROVE  TypeInv'
  <2>1. thread[a] \in {"send", "wait"} /\ command(a) \in Command
    BY <1>3, CommandType DEF ThreadStep, Send, SendUnacknowledged, CouldnotSend, Receive,
                             ResponseTimeout
  <2>2. command(a).exit_state \in State
    BY <2>1 DEF Command
  <2>3. child' \in [App -> [state : State, executing : BOOLEAN, errored : BOOLEAN]]
    <3>1. CASE Raise(a)
      BY <3>1, RaiseEffect DEF ChildState, TypeOK
    <3>2. CASE Send(a)
      BY <3>2 DEF Send, TypeOK
    <3>3. CASE child' = [child EXCEPT ![a] = [@ EXCEPT !.executing = FALSE,
                                                     !.state = command(a).exit_state]]
      <4> DEFINE new == [child[a] EXCEPT !.executing = FALSE, !.state = command(a).exit_state]
      <4>1. child \in [App -> ChildState]
        BY DEF TypeOK, ChildState
      <4>2. new \in ChildState
        BY <2>2, <4>1 DEF ChildState
      <4>3. child' = [child EXCEPT ![a] = new]
        BY <3>3
      <4> QED
        BY <4>1, <4>2, <4>3 DEF ChildState
    <3> QED
      BY <1>3, <3>1, <3>2, <3>3 DEF ThreadStep, SendUnacknowledged, CouldnotSend, Receive,
                                    ResponseTimeout
  <2>4. /\ thread' \in [App -> {"idle", "send", "wait", "succeeded", "failed"}]
        /\ \A b \in App : b # a => thread'[b] = thread[b]
    BY <1>3 DEF ThreadStep, Send, SendUnacknowledged, CouldnotSend, Receive, ResponseTimeout,
                Raise, TypeOK
  <2>5. response_queue' \in [App -> Seq(Reply)]
    <3>1. CASE Receive(a)
      <4>1. Tail(response_queue[a]) \in Seq(Reply)
        BY <3>1, TailEffect DEF Receive, TypeOK
      <4> QED
        BY <3>1, <4>1 DEF Receive, TypeOK
    <3> QED
      BY <1>3, <3>1 DEF ThreadStep, Send, SendUnacknowledged, CouldnotSend, ResponseTimeout,
                        listenerVars, TypeOK
  <2>6. request' \in [App -> Command \cup {NoCommand}]
    BY <1>3, <2>1 DEF ThreadStep, Send, SendUnacknowledged, CouldnotSend, Receive,
                      ResponseTimeout, appVars, TypeOK
  <2>7. UNCHANGED <<parent, queue, dispatcher, application>>
    BY <1>3 DEF ThreadStep, Send, SendUnacknowledged, CouldnotSend, Receive, ResponseTimeout,
                listenerVars, appVars
  <2>8. TypeOK'
    BY <2>3, <2>4, <2>5, <2>6, <2>7 DEF TypeOK
  <2>9. Shape'
    BY <2>1, <2>4, <2>7 DEF Shape
  <2> QED
    BY <2>8, <2>9
<1>4. ASSUME NEW a \in App, AppStep(a)
      PROVE  TypeInv'
  <2>1. queue' \in Seq(Reply) /\ response_queue' = response_queue /\ dispatcher' = dispatcher
    <3>1. CASE Refuse(a)
      <4>1. request[a].tr \in Transition
        BY <3>1 DEF Refuse, TypeOK, Command
      <4> QED
        BY <3>1, <4>1, SendResponseType DEF Refuse
    <3>2. CASE Succeed(a) \/ Fail(a)
      <4>1. application[a].cmd.tr \in Transition
        BY <3>2 DEF Succeed, Fail, Shape, Command
      <4> QED
        BY <3>2, <4>1, SendResponseType DEF Succeed, Fail
    <3> QED
      BY <1>4, <3>1, <3>2 DEF AppStep, Execute, Settle, Die, Restart, listenerVars, TypeOK
  <2>2. application[a] \in Application
    BY DEF TypeOK
  <2>3. /\ application' \in [App -> Application]
        /\ \A b \in App : application'[b].status \in {"busy", "replied"} =>
                          application'[b].cmd \in Command
    <3> DEFINE Good == /\ application' \in [App -> Application]
                       /\ \A b \in App : application'[b].status \in {"busy", "replied"} =>
                                         application'[b].cmd \in Command
    <3>1. ASSUME NEW new \in Application, application' = [application EXCEPT ![a] = new],
                 new.status \in {"busy", "replied"} => new.cmd \in Command
          PROVE  Good
      BY <3>1 DEF TypeOK, Shape
    <3>2. CASE Refuse(a)
      BY <3>2 DEF Refuse, TypeOK, Shape
    <3>3. CASE Execute(a)
      <4> DEFINE new == [application[a] EXCEPT !.status = "busy", !.cmd = request[a]]
      <4>1. request[a] \in Command
        BY <3>3 DEF Execute, TypeOK
      <4>2. new \in Application /\ (new.status \in {"busy", "replied"} => new.cmd \in Command)
        BY <4>1, <2>2 DEF Application
      <4>3. application' = [application EXCEPT ![a] = new]
        BY <3>3 DEF Execute
      <4> QED
        BY <3>1, <4>2, <4>3
    <3>4. CASE Succeed(a)
      <4> DEFINE new == [application[a] EXCEPT !.status = "replied"]
      <4>1. application[a].cmd \in Command
        BY <3>4 DEF Succeed, Shape
      <4>2. new \in Application /\ (new.status \in {"busy", "replied"} => new.cmd \in Command)
        BY <4>1, <2>2 DEF Application
      <4>3. application' = [application EXCEPT ![a] = new]
        BY <3>4 DEF Succeed
      <4> QED
        BY <3>1, <4>2, <4>3
    <3>5. CASE Settle(a)
      <4> DEFINE new == [status |-> "idle", state |-> application[a].cmd.exit_state,
                         cmd |-> NoCommand]
      <4>1. application[a].cmd.exit_state \in State
        BY <3>5 DEF Settle, Shape, Command
      <4>2. new \in Application /\ (new.status \in {"busy", "replied"} => new.cmd \in Command)
        BY <4>1, <2>2 DEF Application
      <4>3. application' = [application EXCEPT ![a] = new]
        BY <3>5 DEF Settle
      <4> QED
        BY <3>1, <4>2, <4>3
    <3>6. CASE Fail(a)
      <4> DEFINE new == [application[a] EXCEPT !.status = "idle", !.cmd = NoCommand]
      <4>2. new \in Application /\ (new.status \in {"busy", "replied"} => new.cmd \in Command)
        BY <2>2 DEF Application
      <4>3. application' = [application EXCEPT ![a] = new]
        BY <3>6 DEF Fail
      <4> QED
        BY <3>1, <4>2, <4>3
    <3>7. CASE Die(a)
      <4> DEFINE new == [application[a] EXCEPT !.status = "down", !.cmd = NoCommand]
      <4>2. new \in Application /\ (new.status \in {"busy", "replied"} => new.cmd \in Command)
        BY <2>2 DEF Application
      <4>3. application' = [application EXCEPT ![a] = new]
        BY <3>7 DEF Die
      <4> QED
        BY <3>1, <4>2, <4>3
    <3>8. CASE Restart(a)
      <4> DEFINE new == started
      <4>2. new \in Application /\ (new.status \in {"busy", "replied"} => new.cmd \in Command)
        BY FSMAssumption, <2>2 DEF started, Application
      <4>3. application' = [application EXCEPT ![a] = new]
        BY <3>8 DEF Restart
      <4> QED
        BY <3>1, <4>2, <4>3
    <3> QED
      BY <1>4, <3>2, <3>3, <3>4, <3>5, <3>6, <3>7, <3>8 DEF AppStep
  <2>4. request' \in [App -> Command \cup {NoCommand}]
    BY <1>4 DEF AppStep, Refuse, Execute, Succeed, Settle, Fail, Die, Restart, TypeOK
  <2>5. UNCHANGED <<parent, child, thread>>
    BY <1>4 DEF AppStep, Refuse, Execute, Succeed, Settle, Fail, Die, Restart, parentVars
  <2>6. TypeOK'
    BY <2>1, <2>3, <2>4, <2>5 DEF TypeOK
  <2>7. Shape'
    BY <2>3, <2>5 DEF Shape
  <2> QED
    BY <2>6, <2>7
<1>5. CASE Dispatch
  <2>1. Tail(queue) \in Seq(Reply) /\ Head(queue) \in Reply
    BY <1>5, TailEffect DEF Dispatch, TypeOK
  <2>2. \A a \in App : Append(response_queue[a], Head(queue)) \in Seq(Reply)
    BY <2>1, AppendEffect DEF TypeOK
  <2>3. response_queue' \in [App -> Seq(Reply)]
    <3>1. response_queue \in [App -> Seq(Reply)]
      BY DEF TypeOK
    <3>2. ASSUME NEW a \in App,
                 response_queue' = [response_queue EXCEPT ![a] = Append(@, Head(queue))]
          PROVE  response_queue' \in [App -> Seq(Reply)]
      BY <2>2, <3>1, <3>2
    <3> QED
      BY <1>5, <3>1, <3>2 DEF Dispatch
  <2>4. /\ queue' \in Seq(Reply)
        /\ dispatcher' \in {"running", "dead"}
        /\ UNCHANGED <<parent, child, thread, request, application>>
    BY <1>5, <2>1 DEF Dispatch, TypeOK, parentVars, appVars
  <2> QED
    BY <2>3, <2>4 DEF TypeOK, Shape
<1>6. ASSUME NEW s \in Stranger, Stray(s)
      PROVE  TypeInv'
  <2>1. [appname |-> s, cmd |-> NoTransition, success |-> TRUE] \in Reply
    BY DEF Reply
  <2>2. queue' \in Seq(Reply)
    BY <1>6, <2>1, AppendEffect DEF Stray, TypeOK
  <2> QED
    BY <1>6, <2>2 DEF Stray, TypeOK, Shape, parentVars, appVars
<1>7. CASE UNCHANGED vars
  BY <1>7 DEF vars, TypeOK, Shape
<1> QED
  BY <1>1, <1>2, <1>3, <1>4, <1>5, <1>6, <1>7 DEF Next

(* Every value stays in its type. *)
THEOREM TypeCorrect == Spec => []TypeOK
BY TypeInvInit, TypeInvStep, PTL DEF Spec, TypeInv
-----------------------------------------------------------------------------
(* Parent and healthy children are in step: before a child has its reply   *)
(* it believes the state of the parent, afterwards the state that the      *)
(* parent is about to take.                                                *)
InStep ==
  /\ parent.tr # NoTransition =>
       /\ ~parent.failed
       /\ can_execute_transition(parent.state, parent.tr)
  /\ \A a \in App :
       /\ ~parent.failed /\ thread[a] \in {"idle", "send", "wait"} =>
            ~child[a].errored /\ child[a].state = parent.state
       /\ thread[a] = "succeeded" =>
            /\ ~child[a].errored
            /\ child[a].state = get_destination_state(parent.state, parent.tr)

LEMMA InStepInit == Init => InStep
BY ClientAssumption DEF Init, InStep

LEMMA InStepStep ==
  ASSUME TypeInv, InStep, [Next]_vars
  PROVE  InStep'
<1> USE DEF TypeInv, InStep
<1>1. ASSUME NEW t \in Transition, Propagate(t)
      PROVE  InStep'
  <2>1. \A a \in App :
          thread[a] \notin {"send", "wait", "succeeded", "failed"} => thread[a] = "idle"
    BY DEF TypeOK
  <2>2. \A a \in App : thread[a] # "idle" => parent.tr # NoTransition
    BY RestAssumption DEF Shape
  <2> QED
    BY <1>1, <2>1, <2>2, RestAssumption DEF Propagate, TypeOK
<1>2. CASE Conclusion
  <2>1. thread' = [a \in App |-> "idle"] /\ child' = child
    BY <1>2 DEF Conclusion, Conclude, ConcludeStuck
  <2>2. parent'.tr = NoTransition
    <3>1. CASE Conclude
      BY <3>1 DEF Conclude
    <3>2. CASE ConcludeStuck
      <4>1. parent' = [parent EXCEPT !.tr = NoTransition, !.failed = TRUE]
        BY <3>2 DEF ConcludeStuck
      <4> QED
        BY <4>1 DEF TypeOK
    <3> QED
      BY <1>2, <3>1, <3>2 DEF Conclusion
  <2>3. CASE Conclude
    <3>1. \A a \in App : thread[a] \in {"succeeded", "failed"}
      BY <2>3 DEF Conclude, Joined
    <3>2. /\ parent'.state = get_destination_state(parent.state, parent.tr)
          /\ parent'.failed = \E a \in App : thread[a] = "failed"
      BY <2>3 DEF Conclude
    <3> QED
      BY <2>1, <2>2, <3>1, <3>2
  <2>4. CASE ConcludeStuck
    <3>1. parent'.failed
      BY <2>4 DEF ConcludeStuck, TypeOK
    <3> QED
      BY <2>1, <2>2, <3>1
  <2> QED
    BY <1>2, <2>3, <2>4 DEF Conclusion
<1>3. ASSUME NEW a \in App, ThreadStep(a)
      PROVE  InStep'
  <2>0. /\ child \in [App -> ChildState]
        /\ thread \in [App -> {"idle", "send", "wait", "succeeded", "failed"}]
    BY DEF TypeOK, ChildState
  <2>1. parent' = parent
    BY <1>3 DEF ThreadStep, Send, SendUnacknowledged, CouldnotSend, Receive, ResponseTimeout
  <2>2. CASE Send(a)
    <3>1. \A b \in App : /\ child'[b].state = child[b].state
                         /\ child'[b].errored = child[b].errored
      BY <2>0, <2>2 DEF Send, ChildState
    <3>2. thread[a] = "send" /\ thread' = [thread EXCEPT ![a] = "wait"]
      BY <2>2 DEF Send
    <3> QED
      BY <2>0, <2>1, <3>1, <3>2
  <2>3. CASE Raise(a)
    <3>1. /\ thread'[a] = "failed"
          /\ \A b \in App : b # a => thread'[b] = thread[b] /\ child'[b] = child[b]
      BY <2>0, <2>3, RaiseEffect DEF Raise
    <3> QED
      BY <2>1, <3>1
  <2>4. CASE Receive(a) /\ ~Raise(a)
    <3>1. /\ child' = [child EXCEPT ![a] = [child[a] EXCEPT !.executing = FALSE,
                                                         !.state = command(a).exit_state]]
          /\ thread' = [thread EXCEPT ![a] = "succeeded"]
          /\ thread[a] = "wait"
      BY <2>4 DEF Receive
    <3>2. child[a].state = parent.state /\ ~child[a].errored
      BY <3>1, RestAssumption DEF Shape
    <3>3. command(a).exit_state = get_destination_state(parent.state, parent.tr)
      BY <3>2 DEF command
    <3>4. child'[a].state = command(a).exit_state /\ child'[a].errored = child[a].errored
      BY <2>0, <3>1 DEF ChildState
    <3>5. \A b \in App : b # a => thread'[b] = thread[b] /\ child'[b] = child[b]
      BY <2>0, <3>1
    <3>6. thread'[a] = "succeeded"
      BY <2>0, <3>1
    <3> QED
      BY <2>1, <3>2, <3>3, <3>4, <3>5, <3>6
  <2> QED
    BY <1>3, <2>2, <2>3, <2>4 DEF ThreadStep, SendUnacknowledged, CouldnotSend, ResponseTimeout
<1>4. ASSUME UNCHANGED parentVars
      PROVE  InStep'
  BY <1>4 DEF parentVars
<1>5. ASSUME NEW a \in App, AppStep(a)
      PROVE  InStep'
  BY <1>4, <1>5 DEF AppStep, Refuse, Execute, Succeed, Settle, Fail, Die, Restart
<1>6. CASE Dispatch \/ (\E s \in Stranger : Stray(s)) \/ UNCHANGED vars
  BY <1>4, <1>6 DEF Dispatch, Stray, vars, parentVars
<1> QED
  BY <1>1, <1>2, <1>3, <1>5, <1>6 DEF Next

(* A step of the applications is one of the abstract run control: a        *)
(* transition of a healthy child, a failure, or nothing.                   *)
LEMMA RunControlStep ==
  ASSUME TypeInv, InStep, [Next]_vars
  PROVE  [RunControl!Next]_(RunControl!vars)
<1> USE DEF TypeInv
<1> DEFINE states == [a \in App |-> child[a].state]
           errors == [a \in App |-> child[a].errored]
<1>1. ASSUME UNCHANGED child
      PROVE  UNCHANGED RunControl!vars
  BY <1>1 DEF RunControl!vars
<1>2. ASSUME NEW a \in App, ThreadStep(a)
      PROVE  [RunControl!Next]_(RunControl!vars)
  <2>1. ASSUME Raise(a)
        PROVE  RunControl!Fail(a)
    BY <2>1 DEF Raise, RunControl!Fail, TypeOK
  <2>2. CASE SendUnacknowledged(a) \/ CouldnotSend(a) \/ ResponseTimeout(a)
    BY <2>1, <2>2 DEF SendUnacknowledged, CouldnotSend, ResponseTimeout, RunControl!Next
  <2>3. CASE Send(a)
    <3>1. states' = states /\ errors' = errors
      BY <2>3 DEF Send, TypeOK
    <3> QED
      BY <3>1 DEF RunControl!vars
  <2>4. CASE Receive(a)
    <3>1. parent.tr \in Transition
      BY <2>4 DEF Receive, Shape
    <3>2. child[a].state = parent.state /\ ~child[a].errored
          /\ can_execute_transition(parent.state, parent.tr)
      BY <2>4, <3>1, RestAssumption DEF Receive, InStep
    <3>3. CASE Raise(a)
      BY <2>1, <3>3 DEF RunControl!Next
    <3>4. CASE child' = [child EXCEPT ![a] = [@ EXCEPT !.executing = FALSE,
                                      !.state = command(a).exit_state]]
      <4>1. PICK t \in Transition : t = parent.tr
        BY <3>1
      <4>2. command(a).exit_state = get_destination_state(child[a].state, t)
        BY <4>1 DEF command
      <4>3. errors' = errors
        BY <3>4 DEF TypeOK
      <4>4. states' = [states EXCEPT ![a] = get_destination_state(@, t)]
        BY <3>4, <4>2 DEF TypeOK
      <4>5. RunControl!Move(a, t)
        BY <3>2, <4>1, <4>3, <4>4 DEF RunControl!Move, RunControl!can_execute_transition,
             RunControl!get_destination_state, RunControl!Stay, can_execute_transition,
             get_destination_state, Stay
      <4> QED
        BY <4>5 DEF RunControl!Next
    <3> QED
      BY <2>4, <3>3, <3>4 DEF Receive
  <2> QED
    BY <1>2, <2>2, <2>3, <2>4 DEF ThreadStep
<1>3. CASE (\E t \in Transition : Propagate(t)) \/ Conclusion
  BY <1>1, <1>3 DEF Propagate, Conclusion, Conclude, ConcludeStuck
<1>4. ASSUME NEW a \in App, AppStep(a)
      PROVE  UNCHANGED child
  BY <1>4 DEF AppStep, Refuse, Execute, Succeed, Settle, Fail, Die, Restart, parentVars
<1>5. CASE Dispatch \/ (\E s \in Stranger : Stray(s)) \/ UNCHANGED vars
  BY <1>1, <1>5 DEF Dispatch, Stray, vars, parentVars
<1> QED
  BY <1>1, <1>2, <1>3, <1>4, <1>5 DEF Next

(* The children as their controller sees them implement the abstract run   *)
(* control, whatever applications, network, listener and dispatcher do.    *)
THEOREM ApplicationsImplementRunControl == Spec => ImplementsRunControl
<1>1. Init => RunControl!Init
  BY ClientAssumption DEF Init, RunControl!Init
<1>2. TypeInv /\ InStep /\ [Next]_vars => [RunControl!Next]_(RunControl!vars)
  BY RunControlStep
<1> QED
  BY <1>1, <1>2, TypeInvInit, TypeInvStep, InStepInit, InStepStep, PTL
     DEF Spec, ImplementsRunControl, RunControl!Spec
-----------------------------------------------------------------------------
(* What is on its way between a healthy application and its child: nothing *)
(* when the child does not wait, and otherwise the command, or its         *)
(* execution, or at most one reply, which is the answer to that command.   *)

RepliesTo(q, a) == {q[i] : i \in {j \in 1..Len(q) : q[j].appname = a}}

AtMostOne(q, a) == \A i, j \in 1..Len(q) : q[i].appname = a /\ q[j].appname = a => i = j

LEMMA AppendReplies ==
  ASSUME NEW q \in Seq(Reply), NEW r \in Reply, NEW a
  PROVE  /\ r.appname = a => RepliesTo(Append(q, r), a) = RepliesTo(q, a) \cup {r}
         /\ r.appname # a => RepliesTo(Append(q, r), a) = RepliesTo(q, a)
         /\ r.appname # a /\ AtMostOne(q, a) => AtMostOne(Append(q, r), a)
         /\ RepliesTo(q, a) = {} => AtMostOne(Append(q, r), a)
<1> DEFINE p == Append(q, r)
<1>1. /\ Len(p) = Len(q) + 1 /\ p[Len(q) + 1] = r
      /\ \A i \in 1..Len(q) : p[i] = q[i]
      /\ Len(q) \in Nat
  BY AppendEffect
<1>2. 1..Len(p) = 1..Len(q) \cup {Len(q) + 1}
  BY <1>1
<1> HIDE DEF p
<1>3. r.appname = a => RepliesTo(p, a) = RepliesTo(q, a) \cup {r}
  BY <1>1, <1>2 DEF RepliesTo
<1>4. r.appname # a => RepliesTo(p, a) = RepliesTo(q, a)
  BY <1>1, <1>2 DEF RepliesTo
<1>5. r.appname # a /\ AtMostOne(q, a) => AtMostOne(p, a)
  BY <1>1, <1>2 DEF AtMostOne
<1>6. RepliesTo(q, a) = {} => AtMostOne(p, a)
  <2>1. RepliesTo(q, a) = {} => \A i \in 1..Len(q) : q[i].appname # a
    BY DEF RepliesTo
  <2> QED
    BY <1>1, <1>2, <2>1 DEF AtMostOne
<1> QED
  BY <1>3, <1>4, <1>5, <1>6 DEF p

LEMMA TailReplies ==
  ASSUME NEW q \in Seq(Reply), q # <<>>, NEW a
  PROVE  /\ AtMostOne(q, a) => AtMostOne(Tail(q), a)
         /\ Head(q).appname # a => RepliesTo(Tail(q), a) = RepliesTo(q, a)
         /\ Head(q).appname = a => Head(q) \in RepliesTo(q, a)
         /\ Head(q).appname = a /\ AtMostOne(q, a) => RepliesTo(Tail(q), a) = {}
<1> DEFINE p == Tail(q)
           h == Head(q)
<1>1. /\ Len(p) = Len(q) - 1 /\ Len(q) \in Nat /\ 1 \in 1..Len(q)
      /\ \A i \in 1..Len(p) : i + 1 \in 1..Len(q) /\ p[i] = q[i + 1]
      /\ h = q[1]
  BY TailEffect
<1>2. \A i \in 1..Len(q) : i = 1 \/ (i - 1 \in 1..Len(p) /\ q[i] = p[i - 1])
  BY <1>1
<1> HIDE DEF p, h
<1>3. AtMostOne(q, a) => AtMostOne(p, a)
  BY <1>1 DEF AtMostOne
<1>4. h.appname # a => RepliesTo(p, a) = RepliesTo(q, a)
  BY <1>1, <1>2 DEF RepliesTo
<1>5. h.appname = a => h \in RepliesTo(q, a)
  BY <1>1 DEF RepliesTo
<1>6. h.appname = a /\ AtMostOne(q, a) => RepliesTo(p, a) = {}
  <2> SUFFICES ASSUME h.appname = a, AtMostOne(q, a), NEW i \in 1..Len(p), p[i].appname = a
               PROVE  FALSE
    BY DEF RepliesTo
  <2>1. i + 1 \in 1..Len(q) /\ q[i + 1].appname = a /\ q[1].appname = a /\ i + 1 # 1
    BY <1>1
  <2> QED
    BY <1>1, <2>1 DEF AtMostOne
<1> QED
  BY <1>3, <1>4, <1>5, <1>6 DEF p, h

KnownAs(a, s) == application[a].status \in {"new", "down"} \/ settling(a) = s

Owned(a, r) == r.cmd = parent.tr /\ (r.success => KnownAs(a, command(a).exit_state))

Silent(a) == response_queue[a] = <<>> /\ RepliesTo(queue, a) = {}

OneReply(a) ==
  /\ AtMostOne(queue, a)
  /\ \A r \in RepliesTo(queue, a) : Owned(a, r)
  /\ \/ response_queue[a] = <<>>
     \/ /\ Len(response_queue[a]) = 1
        /\ Owned(a, Head(response_queue[a]))
        /\ RepliesTo(queue, a) = {}

Waiting(a) ==
  \/ /\ request[a] = command(a)
     /\ application[a].status # "busy"
     /\ Silent(a)
  \/ /\ request[a] = NoCommand
     /\ application[a].status = "busy"
     /\ application[a].cmd = command(a)
     /\ Silent(a)
  \/ /\ request[a] = NoCommand
     /\ application[a].status # "busy"
     /\ OneReply(a)

NotWaiting(a) ==
  /\ request[a] = NoCommand
  /\ application[a].status # "busy"
  /\ Silent(a)
  /\ KnownAs(a, child[a].state)

OnItsWay(a) ==
  ~child[a].errored =>
    /\ thread[a] = "wait" => Waiting(a)
    /\ thread[a] # "wait" => NotWaiting(a)

LEMMA OnItsWayInit ==
  ASSUME Init, NEW a \in App
  PROVE  OnItsWay(a)
<1>1. RepliesTo(<<>>, a) = {}
  BY DEF RepliesTo
<1> QED
  BY <1>1, ClientAssumption DEF Init, OnItsWay, NotWaiting, Silent, KnownAs, started

(* What happens elsewhere does not matter. *)
LEMMA Unmoved ==
  ASSUME NEW a \in App, OnItsWay(a),
         parent' = parent, child'[a] = child[a], thread'[a] = thread[a],
         request'[a] = request[a], application'[a] = application[a],
         response_queue'[a] = response_queue[a],
         RepliesTo(queue, a)' = RepliesTo(queue, a),
         AtMostOne(queue, a) => AtMostOne(queue, a)'
  PROVE  OnItsWay(a)'
<1>1. command(a)' = command(a)
  BY DEF command
<1>2. \A s : KnownAs(a, s) => KnownAs(a, s)'
  BY DEF KnownAs, settling
<1>3. \A r : Owned(a, r) => Owned(a, r)'
  BY <1>1 DEF Owned, KnownAs, settling
<1>4. Silent(a) => Silent(a)'
  BY DEF Silent
<1>5. OneReply(a) => OneReply(a)'
  BY <1>3 DEF OneReply
<1>6. Waiting(a) => Waiting(a)'
  BY <1>1, <1>4, <1>5 DEF Waiting
<1>7. NotWaiting(a) => NotWaiting(a)'
  BY <1>4 DEF NotWaiting, KnownAs, settling
<1> QED
  BY <1>6, <1>7 DEF OnItsWay

LEMMA ReplySent ==
  ASSUME TypeInv, NEW a \in App, NEW t \in Transition, NEW ok \in BOOLEAN,
         send_response(a, t, ok), NEW b \in App
  PROVE  /\ response_queue' = response_queue
         /\ b # a => /\ RepliesTo(queue, b)' = RepliesTo(queue, b)
                     /\ AtMostOne(queue, b) => AtMostOne(queue, b)'
         /\ RepliesTo(queue, a) = {} =>
              /\ AtMostOne(queue, a)'
              /\ \A r \in RepliesTo(queue, a)' : r.cmd = t /\ r.success = ok
<1> DEFINE r == [appname |-> a, cmd |-> t, success |-> ok]
<1>1. r \in Reply /\ queue \in Seq(Reply)
  BY DEF Reply, TypeInv, TypeOK
<1>2. CASE queue' = Append(queue, r)
  <2>1. RepliesTo(queue, a)' = RepliesTo(queue, a) \cup {r}
    BY <1>1, <1>2, AppendReplies
  <2>2. RepliesTo(queue, a) = {} => AtMostOne(queue, a)'
    BY <1>1, <1>2, AppendReplies
  <2>3. b # a => /\ RepliesTo(queue, b)' = RepliesTo(queue, b)
                 /\ AtMostOne(queue, b) => AtMostOne(queue, b)'
    BY <1>1, <1>2, AppendReplies
  <2> QED
    BY <2>1, <2>2, <2>3 DEF send_response
<1>3. CASE queue' = queue
  <2>1. RepliesTo(queue, a) = {} => AtMostOne(queue, a)
    BY DEF RepliesTo, AtMostOne
  <2> QED
    BY <1>3, <2>1 DEF send_response, RepliesTo, AtMostOne
<1> QED
  BY <1>2, <1>3 DEF send_response

(* The step of the thread that drives a. *)
LEMMA ThreadKeeps ==
  ASSUME TypeInv, NEW a \in App, OnItsWay(a), ThreadStep(a)
  PROVE  OnItsWay(a)'
<1>0. /\ child \in [App -> ChildState] /\ request \in [App -> Command \cup {NoCommand}]
      /\ thread \in [App -> {"idle", "send", "wait", "succeeded", "failed"}]
      /\ response_queue[a] \in Seq(Reply) /\ response_queue \in [App -> Seq(Reply)]
  BY DEF TypeInv, TypeOK, ChildState
<1>1. CASE Raise(a)
  BY <1>0, <1>1, RaiseEffect DEF OnItsWay
<1>2. CASE Send(a)
  <2>1. /\ thread[a] = "send" /\ thread'[a] = "wait"
        /\ request'[a] = command(a)
        /\ child'[a].state = child[a].state /\ child'[a].errored = child[a].errored
        /\ UNCHANGED <<parent, queue, response_queue, application>>
    BY <1>0, <1>2 DEF Send, ChildState, listenerVars
  <2>2. command(a)' = command(a)
    BY <2>1 DEF command
  <2>3. NotWaiting(a) => Waiting(a)'
    BY <2>1, <2>2 DEF NotWaiting, Waiting, Silent, RepliesTo
  <2> QED
    BY <2>1, <2>3 DEF OnItsWay
<1>3. CASE Receive(a) /\ ~Raise(a)
  <2>1. /\ thread[a] = "wait" /\ thread' = [thread EXCEPT ![a] = "succeeded"]
        /\ response_queue[a] # <<>>
        /\ response_queue' = [response_queue EXCEPT ![a] = Tail(@)]
        /\ Head(response_queue[a]).success
        /\ child' = [child EXCEPT ![a] = [@ EXCEPT !.executing = FALSE,
                                                 !.state = command(a).exit_state]]
        /\ UNCHANGED <<queue, request, application>>
    BY <1>3 DEF Receive, appVars
  <2>2. thread'[a] = "succeeded" /\ child'[a].state = command(a).exit_state
        /\ child'[a].errored = child[a].errored
    BY <1>0, <2>1 DEF ChildState
  <2>3. SUFFICES ASSUME Waiting(a) PROVE NotWaiting(a)'
    BY <2>1, <2>2 DEF OnItsWay
  <2>4. /\ request[a] = NoCommand /\ application[a].status # "busy"
        /\ Len(response_queue[a]) = 1 /\ Owned(a, Head(response_queue[a]))
        /\ RepliesTo(queue, a) = {}
    BY <2>1, <2>3 DEF Waiting, Silent, OneReply
  <2>5. Tail(response_queue[a]) = <<>>
    BY <1>0, <2>1, <2>4
  <2>6. Silent(a)'
    BY <1>0, <2>1, <2>4, <2>5 DEF Silent, RepliesTo
  <2>7. KnownAs(a, command(a).exit_state)
    BY <2>1, <2>4 DEF Owned
  <2> QED
    BY <2>1, <2>2, <2>4, <2>6, <2>7 DEF NotWaiting, KnownAs, settling
<1> QED
  BY <1>1, <1>2, <1>3 DEF ThreadStep, SendUnacknowledged, CouldnotSend, ResponseTimeout

(* The step of the application itself. *)
LEMMA AppKeeps ==
  ASSUME TypeInv, NEW a \in App, OnItsWay(a), AppStep(a)
  PROVE  OnItsWay(a)'
<1>0. /\ application \in [App -> Application]
      /\ request \in [App -> Command \cup {NoCommand}]
  BY DEF TypeInv, TypeOK
<1>1. UNCHANGED <<parent, child, thread>> /\ command(a)' = command(a)
  BY DEF AppStep, Refuse, Execute, Succeed, Settle, Fail, Die, Restart, parentVars, command
<1>2. SUFFICES /\ Waiting(a) => Waiting(a)'
               /\ NotWaiting(a) => NotWaiting(a)'
  BY <1>1 DEF OnItsWay
<1>3. CASE Refuse(a)
  <2>1. /\ request[a] # NoCommand /\ request[a].tr \in Transition /\ request'[a] = NoCommand
        /\ application' = application
        /\ send_response(a, request[a].tr, FALSE)
    BY <1>0, <1>3, RestAssumption DEF Refuse, Command
  <2>2. ASSUME Waiting(a)
        PROVE  Waiting(a)'
    <3>1. request[a] = command(a) /\ application[a].status # "busy" /\ Silent(a)
      BY <2>1, <2>2 DEF Waiting
    <3>2. request[a].tr = parent.tr
      BY <3>1 DEF command
    <3>3. OneReply(a)'
      BY <1>1, <2>1, <3>1, <3>2, ReplySent DEF OneReply, Silent, Owned
    <3> QED
      BY <2>1, <3>1, <3>3 DEF Waiting
  <2> QED
    BY <2>1, <2>2 DEF NotWaiting
<1>4. CASE Execute(a)
  <2>1. /\ request[a] # NoCommand /\ request'[a] = NoCommand
        /\ application'[a].status = "busy" /\ application'[a].cmd = request[a]
        /\ application[a].status # "busy"
        /\ UNCHANGED <<queue, response_queue>>
    BY <1>0, <1>4 DEF Execute, Executable, Application, listenerVars
  <2> QED
    BY <1>1, <2>1 DEF Waiting, NotWaiting, Silent, RepliesTo
<1>5. CASE Succeed(a) \/ Fail(a)
  <2>1. PICK ok \in BOOLEAN :
          /\ send_response(a, application[a].cmd.tr, ok)
          /\ ok => Succeed(a)
    BY <1>5 DEF Succeed, Fail
  <2>2. /\ application[a].status = "busy" /\ application[a].cmd \in Command
        /\ application[a].cmd.tr \in Transition
        /\ request' = request
    BY <1>5 DEF Succeed, Fail, TypeInv, Shape, Command
  <2>3. /\ application'[a].status # "busy"
        /\ Succeed(a) => application'[a].status = "replied"
                         /\ application'[a].cmd = application[a].cmd
    BY <1>0, <1>5 DEF Succeed, Fail, Application
  <2>4. ASSUME Waiting(a)
        PROVE  Waiting(a)'
    <3>1. request[a] = NoCommand /\ application[a].cmd = command(a) /\ Silent(a)
      BY <2>2, <2>4 DEF Waiting
    <3>2. application[a].cmd.tr = parent.tr
      BY <3>1 DEF command
    <3>3. Succeed(a) => KnownAs(a, command(a).exit_state)'
      BY <1>1, <2>3, <3>1 DEF KnownAs, settling
    <3>4. /\ AtMostOne(queue, a)'
          /\ \A r \in RepliesTo(queue, a)' : r.cmd = application[a].cmd.tr /\ r.success = ok
          /\ response_queue' = response_queue
      BY <2>1, <2>2, <3>1, ReplySent DEF Silent
    <3>5. OneReply(a)'
      BY <1>1, <2>1, <3>1, <3>2, <3>3, <3>4 DEF OneReply, Silent, Owned
    <3> QED
      BY <2>2, <2>3, <3>1, <3>5 DEF Waiting
  <2> QED
    BY <2>2, <2>4 DEF NotWaiting
<1>6. CASE Settle(a) \/ Die(a) \/ Restart(a)
  <2>1. /\ UNCHANGED <<queue, response_queue>>
        /\ application'[a].status # "busy"
        /\ request'[a] \in {request[a], NoCommand}
    <3>1. CASE Settle(a)
      BY <1>0, <3>1 DEF Settle, listenerVars
    <3>2. CASE Die(a)
      <4>1. application' = [application EXCEPT ![a] =
                              [application[a] EXCEPT !.status = "down", !.cmd = NoCommand]]
        BY <3>2 DEF Die
      <4>2. application'[a].status = "down"
        BY <1>0, <4>1 DEF Application
      <4> QED
        BY <1>0, <3>2, <4>2 DEF Die, listenerVars
    <3>3. CASE Restart(a)
      BY <1>0, <3>3 DEF Restart, started, listenerVars
    <3> QED
      BY <1>6, <3>1, <3>2, <3>3
  <2>2. Settle(a) \/ Restart(a) => request' = request /\ application[a].status # "busy"
    BY DEF Settle, Restart
  <2>2a. Die(a) => request'[a] = NoCommand
    BY <1>0 DEF Die
  <2>3. ASSUME application[a].status # "busy", NEW s
        PROVE  KnownAs(a, s) => KnownAs(a, s)'
    <3>1. CASE Settle(a)
      <4>1. application[a].status = "replied" /\ application'[a].status = "idle"
            /\ application'[a].state = application[a].cmd.exit_state
        BY <1>0, <3>1 DEF Settle
      <4> QED
        BY <4>1 DEF KnownAs, settling
    <3>2. CASE Die(a) \/ Restart(a)
      <4>1. application'[a].status \in {"new", "down"}
        <5>1. CASE Die(a)
          <6>1. application' = [application EXCEPT ![a] =
                                  [application[a] EXCEPT !.status = "down", !.cmd = NoCommand]]
            BY <5>1 DEF Die
          <6> QED
            BY <1>0, <6>1 DEF Application
        <5>2. CASE Restart(a)
          BY <1>0, <5>2 DEF Restart, started
        <5> QED
          BY <3>2, <5>1, <5>2
      <4> QED
        BY <4>1 DEF KnownAs
    <3> QED
      BY <1>6, <3>1, <3>2
  <2>4. Silent(a) => Silent(a)' /\ OneReply(a)'
    BY <2>1 DEF Silent, OneReply, RepliesTo, AtMostOne
  <2>5. application[a].status # "busy" /\ OneReply(a) => OneReply(a)'
    <3> SUFFICES ASSUME application[a].status # "busy", OneReply(a) PROVE OneReply(a)'
      OBVIOUS
    <3>1. KnownAs(a, command(a).exit_state) => KnownAs(a, command(a).exit_state)'
      BY <1>1, <2>3 DEF KnownAs, settling
    <3>2. \A r : Owned(a, r) => Owned(a, r)'
      BY <1>1, <3>1 DEF Owned
    <3> QED
      BY <2>1, <3>2 DEF OneReply, RepliesTo, AtMostOne
  <2>6. Waiting(a) => Waiting(a)'
    BY <1>1, <1>6, <2>1, <2>2, <2>2a, <2>4, <2>5 DEF Waiting
  <2>7. NotWaiting(a) => NotWaiting(a)'
    <3>1. application[a].status # "busy" /\ KnownAs(a, child[a].state) => KnownAs(a, child[a].state)'
      BY <1>1, <2>3 DEF KnownAs, settling
    <3> QED
      BY <2>1, <2>4, <3>1 DEF NotWaiting
  <2> QED
    BY <2>6, <2>7
<1> QED
  BY <1>3, <1>4, <1>5, <1>6 DEF AppStep

(* The dispatcher. *)
LEMMA DispatchKeeps ==
  ASSUME TypeInv, NEW a \in App, OnItsWay(a), Dispatch
  PROVE  OnItsWay(a)'
<1>0. /\ queue \in Seq(Reply) /\ queue # <<>> /\ queue' = Tail(queue)
      /\ response_queue \in [App -> Seq(Reply)]
      /\ UNCHANGED <<parent, child, thread, request, application>>
  BY DEF Dispatch, TypeInv, TypeOK, parentVars, appVars
<1>1. CASE Head(queue).appname # a
  <2>1. response_queue'[a] = response_queue[a]
    BY <1>0, <1>1 DEF Dispatch
  <2>2. /\ RepliesTo(queue, a)' = RepliesTo(queue, a)
        /\ AtMostOne(queue, a) => AtMostOne(queue, a)'
    BY <1>0, <1>1, TailReplies
  <2> QED
    BY <1>0, <2>1, <2>2, Unmoved
<1>2. CASE Head(queue).appname = a
  <2>1. response_queue' = [response_queue EXCEPT ![a] = Append(@, Head(queue))]
    BY <1>2 DEF Dispatch
  <2>2. Head(queue) \in RepliesTo(queue, a)
    BY <1>0, <1>2, TailReplies
  <2>3. command(a)' = command(a)
    BY <1>0 DEF command
  <2>4. ~NotWaiting(a)
    BY <2>2 DEF NotWaiting, Silent
  <2>5. ASSUME Waiting(a)
        PROVE  Waiting(a)'
    <3>1. request[a] = NoCommand /\ application[a].status # "busy" /\ OneReply(a)
      BY <2>2, <2>5 DEF Waiting, Silent
    <3>2. response_queue[a] = <<>> /\ Owned(a, Head(queue)) /\ AtMostOne(queue, a)
      BY <2>2, <3>1 DEF OneReply
    <3>3. RepliesTo(queue, a)' = {} /\ AtMostOne(queue, a)'
      BY <1>0, <1>2, <3>2, TailReplies
    <3>4. response_queue'[a] = <<Head(queue)>>
      BY <1>0, <2>1, <3>2
    <3>5. Owned(a, Head(response_queue[a]))'
      <4>1. Head(response_queue'[a]) = Head(queue)
        BY <3>4
      <4>2. KnownAs(a, command(a).exit_state) => KnownAs(a, command(a).exit_state)'
        BY <1>0, <2>3 DEF KnownAs, settling
      <4> QED
        BY <1>0, <3>2, <4>1, <4>2 DEF Owned
    <3>6. Len(response_queue'[a]) = 1
      BY <3>4
    <3>7. OneReply(a)'
      BY <3>3, <3>5, <3>6 DEF OneReply
    <3> QED
      BY <1>0, <3>1, <3>7 DEF Waiting
  <2> QED
    BY <1>0, <2>4, <2>5 DEF OnItsWay
<1> QED
  BY <1>1, <1>2

LEMMA OnItsWayStep ==
  ASSUME TypeInv, \A a \in App : OnItsWay(a), [Next]_vars
  PROVE  \A a \in App : OnItsWay(a)'
<1> SUFFICES ASSUME NEW a \in App PROVE OnItsWay(a)'
  OBVIOUS
<1>0. OnItsWay(a)
  OBVIOUS
<1>1. ASSUME NEW t \in Transition, Propagate(t)
      PROVE  OnItsWay(a)'
  <2>1. thread[a] # "wait" /\ thread'[a] = "send"
    BY <1>1, RestAssumption DEF Propagate, TypeInv, Shape
  <2>2. NotWaiting(a) => NotWaiting(a)'
    BY <1>1 DEF Propagate, NotWaiting, Silent, RepliesTo, KnownAs, settling, listenerVars, appVars
  <2> QED
    BY <1>0, <1>1, <2>1, <2>2 DEF Propagate, OnItsWay
<1>2. CASE Conclusion
  <2>1. /\ thread[a] \in {"succeeded", "failed"} /\ thread'[a] = "idle"
        /\ UNCHANGED <<child, queue, response_queue, request, application>>
    BY <1>2 DEF Conclusion, Conclude, ConcludeStuck, Joined, listenerVars, appVars
  <2>2. NotWaiting(a) => NotWaiting(a)'
    BY <2>1 DEF NotWaiting, Silent, RepliesTo, KnownAs, settling
  <2> QED
    BY <1>0, <2>1, <2>2 DEF OnItsWay
<1>3. ASSUME NEW b \in App, ThreadStep(b)
      PROVE  OnItsWay(a)'
  <2>1. CASE b = a
    BY <1>0, <1>3, <2>1, ThreadKeeps
  <2>2. CASE b # a
    <3>1. /\ parent' = parent /\ queue' = queue /\ application' = application
          /\ request'[a] = request[a] /\ response_queue'[a] = response_queue[a]
          /\ thread'[a] = thread[a]
      BY <1>3, <2>2 DEF ThreadStep, Send, SendUnacknowledged, CouldnotSend, Receive, Raise,
           ResponseTimeout, listenerVars, appVars, TypeInv, TypeOK
    <3>2. child'[a] = child[a]
      BY <1>3, <2>2 DEF ThreadStep, Send, SendUnacknowledged, CouldnotSend, Receive, Raise,
           ResponseTimeout, TypeInv, TypeOK
    <3> QED
      BY <1>0, <3>1, <3>2, Unmoved DEF RepliesTo, AtMostOne
  <2> QED
    BY <2>1, <2>2
<1>4. ASSUME NEW b \in App, AppStep(b)
      PROVE  OnItsWay(a)'
  <2>1. CASE b = a
    BY <1>0, <1>4, <2>1, AppKeeps
  <2>2. CASE b # a
    <3>1. /\ UNCHANGED <<parent, child, thread>>
          /\ request'[a] = request[a]
          /\ application'[a] = application[a]
      BY <1>4, <2>2 DEF AppStep, Refuse, Execute, Succeed, Settle, Fail, Die, Restart, parentVars,
           TypeInv, TypeOK
    <3>2. \/ UNCHANGED <<queue, response_queue>>
          \/ \E t \in Transition, ok \in BOOLEAN : send_response(b, t, ok)
      <4>1. CASE Refuse(b)
        BY <4>1 DEF Refuse, TypeInv, TypeOK, Command
      <4>2. CASE Succeed(b) \/ Fail(b)
        BY <4>2 DEF Succeed, Fail, TypeInv, Shape, Command
      <4> QED
        BY <1>4, <4>1, <4>2 DEF AppStep, Execute, Settle, Die, Restart, listenerVars
    <3>3. /\ response_queue' = response_queue
          /\ RepliesTo(queue, a)' = RepliesTo(queue, a)
          /\ AtMostOne(queue, a) => AtMostOne(queue, a)'
      <4>1. CASE UNCHANGED <<queue, response_queue>>
        BY <4>1 DEF RepliesTo, AtMostOne
      <4>2. ASSUME NEW t \in Transition, NEW ok \in BOOLEAN, send_response(b, t, ok)
            PROVE  <3>3
        BY <2>2, <4>2, ReplySent
      <4> QED
        BY <3>2, <4>1, <4>2
    <3> QED
      BY <1>0, <3>1, <3>3, Unmoved
  <2> QED
    BY <2>1, <2>2
<1>5. CASE Dispatch
  BY <1>0, <1>5, DispatchKeeps
<1>6. ASSUME NEW s \in Stranger, Stray(s)
      PROVE  OnItsWay(a)'
  <2> DEFINE r == [appname |-> s, cmd |-> NoTransition, success |-> TRUE]
  <2>1. r \in Reply /\ r.appname # a /\ queue \in Seq(Reply)
    BY RestAssumption DEF Reply, TypeInv, TypeOK
  <2>2. /\ queue' = Append(queue, r)
        /\ UNCHANGED <<parent, child, thread, response_queue, request, application>>
    BY <1>6 DEF Stray, parentVars, appVars
  <2>3. /\ RepliesTo(queue, a)' = RepliesTo(queue, a)
        /\ AtMostOne(queue, a) => AtMostOne(queue, a)'
    BY <2>1, <2>2, AppendReplies
  <2> QED
    BY <1>0, <2>2, <2>3, Unmoved
<1>7. CASE UNCHANGED vars
  BY <1>0, <1>7, Unmoved DEF vars, RepliesTo, AtMostOne
<1> QED
  BY <1>1, <1>2, <1>3, <1>4, <1>5, <1>6, <1>7 DEF Next

(* The belief of the controller about a healthy application is true: late, *)
(* lost and stray replies, a dead dispatcher and applications that die or  *)
(* come back do not change that.                                           *)
THEOREM BeliefTheorem == Spec => []BeliefIsTrue
<1> DEFINE Inv == \A a \in App : OnItsWay(a)
<1>1. Init => Inv
  BY OnItsWayInit
<1>2. TypeInv /\ Inv /\ [Next]_vars => Inv'
  BY OnItsWayStep
<1>3. Inv => BeliefIsTrue
  BY DEF OnItsWay, NotWaiting, KnownAs, BeliefIsTrue
<1> HIDE DEF Inv
<1> QED
  BY <1>1, <1>2, <1>3, TypeInvInit, TypeInvStep, PTL DEF Spec

(* No child takes the reply to an earlier command for the reply to the     *)
(* command it waits for.                                                   *)
THEOREM OwnReplyTheorem == Spec => OwnReply
<1> DEFINE Inv == InStep /\ \A a \in App : OnItsWay(a)
           Taken == \A a \in App : thread[a] = "wait" /\ response_queue'[a] # response_queue[a]
                      /\ thread'[a] # "wait" => Head(response_queue[a]).cmd = parent.tr
<1>1. Init => Inv
  BY InStepInit, OnItsWayInit
<1>2. TypeInv /\ Inv /\ [Next]_vars => Inv'
  BY InStepStep, OnItsWayStep
<1>3. TypeInv /\ Inv /\ [Next]_vars => [Taken]_vars
  <2> SUFFICES ASSUME TypeInv, Inv, Next, NEW a \in App, thread[a] = "wait",
                      response_queue'[a] # response_queue[a], thread'[a] # "wait"
               PROVE  Head(response_queue[a]).cmd = parent.tr
    OBVIOUS
  <2>1. Receive(a)
    <3>1. ASSUME NEW b \in App, ThreadStep(b)
          PROVE  b = a /\ Receive(a)
      BY <3>1 DEF ThreadStep, Send, SendUnacknowledged, CouldnotSend, Receive, ResponseTimeout,
                  Raise, listenerVars, TypeInv, TypeOK
    <3>2. ASSUME NEW b \in App, AppStep(b)
          PROVE  thread' = thread
      BY <3>2 DEF AppStep, Refuse, Execute, Succeed, Settle, Fail, Die, Restart, parentVars
    <3>3. CASE (\E t \in Transition : Propagate(t)) \/ Conclusion
      BY <3>3 DEF Propagate, Conclusion, Conclude, ConcludeStuck, listenerVars
    <3> QED
      BY <3>1, <3>2, <3>3 DEF Next, Dispatch, Stray, parentVars
  <2>2. ~child[a].errored
    BY RestAssumption DEF TypeInv, Shape, InStep
  <2>3. OneReply(a) /\ response_queue[a] # <<>>
    BY <2>1, <2>2 DEF OnItsWay, Waiting, Silent, Receive
  <2> QED
    BY <2>3 DEF OneReply, Owned
<1> HIDE DEF Inv, Taken
<1>4. Spec => [][Taken]_vars
  BY <1>1, <1>2, <1>3, TypeInvInit, TypeInvStep, PTL DEF Spec
<1> QED
  BY <1>4 DEF Taken, OwnReply
=============================================================================
