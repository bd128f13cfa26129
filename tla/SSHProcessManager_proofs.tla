---------------------- MODULE SSHProcessManager_proofs ----------------------
(* What the process manager keeps for any number of uuids, processes and   *)
(* clients.                                                                *)
EXTENDS ManagerHistory, TLAPS

(* The stages at which a thread has chosen a uuid, and a process. *)
Chosen  == {"starting", "watch", "booted", "restart", "forget", "forgetRequest", "reboot",
            "quit", "kill", "report", "remove"}
Killing == {"quit", "kill", "report"}

(* A thread has what its stage needs, and is where its command can be. *)
Shape ==
  \A t \in Client :
    /\ thread[t].pc \in Chosen => thread[t].uuid \in Uuid
    /\ thread[t].pc \in Killing => thread[t].proc \in Process
    /\ thread[t].pc \in {"restart", "forget", "forgetRequest", "reboot"} => thread[t].op = "restart"
    /\ thread[t].pc \in {"starting", "watch", "booted"} => thread[t].op \in {"boot", "restart"}

TypeInv == TypeOK /\ Shape

LEMMA TypeInvInit == Init => TypeInv
<1> SUFFICES ASSUME Init PROVE TypeInv
  OBVIOUS
<1>1. quiet \in Thread
  BY DEF quiet, Thread, Op, Stage
<1>2. TypeOK
  BY <1>1 DEF Init, TypeOK
<1>3. Shape
  BY DEF Init, Shape, quiet, Chosen, Killing
<1> QED
  BY <1>2, <1>3 DEF TypeInv

(* What the moves of a thread do to its type. *)
LEMMA GotoType ==
  ASSUME thread \in [Client -> Thread], NEW t \in Client, NEW pc \in Stage, Goto(t, pc)
  PROVE  thread' \in [Client -> Thread]
BY DEF Goto, Thread

LEMMA ChooseType ==
  ASSUME thread \in [Client -> Thread], NEW t \in Client, NEW pc \in Stage, NEW u \in Uuid,
         thread' = [thread EXCEPT ![t].pc = pc, ![t].uuid = u]
  PROVE  thread' \in [Client -> Thread]
<1>1. [thread[t] EXCEPT !.pc = pc, !.uuid = u] \in Thread
  BY DEF Thread
<1>2. thread' = [thread EXCEPT ![t] = [thread[t] EXCEPT !.pc = pc, !.uuid = u]]
  OBVIOUS
<1> QED
  BY <1>1, <1>2

LEMMA RaiseType ==
  ASSUME thread \in [Client -> Thread], NEW t \in Client, Raise(t)
  PROVE  /\ thread' \in [Client -> Thread]
         /\ thread'[t].pc = "idle"
         /\ \A s \in Client \ {t} : thread'[s] = thread[s]
<1>1. [quiet EXCEPT !.answer = "exception"] \in Thread
  BY DEF quiet, Thread, Op, Stage
<1> QED
  BY <1>1 DEF Raise, Answer, quiet

LEMMA TypeInvStep ==
  ASSUME TypeInv, [Next]_vars
  PROVE  TypeInv'
<1> USE DEF TypeInv
<1>1. CASE UNCHANGED vars
  BY <1>1 DEF vars, TypeOK, Shape
<1>2. ASSUME NEW t \in Client, NEW q \in SUBSET Uuid, NEW op \in Issued[t], Request(t, op, q)
      PROVE  TypeInv'
  <2>1. op \in Op
    BY ManagerAssumption
  <2>2. TypeOK'
    BY <1>2, <2>1 DEF Request, TypeOK, quiet, Thread, Stage
  <2>3. Shape'
    BY <1>2, <2>1 DEF Request, TypeOK, Shape, quiet, Thread, Chosen, Killing
  <2> QED
    BY <2>2, <2>3
<1>3. ASSUME NEW t \in Client, ScanRaises(t) \/ Select(t) \/ Done(t)
      PROVE  TypeInv'
  <2>1. TypeOK'
    <3>1. Selection(t) \subseteq Uuid /\ stored \subseteq Uuid
      BY DEF Selection, Pool, stored, TypeOK
    <3>2. CASE ScanRaises(t) \/ Done(t)
      BY <3>2 DEF ScanRaises, Done, Raise, Answer, quiet, TypeOK, Thread, Stage, Op
    <3>3. CASE Select(t)
      BY <3>1, <3>3 DEF Select, TypeOK, Thread, Stage
    <3> QED
      BY <1>3, <3>2, <3>3
  <2>2. Shape'
    <3>1. CASE ScanRaises(t) \/ Done(t)
      BY <3>1 DEF ScanRaises, Done, Raise, Answer, quiet, TypeOK, Shape, Thread, Chosen, Killing
    <3>2. CASE Select(t)
      BY <3>2 DEF Select, TypeOK, Shape, Thread, Chosen, Killing
    <3> QED
      BY <1>3, <3>1, <3>2
  <2> QED
    BY <2>1, <2>2
<1>4. ASSUME NEW t \in Client, BootStep(t)
      PROVE  TypeInv'
  <2>1. CASE BootRefused(t)
    <3>1. TypeOK'
      BY <2>1 DEF BootRefused, Raise, Answer, quiet, TypeOK, Thread, Stage, Op
    <3>2. Shape'
      BY <2>1 DEF BootRefused, Raise, Answer, quiet, TypeOK, Shape, Thread, Chosen, Killing
    <3> QED
      BY <3>1, <3>2
  <2>2. ASSUME NEW u \in Uuid, Boot(t, u)
        PROVE  TypeInv'
    <3>1. TypeOK'
      <4>1. thread' \in [Client -> Thread]
        BY <2>2, ChooseType DEF Boot, TypeOK, Stage
      <4> QED
        BY <2>2, <4>1 DEF Boot, TypeOK
    <3>2. Shape'
      BY <2>2 DEF Boot, Running, TypeOK, Shape, Thread, Chosen, Killing
    <3> QED
      BY <3>1, <3>2
  <2>3. ASSUME NEW p \in Process, Start(t, p)
        PROVE  TypeInv'
    <3>1. TypeOK'
      BY <2>3 DEF Start, Goto, TypeOK, Shape, Thread, Stage, Chosen
    <3>2. Shape'
      BY <2>3 DEF Start, Goto, TypeOK, Shape, Thread, Chosen, Killing
    <3> QED
      BY <3>1, <3>2
  <2>4. CASE Watch(t) \/ StartNowhere(t)
    <3>1. TypeOK'
      BY <2>4 DEF Watch, StartNowhere, Goto, TypeOK, Thread, Stage
    <3>2. Shape'
      BY <2>4 DEF Watch, StartNowhere, Goto, TypeOK, Shape, Thread, Chosen, Killing
    <3> QED
      BY <3>1, <3>2
  <2>5. CASE Booted(t)
    <3>1. TypeOK'
      BY <2>5 DEF Booted, Raise, Answer, quiet, TypeOK, Thread, Stage, Op
    <3>2. Shape'
      BY <2>5 DEF Booted, Raise, Answer, quiet, TypeOK, Shape, Thread, Chosen, Killing
    <3> QED
      BY <3>1, <3>2
  <2> QED
    BY <1>4, <2>1, <2>2, <2>3, <2>4, <2>5 DEF BootStep
<1>5. ASSUME NEW t \in Client, RestartStep(t)
      PROVE  TypeInv'
  <2>1. CASE RestartRefused(t)
    <3>1. TypeOK'
      BY <2>1 DEF RestartRefused, Raise, Answer, quiet, TypeOK, Thread, Stage, Op
    <3>2. Shape'
      BY <2>1 DEF RestartRefused, Raise, Answer, quiet, TypeOK, Shape, Thread, Chosen, Killing
    <3> QED
      BY <3>1, <3>2
  <2>2. CASE RestartOne(t)
    <3>1. TypeOK'
      <4>1. thread' \in [Client -> Thread]
        BY <2>2, ChooseType DEF RestartOne, TypeOK, Stage
      <4> QED
        BY <2>2, <4>1 DEF RestartOne, TypeOK
    <3>2. Shape'
      BY <2>2 DEF RestartOne, Running, TypeOK, Shape, Thread, Chosen, Killing
    <3> QED
      BY <3>1, <3>2
  <2>3. CASE RestartTerminate(t)
    <3>1. process' \in [Process -> {"unused", "running", "stopping", "dead"}]
      BY <2>3 DEF RestartTerminate, SignalRaises, is_alive, TypeOK
    <3>2. CASE Raise(t)
      <4>1. /\ thread' \in [Client -> Thread] /\ thread'[t].pc = "idle"
            /\ \A s \in Client \ {t} : thread'[s] = thread[s]
        BY <3>2, RaiseType DEF TypeOK
      <4> QED
        BY <2>3, <3>1, <4>1 DEF RestartTerminate, TypeOK, Shape, Chosen, Killing
    <3>3. ASSUME NEW pc \in {"forget", "kill", "report"}, Goto(t, pc), pc = "forget"
          PROVE  TypeInv'
      <4>1. thread' \in [Client -> Thread]
        BY <3>3, GotoType DEF TypeOK, Stage
      <4>2. TypeOK'
        BY <2>3, <3>1, <4>1 DEF RestartTerminate, TypeOK
      <4>3. Shape'
        BY <2>3, <3>3 DEF RestartTerminate, Goto, TypeOK, Shape, Thread, Chosen, Killing
      <4> QED
        BY <4>2, <4>3
    <3> QED
      BY <2>3, <3>2, <3>3 DEF RestartTerminate, SignalRaises
  <2>4. CASE RestartForget(t)
    <3>1. TypeOK'
      BY <2>4 DEF RestartForget, Goto, Raise, Answer, quiet, TypeOK, Thread, Stage, Op
    <3>2. Shape'
      BY <2>4 DEF RestartForget, Goto, Raise, Answer, quiet, TypeOK, Shape, Thread, Chosen, Killing
    <3> QED
      BY <3>1, <3>2
  <2>5. CASE RestartForgetRequest(t)
    <3>1. TypeOK'
      BY <2>5 DEF RestartForgetRequest, Goto, Raise, Answer, quiet, TypeOK, Thread, Stage, Op
    <3>2. Shape'
      BY <2>5 DEF RestartForgetRequest, Goto, Raise, Answer, quiet, TypeOK, Shape, Thread, Chosen, Killing
    <3> QED
      BY <3>1, <3>2
  <2>6. CASE Reboot(t)
    <3>1. TypeOK'
      BY <2>6 DEF Reboot, Goto, Raise, Answer, quiet, TypeOK, Shape, Thread, Stage, Op, Chosen
    <3>2. Shape'
      BY <2>6 DEF Reboot, Goto, Raise, Answer, quiet, TypeOK, Shape, Thread, Chosen, Killing
    <3> QED
      BY <3>1, <3>2
  <2> QED
    BY <1>5, <2>1, <2>2, <2>3, <2>4, <2>5, <2>6 DEF RestartStep
<1>6. ASSUME NEW t \in Client, KillStep(t)
      PROVE  TypeInv'
  <2>1. ASSUME NEW u \in Uuid, KillNext(t, u)
        PROVE  TypeInv'
    <3>1. TypeOK'
      BY <2>1 DEF KillNext, Raise, Answer, quiet, TypeOK, Thread, Stage, Op
    <3>2. Shape'
      BY <2>1 DEF KillNext, Running, Raise, Answer, quiet, TypeOK, Shape, Thread, Chosen, Killing
    <3> QED
      BY <3>1, <3>2
  <2>2. CASE SendQuit(t)
    <3>1. process' \in [Process -> {"unused", "running", "stopping", "dead"}]
      BY <2>2 DEF SendQuit, SignalRaises, is_alive, TypeOK
    <3>2. CASE Raise(t)
      <4>1. /\ thread' \in [Client -> Thread] /\ thread'[t].pc = "idle"
            /\ \A s \in Client \ {t} : thread'[s] = thread[s]
        BY <3>2, RaiseType DEF TypeOK
      <4> QED
        BY <2>2, <3>1, <4>1 DEF SendQuit, TypeOK, Shape, Chosen, Killing
    <3>3. ASSUME NEW pc \in {"forget", "kill", "report"}, Goto(t, pc), pc # "forget"
          PROVE  TypeInv'
      <4>1. thread' \in [Client -> Thread]
        BY <3>3, GotoType DEF TypeOK, Stage
      <4>2. TypeOK'
        BY <2>2, <3>1, <4>1 DEF SendQuit, TypeOK
      <4>3. Shape'
        BY <2>2, <3>3 DEF SendQuit, Goto, TypeOK, Shape, Thread, Chosen, Killing
      <4> QED
        BY <4>2, <4>3
    <3> QED
      BY <2>2, <3>2, <3>3 DEF SendQuit, SignalRaises
  <2>3. CASE SendKill(t)
    <3>1. process' \in [Process -> {"unused", "running", "stopping", "dead"}]
      BY <2>3 DEF SendKill, SignalRaises, is_alive, TypeOK
    <3>2. CASE Raise(t)
      <4>1. /\ thread' \in [Client -> Thread] /\ thread'[t].pc = "idle"
            /\ \A s \in Client \ {t} : thread'[s] = thread[s]
        BY <3>2, RaiseType DEF TypeOK
      <4> QED
        BY <2>3, <3>1, <4>1 DEF SendKill, TypeOK, Shape, Chosen, Killing
    <3>3. ASSUME NEW pc \in {"forget", "kill", "report"}, Goto(t, pc), pc # "forget"
          PROVE  TypeInv'
      <4>1. thread' \in [Client -> Thread]
        BY <3>3, GotoType DEF TypeOK, Stage
      <4>2. TypeOK'
        BY <2>3, <3>1, <4>1 DEF SendKill, TypeOK
      <4>3. Shape'
        BY <2>3, <3>3 DEF SendKill, Goto, TypeOK, Shape, Thread, Chosen, Killing
      <4> QED
        BY <4>2, <4>3
    <3> QED
      BY <2>3, <3>2, <3>3 DEF SendKill, SignalRaises
  <2>4. CASE Report(t)
    <3>1. TypeOK'
      BY <2>4 DEF Report, Raise, Answer, quiet, TypeOK, Thread, Stage, Op
    <3>2. Shape'
      BY <2>4 DEF Report, Raise, Answer, quiet, TypeOK, Shape, Thread, Chosen, Killing
    <3> QED
      BY <3>1, <3>2
  <2> QED
    BY <1>6, <2>1, <2>2, <2>3, <2>4 DEF KillStep
<1>7. ASSUME NEW t \in Client, FlushStep(t)
      PROVE  TypeInv'
  <2>1. ASSUME NEW u \in Uuid, FlushNext(t, u)
        PROVE  TypeInv'
    <3>1. TypeOK'
      BY <2>1 DEF FlushNext, Raise, Answer, quiet, TypeOK, Thread, Stage, Op
    <3>2. Shape'
      BY <2>1 DEF FlushNext, Running, Raise, Answer, quiet, TypeOK, Shape, Thread, Chosen, Killing
    <3> QED
      BY <3>1, <3>2
  <2>2. CASE FlushRemove(t)
    <3>1. TypeOK'
      BY <2>2 DEF FlushRemove, Raise, Answer, quiet, TypeOK, Thread, Stage, Op
    <3>2. Shape'
      BY <2>2 DEF FlushRemove, Raise, Answer, quiet, TypeOK, Shape, Thread, Chosen, Killing
    <3> QED
      BY <3>1, <3>2
  <2> QED
    BY <1>7, <2>1, <2>2 DEF FlushStep
<1>8. ASSUME NEW p \in Process, Exit(p)
      PROVE  TypeInv'
  BY <1>8 DEF Exit, TypeOK, Shape
<1> QED
  BY <1>1, <1>2, <1>3, <1>4, <1>5, <1>6, <1>7, <1>8 DEF Next, ThreadStep

(* The values of the state of the manager stay in their types. *)
THEOREM TypeCorrect == Spec => []TypeOK
BY TypeInvInit, TypeInvStep, PTL DEF Spec, TypeInv
-----------------------------------------------------------------------------
(* Every process that is kept, or about to be, has a boot request, but for *)
(* the moment in which a restart has it: the request is taken away only    *)
(* by a restart that goes on to put it back.                               *)

(* A process is kept for u, or a command is about to start one. *)
Needed(u) ==
  \/ process_store[u] # NoProcess
  \/ \E t \in Client : thread[t].pc \in {"starting", "watch"} /\ thread[t].uuid = u

Rebooted(u) == \E t \in Client : thread[t].pc = "reboot" /\ thread[t].uuid = u

NeededIsBooted == \A u \in Uuid : Needed(u) => u \in boot_request \/ Rebooted(u)

(* Steps that remove no boot request and make none needed. *)
LEMMA NeededKept ==
  ASSUME NeededIsBooted, boot_request \subseteq boot_request', NEW t \in Client,
         \A s \in Client \ {t} : thread'[s] = thread[s],
         thread[t].pc = "reboot" => thread[t].uuid \in boot_request',
         \A u \in Uuid : process_store'[u] # NoProcess => Needed(u),
         thread'[t].pc \in {"starting", "watch"} =>
           \/ thread'[t].uuid \in boot_request'
           \/ thread[t].pc \in {"starting", "watch"} /\ thread'[t].uuid = thread[t].uuid
  PROVE  NeededIsBooted'
<1> SUFFICES ASSUME NEW u \in Uuid, Needed(u)', u \notin boot_request' PROVE Rebooted(u)'
  BY DEF NeededIsBooted
<1>1. Needed(u)
  <2>1. CASE process_store'[u] # NoProcess
    BY <2>1
  <2>2. ASSUME NEW s \in Client, thread'[s].pc \in {"starting", "watch"}, thread'[s].uuid = u
        PROVE  Needed(u)
    <3>1. CASE s = t
      BY <2>2, <3>1 DEF Needed
    <3>2. CASE s # t
      BY <2>2, <3>2 DEF Needed
    <3> QED
      BY <3>1, <3>2
  <2> QED
    BY <2>1, <2>2 DEF Needed
<1>2. Rebooted(u)
  BY <1>1 DEF NeededIsBooted
<1> QED
  BY <1>2 DEF Rebooted

LEMMA NeededStep ==
  ASSUME TypeInv, NeededIsBooted, [Next]_vars
  PROVE  NeededIsBooted'
<1> USE DEF Goto, Answer, Raise, SignalRaises, quiet, Running
<1>t. /\ thread \in [Client -> Thread]
      /\ process_store \in [Uuid -> Process \cup {NoProcess}]
  BY DEF TypeInv, TypeOK
<1>n. \A u \in Uuid : process_store[u] # NoProcess => Needed(u)
  BY DEF Needed
<1>1. ASSUME NEW t \in Client, NEW q \in SUBSET Uuid, NEW op \in Issued[t], Request(t, op, q)
      PROVE  NeededIsBooted'
  BY <1>1, <1>t, <1>n, NeededKept DEF Request, Busy
<1>2. ASSUME NEW t \in Client, ScanRaises(t) \/ Select(t) \/ Done(t)
      PROVE  NeededIsBooted'
  <2>1. CASE ScanRaises(t) \/ Done(t)
    BY <2>1, <1>t, <1>n, NeededKept DEF ScanRaises, Done
  <2>2. CASE Select(t)
    BY <2>2, <1>t, <1>n, NeededKept DEF Select, Thread
  <2> QED
    BY <1>2, <2>1, <2>2
<1>3. ASSUME NEW t \in Client, BootStep(t)
      PROVE  NeededIsBooted'
  <2>1. CASE BootRefused(t) \/ StartNowhere(t) \/ Booted(t)
    BY <2>1, <1>t, <1>n, NeededKept DEF BootRefused, StartNowhere, Booted, Thread
  <2>2. ASSUME NEW u \in Uuid, Boot(t, u)
        PROVE  NeededIsBooted'
    BY <2>2, <1>t, <1>n, NeededKept DEF Boot, Thread
  <2>3. ASSUME NEW p \in Process, Start(t, p)
        PROVE  NeededIsBooted'
    <3>1. /\ thread[t].pc = "starting" /\ thread[t].uuid \in Uuid
          /\ thread'[t].pc = "watch" /\ thread'[t].uuid = thread[t].uuid
          /\ \A s \in Client \ {t} : thread'[s] = thread[s]
          /\ boot_request' = boot_request
          /\ process_store' = [process_store EXCEPT ![thread[t].uuid] = p]
      BY <2>3, <1>t DEF Start, Thread, TypeInv, Shape, Chosen
    <3>2. Needed(thread[t].uuid)
      BY <3>1 DEF Needed
    <3>3. \A u \in Uuid : process_store'[u] # NoProcess => Needed(u)
      BY <3>1, <3>2, <1>n, <1>t
    <3> QED
      BY <3>1, <3>3, NeededKept
  <2>4. CASE Watch(t)
    <3>1. /\ thread[t].pc = "watch" /\ boot_request' = boot_request
          /\ process_store' = process_store
          /\ thread'[t].uuid = thread[t].uuid
          /\ \A s \in Client \ {t} : thread'[s] = thread[s]
      BY <2>4, <1>t DEF Watch, Thread
    <3> QED
      BY <3>1, <1>n, NeededKept
  <2> QED
    BY <1>3, <2>1, <2>2, <2>3, <2>4 DEF BootStep
<1>4. ASSUME NEW t \in Client, RestartStep(t)
      PROVE  NeededIsBooted'
  <2>1. CASE RestartRefused(t) \/ RestartOne(t)
    BY <2>1, <1>t, <1>n, NeededKept DEF RestartRefused, RestartOne, Thread
  <2>2. CASE RestartTerminate(t)
    <3>1. /\ thread[t].pc = "restart" /\ thread'[t].pc \in {"forget", "idle"}
          /\ boot_request' = boot_request /\ process_store' = process_store
          /\ \A s \in Client \ {t} : thread'[s] = thread[s]
      BY <2>2, <1>t DEF RestartTerminate, Thread
    <3> QED
      BY <3>1, <1>n, NeededKept
  <2>3. CASE RestartForget(t)
    <3>1. /\ thread[t].pc = "forget" /\ thread'[t].pc \in {"forgetRequest", "idle"}
          /\ boot_request' = boot_request
          /\ \A s \in Client \ {t} : thread'[s] = thread[s]
          /\ \A u \in Uuid : process_store'[u] \in {process_store[u], NoProcess}
      BY <2>3, <1>t DEF RestartForget, Thread
    <3> QED
      BY <3>1, <1>n, NeededKept
  <2>4. CASE RestartForgetRequest(t)
    <3>1. /\ boot_request' = boot_request \ {thread[t].uuid}
          /\ process_store' = process_store
          /\ \A s \in Client \ {t} : thread'[s] = thread[s]
          /\ thread[t].pc = "forgetRequest"
      BY <2>4, <1>t DEF RestartForgetRequest
    <3>2. \/ thread'[t].pc = "reboot" /\ thread'[t].uuid = thread[t].uuid
          \/ thread'[t].pc = "idle" /\ boot_request' = boot_request
      BY <2>4, <1>t DEF RestartForgetRequest, Thread
    <3> SUFFICES ASSUME NEW u \in Uuid, Needed(u)' PROVE u \in boot_request' \/ Rebooted(u)'
      BY DEF NeededIsBooted
    <3>3. Needed(u)
      BY <3>1, <3>2 DEF Needed
    <3>4. u \in boot_request \/ Rebooted(u)
      BY <3>3 DEF NeededIsBooted
    <3>5. Rebooted(u) => Rebooted(u)'
      BY <3>1 DEF Rebooted
    <3>6. u \in boot_request => u \in boot_request' \/ Rebooted(u)'
      BY <3>1, <3>2 DEF Rebooted
    <3> QED
      BY <3>4, <3>5, <3>6
  <2>5. CASE Reboot(t)
    <3>1. /\ boot_request' = boot_request \cup {thread[t].uuid}
          /\ process_store' = process_store
          /\ \A s \in Client \ {t} : thread'[s] = thread[s]
          /\ thread'[t].pc \in {"starting", "idle"}
          /\ thread'[t].pc = "starting" => thread'[t].uuid = thread[t].uuid
      BY <2>5, <1>t DEF Reboot, Thread
    <3> QED
      BY <3>1, <1>n, NeededKept
  <2> QED
    BY <1>4, <2>1, <2>2, <2>3, <2>4, <2>5 DEF RestartStep
<1>5. ASSUME NEW t \in Client, KillStep(t) \/ FlushStep(t)
      PROVE  NeededIsBooted'
  <2>1. ASSUME NEW u \in Uuid, KillNext(t, u)
        PROVE  NeededIsBooted'
    BY <2>1, <1>t, <1>n, NeededKept DEF KillNext, Thread
  <2>2. CASE SendQuit(t) \/ SendKill(t)
    <3>1. /\ thread[t].pc \in {"quit", "kill"} /\ thread'[t].pc \in {"kill", "report", "idle"}
          /\ boot_request' = boot_request /\ process_store' = process_store
          /\ \A s \in Client \ {t} : thread'[s] = thread[s]
      BY <2>2, <1>t DEF SendQuit, SendKill, Thread
    <3> QED
      BY <3>1, <1>n, NeededKept
  <2>3. CASE Report(t)
    BY <2>3, <1>t, <1>n, NeededKept DEF Report, Thread
  <2>4. CASE FlushRemove(t)
    BY <2>4, <1>t, <1>n, NeededKept DEF FlushRemove, Thread
  <2>5. ASSUME NEW u \in Uuid, FlushNext(t, u)
        PROVE  NeededIsBooted'
    BY <2>5, <1>t, <1>n, NeededKept DEF FlushNext, Thread
  <2> QED
    BY <1>5, <2>1, <2>2, <2>3, <2>4, <2>5 DEF KillStep, FlushStep
<1>6. CASE (\E p \in Process : Exit(p)) \/ UNCHANGED vars
  <2>1. boot_request' = boot_request /\ process_store' = process_store /\ thread' = thread
    BY <1>6 DEF Exit, vars
  <2> QED
    BY <2>1 DEF NeededIsBooted, Needed, Rebooted
<1> QED
  BY <1>1, <1>2, <1>3, <1>4, <1>5, <1>6 DEF Next, ThreadStep

(* Every process that is kept has a boot request, whatever commands of     *)
(* whatever clients interleave: it is missing only while a restart is      *)
(* about to boot with it again.                                            *)
THEOREM KeptAreBooted == Spec => []TrackedIsBooted
<1>1. Init => NeededIsBooted
  BY DEF Init, NeededIsBooted, Needed, quiet
<1>2. NeededIsBooted => TrackedIsBooted
  BY DEF NeededIsBooted, Needed, Rebooted, TrackedIsBooted, stored
<1> QED
  BY <1>1, <1>2, NeededStep, TypeInvInit, TypeInvStep, PTL DEF Spec
-----------------------------------------------------------------------------
(* A uuid that was given up stays so: to get to a stage at which it can    *)
(* have a process again a command would have to find it stored, or free.   *)
LEMMA GivenUpForGood ==
  ASSUME TypeInv, [Next]_vars, NEW u \in Uuid, GivenUp(u)
  PROVE  GivenUp(u)'
<1> DEFINE Away(s) == thread[s].uuid = u =>
                        thread[s].pc \notin {"forgetRequest", "reboot", "starting", "watch"}
<1> USE DEF Goto, Answer, Raise, SignalRaises, quiet, Running
<1>t. /\ thread \in [Client -> Thread]
      /\ process_store \in [Uuid -> Process \cup {NoProcess}]
      /\ u \in boot_request /\ process_store[u] = NoProcess
      /\ \A s \in Client : Away(s)
      /\ \A s \in Client : thread[s].pc \in Chosen => thread[s].uuid \in Uuid
  BY DEF TypeInv, TypeOK, Shape, GivenUp, stored
<1>k. ASSUME u \in boot_request', process_store'[u] = NoProcess, \A s \in Client : Away(s)'
      PROVE  GivenUp(u)'
  BY <1>k DEF GivenUp, stored
<1>1. ASSUME NEW t \in Client, NEW q \in SUBSET Uuid, NEW op \in Issued[t], Request(t, op, q)
      PROVE  GivenUp(u)'
  BY <1>1, <1>t, <1>k DEF Request
<1>2. ASSUME NEW t \in Client, ScanRaises(t) \/ Select(t) \/ Done(t)
      PROVE  GivenUp(u)'
  <2>1. CASE ScanRaises(t) \/ Done(t)
    BY <2>1, <1>t, <1>k DEF ScanRaises, Done
  <2>2. CASE Select(t)
    BY <2>2, <1>t, <1>k DEF Select, Thread
  <2> QED
    BY <1>2, <2>1, <2>2
<1>3. ASSUME NEW t \in Client, BootStep(t)
      PROVE  GivenUp(u)'
  <2>1. CASE BootRefused(t) \/ StartNowhere(t) \/ Booted(t)
    BY <2>1, <1>t, <1>k DEF BootRefused, StartNowhere, Booted, Thread
  <2>2. ASSUME NEW v \in Uuid, Boot(t, v)
        PROVE  GivenUp(u)'
    BY <2>2, <1>t, <1>k DEF Boot, Fresh, Thread
  <2>3. ASSUME NEW p \in Process, Start(t, p)
        PROVE  GivenUp(u)'
    BY <2>3, <1>t, <1>k DEF Start, Thread
  <2>4. CASE Watch(t)
    BY <2>4, <1>t, <1>k DEF Watch, Thread
  <2> QED
    BY <1>3, <2>1, <2>2, <2>3, <2>4 DEF BootStep
<1>4. ASSUME NEW t \in Client, RestartStep(t)
      PROVE  GivenUp(u)'
  <2>1. CASE RestartRefused(t) \/ RestartOne(t) \/ RestartTerminate(t)
    BY <2>1, <1>t, <1>k DEF RestartRefused, RestartOne, RestartTerminate, Thread
  <2>2. CASE RestartForget(t)
    BY <2>2, <1>t, <1>k DEF RestartForget, stored, Thread
  <2>3. CASE RestartForgetRequest(t)
    BY <2>3, <1>t, <1>k DEF RestartForgetRequest, Thread
  <2>4. CASE Reboot(t)
    BY <2>4, <1>t, <1>k DEF Reboot, Thread
  <2> QED
    BY <1>4, <2>1, <2>2, <2>3, <2>4 DEF RestartStep
<1>5. ASSUME NEW t \in Client, KillStep(t) \/ FlushStep(t)
      PROVE  GivenUp(u)'
  <2>1. ASSUME NEW v \in Uuid, KillNext(t, v)
        PROVE  GivenUp(u)'
    BY <2>1, <1>t, <1>k DEF KillNext, Thread
  <2>2. CASE SendQuit(t) \/ SendKill(t)
    BY <2>2, <1>t, <1>k DEF SendQuit, SendKill, Thread
  <2>3. CASE Report(t)
    BY <2>3, <1>t, <1>k DEF Report, Thread
  <2>4. CASE FlushRemove(t)
    BY <2>4, <1>t, <1>k DEF FlushRemove, Thread
  <2>5. ASSUME NEW v \in Uuid, FlushNext(t, v)
        PROVE  GivenUp(u)'
    BY <2>5, <1>t, <1>k DEF FlushNext, Thread
  <2> QED
    BY <1>5, <2>1, <2>2, <2>3, <2>4, <2>5 DEF KillStep, FlushStep
<1>6. CASE (\E p \in Process : Exit(p)) \/ UNCHANGED vars
  BY <1>6, <1>t, <1>k DEF Exit, vars
<1> QED
  BY <1>1, <1>2, <1>3, <1>4, <1>5, <1>6 DEF Next, ThreadStep

(* The history variables change only when a process is stored: its uuid is *)
(* then its owner, and no other owner changes.                             *)

HType ==
  /\ TypeInv
  /\ owner \in [Process -> Uuid \cup {NoUuid}]
  /\ overtaken \subseteq Uuid
  /\ flushed \subseteq Uuid

LEMMA HTypeInit == HInit => HType
BY TypeInvInit DEF HInit, HType

LEMMA HTypeStep ==
  ASSUME HType, [Next /\ Record]_hvars
  PROVE  HType'
<1>1. TypeInv'
  BY TypeInvStep DEF HType, hvars, vars
<1>2. CASE UNCHANGED hvars
  BY <1>1, <1>2 DEF HType, hvars
<1>3. CASE Record
  BY <1>1, <1>3 DEF HType, Record
<1> QED
  BY <1>1, <1>2, <1>3 DEF HType

LEMMA HistoryUntouched ==
  ASSUME HType, Record, \A u \in Uuid : process_store'[u] \in {process_store[u], NoProcess}
  PROVE  owner' = owner /\ overtaken' = overtaken
<1>1. \A u \in Uuid : ~Stored(u)
  BY DEF Stored
<1> QED
  BY <1>1 DEF Record, Overtakes, HType
-----------------------------------------------------------------------------
(* What a command finds stored for its uuid stays what it found, or is     *)
(* deleted, unless the uuid is overtaken.                                  *)

Removing == Killing \cup {"remove"}

(* What t knows of the process of its uuid. *)
Knows(t) ==
  LET u == thread[t].uuid
  IN  /\ thread[t].pc \in Killing =>
           /\ process[thread[t].proc] # "unused"
           /\ u \in overtaken \/ process_store[u] \in {thread[t].proc, NoProcess}
      /\ thread[t].pc = "report" => process[thread[t].proc] = "dead"
      /\ thread[t].pc = "remove" =>
           u \in overtaken \/ \A p \in Process : process_store[u] = p => process[p] = "dead"
      /\ thread[t].pc = "forget" =>
           u \in overtaken \/ \A p \in Process : process_store[u] = p => process[p] # "running"

KeptAreOwned ==
  \A u \in Uuid, p \in Process : process_store[u] = p => owner[p] = u /\ process[p] # "unused"

StartedAreOwned == \A p \in Process : process[p] # "unused" => owner[p] \in Uuid

StoreInv ==
  /\ RunningIsTracked
  /\ KeptAreOwned
  /\ StartedAreOwned
  /\ \A t \in Client : Knows(t)

(* A process that is not started only fades. *)
Fades(p) ==
  \/ process'[p] = process[p]
  \/ process[p] \in {"running", "stopping"} /\ process'[p] \in {"stopping", "dead"}

LEMMA StoreInvInit == HInit => StoreInv
<1> SUFFICES ASSUME HInit PROVE StoreInv
  OBVIOUS
<1>1. \A t \in Client : thread[t].pc = "idle"
  BY DEF HInit, Init, quiet
<1>2. \A p \in Process : process[p] = "unused" /\ \A u \in Uuid : process_store[u] # p
  BY ManagerAssumption DEF HInit, Init
<1> QED
  BY <1>1, <1>2 DEF StoreInv, RunningIsTracked, KeptAreOwned, StartedAreOwned, Knows, Killing

(* A step of t that starts no process, and deletes at most one that does   *)
(* not run, or of a uuid that is overtaken.                                *)
LEMMA StoreKept ==
  ASSUME HType, StoreInv, owner' = owner, overtaken' = overtaken,
         \A p \in Process : Fades(p),
         \A u \in Uuid : process_store'[u] \in {process_store[u], NoProcess},
         \A u \in Uuid, p \in Process :
            process_store[u] = p /\ process_store'[u] # p =>
              u \in overtaken \/ process[p] # "running",
         NEW t \in Client,
         \A s \in Client \ {t} : thread'[s] = thread[s],
         Knows(t)'
  PROVE  StoreInv'
<1>t. /\ \A s \in Client :
           /\ thread[s].pc \in Chosen => thread[s].uuid \in Uuid
           /\ thread[s].pc \in Killing => thread[s].proc \in Process
      /\ NoProcess \notin Process
      /\ owner \in [Process -> Uuid \cup {NoUuid}]
      /\ overtaken \subseteq Uuid
  BY ManagerAssumption DEF HType, TypeInv, Shape
<1>1. RunningIsTracked'
  <2> SUFFICES ASSUME NEW p \in Process, process'[p] = "running", owner[p] \notin overtaken
               PROVE  process_store'[owner[p]] = p
    BY DEF RunningIsTracked
  <2>1. process[p] = "running" /\ process_store[owner[p]] = p
    BY DEF Fades, StoreInv, RunningIsTracked
  <2>2. owner[p] \in Uuid
    BY <2>1 DEF StoreInv, StartedAreOwned
  <2> QED
    BY <2>1, <2>2
<1>2. KeptAreOwned' /\ StartedAreOwned'
  BY <1>t DEF StoreInv, KeptAreOwned, StartedAreOwned, Fades
<1>3. ASSUME NEW s \in Client \ {t} PROVE Knows(s)'
  <2>1. thread'[s] = thread[s] /\ Knows(s)
    BY DEF StoreInv
  <2> QED
    BY <2>1, <1>t DEF Knows, Fades, Killing, Chosen
<1> QED
  BY <1>1, <1>2, <1>3 DEF StoreInv

(* A step of t to a stage at which nothing has to be known. *)
LEMMA StoreLeftAlone ==
  ASSUME HType, StoreInv, Record, \A p \in Process : Fades(p),
         process_store' = process_store, process_store \in [Uuid -> Process \cup {NoProcess}],
         NEW t \in Client,
         \A s \in Client \ {t} : thread'[s] = thread[s],
         thread'[t] = thread[t] \/ thread'[t].pc \notin Removing \cup {"forget"}
  PROVE  StoreInv'
<1>1. owner' = owner /\ overtaken' = overtaken
  BY HistoryUntouched
<1>2. Knows(t)'
  <2>1. CASE thread'[t] = thread[t]
    <3>1. Knows(t) /\ (thread[t].pc \in Killing => thread[t].proc \in Process)
      BY DEF StoreInv, HType, TypeInv, Shape
    <3> QED
      BY <1>1, <2>1, <3>1 DEF Knows, Fades, Killing
  <2>2. CASE thread'[t].pc \notin Removing \cup {"forget"}
    BY <2>2 DEF Knows, Removing, Killing
  <2> QED
    BY <2>1, <2>2
<1> QED
  BY <1>1, <1>2, StoreKept

(* A step of t that deletes what is stored for u. *)
LEMMA StoreDeleted ==
  ASSUME HType, StoreInv, Record, process' = process,
         process_store \in [Uuid -> Process \cup {NoProcess}], NEW u \in Uuid,
         process_store' = [process_store EXCEPT ![u] = NoProcess],
         u \in overtaken \/ \A p \in Process : process_store[u] = p => process[p] # "running",
         NEW t \in Client,
         \A s \in Client \ {t} : thread'[s] = thread[s],
         thread'[t].pc \notin Removing \cup {"forget"}
  PROVE  StoreInv'
<1>1. \A v \in Uuid : process_store'[v] \in {process_store[v], NoProcess}
  OBVIOUS
<1>2. owner' = owner /\ overtaken' = overtaken
  BY <1>1, HistoryUntouched
<1>3. Knows(t)'
  BY DEF Knows, Removing, Killing
<1>4. \A v \in Uuid, p \in Process :
         process_store[v] = p /\ process_store'[v] # p => v \in overtaken \/ process[p] # "running"
  OBVIOUS
<1> QED
  BY <1>1, <1>2, <1>3, <1>4, StoreKept DEF Fades

(* The process that is started for u gets it as its owner; whatever        *)
(* another command knows of u is not true any more, and u is overtaken.    *)
LEMMA StoreStarted ==
  ASSUME HType, StoreInv, Record, NEW t \in Client, NEW p \in Process, Start(t, p)
  PROVE  StoreInv'
<1> DEFINE u == thread[t].uuid
<1>1. /\ thread[t].pc = "starting" /\ u \in Uuid
      /\ process[p] = "unused" /\ p # NoProcess
      /\ process' = [process EXCEPT ![p] = "running"]
      /\ process_store' = [process_store EXCEPT ![u] = p]
      /\ thread'[t].pc = "watch"
      /\ \A s \in Client \ {t} : thread'[s] = thread[s]
      /\ process_store \in [Uuid -> Process \cup {NoProcess}]
      /\ process \in [Process -> {"unused", "running", "stopping", "dead"}]
  BY ManagerAssumption DEF Start, Goto, HType, TypeInv, TypeOK, Thread, Shape, Chosen
<1> HIDE DEF u
<1>2. \A v \in Uuid : process_store[v] # p
  BY <1>1 DEF StoreInv, KeptAreOwned
<1>3. \A v \in Uuid : Stored(v) <=> v = u
  BY <1>1, <1>2 DEF Stored
<1>4. owner'[p] = u /\ \A q \in Process \ {p} : owner'[q] = owner[q]
  <2>1. \A q \in Process : (\E v \in Uuid : Stored(v) /\ process_store'[v] = q) <=> q = p
    BY <1>1, <1>3
  <2>2. (CHOOSE v \in Uuid : Stored(v) /\ process_store'[v] = p) = u
    BY <1>1, <1>3
  <2> QED
    BY <2>1, <2>2 DEF Record
<1>5. overtaken \subseteq overtaken'
  BY DEF Record
<1>6. ASSUME u \in stored \/ \E s \in Client : thread[s].pc \in Deleting /\ thread[s].uuid = u
      PROVE  u \in overtaken'
  BY <1>1, <1>3, <1>6 DEF Record, Overtakes
<1>7. RunningIsTracked'
  <2> SUFFICES ASSUME NEW q \in Process, process'[q] = "running", owner'[q] \notin overtaken'
               PROVE  process_store'[owner'[q]] = q
    BY DEF RunningIsTracked
  <2>1. CASE q = p
    BY <2>1, <1>1, <1>4
  <2>2. CASE q # p
    <3>1. process[q] = "running" /\ owner'[q] = owner[q] /\ owner[q] \notin overtaken
      BY <2>2, <1>1, <1>4, <1>5
    <3>2. owner[q] \in Uuid /\ process_store[owner[q]] = q
      BY <3>1 DEF StoreInv, StartedAreOwned, RunningIsTracked
    <3>3. CASE owner[q] = u
      <4>1. u \in stored
        BY <3>2, <3>3, <1>1, ManagerAssumption DEF stored
      <4> QED
        BY <4>1, <1>6, <3>1, <3>3
    <3>4. CASE owner[q] # u
      BY <3>1, <3>2, <3>4, <1>1
    <3> QED
      BY <3>3, <3>4
  <2> QED
    BY <2>1, <2>2
<1>8. KeptAreOwned'
  BY <1>1, <1>2, <1>4 DEF StoreInv, KeptAreOwned
<1>9. StartedAreOwned'
  BY <1>1, <1>4 DEF StoreInv, StartedAreOwned
<1>10. \A s \in Client : Knows(s)'
  <2>1. Knows(t)'
    BY <1>1 DEF Knows, Killing
  <2>2. ASSUME NEW s \in Client \ {t} PROVE Knows(s)'
    <3>1. /\ thread'[s] = thread[s] /\ Knows(s)
          /\ thread[s].pc \in Deleting => thread[s].uuid \in Uuid
          /\ thread[s].pc \in Killing => thread[s].proc \in Process
      BY <1>1 DEF StoreInv, HType, TypeInv, Shape, Chosen, Killing, Deleting
    <3>2. \A q \in Process : process[q] # "unused" => process'[q] = process[q]
      BY <1>1
    <3>3. CASE thread[s].pc \notin Deleting
      BY <3>1, <3>3 DEF Knows, Killing, Deleting
    <3>4. CASE thread[s].pc \in Deleting /\ thread[s].uuid = u
      BY <3>1, <3>2, <3>4, <1>6 DEF Knows, Killing, Deleting
    <3>5. CASE thread[s].pc \in Deleting /\ thread[s].uuid # u
      <4>1. process_store'[thread[s].uuid] = process_store[thread[s].uuid]
        BY <3>1, <3>5, <1>1
      <4>2. \A q \in Process :
              process_store[thread[s].uuid] = q => process'[q] = process[q]
        BY <3>1, <3>2, <3>5 DEF StoreInv, KeptAreOwned
      <4> QED
        BY <3>1, <3>2, <3>5, <4>1, <4>2, <1>5 DEF Knows, Killing, Deleting
    <3> QED
      BY <3>3, <3>4, <3>5
  <2> QED
    BY <2>1, <2>2
<1> QED
  BY <1>7, <1>8, <1>9, <1>10 DEF StoreInv


LEMMA StoreInvStep ==
  ASSUME HType, StoreInv, Next, Record
  PROVE  StoreInv'
<1> USE DEF Goto, Answer, Raise, SignalRaises, quiet, Running
<1>t. /\ thread \in [Client -> Thread]
      /\ process_store \in [Uuid -> Process \cup {NoProcess}]
      /\ process \in [Process -> {"unused", "running", "stopping", "dead"}]
      /\ NoProcess \notin Process
  BY ManagerAssumption DEF HType, TypeInv, TypeOK
<1>s. process' = process => \A p \in Process : Fades(p)
  BY DEF Fades
<1>a. ASSUME NEW t \in Client, process_store' = process_store, process' = process,
             \A s \in Client \ {t} : thread'[s] = thread[s],
             thread'[t].pc \notin Removing \cup {"forget"}
      PROVE  StoreInv'
  BY <1>a, <1>s, <1>t, StoreLeftAlone
<1>1. ASSUME NEW t \in Client, NEW q \in SUBSET Uuid, NEW op \in Issued[t], Request(t, op, q)
      PROVE  StoreInv'
  BY <1>1, <1>a, <1>t DEF Request, Removing, Killing
<1>2. ASSUME NEW t \in Client, ScanRaises(t) \/ Select(t) \/ Done(t)
      PROVE  StoreInv'
  <2>1. /\ process_store' = process_store /\ process' = process
        /\ \A s \in Client \ {t} : thread'[s] = thread[s]
        /\ thread'[t].pc \in {"idle", "next"}
    <3>1. CASE ScanRaises(t) \/ Done(t)
      BY <3>1, <1>t DEF ScanRaises, Done
    <3>2. CASE Select(t)
      BY <3>2, <1>t DEF Select, Thread
    <3> QED
      BY <1>2, <3>1, <3>2
  <2> QED
    BY <2>1, <1>a DEF Removing, Killing
<1>3. ASSUME NEW t \in Client, BootStep(t)
      PROVE  StoreInv'
  <2>1. CASE BootRefused(t) \/ StartNowhere(t) \/ Booted(t) \/ Watch(t)
    <3>1. /\ process_store' = process_store /\ process' = process
          /\ \A s \in Client \ {t} : thread'[s] = thread[s]
          /\ thread'[t].pc \in {"idle", "booted", "starting"}
      BY <2>1, <1>t DEF BootRefused, StartNowhere, Booted, Watch, Thread
    <3> QED
      BY <3>1, <1>a DEF Removing, Killing
  <2>2. ASSUME NEW u \in Uuid, Boot(t, u)
        PROVE  StoreInv'
    <3>1. /\ process_store' = process_store /\ process' = process
          /\ \A s \in Client \ {t} : thread'[s] = thread[s]
          /\ thread'[t].pc = "starting"
      BY <2>2, <1>t DEF Boot, Thread
    <3> QED
      BY <3>1, <1>a DEF Removing, Killing
  <2>3. ASSUME NEW p \in Process, Start(t, p)
        PROVE  StoreInv'
    BY <2>3, StoreStarted
  <2> QED
    BY <1>3, <2>1, <2>2, <2>3 DEF BootStep
<1>4. ASSUME NEW t \in Client, RestartStep(t)
      PROVE  StoreInv'
  <2>1. CASE RestartRefused(t) \/ RestartOne(t) \/ RestartForgetRequest(t) \/ Reboot(t)
    <3>1. /\ process_store' = process_store /\ process' = process
          /\ \A s \in Client \ {t} : thread'[s] = thread[s]
      BY <2>1, <1>t DEF RestartRefused, RestartOne, RestartForgetRequest, Reboot
    <3>2. thread'[t].pc \in {"idle", "restart", "reboot", "starting"}
      <4>1. CASE RestartRefused(t) \/ RestartOne(t)
        BY <4>1, <1>t DEF RestartRefused, RestartOne, Thread
      <4>2. CASE RestartForgetRequest(t) \/ Reboot(t)
        BY <4>2, <1>t DEF RestartForgetRequest, Reboot, Thread
      <4> QED
        BY <2>1, <4>1, <4>2
    <3> QED
      BY <3>1, <3>2, <1>a DEF Removing, Killing
  <2>2. CASE RestartTerminate(t)
    <3> DEFINE p == process_store[thread[t].uuid]
    <3>1. /\ thread[t].uuid \in Uuid
          /\ \A s \in Client \ {t} : thread'[s] = thread[s]
          /\ process_store' = process_store
      BY <2>2, <1>t DEF RestartTerminate, HType, TypeInv, Shape, Chosen
    <3>2. CASE SignalRaises(t, p)
      <4>1. process' = process /\ thread'[t].pc = "idle"
        BY <3>2, <1>t
      <4> QED
        BY <3>1, <4>1, <1>a DEF Removing, Killing
    <3>3. CASE ~SignalRaises(t, p)
      <4>1. /\ process' = IF p # NoProcess /\ is_alive(p)
                          THEN [process EXCEPT ![p] = "stopping"] ELSE process
            /\ Goto(t, "forget")
        BY <2>2, <3>3 DEF RestartTerminate
      <4>2. thread'[t].pc = "forget" /\ thread'[t].uuid = thread[t].uuid
        BY <4>1, <1>t DEF Thread
      <4>3. \A q \in Process : Fades(q)
        BY <4>1, <1>t DEF is_alive, Fades
      <4>4. \A q \in Process : process_store[thread[t].uuid] = q => process'[q] # "running"
        BY <4>1, <1>t DEF is_alive
      <4>5. owner' = owner /\ overtaken' = overtaken
        BY <3>1, HistoryUntouched
      <4>6. Knows(t)'
        BY <3>1, <4>2, <4>4 DEF Knows, Killing
      <4> QED
        BY <3>1, <4>3, <4>5, <4>6, StoreKept
    <3> QED
      BY <3>2, <3>3
  <2>3. CASE RestartForget(t)
    <3>1. /\ thread[t].pc = "forget" /\ thread[t].uuid \in Uuid
          /\ \A s \in Client \ {t} : thread'[s] = thread[s]
          /\ thread'[t].pc \in {"idle", "forgetRequest"}
          /\ process' = process
      BY <2>3, <1>t DEF RestartForget, HType, TypeInv, Shape, Chosen, Thread
    <3>2. CASE thread[t].uuid \in stored
      <4>1. process_store' = [process_store EXCEPT ![thread[t].uuid] = NoProcess]
        BY <2>3, <3>2 DEF RestartForget
      <4>2. \/ thread[t].uuid \in overtaken
            \/ \A p \in Process : process_store[thread[t].uuid] = p => process[p] # "running"
        BY <3>1 DEF StoreInv, Knows
      <4> QED
        BY <3>1, <4>1, <4>2, <1>t, StoreDeleted DEF Removing, Killing
    <3>3. CASE thread[t].uuid \notin stored
      <4>1. process_store' = process_store
        BY <2>3, <3>3 DEF RestartForget
      <4> QED
        BY <3>1, <4>1, <1>a DEF Removing, Killing
    <3> QED
      BY <3>2, <3>3
  <2> QED
    BY <1>4, <2>1, <2>2, <2>3 DEF RestartStep
<1>5. ASSUME NEW t \in Client, KillStep(t)
      PROVE  StoreInv'
  <2>1. ASSUME NEW u \in Uuid, KillNext(t, u)
        PROVE  StoreInv'
    <3>1. /\ process_store' = process_store /\ process' = process
          /\ \A s \in Client \ {t} : thread'[s] = thread[s]
      BY <2>1, <1>t DEF KillNext
    <3>2. CASE process_store[u] = NoProcess \/ u \notin boot_request
      <4>1. thread'[t].pc = "idle"
        BY <2>1, <3>2, <1>t DEF KillNext, Thread
      <4> QED
        BY <3>1, <4>1, <1>a DEF Removing, Killing
    <3>3. CASE process_store[u] # NoProcess /\ u \in boot_request
      <4> DEFINE p == process_store[u]
      <4>1. p \in Process /\ process[p] # "unused"
        BY <3>3, <1>t DEF StoreInv, KeptAreOwned
      <4>2. /\ thread'[t].pc = IF is_alive(p) THEN "quit" ELSE "report"
            /\ thread'[t].uuid = u /\ thread'[t].proc = p
        BY <2>1, <3>3, <1>t DEF KillNext, Thread
      <4>3. owner' = owner /\ overtaken' = overtaken
        BY <3>1, HistoryUntouched
      <4>4. Knows(t)'
        BY <3>1, <4>1, <4>2, <1>t DEF Knows, is_alive, Killing
      <4> QED
        BY <3>1, <4>3, <4>4, <1>s, StoreKept
    <3> QED
      BY <3>2, <3>3
  <2>2. CASE SendQuit(t) \/ SendKill(t)
    <3> DEFINE p == thread[t].proc
    <3>1. /\ thread[t].pc \in {"quit", "kill"} /\ process_store' = process_store
          /\ p \in Process /\ process[p] # "unused"
          /\ thread[t].uuid \in overtaken \/ process_store[thread[t].uuid] \in {p, NoProcess}
          /\ \A s \in Client \ {t} : thread'[s] = thread[s]
      BY <2>2, <1>t DEF SendQuit, SendKill, StoreInv, Knows, Killing, HType, TypeInv, Shape
    <3>2. CASE SignalRaises(t, p)
      <4>1. process' = process /\ thread'[t].pc = "idle"
        BY <3>2, <1>t
      <4> QED
        BY <3>1, <4>1, <1>a DEF Removing, Killing
    <3>3. CASE ~SignalRaises(t, p)
      <4>1. \/ /\ process' = IF is_alive(p) THEN [process EXCEPT ![p] = "stopping"] ELSE process
               /\ Goto(t, IF is_alive(p) THEN "kill" ELSE "report")
            \/ process' = [process EXCEPT ![p] = "dead"] /\ Goto(t, "report")
        BY <2>2, <3>3 DEF SendQuit, SendKill
      <4>2. /\ thread'[t].pc \in {"kill", "report"}
            /\ thread'[t].uuid = thread[t].uuid /\ thread'[t].proc = p
        BY <4>1, <1>t DEF Thread
      <4>3. /\ \A q \in Process : Fades(q)
            /\ thread'[t].pc = "report" => process'[p] = "dead"
            /\ process'[p] # "unused"
        <5>1. CASE process' = [process EXCEPT ![p] = "dead"] /\ Goto(t, "report")
          BY <5>1, <3>1, <1>t DEF Fades
        <5>2. CASE is_alive(p) /\ process' = [process EXCEPT ![p] = "stopping"] /\ Goto(t, "kill")
          <6>1. thread'[t].pc = "kill"
            BY <5>2, <1>t DEF Thread
          <6> QED
            BY <5>2, <6>1, <3>1, <1>t DEF is_alive, Fades
        <5>3. CASE ~is_alive(p) /\ process' = process
          <6>1. process[p] = "dead"
            BY <3>1, <5>3, <1>t DEF is_alive
          <6> QED
            BY <5>3, <6>1, <1>s
        <5> QED
          BY <4>1, <5>1, <5>2, <5>3
      <4>4. owner' = owner /\ overtaken' = overtaken
        BY <3>1, HistoryUntouched
      <4>5. Knows(t)'
        BY <3>1, <4>2, <4>3, <4>4 DEF Knows, Killing
      <4> HIDE DEF p
      <4> QED
        BY <3>1, <4>3, <4>4, <4>5, StoreKept
    <3> QED
      BY <3>2, <3>3
  <2>3. CASE Report(t)
    <3>1. /\ thread[t].pc = "report" /\ process' = process /\ thread[t].uuid \in Uuid
          /\ \A s \in Client \ {t} : thread'[s] = thread[s]
          /\ thread'[t].pc \in {"next", "idle"}
      BY <2>3, <1>t DEF Report, HType, TypeInv, Shape, Chosen, Thread
    <3>2. CASE thread[t].uuid \in stored /\ thread[t].uuid \in boot_request
      <4>1. process_store' = [process_store EXCEPT ![thread[t].uuid] = NoProcess]
        BY <2>3, <3>2 DEF Report
      <4>2. \/ thread[t].uuid \in overtaken
            \/ \A p \in Process : process_store[thread[t].uuid] = p => process[p] # "running"
        BY <3>1, <1>t DEF StoreInv, Knows, Killing
      <4> QED
        BY <3>1, <4>1, <4>2, <1>t, StoreDeleted DEF Removing, Killing
    <3>3. CASE ~(thread[t].uuid \in stored /\ thread[t].uuid \in boot_request)
      <4>1. process_store' = process_store
        BY <2>3, <3>3 DEF Report
      <4> QED
        BY <3>1, <4>1, <1>a DEF Removing, Killing
    <3> QED
      BY <3>2, <3>3
  <2> QED
    BY <1>5, <2>1, <2>2, <2>3 DEF KillStep
<1>6. ASSUME NEW t \in Client, FlushStep(t)
      PROVE  StoreInv'
  <2>1. ASSUME NEW u \in Uuid, FlushNext(t, u)
        PROVE  StoreInv'
    <3>1. /\ process_store' = process_store /\ process' = process
          /\ \A s \in Client \ {t} : thread'[s] = thread[s]
      BY <2>1, <1>t DEF FlushNext
    <3>2. CASE u \in boot_request /\ u \in stored /\ ~is_alive(process_store[u])
      <4>1. thread'[t].pc = "remove" /\ thread'[t].uuid = u
        BY <2>1, <3>2, <1>t DEF FlushNext, Thread
      <4>2. \A p \in Process : process_store[u] = p => process[p] = "dead"
        BY <3>2, <1>t DEF is_alive, StoreInv, KeptAreOwned
      <4>3. owner' = owner /\ overtaken' = overtaken
        BY <3>1, HistoryUntouched
      <4>4. Knows(t)'
        BY <3>1, <4>1, <4>2 DEF Knows, Killing
      <4> QED
        BY <3>1, <4>3, <4>4, <1>s, StoreKept
    <3>3. CASE ~(u \in boot_request /\ u \in stored /\ ~is_alive(process_store[u]))
      <4>1. thread'[t].pc \in {"next", "idle"}
        BY <2>1, <3>3, <1>t DEF FlushNext, Thread
      <4> QED
        BY <3>1, <4>1, <1>a DEF Removing, Killing
    <3> QED
      BY <3>2, <3>3
  <2>2. CASE FlushRemove(t)
    <3>1. /\ thread[t].pc = "remove" /\ process' = process /\ thread[t].uuid \in Uuid
          /\ \A s \in Client \ {t} : thread'[s] = thread[s]
          /\ thread'[t].pc \in {"next", "idle"}
      BY <2>2, <1>t DEF FlushRemove, HType, TypeInv, Shape, Chosen, Thread
    <3>2. CASE thread[t].uuid \in stored
      <4>1. process_store' = [process_store EXCEPT ![thread[t].uuid] = NoProcess]
        BY <2>2, <3>2 DEF FlushRemove
      <4>2. \/ thread[t].uuid \in overtaken
            \/ \A p \in Process : process_store[thread[t].uuid] = p => process[p] # "running"
        BY <3>1 DEF StoreInv, Knows
      <4> QED
        BY <3>1, <4>1, <4>2, <1>t, StoreDeleted DEF Removing, Killing
    <3>3. CASE thread[t].uuid \notin stored
      <4>1. process_store' = process_store
        BY <2>2, <3>3 DEF FlushRemove
      <4> QED
        BY <3>1, <4>1, <1>a DEF Removing, Killing
    <3> QED
      BY <3>2, <3>3
  <2> QED
    BY <1>6, <2>1, <2>2 DEF FlushStep
<1>7. ASSUME NEW p \in Process, Exit(p)
      PROVE  StoreInv'
  <2>1. /\ \A q \in Process : Fades(q)
        /\ process_store' = process_store /\ thread' = thread
    BY <1>7, <1>t DEF Exit, is_alive, Fades
  <2>2. owner' = owner /\ overtaken' = overtaken
    BY <2>1, HistoryUntouched
  <2>3. CASE Client = {}
    BY <2>1, <2>2, <2>3
       DEF StoreInv, RunningIsTracked, KeptAreOwned, StartedAreOwned, Fades
  <2>4. ASSUME NEW t \in Client PROVE StoreInv'
    BY <2>1, <1>t, StoreLeftAlone
  <2> QED
    BY <2>3, <2>4
<1> QED
  BY <1>1, <1>2, <1>3, <1>4, <1>5, <1>6, <1>7 DEF Next, ThreadStep

LEMMA StoreAlways == HSpec => [](HType /\ StoreInv)
<1>1. HType /\ StoreInv /\ UNCHANGED hvars => StoreInv'
  BY DEF hvars, StoreInv, RunningIsTracked, KeptAreOwned, StartedAreOwned, Knows
<1> QED
  BY <1>1, HTypeInit, HTypeStep, StoreInvInit, StoreInvStep, PTL DEF HSpec

(* No process runs on unseen, whatever commands of whatever clients        *)
(* interleave: the process that a uuid got is in the store until it is     *)
(* told to stop, unless that uuid got a process over another one or under  *)
(* a command that was about to delete what was stored.                     *)
THEOREM NoneRunsUnseen == HSpec => []RunningIsTracked
<1>1. StoreInv => RunningIsTracked
  BY DEF StoreInv
<1> QED
  BY <1>1, StoreAlways, PTL

(* What kill and terminate report DEAD, and delete, is dead, whatever      *)
(* commands of whatever clients interleave, with the same exception.       *)
THEOREM ReportedDeadIsDead == HSpec => ReportedIsDead
<1>1. HType /\ StoreInv =>
        \A t \in Client : thread[t].pc = "report" /\ thread'[t].pc = "next" =>
           \/ thread[t].uuid \in overtaken
           \/ \A p \in Process : process_store[thread[t].uuid] = p => process[p] = "dead"
  BY ManagerAssumption DEF StoreInv, Knows, Killing
<1> QED
  BY <1>1, StoreAlways, PTL DEF ReportedIsDead, HSpec
-----------------------------------------------------------------------------
(* What was flushed was given up.                                          *)
FlushedIsGivenUp == \A u \in flushed : GivenUp(u)

(* What was flushed has no process ever again, although its boot request   *)
(* stays, whatever commands interleave, restarts included.                 *)
THEOREM FlushedStaysFlushed == HSpec => []FlushedNotRestarted
<1>1. HInit => FlushedIsGivenUp
  BY DEF HInit, FlushedIsGivenUp
<1>2. FlushedIsGivenUp => FlushedNotRestarted
  BY DEF FlushedIsGivenUp, GivenUp, FlushedNotRestarted
<1>3. ASSUME HType, FlushedIsGivenUp, [Next /\ Record]_hvars
      PROVE  FlushedIsGivenUp'
  <2> SUFFICES ASSUME NEW u \in flushed' PROVE GivenUp(u)'
    BY DEF FlushedIsGivenUp
  <2>1. CASE u \in flushed
    <3>1. GivenUp(u) /\ u \in Uuid /\ TypeInv /\ [Next]_vars
      BY <1>3, <2>1 DEF FlushedIsGivenUp, HType, hvars, vars
    <3> QED
      BY <3>1, GivenUpForGood
  <2>2. CASE u \notin flushed
    <3>1. u \in Uuid /\ Flushes(u)
      BY <1>3, <2>2 DEF Record, hvars
    <3> QED
      BY <3>1 DEF Flushes
  <2> QED
    BY <2>1, <2>2
<1> QED
  BY <1>1, <1>2, <1>3, HTypeInit, HTypeStep, PTL DEF HSpec
=============================================================================
