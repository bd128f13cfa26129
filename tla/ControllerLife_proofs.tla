----------------------- MODULE ControllerLife_proofs -----------------------
(* What the coming up and going down of the controllers keeps, for every   *)
(* tree of segments and applications and every number of deaths.           *)
EXTENDS ControllerLife, FiniteSetTheorems, TLAPS

(* The types of everything but the time left to a look-up, which comes     *)
(* from the recursion over the tree.                                       *)
Kinds ==
  /\ phase \in [Name -> Phase]
  /\ registry \in [Name -> Entry]
  /\ thread \in [Below -> Thread]
  /\ listener \in [Segment -> Listener]
  /\ todo \in [Segment -> SUBSET Below]
  /\ in_error \in [Segment -> BOOLEAN]
  /\ running \in [Segment -> BOOLEAN]
  /\ publisher \in [Segment -> Publisher]
  /\ ending \in [Segment -> Ending]

LEMMA Places ==
  /\ Segment \subseteq Name /\ Application \subseteq Name /\ Below \subseteq Name
  /\ Parent \in [Below -> Segment]
  /\ \A s \in Segment : Children(s) \subseteq Below
  /\ \A s \in Segment : s \notin Application
BY LifeAssumption DEF Name, Below, Children

LEMMA KindsInit == Init => Kinds
BY Places DEF Init, Kinds, Phase, Entry, Thread, Listener, Publisher, Ending

LEMMA KindsStartUp ==
  ASSUME Kinds, NEW s \in Segment, StartUp(s)
  PROVE  Kinds'
<1> USE Places DEF Kinds, procVars, lookVars, loopVars, stopVars
<1>1. CASE get_children(s)
  BY <1>1 DEF get_children, Phase, Thread, Pending
<1>2. ASSUME NEW up \in BOOLEAN, ListenerOutcome(s, up) PROVE Kinds'
  BY <1>2 DEF ListenerOutcome, Listener
<1>3. CASE JoinThreads(s) \/ EndOfStatusLoop(s)
  BY <1>3 DEF JoinThreads, EndOfStatusLoop, Phase, children_nodes
<1>4. ASSUME NEW c \in Children(s), get_status(s, c) PROVE Kinds'
  <2>1. (in_error[s] \/ reports_error(c)) \in BOOLEAN
    BY DEF reports_error
  <2> QED
    BY <1>4, <2>1 DEF get_status
<1>5. ASSUME NEW c \in Children(s), take_control(s, c) PROVE Kinds'
  BY <1>5 DEF take_control
<1>6. ASSUME NEW c \in Children(s), LoopRaises(s, c) PROVE Kinds'
  BY <1>6 DEF LoopRaises, Die, Phase, Entry
<1>7. CASE serve(s) \/ advertise_control_address(s) \/ start_publisher(s)
  BY <1>7 DEF serve, advertise_control_address, start_publisher, Phase, Publisher
<1>8. CASE TestRunning(s) \/ publish(s)
  BY <1>8 DEF TestRunning, publish, Publisher, Entry
<1> QED
  BY <1>1, <1>2, <1>3, <1>4, <1>5, <1>6, <1>7, <1>8 DEF StartUp

LEMMA KindsLookup ==
  ASSUME Kinds, NEW c \in Below, Lookup(c)
  PROVE  Kinds'
<1> USE Places DEF Kinds, procVars, lookVars, loopVars, stopVars, Thread, Pending, Node
<1>1. CASE Resolve(c) \/ GiveUp(c)
  BY <1>1 DEF Resolve, GiveUp
<1>2. CASE Connect(c) \/ ConnectFails(c)
  BY <1>2 DEF Connect, ConnectFails
<1>3. CASE StartListener(c)
  BY <1>3 DEF StartListener, Listener
<1>4. CASE register(c)
  BY <1>4 DEF register
<1> QED
  BY <1>1, <1>2, <1>3, <1>4 DEF Lookup

LEMMA KindsOther ==
  ASSUME Kinds,
         \/ \E s \in Segment : Interrupt(s) \/ Terminate(s)
         \/ \E a \in Application : StartApplication(a)
         \/ \E n \in Name : Crash(n) \/ Expire(n)
         \/ Tick
         \/ UNCHANGED vars
  PROVE  Kinds'
<1> USE Places DEF Kinds, procVars, lookVars, loopVars, stopVars
<1>1. ASSUME NEW s \in Segment, Interrupt(s) \/ Terminate(s) PROVE Kinds'
  <2>1. CASE Interrupt(s) \/ JoinPublisher(s)
    BY <2>1 DEF Interrupt, JoinPublisher, AfterJoin, Ending, Releasing
  <2>2. CASE JoinRaises(s) \/ RetractRaises(s) \/ ReleaseRaises(s)
    BY <2>2 DEF JoinRaises, RetractRaises, ReleaseRaises, Die, Phase, Entry
  <2>3. ASSUME NEW listed \in BOOLEAN, retract(s, listed) PROVE Kinds'
    BY <2>3 DEF retract, Ending, Releasing, Entry
  <2>4. CASE release(s)
    BY <2>4 DEF release, Ending, Ended, Thread, Listener
  <2> QED
    BY <1>1, <2>1, <2>2, <2>3, <2>4 DEF Terminate
<1>2. ASSUME NEW a \in Application, StartApplication(a) PROVE Kinds'
  BY <1>2 DEF StartApplication, Phase, Entry
<1>3. ASSUME NEW n \in Name, Crash(n) \/ Expire(n) PROVE Kinds'
  BY <1>3 DEF Crash, Expire, Die, Phase, Entry
<1>4. CASE Tick \/ UNCHANGED vars
  BY <1>4 DEF Tick, vars
<1> QED
  BY <1>1, <1>2, <1>3, <1>4

LEMMA KindsStep == Kinds /\ [Next]_vars => Kinds'
BY KindsStartUp, KindsLookup, KindsOther DEF Next
-----------------------------------------------------------------------------
(* What a process is listed as tells whether it lives.                     *)
ListedTruly(n) ==
  /\ registry[n] = "current" => Answers(n)
  /\ registry[n] = "stale" => phase[n] = "dead"

(* What is known of a child that was found, at each point of its look-up.  *)
FoundTruly(c) ==
  /\ thread[c] \in {"toStale", "stale"} => phase[c] = "dead"
  /\ thread[c] = "toLive" => Answers(c) \/ phase[c] = "dead" \/ c \in FixedPort
  /\ thread[c] = "live" /\ c \in Segment => Answers(c) \/ phase[c] = "dead"
  /\ thread[c] = "lost" => phase[c] = "dead" \/ c \in FixedPort

Truth ==
  /\ \A n \in Name : ListedTruly(n)
  /\ \A c \in Below : FoundTruly(c)

LEMMA TruthInit == Init => Truth
BY Places DEF Init, Truth, ListedTruly, FoundTruly

(* A process that answers goes on to do so until it is dead, for good; of  *)
(* the rest of its life an entry of the registry tells nothing.            *)
GoesForward(n) ==
  /\ Answers(n) => Answers(n)' \/ phase'[n] = "dead"
  /\ phase[n] = "dead" => phase'[n] = "dead"
  /\ ListedTruly(n)'

LEMMA Dying ==
  ASSUME Kinds, Truth, NEW m \in Name, Die(m), NEW n \in Name
  PROVE  GoesForward(n)
<1> ListedTruly(n)
  BY DEF Truth
<1> QED
  BY DEF GoesForward, Die, Kinds, Answers, ListedTruly

LEMMA NothingHappens ==
  ASSUME Truth, NEW n \in Name, phase'[n] = phase[n], registry'[n] = registry[n]
  PROVE  GoesForward(n)
BY DEF Truth, GoesForward, Answers, ListedTruly

LEMMA ForwardStartUp ==
  ASSUME Kinds, Truth, NEW s \in Segment, StartUp(s), NEW n \in Name
  PROVE  GoesForward(n)
<1> USE Places DEF procVars, lookVars, loopVars, stopVars
<1> ListedTruly(n)
  BY DEF Truth
<1>1. CASE \/ get_children(s) \/ JoinThreads(s) \/ EndOfStatusLoop(s) \/ serve(s)
           \/ advertise_control_address(s) \/ start_publisher(s)
  <2>1. /\ registry'[n] = registry[n]
        /\ n # s => phase'[n] = phase[n]
        /\ phase[s] \in {"up", "serving"} => phase'[s] \in {"up", "serving"}
        /\ phase[s] # "dead"
    BY <1>1 DEF get_children, JoinThreads, EndOfStatusLoop, serve, advertise_control_address,
                start_publisher, Kinds
  <2> QED
    BY <2>1 DEF GoesForward, Answers, ListedTruly
<1>2. ASSUME NEW up \in BOOLEAN, ListenerOutcome(s, up) PROVE GoesForward(n)
  BY <1>2, NothingHappens DEF ListenerOutcome
<1>3. ASSUME NEW c \in Children(s), get_status(s, c) \/ take_control(s, c)
      PROVE  GoesForward(n)
  BY <1>3, NothingHappens DEF get_status, take_control
<1>4. ASSUME NEW c \in Children(s), LoopRaises(s, c) PROVE GoesForward(n)
  BY <1>4, Dying DEF LoopRaises
<1>5. CASE TestRunning(s)
  BY <1>5, NothingHappens DEF TestRunning
<1>6. CASE publish(s)
  BY <1>6 DEF publish, GoesForward, Answers, ListedTruly, Kinds
<1> QED
  BY <1>1, <1>2, <1>3, <1>4, <1>5, <1>6 DEF StartUp

LEMMA ForwardLookup ==
  ASSUME Truth, NEW c \in Below, Lookup(c), NEW n \in Name
  PROVE  GoesForward(n)
<1>1. UNCHANGED <<phase, registry>>
  BY DEF Lookup, Resolve, GiveUp, Connect, ConnectFails, StartListener, register, procVars
<1> QED
  BY <1>1, NothingHappens

LEMMA ForwardOther ==
  ASSUME Kinds, Truth, NEW n \in Name,
         \/ \E s \in Segment : Interrupt(s) \/ Terminate(s)
         \/ \E a \in Application : StartApplication(a)
         \/ \E m \in Name : Crash(m) \/ Expire(m)
         \/ Tick
         \/ UNCHANGED vars
  PROVE  GoesForward(n)
<1> USE Places DEF procVars
<1> ListedTruly(n)
  BY DEF Truth
<1>1. ASSUME NEW s \in Segment, Interrupt(s) \/ Terminate(s) PROVE GoesForward(n)
  <2>1. CASE Interrupt(s) \/ JoinPublisher(s) \/ release(s)
    BY <2>1, NothingHappens DEF Interrupt, JoinPublisher, release
  <2>2. CASE JoinRaises(s) \/ RetractRaises(s) \/ ReleaseRaises(s)
    BY <2>2, Dying DEF JoinRaises, RetractRaises, ReleaseRaises
  <2>3. ASSUME NEW listed \in BOOLEAN, retract(s, listed) PROVE GoesForward(n)
    BY <2>3 DEF retract, GoesForward, Answers, ListedTruly, Kinds
  <2> QED
    BY <1>1, <2>1, <2>2, <2>3 DEF Terminate
<1>2. ASSUME NEW a \in Application, StartApplication(a) PROVE GoesForward(n)
  BY <1>2 DEF StartApplication, GoesForward, Answers, ListedTruly, Kinds
<1>3. ASSUME NEW m \in Name, Crash(m) PROVE GoesForward(n)
  BY <1>3, Dying DEF Crash
<1>4. ASSUME NEW m \in Name, Expire(m) PROVE GoesForward(n)
  BY <1>4 DEF Expire, GoesForward, Answers, ListedTruly, Kinds
<1>5. CASE Tick \/ UNCHANGED vars
  BY <1>5, NothingHappens DEF Tick, vars
<1> QED
  BY <1>1, <1>2, <1>3, <1>4, <1>5

LEMMA Forward ==
  ASSUME Kinds, Truth, [Next]_vars, NEW n \in Name
  PROVE  GoesForward(n)
BY ForwardStartUp, ForwardLookup, ForwardOther DEF Next

(* The look-up of a child is moved by its own thread, which get_children   *)
(* starts, until terminate() lets the child go.                            *)
LEMMA ThreadsMove ==
  ASSUME Kinds, [Next]_vars, NEW c \in Below
  PROVE  thread'[c] \in {thread[c], "skipped", "looking", "released"} \/ Lookup(c)
<1> USE DEF lookVars
<1>1. ASSUME NEW s \in Segment, StartUp(s)
      PROVE  thread'[c] \in {thread[c], "skipped", "looking"}
  BY <1>1 DEF StartUp, get_children, ListenerOutcome, JoinThreads, get_status, take_control,
     LoopRaises, EndOfStatusLoop, serve, advertise_control_address, start_publisher,
     TestRunning, publish
<1>2. ASSUME NEW d \in Below, d # c, Lookup(d) PROVE thread'[c] = thread[c]
  BY <1>2 DEF Lookup, Resolve, GiveUp, Connect, ConnectFails, StartListener, register, Kinds
<1>3. ASSUME NEW s \in Segment, Interrupt(s) \/ Terminate(s)
      PROVE  thread'[c] \in {thread[c], "released"}
  BY <1>3 DEF Terminate, Interrupt, JoinPublisher, JoinRaises, retract, RetractRaises,
     release, ReleaseRaises
<1>4. ASSUME NEW n \in Name, StartApplication(n) \/ Crash(n) \/ Expire(n) PROVE thread' = thread
  BY <1>4 DEF StartApplication, Crash, Expire
<1>5. ASSUME Tick \/ UNCHANGED vars PROVE thread' = thread
  BY <1>5 DEF Tick, vars
<1> QED
  BY <1>1, <1>2, <1>3, <1>4, <1>5, Places DEF Next

LEMMA TruthStep == Kinds /\ Truth /\ [Next]_vars => Truth'
<1> SUFFICES ASSUME Kinds, Truth, [Next]_vars PROVE Truth'
  OBVIOUS
<1>1. ASSUME NEW n \in Name PROVE ListedTruly(n)'
  BY Forward DEF GoesForward
<1>2. ASSUME NEW c \in Below PROVE FoundTruly(c)'
  <2>1. FoundTruly(c) /\ ListedTruly(c) /\ GoesForward(c)
    BY Forward, Places DEF Truth
  <2>2. CASE thread'[c] \in {thread[c], "skipped", "looking", "released"}
    BY <2>1, <2>2 DEF FoundTruly, GoesForward, Answers
  <2>3. CASE Lookup(c)
    <3> phase' = phase
      BY <2>3 DEF Lookup, Resolve, GiveUp, Connect, ConnectFails, StartListener, register, procVars
    <3> USE Places, <2>1 DEF FoundTruly, ListedTruly, Answers, Kinds
    <3>1. CASE Resolve(c)
      BY <3>1 DEF Resolve, Entry
    <3>2. CASE GiveUp(c)
      BY <3>2 DEF GiveUp
    <3>3. CASE Connect(c) \/ ConnectFails(c)
      BY <3>3 DEF Connect, ConnectFails
    <3>4. CASE StartListener(c) \/ register(c)
      BY <3>4 DEF StartListener, register
    <3> QED
      BY <2>3, <3>1, <3>2, <3>3, <3>4 DEF Lookup
  <2> QED
    BY <2>2, <2>3, ThreadsMove
<1> QED
  BY <1>1, <1>2 DEF Truth

(* No child is missing from the list of its parent without a trace unless  *)
(* its process died, or its command line says where to find it.            *)
THEOREM NoneLostAlive == Spec => []OnlyTheDeadAreLost
<1>1. Init => Kinds /\ Truth
  BY KindsInit, TruthInit
<1>2. Kinds /\ Truth /\ [Next]_vars => (Kinds /\ Truth)'
  BY KindsStep, TruthStep
<1>3. Truth => OnlyTheDeadAreLost
  BY DEF Truth, FoundTruly, OnlyTheDeadAreLost
<1> QED
  BY <1>1, <1>2, <1>3, PTL DEF Spec
-----------------------------------------------------------------------------
(* The children whose status the controller has read, or need not read:    *)
(* what is wrong with one of them it knows.                                *)
Knows(c) ==
  LET s == Parent[c]
  IN phase[s] \in {"checking", "taking", "up", "serving"}
     /\ (phase[s] = "checking" => c \notin todo[s]) /\ ~in_error[s]
       => /\ thread[c] # "placeholder"
          /\ c \in Segment /\ thread[c] = "live" => ~in_error[c]

Climbed == \A c \in Below : Knows(c)

LEMMA ClimbedInit == Init => Climbed
BY Places DEF Init, Climbed, Knows

LEMMA KnowsUnchanged ==
  ASSUME NEW c \in Below, Knows(c), thread'[c] = thread[c],
         phase'[Parent[c]] = phase[Parent[c]], todo'[Parent[c]] = todo[Parent[c]],
         in_error' = in_error
  PROVE  Knows(c)'
BY DEF Knows

(* A parent that is looking, or has died, claims to know nothing. *)
LEMMA KnowsNothing ==
  ASSUME NEW c \in Below, phase'[Parent[c]] \in {"off", "looking", "dead"}
  PROVE  Knows(c)'
BY DEF Knows

LEMMA ClimbedStartUp ==
  ASSUME Kinds, Truth, Climbed, NEW s \in Segment, StartUp(s), NEW c \in Below
  PROVE  Knows(c)'
<1> DEFINE p == Parent[c]
<1> USE Places DEF procVars, lookVars, loopVars, stopVars
<1> Knows(c) /\ p \in Segment /\ p \in Name
  BY DEF Climbed
<1>1. CASE get_children(s)
  <2>1. CASE p = s
    BY <1>1, <2>1, KnowsNothing DEF get_children, Kinds
  <2>2. CASE p # s
    <3>1. c \notin Children(s)
      BY <2>2 DEF Children
    <3> QED
      BY <1>1, <2>2, <3>1, KnowsUnchanged DEF get_children, Kinds
  <2> QED
    BY <2>1, <2>2
<1>2. CASE JoinThreads(s)
  <2>1. CASE p = s
    <3>1. /\ phase' = [phase EXCEPT ![s] = "checking"]
          /\ todo' = [todo EXCEPT ![s] = children_nodes(s)]
          /\ UNCHANGED <<thread, in_error>>
      BY <1>2 DEF JoinThreads
    <3>2. phase'[p] = "checking" /\ todo'[p] = children_nodes(s)
      BY <2>1, <3>1 DEF Kinds
    <3>3. c \notin todo'[p] => thread[c] \notin Node
      BY <2>1, <3>2 DEF children_nodes, Children
    <3> QED
      BY <3>1, <3>2, <3>3 DEF Knows, Node
  <2>2. CASE p # s
    BY <1>2, <2>2, KnowsUnchanged DEF JoinThreads, Kinds
  <2> QED
    BY <2>1, <2>2
<1>3. ASSUME NEW d \in Children(s), get_status(s, d) PROVE Knows(c)'
  <2>1. /\ phase[s] = "checking" /\ d \in todo[s] /\ phase' = phase /\ thread' = thread
        /\ todo' = [todo EXCEPT ![s] = @ \ {d}]
        /\ in_error' = [in_error EXCEPT ![s] = @ \/ reports_error(d)]
    BY <1>3 DEF get_status
  <2>2. c \in Segment /\ thread[c] = "live" => in_error'[c] = in_error[c]
    <3>1. c = s => thread[c] # "live"
      BY <2>1 DEF Truth, FoundTruly, Answers
    <3> QED
      BY <2>1, <3>1 DEF Kinds
  <2>3. CASE p # s
    <3>1. todo'[p] = todo[p] /\ in_error'[p] = in_error[p]
      BY <2>1, <2>3 DEF Kinds
    <3> QED
      BY <2>1, <2>2, <3>1 DEF Knows
  <2>4. CASE p = s /\ c # d
    <3>1. /\ c \notin todo'[p] => c \notin todo[p]
          /\ ~in_error'[p] => ~in_error[p]
      BY <2>1, <2>4 DEF Kinds
    <3> QED
      BY <2>1, <2>2, <3>1 DEF Knows
  <2>5. CASE p = s /\ c = d
    <3>1. ~in_error'[p] => ~reports_error(c)
      BY <2>1, <2>5 DEF Kinds
    <3>2. ~reports_error(c) => thread[c] # "placeholder" /\ (c \in Segment => ~in_error[c])
      BY DEF reports_error
    <3> QED
      BY <2>1, <2>2, <3>1, <3>2 DEF Knows
  <2> QED
    BY <2>3, <2>4, <2>5
<1>4. CASE EndOfStatusLoop(s)
  <2>1. /\ phase[s] = "checking" /\ todo[s] = {} /\ UNCHANGED <<thread, in_error>>
        /\ p # s => phase'[p] = phase[p] /\ todo'[p] = todo[p]
    BY <1>4 DEF EndOfStatusLoop, Kinds
  <2> QED
    BY <2>1 DEF Knows
<1>5. ASSUME NEW d \in Children(s), take_control(s, d) PROVE Knows(c)'
  <2>1. /\ phase[s] = "taking" /\ phase' = phase /\ UNCHANGED <<thread, in_error>>
        /\ p # s => todo'[p] = todo[p]
    BY <1>5 DEF take_control, Kinds
  <2> QED
    BY <2>1 DEF Knows
<1>6. ASSUME NEW d \in Children(s), LoopRaises(s, d) PROVE Knows(c)'
  <2>1. /\ p = s => phase'[p] = "dead"
        /\ p # s => phase'[p] = phase[p]
        /\ UNCHANGED <<thread, todo, in_error>>
    BY <1>6 DEF LoopRaises, Die, Kinds
  <2> QED
    BY <2>1, KnowsNothing, KnowsUnchanged
<1>7. CASE serve(s) \/ start_publisher(s) \/ advertise_control_address(s)
  <2>1. /\ phase[s] \in {"taking", "up"} /\ UNCHANGED <<thread, todo, in_error>>
        /\ p # s => phase'[p] = phase[p]
    BY <1>7 DEF serve, start_publisher, advertise_control_address, Kinds
  <2> QED
    BY <2>1 DEF Knows
<1>8. ASSUME NEW up \in BOOLEAN, ListenerOutcome(s, up) PROVE Knows(c)'
  BY <1>8, KnowsUnchanged DEF ListenerOutcome
<1>9. CASE TestRunning(s) \/ publish(s)
  BY <1>9, KnowsUnchanged DEF TestRunning, publish
<1> QED
  BY <1>1, <1>2, <1>3, <1>4, <1>5, <1>6, <1>7, <1>8, <1>9 DEF StartUp

LEMMA ClimbedLookup ==
  ASSUME Kinds, Climbed, NEW d \in Below, Lookup(d), NEW c \in Below
  PROVE  Knows(c)'
<1>1. /\ phase[Parent[d]] = "looking"
      /\ UNCHANGED <<phase, todo, in_error>>
      /\ d # c => thread'[c] = thread[c]
  BY DEF Lookup, Resolve, GiveUp, Connect, ConnectFails, StartListener, register, Kinds,
         procVars, loopVars
<1>2. Knows(c)
  BY DEF Climbed
<1> QED
  BY <1>1, <1>2, KnowsNothing, KnowsUnchanged

LEMMA ClimbedOther ==
  ASSUME Kinds, Climbed, NEW c \in Below,
         \/ \E s \in Segment : Interrupt(s) \/ Terminate(s)
         \/ \E a \in Application : StartApplication(a)
         \/ \E m \in Name : Crash(m) \/ Expire(m)
         \/ Tick
         \/ UNCHANGED vars
  PROVE  Knows(c)'
<1> USE Places DEF procVars, lookVars, loopVars, stopVars
<1> Knows(c) /\ Parent[c] \in Segment
  BY DEF Climbed
<1>1. thread'[c] \in {thread[c], "released"} /\ UNCHANGED <<todo, in_error>>
  BY DEF Interrupt, Terminate, JoinPublisher, JoinRaises, retract, RetractRaises, release,
         ReleaseRaises, StartApplication, Crash, Expire, Tick, vars
<1>2. phase'[Parent[c]] \in {phase[Parent[c]], "dead"}
  <2>1. ASSUME NEW a \in Application, StartApplication(a)
        PROVE  phase'[Parent[c]] = phase[Parent[c]]
    BY <2>1 DEF StartApplication, Kinds
  <2>2. ASSUME NEW m \in Name, Die(m) PROVE phase'[Parent[c]] \in {phase[Parent[c]], "dead"}
    BY <2>2 DEF Die, Kinds
  <2>3. ASSUME NEW m \in Name, Crash(m) \/ Expire(m)
        PROVE  phase'[Parent[c]] \in {phase[Parent[c]], "dead"}
    BY <2>2, <2>3 DEF Crash, Expire
  <2>4. ASSUME NEW s \in Segment, Interrupt(s) \/ Terminate(s)
        PROVE  phase'[Parent[c]] \in {phase[Parent[c]], "dead"}
    BY <2>2, <2>4 DEF Interrupt, Terminate, JoinPublisher, JoinRaises, retract, RetractRaises,
       release, ReleaseRaises
  <2>5. CASE Tick \/ UNCHANGED vars
    BY <2>5 DEF Tick, vars
  <2> QED
    BY <2>1, <2>3, <2>4, <2>5
<1> QED
  BY <1>1, <1>2, KnowsNothing, KnowsUnchanged DEF Knows

(* What went wrong anywhere below while the session came up is seen at the *)
(* top: a controller that serves and is not in error has no child that was *)
(* not found, and no controller in error, under it.                        *)
THEOREM ErrorsClimb == Spec => []ErrorClimbs
<1>1. Init => Kinds /\ Truth /\ Climbed
  BY KindsInit, TruthInit, ClimbedInit
<1>2. Kinds /\ Truth /\ Climbed /\ [Next]_vars => (Kinds /\ Truth /\ Climbed)'
  BY KindsStep, TruthStep, ClimbedStartUp, ClimbedLookup, ClimbedOther DEF Next, Climbed
<1>3. Climbed => ErrorClimbs
  BY Places DEF Climbed, Knows, ErrorClimbs, Answers, Children
<1> QED
  BY <1>1, <1>2, <1>3, PTL DEF Spec
-----------------------------------------------------------------------------
(* Once terminate() is past the join of its thread, the thread does not    *)
(* post any more, unless the controller went on to advertise itself.       *)
Withdrawn ==
  \A s \in Segment :
    /\ ending[s] \in {"retracting"} \cup Releasing \cup Ended /\ ~running[s]
         => publisher[s] # "posting"
    /\ ending[s] \in {"releasing", "ended"} /\ ~running[s] => registry[s] # "current"
    /\ ~service => publisher[s] = "none" /\ registry[s] # "current"

LEMMA WithdrawnInit == Init => Withdrawn
BY Places DEF Init, Withdrawn, Releasing, Ended

LEMMA WithdrawnStep == Kinds /\ Withdrawn /\ [Next]_vars => Withdrawn'
<1> SUFFICES ASSUME Kinds, Withdrawn, [Next]_vars PROVE Withdrawn'
  OBVIOUS
<1> USE Places DEF Kinds, Withdrawn, procVars, lookVars, loopVars, stopVars, Releasing, Ended
<1>1. ASSUME NEW s \in Segment, StartUp(s) PROVE Withdrawn'
  <2>1. CASE get_children(s) \/ JoinThreads(s) \/ EndOfStatusLoop(s) \/ serve(s)
    BY <2>1 DEF get_children, JoinThreads, EndOfStatusLoop, serve
  <2>2. ASSUME NEW up \in BOOLEAN, ListenerOutcome(s, up) PROVE Withdrawn'
    BY <2>2 DEF ListenerOutcome
  <2>3. ASSUME NEW c \in Children(s), get_status(s, c) \/ take_control(s, c) \/ LoopRaises(s, c)
        PROVE  Withdrawn'
    BY <2>3 DEF get_status, take_control, LoopRaises, Die
  <2>4. CASE advertise_control_address(s) \/ start_publisher(s)
    BY <2>4 DEF advertise_control_address, start_publisher
  <2>5. CASE TestRunning(s)
    BY <2>5 DEF TestRunning
  <2>6. CASE publish(s)
    BY <2>6 DEF publish
  <2> QED
    BY <1>1, <2>1, <2>2, <2>3, <2>4, <2>5, <2>6 DEF StartUp
<1>2. ASSUME NEW s \in Segment, Interrupt(s) \/ Terminate(s) PROVE Withdrawn'
  <2>1. CASE Interrupt(s)
    BY <2>1 DEF Interrupt
  <2>2. CASE JoinPublisher(s)
    BY <2>2 DEF JoinPublisher, AfterJoin
  <2>3. CASE JoinRaises(s) \/ RetractRaises(s) \/ ReleaseRaises(s)
    BY <2>3 DEF JoinRaises, RetractRaises, ReleaseRaises, Die
  <2>4. ASSUME NEW listed \in BOOLEAN, retract(s, listed) PROVE Withdrawn'
    BY <2>4 DEF retract
  <2>5. CASE release(s)
    BY <2>5 DEF release
  <2> QED
    BY <1>2, <2>1, <2>2, <2>3, <2>4, <2>5 DEF Terminate
<1>3. ASSUME NEW c \in Below, Lookup(c) PROVE Withdrawn'
  BY <1>3 DEF Lookup, Resolve, GiveUp, Connect, ConnectFails, StartListener, register
<1>4. ASSUME NEW a \in Application, StartApplication(a) PROVE Withdrawn'
  BY <1>4 DEF StartApplication
<1>5. ASSUME NEW m \in Name, Crash(m) \/ Expire(m) PROVE Withdrawn'
  BY <1>5 DEF Crash, Expire, Die
<1>6. CASE Tick \/ UNCHANGED vars
  BY <1>6 DEF Tick, vars
<1> QED
  BY <1>1, <1>2, <1>3, <1>4, <1>5, <1>6 DEF Next

(* An address that was retracted is not listed again by a thread that was  *)
(* still advertising it.                                                   *)
THEOREM RetractedForGood == Spec => []RetractedStaysOut
<1>1. Init => Kinds /\ Withdrawn
  BY KindsInit, WithdrawnInit
<1>2. Kinds /\ Withdrawn /\ [Next]_vars => (Kinds /\ Withdrawn)'
  BY KindsStep, WithdrawnStep
<1>3. Withdrawn => RetractedStaysOut
  BY DEF Withdrawn, RetractedStaysOut
<1> QED
  BY <1>1, <1>2, <1>3, PTL DEF Spec
-----------------------------------------------------------------------------
(* The recursion over the tree *)

LEMMA MaxOfFinite ==
  ASSUME NEW S, IsFiniteSet(S), S # {}, S \subseteq Nat
  PROVE  Max(S) \in S /\ \A y \in S : Max(S) >= y
<1> DEFINE HasMax(T) == \E x \in T : \A y \in T : x >= y
           Odd == {T \in SUBSET S : T # {} /\ ~HasMax(T)}
<1>1. ASSUME ~HasMax(S)
      PROVE  FALSE
  <2>1. Odd \subseteq FiniteSubsetsOf(S) /\ Odd # {}
    BY <1>1, FS_FiniteSubsetsOfFinite
  <2>2. PICK T \in Odd : \A U \in Odd : ~ (<<U, T>> \in StrictSubsetOrdering(S))
    <3> HIDE DEF Odd
    <3> QED BY <2>1, WFMin, FS_StrictSubsetOrderingWellFounded
  <2>3. PICK x \in T : TRUE
    OBVIOUS
  <2>4. T \ {x} \notin Odd
    BY <2>2, <2>3 DEF StrictSubsetOrdering
  <2>5. CASE T = {x}
    BY <2>5
  <2>6. CASE T # {x}
    <3>1. PICK m \in T \ {x} : \A y \in T \ {x} : m >= y
      BY <2>3, <2>4, <2>6
    <3>2. x \in Nat /\ m \in Nat /\ T \subseteq Nat
      BY <2>3
    <3>3. CASE x >= m
      BY <3>1, <3>2, <3>3, <2>3
    <3>4. CASE m >= x
      BY <3>1, <3>2, <3>4, <2>3
    <3> QED BY <3>2, <3>3, <3>4
  <2> QED BY <2>5, <2>6
<1> QED BY <1>1 DEF Max

SegmentsIn(s) == Children(s) \cap Segment

(* How far down the tree goes from s, if below s it goes as g says.        *)
DepthOver(g, s) ==
  IF SegmentsIn(s) = {} THEN 1 ELSE 1 + Max({g[c] : c \in SegmentsIn(s)})

LEMMA DepthOverType ==
  ASSUME NEW s \in Segment, NEW g, \A c \in SegmentsIn(s) : g[c] \in Nat
  PROVE  /\ DepthOver(g, s) \in Nat /\ DepthOver(g, s) >= 1
         /\ \A c \in SegmentsIn(s) : DepthOver(g, s) > g[c]
<1> DEFINE T == {g[c] : c \in SegmentsIn(s)}
           f == [c \in SegmentsIn(s) |-> g[c]]
<1>1. CASE SegmentsIn(s) = {}
  BY <1>1 DEF DepthOver
<1>2. CASE SegmentsIn(s) # {}
  <2>1. IsFiniteSet(SegmentsIn(s))
    BY LifeAssumption, FS_Subset DEF SegmentsIn
  <2>2. f \in Surjection(SegmentsIn(s), T)
    BY DEF Surjection
  <2>3. IsFiniteSet(T)
    <3> HIDE DEF f, T
    <3> QED BY <2>1, <2>2, FS_Surjection
  <2>4. T # {} /\ T \subseteq Nat
    BY <1>2
  <2>5. Max(T) \in T /\ \A y \in T : Max(T) >= y
    <3> HIDE DEF T
    <3> QED BY <2>3, <2>4, MaxOfFinite
  <2>6. DepthOver(g, s) = 1 + Max(T)
    BY <1>2 DEF DepthOver
  <2>7. \A c \in SegmentsIn(s) : g[c] \in T /\ g[c] \in Nat
    OBVIOUS
  <2> HIDE DEF T
  <2>8. Max(T) \in Nat /\ \A c \in SegmentsIn(s) : Max(T) >= g[c]
    BY <2>4, <2>5, <2>7
  <2> QED BY <2>6, <2>7, <2>8
<1> QED BY <1>1, <1>2

(* There is a function that gives each segment one more than the segments  *)
(* in it: in the least relation that has what the recursion says, a lowest *)
(* segment without exactly one value would have one.                       *)
LEMMA DepthExists == \E d \in [Segment -> Nat] : \A s \in Segment : d[s] = DepthOver(d, s)
<1> DEFINE All == Segment \X Nat
           Closed(C) == \A s \in Segment, g \in [Segment -> Nat] :
             (\A c \in SegmentsIn(s) : <<c, g[c]>> \in C) => <<s, DepthOver(g, s)>> \in C
           Rel == {q \in All : \A C \in SUBSET All : Closed(C) => q \in C}
           One(s) == \E n \in Nat : /\ <<s, n>> \in Rel
                                    /\ \A m \in Nat : <<s, m>> \in Rel => m = n
           d == [s \in Segment |->
                   IF \E n \in Nat : <<s, n>> \in Rel THEN CHOOSE n \in Nat : <<s, n>> \in Rel ELSE 0]
<1>1. ASSUME NEW s \in Segment, NEW g \in [Segment -> Nat]
      PROVE  DepthOver(g, s) \in Nat
  <2>1. \A c \in SegmentsIn(s) : g[c] \in Nat
    BY DEF SegmentsIn
  <2> QED BY <2>1, DepthOverType
<1>2. Closed(Rel)
  <2> SUFFICES ASSUME NEW s \in Segment, NEW g \in [Segment -> Nat],
                      \A c \in SegmentsIn(s) : <<c, g[c]>> \in Rel
               PROVE  <<s, DepthOver(g, s)>> \in Rel
    OBVIOUS
  <2>1. ASSUME NEW C \in SUBSET All, Closed(C)
        PROVE  <<s, DepthOver(g, s)>> \in C
    BY <2>1
  <2>2. <<s, DepthOver(g, s)>> \in All
    BY <1>1
  <2> QED BY <2>1, <2>2
<1>3. d \in [Segment -> Nat]
  <2> HIDE DEF Rel
  <2> QED OBVIOUS
<1>4. \A s \in Segment, n \in Nat : <<s, n>> \in Rel => <<s, d[s]>> \in Rel
  <2> HIDE DEF Rel
  <2> QED OBVIOUS
<1>5. ASSUME NEW s \in Segment, \A c \in SegmentsIn(s) : One(c)
      PROVE  <<s, DepthOver(d, s)>> \in Rel /\ One(s)
  <2>1. \A c \in SegmentsIn(s) : c \in Segment
    BY DEF SegmentsIn
  <2>2. \A c \in SegmentsIn(s) : <<c, d[c]>> \in Rel
    <3> HIDE DEF Rel, d
    <3> QED BY <1>4, <1>5, <2>1
  <2>3. <<s, DepthOver(d, s)>> \in Rel
    <3> HIDE DEF Rel, d
    <3> QED BY <1>2, <1>3, <2>2
  <2> DEFINE C == {q \in Rel : q[1] = s => q[2] = DepthOver(d, s)}
  <2>4. ASSUME NEW t \in Segment, NEW g \in [Segment -> Nat],
               \A c \in SegmentsIn(t) : <<c, g[c]>> \in C
        PROVE  <<t, DepthOver(g, t)>> \in C
    <3>1. \A c \in SegmentsIn(t) : <<c, g[c]>> \in Rel
      BY <2>4
    <3>2. <<t, DepthOver(g, t)>> \in Rel
      <4> HIDE DEF Rel
      <4> QED BY <1>2, <3>1
    <3>3. ASSUME t = s
          PROVE  DepthOver(g, t) = DepthOver(d, s)
      <4>1. \A c \in SegmentsIn(s) : g[c] \in Nat /\ d[c] \in Nat
        <5> HIDE DEF Rel, d
        <5> QED BY <1>3, <2>1
      <4>2. \A c \in SegmentsIn(s) : g[c] = d[c]
        <5> HIDE DEF Rel, d
        <5> QED BY <1>5, <2>2, <3>1, <3>3, <4>1
      <4>3. {g[c] : c \in SegmentsIn(s)} = {d[c] : c \in SegmentsIn(s)}
        <5> HIDE DEF Rel, d
        <5> QED BY <4>2
      <4> HIDE DEF Rel, d
      <4> QED BY <3>3, <4>3 DEF DepthOver
    <3> HIDE DEF d
    <3> QED BY <3>2, <3>3
  <2>5. C \in SUBSET All /\ Closed(C)
    BY <2>4
  <2>6. Rel \subseteq C
    <3> HIDE DEF C, Closed
    <3> QED BY <2>5
  <2>7. DepthOver(d, s) \in Nat
    <3> HIDE DEF d
    <3> QED BY <1>1, <1>3
  <2>8. \A m \in Nat : <<s, m>> \in Rel => m = DepthOver(d, s)
    <3> HIDE DEF Rel, d
    <3> QED BY <2>6
  <2> HIDE DEF Rel, d
  <2> QED BY <2>3, <2>7, <2>8
<1>6. ASSUME NEW s \in Segment
      PROVE  One(s)
  <2> HIDE DEF One
  <2> DEFINE Odd == {t \in Segment : ~One(t)}
  <2> SUFFICES ASSUME Odd # {} PROVE FALSE
    OBVIOUS
  <2>1. PICK t \in Odd : \A c \in Odd \ {Root} : Parent[c] # t
    <3>1. Odd \in SUBSET Segment
      OBVIOUS
    <3> HIDE DEF Odd
    <3> QED BY <3>1, NestingAssumption
  <2>2. \A c \in SegmentsIn(t) : One(c)
    BY <2>1 DEF SegmentsIn, Children, Below
  <2> QED BY <1>5, <2>2
<1>7. ASSUME NEW s \in Segment
      PROVE  d[s] = DepthOver(d, s)
  <2>1. <<s, DepthOver(d, s)>> \in Rel /\ One(s)
    <3>1. \A c \in SegmentsIn(s) : c \in Segment
      BY DEF SegmentsIn
    <3> HIDE DEF One, Rel, d
    <3> QED BY <1>5, <1>6, <3>1
  <2>2. d[s] \in Nat /\ DepthOver(d, s) \in Nat
    <3> HIDE DEF d
    <3> QED BY <1>1, <1>3
  <2> HIDE DEF Rel, d
  <2> QED BY <1>4, <2>1, <2>2
<1> HIDE DEF d
<1> QED BY <1>3, <1>7

LEMMA DepthUnfold ==
  ASSUME NEW s \in Segment
  PROVE  depth[s] = DepthOver(depth, s)
<1> DEFINE Over_all(g) == [t \in Segment |-> DepthOver(g, t)]
<1>1. PICK d \in [Segment -> Nat] : \A t \in Segment : d[t] = DepthOver(d, t)
  BY DepthExists
<1>2. d = Over_all(d)
  <2>1. DOMAIN d = Segment
    OBVIOUS
  <2> QED BY <1>1, <2>1
<1>3. depth = CHOOSE g : g = Over_all(g)
  BY DEF depth, DepthOver, SegmentsIn
<1>4. depth = Over_all(depth)
  BY <1>2, <1>3
<1> QED BY <1>4

(* The depth of a segment is a number, greater than that of the segments   *)
(* in it.                                                                  *)
LEMMA DepthGrows ==
  ASSUME NEW s \in Segment
  PROVE  /\ depth[s] \in Nat /\ depth[s] >= 1
         /\ \A c \in SegmentsIn(s) : depth[s] > depth[c]
<1> DEFINE Odd == {t \in Segment : ~ (depth[t] \in Nat)}
<1>1. Odd = {}
  <2> SUFFICES ASSUME Odd # {} PROVE FALSE
    OBVIOUS
  <2>1. PICK t \in Odd : \A c \in Odd \ {Root} : Parent[c] # t
    <3>1. Odd \in SUBSET Segment
      OBVIOUS
    <3> HIDE DEF Odd
    <3> QED BY <3>1, NestingAssumption
  <2>2. \A c \in SegmentsIn(t) : depth[c] \in Nat
    BY <2>1 DEF SegmentsIn, Children, Below
  <2>3. DepthOver(depth, t) \in Nat
    BY <2>2, DepthOverType
  <2> QED BY <2>3, DepthUnfold
<1>2. \A c \in SegmentsIn(s) : depth[c] \in Nat
  BY <1>1 DEF SegmentsIn
<1> QED BY <1>2, DepthOverType, DepthUnfold

(* So is the time-out of a look-up.                                        *)
LEMMA TimeoutType ==
  ASSUME NEW s \in Segment
  PROVE  get_segment_lookup_timeout(s) \in Nat
BY DepthGrows, LifeAssumption DEF get_segment_lookup_timeout
-----------------------------------------------------------------------------
(* The rest of the types: the counters.                                    *)
Counters ==
  /\ delay \in [Segment -> 0..Skew]
  /\ crashes \in 0..MaxCrash
  /\ patience \in [Below -> Int]
  /\ \A c \in Below : patience[c] >= -Over

LEMMA CountersStep ==
  ASSUME Counters, [Next]_vars
  PROVE  Counters'
<1> USE LifeAssumption, TimeoutType, Places DEF Counters, procVars, lookVars, loopVars, stopVars
<1>1. ASSUME NEW s \in Segment, StartUp(s) PROVE Counters'
  <2>1. CASE get_children(s)
    <3>1. ASSUME NEW c \in Below
          PROVE  /\ patience'[c] \in Int /\ patience'[c] >= -Over
                 /\ patience' \in [Below -> Int]
      BY <2>1 DEF get_children
    <3> QED
      BY <2>1, <3>1 DEF get_children
  <2>2. CASE ~get_children(s)
    <3>1. UNCHANGED <<delay, crashes, patience>>
      BY <1>1, <2>2 DEF StartUp, ListenerOutcome, JoinThreads, get_status, take_control,
         LoopRaises, EndOfStatusLoop, serve, advertise_control_address, start_publisher,
         TestRunning, publish
    <3> QED
      BY <3>1
  <2> QED
    BY <2>1, <2>2
<1>2. ASSUME NEW c \in Below, Lookup(c) PROVE Counters'
  <2>1. CASE Resolve(c) \/ GiveUp(c)
    BY <2>1 DEF Resolve, GiveUp
  <2>2. CASE Connect(c) \/ ConnectFails(c)
    BY <2>2 DEF Connect, ConnectFails
  <2>3. CASE StartListener(c) \/ register(c)
    BY <2>3 DEF StartListener, register
  <2> QED
    BY <1>2, <2>1, <2>2, <2>3 DEF Lookup
<1>3. CASE Tick
  <2>1. delay' \in [Segment -> 0..Skew]
    BY <1>3 DEF Tick
  <2>2. patience' \in [Below -> Int] /\ \A c \in Below : patience'[c] >= -Over
    BY <1>3 DEF Tick, Counting
  <2> QED
    BY <1>3, <2>1, <2>2 DEF Tick
<1>4. ASSUME NEW m \in Name, Crash(m) PROVE Counters'
  BY <1>4 DEF Crash
<1>5. CASE \/ \E s \in Segment : Interrupt(s) \/ Terminate(s)
           \/ \E a \in Application : StartApplication(a)
           \/ \E m \in Name : Expire(m)
           \/ UNCHANGED vars
  <2>1. UNCHANGED <<delay, crashes, patience>>
    BY <1>5 DEF Interrupt, Terminate, JoinPublisher, JoinRaises, retract, RetractRaises,
       release, ReleaseRaises, StartApplication, Expire, vars
  <2> QED
    BY <2>1
<1> QED
  BY <1>1, <1>2, <1>3, <1>4, <1>5 DEF Next

(* The calls of terminate() that are not over: one for a signal at most,   *)
(* and at least one as long as terminate() is somewhere.                   *)
Nested ==
  /\ service \in BOOLEAN
  /\ signals \in 0..MaxSignal
  /\ calls \in [Segment -> Nat]
  /\ \A s \in Segment :
       /\ calls[s] <= signals
       /\ ending[s] \in {"joining", "retracting"} \cup Releasing => calls[s] > 0

LEMMA ServiceStays == [Next]_vars => service' = service
<1> SUFFICES ASSUME [Next]_vars PROVE service' = service
  OBVIOUS
<1> USE DEF procVars
<1>1. ASSUME NEW s \in Segment, StartUp(s) PROVE service' = service
  BY <1>1 DEF StartUp, get_children, ListenerOutcome, JoinThreads, get_status, take_control,
     LoopRaises, EndOfStatusLoop, serve, advertise_control_address, start_publisher,
     TestRunning, publish
<1>2. ASSUME NEW c \in Below, Lookup(c) PROVE service' = service
  BY <1>2 DEF Lookup, Resolve, GiveUp, Connect, ConnectFails, StartListener, register
<1>3. ASSUME NEW s \in Segment, Interrupt(s) \/ Terminate(s) PROVE service' = service
  BY <1>3 DEF Interrupt, Terminate, JoinPublisher, JoinRaises, RetractRaises, retract,
     release, ReleaseRaises
<1>4. ASSUME NEW n \in Name, StartApplication(n) \/ Crash(n) \/ Expire(n)
      PROVE  service' = service
  BY <1>4 DEF StartApplication, Crash, Expire
<1>5. CASE Tick \/ UNCHANGED vars
  BY <1>5 DEF Tick, vars
<1> QED
  BY <1>1, <1>2, <1>3, <1>4, <1>5, Places DEF Next

LEMMA NestedStep ==
  ASSUME Kinds, Nested, [Next]_vars
  PROVE  Nested'
<1> USE LifeAssumption, Places DEF procVars, stopVars
<1>1. ASSUME UNCHANGED <<signals, calls, ending>> PROVE Nested'
  BY <1>1, ServiceStays DEF Nested
<1>2. ASSUME NEW s \in Segment, StartUp(s) PROVE Nested'
  BY <1>1, <1>2 DEF StartUp, get_children, ListenerOutcome, JoinThreads, get_status,
     take_control, LoopRaises, EndOfStatusLoop, serve, advertise_control_address,
     start_publisher, TestRunning, publish
<1>3. ASSUME NEW c \in Below, Lookup(c) PROVE Nested'
  BY <1>1, <1>3 DEF Lookup, Resolve, GiveUp, Connect, ConnectFails, StartListener, register
<1>4. ASSUME NEW s \in Segment, Interrupt(s) PROVE Nested'
  <2>1. /\ signals < MaxSignal /\ signals' = signals + 1
        /\ calls' = [calls EXCEPT ![s] = @ + 1]
        /\ ending' = [ending EXCEPT ![s] = "joining"]
    BY <1>4 DEF Interrupt
  <2> QED
    BY <2>1, ServiceStays DEF Nested, Kinds
<1>5. ASSUME NEW s \in Segment, Terminate(s) PROVE Nested'
  <2>1. CASE JoinRaises(s) \/ RetractRaises(s) \/ ReleaseRaises(s)
    BY <1>1, <2>1 DEF JoinRaises, RetractRaises, ReleaseRaises
  <2>2. CASE JoinPublisher(s) \/ \E listed \in BOOLEAN : retract(s, listed)
    <3>1. /\ UNCHANGED <<signals, calls>> /\ ending[s] \in {"joining", "retracting"}
          /\ \E e : ending' = [ending EXCEPT ![s] = e]
      BY <2>2 DEF JoinPublisher, retract
    <3> QED
      BY <3>1, ServiceStays DEF Nested, Kinds
  <2>3. CASE release(s)
    <3>1. /\ UNCHANGED signals /\ ending[s] \in Releasing
          /\ calls' = [calls EXCEPT ![s] = @ - 1]
          /\ \E e : e \in {"joining", "ended", "endedListed"} /\ (calls[s] <= 1 => e # "joining")
                   /\ ending' = [ending EXCEPT ![s] = e]
      <4>1. UNCHANGED signals /\ ending[s] \in Releasing /\ calls' = [calls EXCEPT ![s] = @ - 1]
        BY <2>3 DEF release
      <4> DEFINE e == IF calls[s] > 1 THEN "joining"
                      ELSE IF ending[s] = "releasing" THEN "ended" ELSE "endedListed"
      <4>2. ending' = [ending EXCEPT ![s] = e]
        BY <2>3 DEF release
      <4>3. calls[s] \in Nat
        BY DEF Nested
      <4>4. e \in {"joining", "ended", "endedListed"} /\ (calls[s] <= 1 => e # "joining")
        BY <4>3
      <4> HIDE DEF e
      <4> QED BY <4>1, <4>2, <4>4
    <3> QED
      BY <3>1, ServiceStays DEF Nested, Kinds, Releasing
  <2> QED
    BY <1>5, <2>1, <2>2, <2>3 DEF Terminate
<1>6. CASE \/ \E a \in Application : StartApplication(a)
           \/ \E n \in Name : Crash(n) \/ Expire(n)
           \/ Tick
           \/ UNCHANGED vars
  BY <1>1, <1>6 DEF StartApplication, Crash, Expire, Tick, vars
<1> QED
  BY <1>2, <1>3, <1>4, <1>5, <1>6 DEF Next

(* Every variable keeps its type, the time-outs that come from the         *)
(* recursion over the tree included; no look-up goes on for longer than    *)
(* its time-out and one last call to resolve.                              *)
THEOREM TypeCorrect == Spec => []TypeOK
<1>1. Init => Kinds /\ Counters /\ Nested
  BY KindsInit, LifeAssumption DEF Init, Counters, Nested, Releasing
<1>2. Kinds /\ Counters /\ Nested /\ [Next]_vars => (Kinds /\ Counters /\ Nested)'
  BY KindsStep, CountersStep, NestedStep
<1>3. Kinds /\ Counters /\ Nested => TypeOK
  <2> SUFFICES ASSUME Kinds, Counters, Nested PROVE TypeOK
    OBVIOUS
  <2>1. calls \in [Segment -> 0..MaxSignal]
    BY LifeAssumption DEF Nested
  <2> QED
    BY <2>1 DEF Kinds, Counters, Nested, TypeOK
<1> QED
  BY <1>1, <1>2, <1>3, PTL DEF Spec

-----------------------------------------------------------------------------
(* How long parents wait *)

(* There is a service, and no controller died, was interrupted or hangs on *)
(* its listener.                                                           *)
AllWell ==
  service /\ \A s \in Segment : phase[s] # "dead" /\ ending[s] = "no" /\ listener[s] # "broken"

LookedUp(x) == phase[Parent[x]] = "looking" /\ thread[x] = "looking"

Allowance(x) == IF x \in Segment THEN get_segment_lookup_timeout(Parent[x]) ELSE Base

(* The units after which no controller is at work on its start up.         *)
Late == Skew + Base + Over

(* The units that went by since the first process could be started: each   *)
(* look-up began in the first Skew of them and has counted since.          *)
Clock(now) ==
  /\ \A s \in Segment : delay[s] = IF now < Skew THEN Skew - now ELSE 0
  /\ \A s \in Segment \ Disabled : phase[s] = "off" => now <= Skew
  /\ \A x \in Below : LookedUp(x) =>
       Allowance(x) <= patience[x] + now /\ patience[x] + now <= Allowance(x) + Skew

Prompt(now) == AllWell /\ now > Late => \A c \in Below \cap Segment : ~LookedUp(c)

Timely == \E now \in Nat : Clock(now) /\ Prompt(now)

(* What serves and is not interrupted is running; what is disabled is not  *)
(* looked up.                                                              *)
Advertises ==
  \A s \in Segment :
    /\ service /\ phase[s] = "serving" => publisher[s] # "none"
    /\ publisher[s] # "none" /\ ending[s] = "no" => running[s]

DisabledSkipped == \A c \in Below \cap Disabled : thread[c] \in {"idle", "skipped"}

PatienceInv == Timely /\ Advertises /\ DisabledSkipped /\ ParentsArePatient

LEMMA AdvertisesStep == Kinds /\ Advertises /\ [Next]_vars => Advertises'
<1> SUFFICES ASSUME Kinds, Advertises, [Next]_vars PROVE Advertises'
  OBVIOUS
<1> USE Places DEF Kinds, Advertises, procVars, lookVars, loopVars, stopVars
<1>1. ASSUME NEW s \in Segment, StartUp(s) PROVE Advertises'
  <2>1. CASE get_children(s) \/ JoinThreads(s) \/ EndOfStatusLoop(s) \/ serve(s)
    BY <2>1 DEF get_children, JoinThreads, EndOfStatusLoop, serve
  <2>2. ASSUME NEW up \in BOOLEAN, ListenerOutcome(s, up) PROVE Advertises'
    BY <2>2 DEF ListenerOutcome
  <2>3. ASSUME NEW c \in Children(s), get_status(s, c) \/ take_control(s, c) \/ LoopRaises(s, c)
        PROVE  Advertises'
    BY <2>3 DEF get_status, take_control, LoopRaises, Die
  <2>4. CASE advertise_control_address(s) \/ start_publisher(s)
    BY <2>4 DEF advertise_control_address, start_publisher
  <2>5. CASE TestRunning(s)
    BY <2>5 DEF TestRunning
  <2>6. CASE publish(s)
    BY <2>6 DEF publish
  <2> QED
    BY <1>1, <2>1, <2>2, <2>3, <2>4, <2>5, <2>6 DEF StartUp
<1>2. ASSUME NEW s \in Segment, Interrupt(s) \/ Terminate(s) PROVE Advertises'
  <2>1. CASE Interrupt(s) \/ JoinPublisher(s)
    BY <2>1 DEF Interrupt, JoinPublisher, AfterJoin
  <2>2. CASE JoinRaises(s) \/ RetractRaises(s) \/ ReleaseRaises(s)
    BY <2>2 DEF JoinRaises, RetractRaises, ReleaseRaises, Die
  <2>3. ASSUME NEW listed \in BOOLEAN, retract(s, listed) PROVE Advertises'
    BY <2>3 DEF retract
  <2>4. CASE release(s)
    BY <2>4 DEF release
  <2> QED
    BY <1>2, <2>1, <2>2, <2>3, <2>4 DEF Terminate
<1>3. ASSUME NEW c \in Below, Lookup(c) PROVE Advertises'
  BY <1>3 DEF Lookup, Resolve, GiveUp, Connect, ConnectFails, StartListener, register
<1>4. ASSUME NEW a \in Application, StartApplication(a) PROVE Advertises'
  BY <1>4 DEF StartApplication
<1>5. ASSUME NEW m \in Name, Crash(m) \/ Expire(m) PROVE Advertises'
  BY <1>5 DEF Crash, Expire, Die
<1>6. CASE Tick \/ UNCHANGED vars
  BY <1>6 DEF Tick, vars
<1> QED
  BY <1>1, <1>2, <1>3, <1>4, <1>5, <1>6 DEF Next

(* A look-up begins in get_children only.                                  *)
LEMMA LookupsBegin ==
  ASSUME Kinds, Counters, [Next]_vars, ~Tick, \A s \in Segment : ~get_children(s)
  PROVE  /\ delay' = delay
         /\ \A s \in Segment : phase'[s] = "off" => phase[s] = "off"
         /\ \A x \in Below : /\ LookedUp(x)' => LookedUp(x) /\ patience'[x] = patience[x]
                             /\ thread'[x] \in {"looking", "skipped"} => thread'[x] = thread[x]
<1> USE Places DEF Kinds, procVars, lookVars, loopVars, stopVars, LookedUp
<1> DEFINE Goal == /\ delay' = delay
                   /\ \A s \in Segment : phase'[s] = "off" => phase[s] = "off"
                   /\ \A x \in Below :
                        /\ LookedUp(x)' => LookedUp(x) /\ patience'[x] = patience[x]
                        /\ thread'[x] \in {"looking", "skipped"} => thread'[x] = thread[x]
<1>1. ASSUME NEW s \in Segment, StartUp(s) PROVE Goal
  <2>1. CASE JoinThreads(s) \/ EndOfStatusLoop(s) \/ serve(s) \/ start_publisher(s)
    BY <2>1 DEF JoinThreads, EndOfStatusLoop, serve, start_publisher
  <2>2. ASSUME NEW up \in BOOLEAN, ListenerOutcome(s, up) PROVE Goal
    BY <2>2 DEF ListenerOutcome
  <2>3. ASSUME NEW c \in Children(s), get_status(s, c) \/ take_control(s, c) \/ LoopRaises(s, c)
        PROVE  Goal
    BY <2>3 DEF get_status, take_control, LoopRaises, Die
  <2>4. CASE advertise_control_address(s) \/ TestRunning(s) \/ publish(s)
    BY <2>4 DEF advertise_control_address, TestRunning, publish
  <2> QED
    BY <1>1, <2>1, <2>2, <2>3, <2>4 DEF StartUp
<1>2. ASSUME NEW s \in Segment, Interrupt(s) \/ Terminate(s) PROVE Goal
  <2>1. CASE release(s)
    BY <2>1 DEF release
  <2>2. CASE ~release(s)
    BY <1>2, <2>2 DEF Terminate, Interrupt, JoinPublisher, JoinRaises, RetractRaises, retract,
       ReleaseRaises, Die
  <2> QED BY <2>1, <2>2
<1>3. ASSUME NEW c \in Below, Lookup(c) PROVE Goal
  <2>1. /\ delay' = delay /\ phase' = phase
        /\ \A x \in Below : x # c => thread'[x] = thread[x] /\ patience'[x] = patience[x]
    <3>1. delay' = delay /\ phase' = phase
      BY <1>3 DEF Lookup, Resolve, GiveUp, Connect, ConnectFails, StartListener, register
    <3>2. ASSUME NEW x \in Below, x # c
          PROVE  thread'[x] = thread[x] /\ patience'[x] = patience[x]
      <4>1. CASE Resolve(c) \/ GiveUp(c)
        BY <3>2, <4>1 DEF Resolve, GiveUp, Counters
      <4>2. CASE Connect(c) \/ ConnectFails(c)
        BY <3>2, <4>2 DEF Connect, ConnectFails, Counters
      <4>3. CASE StartListener(c) \/ register(c)
        BY <3>2, <4>3 DEF StartListener, register
      <4> QED BY <1>3, <4>1, <4>2, <4>3 DEF Lookup
    <3> QED BY <3>1, <3>2
  <2>2. thread'[c] \in {"toLive", "toStale", "placeholder", "live", "lost", "stale"}
    <3>1. CASE Resolve(c) \/ GiveUp(c)
      BY <3>1 DEF Resolve, GiveUp
    <3>2. CASE Connect(c) \/ ConnectFails(c)
      BY <3>2 DEF Connect, ConnectFails
    <3>3. CASE StartListener(c) \/ register(c)
      BY <3>3 DEF StartListener, register
    <3> QED BY <1>3, <3>1, <3>2, <3>3 DEF Lookup
  <2> QED BY <2>1, <2>2
<1>4. ASSUME NEW a \in Application, StartApplication(a) PROVE Goal
  BY <1>4 DEF StartApplication
<1>5. ASSUME NEW m \in Name, Crash(m) \/ Expire(m) PROVE Goal
  BY <1>5 DEF Crash, Expire, Die
<1>6. CASE UNCHANGED vars
  BY <1>6 DEF vars
<1> QED
  BY <1>1, <1>2, <1>3, <1>4, <1>5, <1>6 DEF Next

LEMMA DisabledSkippedStep ==
  ASSUME Kinds, Counters, DisabledSkipped, [Next]_vars
  PROVE  DisabledSkipped'
<1> SUFFICES ASSUME NEW c \in Below, c \in Disabled
             PROVE  thread'[c] \in {"idle", "skipped"}
  BY DEF DisabledSkipped
<1>1. thread[c] \in {"idle", "skipped"}
  BY DEF DisabledSkipped
<1>2. CASE Lookup(c)
  BY <1>1, <1>2 DEF Lookup, Resolve, GiveUp, Connect, ConnectFails, StartListener, register,
                    Pending
<1>3. ASSUME NEW s \in Segment, get_children(s)
      PROVE  thread'[c] \in {"idle", "skipped"}
  BY <1>1, <1>3 DEF get_children
<1>4. CASE Tick
  BY <1>1, <1>4 DEF Tick
<1>5. ASSUME NEW s \in Segment, Terminate(s) PROVE thread'[c] \in {"idle", "skipped"}
  <2>1. CASE release(s)
    BY <1>1, <2>1 DEF release, children_nodes, Node
  <2>2. CASE ~release(s)
    BY <1>1, <1>5, <2>2 DEF Terminate, JoinPublisher, JoinRaises, RetractRaises, retract,
       ReleaseRaises, lookVars
  <2> QED BY <2>1, <2>2
<1>6. ASSUME thread'[c] = "released", ~Lookup(c) PROVE \E s \in Segment : Terminate(s)
  BY <1>1, <1>6, Places DEF Next, StartUp, get_children, ListenerOutcome, JoinThreads,
     get_status, take_control, LoopRaises, EndOfStatusLoop, serve, advertise_control_address,
     start_publisher, TestRunning, publish, Lookup, Resolve, GiveUp, Connect, ConnectFails,
     StartListener, register, StartApplication, Crash, Expire, Interrupt, Tick, vars, lookVars,
     Kinds
<1>7. CASE /\ ~Tick /\ \A s \in Segment : ~get_children(s)
           /\ thread'[c] # "released"
  BY <1>1, <1>7, LookupsBegin, ThreadsMove, <1>2
<1> QED BY <1>2, <1>3, <1>4, <1>5, <1>6, <1>7

(* Nothing that went wrong is put right.                                   *)
LEMMA WellBefore ==
  ASSUME Kinds, Truth, [Next]_vars, AllWell'
  PROVE  AllWell
<1> SUFFICES ASSUME NEW s \in Segment
             PROVE  service /\ phase[s] # "dead" /\ ending[s] = "no" /\ listener[s] # "broken"
  BY Places, LifeAssumption DEF AllWell
<1> USE Places DEF Kinds, procVars, lookVars, loopVars, stopVars
<1>1. phase'[s] # "dead" /\ ending'[s] = "no" /\ listener'[s] # "broken"
  BY DEF AllWell
<1>2. service /\ phase[s] # "dead"
  BY <1>1, Forward, ServiceStays DEF GoesForward, AllWell
<1>3. ending'[s] = "no" => ending[s] = "no"
  <2>1. ASSUME NEW t \in Segment, Interrupt(t) \/ Terminate(t)
        PROVE  ending'[s] = "no" => ending[s] = "no"
    <3>1. CASE release(t)
      <4>1. \E e : e # "no" /\ ending' = [ending EXCEPT ![t] = e]
        BY <3>1 DEF release
      <4> QED BY <4>1
    <3>2. CASE ~release(t)
      BY <2>1, <3>2 DEF Interrupt, Terminate, JoinPublisher, AfterJoin, JoinRaises,
         RetractRaises, retract, ReleaseRaises
    <3> QED BY <3>1, <3>2
  <2>2. CASE \A t \in Segment : ~Interrupt(t) /\ ~Terminate(t)
    BY <2>2 DEF Next, StartUp, get_children, ListenerOutcome, JoinThreads, get_status,
       take_control, LoopRaises, EndOfStatusLoop, serve, advertise_control_address,
       start_publisher, TestRunning, publish, Lookup, Resolve, GiveUp, Connect, ConnectFails,
       StartListener, register, StartApplication, Crash, Expire, Tick, vars
  <2> QED BY <2>1, <2>2
<1>4. listener[s] = "broken" => listener'[s] = "broken"
  <2>1. ASSUME NEW t \in Segment, NEW up \in BOOLEAN, ListenerOutcome(t, up)
        PROVE  listener[s] = "broken" => listener'[s] = "broken"
    BY <2>1 DEF ListenerOutcome
  <2>2. ASSUME NEW c \in Below, StartListener(c)
        PROVE  listener[s] = "broken" => listener'[s] = "broken"
    BY <2>2 DEF StartListener
  <2>3. CASE /\ \A t \in Segment, up \in BOOLEAN : ~ListenerOutcome(t, up)
             /\ \A c \in Below : ~StartListener(c)
    BY <2>3 DEF Next, StartUp, get_children, JoinThreads, get_status, Interrupt, Terminate,
       JoinPublisher, JoinRaises, RetractRaises, retract, release, ReleaseRaises,
       take_control, LoopRaises, EndOfStatusLoop, serve, advertise_control_address,
       start_publisher, TestRunning, publish, Lookup, Resolve, GiveUp, Connect, ConnectFails,
       register, StartApplication, Crash, Expire, Tick, vars
  <2> QED BY <2>1, <2>2, <2>3
<1> QED BY <1>1, <1>2, <1>3, <1>4


(* When the time is up and all is well, no more is due only if every       *)
(* controller is listed: one that is not, all below it being so, would     *)
(* wait for nothing but an application, and that it no longer does.        *)
LEMMA AllListed ==
  ASSUME Kinds, Truth, Counters, Advertises, DisabledSkipped, AllWell, ~Due,
         NEW now \in Nat, Clock(now), now >= Late
  PROVE  \A s \in Segment \ Disabled : registry[s] = "current"
<1> DEFINE Odd == {s \in Segment \ Disabled : registry[s] # "current"}
<1> USE Places, LifeAssumption
<1> SUFFICES ASSUME Odd # {} PROVE FALSE
  OBVIOUS
<1>1. PICK s \in Odd : \A c \in Odd \ {Root} : Parent[c] # s
  <2>1. Odd \in SUBSET Segment
    OBVIOUS
  <2> HIDE DEF Odd
  <2> QED BY <2>1, NestingAssumption
<1>2. s \in Segment /\ s \notin Disabled /\ registry[s] # "current"
  OBVIOUS
<1>3. service /\ phase[s] # "dead" /\ ending[s] = "no" /\ listener[s] # "broken"
  BY <1>2 DEF AllWell
<1>4. phase[s] # "off"
  <2>1. delay[s] = 0
    BY <1>2 DEF Clock, Late
  <2> QED BY <1>2, <2>1 DEF Due
<1>5. phase[s] \notin {"checking", "taking", "up"}
  BY <1>2 DEF Due
<1>6. phase[s] # "serving"
  BY <1>2, <1>3 DEF Due, Advertises
<1>7. phase[s] = "looking"
  BY <1>2, <1>3, <1>4, <1>5, <1>6 DEF Kinds, Phase
<1>8. PICK x \in Children(s) : thread[x] \in Pending
  BY <1>2, <1>7 DEF Due
<1>9. x \in Below /\ Parent[x] = s
  BY <1>2, <1>8 DEF Children
<1>10. CASE x \in Application
  <2>1. thread[x] = "looking"
    BY <1>3, <1>7, <1>8, <1>9, <1>10 DEF Due, Pending
  <2>2. patience[x] > -Over
    BY <1>7, <1>9, <2>1 DEF Due, Counters
  <2>3. patience[x] + now <= Base + Skew
    BY <1>7, <1>9, <1>10, <2>1 DEF Clock, LookedUp, Allowance
  <2>4. patience[x] \in Int
    BY <1>9 DEF Counters
  <2> QED BY <2>2, <2>3, <2>4 DEF Late
<1>11. CASE x \in Segment
  <2>1. x \notin Disabled
    BY <1>8, <1>9 DEF DisabledSkipped, Pending
  <2>2. registry[x] = "current"
    BY <1>1, <1>9, <1>11, <2>1 DEF Below
  <2>3. Answers(x) /\ phase[x] # "dead"
    BY <1>11, <2>2 DEF Truth, ListedTruly, AllWell
  <2>4. thread[x] # "looking"
    BY <1>7, <1>9, <2>2 DEF Due
  <2>5. thread[x] # "toLive"
    BY <1>7, <1>9, <1>11, <2>3 DEF Due
  <2>6. thread[x] # "toStale"
    BY <1>9, <2>3 DEF Truth, FoundTruly
  <2> QED BY <1>8, <2>4, <2>5, <2>6 DEF Pending
<1> QED BY <1>9, <1>10, <1>11 DEF Below, Name

LEMMA TimelyTick ==
  ASSUME Kinds, Truth, Counters, Advertises, DisabledSkipped, Timely, Tick
  PROVE  Timely'
<1> USE Places, LifeAssumption, TimeoutType
<1>1. PICK now \in Nat : Clock(now) /\ Prompt(now)
  BY DEF Timely
<1>2. /\ ~Due
      /\ delay' = [s \in Segment |-> IF delay[s] > 0 THEN delay[s] - 1 ELSE 0]
      /\ patience' = [c \in Below |-> IF Counting(c) THEN patience[c] - 1 ELSE patience[c]]
      /\ UNCHANGED <<phase, thread, listener, ending, registry, service>>
  BY DEF Tick, stopVars
<1>3. ASSUME NEW x \in Below
      PROVE  LookedUp(x)' = LookedUp(x)
  BY <1>2 DEF LookedUp
<1>4. ASSUME NEW s \in Segment
      PROVE  delay'[s] = IF now + 1 < Skew THEN Skew - (now + 1) ELSE 0
  BY <1>1, <1>2 DEF Clock
<1>5. ASSUME NEW s \in Segment \ Disabled, phase'[s] = "off"
      PROVE  now + 1 <= Skew
  BY <1>1, <1>2, <1>5 DEF Clock, Due
<1>6. ASSUME NEW x \in Below, LookedUp(x)'
      PROVE  /\ Allowance(x) <= patience'[x] + (now + 1)
             /\ patience'[x] + (now + 1) <= Allowance(x) + Skew
  <2>1. LookedUp(x) /\ patience[x] \in Int /\ patience[x] >= -Over
    BY <1>3, <1>6 DEF Counters
  <2>2. patience[x] # -Over
    BY <1>2, <2>1 DEF Due, LookedUp
  <2>3. patience'[x] = patience[x] - 1
    BY <1>2, <2>1, <2>2 DEF Counting, LookedUp
  <2>4. Allowance(x) \in Nat
    BY DEF Allowance
  <2> QED BY <1>1, <2>1, <2>3, <2>4 DEF Clock
<1>7. Clock(now + 1)'
  <2> HIDE DEF Clock
  <2>1. \A x \in Below : Allowance(x)' = Allowance(x)
    BY DEF Allowance, get_segment_lookup_timeout
  <2> QED BY <1>4, <1>5, <1>6, <2>1 DEF Clock
<1>8. ASSUME AllWell', now + 1 > Late, NEW c \in Below \cap Segment
      PROVE  ~LookedUp(c)'
  <2>1. AllWell
    BY <1>2, <1>8 DEF AllWell
  <2>2. now >= Late
    BY <1>8 DEF Late
  <2>3. LookedUp(c) => c \notin Disabled
    BY DEF LookedUp, DisabledSkipped
  <2>4. LookedUp(c) => registry[c] = "current"
    BY <1>1, <1>2, <2>1, <2>2, <2>3, AllListed
  <2> QED BY <1>2, <1>3, <2>4 DEF Due, LookedUp
<1>9. Prompt(now + 1)'
  BY <1>8 DEF Prompt, Late
<1>10. now + 1 \in Nat
  OBVIOUS
<1> QED BY <1>7, <1>9, <1>10 DEF Timely

LEMMA TimelyStart ==
  ASSUME Kinds, Timely, NEW s \in Segment, get_children(s)
  PROVE  Timely'
<1> USE Places, LifeAssumption, TimeoutType
<1>1. PICK now \in Nat : Clock(now) /\ Prompt(now)
  BY DEF Timely
<1>2. /\ phase[s] = "off" /\ s \notin Disabled /\ delay' = delay
      /\ phase' = [phase EXCEPT ![s] = "looking"]
  BY DEF get_children
<1>3. now <= Skew
  BY <1>1, <1>2 DEF Clock
<1>4. ASSUME NEW x \in Below, LookedUp(x)'
      PROVE  /\ Allowance(x) <= patience'[x] + now
             /\ patience'[x] + now <= Allowance(x) + Skew
  <2>1. Allowance(x) \in Nat
    BY DEF Allowance
  <2>2. CASE x \in Children(s)
    <3>1. Parent[x] = s
      BY <2>2 DEF Children
    <3>2. patience'[x] = Allowance(x)
      BY <2>2, <3>1 DEF get_children, Allowance
    <3> QED BY <1>3, <2>1, <3>2
  <2>3. CASE x \notin Children(s)
    <3>1. Parent[x] # s
      BY <2>3 DEF Children
    <3>2. LookedUp(x) /\ patience'[x] = patience[x]
      BY <1>2, <1>4, <2>3, <3>1 DEF get_children, LookedUp, Kinds
    <3> QED BY <1>1, <3>2 DEF Clock
  <2> QED BY <2>2, <2>3
<1>5. \A t \in Segment : phase'[t] = "off" => phase[t] = "off"
  BY <1>2 DEF Kinds
<1>6. Clock(now)'
  <2>1. \A x \in Below : Allowance(x)' = Allowance(x)
    BY DEF Allowance, get_segment_lookup_timeout
  <2> QED BY <1>1, <1>2, <1>4, <1>5, <2>1 DEF Clock
<1>7. Prompt(now)'
  BY <1>3 DEF Prompt, Late
<1> QED BY <1>6, <1>7 DEF Timely

LEMMA TimelyOther ==
  ASSUME Kinds, Truth, Counters, Timely, [Next]_vars, ~Tick,
         \A s \in Segment : ~get_children(s)
  PROVE  Timely'
<1>1. PICK now \in Nat : Clock(now) /\ Prompt(now)
  BY DEF Timely
<1>2. \A x \in Below : Allowance(x)' = Allowance(x)
  BY DEF Allowance, get_segment_lookup_timeout
<1>3. Clock(now)'
  BY <1>1, <1>2, LookupsBegin DEF Clock
<1>4. Prompt(now)'
  BY <1>1, LookupsBegin, WellBefore DEF Prompt
<1> QED BY <1>3, <1>4 DEF Timely

LEMMA TimelyStep ==
  ASSUME Kinds, Truth, Counters, Advertises, DisabledSkipped, Timely, [Next]_vars
  PROVE  Timely'
BY TimelyTick, TimelyStart, TimelyOther

(* A controller is given up only when the time allowed for it and for what *)
(* is below it is over, and then it has been found.                        *)
LEMMA PatientStep ==
  ASSUME Skew + Over < Base, Kinds, Truth, Counters, Timely, ParentsArePatient, [Next]_vars
  PROVE  ParentsArePatient'
<1> USE Places, LifeAssumption
<1> SUFFICES ASSUME AllWell', NEW c \in Below, c \in Segment, thread'[c] = "placeholder"
             PROVE  FALSE
  BY DEF ParentsArePatient, AllWell
<1>1. AllWell
  BY WellBefore
<1>2. thread[c] # "placeholder"
  BY <1>1 DEF ParentsArePatient, AllWell
<1>3. GiveUp(c)
  <2>1. Lookup(c)
    BY <1>2, ThreadsMove
  <2> QED
    BY <1>2, <2>1 DEF Lookup, Resolve, Connect, ConnectFails, StartListener, register, Kinds
<1>4. LookedUp(c) /\ patience[c] <= 0
  BY <1>1, <1>3 DEF GiveUp, LookedUp, AllWell
<1>5. PICK now \in Nat : Clock(now) /\ Prompt(now)
  BY DEF Timely
<1>6. patience[c] + now >= Allowance(c)
  BY <1>4, <1>5 DEF Clock
<1>7. Allowance(c) >= 2 * Base
  <2>1. Parent[c] \in Segment /\ c \in SegmentsIn(Parent[c])
    BY DEF SegmentsIn, Children
  <2>2. depth[Parent[c]] \in Nat /\ depth[Parent[c]] >= 2
    BY <2>1, DepthGrows
  <2>3. \A d \in Nat : d >= 2 => Base * d >= 2 * Base
    OBVIOUS
  <2> QED BY <2>2, <2>3 DEF Allowance, get_segment_lookup_timeout
<1>8. ~(now > Late)
  BY <1>1, <1>4, <1>5 DEF Prompt
<1>9. Allowance(c) \in Nat /\ patience[c] \in Int
  BY TimeoutType DEF Allowance, Counters
<1> QED BY <1>4, <1>6, <1>7, <1>8, <1>9 DEF Late

(* If the processes of a session are started within the time that a look-  *)
(* up allows but for its last call to resolve, no parent gives up a        *)
(* controller that lives, is let live and comes up, in every tree: the     *)
(* time-outs are long enough at every depth, whatever applications fail.   *)
THEOREM ParentsWaitLongEnough ==
  ASSUME Skew + Over < Base
  PROVE  Spec => []ParentsArePatient
<1> DEFINE Inv == Kinds /\ Truth /\ Counters /\ PatienceInv
<1>1. Init => Inv
  <2> SUFFICES ASSUME Init PROVE Inv
    OBVIOUS
  <2>1. Kinds /\ Truth
    BY KindsInit, TruthInit
  <2>2. Counters
    BY LifeAssumption DEF Init, Counters
  <2>3. \A x \in Below : ~LookedUp(x)
    BY DEF Init, LookedUp
  <2>4. \A s \in Segment : delay[s] = Skew /\ Skew \in Nat
    BY LifeAssumption DEF Init
  <2>5. Clock(0)
    BY <2>3, <2>4 DEF Clock
  <2>6. Prompt(0)
    BY <2>3 DEF Prompt
  <2>7. /\ \A s \in Segment : phase[s] = "off" /\ publisher[s] = "none"
        /\ \A c \in Below : thread[c] = "idle"
    BY Places DEF Init
  <2>8. Advertises
    BY <2>7 DEF Advertises
  <2>9. DisabledSkipped
    BY <2>7 DEF DisabledSkipped
  <2>10. ParentsArePatient
    BY <2>7 DEF ParentsArePatient
  <2> QED BY <2>1, <2>2, <2>5, <2>6, <2>8, <2>9, <2>10 DEF PatienceInv, Timely
<1>2. Inv /\ [Next]_vars => Inv'
  BY KindsStep, TruthStep, CountersStep, AdvertisesStep, DisabledSkippedStep, TimelyStep,
     PatientStep DEF PatienceInv
<1>3. Inv => ParentsArePatient
  BY DEF PatienceInv
<1> QED
  BY <1>1, <1>2, <1>3, PTL DEF Spec
=============================================================================
