-------------------------- MODULE ControllerLife --------------------------
(***************************************************************************)
(* How the controllers of a session come up and go down.  A controller     *)
(* looks each of its children up in the connectivity service, one thread   *)
(* per child, connects to it, reads its status, takes control of it, and   *)
(* only then serves and advertises itself, which is what its own parent    *)
(* is waiting for.  On SIGINT it stops advertising, retracts its address   *)
(* and lets its children go.  A session may be without a connectivity      *)
(* service: then the command lines are all there is to look at.            *)
(*                                                                         *)
(* The connectivity service and the applications are external.  Time       *)
(* passes in units, by Tick; everything that is due happens before the     *)
(* next unit, so a step that takes less than a unit takes no time here.    *)
(***************************************************************************)
EXTENDS Integers, FiniteSetsExt

CONSTANTS
  Segment,       \* the segments of the session, each with its controller
  Application,   \* the applications
  Root,          \* the top segment
  Parent,        \* Parent[c]: the segment that contains c
  Disabled,      \* the components the session disables
  FixedPort,     \* those whose command line gives a port other than 0
  Base,          \* units in 60 s
  Over,          \* units the last call to resolve may take (35 s)
  DescribeFor,   \* units taken by the 20 calls to describe (100 s)
  Skew,          \* bound on the units between the starts of two processes
  MaxCrash,      \* bound on the processes that die
  Mortal,        \* bound: the processes that may die on their own
  MaxSignal,     \* bound on the SIGINTs sent
  Signalled      \* bound: the controllers a SIGINT may be sent to

Name == Segment \cup Application
Below == Name \ {Root}

ASSUME LifeAssumption ==
  /\ IsFiniteSet(Segment)
  /\ Root \in Segment /\ Segment \cap Application = {}
  /\ Parent \in [Below -> Segment]
  /\ Disabled \subseteq Below /\ Mortal \subseteq Name /\ Signalled \subseteq Segment
  /\ {Base, Over, DescribeFor, Skew, MaxCrash, MaxSignal} \subseteq Nat
  /\ Base > 0

(* Segments contain segments down to some that contain none.               *)
ASSUME NestingAssumption ==
  \A T \in SUBSET Segment : T # {} => \E s \in T : \A c \in T \ {Root} : Parent[c] # s

VARIABLES
  phase,      \* [Name -> Phase]: how far each process is
  delay,      \* [Segment -> 0..Skew]: units before it must have been started
  crashes,    \* how many processes died on their own
  signals,    \* how many SIGINTs were sent
  service,    \* BOOLEAN: the session has a connectivity service
  registry,   \* [Name -> Entry]: what the connectivity service lists
  thread,     \* [Below -> Thread]: the parent's look-up of this child
  patience,   \* [Below -> Int]: units left to that look-up, or to describe
  listener,   \* [Segment -> Listener]: the ResponseListener of the process
  todo,       \* [Segment -> SUBSET Below]: children a loop has still to visit
  in_error,   \* [Segment -> BOOLEAN]: the flag of the stateful node
  running,    \* [Segment -> BOOLEAN]: Controller.running
  publisher,  \* [Segment -> Publisher]: the thread that advertises
  ending,     \* [Segment -> Ending]: how far terminate() is
  calls       \* [Segment -> Nat]: calls of terminate(), one inside the other

procVars == <<phase, delay, crashes, signals, service>>
lookVars == <<thread, patience, listener>>
loopVars == <<todo, in_error>>
stopVars == <<running, publisher, ending, calls>>
vars == <<procVars, registry, lookVars, loopVars, stopVars>>

Phase     == {"off", "looking", "checking", "taking", "up", "serving", "dead"}
Entry     == {"absent", "current", "stale"}
Pending   == {"looking", "toLive", "toStale"}
Node      == {"live", "stale", "placeholder"}
Thread    == {"idle", "skipped", "lost", "released"} \cup Pending \cup Node
Listener  == {"none", "starting", "ready", "broken", "stopped"}
Publisher == {"none", "created", "idle", "posting", "ended"}
Releasing == {"releasing", "releasingListed"}
Ended     == {"ended", "endedListed"}
Ending    == {"no", "joining", "retracting"} \cup Releasing \cup Ended
-----------------------------------------------------------------------------
Children(s) == {c \in Below : Parent[c] = s}

(* The threads that ended with a node in children_nodes. *)
children_nodes(s) == {c \in Children(s) : thread[c] \in Node}

Answers(n) == phase[n] \in {"up", "serving"}

(* recurse_segment: the segments on the longest path down from s. *)
depth[s \in Segment] ==
  LET below == Children(s) \cap Segment
  IN IF below = {} THEN 1 ELSE 1 + Max({depth[c] : c \in below})

(* Fault: the time-out is the same at every level of the tree. *)
lookup_timeout_flat(s) == Base

get_segment_lookup_timeout(s) == Base * depth[s]

Init ==
  /\ phase = [n \in Name |-> "off"]
  /\ delay = [s \in Segment |-> Skew]
  /\ crashes = 0 /\ signals = 0
  /\ service \in BOOLEAN
  /\ registry = [n \in Name |-> "absent"]
  /\ thread = [c \in Below |-> "idle"]
  /\ patience = [c \in Below |-> 0]
  /\ listener = [s \in Segment |-> "none"]
  /\ todo = [s \in Segment |-> {}]
  /\ in_error = [s \in Segment |-> FALSE]
  /\ running = [s \in Segment |-> FALSE]
  /\ publisher = [s \in Segment |-> "none"]
  /\ ending = [s \in Segment |-> "no"]
  /\ calls = [s \in Segment |-> 0]

(* The process is gone; what it advertised stays listed for a while. *)
Die(n) ==
  /\ phase' = [phase EXCEPT ![n] = "dead"]
  /\ registry' = [registry EXCEPT ![n] = IF @ = "current" THEN "stale" ELSE @]
-----------------------------------------------------------------------------
(* The outside: processes that start and die, entries that expire, time.   *)

(* An application is external: it comes up and lists itself. *)
StartApplication(a) ==
  /\ phase[a] = "off" /\ a \notin Disabled
  /\ phase' = [phase EXCEPT ![a] = "serving"]
  /\ registry' = [registry EXCEPT ![a] = IF service THEN "current" ELSE @]
  /\ UNCHANGED <<delay, crashes, signals, service, lookVars, loopVars, stopVars>>

Crash(n) ==
  /\ n \in Mortal /\ phase[n] # "dead" /\ n \notin Disabled
  /\ crashes < MaxCrash
  /\ crashes' = crashes + 1
  /\ Die(n)
  /\ UNCHANGED <<delay, signals, service, lookVars, loopVars, stopVars>>

Expire(n) ==
  /\ registry[n] = "stale"
  /\ registry' = [registry EXCEPT ![n] = "absent"]
  /\ UNCHANGED <<procVars, lookVars, loopVars, stopVars>>

(* What cannot be left waiting for another unit.                           *)
Due ==
  \/ \E s \in Segment \ Disabled : phase[s] = "off" /\ delay[s] = 0
  \/ \E s \in Segment :
       \/ phase[s] \in {"checking", "taking", "up"}
       \/ phase[s] = "looking" /\ \A c \in Children(s) : thread[c] \notin Pending
       \/ phase[s] = "serving" /\ registry[s] # "current" /\ running[s]
  \/ \E c \in Below :
       /\ phase[Parent[c]] = "looking"
       /\ \/ /\ thread[c] = "looking"
             /\ registry[c] # "absent" \/ patience[c] = -Over \/ ~service
          \/ /\ thread[c] \in {"toLive", "toStale"} /\ c \in Segment
             /\ patience[c] = 0 \/ (thread[c] = "toLive" /\ Answers(c))
          \/ /\ thread[c] \in {"toLive", "toStale"} /\ c \in Application
             /\ listener[Parent[c]] # "broken"

(* resolve() is tried, or describe() is: REST children are not described. *)
Counting(c) ==
  /\ phase[Parent[c]] = "looking" /\ patience[c] > -Over
  /\ thread[c] = "looking" \/ (c \in Segment /\ thread[c] \in Pending)

(* Fault: the look-up may outlive its time-out by any time. *)
TickPastDeadline ==
  /\ \E c \in Below : phase[Parent[c]] = "looking" /\ thread[c] = "looking"
  /\ patience' = [c \in Below |-> patience[c] - 1]
  /\ UNCHANGED <<procVars, registry, thread, listener, loopVars, stopVars>>

Tick ==
  /\ ~Due
  /\ (\E s \in Segment : delay[s] > 0) \/ (\E c \in Below : Counting(c))
  /\ delay' = [s \in Segment |-> IF delay[s] > 0 THEN delay[s] - 1 ELSE 0]
  /\ patience' = [c \in Below |-> IF Counting(c) THEN patience[c] - 1 ELSE patience[c]]
  /\ UNCHANGED <<phase, crashes, signals, service, registry, thread, listener, loopVars, stopVars>>
-----------------------------------------------------------------------------
(* Controller.__init__: get_children and its threads.                      *)

get_children(s) ==
  /\ phase[s] = "off" /\ s \notin Disabled
  /\ phase' = [phase EXCEPT ![s] = "looking"]
  /\ thread' = [c \in Below |->
       IF c \notin Children(s) THEN thread[c]
       ELSE IF c \in Disabled THEN "skipped" ELSE "looking"]
  /\ patience' = [c \in Below |->
       IF c \notin Children(s) THEN patience[c]
       ELSE IF c \in Segment THEN get_segment_lookup_timeout(s) ELSE Base]
  /\ UNCHANGED <<delay, crashes, signals, service, registry, listener, loopVars, stopVars>>

(* resolve() has an answer. *)
Resolve(c) ==
  /\ phase[Parent[c]] = "looking" /\ thread[c] = "looking"
  /\ registry[c] # "absent"
  /\ thread' = [thread EXCEPT ![c] = IF registry[c] = "current" THEN "toLive" ELSE "toStale"]
  /\ patience' = [patience EXCEPT ![c] = IF c \in Segment THEN DescribeFor ELSE 0]
  /\ UNCHANGED <<procVars, registry, listener, loopVars, stopVars>>

(* Fault: only an answer of the service ends the look-up. *)
GiveUpOnAnswer(c) ==
  /\ phase[Parent[c]] = "looking" /\ thread[c] = "looking"
  /\ patience[c] <= 0 /\ registry[c] # "absent"
  /\ thread' = [thread EXCEPT ![c] = "placeholder"]
  /\ UNCHANGED <<procVars, registry, patience, listener, loopVars, stopVars>>

(* Fault: a child nobody can talk to leaves no node behind. *)
GiveUpWithoutNode(c) ==
  /\ phase[Parent[c]] = "looking" /\ thread[c] = "looking"
  /\ patience[c] <= 0
  /\ thread' = [thread EXCEPT ![c] = "lost"]
  /\ patience' = [patience EXCEPT ![c] = 0]
  /\ UNCHANGED <<procVars, registry, listener, loopVars, stopVars>>

(* ApplicationLookupUnsuccessful: the address is taken from the command    *)
(* line, and without a port there is only a node in error to stand for     *)
(* the child.  Without a service nothing is looked up.                     *)
GiveUp(c) ==
  /\ phase[Parent[c]] = "looking" /\ thread[c] = "looking"
  /\ patience[c] <= 0 \/ ~service
  /\ \/ /\ c \in FixedPort
        /\ thread' = [thread EXCEPT ![c] = "toLive"]
        /\ patience' = [patience EXCEPT ![c] = IF c \in Segment THEN DescribeFor ELSE 0]
     \/ /\ c \notin FixedPort
        /\ thread' = [thread EXCEPT ![c] = "placeholder"]
        /\ patience' = [patience EXCEPT ![c] = 0]
  /\ UNCHANGED <<procVars, registry, listener, loopVars, stopVars>>

(* gRPCChildNode.__init__: the first describe that is answered. *)
Connect(c) ==
  /\ c \in Segment /\ phase[Parent[c]] = "looking"
  /\ thread[c] = "toLive" /\ Answers(c)
  /\ thread' = [thread EXCEPT ![c] = "live"]
  /\ patience' = [patience EXCEPT ![c] = 0]
  /\ UNCHANGED <<procVars, registry, listener, loopVars, stopVars>>

(* The 20th describe fails too: ServerUnreachable ends the thread, and     *)
(* the controller never hears of this child.                               *)
ConnectFails(c) ==
  /\ c \in Segment /\ phase[Parent[c]] = "looking"
  /\ thread[c] \in {"toLive", "toStale"} /\ patience[c] <= 0
  /\ ~(thread[c] = "toLive" /\ Answers(c))
  /\ thread' = [thread EXCEPT ![c] = "lost"]
  /\ patience' = [patience EXCEPT ![c] = 0]
  /\ UNCHANGED <<procVars, registry, listener, loopVars, stopVars>>
-----------------------------------------------------------------------------
(* RESTAPIChildNode.__init__: the first to come starts the listener that   *)
(* the others, held at its lock, will share.                               *)
StartListener(c) ==
  /\ c \in Application /\ phase[Parent[c]] = "looking"
  /\ thread[c] \in {"toLive", "toStale"}
  /\ listener[Parent[c]] = "none"
  /\ listener' = [listener EXCEPT ![Parent[c]] = "starting"]
  /\ UNCHANGED <<procVars, registry, thread, patience, loopVars, stopVars>>

(* The flask server answers, or its 21 tries are over: the exception ends  *)
(* the thread of the manager, ready is never set, and ResponseListener.get *)
(* waits for ever with its lock held.                                      *)
ListenerOutcome(s, up) ==
  /\ listener[s] = "starting" /\ phase[s] = "looking"
  /\ listener' = [listener EXCEPT ![s] = IF up THEN "ready" ELSE "broken"]
  /\ UNCHANGED <<procVars, registry, thread, patience, loopVars, stopVars>>

register(c) ==
  /\ c \in Application /\ phase[Parent[c]] = "looking"
  /\ thread[c] \in {"toLive", "toStale"}
  /\ listener[Parent[c]] = "ready"
  /\ thread' = [thread EXCEPT ![c] = IF @ = "toLive" THEN "live" ELSE "stale"]
  /\ UNCHANGED <<procVars, registry, patience, listener, loopVars, stopVars>>

(* The last t.join() of get_children. *)
JoinThreads(s) ==
  /\ phase[s] = "looking"
  /\ \A c \in Children(s) : thread[c] \notin Pending
  /\ phase' = [phase EXCEPT ![s] = "checking"]
  /\ todo' = [todo EXCEPT ![s] = children_nodes(s)]
  /\ UNCHANGED <<delay, crashes, signals, service, registry, lookVars, in_error, stopVars>>
-----------------------------------------------------------------------------
(* The two loops of Controller.__init__ over the children.                 *)

(* What the status of a child says; a REST child is pinged. *)
reports_error(c) ==
  \/ thread[c] = "placeholder"
  \/ c \in Application /\ ~(thread[c] = "live" /\ Answers(c))
  \/ c \in Segment /\ in_error[c]

IsController(c) == c \in Segment /\ thread[c] = "live"

Reachable(c) == IsController(c) => Answers(c)

(* A controller asked for its status asks its own children in turn, and if *)
(* one of them cannot be reached, or is just being let go, it answers with *)
(* an exception instead of a status.                                       *)
SomeUnreachable(c) == \E d \in children_nodes(c) : ~Reachable(d)
SomeLetGo(c) == ending[c] \in Releasing /\ \E d \in children_nodes(c) : IsController(d)

(* Fault: the controller answers for itself only, not for its children. *)
CheckOwnNodesOnly(s, c) ==
  /\ phase[s] = "checking" /\ c \in todo[s] /\ Reachable(c)
  /\ todo' = [todo EXCEPT ![s] = @ \ {c}]
  /\ in_error' = [in_error EXCEPT ![s] = @ \/ thread[c] = "placeholder"]
  /\ UNCHANGED <<procVars, registry, lookVars, stopVars>>

get_status(s, c) ==
  /\ phase[s] = "checking" /\ c \in todo[s]
  /\ Reachable(c) /\ (IsController(c) => ~SomeUnreachable(c))
  /\ todo' = [todo EXCEPT ![s] = @ \ {c}]
  /\ in_error' = [in_error EXCEPT ![s] = @ \/ reports_error(c)]
  /\ UNCHANGED <<procVars, registry, lookVars, stopVars>>

EndOfStatusLoop(s) ==
  /\ phase[s] = "checking" /\ todo[s] = {}
  /\ phase' = [phase EXCEPT ![s] = "taking"]
  /\ todo' = [todo EXCEPT ![s] = children_nodes(s)]
  /\ UNCHANGED <<delay, crashes, signals, service, registry, lookVars, in_error, stopVars>>

(* A client-side child ignores the command. *)
take_control(s, c) ==
  /\ phase[s] = "taking" /\ c \in todo[s] /\ Reachable(c)
  /\ todo' = [todo EXCEPT ![s] = @ \ {c}]
  /\ UNCHANGED <<procVars, registry, lookVars, in_error, stopVars>>

(* ServerUnreachable in either loop, or an answer that is not a status in  *)
(* the first, ends the constructor and the process.                        *)
LoopRaises(s, c) ==
  /\ phase[s] \in {"checking", "taking"} /\ c \in todo[s]
  /\ \/ ~Reachable(c)
     \/ /\ phase[s] = "checking" /\ IsController(c)
        /\ SomeUnreachable(c) \/ SomeLetGo(c)
  /\ Die(s)
  /\ UNCHANGED <<delay, crashes, signals, service, lookVars, loopVars, stopVars>>

(* The constructor is over, the handler of SIGINT is set, the server up. *)
serve(s) ==
  /\ phase[s] = "taking" /\ todo[s] = {}
  /\ phase' = [phase EXCEPT ![s] = "up"]
  /\ UNCHANGED <<delay, crashes, signals, service, registry, lookVars, loopVars, stopVars>>
-----------------------------------------------------------------------------
(* Advertising and terminating.  SIGINT runs shutdown in the main thread,  *)
(* which goes on with what it was doing when terminate() returns.          *)

MainGoesOn(s) == calls[s] = 0

advertise_control_address(s) ==
  /\ phase[s] = "up" /\ publisher[s] = "none" /\ MainGoesOn(s)
  /\ \/ /\ service
        /\ running' = [running EXCEPT ![s] = TRUE]
        /\ publisher' = [publisher EXCEPT ![s] = "created"]
        /\ phase' = phase
     \/ /\ ~service
        /\ phase' = [phase EXCEPT ![s] = "serving"]
        /\ UNCHANGED <<running, publisher>>
  /\ UNCHANGED <<delay, crashes, signals, service, registry, lookVars, loopVars, ending, calls>>

start_publisher(s) ==
  /\ phase[s] = "up" /\ publisher[s] = "created" /\ MainGoesOn(s)
  /\ phase' = [phase EXCEPT ![s] = "serving"]
  /\ publisher' = [publisher EXCEPT ![s] = "idle"]
  /\ UNCHANGED <<delay, crashes, signals, service, registry, lookVars, loopVars>>
  /\ UNCHANGED <<running, ending, calls>>

(* update_connectivity_service: the test of the loop, then the call. *)
TestRunning(s) ==
  /\ Answers(s) /\ publisher[s] = "idle"
  /\ running[s] => registry[s] # "current"
  /\ publisher' = [publisher EXCEPT ![s] = IF running[s] THEN "posting" ELSE "ended"]
  /\ UNCHANGED <<procVars, registry, lookVars, loopVars, running, ending, calls>>

(* The service is taken to be up: of the 50 tries one succeeds. *)
publish(s) ==
  /\ Answers(s) /\ publisher[s] = "posting"
  /\ publisher' = [publisher EXCEPT ![s] = "idle"]
  /\ registry' = [registry EXCEPT ![s] = "current"]
  /\ UNCHANGED <<procVars, lookVars, loopVars, running, ending, calls>>

(* Fault: the thread is not told to stop. *)
InterruptKeepsRunning(s) ==
  /\ s \in Signalled /\ Answers(s) /\ signals < MaxSignal
  /\ signals' = signals + 1
  /\ calls' = [calls EXCEPT ![s] = @ + 1]
  /\ ending' = [ending EXCEPT ![s] = "joining"]
  /\ UNCHANGED <<phase, delay, crashes, service, registry, lookVars, loopVars>>
  /\ UNCHANGED <<running, publisher>>

(* SIGINT, at any time, in the middle of terminate() too: shutdown is run  *)
(* again, inside the call it interrupts.                                   *)
Interrupt(s) ==
  /\ s \in Signalled /\ Answers(s) /\ signals < MaxSignal
  /\ signals' = signals + 1
  /\ calls' = [calls EXCEPT ![s] = @ + 1]
  /\ running' = [running EXCEPT ![s] = FALSE]
  /\ ending' = [ending EXCEPT ![s] = "joining"]
  /\ UNCHANGED <<phase, delay, crashes, service, registry, lookVars, loopVars, publisher>>

AfterJoin == IF service THEN "retracting" ELSE "releasing"

(* Fault: terminate() does not wait for the thread. *)
JoinSkipped(s) ==
  /\ Answers(s) /\ ending[s] = "joining"
  /\ ending' = [ending EXCEPT ![s] = AfterJoin]
  /\ UNCHANGED <<procVars, registry, lookVars, loopVars, running, publisher, calls>>

(* When running is set but the thread is not started yet, there may be no  *)
(* thread object to join, or one that cannot be joined (JoinRaises).       *)
JoinPublisher(s) ==
  /\ Answers(s) /\ ending[s] = "joining"
  /\ publisher[s] \in {"none", "created", "ended"}
  /\ ending' = [ending EXCEPT ![s] = AfterJoin]
  /\ UNCHANGED <<procVars, registry, lookVars, loopVars, running, publisher, calls>>

JoinRaises(s) ==
  /\ Answers(s) /\ ending[s] = "joining" /\ publisher[s] = "created"
  /\ Die(s)
  /\ UNCHANGED <<delay, crashes, signals, service, lookVars, loopVars, stopVars>>

(* The entry is removed, or 50 tries have failed. *)
retract(s, listed) ==
  /\ Answers(s) /\ ending[s] = "retracting"
  /\ registry' = [registry EXCEPT ![s] = IF listed THEN @ ELSE "absent"]
  /\ ending' = [ending EXCEPT ![s] = IF listed THEN "releasingListed" ELSE "releasing"]
  /\ UNCHANGED <<procVars, lookVars, loopVars, running, publisher, calls>>

(* ReadTimeout is not caught: terminate() is left, shutdown kills. *)
RetractRaises(s) ==
  /\ Answers(s) /\ ending[s] = "retracting"
  /\ Die(s)
  /\ UNCHANGED <<delay, crashes, signals, service, lookVars, loopVars, stopVars>>

(* The children are let go and the listener is stopped.  The process waits *)
(* on for its server to end, unless this was a call inside another, which  *)
(* goes over the same ground once more.                                    *)
release(s) ==
  /\ Answers(s) /\ ending[s] \in Releasing /\ listener[s] # "stopped"
  /\ thread' = [c \in Below |-> IF c \in children_nodes(s) THEN "released" ELSE thread[c]]
  /\ listener' = [listener EXCEPT ![s] = IF @ = "ready" THEN "stopped" ELSE @]
  /\ calls' = [calls EXCEPT ![s] = @ - 1]
  /\ ending' = [ending EXCEPT ![s] =
       IF calls[s] > 1 THEN "joining" ELSE IF @ = "releasing" THEN "ended" ELSE "endedListed"]
  /\ UNCHANGED <<procVars, registry, patience, loopVars, running, publisher>>

(* The process of the flask server is no more, be it that an earlier call  *)
(* of terminate() has ended it: psutil raises, shutdown kills.             *)
ReleaseRaises(s) ==
  /\ Answers(s) /\ ending[s] \in Releasing /\ listener[s] \in {"ready", "stopped"}
  /\ Die(s)
  /\ UNCHANGED <<delay, crashes, signals, service, lookVars, loopVars, stopVars>>
-----------------------------------------------------------------------------
StartUp(s) ==
  \/ get_children(s)
  \/ \E up \in BOOLEAN : ListenerOutcome(s, up)
  \/ JoinThreads(s)
  \/ \E c \in Children(s) : get_status(s, c) \/ take_control(s, c) \/ LoopRaises(s, c)
  \/ EndOfStatusLoop(s)
  \/ serve(s)
  \/ advertise_control_address(s)
  \/ start_publisher(s)
  \/ TestRunning(s)
  \/ publish(s)

Lookup(c) ==
  \/ Resolve(c)
  \/ GiveUp(c)
  \/ Connect(c)
  \/ ConnectFails(c)
  \/ StartListener(c)
  \/ register(c)

Terminate(s) ==
  \/ JoinPublisher(s)
  \/ JoinRaises(s)
  \/ \E listed \in BOOLEAN : retract(s, listed)
  \/ RetractRaises(s)
  \/ release(s)
  \/ ReleaseRaises(s)

Next ==
  \/ \E s \in Segment : StartUp(s) \/ Interrupt(s) \/ Terminate(s)
  \/ \E c \in Below : Lookup(c)
  \/ \E a \in Application : StartApplication(a)
  \/ \E n \in Name : Crash(n) \/ Expire(n)
  \/ Tick

(* Every thread of a controller is scheduled and time passes; nothing is   *)
(* assumed of signals, of deaths, of the applications or of the service.   *)
Fairness ==
  /\ \A s \in Segment : WF_vars(StartUp(s)) /\ WF_vars(Terminate(s))
  /\ \A c \in Below : WF_vars(Lookup(c))
  /\ WF_vars(Tick)

Spec == Init /\ [][Next]_vars /\ Fairness
-----------------------------------------------------------------------------
TypeOK ==
  /\ phase \in [Name -> Phase]
  /\ delay \in [Segment -> 0..Skew]
  /\ crashes \in 0..MaxCrash /\ signals \in 0..MaxSignal
  /\ service \in BOOLEAN
  /\ registry \in [Name -> Entry]
  /\ thread \in [Below -> Thread]
  /\ patience \in [Below -> Int]
  /\ \A c \in Below : patience[c] >= -Over
  /\ listener \in [Segment -> Listener]
  /\ todo \in [Segment -> SUBSET Below]
  /\ in_error \in [Segment -> BOOLEAN]
  /\ running \in [Segment -> BOOLEAN]
  /\ publisher \in [Segment -> Publisher]
  /\ ending \in [Segment -> Ending]
  /\ calls \in [Segment -> 0..MaxSignal]

(* A controller that serves and is not in error has under it no child it   *)
(* could not find, and no controller that is in error: what went wrong     *)
(* anywhere below while the session came up is seen at the top, because a  *)
(* controller advertises itself only once it knows its own status.         *)
(* (Controller.__init__ 143-150, run before serve and advertise.)          *)
ErrorClimbs ==
  \A s \in Segment : Answers(s) /\ ~in_error[s] =>
    \A c \in Children(s) :
      /\ thread[c] # "placeholder"
      /\ c \in Segment /\ thread[c] = "live" => ~in_error[c]

(* A child is missing from its parent's list without a trace only if its   *)
(* process died: one that is merely late is there, in error.  (The death   *)
(* of the look-up thread in get_children, and the node in error that       *)
(* get_child makes for a child it cannot talk to; for a child whose port   *)
(* is on its command line get_child makes none and insists on that port.)  *)
OnlyTheDeadAreLost ==
  \A c \in Below : thread[c] = "lost" => phase[c] = "dead" \/ c \in FixedPort

(* A parent waits long enough for a controller below it: if the session    *)
(* has a connectivity service and no controller died, was interrupted or   *)
(* hangs on its listener, none was given up by its parent, however many    *)
(* applications never came up.                                             *)
(* (get_segment_lookup_timeout: it grows with the depth of the tree.)      *)
ParentsArePatient ==
  service /\ (\A s \in Segment :
               phase[s] # "dead" /\ ending[s] = "no" /\ listener[s] # "broken")
    => \A c \in Below \cap Segment : thread[c] # "placeholder"

(* Once terminate() has retracted the address of a controller and told its *)
(* thread to stop, the address is never listed again.  (The join of the    *)
(* thread in terminate.)  A controller interrupted before it advertised    *)
(* itself is running again and does list itself.                           *)
RetractedStaysOut ==
  \A s \in Segment :
    ending[s] \in {"releasing", "ended"} /\ ~running[s] => registry[s] # "current"

(* A controller that starts ends up serving or dead, whatever its children *)
(* do, unless its listener never comes up.                                 *)
StartUpEnds ==
  \A s \in Segment :
    phase[s] = "looking" ~> (phase[s] \in {"serving", "dead"} \/ listener[s] = "broken")

(* A controller that was interrupted, at whatever moment after its server  *)
(* is up and again while it terminates, lets go of its address and of its  *)
(* children and comes to the end of terminate(), or dies: it does not wait *)
(* for ever for the thread that advertises it.  (terminate, the loop of    *)
(* update_connectivity_service, shutdown.)                                 *)
TerminationEnds ==
  \A s \in Segment :
    calls[s] > 0 ~> calls[s] = 0 \/ phase[s] = "dead"
=============================================================================
