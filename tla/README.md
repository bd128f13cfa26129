# drunc in TLA+

TLA+ modules, TLC configurations and TLAPS proofs about drunc, the run control
of the DUNE data acquisition (`src/src/drunc`). File and line references are to
`src/src/drunc/` unless they start with `docs/` (`src/docs/`).

## 1. The system

A *session* of the data acquisition is a tree. Its inner nodes are
**controllers**, each a process with a gRPC server; its leaves are the **DAQ
applications**, which their controller drives through REST. A **process
manager** starts all these processes; users give commands from **shells**.

| component | code | state | operations | made correct by |
|---|---|---|---|---|
| FSM core | `fsm/core.py`, `fsm/configuration.py` | none (tables) | can a transition be taken, where does it lead; run the callbacks before and after it | transitions only from their source states; a mandatory callback that fails stops the transition |
| FSM actions | `fsm/actions/` | a few attributes of each action object: run number, logbook thread | the callbacks `pre_*` and `post_*` of transitions | no run unrecorded; what is reported at the end of a run is about this run |
| Stateful node | `controller/stateful_node.py` | operational state, sub-state, included, in_error | the six steps of a transition; include, exclude, to_error | state and sub-state agree at each step; a failed callback never passes for success |
| Controller | `controller/controller.py`, `controller/decorators.py` | the node, the actor in control, the list of children | `execute_fsm_command`, `include`, `exclude`, `take_control`, `surrender_control`; `status`, `describe*`, `who_is_in_charge`; start up, advertise, terminate | children and parent in step or visibly out of service; changes only for whoever is in control; truthful responses; every call answered |
| gRPC child | `controller/children_interface/grpc_child.py`, `controller/utils.py` | a channel | pass a command on, no deadline | an answer or an exception |
| REST child | `client_side_child.py`, `rest_api_child.py` | what the parent believes of the application; a queue of replies shared by all applications, a dispatcher thread | send a command, wait at most 150 s for the reply | the belief never runs ahead of the application |
| Children look-up | `controller/configuration.py`, `child_node.py` | the list of children | one thread per child looks it up and connects | no child lost silently; parents wait longer than their children |
| SSH process manager | `process_manager/process_manager.py`, `ssh_process_manager.py` | boot requests and process handles, by uuid | boot, restart, kill, terminate, flush, ps, logs | no process runs untracked; reports are true; restart restarts |
| Kubernetes process manager | `k8s_process_manager.py` | in the cluster | the same | (cannot be instantiated, see 5) |
| Process manager driver, OKS parser | `process_manager_driver.py`, `oks_parser.py` | the address of the root controller | configuration to boot requests; look the root controller up | the address is that of this boot |
| Connectivity service client | `connectivity_service/client.py` | none (external registry) | publish, retract, resolve with 50 attempts | registered while alive; shutdown not stopped by a failed retract |
| Flask manager | `utils/flask_manager.py` | ready, joined | start, stop | ready or failed, never waited for in vain |
| Shells | `unified_shell/`, `controller/interface/`, `process_manager/interface/` | drivers, tokens, a process manager of their own | the users' commands | back at the prompt whatever dies; connected to the controller that was meant |
| Broadcast, session manager, authoriser | `broadcast/`, `session_manager/`, `authoriser/` | none that matters | notifications; a fixed description; always yes | - |

**Interaction.** A shell calls the root controller through gRPC. Each handler is
wrapped (outermost first) by `broadcasted`, which turns exceptions into
responses, `authentified_and_authorised` (allows everything), `in_control`,
which compares the token of the request with the actor, and
`unpack_request_data_to`. A handler that concerns the children calls
`propagate_to_list`: a thread for each child, all joined before the handler goes
on. A gRPC child is the server of another controller; a REST child keeps the
state of an application on the side of its parent.

**What is hard.** Servers are single-threaded and calls have no deadline, so
waiting chains through the tree; several shells may be connected, to several
controllers; children fail one by one, in four different ways (response flag,
FSM flag, exception, dead server) that the parent must all notice; callbacks of
FSM actions raise half way through a transition; the state of an application is
only believed; the process manager serves commands from a pool of threads over
two unprotected dictionaries. Coming up is distributed too: each controller waits
for those below it with a time out, a thread for each child, and lists itself in the
connectivity service only when it knows its own status; signals, deaths and
stale entries may fall anywhere in between. FSM actions and shells keep values from one
command to a later one, over failures. `PROJECT.json` lists each hazard at its line.

## 2. Modules

| module | models |
|---|---|
| `FSM` | `fsm/core.py`: a machine as constants `State`, `Transition`, `Source`, `Destination`, `InitialState`, and the tests on it |
| `StatefulNode` | `controller/stateful_node.py`, extends `FSM`; specification `NodeSpec` |
| `RunControlFSM` | the abstract promise of a set of nodes: in one step a node that is not in error takes one transition of the machine |
| `Controller` | the tree of controllers, extends `StatefulNode`; specifications `Spec`, `FairSpec` |
| `SSHProcessManager` | the process manager and its concurrent commands |
| `ManagerHistory` | `SSHProcessManager` with history variables, and its properties; specifications `HSpec`, `HFairSpec` |
| `RestChild` | a controller and its DAQ applications: commands, replies, the listener and the applications themselves; extends `FSM`; specifications `Spec`, `FairSpec` |
| `ControllerLife` | how the controllers of a session come up and go down: look-up of the children, connection, status, advertising, termination; with fairness |
| `FSMActions` | the sequences of callbacks around a transition, and every FSM action; extends `FSM`, implements `StatefulNode` |
| `Shells` | unified and controller shells: process manager, boot, look-up of the root, connection, commands, end; with fairness |
| `MCController`, `MCSSHProcessManager`, `MCRestChild`, `MCControllerLife`, `MCFSMActions`, `MCShells` | small instances for TLC |
| `StatefulNode_proofs`, `Controller_proofs`, `ControllerInStep_proofs`, `ControllerLife_proofs`, `SSHProcessManager_proofs`, `RestChild_proofs`, `FSMActions_proofs`, `Shells_proofs` | theorems |

Operators named `X_something` after an operator `X`, each with a comment that
starts with *Fault*, are faulty variants of `X`: replacing `X` by the variant
must make the property violated that `PROJECT.json` pairs with it, which shows
that the property depends on the code doing what `X` says.

**StatefulNode.** The sub-state strings of the code (`preparing-conf`,
`propagating-conf`, ..., or the name of the state) are pairs: `<<"state", s>>`
or `<<stage, transition>>`. Each `*_transition_mark` is an action.
`prepare_transition` and `finalise_transition` call the callbacks of the FSM
actions; their parameter `ok` says whether they return or raise.

**Controller.** `call[x]` is the call in flight of `x`: a user, or the thread in
which a parent passes a command to its child `x`. `worker[c]` is the one worker
of the gRPC server of `c` (`interface/controller.py:55`): where its handler is and
whom it serves. A request waits as `"sent"` until `Accept` or `NotInControl`
takes it. Handlers are split at the points where another process can tell: the
propagation (`Propagate`, `PropagateInclusion`, `TakeControl`), the join
(`Collect`, `TookControl`, `Include`, `Exclude`) and the marks of a transition.
`rest[a]` is the `ClientSideState` of application `a`, held by its parent;
`RestFail` stands for every way a command to an application goes wrong (the
application refuses, the POST fails, no reply in time, no exit state).
`Crash(c)` kills a controller for good (`kill_me`, a signal, its host);
`Unreachable` is the gRPC error its callers get. A response keeps its two flags
and `clean`, whether all the nested responses say success too.
`Init` is the tree after a successful start: the children connected, the
initial token in control of everyone. `ClientInitial` is the state in which
`client_side_child.py:16` lets every application begin: the code says "initial",
whatever the machine of the configuration begins with, so that `ClientAssumption`
asks of the configuration that they be the same.

**SSHProcessManager.** `boot_request` and `process_store` are the dictionaries;
`thread[t]` is the command that a server thread runs and its place in it. Every
access that another thread could fall between is an action of its own; a
`KeyError` is an answer `"exception"`. The scan of `_get_process_uid` is one
step that may also raise while other threads are busy (a dictionary that changes
size during the iteration; an over-approximation of when it does).
The start of a process
and that of its watcher are two steps (`Start`, `Watch`): a process that is killed in
between counts as a host that failed, and the next host is tried.
`process[p]` is an ssh process: `"stopping"` is one that got SIGTERM or SIGQUIT
and may ignore it. A signal to a process that has just ended raises
`ProcessLookupError` (`SignalRaises`). Any client may give any command at any time;
`Issued` narrows this for a run. `ManagerHistory` adds what the properties need to
remember: the uuid for which each process was started (`owner`), the uuids that were
`flushed`, and those `overtaken`: a process was started for them over one that was
stored, or while another command was about to delete what it had looked at earlier. An
overtaken uuid is what the code gets wrong (`MCKillRace`): the properties say that
nothing else is ever lost, or reported dead while it runs.

**RestChild.** What `Controller` sees as `RestExecute` and `RestFail`, in full.
`parent` is the controller reduced to what matters to its applications: its
state, the transition being propagated, and `failed`, which stands for the error
flag and for the stuck sub-state after a raising callback (either way no transition is
passed on any more). `thread[a]` is the thread of `propagate_to_list` that runs
`propagate_fsm_command` for `a`; `child[a]` is the `ClientSideState`. `queue` is
the one queue between the web server and the dispatcher thread, `response_queue[a]`
that of the `AppCommander`. `application[a]` follows `AppState` of the fake
application, the only description of the other side that the repository has; `request[a]` is
a command that has arrived there. A POST is acknowledged, or not acknowledged in
time though it arrives, or does not arrive; a reply arrives or is lost; an
application dies at any moment, and those in `Restartable` are started again. A
reply does not name its command: its field `cmd` is for the properties only.
`sent_cmd` of the commander is left out, as the code only logs it, and inclusion
is left to `Controller`: propagation does not look at it. `ClientInitial` is as in `Controller`.

**ControllerLife.** `phase[s]` is how far the constructor of the controller of
segment `s` and `main` after it are: `"looking"` is `get_children`, `"checking"`
and `"taking"` its two loops (`status`, `take_control`), `"up"` a server that answers,
`"serving"` one that advertises itself. `thread[c]` is the look-up thread of
child `c` in its parent, and after it what `children_nodes` holds of it: a
`"live"` or a `"stale"` node (made from an entry of a process that is dead), a
`"placeholder"` (the node in error that `get_child` makes), or nothing, `"lost"`.
`patience[c]` counts down the time-out of `resolve`, then that of `describe`.
`registry` is the connectivity service: an entry of a dead process is `"stale"`
until it expires. `listener[s]` is the `ResponseListener` of the process and its
Flask manager; `publisher[s]` the thread of `advertise_control_address`;
`ending[s]` the place in `terminate`. The children and the listener are let go of in
one step (`release`), which raises when the process of the listener is gone already
(`ReleaseRaises`). A second SIGINT runs `terminate` inside the first call: `calls` counts them, and the
call that is resumed is taken to go over `terminate` from its top again. `service` says
whether the session has a connectivity service; without one a look-up goes straight to the command
line and nothing is advertised. The status of a child is that of its own children too, and is an
exception when one of them cannot be reached (`SomeUnreachable`, `SomeLetGo`). Everything that is due happens before
`Tick` (`Due`), so that the model can say "soon enough" without counting small
steps: the time-outs are in proportion to those of the code, and what takes a
computer much less than a unit takes no time.

**FSMActions.** `StatefulNode` takes a sequence of callbacks as one step with an
outcome; here `at` is the place in it, and `returns` and `raises` are the two
branches of the loop in `PreOrPostTransitionSequence.execute`. An exception that is not a
`DruncException` ends the sequence whatever the configuration says of the
callback. `data` is the run number in the dictionary handed from one callback to the
next. The functions of the configuration (`fill_pre_post_transition_sequence`,
`get_arguments`) are operators. Data of a command that cannot be read end the sequence before a transition at its start; after it the data are what callbacks wrote. `told`, `stops`, `replies` and `recorded` are what the outside has
seen: the children, the registries, the logbook. `seen_sub_state` is the refinement
mapping: a sequence that is being executed has not begun for `StatefulNode`.

**Shells.** `prompt[u]` is what shell `u` is doing; `controller_address[u]` is the attribute of
the process manager driver, `controller[u]` that of the controller driver,
`found[u]` what the last look-up or the user really gave. `home[u]` is where an
exception takes the shell: back to its prompt, or, before `controller_setup` is over in a
controller shell, to its end. `session[u]` is how the root of the session is found: listed in the connectivity
service, on a port its command line fixes, or neither. A prompt of a controller is there only once its
commands are learnt from it (`learn_commands`). Root controllers are numbered by boot, except on a fixed port; how they
live is left to `ControllerLife` and `Controller`.

## 3. Runs

| run | instance | question |
|---|---|---|
| `MCControllerRoot` | root and a segment below it, an application each, two users at the root, the segment may die and its actions may raise | is everything healthy in step (`RestInStep`, `ControllersInStep`), inclusion and control consistent over the tree, is a clean response true (`HonestReport`); do state, sub-state and handler of every node agree |
| `MCControllerLive` | the same two controllers, one application, one user at each controller, few commands, a segment whose actions raise, crashes, fairness | is a raised callback final (`RaisedIsFinal`: one of the users commands the stuck segment itself); what survives without a single entry: the refinement `ImplementsRunControl`; every command is answered |
| `MCRestChild` | one controller, two applications (one of them may be started again), one stranger that posts replies, a machine of two states and three transitions | what is believed of a healthy application is true, a reply is taken for its own command, every propagation ends, the children implement the abstract run control |
| `MCSSHProcessManager` | two clients that give every command, restart included, one uuid, three processes | no process untracked and no wrong report but for overtaken uuids, flushed is gone, every command answered |
| `MCControllerLife` | three controllers in a line, an application with a fixed port beside the lowest, a disabled one, with and without a connectivity service; one process dies; two signals at any moment to the middle controller | is every failure below seen at the top (`ErrorClimbs`), is a child lost only if it died (`OnlyTheDeadAreLost`), do parents wait long enough (`ParentsArePatient`), is a retracted address never listed again (`RetractedStaysOut`), do start up and termination end (`StartUpEnds`, `TerminationEnds`) |
| `MCFSMActions` | the transitions of `docs/FSM.md` that go through a run, all actions of the repository, two run numbers, every callback failing in every way | is every run that the children were told recorded (`RunIsRecorded`), are stop times and logbook replies of this run, do the callbacks implement `StatefulNode` |
| `MCShells` | a unified shell with its own process manager, a controller shell, two boots, the three ways to find a root, controllers and managers that die | whom a shell connects to (`BootConnectsToFound`), does it always come back (`ShellReturns`) |

Five more runs show a disagreement, each with one property that states what the
documentation or the code itself says and a counterexample of what the code does:

* `MCSurrenderReachesChildren`: surrendering the root leaves the children under
  the control of the user; the handler always takes its failure path
  (`controller.py:61`, `782`; docs/Controller-interface.md:196).
* `MCKillRace`: a kill that overlaps a restart forgets the new process and leaves
  it running (`ssh_process_manager.py:121`; docs/Process-manager-interface.md:217).
* `MCRestartDead`: the restart of a process that was killed boots nothing, as it
  deletes from the process store what is not there and raises `KeyError`
  (`ssh_process_manager.py:403`; docs/Process-manager-interface.md:208). By this very
  line what was flushed cannot be restarted (`FlushedNotRestarted`).
* `MCRestartAlive`: the restart of a process that runs sends SIGTERM and boots the next one
  without waiting, or killing, so that both may run
  (`ssh_process_manager.py:401`; docs/Process-manager-interface.md:208).
* `MCStrayReply`: the warning about a reply of an unregistered application
  (`rest_api_child.py:168`) raises `AttributeError`, as `ResponseListener` has no
  `log`; the dispatcher thread ends and no reply is delivered any more, where the
  code means to return and go on (`169`). Any POST to the listener with a name that is
  not registered does it.

The models follow the code in further places where it and its documentation
differ, which no run is spent on: control is taken from whoever has it
(`controller.py:64`; docs/Controller-interface.md:193); a transition that is not
possible is answered with an exception instead of `FSM_INVALID_TRANSITION`, as the line
that logs it calls a method that does not exist (`controller.py:585`;
docs/Controller-interface.md:114); a controller shell never surrenders
control when it leaves, as it compares its user with a `PlainText` message
(`controller_cleanup` of `Shells`); `FSMActions` has `KeyError`s wherever a callback
needs a run number that an optional callback before it failed to get.

**Bounds.** Two levels of controllers are enough for each relation the
properties speak of (a controller with its parent, its applications, its users),
and `propagate_to_list` treats all children alike; in `MCControllerRoot` the root has
children of both kinds. Two users are needed for competition over control and
for queueing. A machine of two states and a transition each way has valid and
invalid transitions in each state. The runs vary which controllers may raise
(`Acting`) and die (`Mortal`), and which commands users give (`Issued`), to keep
each below a few minutes. Users are interchangeable in `MCControllerRoot`
(symmetry), which checks safety only. `MCSSHProcessManager` has one
uuid, as commands treat their uuids one after the other and each place of `thread` names one,
and three processes: one that is stored, one that a restart or another boot adds, and one more host.
Two clients give every pair of commands in every interleaving; what three of them may do
is left to the theorems, which hold for any number of clients, uuids and processes.
In `MCRestChild` two applications share the queue and the dispatcher; `MaxQueue` = 2 bounds
the replies of the stranger only, one of which is enough to end the dispatcher.
The replies of an application are bounded by the protocol itself: a child in
error is never sent a command again, as its parent is in error too.
In `MCControllerLife` a unit is 12 s: the 60 s of a look-up are `Base` = 5, the last
call to `resolve`, which may begin just before the time-out, `Over` = 3, and the 20
calls to `describe` `DescribeFor` = 8. `Skew` = 1 lets a segment start up to
a unit after another; it may go up to `Base - Over - 1`, and from there on a parent may give up
a controller that is only late (section 4). One death
(`MaxCrash` = 1) at any moment, of the lowest controller or of its application, shows each way a
child is lost and how the loss climbs past a controller that is itself a child. Two signals
(`MaxSignal`) to the middle one (`Signalled`) fall one inside the other. Three levels make
`depth` differ and give a controller a status that depends on a grandchild; the child with a port on its command line takes the other branch of
`get_child`, the disabled one is skipped.
`MaxRun` = 2 in `MCFSMActions` gives an earlier run to be mistaken for this one,
and `Incoming` = {0} says that commands do not bring a run number in their data
themselves, which nothing in drunc does. `MaxBoot` = 2 in `MCShells` gives an earlier address to be
mistaken for this one.

**Where the system may stop** (`CHECK_DEADLOCK FALSE`). A node whose callback raised, and
one in error, take no further transition; a machine may have a final state; sessions and shells
end; boots, run numbers and deaths are bounded.

**Fairness** (`FairSpec`). *Controller*: weak fairness of each worker
thread (Python threads run on), of the REST children (their wait for a reply has
a time out) and of the failure of calls to dead servers; strong
fairness of the acceptance of each request, as the executor of the server is a
FIFO queue, so that a request is not overtaken for ever though the worker is
busy now and then. Users are not fair, and nothing has to crash. That calls to a dead server
fail takes that its end of the connection is closed, as it is when a process dies; a host that
vanishes silently is noticed by nobody, as calls have no deadline, and is not covered.
*SSHProcessManager* (`HFairSpec`): weak fairness of each thread; no process has to exit.
*RestChild*: weak fairness of the threads of the controller, whose waits are
bounded (a second for the POST, 150 for the reply); none of the applications,
the network or the dispatcher thread, which may die.
*ControllerLife* (`Spec`): weak fairness of the threads of each controller and of
time; none of signals, deaths, applications or the expiry of entries. `StartUpEnds`
excepts a controller whose listener never answers: `ResponseListener.get`
waits for it without end (`flask_manager.py:123`).
*Shells* (`Spec`): weak fairness of what a shell does by itself, as each of its waits has
a time-out or is for an answer that servers give while they live; none of users
and processes. That a command is answered (`command_answered`) is a fairness of its own: it is what
`EveryCallAnswered` of `Controller` says, under the fairness there. One thing is excepted: the shell
that gave up a process manager it had started waits for a process that nobody stops
(`unified_shell/shell.py:69`).

## 4. Proofs

For every value of the constants that the `ASSUME`s allow (every instance meets them, TLC
evaluates them in each run). Two of them say that the configuration is a tree:
`RootedAssumption` of `Controller`, that parents go up to the root, and
`NestingAssumption` of `ControllerLife`, that segments contain segments down to some
that contain none. A third, `ClientAssumption`, is the one above on the first state of
applications. The recursions over the
segments (`recurse_segment`, `controller/utils.py:96`; `collect_apps`, `oks_parser.py:34`) would
not end otherwise.


* `StatefulNode_proofs`: `NodeSafety`, `StateChangesFollowTransitions`,
  `RaisedCallbackIsFinal`. The inductive invariant is `NodeTypeOK /\ SubStateAgrees`.
* `Controller_proofs`: `TypeCorrect`, `AcceptedCommandsAreServed`,
  `TransitionsAreServed` (a node is between two states only while its worker is at the
  matching place of a handler of that very transition),
  `OnlyInControlTheorem`, `TreeImplementsRunControl`. `ServedIsWorkedOn` is not
  inductive: the strengthening `TreeInv` adds that calls are routed to where they
  say (`Routed`), that the lines to the children are free unless their parent
  waits (`LinesFreeUnlessWaiting`), that only live processes work (`WorkersAlive`) and that a
  child that is asked for a transition is asked for one of the machine
  (`ChildrenGetTransitions`). `OnlyInControl` needs, besides, that the token of a
  command that was let in still is the actor's at each later step, which is true
  as the one worker of the controller is busy with that command;
  `TreeImplementsRunControl` needs that a node in the middle of a transition is
  not in error.
* `ControllerInStep_proofs`, on top of `TreeInv`: `ApplicationsInStep`,
  `InclusionReachesApplications`, and `ControllersStayInStep`, which assumes that users
  send commands to the root only (a user at a segment may move it alone, as
  `MCControllerLive` lets them). The invariants `ApplicationsFollow` and `ControllersFollow` say of
  a controller and one child of it, for each place the parent's worker may be at, what the
  line between them carries and what state the child is in: still the one the parent leaves,
  until the child answers; the one it goes to, once the answer is a success. The line
  is used by that worker only, so that nothing else moves the child; `AtRoot`
  adds for controllers that no user is on the line of one.
  `ControlReachesTheTree`, under the same assumption, rests on `ActorsAgree`, which says of
  a controller and its parent that they have one actor, unless the parent is at
  work on `take_control`, where the child has the new one as soon as it
  answers. A controller is then tied to each of its ancestors, by induction over the tree:
  the controllers that are not have, by `RootedAssumption`, one whose parent is not among them.
  `CleanReportsAreTrue` speaks of whole subtrees, too: a clean answer to a
  transition tells the truth about everything below. `ReportsHold` says it of each answer
  on its way up: from the moment a child has answered to the end of its parent's
  handler, all that is below the child has made the transition and remains so, as nothing below
  moves while nobody sends to it (`AllDoneStays`). `ConcludeSpeaks` passes it on: what a
  controller answers is clean only if each answer it collected was. `HonestInv` adds
  what makes this inductive: a clean response is a success (`CleanIsSuccess`), the flags a
  handler keeps are those of the answers it collected (`Sound`), and the lines
  below a waiting parent bear its own command (`Bears`).
* `SSHProcessManager_proofs`: `TypeCorrect`, `KeptAreBooted`, `NoneRunsUnseen`,
  `ReportedDeadIsDead`, `FlushedStaysFlushed`, for any number of clients and any interleaving of their
  commands, restarts included. `TypeOK` is not inductive on its own: `Shape`
  adds that a thread has chosen what its stage works on. `KeptAreBooted` needs that a command
  about to start a process has a boot request for it, or another thread is rebooting that uuid
  (`NeededIsBooted`). `NoneRunsUnseen` and `ReportedDeadIsDead` rest on `StoreInv`: what is
  stored for a uuid was started for it, and of what each command holds in its hands (`Knows`), a process
  that a kill is about to stop was started and is what the store has for its uuid, if it
  has any, unless the uuid was overtaken. `FlushedStaysFlushed` rests on `FlushedIsGivenUp`: a
  uuid that was flushed, with no boot of it on its way, keeps its request, and no command gets
  as far as to start a process for it.
* `RestChild_proofs`: `TypeCorrect`, `ApplicationsImplementRunControl`,
  `BeliefTheorem`, `OwnReplyTheorem`. The inductive invariant has three parts.
  `Shape`: an application that is busy has a command and a thread that works has a
  transition. `InStep`: the parent, while
  it has not failed, and its healthy children are in one state, and their threads
  where the propagation is. `OnItsWay`: between a healthy application and its
  child there is nothing when the child does not wait, and otherwise the command,
  or its execution, or at most one reply in the two queues, which answers that
  very command. This is why a late reply is never taken for another one: the time
  out puts the child, and so its parent, in error before the next command.
* `ControllerLife_proofs`: `NoneLostAlive`, `ErrorsClimb`, `RetractedForGood`,
  `ParentsWaitLongEnough`, over the types (`Kinds`). `Truth` is what makes `OnlyTheDeadAreLost` inductive: an entry of
  the registry is current only for a process that answers and stale only for a dead
  one (`ListedTruly`), and what a look-up thread found is true in the same sense at
  each point of its way (`FoundTruly`), as answering ends in death only.
  `Climbed` strengthens `ErrorClimbs` to the constructor: of the children whose
  status it has read, the controller knows what is wrong. It needs `Truth` (a child
  whose status is read is past its own constructor) and is
  local to a parent and its child: no induction over the tree. `Withdrawn` adds to
  `RetractedStaysOut` that past its join the thread does not post.
  `Nested`, which says that calls of `terminate` are in progress as its stage tells, and no more of
  them than signals were sent, bounds them for `TypeCorrect`, which needs besides that the time-outs of the look-ups are natural numbers, which a recursion
  over the tree computes: a definition by `CHOOSE` of which `DepthExists`
  shows, from `NestingAssumption`, that there is such a function.
  `ParentsWaitLongEnough` holds if processes are started within the time a look-up
  allows at the lowest level, its last call to `resolve` left aside (`Skew + Over < Base`);
  with `Skew + Over = Base` TLC finds it violated. The time that went by is no variable: `Timely` says
  that there is a number of units which explains every count (`Clock`), as
  every look-up began within the first `Skew` of them and counts since, such that past
  `Skew + Base + Over` nobody looks for a controller any more, unless
  something is wrong elsewhere (`Prompt`). A parent that gives a controller up has
  waited for at least twice `Base` (`DepthGrows`), which is more, at whatever depth.
* `FSMActions_proofs`: `TypeCorrect`, and `CallbacksAreNode`, the refinement of
  `StatefulNode` for every machine and every configuration of the sequences. A
  callback maps to a stutter, or, when it ends its sequence by an exception, to the failure of the
  whole sequence; the end of the sequence maps to its success. The invariant `MayStillLeave`
  is what the mapping needs: while the callbacks before a
  transition run, the node is in a state the transition may leave.
  `RunsAreRecorded` and `StopTimesAreOfTheRun` assume `NumbersFirst`: before `start` no
  callback gives a run number after one that calls a registry. The configuration
  decides on it: the order is that of the actions in it. In the other order the registry is
  given a number of no run, or of the last one. Their invariants (`RecordInv`, `NumberInv`) go along the
  sequence: up to the place it has come to, each mandatory registry has the number in hand.
  `RepliesAreToTheRun` needs no hypothesis; `LogbookInv` says that the message to reply to is
  of the current run as soon as the logbook's callback of this run was called.
* `Shells_proofs`: `TypeCorrect`, and `ConnectsToFound` from `Held`: from the end of its
  look-up to the moment the shell connects, the address the driver holds is the one
  that was found. It says nothing of a boot that was cut short or interrupted: there no look-up was
  made, and the shell does connect to the address of an earlier boot.

Every safety property that a passing run checks is thus proved, under the hypotheses
named. Left to TLC is liveness, with the enabledness that fairness speaks of: `EveryCallAnswered`,
`EveryRequestAnswered`, `PropagationEnds`, `StartUpEnds`, `TerminationEnds` and
`ShellReturns`, all out of the prover's reach.

## 5. Not modelled

* The Kubernetes process manager: it defines `_terminate` where its abstract base
  class asks for `_terminate_impl` (`process_manager.py:187`), so no object of it can
  be made, and docs/Process-manager.md:10 calls it not working; its state would be the cluster's.
* Broadcasts and logging: nothing changes state because of one. (The constructor of
  the gRPC sender may raise; a controller whose sender does ends in its constructor,
  which is a `Crash` of `ControllerLife`.)
* The session manager, which answers a fixed description, and the authoriser, which
  allows everything.
* The conversion of configuration databases to boot requests (`oks_parser.py`): data
  conversion against a library that is not in the repository.
* Of the connectivity service client: a `publish` of which all 50 tries fail, and the
  name taken as a regular expression by `resolve`, which may find two controllers.
* The commands that only read (`status`, `describe`, `describe_fsm`,
  `who_is_in_charge`, `ps`, `logs`).
* The death of the process manager in `SSHProcessManager`: nothing is persisted, and its
  processes are set to die with it. `Shells` has it, as seen by a shell.
* Time in `FSMActions`: the ssh commands of thread pinning have no time-out, so that a
  callback may never return; no property speaks of progress there.
* In `ControllerLife`, a second signal that falls while the first call of `terminate` holds the lock of
  `ResponseListener` (`rest_api_child.py:59`): the nested call would wait for a lock that its own thread
  holds. `release` is one step, so this hang is not seen; `TerminationEnds` does not speak of it.
* In `Shells`, a Ctrl-C while the requests of a boot are sent, and the commands of the process
  manager other than boot.

## 6. Plan

1. Composition of `ControllerLife` with `Controller`: today the one ends where the `Init` of
   the other begins, a tree whose children are connected and not in error.
2. The two outcomes of the connectivity service client named above.
