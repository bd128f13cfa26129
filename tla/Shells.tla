------------------------------ MODULE Shells ------------------------------
(***************************************************************************)
(* The shells: a unified shell starts a process manager of its own, or is  *)
(* given the address of one, boots sessions with it, looks the root        *)
(* controller up, connects to it and takes control; a controller shell is  *)
(* given the address of a root controller.  Both then send it commands     *)
(* until they are closed.                                                  *)
(*                                                                         *)
(* The address of a root controller is a number, a new one for every boot  *)
(* unless the session fixes its port.  What a controller does with a       *)
(* command, how it dies and how it is listed in the connectivity service   *)
(* are modelled elsewhere: here it answers while it lives.                 *)
(***************************************************************************)
EXTENDS Integers, FiniteSets

CONSTANTS
  Shell,            \* the shells, each with a user of its own
  Spawning,         \* those that start a process manager
  ControllerShell,  \* those that are given the address of a controller
  MaxBoot           \* bound on the root controllers

ASSUME ShellsAssumption ==
  /\ Spawning \subseteq Shell /\ ControllerShell \subseteq Shell \ Spawning
  /\ MaxBoot \in Nat

Nowhere == 0      \* the empty address
CutShort == -1    \* the boot ended without looking the controller up
Controller == 1..MaxBoot

VARIABLES
  prompt,              \* [Shell -> Prompt]: what each shell is doing
  home,                \* [Shell -> Prompt]: where an exception takes it
  manager,             \* [Shell -> Manager]: its process manager
  controller_address,  \* [Shell -> address]: ProcessManagerDriver's
  controller,          \* [Shell -> address]: that of the controller driver
  found,               \* [Shell -> address]: what the last boot or user gave
  session,             \* how its root controller is found: it is listed in
                       \* the connectivity service, or there is none and its
                       \* port is fixed, or neither
  alive,               \* the root controllers that live
  booted,              \* how many were booted
  listed               \* the one the connectivity service lists

Prompt == {"off", "spawning", "describing", "prompt", "booting", "resolving",
           "chosen", "dialing", "taking", "learning", "validating", "executing", "closing", "leaving", "gone"}
Manager == {"none", "starting", "up", "dead"}
Session == {"service", "port", "neither"}

driverVars == <<controller_address, controller, found>>
shellVars == <<prompt, home, manager, driverVars>>
worldVars == <<session, alive, booted, listed>>
vars == <<shellVars, worldVars>>

Init ==
  /\ prompt = [u \in Shell |-> "off"]
  /\ home = [u \in Shell |-> IF u \in ControllerShell THEN "closing" ELSE "prompt"]
  /\ manager = [u \in Shell |-> IF u \in Spawning \cup ControllerShell THEN "none" ELSE "up"]
  /\ controller_address = [u \in Shell |-> Nowhere]
  /\ controller = [u \in Shell |-> Nowhere]
  /\ found = [u \in Shell |-> Nowhere]
  /\ session \in Session
  /\ alive = {} /\ booted = 0 /\ listed = Nowhere

Goes(u, from, to) ==
  /\ prompt[u] = from
  /\ prompt' = [prompt EXCEPT ![u] = to]
-----------------------------------------------------------------------------
(* The outside: process managers, root controllers and their address.      *)

ManagerStarts(u) ==
  /\ manager[u] = "starting"
  /\ manager' = [manager EXCEPT ![u] = "up"]
  /\ UNCHANGED <<prompt, home, driverVars, worldVars>>

ManagerDies(u) ==
  /\ manager[u] \in {"starting", "up"}
  /\ manager' = [manager EXCEPT ![u] = "dead"]
  /\ UNCHANGED <<prompt, home, driverVars, worldVars>>

Advertise(i) ==
  /\ session = "service" /\ i \in alive
  /\ listed' = i
  /\ UNCHANGED <<shellVars, session, alive, booted>>

Expire ==
  /\ listed # Nowhere /\ listed \notin alive
  /\ listed' = Nowhere
  /\ UNCHANGED <<shellVars, session, alive, booted>>

ControllerDies(i) ==
  /\ i \in alive
  /\ alive' = alive \ {i}
  /\ UNCHANGED <<shellVars, session, booted, listed>>
-----------------------------------------------------------------------------
(* unified_shell: a manager has 10 s to be ready, then must describe itself*)

start(u) ==
  /\ u \notin ControllerShell
  /\ Goes(u, "off", IF u \in Spawning THEN "spawning" ELSE "describing")
  /\ manager' = [manager EXCEPT ![u] = IF u \in Spawning THEN "starting" ELSE @]
  /\ UNCHANGED <<home, driverVars, worldVars>>

manager_ready(u) ==
  /\ Goes(u, "spawning", "describing")
  /\ manager[u] = "up"
  /\ UNCHANGED <<home, manager, driverVars, worldVars>>

(* DruncSetupException, before there is any cleanup: the process manager   *)
(* is not terminated, and the interpreter waits for it before it ends.     *)
manager_not_ready(u) ==
  /\ Goes(u, "spawning", "leaving")
  /\ manager[u] # "up"
  /\ UNCHANGED <<home, manager, driverVars, worldVars>>

(* Without the boot configuration the shell is left as above; the cleanup  *)
(* is there by the time the session is looked for in it.                   *)
describe_manager(u) ==
  /\ \E to \in IF manager[u] = "up" THEN {"prompt", "leaving", "closing"} ELSE {"leaving"} :
       Goes(u, "describing", to)
  /\ UNCHANGED <<home, manager, driverVars, worldVars>>

(* controller_shell, and the connect command of either. *)
connect(u, i) ==
  /\ IF u \in ControllerShell THEN Goes(u, "off", "dialing") \/ Goes(u, "prompt", "dialing")
                              ELSE Goes(u, "prompt", "dialing")
  /\ controller' = [controller EXCEPT ![u] = i]
  /\ found' = [found EXCEPT ![u] = i]
  /\ UNCHANGED <<home, manager, controller_address, worldVars>>
-----------------------------------------------------------------------------
(* boot: the command of the shell and the generator of the driver.         *)

boot(u) ==
  /\ u \notin ControllerShell
  /\ Goes(u, "prompt", "booting")
  /\ found' = [found EXCEPT ![u] = CutShort]
  /\ UNCHANGED <<home, manager, controller_address, controller, worldVars>>

(* The request of the root controller is carried out.  On a fixed port     *)
(* there is no room for a second one.                                      *)
root_started(u) ==
  /\ manager[u] = "up" /\ booted < MaxBoot
  /\ booted' = booted + 1
  /\ alive' = alive \cup {IF session = "port" THEN 1 ELSE booted + 1}
  /\ UNCHANGED <<session, listed>>

(* Every request is answered, that of the root controller among them. *)
processes_booted(u) ==
  /\ Goes(u, "booting", "resolving")
  /\ root_started(u)
  /\ UNCHANGED <<home, manager, driverVars>>

(* The configuration cannot be consolidated, or a request is refused       *)
(* without data, before or after that of the root: the generator is left   *)
(* before its look-up.                                                     *)
boot_cut_short(u) ==
  /\ Goes(u, "booting", "chosen")
  /\ root_started(u) \/ UNCHANGED worldVars
  /\ UNCHANGED <<home, manager, driverVars>>

(* What leaves the whole command: ServerUnreachable, a script or a log     *)
(* path that is missing, a session that is not in the configuration, a     *)
(* refusal with data, in which a process description is looked for.        *)
boot_raises(u) ==
  /\ Goes(u, "booting", "prompt")
  /\ root_started(u) \/ UNCHANGED worldVars
  /\ UNCHANGED <<home, manager, driverVars>>

(* The address is looked up, or made of the host and of the fixed port,    *)
(* whether the controller is there or not.                                 *)
controller_found(u) ==
  LET address == IF session = "service" THEN listed ELSE 1
  IN /\ Goes(u, "resolving", "chosen")
     /\ session # "neither" /\ address # Nowhere
     /\ controller_address' = [controller_address EXCEPT ![u] = address]
     /\ found' = [found EXCEPT ![u] = address]
     /\ UNCHANGED <<home, manager, controller, worldVars>>

(* Fault: the address is only ever set to one that was found. *)
controller_not_found_keeps(u) ==
  /\ session # "port"
  /\ Goes(u, "resolving", "chosen")
  /\ found' = [found EXCEPT ![u] = Nowhere]
  /\ UNCHANGED <<home, manager, controller_address, controller, worldVars>>

(* The time-out, or no fixed port: get_controller_address returns None. *)
controller_not_found(u) ==
  /\ session # "port"
  /\ Goes(u, "resolving", "chosen")
  /\ controller_address' = [controller_address EXCEPT ![u] = Nowhere]
  /\ found' = [found EXCEPT ![u] = Nowhere]
  /\ UNCHANGED <<home, manager, controller, worldVars>>

(* KeyboardInterrupt: the address stays that of an earlier boot.           *)
lookup_interrupted(u) ==
  /\ Goes(u, "resolving", "chosen")
  /\ UNCHANGED <<home, manager, driverVars, worldVars>>

(* Fault: the shell connects to whatever the driver says. *)
set_controller_driver_always(u) ==
  /\ Goes(u, "chosen", "dialing")
  /\ controller' = [controller EXCEPT ![u] = controller_address[u]]
  /\ UNCHANGED <<home, manager, controller_address, found, worldVars>>

set_controller_driver(u) ==
  /\ IF controller_address[u] = Nowhere
       THEN Goes(u, "chosen", "prompt") /\ UNCHANGED controller
       ELSE /\ Goes(u, "chosen", "dialing")
            /\ controller' = [controller EXCEPT ![u] = controller_address[u]]
  /\ UNCHANGED <<home, manager, controller_address, found, worldVars>>
-----------------------------------------------------------------------------
(* controller_setup. *)

describe_controller(u) ==
  /\ Goes(u, "dialing", "taking")
  /\ controller[u] \in alive
  /\ UNCHANGED <<home, manager, driverVars, worldVars>>

(* Every try of 60 s met ServerUnreachable. *)
describe_gives_up(u) ==
  /\ Goes(u, "dialing", home[u])
  /\ controller[u] \notin alive
  /\ UNCHANGED <<home, manager, driverVars, worldVars>>

(* Executed or refused, which took_control tells; or there is nobody left  *)
(* to answer.  A controller shell that starts has its commands to learn.   *)
take_control(u) ==
  /\ IF controller[u] \in alive
       THEN Goes(u, "taking", IF home[u] = "prompt" THEN "prompt" ELSE "learning")
       ELSE Goes(u, "taking", home[u])
  /\ UNCHANGED <<home, manager, driverVars, worldVars>>

(* describe_fsm, on which the commands of a controller shell are made. *)
learn_commands(u) ==
  /\ IF controller[u] \in alive
       THEN Goes(u, "learning", "prompt") /\ home' = [home EXCEPT ![u] = "prompt"]
       ELSE Goes(u, "learning", home[u]) /\ UNCHANGED home
  /\ UNCHANGED <<manager, driverVars, worldVars>>
-----------------------------------------------------------------------------
(* The commands of the prompt. *)

(* A command that keeps its shell waiting; get_driver ends that of a shell *)
(* that has no controller driver.  One that is a transition begins with    *)
(* describe_fsm.                                                           *)
send_command(u) ==
  /\ controller[u] # Nowhere
  /\ Goes(u, "prompt", "executing") \/ Goes(u, "prompt", "validating")
  /\ UNCHANGED <<home, manager, driverVars, worldVars>>

(* The shell's command was made from the transitions it knew when it       *)
(* started; they are described again by the controller, unless it is dead, *)
(* and one that is not accessible now, or whose arguments do not fit the   *)
(* new description (validate_and_format_fsm_arguments), is not sent.       *)
run_one_fsm_command(u) ==
  /\ \/ controller[u] \in alive /\ Goes(u, "validating", "executing")
     \/ Goes(u, "validating", "prompt")
  /\ UNCHANGED <<home, manager, driverVars, worldVars>>

(* The controller answers, in a time of its own as the calls have no       *)
(* deadline; the report and the status are printed.                        *)
command_answered(u) ==
  /\ Goes(u, "executing", "prompt")
  /\ controller[u] \in alive
  /\ UNCHANGED <<home, manager, driverVars, worldVars>>

(* There is nobody left to answer: the call raises. *)
command_raises(u) ==
  /\ Goes(u, "executing", "prompt")
  /\ controller[u] \notin alive
  /\ UNCHANGED <<home, manager, driverVars, worldVars>>

close(u) ==
  /\ Goes(u, "prompt", "closing")
  /\ UNCHANGED <<home, manager, driverVars, worldVars>>

(* Fault: the process manager is not terminated. *)
cleanup_joins_only(u) ==
  /\ u \notin ControllerShell
  /\ Goes(u, "closing", "leaving")
  /\ UNCHANGED <<home, manager, driverVars, worldVars>>

(* A unified shell terminates the process manager that it started. *)
cleanup(u) ==
  /\ u \notin ControllerShell
  /\ Goes(u, "closing", "leaving")
  /\ manager' = [manager EXCEPT ![u] = IF u \in Spawning THEN "dead" ELSE @]
  /\ UNCHANGED <<home, driverVars, worldVars>>

(* A controller shell means to surrender the control that took_control     *)
(* says it took, but compares its user with a PlainText message: whatever  *)
(* the controller answers, and if it is dead, the shell just leaves.       *)
controller_cleanup(u) ==
  /\ u \in ControllerShell
  /\ Goes(u, "closing", "leaving")
  /\ UNCHANGED <<home, manager, driverVars, worldVars>>

(* A process does not end before the one it started. *)
join(u) ==
  /\ Goes(u, "leaving", "gone")
  /\ u \in Spawning => manager[u] = "dead"
  /\ UNCHANGED <<home, manager, driverVars, worldVars>>
-----------------------------------------------------------------------------
BootStep(u) ==
  \/ processes_booted(u)
  \/ boot_cut_short(u)
  \/ boot_raises(u)
  \/ controller_found(u)
  \/ controller_not_found(u)
  \/ set_controller_driver(u)

SetupStep(u) ==
  \/ describe_controller(u)
  \/ describe_gives_up(u)
  \/ take_control(u)
  \/ learn_commands(u)

(* What a shell does by itself. *)
ShellStep(u) ==
  \/ manager_ready(u)
  \/ manager_not_ready(u)
  \/ describe_manager(u)
  \/ BootStep(u)
  \/ SetupStep(u)
  \/ run_one_fsm_command(u)
  \/ command_raises(u)
  \/ cleanup(u)
  \/ controller_cleanup(u)
  \/ join(u)

(* What its user does. *)
UserStep(u) ==
  \/ start(u)
  \/ \E i \in Controller : connect(u, i)
  \/ boot(u)
  \/ lookup_interrupted(u)
  \/ send_command(u)
  \/ close(u)

Next ==
  \/ \E u \in Shell :
       \/ ShellStep(u) \/ UserStep(u)
       \/ command_answered(u)
       \/ ManagerStarts(u) \/ ManagerDies(u)
  \/ \E i \in Controller : Advertise(i) \/ ControllerDies(i)
  \/ Expire

(* Everything a shell waits for has a time-out, or is an answer that the   *)
(* servers give as long as they live; users and processes do as they like. *)
(* That a command is answered in the end is what Controller shows of the   *)
(* server (EveryCallAnswered), and is assumed here.                        *)
Spec ==
  /\ Init /\ [][Next]_vars
  /\ \A u \in Shell : WF_vars(ShellStep(u)) /\ WF_vars(command_answered(u))
-----------------------------------------------------------------------------
TypeOK ==
  /\ prompt \in [Shell -> Prompt]
  /\ home \in [Shell -> {"closing", "prompt"}]
  /\ manager \in [Shell -> Manager]
  /\ controller_address \in [Shell -> 0..booted]
  /\ controller \in [Shell -> 0..MaxBoot]
  /\ found \in [Shell -> -1..MaxBoot]
  /\ alive \subseteq 1..booted
  /\ booted \in 0..MaxBoot /\ listed \in 0..booted
  /\ session \in Session
  /\ \A u \in Shell :
       /\ prompt[u] = "resolving" => booted # 0
       /\ prompt[u] \in {"dialing", "taking", "learning", "validating", "executing"} =>
            controller[u] # Nowhere

(* A shell that sets out to take control of a controller after a boot that *)
(* came to its look-up, or after a connect, has found this one, in this    *)
(* boot, or was given it: when the look-up fails, the address an earlier   *)
(* boot left in the driver is not used again.  Boots that are cut short    *)
(* before their look-up, or interrupted in it, are excepted: the shell     *)
(* then does connect to the controller of the earlier boot.                *)
(* (process_manager_driver.py, controller_address.)                        *)
BootConnectsToFound ==
  \A u \in Shell :
    prompt[u] \in {"dialing", "taking"} /\ found[u] # CutShort => controller[u] = found[u]

(* A shell that is busy, whatever dies around it, gets back to its prompt  *)
(* or ends, unless it is one that gave up a process manager it started.    *)
(* (The time-outs of boot and controller_setup; cleanup.)                  *)
Busy == Prompt \ {"off", "prompt", "leaving", "gone"}

ShellReturns ==
  \A u \in Shell :
    /\ prompt[u] \in Busy ~> prompt[u] \in {"prompt", "leaving", "gone"}
    /\ prompt[u] = "closing" ~> prompt[u] = "gone"
=============================================================================
