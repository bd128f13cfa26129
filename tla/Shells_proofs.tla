--------------------------- MODULE Shells_proofs ---------------------------
(* What the shells keep for every number of shells and of boots.           *)
EXTENDS Shells, TLAPS

LEMMA TypeInit == Init => TypeOK
BY ShellsAssumption DEF Init, TypeOK, Prompt, Manager, Session, Nowhere

LEMMA TypeWorld ==
  ASSUME TypeOK,
         \/ \E u \in Shell : command_answered(u) \/ ManagerStarts(u) \/ ManagerDies(u)
         \/ \E i \in Controller : Advertise(i) \/ ControllerDies(i)
         \/ Expire
         \/ UNCHANGED vars
  PROVE  TypeOK'
<1> USE ShellsAssumption DEF TypeOK, Nowhere, Controller
<1>1. CASE UNCHANGED vars
  BY <1>1 DEF vars, shellVars, driverVars, worldVars, Nowhere
<1>2. ASSUME NEW u \in Shell, ManagerStarts(u) \/ ManagerDies(u) PROVE TypeOK'
  BY <1>2 DEF ManagerStarts, ManagerDies, driverVars, worldVars, Manager
<1>5. ASSUME NEW u \in Shell, command_answered(u) PROVE TypeOK'
  BY <1>5 DEF command_answered, Goes, driverVars, worldVars, Prompt
<1>3. ASSUME NEW i \in Controller, Advertise(i) \/ ControllerDies(i) PROVE TypeOK'
  <2>1. /\ UNCHANGED <<prompt, home, manager, controller_address, controller, found, session, booted>>
        /\ alive' \subseteq alive /\ listed' \in {i, listed} /\ i \in alive
    BY <1>3 DEF Advertise, ControllerDies, shellVars, driverVars
  <2>2. listed' \in 0..booted /\ alive' \subseteq 1..booted
    BY <2>1
  <2> QED
    BY <2>1, <2>2
<1>4. CASE Expire
  BY <1>4 DEF Expire, shellVars, driverVars, Nowhere
<1> QED
  BY <1>1, <1>2, <1>3, <1>4, <1>5

LEMMA TypeShell ==
  ASSUME TypeOK, NEW u \in Shell, ShellStep(u)
  PROVE  TypeOK'
<1> USE ShellsAssumption DEF TypeOK, Goes, driverVars, worldVars, Prompt, Manager, Nowhere
<1>1. CASE manager_ready(u) \/ manager_not_ready(u) \/ describe_manager(u)
  BY <1>1 DEF manager_ready, manager_not_ready, describe_manager
<1>r. ASSUME root_started(u)
      PROVE  /\ booted' = booted + 1 /\ booted' \in 1..MaxBoot /\ 0..booted \subseteq 0..booted'
             /\ alive' \subseteq 1..booted' /\ session' = session /\ listed' = listed
  BY <1>r DEF root_started
<1>2. CASE processes_booted(u)
  BY <1>2, <1>r DEF processes_booted
<1>3. CASE boot_cut_short(u) \/ boot_raises(u)
  <2>1. CASE root_started(u)
    BY <1>3, <1>r, <2>1 DEF boot_cut_short, boot_raises
  <2>2. CASE UNCHANGED worldVars
    BY <1>3, <2>2 DEF boot_cut_short, boot_raises
  <2> QED
    BY <1>3, <2>1, <2>2 DEF boot_cut_short, boot_raises
<1>4. CASE controller_found(u)
  <2>1. booted # 0 /\ 1 \in 0..booted /\ listed \in 0..booted /\ 0..booted \subseteq -1..MaxBoot
    BY <1>4 DEF controller_found
  <2>2. PICK address \in 0..booted :
          /\ controller_address' = [controller_address EXCEPT ![u] = address]
          /\ found' = [found EXCEPT ![u] = address]
    BY <1>4, <2>1 DEF controller_found
  <2> QED
    BY <1>4, <2>1, <2>2 DEF controller_found
<1>5. CASE controller_not_found(u)
  BY <1>5 DEF controller_not_found
<1>6. CASE set_controller_driver(u)
  BY <1>6 DEF set_controller_driver
<1>7. CASE describe_controller(u) \/ describe_gives_up(u) \/ take_control(u) \/ learn_commands(u)
  BY <1>7 DEF describe_controller, describe_gives_up, take_control, learn_commands
<1>8. CASE run_one_fsm_command(u) \/ command_raises(u)
  BY <1>8 DEF run_one_fsm_command, command_raises
<1>9. CASE cleanup(u) \/ controller_cleanup(u) \/ join(u)
  BY <1>9 DEF cleanup, controller_cleanup, join
<1> QED
  BY <1>1, <1>2, <1>3, <1>4, <1>5, <1>6, <1>7, <1>8, <1>9 DEF ShellStep, BootStep, SetupStep

LEMMA TypeUser ==
  ASSUME TypeOK, NEW u \in Shell, UserStep(u)
  PROVE  TypeOK'
<1> USE ShellsAssumption DEF TypeOK, Goes, driverVars, worldVars, Prompt, Manager, Nowhere
<1>1. CASE start(u)
  BY <1>1 DEF start
<1>2. ASSUME NEW i \in Controller, connect(u, i) PROVE TypeOK'
  BY <1>2 DEF connect, Controller
<1>3. CASE boot(u)
  <2>1. CutShort \in -1..MaxBoot
    BY DEF CutShort
  <2> QED
    BY <1>3, <2>1 DEF boot
<1>4. CASE lookup_interrupted(u)
  BY <1>4 DEF lookup_interrupted
<1>5. CASE send_command(u) \/ close(u)
  BY <1>5 DEF send_command, close
<1> QED
  BY <1>1, <1>2, <1>3, <1>4, <1>5 DEF UserStep

LEMMA TypeStep == TypeOK /\ [Next]_vars => TypeOK'
BY TypeWorld, TypeShell, TypeUser DEF Next

(* Every variable of the shells and of what they talk to keeps its type,   *)
(* for any number of shells and boots; a shell that dials, takes control   *)
(* or waits for a command has a controller to talk to.                     *)
THEOREM TypeCorrect == Spec => []TypeOK
BY TypeInit, TypeStep, PTL DEF Spec
-----------------------------------------------------------------------------
(* What a shell found is what the driver of its process manager says, from *)
(* the end of the look-up to the moment the shell makes use of it.         *)
FoundIsHeld(u) ==
  /\ prompt[u] \in {"booting", "resolving"} => found[u] = CutShort
  /\ prompt[u] = "chosen" /\ found[u] # CutShort => controller_address[u] = found[u]
  /\ prompt[u] \in {"dialing", "taking"} /\ found[u] # CutShort => controller[u] = found[u]

Held == \A u \in Shell : FoundIsHeld(u)

LEMMA HeldInit == Init => Held
BY DEF Init, Held, FoundIsHeld

(* What the others do does not touch a shell. *)
LEMMA HeldByOthers ==
  ASSUME NEW v \in Shell, FoundIsHeld(v), prompt'[v] = prompt[v], found'[v] = found[v],
         controller'[v] = controller[v], controller_address'[v] = controller_address[v]
  PROVE  FoundIsHeld(v)'
BY DEF FoundIsHeld

LEMMA HeldWorld ==
  ASSUME TypeOK, Held,
         \/ \E u \in Shell : command_answered(u) \/ ManagerStarts(u) \/ ManagerDies(u)
         \/ \E i \in Controller : Advertise(i) \/ ControllerDies(i)
         \/ Expire
         \/ UNCHANGED vars
  PROVE  Held'
<1>1. CASE UNCHANGED <<prompt, driverVars>>
  BY <1>1, HeldByOthers DEF Held, driverVars
<1>2. ASSUME NEW u \in Shell, command_answered(u)
      PROVE  Held'
  <2>1. /\ prompt \in [Shell -> Prompt] /\ UNCHANGED driverVars
        /\ prompt' = [prompt EXCEPT ![u] = "prompt"]
    BY <1>2 DEF command_answered, Goes, TypeOK
  <2>2. \A v \in Shell : prompt'[v] = prompt[v] \/ prompt'[v] = "prompt"
    BY <2>1
  <2> QED
    BY <2>1, <2>2 DEF Held, FoundIsHeld, driverVars
<1> QED
  BY <1>1, <1>2 DEF ManagerStarts, ManagerDies, Advertise, ControllerDies, Expire, vars, shellVars

LEMMA HeldShell ==
  ASSUME TypeOK, Held, NEW u \in Shell, ShellStep(u)
  PROVE  Held'
<1> USE DEF TypeOK, Goes, driverVars, worldVars
<1>o. ASSUME NEW v \in Shell, v # u PROVE FoundIsHeld(v)'
  <2>1. /\ prompt'[v] = prompt[v] /\ found'[v] = found[v]
        /\ controller'[v] = controller[v] /\ controller_address'[v] = controller_address[v]
    BY <1>o DEF ShellStep, BootStep, SetupStep, manager_ready, manager_not_ready,
       describe_manager, processes_booted, boot_cut_short, boot_raises, controller_found,
       controller_not_found, set_controller_driver, describe_controller, describe_gives_up,
       take_control, learn_commands, run_one_fsm_command, command_raises, cleanup, controller_cleanup, join
  <2> QED
    BY <1>o, <2>1, HeldByOthers DEF Held
<1>u. FoundIsHeld(u)'
  <2> FoundIsHeld(u)
    BY DEF Held
  <2> USE DEF FoundIsHeld
  <2>1. CASE manager_ready(u) \/ manager_not_ready(u) \/ describe_manager(u)
    BY <2>1 DEF manager_ready, manager_not_ready, describe_manager
  <2>2. CASE processes_booted(u) \/ boot_cut_short(u) \/ boot_raises(u)
    BY <2>2 DEF processes_booted, boot_cut_short, boot_raises
  <2>3. CASE controller_found(u) \/ controller_not_found(u)
    BY <2>3 DEF controller_found, controller_not_found
  <2>4. CASE set_controller_driver(u)
    BY <2>4 DEF set_controller_driver
  <2>5. CASE describe_controller(u) \/ describe_gives_up(u) \/ take_control(u) \/ learn_commands(u)
    BY <2>5 DEF describe_controller, describe_gives_up, take_control, learn_commands
  <2>6. CASE run_one_fsm_command(u) \/ command_raises(u)
    BY <2>6 DEF run_one_fsm_command, command_raises
  <2>7. CASE cleanup(u) \/ controller_cleanup(u) \/ join(u)
    BY <2>7 DEF cleanup, controller_cleanup, join
  <2> QED
    BY <2>1, <2>2, <2>3, <2>4, <2>5, <2>6, <2>7 DEF ShellStep, BootStep, SetupStep
<1> QED
  BY <1>o, <1>u DEF Held

LEMMA HeldUser ==
  ASSUME TypeOK, Held, NEW u \in Shell, UserStep(u)
  PROVE  Held'
<1> USE DEF TypeOK, Goes, driverVars, worldVars
<1>o. ASSUME NEW v \in Shell, v # u PROVE FoundIsHeld(v)'
  <2>1. /\ prompt'[v] = prompt[v] /\ found'[v] = found[v]
        /\ controller'[v] = controller[v] /\ controller_address'[v] = controller_address[v]
    BY <1>o DEF UserStep, start, connect, boot, lookup_interrupted, send_command, close
  <2> QED
    BY <1>o, <2>1, HeldByOthers DEF Held
<1>u. FoundIsHeld(u)'
  <2> FoundIsHeld(u)
    BY DEF Held
  <2> USE DEF FoundIsHeld
  <2>1. CASE start(u) \/ \E i \in Controller : connect(u, i)
    BY <2>1 DEF start, connect
  <2>2. CASE boot(u) \/ lookup_interrupted(u)
    BY <2>2 DEF boot, lookup_interrupted
  <2>3. CASE send_command(u) \/ close(u)
    BY <2>3 DEF send_command, close
  <2> QED
    BY <2>1, <2>2, <2>3 DEF UserStep
<1> QED
  BY <1>o, <1>u DEF Held

(* Whatever shells boot, connect and die around each other, one that sets  *)
(* out to take control after a boot that came to its look-up, or after a   *)
(* connect, has found that very controller in this boot, or was told it by *)
(* its user.  Nothing is said of a boot that is cut short before its       *)
(* look-up or interrupted in it: such a one does use an old address.       *)
THEOREM ConnectsToFound == Spec => []BootConnectsToFound
<1>1. Init => TypeOK /\ Held
  BY TypeInit, HeldInit
<1>2. TypeOK /\ Held /\ [Next]_vars => (TypeOK /\ Held)'
  BY TypeStep, HeldWorld, HeldShell, HeldUser DEF Next
<1>3. Held => BootConnectsToFound
  BY DEF Held, FoundIsHeld, BootConnectsToFound
<1> QED
  BY <1>1, <1>2, <1>3, PTL DEF Spec
=============================================================================
