------------------------ MODULE MCSSHProcessManager ------------------------
(* A process manager that two clients drive, with its history. *)
EXTENDS ManagerHistory

CONSTANTS c1, c2

(* Both clients give every command. *)
MCIssued == [t \in Client |-> Op]

(* For the race between a restart and a kill. *)
MCIssuedRace == [t \in Client |-> IF t = c1 THEN {"boot", "restart"} ELSE {"kill"}]

(* For what a restart does to a process that was killed or exited. *)
MCIssuedToRestart == [t \in Client |-> Op \ {"terminate", "flush"}]
=============================================================================
