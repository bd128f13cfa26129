--------------------------- MODULE ManagerHistory ---------------------------
(***************************************************************************)
(* The process manager of SSHProcessManager with history variables, which  *)
(* record what happened and restrict nothing: for which uuid a process was *)
(* started, which uuids got a process while another command was about to   *)
(* delete what is stored for them, and which uuids were flushed.  They say *)
(* of each uuid what can be relied on when commands of any clients         *)
(* interleave in any way.                                                  *)
(***************************************************************************)
EXTENDS SSHProcessManager

VARIABLES
  owner,       \* owner[p]: the uuid that process p was started for
  overtaken,   \* the uuids that got a process over one, or under a command that removes
  flushed      \* the uuids whose dead process was flushed

hvars == <<boot_request, process_store, process, thread, owner, overtaken, flushed>>

HInit ==
  /\ Init
  /\ owner = [p \in Process |-> NoUuid]
  /\ overtaken = {}
  /\ flushed = {}

(* The stages at which a command is about to delete what is stored for its *)
(* uuid, of which it has looked at an earlier entry.                       *)
Deleting == {"quit", "kill", "report", "remove", "forget"}

(* This step stores a process for u. *)
Stored(u) == process_store'[u] \notin {process_store[u], NoProcess}

(* ... although one is stored, or a command is about to delete it.         *)
Overtakes(u) ==
  /\ Stored(u)
  /\ \/ u \in stored
     \/ \E t \in Client : thread[t].pc \in Deleting /\ thread[t].uuid = u

(* No process is kept for u, and no command is about to start one. *)
GivenUp(u) ==
  /\ u \in boot_request \ stored
  /\ \A t \in Client : thread[t].uuid = u =>
       thread[t].pc \notin {"forgetRequest", "reboot", "starting", "watch"}

(* This step flushes u, and no boot of u is on its way. *)
Flushes(u) ==
  /\ \E t \in Client : thread[t].pc = "remove" /\ thread[t].uuid = u /\ thread'[t].pc = "next"
  /\ GivenUp(u)'

Record ==
  /\ owner' = [p \in Process |->
                 IF \E u \in Uuid : Stored(u) /\ process_store'[u] = p
                 THEN CHOOSE u \in Uuid : Stored(u) /\ process_store'[u] = p
                 ELSE owner[p]]
  /\ overtaken' = overtaken \cup {u \in Uuid : Overtakes(u)}
  /\ flushed' = flushed \cup {u \in Uuid : Flushes(u)}

HSpec == HInit /\ [][Next /\ Record]_hvars

(* With the fairness of SSHProcessManager. *)
HFairSpec == HSpec /\ \A t \in Client : WF_hvars(ThreadStep(t) /\ Record)
-----------------------------------------------------------------------------
(* No process runs on unseen: one that was started and never told to stop  *)
(* is in the process store, whatever commands of whatever clients          *)
(* interleave, restarts included.  The only one that can be lost is of a   *)
(* uuid for which a process was started over another one or while another  *)
(* command had already decided to delete what was stored for it.           *)
RunningIsTracked ==
  \A p \in Process :
    process[p] = "running" => owner[p] \in overtaken \/ process_store[owner[p]] = p

(* What kill and terminate report DEAD and forget is dead, unless a        *)
(* process was ever started for that uuid while they, or another command,  *)
(* were about to delete what was stored.                                   *)
ReportedIsDead ==
  [][\A t \in Client : thread[t].pc = "report" /\ thread'[t].pc = "next" =>
       \/ thread[t].uuid \in overtaken
       \/ \A p \in Process : process_store[thread[t].uuid] = p => process[p] = "dead"]_hvars

(* What was flushed cannot be restarted: its uuid never has a process      *)
(* again, although its boot request stays and restart finds it there.      *)
FlushedNotRestarted == flushed \cap stored = {}

(* A restart of a process that is dead already simply boots it: one that   *)
(* has chosen a uuid whose processes are all dead, and were not flushed,   *)
(* does not end with an exception.                                         *)
RestartBootsTheDead ==
  [][\A t \in Client :
       /\ thread[t].pc = "forget"
       /\ thread[t].uuid \notin flushed
       /\ \E p \in Process : owner[p] = thread[t].uuid
       /\ \A p \in Process : owner[p] = thread[t].uuid => process[p] = "dead"
       => thread'[t].answer # "exception"]_hvars

(* A restart of a running process kills it first: when it boots again no   *)
(* process of its uuid is alive.                                           *)
RestartKillsFirst ==
  [][\A t \in Client : thread[t].pc = "reboot" /\ thread'[t].pc = "starting" =>
       \A p \in Process : owner[p] = thread[t].uuid => process[p] = "dead"]_hvars
=============================================================================
