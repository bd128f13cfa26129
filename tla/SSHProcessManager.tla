------------------------- MODULE SSHProcessManager -------------------------
(***************************************************************************)
(* The process manager that starts processes through ssh: class            *)
(* ProcessManager of process_manager/process_manager.py and its subclass   *)
(* of process_manager/ssh_process_manager.py.                              *)
(*                                                                         *)
(* The manager keeps two dictionaries by uuid: boot_request, what it was   *)
(* asked to boot, and process_store, the handles of the ssh processes.     *)
(* The commands are plain functions served by an asyncio gRPC server,      *)
(* which runs them in the threads of its executor: commands of different   *)
(* clients interleave, and no lock protects the dictionaries.  The         *)
(* processes exit whenever they want.                                      *)
(***************************************************************************)
EXTENDS Naturals, FiniteSets

CONSTANTS
  Uuid,        \* the identifiers uuid4 gives (a bound on the boots)
  Process,     \* the ssh processes (a bound on the starts)
  Client,      \* the threads that serve the clients
  Issued,      \* Issued[t]: the commands the client of t gives
  NoUuid, NoProcess

Op == {"boot", "restart", "kill", "terminate", "flush"}

ASSUME ManagerAssumption ==
  /\ Issued \in [Client -> SUBSET Op]
  /\ NoUuid \notin Uuid
  /\ NoProcess \notin Process

VARIABLES
  boot_request,    \* the uuids that have a boot request
  process_store,   \* process_store[u]: the process kept for u, NoProcess if none
  process,         \* process[p]: what p does; stopping: it got a signal it may ignore
  thread           \* thread[t]: the command that t runs, and where it is

vars == <<boot_request, process_store, process, thread>>
-----------------------------------------------------------------------------
Stage == {"idle", "begin", "starting", "watch", "booted", "restart", "forget",
          "forgetRequest", "reboot", "next", "quit", "kill", "report", "remove"}

Thread == [op : Op, pc : Stage, todo : SUBSET Uuid, uuid : Uuid \cup {NoUuid},
           proc : Process \cup {NoProcess}, answer : {"none", "ok", "exception"}]

quiet == [op |-> "boot", pc |-> "idle", todo |-> {}, uuid |-> NoUuid,
          proc |-> NoProcess, answer |-> "none"]

Init ==
  /\ boot_request = {}
  /\ process_store = [u \in Uuid |-> NoProcess]
  /\ process = [p \in Process |-> "unused"]
  /\ thread = [t \in Client |-> quiet]

(* The keys of process_store. *)
stored == {u \in Uuid : process_store[u] # NoProcess}

is_alive(p) == process[p] \in {"running", "stopping"}

Running(t, op, pc) == thread[t].op = op /\ thread[t].pc = pc

Busy(t) == thread[t].pc # "idle"

Goto(t, pc) == thread' = [thread EXCEPT ![t].pc = pc]

(* The command of t is over.  The broadcasted decorator turns an exception *)
(* (KeyError of a dictionary, RuntimeError of a scan of a dictionary that  *)
(* changes meanwhile, BadQuery, DruncCommandException) into a response.    *)
Answer(t, answer) == thread' = [thread EXCEPT ![t] = [quiet EXCEPT !.answer = answer]]

Raise(t) == Answer(t, "exception")

(* A client gives a command, about the processes that its query q matches. *)
Request(t, op, q) ==
  /\ ~Busy(t)
  /\ op \in {"boot", "terminate"} => q = {}
  /\ thread' = [thread EXCEPT ![t] = [quiet EXCEPT !.op = op, !.pc = "begin", !.todo = q]]
  /\ UNCHANGED <<boot_request, process_store, process>>
-----------------------------------------------------------------------------
(* _get_process_uid looks at every key of a dictionary, and looks each up  *)
(* in boot_request.  The scan is one step here; it raises when another     *)
(* thread changes the dictionary under it.                                 *)

Pool(t) == IF thread[t].op = "restart" THEN boot_request ELSE stored

Selection(t) == Pool(t) \cap thread[t].todo

Scannable(t) == Pool(t) \subseteq boot_request

ScanRaises(t) ==
  /\ thread[t].pc = "begin"
  /\ thread[t].op # "boot"
  /\ \/ /\ thread[t].op # "terminate"
        /\ ~Scannable(t)
     \/ \E s \in Client \ {t} : Busy(s)
  /\ Raise(t)
  /\ UNCHANGED <<boot_request, process_store, process>>

(* kill, flush and terminate go through what they selected one by one. *)
Select(t) ==
  /\ thread[t].pc = "begin"
  /\ \/ /\ thread[t].op \in {"kill", "flush"}
        /\ Scannable(t)
        /\ thread' = [thread EXCEPT ![t].pc = "next", ![t].todo = Selection(t)]
     \/ /\ thread[t].op = "terminate"
        /\ thread' = [thread EXCEPT ![t].pc = "next", ![t].todo = stored]
  /\ UNCHANGED <<boot_request, process_store, process>>

Done(t) ==
  /\ thread[t].pc = "next"
  /\ thread[t].todo = {}
  /\ Answer(t, "ok")
  /\ UNCHANGED <<boot_request, process_store, process>>
-----------------------------------------------------------------------------
(* boot: __boot with a new uuid *)

Fresh(u) == u \notin boot_request /\ \A s \in Client : thread[s].uuid # u

(* No allowed host: refused before anything is noted. *)
BootRefused(t) ==
  /\ Running(t, "boot", "begin")
  /\ Raise(t)
  /\ UNCHANGED <<boot_request, process_store, process>>

Boot(t, u) ==
  /\ Running(t, "boot", "begin")
  /\ Fresh(u)
  /\ boot_request' = boot_request \cup {u}
  /\ thread' = [thread EXCEPT ![t].pc = "starting", ![t].uuid = u]
  /\ UNCHANGED <<process_store, process>>

(* The first allowed host on which ssh can be started gets the process... *)
Start(t, p) ==
  /\ thread[t].pc = "starting"
  /\ process[p] = "unused"
  /\ process' = [process EXCEPT ![p] = "running"]
  /\ process_store' = [process_store EXCEPT ![thread[t].uuid] = p]
  /\ Goto(t, "watch")
  /\ UNCHANGED boot_request

(* ... and a watcher, for what the store holds now: when it was killed     *)
(* meanwhile the KeyError counts as a failure of that host.                *)
Watch(t) ==
  /\ thread[t].pc = "watch"
  /\ Goto(t, IF thread[t].uuid \in stored THEN "booted" ELSE "starting")
  /\ UNCHANGED <<boot_request, process_store, process>>

(* Fault: a None that is no process is stored when ssh could not be started *)
StartNowhere_none(t) ==
  /\ thread[t].pc = "starting"
  /\ process_store' = [process_store EXCEPT ![thread[t].uuid] = NoUuid]
  /\ Goto(t, "booted")
  /\ UNCHANGED <<boot_request, process>>

(* No host (is left): the response says DEAD and nothing is stored. *)
StartNowhere(t) ==
  /\ thread[t].pc = "starting"
  /\ Goto(t, "booted")
  /\ UNCHANGED <<boot_request, process_store, process>>

(* The response is built from what boot_request holds now. *)
Booted(t) ==
  /\ thread[t].pc = "booted"
  /\ IF thread[t].uuid \in boot_request THEN Answer(t, "ok") ELSE Raise(t)
  /\ UNCHANGED <<boot_request, process_store, process>>
-----------------------------------------------------------------------------
(* A process that exits between the look at is_alive and the signal: there *)
(* is no process (group) to signal any more, and os.killpg or os.kill      *)
(* raises ProcessLookupError.                                              *)
SignalRaises(t, p) ==
  /\ process[p] = "dead"
  /\ Raise(t)
  /\ UNCHANGED process

(* restart: exactly one process, any that was ever booted *)

RestartRefused(t) ==
  /\ Running(t, "restart", "begin")
  /\ Cardinality(Selection(t)) # 1
  /\ Raise(t)
  /\ UNCHANGED <<boot_request, process_store, process>>

RestartOne(t) ==
  /\ Running(t, "restart", "begin")
  /\ \E u \in Uuid :
       /\ Selection(t) = {u}
       /\ thread' = [thread EXCEPT ![t].pc = "restart", ![t].uuid = u]
  /\ UNCHANGED <<boot_request, process_store, process>>

(* Fault: the old process is not told to stop. *)
RestartTerminate_spared(t) ==
  /\ thread[t].pc = "restart"
  /\ Goto(t, "forget")
  /\ UNCHANGED <<boot_request, process_store, process>>

(* SIGTERM, and no wait for its effect. *)
RestartTerminate(t) ==
  LET p == process_store[thread[t].uuid]
  IN  /\ thread[t].pc = "restart"
      /\ \/ /\ process' = IF p # NoProcess /\ is_alive(p) THEN [process EXCEPT ![p] = "stopping"]
                                                          ELSE process
            /\ Goto(t, "forget")
         \/ p # NoProcess /\ SignalRaises(t, p)
      /\ UNCHANGED <<boot_request, process_store>>

(* Fault: a process that is not stored any more is no obstacle. *)
RestartForget_lenient(t) ==
  /\ thread[t].pc = "forget"
  /\ process_store' = [process_store EXCEPT ![thread[t].uuid] = NoProcess]
  /\ Goto(t, "forgetRequest")
  /\ UNCHANGED <<boot_request, process>>

(* Fault: the boot request goes first. *)
RestartForget_request(t) ==
  /\ thread[t].pc = "forget"
  /\ boot_request' = boot_request \ {thread[t].uuid}
  /\ Goto(t, "forgetRequest")
  /\ UNCHANGED <<process_store, process>>

(* del process_store[uuid]: a KeyError if the process was killed, flushed, *)
(* or never started.                                                       *)
RestartForget(t) ==
  /\ thread[t].pc = "forget"
  /\ \/ /\ thread[t].uuid \in stored
        /\ process_store' = [process_store EXCEPT ![thread[t].uuid] = NoProcess]
        /\ Goto(t, "forgetRequest")
     \/ /\ thread[t].uuid \notin stored
        /\ Raise(t)
        /\ UNCHANGED process_store
  /\ UNCHANGED <<boot_request, process>>

RestartForgetRequest(t) ==
  /\ thread[t].pc = "forgetRequest"
  /\ IF thread[t].uuid \in boot_request THEN Goto(t, "reboot") ELSE Raise(t)
  /\ boot_request' = boot_request \ {thread[t].uuid}
  /\ UNCHANGED <<process_store, process>>

(* __boot with the same request and the same uuid *)
Reboot(t) ==
  /\ thread[t].pc = "reboot"
  /\ IF thread[t].uuid \in boot_request THEN Raise(t) ELSE Goto(t, "starting")
  /\ boot_request' = boot_request \cup {thread[t].uuid}
  /\ UNCHANGED <<process_store, process>>
-----------------------------------------------------------------------------
(* kill and terminate: kill_processes *)

KillNext(t, u) ==
  /\ Running(t, "kill", "next") \/ Running(t, "terminate", "next")
  /\ u \in thread[t].todo
  /\ LET p == process_store[u]
     IN  IF p = NoProcess \/ u \notin boot_request THEN Raise(t)
         ELSE thread' = [thread EXCEPT ![t].pc = IF is_alive(p) THEN "quit" ELSE "report",
                                       ![t].uuid = u, ![t].proc = p]
  /\ UNCHANGED <<boot_request, process_store, process>>

(* The first signal of the sequence is SIGQUIT, which a process may ignore *)
(* or take long to obey...                                                 *)
SendQuit(t) ==
  LET p == thread[t].proc
  IN  /\ thread[t].pc = "quit"
      /\ \/ /\ process' = IF is_alive(p) THEN [process EXCEPT ![p] = "stopping"] ELSE process
            /\ Goto(t, IF is_alive(p) THEN "kill" ELSE "report")
         \/ SignalRaises(t, p)
      /\ UNCHANGED <<boot_request, process_store>>

(* Fault: SIGQUIT is the only signal. *)
SendKill_quit(t) ==
  /\ thread[t].pc = "kill"
  /\ Goto(t, "report")
  /\ UNCHANGED <<boot_request, process_store, process>>

(* Fault: the process is given all the time it takes to obey SIGQUIT. *)
SendKill_patient(t) ==
  /\ thread[t].pc = "kill"
  /\ ~is_alive(thread[t].proc)
  /\ Goto(t, "report")
  /\ UNCHANGED <<boot_request, process_store, process>>

(* ... the second, kill_timeout later, is SIGKILL. *)
SendKill(t) ==
  /\ thread[t].pc = "kill"
  /\ \/ /\ process' = [process EXCEPT ![thread[t].proc] = "dead"]
        /\ Goto(t, "report")
     \/ SignalRaises(t, thread[t].proc)
  /\ UNCHANGED <<boot_request, process_store>>

(* It is reported DEAD, and what is stored for its uuid is deleted. *)
Report(t) ==
  LET u == thread[t].uuid
  IN  /\ thread[t].pc = "report"
      /\ IF u \in stored /\ u \in boot_request
         THEN /\ thread' = [thread EXCEPT ![t].pc = "next", ![t].todo = @ \ {u},
                                          ![t].uuid = NoUuid, ![t].proc = NoProcess]
              /\ process_store' = [process_store EXCEPT ![u] = NoProcess]
         ELSE Raise(t) /\ UNCHANGED process_store
      /\ UNCHANGED <<boot_request, process>>
-----------------------------------------------------------------------------
(* Fault: flush does not care whether the process is dead. *)
FlushNext_any(t, u) ==
  /\ Running(t, "flush", "next")
  /\ u \in thread[t].todo
  /\ thread' = [thread EXCEPT ![t].pc = "remove", ![t].uuid = u]
  /\ UNCHANGED <<boot_request, process_store, process>>

(* flush: only the dead are removed; their boot requests stay. *)
FlushNext(t, u) ==
  /\ Running(t, "flush", "next")
  /\ u \in thread[t].todo
  /\ IF u \notin boot_request THEN thread' = [thread EXCEPT ![t].todo = @ \ {u}]
     ELSE IF u \notin stored THEN Raise(t)
     ELSE IF is_alive(process_store[u]) THEN thread' = [thread EXCEPT ![t].todo = @ \ {u}]
     ELSE thread' = [thread EXCEPT ![t].pc = "remove", ![t].uuid = u]
  /\ UNCHANGED <<boot_request, process_store, process>>

FlushRemove(t) ==
  LET u == thread[t].uuid
  IN  /\ thread[t].pc = "remove"
      /\ IF u \in stored
         THEN /\ thread' = [thread EXCEPT ![t].pc = "next", ![t].todo = @ \ {u}, ![t].uuid = NoUuid]
              /\ process_store' = [process_store EXCEPT ![u] = NoProcess]
         ELSE Raise(t) /\ UNCHANGED process_store
      /\ UNCHANGED <<boot_request, process>>
-----------------------------------------------------------------------------
(* A process exits, of its own or because of a signal it got.  Its watcher *)
(* thread announces it and changes nothing.                                *)
Exit(p) ==
  /\ is_alive(p)
  /\ process' = [process EXCEPT ![p] = "dead"]
  /\ UNCHANGED <<boot_request, process_store, thread>>

BootStep(t) ==
  \/ BootRefused(t)
  \/ \E u \in Uuid : Boot(t, u)
  \/ \E p \in Process : Start(t, p)
  \/ Watch(t)
  \/ StartNowhere(t)
  \/ Booted(t)

RestartStep(t) ==
  \/ RestartRefused(t)
  \/ RestartOne(t)
  \/ RestartTerminate(t)
  \/ RestartForget(t)
  \/ RestartForgetRequest(t)
  \/ Reboot(t)

KillStep(t) ==
  \/ \E u \in Uuid : KillNext(t, u)
  \/ SendQuit(t)
  \/ SendKill(t)
  \/ Report(t)

FlushStep(t) == FlushRemove(t) \/ \E u \in Uuid : FlushNext(t, u)

ThreadStep(t) ==
  ScanRaises(t) \/ Select(t) \/ Done(t) \/ BootStep(t) \/ RestartStep(t) \/ KillStep(t) \/ FlushStep(t)

Next ==
  \/ \E t \in Client, q \in SUBSET Uuid : \E op \in Issued[t] : Request(t, op, q)
  \/ \E t \in Client : ThreadStep(t)
  \/ \E p \in Process : Exit(p)

Spec == Init /\ [][Next]_vars

(* Fairness: a thread that runs a command goes on.  Clients may stop, and  *)
(* no process has to exit.                                                 *)
FairSpec == Spec /\ \A t \in Client : WF_vars(ThreadStep(t))
-----------------------------------------------------------------------------
(* The values of the state of the manager. *)
TypeOK ==
  /\ boot_request \subseteq Uuid
  /\ process_store \in [Uuid -> Process \cup {NoProcess}]
  /\ process \in [Process -> {"unused", "running", "stopping", "dead"}]
  /\ thread \in [Client -> Thread]

(* _get_process_uid and kill_processes look every key of the store up in   *)
(* boot_request: one without an entry makes every ps, kill, flush and logs *)
(* raise.  Whatever commands of whatever clients interleave, a process is  *)
(* kept without its boot request only while a restart, of that uuid, is    *)
(* between taking the request away and booting with it again: no command   *)
(* that fails half-way leaves the manager like that.                       *)
TrackedIsBooted ==
  stored \subseteq boot_request \cup {thread[t].uuid : t \in {s \in Client : thread[s].pc = "reboot"}}

(* What kill and terminate report DEAD and forget is dead.                 *)
KillReportsDead ==
  [][\A t \in Client : thread[t].pc = "report" /\ thread'[t].pc = "next" =>
       \A p \in Process : process_store[thread[t].uuid] = p => process[p] = "dead"]_vars

(* Every command is answered, also the kill of a process that ignores      *)
(* SIGQUIT, however the commands of the clients interleave.                *)
EveryRequestAnswered == \A t \in Client : Busy(t) ~> ~Busy(t)
=============================================================================
