--------------------------- MODULE MCFSMActions ---------------------------
(* The part of the machine of docs/FSM.md that goes through a run, with    *)
(* the two transitions that stay where they are.  The user gives a run     *)
(* number, which the service replaces if it can be asked; the file         *)
(* registry must record the run, the database and the logbooks may fail.   *)
EXTENDS FSMActions

MCState == {"initial", "configured", "ready", "dataflow_drained"}

MCTransition == {"conf", "start", "drain_dataflow", "stop", "change_rate",
                 "master_send_fl_command"}

MCSource == [t \in MCTransition |->
  CASE t = "conf"           -> {"initial"}
    [] t = "start"          -> {"configured"}
    [] t = "drain_dataflow" -> {"ready"}
    [] t = "stop"           -> {"dataflow_drained"}
    [] t = "change_rate"    -> {"ready"}
    [] OTHER                -> {"configured"}]

MCDestination == [t \in MCTransition |->
  CASE t = "conf"           -> "configured"
    [] t = "start"          -> "ready"
    [] t = "drain_dataflow" -> "dataflow_drained"
    [] t = "stop"           -> "configured"
    [] OTHER                -> Stay]

MCPre == <<
  [transition |-> "conf", order |-> <<"test-action", "thread-pinning">>,
   mandatory |-> {"thread-pinning"}],
  [transition |-> "start",
   order |-> <<"user-provided-run-number", "usvc-provided-run-number",
               "file-run-registry", "db-run-registry">>,
   mandatory |-> {"user-provided-run-number", "file-run-registry"}],
  [transition |-> "change_rate", order |-> <<"trigger-rate-specifier">>, mandatory |-> {}],
  [transition |-> "master_send_fl_command", order |-> <<"master-send-fl-command">>,
   mandatory |-> {}]>>

MCPost == <<
  [transition |-> "conf", order |-> <<"thread-pinning">>, mandatory |-> {}],
  [transition |-> "start", order |-> <<"file-logbook", "thread-pinning", "elisa-logbook">>,
   mandatory |-> {"thread-pinning"}],
  [transition |-> "drain_dataflow",
   order |-> <<"db-run-registry", "file-logbook", "elisa-logbook">>, mandatory |-> {}]>>

MCGiven == {{}, UNION {required(m[1]) : m \in Method}}
=============================================================================
