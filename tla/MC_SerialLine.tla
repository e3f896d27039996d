---------------------------- MODULE MC_SerialLine ----------------------------
(* SerialLine on a line that fails twice, with requests that reach each    *)
(* branch of the dispatch.                                                 *)
EXTENDS SerialLine

MCRequests ==
  {[type |-> MESSAGE.REQUEST, command |-> COMMAND.PING, payload |-> << >>],
   [type |-> MESSAGE.REQUEST, command |-> COMMAND.SET_TELEMETRY,
    payload |-> << TELEMETRY_SCHEMA_VERSION, 1, 0, 1 >>],
   [type |-> MESSAGE.REQUEST, command |-> COMMAND.CONTROL_COMMAND, payload |-> << 1 >>],
   [type |-> MESSAGE.REQUEST, command |-> COMMAND.AUTH_BEGIN, payload |-> << >>]}
=============================================================================
