-------------------------- MODULE MCDeviceService --------------------------
(* A small instance of DeviceService for TLC: one normal slot shared by a  *)
(* send and a query, a format and a restart for the reserved one.          *)
EXTENDS DeviceService

Small == {[operation |-> "Send", need |-> 1], [operation |-> "Query", need |-> 1],
          [operation |-> "Restart", need |-> 0], [operation |-> "FormatSD", need |-> 0]}
=============================================================================
