-------------------------- MODULE MCServiceMailbox --------------------------
(* A small instance of ServiceMailbox for TLC: a send and a query compete  *)
(* for blocks, and a restart takes the reserved slot.                      *)
EXTENDS ServiceMailbox

Small == {[operation |-> "Send", need |-> 1], [operation |-> "Query", need |-> 2],
          [operation |-> "Restart", need |-> 0]}
=============================================================================
