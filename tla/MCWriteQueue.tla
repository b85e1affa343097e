---------------------------- MODULE MCWriteQueue ----------------------------
(* Small instances of WriteQueue for TLC.                                  *)
EXTENDS WriteQueue

CONSTANTS setup, service

(* One request of each slot class.                                         *)
EveryClass == {[operation |-> "Create", need |-> 1],
               [operation |-> "DeleteConversation", need |-> 0],
               [operation |-> "UpdateStatus", need |-> 0]}

(* Small and large payloads, which compete for the normal slots.           *)
TwoSizes == {[operation |-> "Create", need |-> 1], [operation |-> "Read", need |-> 2]}
=============================================================================
