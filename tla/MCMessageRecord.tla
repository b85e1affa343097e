--------------------------- MODULE MCMessageRecord ---------------------------
(* An instance of MessageRecord for TLC: enough statuses for a delivery,   *)
(* a failure with a retry and a relay's acceptance, three revisions.       *)
EXTENDS MessageRecord

MCStatuses == {1, 4, 5, 9}
=============================================================================
