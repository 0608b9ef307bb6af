--------------------------- MODULE MCRequestLogs ---------------------------
(***************************************************************************)
(* Instances of RequestLogs for TLC.  Records of different requests share  *)
(* no row, document or job, so one request shows every interleaving of its *)
(* own enqueue, attempts, dead letter, repair, retention and recount.      *)
(***************************************************************************)
EXTENDS RequestLogs

CONSTANT r1
=============================================================================
