------------------------------ MODULE MCStoreTx ------------------------------
(* Model values and bounds for checking StoreTx. *)
EXTENDS StoreTx, TLC

CONSTANTS w1, r1, r2, f1

NoRetry == {0}

\* One definition, id 1, and the child its entry spawns, id 2.
MCOffered ==
  [kind : {"claim"}, worker : Workers]
    \cup [kind : {"report"}, id : {2}, worker : Workers, ok : BOOLEAN]
    \cup [kind : {"report"}, id : {1}, worker : {NoWorker}, ok : {TRUE}]
    \cup [kind : {"enable"}, id : {1}, on : BOOLEAN]
    \cup [kind : {"create"}, type : {"cron"}, max : {0}, parent : {0}]
    \cup [kind : {"delete"}, id : {1}]
    \cup [kind : {"stop", "resume"}, id : {2}]
    \cup [kind : {"stopAll"}]
=============================================================================
