----------------------------- MODULE MCThreadPool -----------------------------
(* The instance of ThreadPool for TLC: ids 0 and 2 share worker 0.           *)
EXTENDS ThreadPool, TLC

CONSTANTS a, b, c

TaskIds == a :> 0 @@ b :> 0 @@ c :> 2
=============================================================================
