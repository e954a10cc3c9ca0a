------------------------- MODULE MCEmbeddingWorker -------------------------
(***************************************************************************)
(* Instances of EmbeddingWorker for TLC.                                   *)
(***************************************************************************)
EXTENDS EmbeddingWorker, TLC

\* Fault budgets: how often each kind of fault may happen in a behaviour.
Budget(service, cache, redis, reply, signal, kill) ==
  [k \in FaultKinds |->
     CASE k = "service" -> service [] k = "cache" -> cache [] k = "redis" -> redis
       [] k = "reply" -> reply [] k = "signal" -> signal [] k = "kill" -> kill]

EveryFault == Budget(1, 1, 1, 1, 1, 1)
ServiceAndCacheFaults == Budget(2, 1, 0, 1, 0, 0)
NoFaults == Budget(0, 0, 0, 0, 0, 0)
=============================================================================
