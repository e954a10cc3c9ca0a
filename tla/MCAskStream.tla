---------------------------- MODULE MCAskStream ----------------------------
(***************************************************************************)
(* Instances of AskStream for TLC.                                         *)
(***************************************************************************)
EXTENDS AskStream, TLC

\* Fault budgets: how often each kind of fault may happen in a behaviour.
Budget(service, llm, cutoff, commit, disconnect, crash) ==
  [k \in FaultKinds |->
     CASE k = "service" -> service [] k = "llm" -> llm [] k = "cutoff" -> cutoff
       [] k = "commit" -> commit [] k = "disconnect" -> disconnect
       [] k = "crash" -> crash]

EveryFaultButCrash == Budget(1, 1, 1, 1, 1, 0)
CrashOnly == Budget(0, 0, 0, 0, 0, 1)
NoFaults == Budget(0, 0, 0, 0, 0, 0)

Symmetry == Permutations(Asks) \cup Permutations(Sessions)
=============================================================================
