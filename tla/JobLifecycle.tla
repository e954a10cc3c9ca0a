---------------------------- MODULE JobLifecycle ----------------------------
(***************************************************************************)
(* What the queue promises for a job, whoever runs it: it is run at most   *)
(* MaxRuns times, one run at a time; it fails only after the last of them, *)
(* or without any if it cannot be read; done, failed and lost are final.   *)
(* A retry or a failure reported twice makes a second job with as many     *)
(* runs behind it.                                                         *)
(* EmbeddingWorker implements it.                                          *)
(***************************************************************************)
EXTENDS Naturals

CONSTANTS Jobs, MaxRuns

VARIABLES
  state,  \* state[i]: "unborn", "queued", "held", "done", "failed" or "lost"
  runs    \* runs[i]: how often job i was run

vars == <<state, runs>>

Init ==
  /\ state = [i \in Jobs |-> "unborn"]
  /\ runs = [i \in Jobs |-> 0]

Becomes(i, from, to) == state[i] = from /\ state' = [state EXCEPT ![i] = to]

Push(i) == Becomes(i, "unborn", "queued") /\ UNCHANGED runs

\* A run begins, and may end at once.
Run(i) ==
  /\ runs[i] < MaxRuns
  /\ Becomes(i, "queued", "held") \/ Becomes(i, "queued", "done")
  /\ runs' = [runs EXCEPT ![i] = @ + 1]

\* A job that cannot be read is on its way to fail without a run.
Reject(i) == runs[i] = 0 /\ Becomes(i, "queued", "held") /\ UNCHANGED runs

Retry(i) == runs[i] \in 1 .. MaxRuns - 1 /\ Becomes(i, "held", "queued") /\ UNCHANGED runs

Complete(i) == runs[i] > 0 /\ Becomes(i, "held", "done") /\ UNCHANGED runs

Fail(i) == runs[i] \in {0, MaxRuns} /\ Becomes(i, "held", "failed") /\ UNCHANGED runs

\* The retry or the failure of job i counts twice, once as the new job k.
Repeat(i, k) ==
  /\ state[i] = "held"
  /\ \/ runs[i] \in 1 .. MaxRuns - 1 /\ Becomes(k, "unborn", "queued")
     \/ runs[i] \in {0, MaxRuns} /\ Becomes(k, "unborn", "failed")
  /\ runs' = [runs EXCEPT ![k] = runs[i]]

\* The process that holds it, or its connection, is gone.
Lose(i) ==
  /\ Becomes(i, "held", "lost") \/ Becomes(i, "queued", "lost")
  /\ UNCHANGED runs

Next == \E i \in Jobs : \/ Push(i) \/ Run(i) \/ Reject(i) \/ Retry(i)
                        \/ Complete(i) \/ Fail(i) \/ Lose(i)
                        \/ \E k \in Jobs : Repeat(i, k)

Spec == Init /\ [][Next]_vars
=============================================================================
