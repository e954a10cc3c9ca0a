---------------------------- MODULE AtomicReplace ----------------------------
(***************************************************************************)
(* What "in a transaction" promises about storeContentEmbeddings           *)
(* (src/repositories/post.repository.ts): the chunks of a post are replaced*)
(* as a whole or not at all, a call that returns normally has replaced     *)
(* them, and a call that failed may have done so only if the outcome of    *)
(* its COMMIT was not known.                                               *)
(***************************************************************************)
CONSTANTS
  Calls,   \* the calls of storeContentEmbeddings for one post
  Empty    \* no chunks are stored

VARIABLES
  content, \* the call whose chunks are stored, or Empty
  status   \* status[j]: "open", "ok" (returned) or "failed" (threw)

vars == <<content, status>>

Init ==
  /\ content = Empty
  /\ status = [j \in Calls |-> "open"]

Replace(j) ==
  /\ status[j] = "open"
  /\ content' = j
  /\ \E outcome \in {"ok", "open"} : status' = [status EXCEPT ![j] = outcome]

Fail(j) ==
  /\ status[j] = "open"
  /\ status' = [status EXCEPT ![j] = "failed"]
  /\ UNCHANGED content

Next == \E j \in Calls : Replace(j) \/ Fail(j)

Spec == Init /\ [][Next]_vars
=============================================================================
