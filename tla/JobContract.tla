----------------------------- MODULE JobContract -----------------------------
(***************************************************************************)
(* What the row of a processing job promises to everyone who reads it,     *)
(* whatever the API replicas, the task queue and the worker passes do in   *)
(* between: the row is born QUEUED with no retries, its retry count is     *)
(* stamped by the API only while it is QUEUED, one claim takes it from     *)
(* QUEUED to RUNNING, and once it is settled (SUCCEEDED, FAILED or         *)
(* RETRYABLE) it is never in flight again.  Settled states may replace one *)
(* another: the statements that write them carry no guard on the status.   *)
(***************************************************************************)
EXTENDS Naturals

CONSTANTS Jobs        \* the identities of the jobs

VARIABLES status,     \* the status column of each job, "none" before its INSERT
          retry       \* the retry_count column of each job

contractVars == <<status, retry>>

InFlight == {"queued", "running"}
Settled == {"succeeded", "failed", "retryable"}

\* The row does not exist yet.
ContractInit ==
  /\ status = [j \in Jobs |-> "none"]
  /\ retry = [j \in Jobs |-> 0]

\* The INSERT: QUEUED, with a retry count of zero.
Born(j) ==
  /\ status[j] = "none"
  /\ status' = [status EXCEPT ![j] = "queued"]
  /\ UNCHANGED retry

\* The API stamps the retry count on a resumed job nobody has claimed.
Stamped(j) ==
  /\ status[j] = "queued"
  /\ retry'[j] \in Nat
  /\ retry' = [retry EXCEPT ![j] = retry'[j]]
  /\ UNCHANGED status

\* A worker pass claims the job.
Claimed(j) ==
  /\ status[j] = "queued"
  /\ status' = [status EXCEPT ![j] = "running"]
  /\ UNCHANGED retry

\* The job is given up by the API, or ends in a worker pass.  Only a job that
\* has been claimed can succeed or be put aside for a retry, which counts one.
GivenUp(j) ==
  /\ status[j] # "none"
  /\ status' = [status EXCEPT ![j] = "failed"]
  /\ UNCHANGED retry

Succeeded(j) ==
  /\ status[j] \notin {"none", "queued"}
  /\ status' = [status EXCEPT ![j] = "succeeded"]
  /\ UNCHANGED retry

PutAside(j) ==
  /\ status[j] \notin {"none", "queued"}
  /\ status' = [status EXCEPT ![j] = "retryable"]
  /\ retry' = [retry EXCEPT ![j] = @ + 1]

ContractNext ==
  \E j \in Jobs :
    \/ Born(j)
    \/ Stamped(j)
    \/ Claimed(j)
    \/ GivenUp(j)
    \/ Succeeded(j)
    \/ PutAside(j)

ContractSpec == ContractInit /\ [][ContractNext]_contractVars

=============================================================================
