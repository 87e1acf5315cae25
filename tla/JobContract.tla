---------------------------- MODULE JobContract ----------------------------
(***************************************************************************)
(* What the queue promises to the client that polls GET /v1/jobs/{id}      *)
(* (Store.Job, web/src/lib/jobPolling.ts): a job is attempted, retried and *)
(* finally decided; SUCCEEDED means that every document it needs has been  *)
(* extracted, DEAD_LETTER that the attempts are used up.  Workers, leases, *)
(* the line and the steps of an attempt do not appear.                     *)
(***************************************************************************)
EXTENDS Naturals

CONSTANTS Jobs, Sources, MaxAttempts

VARIABLES
    status,    \* what the client reads
    needs,     \* the documents the job was enqueued with
    tries,     \* attempts begun
    extracted  \* documents whose extraction is complete

contractVars == <<status, needs, tries, extracted>>

Init ==
    /\ status = [j \in Jobs |-> "NONE"]
    /\ needs = [j \in Jobs |-> {}]
    /\ tries = [j \in Jobs |-> 0]
    /\ extracted = {}

Enqueue(j, S) ==
    /\ status[j] = "NONE"
    /\ status' = [status EXCEPT ![j] = IF S = {} THEN "SUCCEEDED" ELSE "QUEUED"]
    /\ needs' = [needs EXCEPT ![j] = S]
    /\ UNCHANGED <<tries, extracted>>

Attempt(j) ==
    /\ status[j] \in {"QUEUED", "LEASED"}
    /\ status' = [status EXCEPT ![j] = "LEASED"]
    /\ tries' = [tries EXCEPT ![j] = @ + 1]
    /\ UNCHANGED <<needs, extracted>>

\* Documents are extracted once, and only for a job under way.
Extract(s) ==
    /\ s \notin extracted
    /\ \E j \in Jobs : status[j] = "LEASED" /\ s \in needs[j]
    /\ extracted' = extracted \cup {s}
    /\ UNCHANGED <<status, needs, tries>>

Succeed(j) ==
    /\ status[j] = "LEASED"
    /\ needs[j] \subseteq extracted
    /\ status' = [status EXCEPT ![j] = "SUCCEEDED"]
    /\ UNCHANGED <<needs, tries, extracted>>

Retry(j) ==
    /\ status[j] = "LEASED"
    /\ tries[j] < MaxAttempts
    /\ status' = [status EXCEPT ![j] = "QUEUED"]
    /\ UNCHANGED <<needs, tries, extracted>>

Bury(j) ==
    /\ status[j] = "LEASED"
    /\ tries[j] >= MaxAttempts
    /\ status' = [status EXCEPT ![j] = "DEAD_LETTER"]
    /\ UNCHANGED <<needs, tries, extracted>>

Next ==
    \/ \E j \in Jobs, S \in SUBSET Sources : Enqueue(j, S)
    \/ \E j \in Jobs : Attempt(j) \/ Succeed(j) \/ Retry(j) \/ Bury(j)
    \/ \E s \in Sources : Extract(s)

Spec == Init /\ [][Next]_contractVars

=============================================================================
