---------------------------- MODULE Idempotency ----------------------------
(***************************************************************************)
(* The in-memory idempotency layer in front of every mutating handler      *)
(* (src/api/internal/httpapi/idempotency.go).  A request owns the record   *)
(* it creates, so a record is named by that request: comparing records     *)
(* below is the pointer comparison of the code.  acquire, complete and     *)
(* abort hold the store's mutex and are one action each.                   *)
(***************************************************************************)
EXTENDS Naturals, FiniteSets

CONSTANTS
    Requests,     \* HTTP requests; a client's retry is another request
    Scopes,       \* workspace and Idempotency-Key
    Hashes,       \* SHA-256 of method, URI and body
    Capacity,     \* maxInMemoryIdempotencyKeys
    MaxRestarts,  \* bound: restarts of the API process
    NoRequest, NoScope, NoHash

ASSUME IdempotencyAssumption ==
    /\ Capacity \in Nat \ {0}
    /\ IsFiniteSet(Scopes)
    /\ MaxRestarts \in Nat
    /\ NoRequest \notin Requests
    /\ NoScope \notin Scopes
    /\ NoHash \notin Hashes

VARIABLES
    records,  \* records[k]: the request whose record is stored under k
    record,   \* record[r]: the fields of the record r created
    request,  \* request[r]: the goroutine serving r
    restarts

vars == <<records, record, request, restarts>>

RequestState ==
    {"new", "running", "waiting",
     "committed",  \* ran the handler to an answer with a status below 500
     "failed",     \* ran the handler, answered with 5xx
     "panicked",   \* ran the handler, which panicked
     "replayed",   \* answered with the recorded response
     "retry",      \* 503 IDEMPOTENT_OPERATION_RETRY
     "reused",     \* 409 IDEMPOTENCY_KEY_REUSED
     "capacity",   \* 503 IDEMPOTENCY_CAPACITY
     "cancelled",  \* the client left while the request was waiting
     "lost"}       \* the process died under the request

\* stored: status is not 0.  closed: the ready channel.  old: 24 hours old.
RecordFields == [stored : BOOLEAN, closed : BOOLEAN, old : BOOLEAN]
NewRecord == [stored |-> FALSE, closed |-> FALSE, old |-> FALSE]

Goroutine == [state : RequestState, scope : Scopes \cup {NoScope},
              hash : Hashes \cup {NoHash}, target : Requests \cup {NoRequest}]

\* Records, channels and goroutines have the shapes of idempotency.go.
TypeOK ==
    /\ records \in [Scopes -> Requests \cup {NoRequest}]
    /\ record \in [Requests -> RecordFields]
    /\ request \in [Requests -> Goroutine]
    /\ restarts \in Nat

Init ==
    /\ records = [k \in Scopes |-> NoRequest]
    /\ record = [r \in Requests |-> NewRecord]
    /\ request = [r \in Requests |->
                    [state |-> "new", scope |-> NoScope, hash |-> NoHash,
                     target |-> NoRequest]]
    /\ restarts = 0

-----------------------------------------------------------------------------

Size(store) == Cardinality({k \in Scopes : store[k] # NoRequest})

\* Mutant: eviction forgets to spare records without an answer.
EvictableByAge(r) == r # NoRequest /\ record[r].old

\* Mutant: eviction forgets the retention.
EvictableWhenAnswered(r) == r # NoRequest /\ record[r].stored

Evictable(r) == r # NoRequest /\ record[r].stored /\ record[r].old

\* Full stores drop every answered record that is past its retention.
Evicted ==
    IF Size(records) >= Capacity
    THEN [k \in Scopes |-> IF Evictable(records[k]) THEN NoRequest ELSE records[k]]
    ELSE records

Serve(r, k, h, state, target) ==
    request' = [request EXCEPT ![r] = [state |-> state, scope |-> k,
                                       hash |-> h, target |-> target]]

\* Mutant: the hash of the request is not compared.
AcquireAnyHash(r, k, h) ==
    /\ request[r].state = "new"
    /\ records[k] # NoRequest
    /\ Serve(r, k, h, "waiting", records[k])
    /\ UNCHANGED <<records, record, restarts>>

\* Mutant: the waiter keeps the key instead of the record found under it.
WaitForKey(r, k, h) ==
    /\ request[r].state = "new"
    /\ records[k] # NoRequest
    /\ Serve(r, k, h, IF request[records[k]].hash = h THEN "waiting" ELSE "reused", k)
    /\ UNCHANGED <<records, record, restarts>>

\* acquire finds the key: the request waits for the owner of the record, or
\* is turned away because the owner's request was a different one.
AcquireExisting(r, k, h) ==
    /\ request[r].state = "new"
    /\ records[k] # NoRequest
    /\ Serve(r, k, h,
             IF request[records[k]].hash = h THEN "waiting" ELSE "reused",
             records[k])
    /\ UNCHANGED <<records, record, restarts>>

\* Mutant: the limit is compared with the wrong operator.
AcquireOneMore(r, k, h) ==
    /\ request[r].state = "new"
    /\ records[k] = NoRequest
    /\ Size(Evicted) <= Capacity
    /\ records' = [Evicted EXCEPT ![k] = r]
    /\ Serve(r, k, h, "running", NoRequest)
    /\ UNCHANGED <<record, restarts>>

AcquireNew(r, k, h) ==
    /\ request[r].state = "new"
    /\ records[k] = NoRequest
    /\ Size(Evicted) < Capacity
    /\ records' = [Evicted EXCEPT ![k] = r]
    /\ Serve(r, k, h, "running", NoRequest)
    /\ UNCHANGED <<record, restarts>>

AcquireFull(r, k, h) ==
    /\ request[r].state = "new"
    /\ records[k] = NoRequest
    /\ Size(Evicted) >= Capacity
    /\ records' = Evicted
    /\ Serve(r, k, h, "capacity", NoRequest)
    /\ UNCHANGED <<record, restarts>>

\* complete with a status below 500: the answer stays under the key.
Complete(r) ==
    /\ request[r].state = "running"
    /\ record' = [record EXCEPT ![r].stored = TRUE, ![r].closed = TRUE]
    /\ request' = [request EXCEPT ![r].state = "committed"]
    /\ UNCHANGED <<records, restarts>>

\* Mutant: an early return on errors leaves the channel open.
ErrorKeepsWaiters(r) ==
    /\ request[r].state = "running"
    /\ records' = [records EXCEPT ![request[r].scope] = NoRequest]
    /\ request' = [request EXCEPT ![r].state = "failed"]
    /\ UNCHANGED <<record, restarts>>

\* complete with 5xx: delete(s.records, scope) without looking whose record
\* is stored there.
CompleteError(r) ==
    /\ request[r].state = "running"
    /\ records' = [records EXCEPT ![request[r].scope] = NoRequest]
    /\ record' = [record EXCEPT ![r].closed = TRUE]
    /\ request' = [request EXCEPT ![r].state = "failed"]
    /\ UNCHANGED restarts

\* Mutant: a panic frees the key and forgets the waiters.
AbortKeepsWaiters(r) ==
    /\ request[r].state = "running"
    /\ records' = [records EXCEPT ![request[r].scope] = NoRequest]
    /\ request' = [request EXCEPT ![r].state = "panicked"]
    /\ UNCHANGED <<record, restarts>>

\* The deferred abort of a handler that panicked.  It only closes ready when
\* the key still leads to this record.
Abort(r) ==
    /\ request[r].state = "running"
    /\ IF records[request[r].scope] = r
       THEN /\ records' = [records EXCEPT ![request[r].scope] = NoRequest]
            /\ record' = [record EXCEPT ![r].closed = TRUE]
       ELSE UNCHANGED <<records, record>>
    /\ request' = [request EXCEPT ![r].state = "panicked"]
    /\ UNCHANGED restarts

\* <-record.ready
Replay(r) ==
    /\ request[r].state = "waiting"
    /\ record[request[r].target].closed
    /\ request' = [request EXCEPT ![r].state =
                     IF record[request[r].target].stored THEN "replayed" ELSE "retry"]
    /\ UNCHANGED <<records, record, restarts>>

\* <-r.Context().Done()
Cancel(r) ==
    /\ request[r].state = "waiting"
    /\ request' = [request EXCEPT ![r].state = "cancelled"]
    /\ UNCHANGED <<records, record, restarts>>

\* 24 hours pass since the record was created.
Age(r) ==
    /\ request[r].state \in {"running", "committed"}
    /\ ~record[r].old
    /\ record' = [record EXCEPT ![r].old = TRUE]
    /\ UNCHANGED <<records, request, restarts>>

\* The API process is replaced: the store is empty again and open requests
\* are cut off.  A handler may have committed its work just before.
Restart ==
    /\ restarts < MaxRestarts
    /\ restarts' = restarts + 1
    /\ records' = [k \in Scopes |-> NoRequest]
    /\ \E done \in SUBSET {r \in Requests : request[r].state = "running"} :
          request' = [r \in Requests |->
              IF r \in done THEN [request[r] EXCEPT !.state = "committed"]
              ELSE IF request[r].state \in {"running", "waiting"}
                   THEN [request[r] EXCEPT !.state = "lost"]
                   ELSE request[r]]
    /\ UNCHANGED record

-----------------------------------------------------------------------------

Acquire(r) ==
    \E k \in Scopes, h \in Hashes :
        AcquireExisting(r, k, h) \/ AcquireNew(r, k, h) \/ AcquireFull(r, k, h)

Finish(r) == Complete(r) \/ CompleteError(r) \/ Abort(r)

Next ==
    \/ \E r \in Requests :
          Acquire(r) \/ Finish(r) \/ Replay(r) \/ Cancel(r) \/ Age(r)
    \/ Restart

\* Handlers return (their outbound calls carry timeouts) and runnable
\* goroutines run; clients need not cancel and nothing forces a restart.
Fairness == \A r \in Requests : WF_vars(Finish(r)) /\ WF_vars(Replay(r))

Spec == Init /\ [][Next]_vars
FairSpec == Spec /\ Fairness

-----------------------------------------------------------------------------

\* The record of a running handler stays registered under its key and open:
\* no eviction, failure or abort of another request takes it away.  This is
\* what makes the unguarded delete of complete remove its own record only.
RunningIsRegistered ==
    \A r \in Requests : request[r].state = "running" =>
        /\ records[request[r].scope] = r
        /\ ~record[r].closed

\* A waiter is never left behind: what it waits for is still being produced
\* or its channel is closed, although abort closes it on one branch only.
NoStrandedWaiter ==
    \A r \in Requests : request[r].state = "waiting" =>
        LET o == request[r].target IN
        request[o].state = "running" \/ record[o].closed

\* A replayed answer is the committed answer to the same request under the
\* same key; the retry answer is only given when nothing was recorded.
ReplaysAreFaithful ==
    \A r \in Requests :
        LET o == request[r].target IN
        /\ request[r].state \in {"waiting", "replayed", "retry"} =>
              /\ o # NoRequest
              /\ request[o].scope = request[r].scope
              /\ request[o].hash = request[r].hash
        /\ request[r].state = "replayed" => request[o].state = "committed"
        /\ request[r].state = "retry" => request[o].state \in {"failed", "panicked"}

\* Within the retention the handler runs to an answer below 500 at most once
\* per key, whatever retries, failures, panics and evictions come between.
KeyCommitsOnce ==
    \A r, q \in Requests :
        /\ r # q
        /\ request[r].state = "committed"
        /\ request[q].state = "committed"
        /\ request[r].scope = request[q].scope
        => record[r].old \/ record[q].old

\* Which the code grants while one API process lives: the records die with it.
KeyCommitsOnceInOneLife == restarts = 0 => KeyCommitsOnce

\* The store never grows past its limit.
CapacityRespected == Size(records) <= Capacity

\* Every request that was let in gets an answer.
EveryRequestAnswered ==
    \A r \in Requests :
        request[r].state \in {"running", "waiting"} ~>
            request[r].state \notin {"running", "waiting"}

=============================================================================
