------------------------- MODULE IdempotencyProofs -------------------------
(***************************************************************************)
(* Proofs about Idempotency, for any number of requests, keys and bodies   *)
(* and any capacity.                                                       *)
(***************************************************************************)
EXTENDS Idempotency, FiniteSetTheorems, TLAPS

\* The variables keep their types: every handler, waiter and restart step
\* writes only values the records of idempotency.go can hold.
THEOREM TypeCorrect == Spec => []TypeOK
<1>1. Init => TypeOK
  BY DEF Init, TypeOK, RecordFields, NewRecord, Goroutine, RequestState
<1>2. TypeOK /\ [Next]_vars => TypeOK'
  <2> SUFFICES ASSUME TypeOK, [Next]_vars
               PROVE  TypeOK'
    OBVIOUS
  <2> USE DEF TypeOK, RecordFields, Goroutine, RequestState
  <2>1. ASSUME NEW r \in Requests, NEW k \in Scopes, NEW h \in Hashes,
               AcquireExisting(r, k, h)
        PROVE  TypeOK'
    BY <2>1 DEF AcquireExisting, Serve
  <2>2. Evicted \in [Scopes -> Requests \cup {NoRequest}]
    BY DEF Evicted
  <2>3. ASSUME NEW r \in Requests, NEW k \in Scopes, NEW h \in Hashes,
               AcquireNew(r, k, h)
        PROVE  TypeOK'
    BY <2>2, <2>3 DEF AcquireNew, Serve
  <2>4. ASSUME NEW r \in Requests, NEW k \in Scopes, NEW h \in Hashes,
               AcquireFull(r, k, h)
        PROVE  TypeOK'
    BY <2>2, <2>4 DEF AcquireFull, Serve
  <2>5. ASSUME NEW r \in Requests, Complete(r)
        PROVE  TypeOK'
    <3>1. record' = [record EXCEPT ![r].stored = TRUE, ![r].closed = TRUE]
      BY <2>5, Zenon DEF Complete
    <3>2. record' \in [Requests -> RecordFields]
      BY <3>1
    <3>3. request' = [request EXCEPT ![r].state = "committed"]
      BY <2>5, Zenon DEF Complete
    <3>4. request' \in [Requests -> Goroutine]
      BY <3>3
    <3>5. records' = records /\ restarts' = restarts
      BY <2>5, Zenon DEF Complete
    <3>6. QED
      BY <3>2, <3>4, <3>5
  <2>6. \A x : [records EXCEPT ![x] = NoRequest] \in [Scopes -> Requests \cup {NoRequest}]
    <3> TAKE x
    <3> DEFINE cleared == [records EXCEPT ![x] = NoRequest]
    <3>1. cleared = [k \in Scopes |-> IF k = x THEN NoRequest ELSE records[k]]
      OBVIOUS
    <3>2. QED
      BY <3>1
  <2>7. ASSUME NEW r \in Requests, CompleteError(r) \/ Abort(r)
        PROVE  TypeOK'
    <3>1. records' \in [Scopes -> Requests \cup {NoRequest}]
      BY <2>6, <2>7, Zenon DEF CompleteError, Abort
    <3>2. record' = record \/ record' = [record EXCEPT ![r].closed = TRUE]
      BY <2>7, Zenon DEF CompleteError, Abort
    <3>3. \/ request' = [request EXCEPT ![r].state = "failed"]
          \/ request' = [request EXCEPT ![r].state = "panicked"]
      BY <2>7, Zenon DEF CompleteError, Abort
    <3>4. restarts' = restarts
      BY <2>7 DEF CompleteError, Abort
    <3>5. record' \in [Requests -> RecordFields]
      BY <3>2
    <3>6. request' \in [Requests -> Goroutine]
      BY <3>3
    <3>7. QED
      BY <3>1, <3>4, <3>5, <3>6
  <2>8. ASSUME NEW r \in Requests, Replay(r)
        PROVE  TypeOK'
    <3>1. \/ request' = [request EXCEPT ![r].state = "replayed"]
          \/ request' = [request EXCEPT ![r].state = "retry"]
      BY <2>8, Zenon DEF Replay
    <3>2. QED
      BY <2>8, <3>1 DEF Replay
  <2>9. ASSUME NEW r \in Requests, Cancel(r)
        PROVE  TypeOK'
    BY <2>9 DEF Cancel
  <2>10. ASSUME NEW r \in Requests, Age(r)
         PROVE  TypeOK'
    BY <2>10 DEF Age
  <2>11. CASE Restart
    <3>1. records' \in [Scopes -> Requests \cup {NoRequest}] /\ record' = record
      BY <2>11 DEF Restart
    <3>2. restarts' \in Nat
      BY <2>11 DEF Restart
    <3>3. PICK done : request' = [r \in Requests |->
              IF r \in done THEN [request[r] EXCEPT !.state = "committed"]
              ELSE IF request[r].state \in {"running", "waiting"}
                   THEN [request[r] EXCEPT !.state = "lost"]
                   ELSE request[r]]
      BY <2>11 DEF Restart
    <3>4. request' \in [Requests -> Goroutine]
      BY <3>3
    <3>5. QED
      BY <3>1, <3>2, <3>4
  <2>12. CASE UNCHANGED vars
    BY <2>12 DEF vars
  <2>13. QED
    BY <2>1, <2>3, <2>4, <2>5, <2>7, <2>8, <2>9, <2>10, <2>11, <2>12
       DEF Next, Acquire, Finish
<1>3. QED
  BY <1>1, <1>2, PTL DEF Spec

-----------------------------------------------------------------------------

\* What the store and the goroutines know about each other.  The two halves
\* of Registered and RecordsTellOutcome are what complete and abort rely on
\* when they touch a key or a channel without looking at the other requests.
Registered ==
    \A k \in Scopes : records[k] # NoRequest =>
        /\ request[records[k]].scope = k
        /\ request[records[k]].state \in {"running", "committed"}

RecordsTellOutcome ==
    \A r \in Requests :
        /\ record[r].stored => request[r].state = "committed" /\ record[r].closed
        /\ record[r].closed /\ ~record[r].stored =>
              request[r].state \in {"failed", "panicked"}
        /\ request[r].state = "running" => request[r].scope \in Scopes

WaitersKnowTheirOwner ==
    \A r \in Requests : request[r].state = "waiting" =>
        /\ request[r].target \in Requests
        /\ request[request[r].target].state = "running" \/ record[request[r].target].closed

CommittedIsStored ==
    \A k \in Scopes :
        records[k] # NoRequest /\ request[records[k]].state = "committed"
            => record[records[k]].stored

IInv ==
    /\ TypeOK
    /\ RunningIsRegistered
    /\ Registered
    /\ RecordsTellOutcome
    /\ WaitersKnowTheirOwner
    /\ CommittedIsStored
    /\ ReplaysAreFaithful

\* The values that stand for no request and no key are neither.
LEMMA NullIsNoRequest == NoRequest \notin Requests /\ NoScope \notin Scopes
  BY IdempotencyAssumption

\* The empty store satisfies the invariant.
LEMMA InitIInv == Init => IInv
  BY NullIsNoRequest
  DEF Init, IInv, TypeOK, RecordFields, NewRecord, Goroutine, RequestState,
      RunningIsRegistered, Registered, RecordsTellOutcome,
      WaitersKnowTheirOwner, CommittedIsStored, ReplaysAreFaithful

\* Every step of the middleware and its environment keeps the invariant.
LEMMA StepIInv == TypeOK' /\ IInv /\ [Next]_vars => IInv'
<1> SUFFICES ASSUME TypeOK', IInv, [Next]_vars
             PROVE  IInv'
  OBVIOUS
<1> USE NullIsNoRequest
    DEF IInv, TypeOK, RecordFields, Goroutine, RunningIsRegistered, Registered,
        RecordsTellOutcome, WaitersKnowTheirOwner, CommittedIsStored,
        ReplaysAreFaithful
<1>1. ASSUME NEW r \in Requests, NEW k \in Scopes, NEW h \in Hashes,
             AcquireExisting(r, k, h)
      PROVE  IInv'
  BY <1>1 DEF AcquireExisting, Serve
<1>2. \A k \in Scopes :
        \/ Evicted[k] = records[k]
        \/ Evicted[k] = NoRequest /\ request[records[k]].state # "running"
  BY DEF Evicted, Evictable
<1>3. ASSUME NEW r \in Requests, NEW k \in Scopes, NEW h \in Hashes,
             AcquireNew(r, k, h)
      PROVE  IInv'
  BY <1>2, <1>3 DEF AcquireNew, Serve
<1>4. ASSUME NEW r \in Requests, NEW k \in Scopes, NEW h \in Hashes,
             AcquireFull(r, k, h)
      PROVE  IInv'
  BY <1>2, <1>4 DEF AcquireFull, Serve
<1>5. ASSUME NEW r \in Requests, Complete(r)
      PROVE  IInv'
  BY <1>5 DEF Complete
<1>6. ASSUME NEW r \in Requests, CompleteError(r)
      PROVE  IInv'
  BY <1>6 DEF CompleteError
<1>7. ASSUME NEW r \in Requests, Abort(r)
      PROVE  IInv'
  <2>1. records[request[r].scope] = r
    BY <1>7 DEF Abort
  <2>2. /\ records' = [records EXCEPT ![request[r].scope] = NoRequest]
        /\ record' = [record EXCEPT ![r].closed = TRUE]
        /\ request' = [request EXCEPT ![r].state = "panicked"]
    BY <1>7, <2>1, Zenon DEF Abort
  <2>3. QED
    BY <1>7, <2>1, <2>2 DEF Abort
<1>8. ASSUME NEW r \in Requests, Replay(r)
      PROVE  IInv'
  <2>1. record' = record /\ records' = records
    BY <1>8 DEF Replay
  <2>2. PICK answer \in {"replayed", "retry"} :
          /\ request' = [request EXCEPT ![r].state = answer]
          /\ request[r].state = "waiting" /\ record[request[r].target].closed
          /\ answer = "replayed" <=> record[request[r].target].stored
    BY <1>8, Zenon DEF Replay
  <2>3. /\ request'[r] = [request[r] EXCEPT !.state = answer]
        /\ \A q \in Requests : q # r => request'[q] = request[q]
    BY <2>2
  <2>4. RunningIsRegistered' /\ Registered'
    BY <2>1, <2>2, <2>3
  <2>5. RecordsTellOutcome' /\ CommittedIsStored'
    BY <2>1, <2>2, <2>3
  <2>6. WaitersKnowTheirOwner'
    BY <2>1, <2>2, <2>3
  <2>7. ReplaysAreFaithful'
    BY <2>1, <2>2, <2>3
  <2>8. QED
    BY <2>4, <2>5, <2>6, <2>7
<1>9. ASSUME NEW r \in Requests, Cancel(r)
      PROVE  IInv'
  BY <1>9 DEF Cancel
<1>10. ASSUME NEW r \in Requests, Age(r)
       PROVE  IInv'
  BY <1>10 DEF Age
<1>11. CASE Restart
  <2>1. PICK done \in SUBSET {r \in Requests : request[r].state = "running"} :
          request' = [r \in Requests |->
              IF r \in done THEN [request[r] EXCEPT !.state = "committed"]
              ELSE IF request[r].state \in {"running", "waiting"}
                   THEN [request[r] EXCEPT !.state = "lost"]
                   ELSE request[r]]
    BY <1>11 DEF Restart
  <2>2. record' = record /\ records' = [k \in Scopes |-> NoRequest]
    BY <1>11 DEF Restart
  <2>3. \A r \in Requests :
          /\ request'[r].scope = request[r].scope
          /\ request'[r].hash = request[r].hash
          /\ request'[r].target = request[r].target
          /\ request'[r].state \notin {"running", "waiting"}
          /\ request[r].state \notin {"running", "waiting"} =>
                request'[r].state = request[r].state
          /\ request[r].state \in {"running", "waiting"} =>
                request'[r].state \in {"committed", "lost"}
    BY <2>1
  <2>4. RunningIsRegistered' /\ WaitersKnowTheirOwner'
    BY <2>3
  <2>5. Registered' /\ CommittedIsStored'
    BY <2>2
  <2>6. RecordsTellOutcome'
    BY <2>2, <2>3
  <2>7. ReplaysAreFaithful'
    <3>1. \A r \in Requests : request[r].state \in {"replayed", "retry"} =>
              request[r].target \in Requests
      OBVIOUS
    <3>2. \A r \in Requests : request'[r].state \in {"replayed", "retry"} =>
              request[r].state = request'[r].state
      BY <2>3
    <3>3. QED
      BY <2>3, <3>1, <3>2
  <2>8. QED
    BY <2>4, <2>5, <2>6, <2>7
<1>12. CASE UNCHANGED vars
  BY <1>12 DEF vars
<1>13. QED
  BY <1>1, <1>3, <1>4, <1>5, <1>6, <1>7, <1>8, <1>9, <1>10, <1>11, <1>12
     DEF Next, Acquire, Finish

\* The record of a running handler stays registered and open, so complete and
\* abort (idempotency.go) only ever delete and close their own record.
THEOREM RunningStaysRegistered == Spec => []RunningIsRegistered
<1>1. IInv /\ [Next]_vars /\ TypeOK' => IInv'
  BY StepIInv
<1>2. IInv => RunningIsRegistered
  BY DEF IInv
<1>3. QED
  BY InitIInv, <1>1, <1>2, TypeCorrect, PTL DEF Spec

\* No waiter is stranded on a channel nobody will close.
THEOREM NoWaiterStranded == Spec => []NoStrandedWaiter
<1>1. IInv /\ [Next]_vars /\ TypeOK' => IInv'
  BY StepIInv
<1>2. IInv => NoStrandedWaiter
  BY DEF IInv, WaitersKnowTheirOwner, NoStrandedWaiter
<1>3. QED
  BY InitIInv, <1>1, <1>2, TypeCorrect, PTL DEF Spec

\* Every replayed answer is the committed answer to the same request.
THEOREM ReplayIsFaithful == Spec => []ReplaysAreFaithful
<1>1. IInv /\ [Next]_vars /\ TypeOK' => IInv'
  BY StepIInv
<1>2. IInv => ReplaysAreFaithful
  BY DEF IInv
<1>3. QED
  BY InitIInv, <1>1, <1>2, TypeCorrect, PTL DEF Spec

-----------------------------------------------------------------------------

\* As long as the process has not been restarted, a committed answer younger
\* than the retention is still stored under its key.
FreshAnswersStay ==
    restarts = 0 =>
        \A r \in Requests :
            request[r].state = "committed" /\ ~record[r].old =>
                /\ request[r].scope \in Scopes
                /\ records[request[r].scope] = r
                /\ record[r].stored

\* Nothing but a restart or its age removes a committed answer.
LEMMA StepFresh == IInv /\ FreshAnswersStay /\ [Next]_vars => FreshAnswersStay'
<1> SUFFICES ASSUME IInv, FreshAnswersStay, [Next]_vars
             PROVE  FreshAnswersStay'
  OBVIOUS
<1> USE NullIsNoRequest
    DEF IInv, TypeOK, RecordFields, Goroutine, RunningIsRegistered,
        RecordsTellOutcome, FreshAnswersStay
<1>1. ASSUME NEW r \in Requests, NEW k \in Scopes, NEW h \in Hashes,
             AcquireExisting(r, k, h)
      PROVE  FreshAnswersStay'
  BY <1>1 DEF AcquireExisting, Serve
<1>2. \A k \in Scopes : Evicted[k] = records[k] \/ Evictable(records[k])
  BY DEF Evicted
<1>3. ASSUME NEW r \in Requests, NEW k \in Scopes, NEW h \in Hashes,
             AcquireNew(r, k, h)
      PROVE  FreshAnswersStay'
  BY <1>2, <1>3 DEF AcquireNew, Serve, Evictable
<1>4. ASSUME NEW r \in Requests, NEW k \in Scopes, NEW h \in Hashes,
             AcquireFull(r, k, h)
      PROVE  FreshAnswersStay'
  BY <1>2, <1>4 DEF AcquireFull, Serve, Evictable
<1>5. ASSUME NEW r \in Requests, Complete(r)
      PROVE  FreshAnswersStay'
  BY <1>5 DEF Complete
<1>6. ASSUME NEW r \in Requests, CompleteError(r)
      PROVE  FreshAnswersStay'
  BY <1>6 DEF CompleteError
<1>7. ASSUME NEW r \in Requests, Abort(r)
      PROVE  FreshAnswersStay'
  <2>1. records[request[r].scope] = r
    BY <1>7 DEF Abort
  <2>2. /\ records' = [records EXCEPT ![request[r].scope] = NoRequest]
        /\ record' = [record EXCEPT ![r].closed = TRUE]
        /\ request' = [request EXCEPT ![r].state = "panicked"]
    BY <1>7, <2>1, Zenon DEF Abort
  <2>3. QED
    BY <1>7, <2>1, <2>2 DEF Abort
<1>8. ASSUME NEW r \in Requests, Replay(r)
      PROVE  FreshAnswersStay'
  BY <1>8 DEF Replay
<1>9. ASSUME NEW r \in Requests, Cancel(r)
      PROVE  FreshAnswersStay'
  BY <1>9 DEF Cancel
<1>10. ASSUME NEW r \in Requests, Age(r)
       PROVE  FreshAnswersStay'
  BY <1>10 DEF Age
<1>11. CASE Restart
  BY <1>11 DEF Restart
<1>12. CASE UNCHANGED vars
  BY <1>12 DEF vars
<1>13. QED
  BY <1>1, <1>3, <1>4, <1>5, <1>6, <1>7, <1>8, <1>9, <1>10, <1>11, <1>12
     DEF Next, Acquire, Finish

\* While one API process lives, no key commits two executions within the
\* retention, whatever retries, failures, panics and evictions intervene.
THEOREM OneCommitPerKey == Spec => []KeyCommitsOnceInOneLife
<1> DEFINE Full == IInv /\ FreshAnswersStay
<1>1. Init => Full
  BY InitIInv DEF Init, FreshAnswersStay
<1>2. Full /\ TypeOK' /\ [Next]_vars => Full'
  BY StepIInv, StepFresh
<1>3. Full => KeyCommitsOnceInOneLife
  BY DEF FreshAnswersStay, KeyCommitsOnce, KeyCommitsOnceInOneLife
<1> HIDE DEF Full
<1>4. QED
  BY <1>1, <1>2, <1>3, TypeCorrect, PTL DEF Spec

-----------------------------------------------------------------------------

\* Deleting keys never makes the store larger.
LEMMA SizeShrinks ==
    ASSUME NEW f, NEW g,
           \A k \in Scopes : g[k] = f[k] \/ g[k] = NoRequest
    PROVE  Size(g) <= Size(f) /\ Size(f) \in Nat /\ Size(g) \in Nat
<1> DEFINE F == {k \in Scopes : f[k] # NoRequest}
           G == {k \in Scopes : g[k] # NoRequest}
<1>1. G \subseteq F
  OBVIOUS
<1>2. IsFiniteSet(F)
  BY FS_Subset, IdempotencyAssumption
<1>3. Cardinality(G) <= Cardinality(F) /\ IsFiniteSet(G)
  BY <1>1, <1>2, FS_Subset
<1>4. QED
  BY <1>2, <1>3, FS_CardinalityType DEF Size

\* One entry more makes the store larger by at most one key.
LEMMA SizeGrowsByOne ==
    ASSUME NEW f, NEW k \in Scopes, NEW r \in Requests,
           f \in [Scopes -> Requests \cup {NoRequest}]
    PROVE  Size([f EXCEPT ![k] = r]) <= Size(f) + 1
<1> DEFINE g == [f EXCEPT ![k] = r]
           F == {s \in Scopes : f[s] # NoRequest}
           G == {s \in Scopes : g[s] # NoRequest}
<1>1. IsFiniteSet(F)
  BY FS_Subset, IdempotencyAssumption
<1>2. G \subseteq F \cup {k}
  OBVIOUS
<1>7. Cardinality(F) \in Nat
  BY <1>1, FS_CardinalityType
<1>8. /\ IsFiniteSet(F \cup {k})
      /\ Cardinality(F \cup {k}) =
           IF k \in F THEN Cardinality(F) ELSE Cardinality(F) + 1
  <2> HIDE DEF F
  <2> QED
    BY <1>1, FS_AddElement
<1>3. IsFiniteSet(F \cup {k}) /\ Cardinality(F \cup {k}) <= Cardinality(F) + 1
  <2> HIDE DEF F
  <2> QED
    BY <1>7, <1>8
<1>4. Cardinality(G) <= Cardinality(F \cup {k}) /\ IsFiniteSet(G)
  BY <1>2, <1>3, FS_Subset
<1> HIDE DEF F, G, g
<1>5. Cardinality(G) <= Cardinality(F) + 1
  BY <1>1, <1>3, <1>4, FS_CardinalityType
<1>6. QED
  BY <1>5 DEF Size, F, G, g

\* The store of idempotency.go never holds more than
\* maxInMemoryIdempotencyKeys records.
THEOREM StoreIsBounded == Spec => []CapacityRespected
<1>1. Init => CapacityRespected
  <2> SUFFICES ASSUME Init PROVE CapacityRespected
    OBVIOUS
  <2>1. {k \in Scopes : records[k] # NoRequest} = {}
    BY DEF Init
  <2>2. QED
    BY <2>1, FS_EmptySet, IdempotencyAssumption DEF CapacityRespected, Size
<1>2. TypeOK /\ CapacityRespected /\ [Next]_vars => CapacityRespected'
  <2> SUFFICES ASSUME TypeOK, CapacityRespected, [Next]_vars
               PROVE  CapacityRespected'
    OBVIOUS
  <2>1. ASSUME \A k \in Scopes : records'[k] = records[k] \/ records'[k] = NoRequest
        PROVE  CapacityRespected'
    BY <2>1, SizeShrinks, IdempotencyAssumption DEF CapacityRespected
  <2>2. \A k \in Scopes : Evicted[k] = records[k] \/ Evicted[k] = NoRequest
    BY DEF Evicted
  <2>3. Evicted \in [Scopes -> Requests \cup {NoRequest}]
    BY DEF Evicted, TypeOK
  <2>4. ASSUME NEW r \in Requests, NEW k \in Scopes, NEW h \in Hashes,
               AcquireNew(r, k, h)
        PROVE  CapacityRespected'
    <3>1. Size(records') <= Size(Evicted) + 1
      BY <2>3, <2>4, SizeGrowsByOne DEF AcquireNew
    <3>2. Size(Evicted) < Capacity
      BY <2>4 DEF AcquireNew
    <3>3. Size(Evicted) \in Nat
      BY <2>2, SizeShrinks
    <3>4. Size(records') \in Nat
      BY SizeShrinks
    <3>5. QED
      BY <3>1, <3>2, <3>3, <3>4, IdempotencyAssumption DEF CapacityRespected
  <2>5. ASSUME NEW r \in Requests, NEW k \in Scopes, NEW h \in Hashes,
               AcquireFull(r, k, h)
        PROVE  CapacityRespected'
    BY <2>1, <2>2, <2>5 DEF AcquireFull
  <2>6. ASSUME NEW r \in Requests, CompleteError(r) \/ Abort(r)
        PROVE  CapacityRespected'
    <3>1. \/ records' = records
          \/ records' = [records EXCEPT ![request[r].scope] = NoRequest]
      BY <2>6, Zenon DEF CompleteError, Abort
    <3>2. QED
      BY <2>1, <3>1 DEF TypeOK
  <2>7. CASE Restart
    BY <2>1, <2>7 DEF Restart
  <2>8. CASE UNCHANGED records
    BY <2>1, <2>8
  <2>9. QED
    BY <2>4, <2>5, <2>6, <2>7, <2>8
       DEF Next, vars, Acquire, Finish, AcquireExisting, Complete, Replay, Cancel, Age
<1>3. QED
  BY <1>1, <1>2, TypeCorrect, PTL DEF Spec

=============================================================================
