-------------------------- MODULE ExtractionQueue --------------------------
(***************************************************************************)
(* The durable extraction queue: the jobs and company_sources tables, the  *)
(* statements the API and the worker run on them                           *)
(* (src/api/internal/pipeline/store.go, worker_store.go) and the worker's  *)
(* loop over them (src/api/cmd/worker/main.go,                             *)
(* src/api/internal/worker/processor.go).                                  *)
(*                                                                         *)
(* Every database statement is one action; between two of them anything    *)
(* else may happen.  Wall-clock time is abstracted to two bits per job:    *)
(* whether available_at has passed ("ready") and whether lease_expires_at  *)
(* is still ahead ("leaseLive").  A job joins the line when available_at   *)
(* passes, which is why ordering the line by that instant is the same as   *)
(* ordering by available_at.                                               *)
(***************************************************************************)
EXTENDS Naturals, FiniteSets

CONSTANTS
    Workers,      \* worker processes polling the queue
    Jobs,         \* rows of the jobs table
    Sources,      \* rows of company_sources, numbered by created_at
    MaxAttempts,  \* jobs.max_attempts
    MaxPasses,    \* bound: Gemini passes (lease renewals) over one source
    MaxClaims,    \* bound: claims of one job
    MaxLosses,    \* bound: times a worker is lost while it holds one job
    RenewalInTime, \* TRUE: a live worker renews its lease before it runs out
    NoJob, NoSource

ASSUME QueueAssumption ==
    /\ Sources \subseteq Nat
    /\ MaxAttempts \in Nat \ {0}
    /\ MaxPasses \in Nat \ {0}
    /\ MaxClaims \in Nat
    /\ MaxLosses \in Nat
    /\ RenewalInTime \in BOOLEAN
    /\ NoJob \notin Jobs
    /\ NoSource \notin Sources

VARIABLES
    job,     \* job[j]: the row of job j
    ahead,   \* ahead[j]: the jobs that became available before j
    source,  \* source[s]: company_sources.status of s
    saved,   \* the sources whose field_candidates are committed
    work,    \* work[w]: the local variables of worker w
    losses   \* losses[j]: history, how often a holder of j was lost

vars == <<job, ahead, source, saved, work, losses>>

JobStatus == {"NONE", "QUEUED", "LEASED", "SUCCEEDED", "DEAD_LETTER"}
SourceStatus == {"PENDING_UPLOAD", "UPLOADED", "EXTRACTING", "EXTRACTED", "FAILED"}
WorkerStep == {"idle", "claimed", "picking", "extracting", "saving",
               "completing", "progress", "failsource", "failjob"}

JobRow == [status : JobStatus, sources : SUBSET Sources, attempts : Nat,
           ready : BOOLEAN, leaseLive : BOOLEAN]

WorkerState == [pc : WorkerStep, job : Jobs \cup {NoJob}, token : Nat,
                todo : SUBSET Sources, current : Sources \cup {NoSource},
                passes : 0..MaxPasses]

NoRow == [status |-> "NONE", sources |-> {}, attempts |-> 0,
          ready |-> FALSE, leaseLive |-> FALSE]

Idle == [pc |-> "idle", job |-> NoJob, token |-> 0, todo |-> {},
         current |-> NoSource, passes |-> 0]

\* Rows, statuses and the workers' variables have the shapes the schema and
\* processor.go give them.
TypeOK ==
    /\ job \in [Jobs -> JobRow]
    /\ ahead \in [Jobs -> SUBSET Jobs]
    /\ source \in [Sources -> SourceStatus]
    /\ saved \subseteq Sources
    /\ work \in [Workers -> WorkerState]
    /\ losses \in [Jobs -> Nat]

Init ==
    /\ job = [j \in Jobs |-> NoRow]
    /\ ahead = [j \in Jobs |-> {}]
    /\ source = [s \in Sources |-> "PENDING_UPLOAD"]
    /\ saved = {}
    /\ work = [w \in Workers |-> Idle]
    /\ losses = [j \in Jobs |-> 0]

\* UPDATE jobs ... WHERE id = j, and an assignment to worker w's variables.
UpdateJob(j, row) == job' = [job EXCEPT ![j] = row]
Become(w, state) == work' = [work EXCEPT ![w] = state]
Goto(w, step) == Become(w, [work[w] EXCEPT !.pc = step])

-----------------------------------------------------------------------------
(* The API side. *)

\* The client reports a finished upload; nothing looks into the storage.
MarkUploaded(s) ==
    /\ source[s] = "PENDING_UPLOAD"
    /\ source' = [source EXCEPT ![s] = "UPLOADED"]
    /\ UNCHANGED <<job, ahead, saved, work, losses>>

\* A job enters the line behind every job that is already available.
JoinLine(j) == [ahead EXCEPT ![j] = {k \in Jobs \ {j} : job[k].ready}]
LeaveLine(j) == [k \in Jobs |-> IF k = j THEN {} ELSE ahead[k] \ {j}]

\* The job part of a passport build or refresh: a build without sources has
\* nothing to extract and is born SUCCEEDED.
EnqueueBuild(j, S) ==
    /\ job[j].status = "NONE"
    /\ \A s \in S : source[s] = "UPLOADED"
    /\ UpdateJob(j, [NoRow EXCEPT !.status = IF S = {} THEN "SUCCEEDED" ELSE "QUEUED",
                                  !.sources = S, !.ready = TRUE])
    /\ ahead' = JoinLine(j)
    /\ UNCHANGED <<source, saved, work, losses>>

-----------------------------------------------------------------------------
(* Time. *)

Holds(w, j) == work[w].job = j

\* Nothing stops the lease of a working holder from running out: download (8 s),
\* conversion (180 s) and one Gemini pass (3 x 90 s and two pauses) may take 461 s
\* between two renewals of 300 s.  RenewalInTime assumes that away.
LeaseExpires(j) ==
    /\ job[j].status = "LEASED"
    /\ job[j].leaseLive
    /\ RenewalInTime => \A w \in Workers : ~Holds(w, j)
    /\ UpdateJob(j, [job[j] EXCEPT !.leaseLive = FALSE])
    /\ UNCHANGED <<ahead, source, saved, work, losses>>

\* available_at = now() + 2^min(attempts, 6) seconds has passed.
BackoffElapses(j) ==
    /\ job[j].status = "QUEUED"
    /\ ~job[j].ready
    /\ UpdateJob(j, [job[j] EXCEPT !.ready = TRUE])
    /\ ahead' = JoinLine(j)
    /\ UNCHANGED <<source, saved, work, losses>>

-----------------------------------------------------------------------------
(* The worker. *)

\* Mutant: the claim forgets to ask for the status.
ClaimableWhateverStatus(j) == job[j].ready /\ ~job[j].leaseLive

\* Mutant: expired leases are not offered again.
ClaimableQueuedOnly(j) == job[j].status = "QUEUED" /\ job[j].ready

Claimable(j) ==
    \/ job[j].status = "QUEUED" /\ job[j].ready
    \/ job[j].status = "LEASED" /\ ~job[j].leaseLive

\* Mutant: attempts is not incremented by the claim but by a later statement.
ClaimWithoutCounting(w, j) ==
    /\ work[w].pc = "idle"
    /\ Claimable(j)
    /\ \A k \in ahead[j] : ~Claimable(k)
    /\ job[j].attempts < MaxClaims
    /\ UpdateJob(j, [job[j] EXCEPT !.status = "LEASED", !.leaseLive = TRUE])
    /\ Become(w, [Idle EXCEPT !.pc = "claimed", !.job = j, !.token = job[j].attempts])
    /\ UNCHANGED <<ahead, source, saved, losses>>

\* ORDER BY available_at LIMIT 1 over the claimable rows.  SKIP LOCKED makes
\* concurrent claims take different rows, as if one ran after the other.
Claim(w, j) ==
    /\ work[w].pc = "idle"
    /\ Claimable(j)
    /\ \A k \in ahead[j] : ~Claimable(k)
    /\ job[j].attempts < MaxClaims
    /\ UpdateJob(j, [job[j] EXCEPT !.status = "LEASED", !.leaseLive = TRUE,
                                   !.attempts = @ + 1])
    /\ Become(w, [Idle EXCEPT !.pc = "claimed", !.job = j,
                              !.token = job[j].attempts + 1])
    /\ UNCHANGED <<ahead, source, saved, losses>>

\* Mutant: a retry reads only the sources that wait for their first attempt.
LoadUploadedSources(w) ==
    /\ work[w].pc = "claimed"
    /\ Become(w, [work[w] EXCEPT !.pc = "picking",
                    !.todo = {s \in job[work[w].job].sources : source[s] = "UPLOADED"}])
    /\ UNCHANGED <<job, ahead, source, saved, losses>>

\* One read of the statuses of all sources; the loop works on that snapshot.
LoadSources(w) ==
    /\ work[w].pc = "claimed"
    /\ Become(w, [work[w] EXCEPT !.pc = "picking",
                    !.todo = {s \in job[work[w].job].sources : source[s] # "EXTRACTED"}])
    /\ UNCHANGED <<job, ahead, source, saved, losses>>

\* UPDATE ... SET status = 'EXTRACTING' without a condition on the status.
\* The number of passes over the document is fixed by its text.
StartSource(w, s) ==
    /\ work[w].pc = "picking"
    /\ s \in work[w].todo
    /\ \A t \in work[w].todo : s <= t
    /\ source' = [source EXCEPT ![s] = "EXTRACTING"]
    /\ \E n \in 1..MaxPasses :
          Become(w, [work[w] EXCEPT !.pc = "extracting", !.current = s,
                                    !.todo = @ \ {s}, !.passes = n])
    /\ UNCHANGED <<job, ahead, saved, losses>>

\* lease_expires_at = now() + 5 minutes WHERE status = 'LEASED': no check of
\* who holds the lease, and no error when no row matches.
RenewLease(j) ==
    UpdateJob(j, [job[j] EXCEPT !.leaseLive = @ \/ job[j].status = "LEASED"])

\* Mutant: the loop over the chunks stops one too late.
ExtractOnePassTooMany(w) ==
    /\ work[w].pc = "extracting"
    /\ RenewLease(work[w].job)
    /\ Become(w, [work[w] EXCEPT !.passes = @ - 1,
                                 !.pc = IF work[w].passes = 0 THEN "saving" ELSE @])
    /\ UNCHANGED <<ahead, source, saved, losses>>

\* One Gemini pass over one chunk, and the lease renewal after it.
ExtractPass(w) ==
    /\ work[w].pc = "extracting"
    /\ RenewLease(work[w].job)
    /\ Become(w, [work[w] EXCEPT !.passes = @ - 1,
                                 !.pc = IF work[w].passes = 1 THEN "saving" ELSE @])
    /\ UNCHANGED <<ahead, source, saved, losses>>

\* Mutant: the candidates' transaction is rolled back and nobody notices.
SaveWithoutCommit(w) ==
    /\ work[w].pc = "saving"
    /\ Goto(w, "completing")
    /\ UNCHANGED <<job, ahead, source, saved, losses>>

SaveCandidates(w) ==
    /\ work[w].pc = "saving"
    /\ saved' = saved \cup {work[w].current}
    /\ Goto(w, "completing")
    /\ UNCHANGED <<job, ahead, source, losses>>

CompleteSource(w) ==
    /\ work[w].pc = "completing"
    /\ source' = [source EXCEPT ![work[w].current] = "EXTRACTED"]
    /\ Goto(w, "progress")
    /\ UNCHANGED <<job, ahead, saved, losses>>

SetJobProgress(w) ==
    /\ work[w].pc = "progress"
    /\ RenewLease(work[w].job)
    /\ Become(w, [work[w] EXCEPT !.pc = "picking", !.current = NoSource])
    /\ UNCHANGED <<ahead, source, saved, losses>>

\* Mutant: the loop completes the job after the first source.
CompleteJobEarly(w) ==
    /\ work[w].pc = "picking"
    /\ UpdateJob(work[w].job, [job[work[w].job] EXCEPT !.status = "SUCCEEDED",
                                                       !.leaseLive = FALSE])
    /\ Become(w, Idle)
    /\ UNCHANGED <<ahead, source, saved, losses>>

\* UPDATE ... SET status = 'SUCCEEDED' without a condition on the row.
CompleteJob(w) ==
    /\ work[w].pc = "picking"
    /\ work[w].todo = {}
    /\ UpdateJob(work[w].job, [job[work[w].job] EXCEPT !.status = "SUCCEEDED",
                                                       !.leaseLive = FALSE])
    /\ Become(w, Idle)
    /\ UNCHANGED <<ahead, source, saved, losses>>

\* Download, conversion, Gemini, or a database statement about the current
\* source returns an error.  CompleteSource may have been applied although
\* its answer was lost; its caller cannot tell.
SourceError(w) ==
    /\ work[w].pc \in {"extracting", "saving", "completing"}
    /\ Goto(w, "failsource")
    /\ \/ UNCHANGED <<source, saved>>
       \/ /\ work[w].pc = "saving"
          /\ saved' = saved \cup {work[w].current}
          /\ UNCHANGED source
       \/ /\ work[w].pc = "completing"
          /\ source' = [source EXCEPT ![work[w].current] = "EXTRACTED"]
          /\ UNCHANGED saved
    /\ UNCHANGED <<job, ahead, losses>>

\* A statement outside processSource fails: Sources, StartSource or the
\* SetJobProgress of the loop.  The job fails, the source row is left alone.
JobError(w) ==
    /\ \/ work[w].pc \in {"claimed", "progress"}
       \/ work[w].pc = "picking" /\ work[w].todo # {}
    /\ Goto(w, "failjob")
    /\ UNCHANGED <<job, ahead, source, saved, losses>>

\* The error of FailSource itself is dropped: the row may keep its status.
FailSource(w) ==
    /\ work[w].pc = "failsource"
    /\ \/ source' = [source EXCEPT ![work[w].current] = "FAILED"]
       \/ UNCHANGED source
    /\ Goto(w, "failjob")
    /\ UNCHANGED <<job, ahead, saved, losses>>

\* Mutant: one more attempt than max_attempts.
FailJobLate(w) ==
    LET j == work[w].job IN
    /\ work[w].pc = "failjob"
    /\ UpdateJob(j, [job[j] EXCEPT
                       !.status = IF work[w].token > MaxAttempts
                                  THEN "DEAD_LETTER" ELSE "QUEUED",
                       !.ready = FALSE, !.leaseLive = FALSE])
    /\ ahead' = LeaveLine(j)
    /\ Become(w, Idle)
    /\ UNCHANGED <<source, saved, losses>>

\* Mutant: one attempt less than max_attempts.
FailJobEarly(w) ==
    LET j == work[w].job IN
    /\ work[w].pc = "failjob"
    /\ UpdateJob(j, [job[j] EXCEPT
                       !.status = IF work[w].token + 1 >= MaxAttempts
                                  THEN "DEAD_LETTER" ELSE "QUEUED",
                       !.ready = FALSE, !.leaseLive = FALSE])
    /\ ahead' = LeaveLine(j)
    /\ Become(w, Idle)
    /\ UNCHANGED <<source, saved, losses>>

\* Mutant: the worker gives up without telling the queue.
FailJobSilently(w) ==
    /\ work[w].pc = "failjob"
    /\ Become(w, Idle)
    /\ UNCHANGED <<job, ahead, source, saved, losses>>

\* The verdict uses the attempts read at claim time and the statement has no
\* condition on the row.
FailJob(w) ==
    LET j == work[w].job IN
    /\ work[w].pc = "failjob"
    /\ UpdateJob(j, [job[j] EXCEPT
                       !.status = IF work[w].token >= MaxAttempts
                                  THEN "DEAD_LETTER" ELSE "QUEUED",
                       !.ready = FALSE, !.leaseLive = FALSE])
    /\ ahead' = LeaveLine(j)
    /\ Become(w, Idle)
    /\ UNCHANGED <<source, saved, losses>>

\* The process crashes, is stopped, or the 12 minute context runs out: every
\* later statement, FailSource and FailJob included, fails with the context.
\* CompleteJob or FailJob failing on its own has the same effect.
LoseWorker(w) ==
    /\ work[w].pc # "idle"
    /\ losses[work[w].job] < MaxLosses
    /\ losses' = [losses EXCEPT ![work[w].job] = @ + 1]
    /\ Become(w, Idle)
    /\ UNCHANGED <<job, ahead, source, saved>>

-----------------------------------------------------------------------------

WorkerNext(w) ==
    \/ \E j \in Jobs : Claim(w, j)
    \/ LoadSources(w)
    \/ \E s \in Sources : StartSource(w, s)
    \/ ExtractPass(w)
    \/ SaveCandidates(w)
    \/ CompleteSource(w)
    \/ SetJobProgress(w)
    \/ CompleteJob(w)
    \/ SourceError(w)
    \/ JobError(w)
    \/ FailSource(w)
    \/ FailJob(w)

Next ==
    \/ \E s \in Sources : MarkUploaded(s)
    \/ \E j \in Jobs, S \in SUBSET Sources : EnqueueBuild(j, S)
    \/ \E j \in Jobs : LeaseExpires(j) \/ BackoffElapses(j)
    \/ \E w \in Workers : WorkerNext(w) \/ LoseWorker(w)

\* The worker's ticker keeps firing and its calls return within the job
\* context; clocks advance.  Uploads, builds and losses are never forced.
Fairness ==
    /\ \A w \in Workers : WF_vars(WorkerNext(w))
    /\ \A j \in Jobs : WF_vars(LeaseExpires(j)) /\ WF_vars(BackoffElapses(j))

Spec == Init /\ [][Next]_vars
FairSpec == Spec /\ Fairness

-----------------------------------------------------------------------------
(* What holds for any number of workers. *)

\* attempts acts as a fencing token: of all workers that believe they hold a
\* job, no two read the same attempts, and none read a later one than stored.
TokensAreUnique ==
    \A w \in Workers : work[w].pc # "idle" =>
        /\ work[w].token <= job[work[w].job].attempts
        /\ \A v \in Workers : v # w /\ Holds(v, work[w].job) => work[v].token # work[w].token

\* A job is only dead-lettered after max_attempts claims, also when the worker
\* that gives up read the counter long ago.
DeadLetterIsEarned ==
    \A j \in Jobs : job[j].status = "DEAD_LETTER" => job[j].attempts >= MaxAttempts

\* An EXTRACTED source, which no later attempt reads again, has its candidates
\* committed: extraction results are never skipped over.
ExtractedHasCandidates ==
    \A s \in Sources : source[s] = "EXTRACTED" => s \in saved

\* A lease nobody works under is the trace of a lost worker, never of a worker
\* that returned from Process normally.
OrphanLeaseMeansLoss ==
    \A j \in Jobs :
        job[j].status = "LEASED" =>
            \/ \E w \in Workers : Holds(w, j) /\ work[w].token = job[j].attempts
            \/ losses[j] > 0

(* What holds when no two workers work on one job: a single worker process, *)
(* or leases that never run out under a live holder.                        *)

\* attempts passes max_attempts only by as many claims as workers were lost:
\* Claim itself never looks at max_attempts.
AttemptsAreBounded ==
    \A j \in Jobs : job[j].attempts <= MaxAttempts + losses[j]

\* A verdict the client has seen is never taken back.
Settled == {"SUCCEEDED", "DEAD_LETTER"}
VerdictIsFinal ==
    [][\A j \in Jobs : job[j].status \in Settled => job'[j].status = job[j].status]_vars

(* What holds because one worker process runs ("concurrency", 1). *)

\* The client that polls a job to SUCCEEDED may rely on every document of the
\* job having been extracted.
SucceededMeansExtracted ==
    \A j \in Jobs : job[j].status = "SUCCEEDED" =>
        \A s \in job[j].sources : source[s] = "EXTRACTED"

\* Under fairness every enqueued job is eventually decided, whatever order
\* retries, expired leases and newer jobs come in.
EveryJobSettles ==
    \A j \in Jobs : job[j].status = "QUEUED" ~> job[j].status \in Settled

\* Refinement of JobContract.  A source whose CompleteSource was applied but
\* reported as failed does not count until its worker has dealt with it.
Extracted ==
    {s \in Sources : /\ source[s] = "EXTRACTED"
                     /\ \A w \in Workers :
                           ~(work[w].pc = "failsource" /\ work[w].current = s)}

Contract == INSTANCE JobContract WITH
    status    <- [j \in Jobs |-> job[j].status],
    needs     <- [j \in Jobs |-> job[j].sources],
    tries     <- [j \in Jobs |-> job[j].attempts],
    extracted <- Extracted

\* The queue as one worker process runs it keeps the contract with the polling
\* client: leases, retries, lost answers and lost workers never show through.
ContractKept == Contract!Spec

=============================================================================
