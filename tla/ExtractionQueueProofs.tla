----------------------- MODULE ExtractionQueueProofs -----------------------
(***************************************************************************)
(* Proofs about ExtractionQueue, for any number of workers, jobs and       *)
(* sources and any value of the limits.                                    *)
(***************************************************************************)
EXTENDS ExtractionQueue, TLAPS

\* What a worker's local variables look like between two statements: a busy
\* worker holds a real job, and a source while it works on one.
WorkerOK(x) ==
    /\ x \in WorkerState
    /\ x.pc = "idle" => x = Idle
    /\ x.pc # "idle" => x.job \in Jobs
    /\ x.pc \in {"extracting", "saving", "completing", "progress", "failsource"}
          => x.current \in Sources
    /\ x.pc = "extracting" => x.passes # 0

RowsOK ==
    /\ job \in [Jobs -> JobRow]
    /\ ahead \in [Jobs -> SUBSET Jobs]
    /\ losses \in [Jobs -> Nat]

SourcesOK ==
    /\ source \in [Sources -> SourceStatus]
    /\ saved \subseteq Sources

WorkersOK ==
    /\ work \in [Workers -> WorkerState]
    /\ \A w \in Workers : WorkerOK(work[w])

Typed == RowsOK /\ SourcesOK /\ WorkersOK

\* Next, one case per statement.
LEMMA StepCases ==
    ASSUME [Next]_vars
    PROVE  \/ \E s \in Sources : MarkUploaded(s)
           \/ \E j \in Jobs, S \in SUBSET Sources : EnqueueBuild(j, S)
           \/ \E j \in Jobs : LeaseExpires(j)
           \/ \E j \in Jobs : BackoffElapses(j)
           \/ \E w \in Workers, j \in Jobs : Claim(w, j)
           \/ \E w \in Workers : LoadSources(w)
           \/ \E w \in Workers, s \in Sources : StartSource(w, s)
           \/ \E w \in Workers : ExtractPass(w)
           \/ \E w \in Workers : SaveCandidates(w)
           \/ \E w \in Workers : CompleteSource(w)
           \/ \E w \in Workers : SetJobProgress(w)
           \/ \E w \in Workers : CompleteJob(w)
           \/ \E w \in Workers : SourceError(w)
           \/ \E w \in Workers : JobError(w)
           \/ \E w \in Workers : FailSource(w)
           \/ \E w \in Workers : FailJob(w)
           \/ \E w \in Workers : LoseWorker(w)
           \/ UNCHANGED vars
  BY DEF Next, WorkerNext

\* The initial rows and variables are well typed.
LEMMA InitTyped == Init => Typed
  BY QueueAssumption
  DEF Init, Typed, RowsOK, SourcesOK, WorkersOK, WorkerOK, JobRow, NoRow,
      WorkerState, Idle, JobStatus, SourceStatus, WorkerStep

\* Writing a well-typed row, or leaving the row table alone, keeps it typed.
LEMMA RowsStayTyped ==
    ASSUME RowsOK, NEW j \in Jobs, NEW row \in JobRow, UpdateJob(j, row)
    PROVE  job' \in [Jobs -> JobRow]
  BY DEF RowsOK, UpdateJob

\* Assigning well-formed variables to one worker keeps all of them so.
LEMMA WorkersStayTyped ==
    ASSUME WorkersOK, NEW w \in Workers, NEW x, WorkerOK(x), Become(w, x)
    PROVE  WorkersOK'
  BY DEF WorkersOK, WorkerOK, Become

\* An idle worker's variables are well formed.
LEMMA IdleOK == WorkerOK(Idle)
  BY QueueAssumption DEF WorkerOK, WorkerState, Idle, WorkerStep

\* Both ways of moving a job in the line keep the line's type.
LEMMA LineTyped ==
    ASSUME RowsOK, NEW j \in Jobs
    PROVE  /\ JoinLine(j) \in [Jobs -> SUBSET Jobs]
           /\ LeaveLine(j) \in [Jobs -> SUBSET Jobs]
  BY DEF RowsOK, JoinLine, LeaveLine

\* Every statement keeps rows, sources and workers well typed.
LEMMA StepTyped == Typed /\ [Next]_vars => Typed'
<1> SUFFICES ASSUME Typed, [Next]_vars
             PROVE  Typed'
  OBVIOUS
<1> USE DEF Typed
<1>1. ASSUME NEW s \in Sources, MarkUploaded(s)
      PROVE  Typed'
  BY <1>1 DEF MarkUploaded, RowsOK, SourcesOK, SourceStatus, WorkersOK, WorkerOK
<1>2. ASSUME NEW j \in Jobs, NEW S \in SUBSET Sources, EnqueueBuild(j, S)
      PROVE  Typed'
  <2> DEFINE row == [NoRow EXCEPT !.status = IF S = {} THEN "SUCCEEDED" ELSE "QUEUED",
                                  !.sources = S, !.ready = TRUE]
  <2>1. row \in JobRow
    BY DEF JobRow, NoRow, JobStatus
  <2>2. job' \in [Jobs -> JobRow]
    BY <1>2, <2>1, RowsStayTyped DEF EnqueueBuild
  <2>3. QED
    BY <1>2, <2>2, LineTyped DEF EnqueueBuild, RowsOK, SourcesOK, WorkersOK, WorkerOK
<1>3. ASSUME NEW j \in Jobs, LeaseExpires(j)
      PROVE  Typed'
  <2>1. [job[j] EXCEPT !.leaseLive = FALSE] \in JobRow
    BY DEF RowsOK, JobRow
  <2>2. job' \in [Jobs -> JobRow]
    BY <1>3, <2>1, RowsStayTyped DEF LeaseExpires
  <2>3. QED
    BY <1>3, <2>2 DEF LeaseExpires, RowsOK, SourcesOK, WorkersOK, WorkerOK
<1>4. ASSUME NEW j \in Jobs, BackoffElapses(j)
      PROVE  Typed'
  <2>1. [job[j] EXCEPT !.ready = TRUE] \in JobRow
    BY DEF RowsOK, JobRow
  <2>2. job' \in [Jobs -> JobRow]
    BY <1>4, <2>1, RowsStayTyped DEF BackoffElapses
  <2>3. QED
    BY <1>4, <2>2, LineTyped DEF BackoffElapses, RowsOK, SourcesOK, WorkersOK, WorkerOK
<1>5. ASSUME NEW w \in Workers, NEW j \in Jobs, Claim(w, j)
      PROVE  Typed'
  <2> DEFINE row == [job[j] EXCEPT !.status = "LEASED", !.leaseLive = TRUE,
                                   !.attempts = @ + 1]
             x == [Idle EXCEPT !.pc = "claimed", !.job = j,
                               !.token = job[j].attempts + 1]
  <2>1. row \in JobRow
    <3>1. "LEASED" \in JobStatus
      BY DEF JobStatus
    <3>2. job[j] \in JobRow /\ job[j].attempts + 1 \in Nat
      BY DEF RowsOK, JobRow
    <3>3. QED
      BY <3>1, <3>2 DEF JobRow
  <2>2. job' \in [Jobs -> JobRow]
    BY <1>5, <2>1, RowsStayTyped DEF Claim
  <2>3. WorkerOK(x)
    <3>1. "claimed" \in WorkerStep /\ job[j].attempts + 1 \in Nat
      BY DEF WorkerStep, RowsOK, JobRow
    <3>2. Idle \in WorkerState
      BY IdleOK DEF WorkerOK
    <3>3. x \in WorkerState
      BY <3>1, <3>2 DEF WorkerState
    <3>4. x.pc = "claimed" /\ x.job = j
      BY <3>2 DEF WorkerState
    <3>5. QED
      <4> HIDE DEF x
      <4> QED
        BY <3>3, <3>4 DEF WorkerOK
  <2>4. Become(w, x)
    BY <1>5 DEF Claim
  <2> HIDE DEF x
  <2>5. WorkersOK'
    BY <2>3, <2>4, WorkersStayTyped
  <2>6. QED
    BY <1>5, <2>2, <2>5 DEF Claim, RowsOK, SourcesOK
<1>6. ASSUME NEW w \in Workers, LoadSources(w)
      PROVE  Typed'
  <2> DEFINE rest == {s \in job[work[w].job].sources : source[s] # "EXTRACTED"}
             x == [work[w] EXCEPT !.pc = "picking", !.todo = rest]
  <2>1. WorkerOK(work[w]) /\ work[w].pc = "claimed"
    BY <1>6 DEF LoadSources, WorkersOK
  <2>2. rest \subseteq Sources
    BY <2>1 DEF WorkerOK, RowsOK, JobRow
  <2> HIDE DEF rest
  <2>3. WorkerOK(x)
    BY <2>1, <2>2 DEF WorkerOK, WorkerState, WorkerStep
  <2>4. Become(w, x)
    BY <1>6 DEF LoadSources, rest
  <2> HIDE DEF x
  <2>5. WorkersOK'
    BY <2>3, <2>4, WorkersStayTyped
  <2>6. QED
    BY <1>6, <2>5 DEF LoadSources, RowsOK, SourcesOK
<1>7. ASSUME NEW w \in Workers, NEW s \in Sources, StartSource(w, s)
      PROVE  Typed'
  <2>1. PICK n \in 1..MaxPasses :
            Become(w, [work[w] EXCEPT !.pc = "extracting", !.current = s,
                                      !.todo = @ \ {s}, !.passes = n])
    BY <1>7 DEF StartSource
  <2> DEFINE x == [work[w] EXCEPT !.pc = "extracting", !.current = s,
                                  !.todo = @ \ {s}, !.passes = n]
  <2>2. WorkerOK(work[w]) /\ work[w].pc = "picking"
    BY <1>7 DEF StartSource, WorkersOK
  <2>3. WorkerOK(x)
    <3>1. n \in 0..MaxPasses /\ n # 0 /\ "extracting" \in WorkerStep
      BY QueueAssumption DEF WorkerStep
    <3>2. x \in WorkerState
      BY <2>2, <3>1 DEF WorkerOK, WorkerState
    <3>3. x.pc = "extracting" /\ x.current = s /\ x.passes = n /\ x.job = work[w].job
      BY <2>2 DEF WorkerOK, WorkerState
    <3>4. QED
      BY <2>2, <3>1, <3>2, <3>3 DEF WorkerOK
  <2> HIDE DEF x
  <2>4. WorkersOK'
    BY <2>1, <2>3, WorkersStayTyped DEF x
  <2>5. QED
    BY <1>7, <2>4 DEF StartSource, RowsOK, SourcesOK, SourceStatus
<1>8. ASSUME NEW j \in Jobs, RenewLease(j)
      PROVE  job' \in [Jobs -> JobRow]
  <2>1. [job[j] EXCEPT !.leaseLive = @ \/ job[j].status = "LEASED"] \in JobRow
    BY DEF RowsOK, JobRow
  <2>2. QED
    BY <1>8, <2>1, RowsStayTyped DEF RenewLease
<1>9. ASSUME NEW w \in Workers, ExtractPass(w)
      PROVE  Typed'
  <2> DEFINE x == [work[w] EXCEPT !.passes = @ - 1,
                                  !.pc = IF work[w].passes = 1 THEN "saving" ELSE @]
  <2>1. WorkerOK(work[w]) /\ work[w].pc = "extracting"
    BY <1>9 DEF ExtractPass, WorkersOK
  <2>2. WorkerOK(x)
    <3> DEFINE step == IF work[w].passes = 1 THEN "saving" ELSE work[w].pc
    <3>1. step \in WorkerStep /\ step \in {"extracting", "saving"}
      BY <2>1 DEF WorkerStep
    <3>2. work[w].passes - 1 \in 0..MaxPasses
      BY <2>1, QueueAssumption DEF WorkerOK, WorkerState
    <3>3. x = [work[w] EXCEPT !.passes = work[w].passes - 1, !.pc = step]
      OBVIOUS
    <3>4. step = "extracting" => work[w].passes - 1 # 0
      BY <2>1 DEF WorkerOK, WorkerState
    <3> HIDE DEF step, x
    <3>5. x \in WorkerState
      BY <2>1, <3>1, <3>2, <3>3 DEF WorkerOK, WorkerState
    <3>6. /\ x.pc = step /\ x.passes = work[w].passes - 1
          /\ x.job = work[w].job /\ x.current = work[w].current
      BY <2>1, <3>3 DEF WorkerOK, WorkerState
    <3>7. QED
      BY <2>1, <3>1, <3>4, <3>5, <3>6 DEF WorkerOK
  <2>3. Become(w, x) /\ RenewLease(work[w].job) /\ work[w].job \in Jobs
    BY <1>9, <2>1 DEF ExtractPass, WorkerOK
  <2> HIDE DEF x
  <2>4. WorkersOK' /\ job' \in [Jobs -> JobRow]
    BY <1>8, <2>2, <2>3, WorkersStayTyped
  <2>5. QED
    BY <1>9, <2>4 DEF ExtractPass, RowsOK, SourcesOK
<1>10. ASSUME NEW w \in Workers, SetJobProgress(w)
       PROVE  Typed'
  <2> DEFINE x == [work[w] EXCEPT !.pc = "picking", !.current = NoSource]
  <2>1. WorkerOK(work[w]) /\ work[w].pc = "progress"
    BY <1>10 DEF SetJobProgress, WorkersOK
  <2>2. WorkerOK(x)
    BY <2>1 DEF WorkerOK, WorkerState, WorkerStep
  <2>3. Become(w, x) /\ RenewLease(work[w].job) /\ work[w].job \in Jobs
    BY <1>10, <2>1 DEF SetJobProgress, WorkerOK
  <2> HIDE DEF x
  <2>4. WorkersOK' /\ job' \in [Jobs -> JobRow]
    BY <1>8, <2>2, <2>3, WorkersStayTyped
  <2>5. QED
    BY <1>10, <2>4 DEF SetJobProgress, RowsOK, SourcesOK
<1>11. ASSUME NEW w \in Workers, NEW step \in WorkerStep, Goto(w, step),
              work[w].pc \notin {"idle"}, step \notin {"idle", "extracting"},
              step \in {"saving", "completing", "progress", "failsource"} =>
                  work[w].pc \in {"extracting", "saving", "completing", "progress", "failsource"}
       PROVE  WorkersOK'
  <2> DEFINE x == [work[w] EXCEPT !.pc = step]
  <2>1. WorkerOK(work[w])
    BY DEF WorkersOK
  <2>2. WorkerOK(x)
    BY <1>11, <2>1 DEF WorkerOK, WorkerState, WorkerStep
  <2>3. Become(w, x)
    BY <1>11 DEF Goto
  <2> HIDE DEF x
  <2>4. QED
    BY <2>2, <2>3, WorkersStayTyped
<1>12. ASSUME NEW w \in Workers, work[w].pc \in {"saving", "completing", "extracting", "failsource"}
       PROVE  work[w].current \in Sources
  BY <1>12 DEF WorkersOK, WorkerOK
<1>13. ASSUME NEW w \in Workers, SaveCandidates(w)
       PROVE  Typed'
  <2>1. WorkersOK'
    BY <1>11, <1>13 DEF SaveCandidates, WorkerStep
  <2>2. QED
    BY <1>12, <1>13, <2>1 DEF SaveCandidates, RowsOK, SourcesOK
<1>14. ASSUME NEW w \in Workers, CompleteSource(w)
       PROVE  Typed'
  <2>1. WorkersOK'
    BY <1>11, <1>14 DEF CompleteSource, WorkerStep
  <2>2. QED
    BY <1>12, <1>14, <2>1 DEF CompleteSource, RowsOK, SourcesOK, SourceStatus
<1>15. ASSUME NEW w \in Workers, SourceError(w)
       PROVE  Typed'
  <2>1. WorkersOK'
    BY <1>11, <1>15 DEF SourceError, WorkerStep
  <2>2. SourcesOK'
    BY <1>12, <1>15 DEF SourceError, SourcesOK, SourceStatus
  <2>3. QED
    BY <1>15, <2>1, <2>2 DEF SourceError, RowsOK
<1>16. ASSUME NEW w \in Workers, JobError(w)
       PROVE  Typed'
  <2>1. WorkersOK'
    BY <1>11, <1>16 DEF JobError, WorkerStep
  <2>2. QED
    BY <1>16, <2>1 DEF JobError, RowsOK, SourcesOK
<1>17. ASSUME NEW w \in Workers, FailSource(w)
       PROVE  Typed'
  <2>1. WorkersOK'
    BY <1>11, <1>17 DEF FailSource, WorkerStep
  <2>2. QED
    BY <1>12, <1>17, <2>1 DEF FailSource, RowsOK, SourcesOK, SourceStatus
<1>18. ASSUME NEW w \in Workers, CompleteJob(w)
       PROVE  Typed'
  <2>1. work[w].job \in Jobs
    BY <1>18 DEF CompleteJob, WorkersOK, WorkerOK
  <2>2. [job[work[w].job] EXCEPT !.status = "SUCCEEDED", !.leaseLive = FALSE] \in JobRow
    <3>1. "SUCCEEDED" \in JobStatus
      BY DEF JobStatus
    <3>2. job[work[w].job] \in JobRow
      BY <2>1 DEF RowsOK
    <3>3. QED
      BY <3>1, <3>2 DEF JobRow
  <2>3. job' \in [Jobs -> JobRow]
    BY <1>18, <2>1, <2>2, RowsStayTyped DEF CompleteJob
  <2>4. WorkersOK'
    BY <1>18, IdleOK, WorkersStayTyped DEF CompleteJob
  <2>5. QED
    BY <1>18, <2>3, <2>4 DEF CompleteJob, RowsOK, SourcesOK
<1>19. ASSUME NEW w \in Workers, FailJob(w)
       PROVE  Typed'
  <2> DEFINE verdict == IF work[w].token >= MaxAttempts THEN "DEAD_LETTER" ELSE "QUEUED"
             row == [job[work[w].job] EXCEPT !.status = verdict, !.ready = FALSE,
                                             !.leaseLive = FALSE]
  <2>1. work[w].job \in Jobs
    BY <1>19 DEF FailJob, WorkersOK, WorkerOK
  <2>2. verdict \in JobStatus
    BY DEF JobStatus
  <2>3. row \in JobRow
    <3> HIDE DEF verdict
    <3> QED
      BY <2>1, <2>2 DEF RowsOK, JobRow
  <2>4. UpdateJob(work[w].job, row)
    BY <1>19 DEF FailJob
  <2>5. job' \in [Jobs -> JobRow]
    <3> HIDE DEF row
    <3> QED
      BY <2>1, <2>3, <2>4, RowsStayTyped
  <2>6. WorkersOK'
    BY <1>19, IdleOK, WorkersStayTyped DEF FailJob
  <2>7. QED
    BY <1>19, <2>1, <2>5, <2>6, LineTyped DEF FailJob, RowsOK, SourcesOK
<1>20. ASSUME NEW w \in Workers, LoseWorker(w)
       PROVE  Typed'
  <2>1. WorkersOK'
    BY <1>20, IdleOK, WorkersStayTyped DEF LoseWorker
  <2>2. QED
    <3>1. losses' \in [Jobs -> Nat]
      BY <1>20 DEF LoseWorker, WorkersOK, WorkerOK, RowsOK
    <3>2. UNCHANGED <<job, ahead, source, saved>>
      BY <1>20 DEF LoseWorker
    <3>3. QED
      BY <2>1, <3>1, <3>2 DEF RowsOK, SourcesOK
<1>21. CASE UNCHANGED vars
  BY <1>21 DEF vars, RowsOK, SourcesOK, WorkersOK, WorkerOK
<1>22. QED
  BY <1>1, <1>2, <1>3, <1>4, <1>5, <1>6, <1>7, <1>9, <1>10, <1>13, <1>14,
     <1>15, <1>16, <1>17, <1>18, <1>19, <1>20, <1>21, StepCases

\* The rows of jobs and company_sources and the workers' local variables keep
\* their types.
THEOREM TypeCorrect == Spec => []TypeOK
<1>1. Typed => TypeOK
  BY DEF Typed, RowsOK, SourcesOK, WorkersOK, TypeOK
<1>2. QED
  BY InitTyped, StepTyped, <1>1, PTL DEF Spec

-----------------------------------------------------------------------------
(* Claims and verdicts, for any number of workers. *)

\* A step that touches no claim and no verdict, and lets no lease run out that
\* RenewalInTime protects.
Quiet ==
    /\ \A j \in Jobs : /\ job'[j].status = job[j].status
                       /\ job'[j].attempts = job[j].attempts
                       /\ RenewalInTime /\ job[j].leaseLive /\ (\E w \in Workers : Holds(w, j))
                             => job'[j].leaseLive
    /\ \A w \in Workers : /\ work'[w].job = work[w].job
                          /\ work'[w].token = work[w].token
    /\ losses' = losses

\* Only five statements touch a claim or a verdict.
LEMMA ClaimCases ==
    ASSUME Typed, [Next]_vars
    PROVE  \/ \E j \in Jobs, S \in SUBSET Sources : EnqueueBuild(j, S)
           \/ \E w \in Workers, j \in Jobs : Claim(w, j)
           \/ \E w \in Workers : CompleteJob(w)
           \/ \E w \in Workers : FailJob(w)
           \/ \E w \in Workers : LoseWorker(w)
           \/ Quiet
<1> USE DEF Quiet, Typed, RowsOK, WorkersOK, WorkerOK, JobRow, WorkerState
<1>1. ASSUME NEW s \in Sources, MarkUploaded(s)
      PROVE  Quiet
  BY <1>1 DEF MarkUploaded
<1>2. ASSUME NEW j \in Jobs, LeaseExpires(j) \/ BackoffElapses(j)
      PROVE  Quiet
  <2>1. \/ job' = [job EXCEPT ![j] = [job[j] EXCEPT !.leaseLive = FALSE]]
        \/ job' = [job EXCEPT ![j] = [job[j] EXCEPT !.ready = TRUE]]
    BY <1>2, Zenon DEF LeaseExpires, BackoffElapses, UpdateJob
  <2>2. work' = work /\ losses' = losses
    BY <1>2 DEF LeaseExpires, BackoffElapses
  <2>3. LeaseExpires(j) /\ RenewalInTime => ~ \E w \in Workers : Holds(w, j)
    BY DEF LeaseExpires
  <2>4. BackoffElapses(j) => job' = [job EXCEPT ![j] = [job[j] EXCEPT !.ready = TRUE]]
    BY DEF BackoffElapses, UpdateJob
  <2>5. QED
    BY <1>2, <2>1, <2>2, <2>3, <2>4
<1>3. ASSUME NEW w \in Workers, LoadSources(w)
      PROVE  Quiet
  <2> DEFINE rest == {s \in job[work[w].job].sources : source[s] # "EXTRACTED"}
  <2>1. work' = [work EXCEPT ![w] = [work[w] EXCEPT !.pc = "picking", !.todo = rest]]
    BY <1>3 DEF LoadSources, Become
  <2> HIDE DEF rest
  <2>2. QED
    BY <1>3, <2>1 DEF LoadSources
<1>4. ASSUME NEW w \in Workers, NEW s \in Sources, StartSource(w, s)
      PROVE  Quiet
  <2>1. PICK n \in 1..MaxPasses :
          work' = [work EXCEPT ![w] = [work[w] EXCEPT !.pc = "extracting", !.current = s,
                                                      !.todo = @ \ {s}, !.passes = n]]
    BY <1>4 DEF StartSource, Become
  <2>2. QED
    BY <1>4, <2>1 DEF StartSource
<1>5. ASSUME NEW w \in Workers, ExtractPass(w) \/ SetJobProgress(w)
      PROVE  Quiet
  <2>1. \A j \in Jobs : /\ job'[j].status = job[j].status
                        /\ job'[j].attempts = job[j].attempts
                        /\ job[j].leaseLive => job'[j].leaseLive
    BY <1>5 DEF ExtractPass, SetJobProgress, RenewLease, UpdateJob
  <2>2. \A v \in Workers : /\ work'[v].job = work[v].job
                           /\ work'[v].token = work[v].token
    <3>1. ASSUME NEW x, Become(w, x), x.job = work[w].job, x.token = work[w].token
          PROVE  \A v \in Workers : /\ work'[v].job = work[v].job
                                    /\ work'[v].token = work[v].token
      BY <3>1 DEF Become
    <3>2. CASE ExtractPass(w)
      <4> DEFINE x == [work[w] EXCEPT !.passes = @ - 1,
                                      !.pc = IF work[w].passes = 1 THEN "saving" ELSE @]
      <4>1. Become(w, x)
        BY <3>2 DEF ExtractPass
      <4>2. x.job = work[w].job /\ x.token = work[w].token
        OBVIOUS
      <4> HIDE DEF x
      <4>3. QED
        BY <3>1, <4>1, <4>2
    <3>3. CASE SetJobProgress(w)
      <4> DEFINE x == [work[w] EXCEPT !.pc = "picking", !.current = NoSource]
      <4>1. Become(w, x)
        BY <3>3 DEF SetJobProgress
      <4>2. x.job = work[w].job /\ x.token = work[w].token
        OBVIOUS
      <4> HIDE DEF x
      <4>3. QED
        BY <3>1, <4>1, <4>2
    <3>4. QED
      BY <1>5, <3>2, <3>3
  <2>3. losses' = losses
    BY <1>5 DEF ExtractPass, SetJobProgress
  <2>4. QED
    BY <2>1, <2>2, <2>3
<1>6. ASSUME NEW w \in Workers, NEW step, Goto(w, step), job' = job, losses' = losses
      PROVE  Quiet
  BY <1>6 DEF Goto, Become
<1>7. ASSUME NEW w \in Workers,
             \/ SaveCandidates(w) \/ CompleteSource(w) \/ SourceError(w)
             \/ JobError(w) \/ FailSource(w)
      PROVE  Quiet
  <2>1. job' = job /\ losses' = losses
    BY <1>7 DEF SaveCandidates, CompleteSource, SourceError, JobError, FailSource
  <2>2. \E step : Goto(w, step)
    BY <1>7, Zenon DEF SaveCandidates, CompleteSource, SourceError, JobError, FailSource
  <2>3. QED
    BY <1>6, <2>1, <2>2
<1>8. CASE UNCHANGED vars
  BY <1>8 DEF vars
<1> HIDE DEF Quiet, Typed
<1>9. QED
  BY <1>1, <1>2, <1>3, <1>4, <1>5, <1>7, <1>8, StepCases, Zenon

\* An idle worker holds nothing.
LEMMA HoldersAreBusy ==
    ASSUME Typed, NEW w \in Workers
    PROVE  /\ work[w].job \in Jobs => work[w].pc # "idle"
           /\ work[w].pc # "idle" => work[w].job \in Jobs
           /\ work[w].token \in Nat
  BY QueueAssumption DEF Typed, WorkersOK, WorkerOK, WorkerState, Idle

\* TokensAreUnique in terms of claims alone.
Tokens ==
    \A w \in Workers : work[w].job \in Jobs =>
        /\ work[w].token <= job[work[w].job].attempts
        /\ \A v \in Workers : v # w /\ work[v].job = work[w].job => work[v].token # work[w].token

\* A row that was never inserted was never claimed.
FreshRows == \A j \in Jobs : job[j].status = "NONE" => job[j].attempts = 0

ClaimInv == Tokens /\ DeadLetterIsEarned /\ OrphanLeaseMeansLoss /\ FreshRows

\* Whoever becomes idle has given up its claim.
LEMMA BecomeIdle ==
    ASSUME Typed, NEW w \in Workers, Become(w, Idle)
    PROVE  /\ work'[w].job \notin Jobs
           /\ \A v \in Workers : v # w => work'[v] = work[v]
  BY QueueAssumption DEF Typed, WorkersOK, Become, Idle

\* What a claim does to the row, to the claimant and to everything else.
LEMMA ClaimEffect ==
    ASSUME Typed, NEW w \in Workers, NEW j \in Jobs, Claim(w, j)
    PROVE  /\ work[w].job \notin Jobs
           /\ \/ job[j].status = "QUEUED"
              \/ job[j].status = "LEASED" /\ ~job[j].leaseLive
           /\ job'[j].attempts = job[j].attempts + 1
           /\ job'[j].status = "LEASED"
           /\ job'[j].leaseLive
           /\ \A k \in Jobs : k # j => job'[k] = job[k]
           /\ work'[w].job = j
           /\ work'[w].token = job[j].attempts + 1
           /\ \A v \in Workers : v # w => work'[v] = work[v]
           /\ losses' = losses
<1>1. work[w].job \notin Jobs
  BY HoldersAreBusy DEF Claim
<1>2. /\ \/ job[j].status = "QUEUED"
         \/ job[j].status = "LEASED" /\ ~job[j].leaseLive
      /\ losses' = losses
  BY DEF Claim, Claimable
<1>3. QED
  BY <1>1, <1>2 DEF Claim, UpdateJob, Become, Idle, Typed, RowsOK, JobRow, WorkersOK

\* What the two statements that end a claim do.
LEMMA SettleEffect ==
    ASSUME Typed, NEW w \in Workers, CompleteJob(w) \/ FailJob(w)
    PROVE  /\ work[w].job \in Jobs
           /\ job'[work[w].job].attempts = job[work[w].job].attempts
           /\ job'[work[w].job].status \notin {"NONE", "LEASED"}
           /\ job'[work[w].job].status = "DEAD_LETTER" => work[w].token >= MaxAttempts
           /\ job'[work[w].job].status = "QUEUED" => ~(work[w].token >= MaxAttempts)
           /\ \A k \in Jobs : k # work[w].job => job'[k] = job[k]
           /\ losses' = losses
           /\ Become(w, Idle)
<1>1. work[w].job \in Jobs
  BY HoldersAreBusy DEF CompleteJob, FailJob
<1>2. job \in [Jobs -> JobRow]
  BY DEF Typed, RowsOK
<1>3. PICK verdict \in {"SUCCEEDED", "DEAD_LETTER", "QUEUED"}, ready \in BOOLEAN :
          /\ job' = [job EXCEPT ![work[w].job] =
                        [job[work[w].job] EXCEPT !.status = verdict, !.ready = ready,
                                                 !.leaseLive = FALSE]]
          /\ verdict = "DEAD_LETTER" => work[w].token >= MaxAttempts
          /\ verdict = "QUEUED" => ~(work[w].token >= MaxAttempts)
  <2>1. CASE CompleteJob(w)
    <3>1. job' = [job EXCEPT ![work[w].job] =
                     [job[work[w].job] EXCEPT !.status = "SUCCEEDED", !.leaseLive = FALSE]]
      BY <2>1 DEF CompleteJob, UpdateJob
    <3>2. [job[work[w].job] EXCEPT !.status = "SUCCEEDED", !.leaseLive = FALSE]
          = [job[work[w].job] EXCEPT !.status = "SUCCEEDED",
                                     !.ready = job[work[w].job].ready, !.leaseLive = FALSE]
      BY <1>2, <1>1 DEF JobRow
    <3>3. job[work[w].job].ready \in BOOLEAN
      BY <1>2, <1>1 DEF JobRow
    <3>4. QED
      BY <3>1, <3>2, <3>3, Zenon
  <2>2. CASE FailJob(w)
    <3> DEFINE verdict == IF work[w].token >= MaxAttempts THEN "DEAD_LETTER" ELSE "QUEUED"
    <3>1. job' = [job EXCEPT ![work[w].job] =
                     [job[work[w].job] EXCEPT !.status = verdict, !.ready = FALSE,
                                              !.leaseLive = FALSE]]
      BY <2>2 DEF FailJob, UpdateJob
    <3>2. /\ verdict \in {"SUCCEEDED", "DEAD_LETTER", "QUEUED"}
          /\ verdict = "DEAD_LETTER" => work[w].token >= MaxAttempts
          /\ verdict = "QUEUED" => ~(work[w].token >= MaxAttempts)
      OBVIOUS
    <3> HIDE DEF verdict
    <3>3. QED
      BY <3>1, <3>2, Zenon
  <2>3. QED
    BY <2>1, <2>2
<1>4. losses' = losses /\ Become(w, Idle)
  BY DEF CompleteJob, FailJob
<1>5. QED
  BY <1>2, <1>1, <1>3, <1>4 DEF JobRow

\* Every statement preserves the facts about claims and verdicts.
LEMMA StepClaimInv == Typed /\ ClaimInv /\ [Next]_vars => ClaimInv'
<1> SUFFICES ASSUME Typed, ClaimInv, [Next]_vars
             PROVE  ClaimInv'
  OBVIOUS
<1>1. job \in [Jobs -> JobRow] /\ \A j \in Jobs : job[j].attempts \in Nat
  BY DEF Typed, RowsOK, JobRow
<1>2. \A w \in Workers : work[w].token \in Nat
  BY HoldersAreBusy
<1>3. ASSUME NEW j \in Jobs, NEW S \in SUBSET Sources, EnqueueBuild(j, S)
      PROVE  ClaimInv'
  <2>1. /\ job[j].status = "NONE"
        /\ job'[j].attempts = 0
        /\ job'[j].status \in {"QUEUED", "SUCCEEDED"}
        /\ \A k \in Jobs : k # j => job'[k] = job[k]
        /\ work' = work /\ losses' = losses
    BY <1>1, <1>3 DEF EnqueueBuild, UpdateJob, NoRow
  <2>2. job'[j].attempts = job[j].attempts
    BY <2>1 DEF ClaimInv, FreshRows
  <2>3. Tokens'
    BY <2>1, <2>2 DEF ClaimInv, Tokens
  <2>4. DeadLetterIsEarned' /\ FreshRows'
    BY <2>1 DEF ClaimInv, DeadLetterIsEarned, FreshRows
  <2>5. OrphanLeaseMeansLoss'
    BY <2>1 DEF ClaimInv, OrphanLeaseMeansLoss, Holds
  <2>6. QED
    BY <2>3, <2>4, <2>5 DEF ClaimInv
<1>4. ASSUME NEW w \in Workers, NEW j \in Jobs, Claim(w, j)
      PROVE  ClaimInv'
  <2>1. /\ work[w].job \notin Jobs
        /\ job'[j].attempts = job[j].attempts + 1
        /\ job'[j].status = "LEASED"
        /\ \A k \in Jobs : k # j => job'[k] = job[k]
        /\ work'[w].job = j
        /\ work'[w].token = job[j].attempts + 1
        /\ \A v \in Workers : v # w => work'[v] = work[v]
        /\ losses' = losses
    BY <1>4, ClaimEffect
  <2>2. Tokens'
    BY <1>1, <1>2, <2>1 DEF ClaimInv, Tokens
  <2>3. DeadLetterIsEarned' /\ FreshRows'
    BY <2>1 DEF ClaimInv, DeadLetterIsEarned, FreshRows
  <2>4. OrphanLeaseMeansLoss'
    BY <2>1 DEF ClaimInv, OrphanLeaseMeansLoss, Holds
  <2>5. QED
    BY <2>2, <2>3, <2>4 DEF ClaimInv
<1>5. ASSUME NEW w \in Workers, CompleteJob(w) \/ FailJob(w)
      PROVE  ClaimInv'
  <2>1. work[w].job \in Jobs
    BY <1>5, SettleEffect
  <2>2. /\ job'[work[w].job].attempts = job[work[w].job].attempts
        /\ job'[work[w].job].status \notin {"NONE", "LEASED"}
        /\ job'[work[w].job].status = "DEAD_LETTER" => work[w].token >= MaxAttempts
        /\ \A k \in Jobs : k # work[w].job => job'[k] = job[k]
        /\ losses' = losses
        /\ Become(w, Idle)
    BY <1>5, SettleEffect
  <2>3. Tokens'
    BY <2>1, <2>2, BecomeIdle DEF ClaimInv, Tokens
  <2>4. DeadLetterIsEarned'
    <3>1. work[w].token <= job[work[w].job].attempts
      BY <2>1 DEF ClaimInv, Tokens
    <3>2. QED
      BY <1>1, <1>2, <2>1, <2>2, <3>1, QueueAssumption DEF ClaimInv, DeadLetterIsEarned
  <2>5. OrphanLeaseMeansLoss' /\ FreshRows'
    BY <2>1, <2>2, BecomeIdle DEF ClaimInv, OrphanLeaseMeansLoss, Holds, FreshRows
  <2>6. QED
    BY <2>3, <2>4, <2>5 DEF ClaimInv
<1>6. ASSUME NEW w \in Workers, LoseWorker(w)
      PROVE  ClaimInv'
  <2>1. work[w].job \in Jobs /\ Become(w, Idle) /\ job' = job
    BY <1>6, HoldersAreBusy DEF LoseWorker
  <2>2. /\ losses'[work[w].job] > 0
        /\ \A j \in Jobs : losses[j] > 0 => losses'[j] > 0
    BY <1>6, <2>1 DEF LoseWorker, Typed, RowsOK
  <2>3. Tokens'
    BY <2>1, BecomeIdle DEF ClaimInv, Tokens
  <2>4. DeadLetterIsEarned' /\ FreshRows'
    BY <2>1 DEF ClaimInv, DeadLetterIsEarned, FreshRows
  <2>5. OrphanLeaseMeansLoss'
    BY <2>1, <2>2, BecomeIdle DEF ClaimInv, OrphanLeaseMeansLoss, Holds
  <2>6. QED
    BY <2>3, <2>4, <2>5 DEF ClaimInv
<1>7. CASE Quiet
  BY <1>7 DEF Quiet, ClaimInv, Tokens, DeadLetterIsEarned, OrphanLeaseMeansLoss, FreshRows, Holds
<1>8. QED
  BY <1>3, <1>4, <1>5, <1>6, <1>7, ClaimCases

\* The facts about claims and verdicts hold initially.
LEMMA InitClaimInv == Init => ClaimInv
  BY QueueAssumption
  DEF Init, ClaimInv, Tokens, DeadLetterIsEarned, OrphanLeaseMeansLoss, FreshRows, NoRow, Idle

\* attempts fences claims: no two workers that believe they hold a job read
\* the same attempts when they claimed it (worker_store.go, Claim).
THEOREM ClaimsAreFenced == Spec => []TokensAreUnique
<1>1. Typed /\ ClaimInv => TokensAreUnique
  BY HoldersAreBusy DEF ClaimInv, Tokens, TokensAreUnique, Holds
<1>2. QED
  BY InitTyped, StepTyped, InitClaimInv, StepClaimInv, <1>1, PTL DEF Spec

\* A job is only dead-lettered after max_attempts claims, whichever worker
\* gives it up and however stale its copy of the row is.
THEOREM DeadLettersAreEarned == Spec => []DeadLetterIsEarned
<1>1. ClaimInv => DeadLetterIsEarned
  BY DEF ClaimInv
<1>2. QED
  BY InitTyped, StepTyped, InitClaimInv, StepClaimInv, <1>1, PTL DEF Spec

\* A lease that nobody works under was left behind by a lost worker.
THEOREM OrphansComeFromLosses == Spec => []OrphanLeaseMeansLoss
<1>1. ClaimInv => OrphanLeaseMeansLoss
  BY DEF ClaimInv
<1>2. QED
  BY InitTyped, StepTyped, InitClaimInv, StepClaimInv, <1>1, PTL DEF Spec

-----------------------------------------------------------------------------
(* No two workers on one job: a single worker process, or leases that never *)
(* run out under a live holder.                                             *)

Serial == RenewalInTime \/ \A v, w \in Workers : v = w

\* A holder's claim is the current one and nobody else has it.
Held ==
    \A w \in Workers : work[w].job \in Jobs =>
        /\ job[work[w].job].status = "LEASED"
        /\ work[w].token = job[work[w].job].attempts
        /\ RenewalInTime => job[work[w].job].leaseLive
        /\ \A v \in Workers : v # w => work[v].job # work[w].job

\* A job that waits for its next claim.
Unclaimed(j) ==
    \/ job[j].status = "QUEUED"
    \/ job[j].status = "LEASED" /\ \A w \in Workers : ~Holds(w, j)

\* attempts stays within max_attempts plus the losses, and strictly so while
\* the job may be claimed (again).
Budget ==
    \A j \in Jobs :
        /\ job[j].attempts <= MaxAttempts + losses[j]
        /\ job[j].status = "NONE" => job[j].attempts = 0
        /\ Unclaimed(j) => job[j].attempts < MaxAttempts + losses[j]

SerialInv == Held /\ Budget

\* Every statement preserves the facts about exclusive claims.
LEMMA StepSerialInv == ASSUME Serial PROVE Typed /\ SerialInv /\ [Next]_vars => SerialInv'
<1> SUFFICES ASSUME Typed, SerialInv, [Next]_vars
             PROVE  SerialInv'
  OBVIOUS
<1>1. \A j \in Jobs : job[j].attempts \in Nat /\ losses[j] \in Nat /\ job[j] \in JobRow
  BY DEF Typed, RowsOK, JobRow
<1>2. job \in [Jobs -> JobRow] /\ losses \in [Jobs -> Nat]
  BY DEF Typed, RowsOK
<1>3. ASSUME NEW j \in Jobs, NEW S \in SUBSET Sources, EnqueueBuild(j, S)
      PROVE  SerialInv'
  <2>1. /\ job[j].status = "NONE"
        /\ job'[j].attempts = 0
        /\ job'[j].status \in {"QUEUED", "SUCCEEDED"}
        /\ \A k \in Jobs : k # j => job'[k] = job[k]
        /\ work' = work /\ losses' = losses
    BY <1>2, <1>3 DEF EnqueueBuild, UpdateJob, NoRow
  <2>2. Held'
    BY <2>1 DEF SerialInv, Held
  <2>3. Budget'
    BY <1>1, <2>1, QueueAssumption DEF SerialInv, Budget, Unclaimed, Holds
  <2>4. QED
    BY <2>2, <2>3 DEF SerialInv
<1>4. ASSUME NEW w \in Workers, NEW j \in Jobs, Claim(w, j)
      PROVE  SerialInv'
  <2>1. /\ work[w].job \notin Jobs
        /\ \/ job[j].status = "QUEUED"
           \/ job[j].status = "LEASED" /\ ~job[j].leaseLive
        /\ job'[j].attempts = job[j].attempts + 1
        /\ job'[j].status = "LEASED"
        /\ job'[j].leaseLive
        /\ \A k \in Jobs : k # j => job'[k] = job[k]
        /\ work'[w].job = j
        /\ work'[w].token = job[j].attempts + 1
        /\ \A v \in Workers : v # w => work'[v] = work[v]
        /\ losses' = losses
    BY <1>4, ClaimEffect
  <2>2. \A v \in Workers : work[v].job # j
    BY <2>1 DEF Serial, SerialInv, Held
  <2>3. Held'
    BY <2>1, <2>2 DEF SerialInv, Held
  <2>4. job[j].attempts < MaxAttempts + losses[j]
    BY <2>1, <2>2 DEF SerialInv, Budget, Unclaimed, Holds
  <2>5. Budget'
    <3>1. ASSUME NEW k \in Jobs, k # j, \A v \in Workers : ~Holds(v, k)'
          PROVE  \A v \in Workers : ~Holds(v, k)
      BY <2>1, <3>1 DEF Holds
    <3>2. Holds(w, j)'
      BY <2>1 DEF Holds
    <3>3. job[j].attempts + 1 <= MaxAttempts + losses[j]
      BY <1>1, <2>4, QueueAssumption
    <3>4. QED
      BY <2>1, <3>1, <3>2, <3>3 DEF SerialInv, Budget, Unclaimed
  <2>6. QED
    BY <2>3, <2>5 DEF SerialInv
<1>5. ASSUME NEW w \in Workers, CompleteJob(w) \/ FailJob(w)
      PROVE  SerialInv'
  <2> DEFINE j == work[w].job
  <2>1. /\ j \in Jobs
        /\ job'[j].attempts = job[j].attempts
        /\ job'[j].status \notin {"NONE", "LEASED"}
        /\ job'[j].status = "QUEUED" => ~(work[w].token >= MaxAttempts)
        /\ \A k \in Jobs : k # j => job'[k] = job[k]
        /\ losses' = losses
    BY <1>5, SettleEffect
  <2>2. work'[w].job \notin Jobs /\ \A v \in Workers : v # w => work'[v] = work[v]
    BY <1>5, SettleEffect, BecomeIdle
  <2>3. work[w].token = job[j].attempts /\ \A v \in Workers : v # w => work[v].job # j
    BY <2>1 DEF SerialInv, Held
  <2> HIDE DEF j
  <2>4. Held'
    BY <2>1, <2>2, <2>3 DEF SerialInv, Held
  <2>5. Budget'
    <3>1. ASSUME NEW k \in Jobs, k # j, \A v \in Workers : ~Holds(v, k)'
          PROVE  \A v \in Workers : ~Holds(v, k)
      BY <2>1, <2>2, <3>1 DEF Holds, j
    <3>2. job'[j].status = "QUEUED" => job[j].attempts < MaxAttempts + losses[j]
      BY <1>1, <2>1, <2>3, QueueAssumption
    <3>3. QED
      BY <2>1, <3>1, <3>2 DEF SerialInv, Budget, Unclaimed
  <2>6. QED
    BY <2>4, <2>5 DEF SerialInv
<1>6. ASSUME NEW w \in Workers, LoseWorker(w)
      PROVE  SerialInv'
  <2> DEFINE j == work[w].job
  <2>1. j \in Jobs /\ Become(w, Idle) /\ job' = job
    BY <1>6, HoldersAreBusy DEF LoseWorker
  <2>2. losses'[j] = losses[j] + 1 /\ \A k \in Jobs : k # j => losses'[k] = losses[k]
    BY <1>2, <1>6, <2>1 DEF LoseWorker
  <2>3. work'[w].job \notin Jobs /\ \A v \in Workers : v # w => work'[v] = work[v]
    BY <2>1, BecomeIdle
  <2> HIDE DEF j
  <2>4. Held'
    BY <2>1, <2>3 DEF SerialInv, Held
  <2>5. Budget'
    <3>1. ASSUME NEW k \in Jobs, k # j, \A v \in Workers : ~Holds(v, k)'
          PROVE  \A v \in Workers : ~Holds(v, k)
      BY <2>1, <2>3, <3>1 DEF Holds, j
    <3>2. /\ job[j].attempts <= MaxAttempts + (losses[j] + 1)
          /\ job[j].attempts < MaxAttempts + (losses[j] + 1)
      BY <1>1, <2>1, QueueAssumption DEF SerialInv, Budget, Unclaimed
    <3>3. QED
      BY <2>1, <2>2, <3>1, <3>2 DEF SerialInv, Budget, Unclaimed
  <2>6. QED
    BY <2>4, <2>5 DEF SerialInv
<1>7. CASE Quiet
  <2>1. Held'
    BY <1>7 DEF Quiet, SerialInv, Held, Holds
  <2>2. Budget'
    BY <1>7 DEF Quiet, SerialInv, Budget, Unclaimed, Holds
  <2>3. QED
    BY <2>1, <2>2 DEF SerialInv
<1>8. QED
  BY <1>3, <1>4, <1>5, <1>6, <1>7, ClaimCases

\* Nothing is held before the first step.
LEMMA InitSerialInv == Init => SerialInv
  BY QueueAssumption DEF Init, SerialInv, Held, Budget, Unclaimed, NoRow, Idle

\* When no two workers work on one job, a job is claimed at most max_attempts
\* times plus once for every worker lost while it held the job, although
\* Claim never compares the two columns.
THEOREM AttemptsStayBounded == ASSUME Serial PROVE Spec => []AttemptsAreBounded
<1>1. SerialInv => AttemptsAreBounded
  BY DEF SerialInv, Budget, Unclaimed, AttemptsAreBounded
<1>2. Typed /\ SerialInv /\ [Next]_vars => SerialInv'
  BY StepSerialInv
<1>3. QED
  BY InitTyped, StepTyped, InitSerialInv, <1>1, <1>2, PTL DEF Spec

\* When no two workers work on one job, SUCCEEDED and DEAD_LETTER, the states
\* at which a polling client stops, are never left.
THEOREM VerdictsAreFinal == ASSUME Serial PROVE Spec => VerdictIsFinal
<1> DEFINE Kept == \A j \in Jobs : job[j].status \in Settled => job'[j].status = job[j].status
<1>1. Typed /\ SerialInv /\ [Next]_vars => [Kept]_vars
  <2> SUFFICES ASSUME Typed, SerialInv, [Next]_vars
               PROVE  Kept
    OBVIOUS
  <2>1. job \in [Jobs -> JobRow]
    BY DEF Typed, RowsOK
  <2>2. ASSUME NEW j \in Jobs, NEW S \in SUBSET Sources, EnqueueBuild(j, S)
        PROVE  Kept
    BY <2>1, <2>2 DEF EnqueueBuild, UpdateJob, Settled
  <2>3. ASSUME NEW w \in Workers, NEW j \in Jobs, Claim(w, j)
        PROVE  Kept
    BY <2>3, ClaimEffect DEF Settled
  <2>4. ASSUME NEW w \in Workers, CompleteJob(w) \/ FailJob(w)
        PROVE  Kept
    BY <2>4, SettleEffect DEF Settled, SerialInv, Held
  <2>5. ASSUME NEW w \in Workers, LoseWorker(w)
        PROVE  Kept
    BY <2>5 DEF LoseWorker
  <2>6. CASE Quiet
    BY <2>6 DEF Quiet
  <2>7. QED
    BY <2>2, <2>3, <2>4, <2>5, <2>6, ClaimCases
<1>2. Typed /\ SerialInv /\ [Next]_vars => SerialInv'
  BY StepSerialInv
<1>3. QED
  BY InitTyped, StepTyped, InitSerialInv, <1>1, <1>2, PTL DEF Spec, VerdictIsFinal

-----------------------------------------------------------------------------
(* Candidates before EXTRACTED. *)

\* Between SaveCandidates and CompleteSource the candidates are committed.
CandidatesFirst ==
    /\ \A s \in Sources : source[s] = "EXTRACTED" => s \in saved
    /\ \A w \in Workers : work[w].pc = "completing" => work[w].current \in saved

\* Every statement preserves the order of candidates and EXTRACTED.
LEMMA StepCandidatesFirst == Typed /\ CandidatesFirst /\ [Next]_vars => CandidatesFirst'
<1> SUFFICES ASSUME Typed, CandidatesFirst, [Next]_vars
             PROVE  CandidatesFirst'
  OBVIOUS
<1>1. ASSUME NEW w \in Workers, NEW x, Become(w, x), x.pc # "completing",
             source' = source, saved' = saved
      PROVE  CandidatesFirst'
  BY <1>1 DEF Become, CandidatesFirst, Typed, WorkersOK
<1>2. source \in [Sources -> SourceStatus] /\ work \in [Workers -> WorkerState]
  BY DEF Typed, SourcesOK, WorkersOK
<1>3. \A w \in Workers : work[w] \in WorkerState
  BY <1>2
<1>4. ASSUME NEW s \in Sources, MarkUploaded(s)
      PROVE  CandidatesFirst'
  BY <1>2, <1>4 DEF MarkUploaded, CandidatesFirst
<1>5. ASSUME source' = source, saved' = saved, work' = work
      PROVE  CandidatesFirst'
  BY <1>5 DEF CandidatesFirst
<1>6. ASSUME NEW w \in Workers, NEW j \in Jobs, Claim(w, j)
      PROVE  CandidatesFirst'
  <2> DEFINE x == [Idle EXCEPT !.pc = "claimed", !.job = j, !.token = job[j].attempts + 1]
  <2>1. Become(w, x) /\ source' = source /\ saved' = saved
    BY <1>6 DEF Claim
  <2>2. x.pc # "completing"
    BY DEF Idle
  <2> HIDE DEF x
  <2>3. QED
    BY <1>1, <2>1, <2>2
<1>7. ASSUME NEW w \in Workers, LoadSources(w)
      PROVE  CandidatesFirst'
  <2> DEFINE rest == {s \in job[work[w].job].sources : source[s] # "EXTRACTED"}
             x == [work[w] EXCEPT !.pc = "picking", !.todo = rest]
  <2>1. Become(w, x) /\ source' = source /\ saved' = saved
    BY <1>7 DEF LoadSources
  <2> HIDE DEF rest
  <2>2. x.pc # "completing"
    BY <1>3 DEF WorkerState
  <2> HIDE DEF x
  <2>3. QED
    BY <1>1, <2>1, <2>2
<1>8. ASSUME NEW w \in Workers, NEW s \in Sources, StartSource(w, s)
      PROVE  CandidatesFirst'
  <2>1. PICK n \in 1..MaxPasses :
            Become(w, [work[w] EXCEPT !.pc = "extracting", !.current = s,
                                      !.todo = @ \ {s}, !.passes = n])
    BY <1>8 DEF StartSource
  <2>2. source' = [source EXCEPT ![s] = "EXTRACTING"] /\ saved' = saved
    BY <1>8 DEF StartSource
  <2>3. \A v \in Workers : work'[v].pc = "completing" => work'[v] = work[v]
    BY <1>2, <1>3, <2>1 DEF Become, WorkerState
  <2>4. QED
    BY <1>2, <2>2, <2>3 DEF CandidatesFirst
<1>9. ASSUME NEW w \in Workers, ExtractPass(w)
      PROVE  CandidatesFirst'
  <2> DEFINE x == [work[w] EXCEPT !.passes = @ - 1,
                                  !.pc = IF work[w].passes = 1 THEN "saving" ELSE @]
  <2>1. Become(w, x) /\ source' = source /\ saved' = saved /\ work[w].pc = "extracting"
    BY <1>9 DEF ExtractPass
  <2>2. x.pc # "completing"
    BY <1>3, <2>1 DEF WorkerState
  <2> HIDE DEF x
  <2>3. QED
    BY <1>1, <2>1, <2>2
<1>10. ASSUME NEW w \in Workers, SetJobProgress(w)
       PROVE  CandidatesFirst'
  <2> DEFINE x == [work[w] EXCEPT !.pc = "picking", !.current = NoSource]
  <2>1. Become(w, x) /\ source' = source /\ saved' = saved
    BY <1>10 DEF SetJobProgress
  <2>2. x.pc # "completing"
    BY <1>3 DEF WorkerState
  <2> HIDE DEF x
  <2>3. QED
    BY <1>1, <2>1, <2>2
<1>11. ASSUME NEW w \in Workers, SaveCandidates(w)
       PROVE  CandidatesFirst'
  <2>1. /\ work' = [work EXCEPT ![w] = [work[w] EXCEPT !.pc = "completing"]]
        /\ saved' = saved \cup {work[w].current} /\ source' = source
    BY <1>11 DEF SaveCandidates, Goto, Become
  <2>2. work'[w].current = work[w].current /\ \A v \in Workers : v # w => work'[v] = work[v]
    BY <1>2, <1>3, <2>1 DEF WorkerState
  <2>3. QED
    BY <2>1, <2>2 DEF CandidatesFirst
<1>12. ASSUME NEW w \in Workers, NEW step, Goto(w, step), step # "completing",
              saved \subseteq saved',
              \A s \in Sources : source'[s] = "EXTRACTED" => s \in saved'
       PROVE  CandidatesFirst'
  <2>1. work' = [work EXCEPT ![w] = [work[w] EXCEPT !.pc = step]]
    BY <1>12 DEF Goto, Become
  <2>2. \A v \in Workers : work'[v].pc = "completing" => work'[v] = work[v]
    BY <1>2, <1>3, <1>12, <2>1 DEF WorkerState
  <2>3. QED
    BY <1>12, <2>2 DEF CandidatesFirst
<1>13. ASSUME NEW w \in Workers, CompleteSource(w)
       PROVE  CandidatesFirst'
  <2>1. /\ Goto(w, "progress") /\ saved' = saved
        /\ source' = [source EXCEPT ![work[w].current] = "EXTRACTED"]
        /\ work[w].current \in saved
    BY <1>13 DEF CompleteSource, CandidatesFirst
  <2>2. \A s \in Sources : source'[s] = "EXTRACTED" => s \in saved'
    BY <1>2, <2>1 DEF CandidatesFirst
  <2>3. QED
    BY <1>12, <2>1, <2>2
<1>14. ASSUME NEW w \in Workers, SourceError(w)
       PROVE  CandidatesFirst'
  <2>1. /\ Goto(w, "failsource")
        /\ \/ source' = source /\ saved' = saved
           \/ source' = source /\ saved' = saved \cup {work[w].current}
           \/ /\ work[w].pc = "completing" /\ saved' = saved
              /\ source' = [source EXCEPT ![work[w].current] = "EXTRACTED"]
    BY <1>14, Zenon DEF SourceError
  <2>2. saved \subseteq saved' /\ \A s \in Sources : source'[s] = "EXTRACTED" => s \in saved'
    BY <1>2, <2>1 DEF CandidatesFirst
  <2>3. QED
    BY <1>12, <2>1, <2>2
<1>15. ASSUME NEW w \in Workers, JobError(w)
       PROVE  CandidatesFirst'
  BY <1>12, <1>15 DEF JobError, CandidatesFirst
<1>16. ASSUME NEW w \in Workers, FailSource(w)
       PROVE  CandidatesFirst'
  <2>1. /\ Goto(w, "failjob") /\ saved' = saved
        /\ \/ source' = source
           \/ source' = [source EXCEPT ![work[w].current] = "FAILED"]
    BY <1>16, Zenon DEF FailSource
  <2>2. \A s \in Sources : source'[s] = "EXTRACTED" => s \in saved'
    BY <1>2, <2>1 DEF CandidatesFirst
  <2>3. QED
    BY <1>12, <2>1, <2>2
<1>17. Idle.pc # "completing"
  BY DEF Idle
<1>18. ASSUME NEW w \in Workers, CompleteJob(w) \/ FailJob(w) \/ LoseWorker(w)
       PROVE  CandidatesFirst'
  <2>1. Become(w, Idle) /\ source' = source /\ saved' = saved
    BY <1>18 DEF CompleteJob, FailJob, LoseWorker
  <2>2. QED
    BY <1>1, <1>17, <2>1
<1>19. ASSUME NEW j \in Jobs,
              \/ LeaseExpires(j) \/ BackoffElapses(j)
              \/ \E S \in SUBSET Sources : EnqueueBuild(j, S)
       PROVE  CandidatesFirst'
  BY <1>5, <1>19 DEF LeaseExpires, BackoffElapses, EnqueueBuild
<1>20. CASE UNCHANGED vars
  BY <1>5, <1>20 DEF vars
<1>21. QED
  BY <1>4, <1>6, <1>7, <1>8, <1>9, <1>10, <1>11, <1>13, <1>14, <1>15, <1>16,
     <1>18, <1>19, <1>20, StepCases, Zenon

\* A source is EXTRACTED only when its candidates are committed, so the retry
\* that skips it loses nothing (worker_store.go, Sources and SaveCandidates).
THEOREM CandidatesPrecedeExtracted == Spec => []ExtractedHasCandidates
<1>1. Init => CandidatesFirst
  BY DEF Init, CandidatesFirst, Idle
<1>2. CandidatesFirst => ExtractedHasCandidates
  BY DEF CandidatesFirst, ExtractedHasCandidates
<1>3. QED
  BY InitTyped, StepTyped, StepCandidatesFirst, <1>1, <1>2, PTL DEF Spec

=============================================================================
