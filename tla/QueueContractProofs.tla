------------------------ MODULE QueueContractProofs ------------------------
(***************************************************************************)
(* The extraction queue, run by one worker process, implements JobContract *)
(* for any number of jobs, sources, retries, lost answers and lost         *)
(* workers.                                                                *)
(***************************************************************************)
EXTENDS ExtractionQueueProofs

\* "concurrency", 1: one worker process at a time.
OneWorker == \A v, w \in Workers : v = w

\* The steps of the loop over the sources, and the source that a worker has
\* taken out of its list and not completed.
Working == {"extracting", "saving", "completing"}
Loop == Working \cup {"picking", "progress"}
InHand(x) == IF x.pc \in Working THEN {x.current} ELSE {}

\* A worker in state x for a job that lacks these sources: what its loop has
\* before it is what the job lacks, once it has read that.
LoopOK(x, S, E) ==
    /\ x.pc \in Loop => x.todo \cup InHand(x) = S \ E
    /\ x.pc \in Working => x.current \notin x.todo
    /\ x.pc = "failsource" => x.current \in S

LoopInv == \A w \in Workers : LoopOK(work[w], job[work[w].job].sources, Extracted)

NothingMissing ==
    \A j \in Jobs : job[j].status = "SUCCEEDED" => job[j].sources \subseteq Extracted

ContractInv == Typed /\ SerialInv /\ LoopInv /\ NothingMissing

-----------------------------------------------------------------------------
(* Kinds of steps, as the client of the contract sees them. *)

SameRow(j) ==
    /\ job'[j].status = job[j].status
    /\ job'[j].sources = job[j].sources
    /\ job'[j].attempts = job[j].attempts

SameRows == \A j \in Jobs : SameRow(j)

\* A document is extracted for a job under way.
Extracts(s) ==
    /\ SameRows
    /\ s \in Sources \ Extracted
    /\ \E j \in Jobs : job[j].status = "LEASED" /\ s \in job[j].sources
    /\ Extracted' = Extracted \cup {s}

\* One row gets another status and nothing else changes but its attempts.
Decides(j, status, attempts) ==
    /\ \A k \in Jobs : k # j => SameRow(k)
    /\ job'[j].status = status /\ job'[j].attempts = attempts
    /\ job'[j].sources = job[j].sources
    /\ Extracted' = Extracted

\* Nothing that the client sees.
LEMMA StutterOfContract ==
    ASSUME SameRows, Extracted' = Extracted
    PROVE  UNCHANGED Contract!contractVars
<1>1. [j \in Jobs |-> job'[j].status] = [j \in Jobs |-> job[j].status]
    BY DEF SameRows, SameRow
<1>2. [j \in Jobs |-> job'[j].sources] = [j \in Jobs |-> job[j].sources]
    BY DEF SameRows, SameRow
<1>3. [j \in Jobs |-> job'[j].attempts] = [j \in Jobs |-> job[j].attempts]
    BY DEF SameRows, SameRow
<1> QED BY <1>1, <1>2, <1>3 DEF Contract!contractVars

LEMMA ExtractOfContract ==
    ASSUME NEW s, Extracts(s)
    PROVE  Contract!Next
<1>1. [j \in Jobs |-> job'[j].status] = [j \in Jobs |-> job[j].status]
    BY DEF Extracts, SameRows, SameRow
<1>2. [j \in Jobs |-> job'[j].sources] = [j \in Jobs |-> job[j].sources]
    BY DEF Extracts, SameRows, SameRow
<1>3. [j \in Jobs |-> job'[j].attempts] = [j \in Jobs |-> job[j].attempts]
    BY DEF Extracts, SameRows, SameRow
<1>4. PICK j \in Jobs : job[j].status = "LEASED" /\ s \in job[j].sources
    BY DEF Extracts
<1>5. s \in Sources /\ s \notin Extracted /\ Extracted' = Extracted \cup {s}
    BY DEF Extracts
<1>6. Contract!Extract(s)
    BY <1>1, <1>2, <1>3, <1>4, <1>5 DEF Contract!Extract
<1> QED BY <1>5, <1>6 DEF Contract!Next

\* A claim, or the end of an attempt.
LEMMA DecisionOfContract ==
    ASSUME NEW j \in Jobs, NEW status, NEW attempts, Decides(j, status, attempts),
           \/ /\ job[j].status \in {"QUEUED", "LEASED"}
              /\ status = "LEASED" /\ attempts = job[j].attempts + 1
           \/ /\ job[j].status = "LEASED" /\ attempts = job[j].attempts
              /\ \/ status = "SUCCEEDED" /\ job[j].sources \subseteq Extracted
                 \/ status = "QUEUED" /\ job[j].attempts < MaxAttempts
                 \/ status = "DEAD_LETTER" /\ job[j].attempts >= MaxAttempts
    PROVE  Contract!Next
<1> DEFINE st == [k \in Jobs |-> job[k].status]
           tr == [k \in Jobs |-> job[k].attempts]
<1>1. [k \in Jobs |-> job'[k].status] = [st EXCEPT ![j] = status]
    BY DEF Decides, SameRow
<1>2. [k \in Jobs |-> job'[k].sources] = [k \in Jobs |-> job[k].sources]
    BY DEF Decides, SameRow
<1>3. [k \in Jobs |-> job'[k].attempts] = [tr EXCEPT ![j] = attempts]
    BY DEF Decides, SameRow
<1>4. Extracted' = Extracted
    BY DEF Decides
<1>5. st[j] = job[j].status /\ tr[j] = job[j].attempts
    OBVIOUS
<1>6. attempts = job[j].attempts => [k \in Jobs |-> job'[k].attempts] = tr
    BY <1>3
<1>7. CASE /\ job[j].status \in {"QUEUED", "LEASED"}
           /\ status = "LEASED" /\ attempts = job[j].attempts + 1
    <2>1. Contract!Attempt(j)
        BY <1>1, <1>2, <1>3, <1>4, <1>5, <1>7 DEF Contract!Attempt
    <2> QED BY <2>1 DEF Contract!Next
<1>8. CASE /\ job[j].status = "LEASED" /\ attempts = job[j].attempts
           /\ status = "SUCCEEDED" /\ job[j].sources \subseteq Extracted
    <2>1. Contract!Succeed(j)
        BY <1>1, <1>2, <1>4, <1>5, <1>6, <1>8 DEF Contract!Succeed
    <2> QED BY <2>1 DEF Contract!Next
<1>9. CASE /\ job[j].status = "LEASED" /\ attempts = job[j].attempts
           /\ status = "QUEUED" /\ job[j].attempts < MaxAttempts
    <2>1. Contract!Retry(j)
        BY <1>1, <1>2, <1>4, <1>5, <1>6, <1>9 DEF Contract!Retry
    <2> QED BY <2>1 DEF Contract!Next
<1>10. CASE /\ job[j].status = "LEASED" /\ attempts = job[j].attempts
            /\ status = "DEAD_LETTER" /\ job[j].attempts >= MaxAttempts
    <2>1. Contract!Bury(j)
        BY <1>1, <1>2, <1>4, <1>5, <1>6, <1>10 DEF Contract!Bury
    <2> QED BY <2>1 DEF Contract!Next
<1> QED BY <1>7, <1>8, <1>9, <1>10

\* An enqueued job; one without sources has succeeded.
LEMMA EnqueueOfContract ==
    ASSUME Typed, SerialInv, NEW j \in Jobs, NEW S \in SUBSET Sources, EnqueueBuild(j, S),
           Extracted' = Extracted
    PROVE  Contract!Next
<1> DEFINE st == [k \in Jobs |-> job[k].status]
           needs == [k \in Jobs |-> job[k].sources]
           new == IF S = {} THEN "SUCCEEDED" ELSE "QUEUED"
<1>1. /\ job[j].status = "NONE" /\ job[j].attempts = 0
      /\ job'[j].status = new /\ job'[j].sources = S /\ job'[j].attempts = 0
      /\ \A k \in Jobs : k # j => job'[k] = job[k]
    BY DEF EnqueueBuild, UpdateJob, NoRow, Typed, RowsOK, SerialInv, Budget
<1>2. [k \in Jobs |-> job'[k].status] = [st EXCEPT ![j] = new]
    BY <1>1
<1>3. [k \in Jobs |-> job'[k].sources] = [needs EXCEPT ![j] = S]
    BY <1>1
<1>4. [k \in Jobs |-> job'[k].attempts] = [k \in Jobs |-> job[k].attempts]
    BY <1>1
<1>5. Contract!Enqueue(j, S)
    BY <1>1, <1>2, <1>3, <1>4 DEF Contract!Enqueue
<1> QED BY <1>5 DEF Contract!Next

-----------------------------------------------------------------------------
(* The steps of the one worker. *)

\* What its state means for Extracted.
Seen(src, x) == {s \in Sources : src[s] = "EXTRACTED" /\ ~(x.pc = "failsource" /\ x.current = s)}

LEMMA ExtractedByOne ==
    ASSUME OneWorker, NEW w \in Workers
    PROVE  Extracted = Seen(source, work[w]) /\ Extracted' = Seen(source', work'[w])
BY DEF Extracted, Seen, OneWorker

\* The worker goes on in its loop, and the job lacks what it lacked.
LEMMA LoopStep ==
    ASSUME OneWorker, NEW w \in Workers, LoopOK(work'[w], job'[work'[w].job].sources, Extracted')
    PROVE  LoopInv'
BY DEF LoopInv, OneWorker

\* What every case below needs of the worker.
LEMMA WorkerFacts ==
    ASSUME ContractInv, NEW w \in Workers, work[w].pc # "idle"
    PROVE  /\ work[w] \in WorkerState /\ work \in [Workers -> WorkerState]
           /\ job \in [Jobs -> JobRow] /\ source \in [Sources -> SourceStatus]
           /\ work[w].job \in Jobs
           /\ job[work[w].job].status = "LEASED"
           /\ work[w].token = job[work[w].job].attempts
           /\ job[work[w].job].sources \subseteq Sources
           /\ LoopOK(work[w], job[work[w].job].sources, Extracted)
           /\ work[w].pc \in Working \cup {"progress", "failsource"} => work[w].current \in Sources
<1>1. /\ work[w] \in WorkerState /\ work \in [Workers -> WorkerState]
      /\ job \in [Jobs -> JobRow] /\ source \in [Sources -> SourceStatus]
      /\ work[w].job \in Jobs
    BY HoldersAreBusy DEF ContractInv, Typed, RowsOK, SourcesOK, WorkersOK
<1>2. job[work[w].job].status = "LEASED" /\ work[w].token = job[work[w].job].attempts
    BY <1>1 DEF ContractInv, SerialInv, Held
<1>3. job[work[w].job].sources \subseteq Sources
    BY <1>1 DEF JobRow
<1>4. LoopOK(work[w], job[work[w].job].sources, Extracted)
    BY DEF ContractInv, LoopInv
<1>5. work[w].pc \in Working \cup {"progress", "failsource"} => work[w].current \in Sources
    BY DEF ContractInv, Typed, WorkersOK, WorkerOK, Working
<1> QED BY <1>1, <1>2, <1>3, <1>4, <1>5

\* A step that gives the client nothing to see but a document.
Hidden == SameRows /\ Extracted' = Extracted
Follows == LoopInv' /\ (Hidden \/ \E s : Extracts(s))

\* Reading the sources and taking the next one.
LEMMA PickingFollows ==
    ASSUME OneWorker, ContractInv, NEW w \in Workers,
           LoadSources(w) \/ \E s \in Sources : StartSource(w, s)
    PROVE  Follows
<1>1. /\ work[w] \in WorkerState /\ work \in [Workers -> WorkerState]
      /\ source \in [Sources -> SourceStatus] /\ job[work[w].job].sources \subseteq Sources
      /\ LoopOK(work[w], job[work[w].job].sources, Extracted)
    BY WorkerFacts DEF LoadSources, StartSource
<1>2. SameRows /\ job' = job
    BY DEF LoadSources, StartSource, SameRows, SameRow
<1>3. Extracted = Seen(source, work[w]) /\ Extracted' = Seen(source', work'[w])
    BY ExtractedByOne
<1> DEFINE S == job[work[w].job].sources
<1>4. CASE LoadSources(w)
    <2> DEFINE rest == {s \in S : source[s] # "EXTRACTED"}
    <2>1. /\ work' = [work EXCEPT ![w] = [work[w] EXCEPT !.pc = "picking", !.todo = rest]]
          /\ source' = source /\ work[w].pc = "claimed"
        BY <1>4 DEF LoadSources, Become
    <2>2. rest = S \ {s \in Sources : source[s] = "EXTRACTED"}
        BY <1>1
    <2> HIDE DEF rest
    <2>3. work'[w].pc = "picking" /\ work'[w].todo = rest /\ work'[w].job = work[w].job
        BY <1>1, <2>1 DEF WorkerState
    <2>4. /\ Extracted = {s \in Sources : source[s] = "EXTRACTED"}
          /\ Extracted' = Extracted
        BY <1>3, <2>1, <2>3 DEF Seen
    <2>5. LoopOK(work'[w], S, Extracted)
        BY <2>2, <2>3, <2>4 DEF LoopOK, InHand, Working, Loop
    <2> QED BY <1>2, <2>3, <2>4, <2>5, LoopStep DEF Follows, Hidden
<1>5. ASSUME NEW s \in Sources, StartSource(w, s)
      PROVE  Follows
    <2>1. PICK n \in 1..MaxPasses :
              work' = [work EXCEPT ![w] = [work[w] EXCEPT !.pc = "extracting", !.current = s,
                                                          !.todo = @ \ {s}, !.passes = n]]
        BY <1>5 DEF StartSource, Become
    <2>2. source' = [source EXCEPT ![s] = "EXTRACTING"] /\ work[w].pc = "picking" /\ s \in work[w].todo
        BY <1>5 DEF StartSource
    <2>3. /\ work'[w].pc = "extracting" /\ work'[w].current = s /\ work'[w].todo = work[w].todo \ {s}
          /\ work'[w].job = work[w].job
        BY <1>1, <2>1 DEF WorkerState
    <2>4. work[w].todo = S \ Extracted
        BY <1>1, <2>2 DEF LoopOK, InHand, Working, Loop
    <2>5. s \notin Extracted
        BY <2>2, <2>4
    <2>6. Extracted' = Extracted
        BY <1>1, <1>3, <2>2, <2>3, <2>5 DEF Seen
    <2>7. LoopOK(work'[w], S, Extracted)
        BY <2>2, <2>3, <2>4 DEF LoopOK, InHand, Working, Loop
    <2> QED BY <1>2, <2>3, <2>6, <2>7, LoopStep DEF Follows, Hidden
<1> QED BY <1>4, <1>5

\* One source after the other is read, saved and completed.
LEMMA WorkingFollows ==
    ASSUME OneWorker, ContractInv, NEW w \in Workers,
           ExtractPass(w) \/ SaveCandidates(w) \/ CompleteSource(w) \/ SetJobProgress(w)
    PROVE  Follows
<1>1. /\ work[w] \in WorkerState /\ work \in [Workers -> WorkerState]
      /\ job \in [Jobs -> JobRow] /\ work[w].job \in Jobs /\ job[work[w].job].status = "LEASED"
      /\ source \in [Sources -> SourceStatus] /\ job[work[w].job].sources \subseteq Sources
      /\ LoopOK(work[w], job[work[w].job].sources, Extracted)
      /\ work[w].pc \in Working \cup {"progress", "failsource"} => work[w].current \in Sources
    BY WorkerFacts DEF ExtractPass, SaveCandidates, CompleteSource, SetJobProgress
<1>2. SameRows
    BY <1>1 DEF ExtractPass, SaveCandidates, CompleteSource, SetJobProgress, RenewLease, UpdateJob,
                JobRow, SameRows, SameRow
<1>3. Extracted = Seen(source, work[w]) /\ Extracted' = Seen(source', work'[w])
    BY ExtractedByOne
<1> DEFINE S == job[work[w].job].sources
           j == work[w].job
<1>4. work'[w].job = work[w].job /\ work'[w].todo = work[w].todo
    <2>1. CASE ExtractPass(w)
        BY <1>1, <2>1 DEF ExtractPass, Become, WorkerState
    <2>2. CASE SaveCandidates(w) \/ CompleteSource(w)
        BY <1>1, <2>2 DEF SaveCandidates, CompleteSource, Goto, Become, WorkerState
    <2>3. CASE SetJobProgress(w)
        BY <1>1, <2>3 DEF SetJobProgress, Become, WorkerState
    <2> QED BY <2>1, <2>2, <2>3
<1>5. job'[work'[w].job].sources = S
    BY <1>1, <1>2, <1>4 DEF SameRows, SameRow
<1>6. CASE ExtractPass(w) \/ SaveCandidates(w)
    <2>1. /\ work[w].pc \in Working /\ work'[w].pc \in Working
          /\ work'[w].current = work[w].current /\ source' = source
        <3>1. CASE ExtractPass(w)
            BY <1>1, <3>1 DEF ExtractPass, Become, WorkerState, Working
        <3>2. CASE SaveCandidates(w)
            BY <1>1, <3>2 DEF SaveCandidates, Goto, Become, WorkerState, Working
        <3> QED BY <1>6, <3>1, <3>2
    <2>2. Extracted' = Extracted
        BY <1>3, <2>1 DEF Seen, Working
    <2>3. LoopOK(work'[w], S, Extracted')
        BY <1>1, <1>4, <2>1, <2>2 DEF LoopOK, InHand, Working, Loop
    <2> QED BY <1>2, <1>5, <2>2, <2>3, LoopStep DEF Follows, Hidden
<1>7. CASE CompleteSource(w)
    <2> DEFINE s == work[w].current
    <2>1. /\ work[w].pc = "completing" /\ work'[w].pc = "progress"
          /\ source' = [source EXCEPT ![s] = "EXTRACTED"]
        BY <1>1, <1>7 DEF CompleteSource, Goto, Become, WorkerState
    <2>2. s \in Sources /\ work[w].todo \cup {s} = S \ Extracted /\ s \notin work[w].todo
        BY <1>1, <2>1 DEF LoopOK, InHand, Working, Loop
    <2>3. Extracted' = Extracted \cup {s}
        BY <1>1, <1>3, <2>1, <2>2 DEF Seen
    <2>4. Extracts(s)
        BY <1>1, <1>2, <2>2, <2>3 DEF Extracts
    <2>5. LoopOK(work'[w], S, Extracted')
        BY <1>4, <2>1, <2>2, <2>3 DEF LoopOK, InHand, Working, Loop
    <2> QED BY <1>5, <2>4, <2>5, LoopStep DEF Follows
<1>8. CASE SetJobProgress(w)
    <2>1. work[w].pc = "progress" /\ work'[w].pc = "picking" /\ source' = source
        BY <1>1, <1>8 DEF SetJobProgress, Become, WorkerState
    <2>2. Extracted' = Extracted
        BY <1>3, <2>1 DEF Seen
    <2>3. LoopOK(work'[w], S, Extracted')
        BY <1>1, <1>4, <2>1, <2>2 DEF LoopOK, InHand, Working, Loop
    <2> QED BY <1>2, <1>5, <2>2, <2>3, LoopStep DEF Follows, Hidden
<1> QED BY <1>6, <1>7, <1>8

\* Errors: the source at hand is counted as extracted, if it is, when the
\* worker has dealt with the error, or is lost over it.
LEMMA ErrorsFollow ==
    ASSUME OneWorker, ContractInv, NEW w \in Workers,
           SourceError(w) \/ JobError(w) \/ FailSource(w) \/ LoseWorker(w)
    PROVE  Follows
<1>1. /\ work[w] \in WorkerState /\ work \in [Workers -> WorkerState]
      /\ work[w].job \in Jobs /\ job[work[w].job].status = "LEASED"
      /\ source \in [Sources -> SourceStatus] /\ job[work[w].job].sources \subseteq Sources
      /\ LoopOK(work[w], job[work[w].job].sources, Extracted)
      /\ work[w].pc \in Working \cup {"progress", "failsource"} => work[w].current \in Sources
    BY WorkerFacts DEF SourceError, JobError, FailSource, LoseWorker
<1>2. SameRows /\ job' = job
    BY DEF SourceError, JobError, FailSource, LoseWorker, SameRows, SameRow
<1>3. Extracted = Seen(source, work[w]) /\ Extracted' = Seen(source', work'[w])
    BY ExtractedByOne
<1> DEFINE S == job[work[w].job].sources
           s == work[w].current
<1>4. CASE SourceError(w)
    <2>1. /\ work[w].pc \in Working /\ work'[w].pc = "failsource" /\ work'[w].current = s
          /\ work'[w].job = work[w].job
        BY <1>1, <1>4 DEF SourceError, Goto, Become, WorkerState, Working
    <2>2. source' = source \/ source' = [source EXCEPT ![s] = "EXTRACTED"]
        BY <1>4 DEF SourceError
    <2>3. s \in S \ Extracted /\ s \in Sources
        BY <1>1, <2>1 DEF LoopOK, InHand, Working, Loop
    <2>4. work[w].pc # "failsource"
        BY <2>1 DEF Working
    <2>5. Extracted' = Extracted
        BY <1>1, <1>3, <2>1, <2>2, <2>3, <2>4 DEF Seen
    <2>6. LoopOK(work'[w], S, Extracted')
        BY <2>1, <2>3 DEF LoopOK, Working, Loop
    <2> QED BY <1>2, <2>1, <2>5, <2>6, LoopStep DEF Follows, Hidden
<1>5. CASE JobError(w)
    <2>1. /\ work[w].pc \in {"claimed", "progress", "picking"} /\ work'[w].pc = "failjob"
          /\ source' = source
        BY <1>1, <1>5 DEF JobError, Goto, Become, WorkerState
    <2>2. Extracted' = Extracted
        BY <1>3, <2>1 DEF Seen
    <2>3. LoopOK(work'[w], job'[work'[w].job].sources, Extracted')
        BY <2>1 DEF LoopOK, Working, Loop
    <2> QED BY <1>2, <2>2, <2>3, LoopStep DEF Follows, Hidden
<1>6. ASSUME FailSource(w) \/ LoseWorker(w)
      PROVE  Follows
    <2>1. /\ work'[w].pc \in {"failjob", "idle"}
          /\ \/ source' = source
             \/ work[w].pc = "failsource" /\ source' = [source EXCEPT ![s] = "FAILED"]
        <3>1. CASE FailSource(w)
            BY <1>1, <3>1 DEF FailSource, Goto, Become, WorkerState
        <3>2. CASE LoseWorker(w)
            BY <1>1, <3>2 DEF LoseWorker, Become, Idle
        <3> QED BY <1>6, <3>1, <3>2
    <2>2. LoopOK(work'[w], job'[work'[w].job].sources, Extracted')
        BY <2>1 DEF LoopOK, Working, Loop
    <2>3. Extracted' = {t \in Sources : source'[t] = "EXTRACTED"}
        BY <1>3, <2>1 DEF Seen
    <2>4. Hidden \/ Extracts(s)
        <3>1. CASE work[w].pc = "failsource" /\ source' = source /\ source[s] = "EXTRACTED"
            <4>1. s \in S /\ s \in Sources /\ s \notin Extracted
                BY <1>1, <1>3, <3>1 DEF LoopOK, Seen
            <4>2. Extracted' = Extracted \cup {s}
                BY <1>3, <2>3, <3>1, <4>1 DEF Seen
            <4> QED BY <1>1, <1>2, <4>1, <4>2 DEF Extracts
        <3>2. CASE ~(work[w].pc = "failsource" /\ source' = source /\ source[s] = "EXTRACTED")
            <4>1. Extracted' = Extracted
                BY <1>1, <1>3, <2>1, <2>3, <3>2 DEF Seen
            <4> QED BY <1>2, <4>1 DEF Hidden
        <3> QED BY <3>1, <3>2
    <2> QED BY <2>2, <2>4, LoopStep DEF Follows
<1> QED BY <1>4, <1>5, <1>6

-----------------------------------------------------------------------------
(* Every step. *)

\* What a step of the queue is to the client, and that it keeps the loop.
LEMMA StepFollows ==
    ASSUME OneWorker, ContractInv, [Next]_vars
    PROVE  /\ LoopInv'
           /\ NothingMissing'
           /\ [Contract!Next]_(Contract!contractVars)
<1>1. ASSUME Follows
      PROVE  /\ LoopInv'
             /\ NothingMissing'
             /\ [Contract!Next]_(Contract!contractVars)
    <2>1. SameRows /\ Extracted \subseteq Extracted'
        BY <1>1 DEF Follows, Hidden, Extracts
    <2>2. NothingMissing'
        BY <2>1 DEF ContractInv, NothingMissing, SameRows, SameRow
    <2>3. [Contract!Next]_(Contract!contractVars)
        BY <1>1, StutterOfContract, ExtractOfContract DEF Follows, Hidden
    <2> QED BY <1>1, <2>2, <2>3 DEF Follows
<1>2. job \in [Jobs -> JobRow] /\ source \in [Sources -> SourceStatus] /\ work \in [Workers -> WorkerState]
    BY DEF ContractInv, Typed, RowsOK, SourcesOK, WorkersOK
<1>3. ASSUME work' = work, Extracted' = Extracted, SameRows
      PROVE  Follows
    <2>1. LoopInv'
        <3> SUFFICES ASSUME NEW w \in Workers
                     PROVE  LoopOK(work[w], job'[work[w].job].sources, Extracted)
            BY <1>3 DEF LoopInv
        <3>1. LoopOK(work[w], job[work[w].job].sources, Extracted)
            BY DEF ContractInv, LoopInv
        <3>2. work[w].pc # "idle" => work[w].job \in Jobs
            BY HoldersAreBusy DEF ContractInv
        <3>3. CASE work[w].pc = "idle"
            BY <3>3 DEF LoopOK, Loop, Working
        <3>4. CASE work[w].pc # "idle"
            BY <1>3, <3>1, <3>2, <3>4 DEF SameRows, SameRow
        <3> QED BY <3>3, <3>4
    <2> QED BY <1>3, <2>1 DEF Follows, Hidden
<1>4. ASSUME NEW s \in Sources, MarkUploaded(s)
      PROVE  Follows
    <2>1. work' = work /\ SameRows
        BY <1>4 DEF MarkUploaded, SameRows, SameRow
    <2>2. Extracted' = Extracted
        BY <1>2, <1>4 DEF MarkUploaded, Extracted
    <2> QED BY <1>3, <2>1, <2>2
<1>5. ASSUME NEW j \in Jobs, LeaseExpires(j) \/ BackoffElapses(j)
      PROVE  Follows
    <2>1. work' = work /\ SameRows
        BY <1>2, <1>5 DEF LeaseExpires, BackoffElapses, UpdateJob, JobRow, SameRows, SameRow
    <2>2. Extracted' = Extracted
        BY <1>5 DEF LeaseExpires, BackoffElapses, Extracted
    <2> QED BY <1>3, <2>1, <2>2
<1>6. CASE UNCHANGED vars
    <2>1. work' = work /\ SameRows /\ Extracted' = Extracted
        BY <1>6 DEF vars, SameRows, SameRow, Extracted
    <2> QED BY <1>1, <1>3, <2>1
<1>7. ASSUME NEW j \in Jobs, NEW S \in SUBSET Sources, EnqueueBuild(j, S)
      PROVE  /\ LoopInv'
             /\ NothingMissing'
             /\ Contract!Next
    <2>1. /\ job[j].status = "NONE" /\ job'[j].sources = S
          /\ job'[j].status = "SUCCEEDED" => S = {}
          /\ \A k \in Jobs : k # j => job'[k] = job[k]
          /\ work' = work /\ source' = source
        BY <1>2, <1>7 DEF EnqueueBuild, UpdateJob, NoRow
    <2>2. Extracted' = Extracted
        BY <2>1 DEF Extracted
    <2>3. LoopInv'
        <3> SUFFICES ASSUME NEW w \in Workers
                     PROVE  LoopOK(work[w], job'[work[w].job].sources, Extracted)
            BY <2>1, <2>2 DEF LoopInv
        <3>1. CASE work[w].pc = "idle"
            BY <3>1 DEF LoopOK, Loop, Working
        <3>2. CASE work[w].pc # "idle"
            <4>1. work[w].job \in Jobs /\ work[w].job # j
                BY <2>1, <3>2, WorkerFacts
            <4> QED BY <2>1, <4>1 DEF ContractInv, LoopInv
        <3> QED BY <3>1, <3>2
    <2>4. NothingMissing'
        BY <2>1, <2>2 DEF ContractInv, NothingMissing
    <2>5. Contract!Next
        BY <1>7, <2>2, EnqueueOfContract DEF ContractInv
    <2> QED BY <2>3, <2>4, <2>5
<1>8. ASSUME NEW w \in Workers, NEW j \in Jobs, Claim(w, j)
      PROVE  /\ LoopInv'
             /\ NothingMissing'
             /\ Contract!Next
    <2>1. /\ job[j].status \in {"QUEUED", "LEASED"}
          /\ job'[j].attempts = job[j].attempts + 1 /\ job'[j].status = "LEASED"
          /\ \A k \in Jobs : k # j => job'[k] = job[k]
        BY <1>8, ClaimEffect DEF ContractInv
    <2>2. job'[j].sources = job[j].sources
        BY <1>2, <1>8 DEF Claim, UpdateJob, JobRow
    <2>3. work[w].pc = "idle" /\ work'[w].pc = "claimed" /\ source' = source
        BY <1>2, <1>8 DEF Claim, Become, Idle
    <2>4. Extracted' = Extracted
        BY <2>3, ExtractedByOne DEF Seen
    <2>5. LoopInv'
        BY <2>3, LoopStep DEF LoopOK, Loop, Working
    <2>6. NothingMissing'
        BY <2>1, <2>4 DEF ContractInv, NothingMissing
    <2>7. Decides(j, "LEASED", job[j].attempts + 1)
        BY <2>1, <2>2, <2>4 DEF Decides, SameRow
    <2>8. Contract!Next
        BY <2>1, <2>7, DecisionOfContract
    <2> QED BY <2>5, <2>6, <2>8
<1>9. ASSUME NEW w \in Workers, CompleteJob(w) \/ FailJob(w)
      PROVE  /\ LoopInv'
             /\ NothingMissing'
             /\ Contract!Next
    <2> DEFINE j == work[w].job
    <2>1. /\ j \in Jobs /\ job[j].status = "LEASED" /\ work[w].token = job[j].attempts
          /\ job[j] \in JobRow
          /\ LoopOK(work[w], job[j].sources, Extracted)
        BY <1>2, <1>9, WorkerFacts DEF CompleteJob, FailJob
    <2>2. /\ \A k \in Jobs : k # j => job'[k] = job[k]
          /\ work'[w] = Idle /\ source' = source /\ work[w].pc # "failsource"
        BY <1>2, <1>9, <2>1 DEF CompleteJob, FailJob, UpdateJob, Become
    <2>3. /\ job'[j].sources = job[j].sources /\ job'[j].attempts = job[j].attempts
          /\ \/ job'[j].status = "SUCCEEDED" /\ work[w].pc = "picking" /\ work[w].todo = {}
             \/ job'[j].status = "DEAD_LETTER" /\ job[j].attempts >= MaxAttempts
             \/ job'[j].status = "QUEUED" /\ ~(job[j].attempts >= MaxAttempts)
        <3>1. CASE CompleteJob(w)
            BY <1>2, <2>1, <3>1 DEF CompleteJob, UpdateJob, JobRow
        <3>2. CASE FailJob(w)
            BY <1>2, <2>1, <3>2 DEF FailJob, UpdateJob, JobRow
        <3> QED BY <1>9, <3>1, <3>2
    <2>4. job[j].attempts \in Nat /\ MaxAttempts \in Nat /\ job[j].sources \subseteq Sources
        BY <2>1, QueueAssumption DEF JobRow
    <2>5. job'[j].status = "SUCCEEDED" => job[j].sources \subseteq Extracted
        BY <2>1, <2>3 DEF LoopOK, Loop, InHand, Working
    <2> HIDE DEF j
    <2>6. Extracted' = Extracted
        <3>1. Extracted = Seen(source, work[w]) /\ Extracted' = Seen(source', work'[w])
            BY ExtractedByOne
        <3>2. work'[w].pc = "idle"
            BY <2>2 DEF Idle
        <3> QED BY <2>2, <3>1, <3>2 DEF Seen
    <2>7. LoopInv'
        BY <2>2, LoopStep DEF LoopOK, Loop, Working, Idle
    <2>8. NothingMissing'
        BY <2>2, <2>3, <2>5, <2>6 DEF ContractInv, NothingMissing
    <2>9. Decides(j, job'[j].status, job[j].attempts)
        BY <2>2, <2>3, <2>6 DEF Decides, SameRow
    <2>10. ~(job[j].attempts >= MaxAttempts) => job[j].attempts < MaxAttempts
        BY <2>4
    <2>11. Contract!Next
        BY <2>1, <2>3, <2>5, <2>9, <2>10, DecisionOfContract
    <2> QED BY <2>7, <2>8, <2>11
<1>10. ASSUME NEW w \in Workers,
              \/ LoadSources(w) \/ \E s \in Sources : StartSource(w, s)
              \/ ExtractPass(w) \/ SaveCandidates(w) \/ CompleteSource(w) \/ SetJobProgress(w)
              \/ SourceError(w) \/ JobError(w) \/ FailSource(w) \/ LoseWorker(w)
       PROVE  Follows
    BY <1>10, PickingFollows, WorkingFollows, ErrorsFollow
<1> QED BY <1>1, <1>4, <1>5, <1>6, <1>7, <1>8, <1>9, <1>10, StepCases, Zenon

LEMMA InitContractInv == Init => ContractInv
<1> SUFFICES ASSUME Init
             PROVE  ContractInv
    OBVIOUS
<1>1. LoopInv
    BY DEF Init, LoopInv, LoopOK, Loop, Working, Idle
<1>2. NothingMissing
    BY DEF Init, NothingMissing, NoRow
<1> QED BY <1>1, <1>2, InitTyped, InitSerialInv DEF ContractInv

LEMMA StepContractInv ==
    ASSUME OneWorker
    PROVE  ContractInv /\ [Next]_vars => ContractInv'
<1> SUFFICES ASSUME ContractInv, [Next]_vars
             PROVE  ContractInv'
    OBVIOUS
<1>1. Serial
    BY DEF Serial, OneWorker
<1> QED BY <1>1, StepTyped, StepSerialInv, StepFollows DEF ContractInv

LEMMA InitOfContract == Init => Contract!Init
<1> SUFFICES ASSUME Init
             PROVE  Contract!Init
    OBVIOUS
<1>1. \A j \in Jobs : job[j].status = "NONE" /\ job[j].sources = {} /\ job[j].attempts = 0
    BY DEF Init, NoRow
<1>2. Extracted = {}
    BY DEF Init, Extracted
<1> QED BY <1>1, <1>2 DEF Contract!Init

\* With one worker process, a job that is reported SUCCEEDED leaves none of
\* the documents it was asked for unread (CompleteJob checks no such thing: the
\* list LoadSources made is all that says so).
THEOREM SucceededIsExtracted == ASSUME OneWorker PROVE Spec => []SucceededMeansExtracted
<1>1. ContractInv => SucceededMeansExtracted
    BY DEF ContractInv, NothingMissing, SucceededMeansExtracted, Extracted
<1>2. ContractInv /\ [Next]_vars => ContractInv'
    BY StepContractInv
<1> QED BY InitContractInv, <1>1, <1>2, PTL DEF Spec

\* The queue that one worker process runs implements JobContract: what the
\* polling client reads changes only by the steps of the contract.
THEOREM QueueKeepsContract == ASSUME OneWorker PROVE Spec => ContractKept
<1>1. ContractInv /\ [Next]_vars => ContractInv'
    BY StepContractInv
<1>2. ContractInv /\ [Next]_vars => [Contract!Next]_(Contract!contractVars)
    BY StepFollows
<1> QED BY InitContractInv, InitOfContract, <1>1, <1>2, PTL DEF Spec, ContractKept, Contract!Spec

=============================================================================
