# P2B in TLA+

P2B builds a *Company Passport* from a company's documents, matches it against
support policies and helps with the application. This directory holds TLA+
models of the parts of its backend where several actors meet one piece of state,
the TLC configurations that check them and proofs for TLAPS. `PROJECT.json`
lists, for every definition, the source lines it models, and the hazards of the
code with the properties that watch them.

## 1. The system

Three Go programs (`src/api/cmd/api`, `worker`, `crawler`) share a PostgreSQL
database; a React client calls the API. State lives in three places: the tables,
the memory of the API process (`platform.Service`, the idempotency store) and the
local variables of handlers and workers between two statements. The last two are
what makes the system hard: nothing but row locks, version numbers and the order
of statements ties them to the first.

| Component | State | Operations | What makes it hard | Status |
|---|---|---|---|---|
| Extraction queue and worker (`pipeline/store.go`, `worker_store.go`, `worker/processor.go`, `cmd/worker`) | rows of `jobs` and `company_sources`, committed candidates; per worker the claimed job, the attempts it read, the sources left | mark a source uploaded, enqueue, claim with a lease, renew, extract a source, fail it, complete or fail the job | leases that run out under a live worker, statements that check neither holder nor status, workers that die, answers that are lost, retries that must not skip or lose facts | modelled: `ExtractionQueue`, `JobContract` |
| Idempotency layer (`httpapi/idempotency.go`) | map from workspace and key to a record with a channel; one goroutine per request | acquire, complete, abort, replay, evict, forget at a restart | retries that arrive while the original runs, panics, eviction at the limit | modelled: `Idempotency` |
| Company Passport (`pipeline/store.go`, `worker_store.go`) | rows of `companies`, `passports`, `passport_versions`, `field_candidates`; row locks | build or refresh, confirm a field, save candidates | three kinds of transactions that lock two rows in two orders; statements of one transaction that see different data | partly: `PassportStore` |
| Application drafts and checklists (`platform/application.go`, `application/store.go`, `httpapi/application_handlers.go`) | a copy in memory, its map of sections, a row in `application_draft_cache`, a checklist in memory | create, update, submit, approve, generate, reload | memory is changed first, the row later and outside of the mutex, and put back when that fails | partly: `ApplicationDraft` |
| Policy corpus and search (`policy/store.go`, `Server.refreshPolicies`) | `policy_versions`; one list of policies in memory for all requests | replace the list by all versions (administration) or by the published ones (everybody else), list, get, search documents | a request works on a list that another request has replaced | partly: `Matching` |
| Matching and eligibility (`httpapi/server.go`, `platform/service.go`, `eligibility/evaluate.go`) | match runs, retrieved documents, passport and checklists in memory; the newest row of `match_runs` | create a match, load the cached one, evaluate rules, make a checklist, start | the passport and the list change between two steps; the cached run outlives the passport version it is about and the memory it refers to; facts that are missing or cannot be read | partly: `Matching` |
| Crawler and alerts (`crawler/crawler.go`) | rows of `alerts` and of the watchlist settings | one pass per hour, in the API process and in `cmd/crawler` | an alert is looked for and inserted in two statements, of data read at the beginning of the pass; workspaces are deleted under it | partly: `Watchlist` |
| Workspaces (`tenancy/bootstrap.go`) | `workspaces`, `workspace_members` | bootstrap at every request, resolve, list, create, delete | two statements without a transaction | partly: `Workspaces` |
| Migrations (`migrations/runner.go`) | `schema_migrations` | run under an advisory lock | at the start of a process, in a transaction each | not modelled |
| Chunks and Gemini client (`worker/processor.go`, `extraction/gemini.go`) | none | cut a text, send with retries, validate candidates | boundaries | one pass, which succeeds or fails, is part of `ExtractionQueue` |
| Authentication, storage, conversion, PDF export, web pages, import scripts | none that others depend on | | pure I/O, formatting or presentation | not modelled |

How they interact: a request passes the idempotency layer and then its handler.
`EnqueueBuild` writes a passport version and the job in one transaction; the
worker claims the job and calls `SaveCandidates` for each source; a person
confirms the candidates (`ConfirmField`), which makes another version; matching
reads the current version, the published policies and the corpus and stores a
match run; checklists and drafts are made from a policy and the passport. The
browser polls `GET /v1/jobs/{id}`.

What makes each modelled part correct:

* *Queue.* Every job is decided; a decision is final; SUCCEEDED means that each
  of its documents is extracted; DEAD_LETTER means that the attempts are used up;
  no facts are skipped by a retry.
* *Idempotency.* A key commits at most once within 24 hours; a retry gets the
  answer of its own original; nobody waits for an answer that will not come; the
  store stays within its limit.
* *Passport.* No confirmation undoes another one or is based on a version its
  client has not seen; name and passport agree; a confirmation closes no candidate
  that is newer than the one it looked at (older ones it does close, their evidence
  unread); a key makes one version; every transaction ends.
* *Drafts.* What was answered as saved stays saved; the stored status never goes
  back; approval needs a complete checklist.
* *Workspaces and alerts.* A workspace nobody can enter comes from a creation that
  was answered with an error; nothing is left behind by a deletion; what is due
  is announced, and at most once by each crawler process.
* *Matching.* What the public is shown is published and reviewed; the code keeps to
  this only as long as no administrator works at the same time (finding 5). A run
  has one result for each policy, and its verdicts rest on the version of the
  passport that it names; a document that is shown can be used; checklists are of
  published versions and call available only what was confirmed in one version of
  the passport.

## 2. The modules

| Module | Holds |
|---|---|
| `ExtractionQueue` | tables, worker loop, properties, the refinement mapping to `JobContract` |
| `JobContract` | what the polling client may rely on, without workers, leases and steps |
| `Idempotency` | the idempotency middleware |
| `PassportStore` | the transactions on one workspace's passport |
| `ApplicationDraft` | one draft in memory and in the database |
| `Workspaces` | workspaces, members and the requests that make and delete them |
| `Watchlist` | extends `Workspaces` with companies, settings, policies, alerts and the passes of crawlers |
| `Matching` | the shared list of policies, the rule engine, match runs, documents and checklists |
| `MC...` | instances for TLC: symmetry sets, rules, versions; other constants are given in the `.cfg` files |
| `ExtractionQueueProofs`, `QueueContractProofs`, `IdempotencyProofs`, `PassportStoreProofs`, `ApplicationDraftProofs`, `WatchlistProofs`, `MatchingProofs` | theorems |

**ExtractionQueue.** One action per SQL statement and per step of `Process`:
`Claim`, `LoadSources`, `StartSource`, `ExtractPass` (one Gemini pass and the
renewal after it), `SaveCandidates`, `CompleteSource`, `SetJobProgress`,
`CompleteJob`, `FailSource`, `FailJob`. `SourceError` and `JobError` are the error
returns, each possibly after the statement took effect. `LoseWorker` stands for
everything that leaves a claimed job behind: a crash, a signal, or the job
context of 12 minutes running out, after which `FailJob` fails as well. Time is
two bits per job: `available_at` has passed, the lease is ahead. `ahead` keeps the
order in which jobs became available, which is the order `Claim` picks them in.

**JobContract.** `ContractKept` says that the queue, seen through status, sources,
attempts and extracted documents, does only what the contract allows. A source
that is EXTRACTED in its row but failed for its worker (the answer of
`CompleteSource` was lost) counts as extracted only after `FailSource`.

**Idempotency.** `acquire`, `complete` and `abort` hold the mutex and are one
action each; a record is named by the request that made it, so that comparing
records is the pointer comparison of the code. `Age` is the passing of the
retention, `Restart` forgets everything.

**PassportStore.** The transactions under READ COMMITTED. Statements that lock,
read or write something others can see are actions; writes become visible at
commit. A confirmation reads the newest open candidate of its field (`Newest`, by the
start of the transaction that inserted it) and later accepts all that are open
then. `SingleApi` says that one API process runs, whose idempotency layer lets
one call per key through at a time; without it two processes may both miss the
job of a key.

**ApplicationDraft.** The handler of an update is `ReadPrevious`, `UpdateApplication`,
`EncodeSections`, `SaveDraft` or `SaveDraftFails` and then `RestorePrevious`; those of
the actions and of the creation are alike. Copies of a draft share their map of
sections as Go maps are shared: an edit changes it in place, for `previous` too.
`OneWriter` says that clients wait for the answer to one write before they start
the next; reads come at any time.

**Watchlist.** A pass is `BeginPass` (all companies and the clock are read),
`NextCompany`, `QueryRows` for each category that is switched on, `CheckAlert` and
`SaveAlert` for each row, and `CompanyDone`. The tables of tenants come from
`Workspaces`, whose steps take companies and alerts with them (`Tenancy`).
`FailStatement` and `Crash` are its errors. `Exists` is what `AlertExists` finds:
an alert about stale evidence is searched by the key of the field in a message
that holds its label, and is never found.

**Matching.** A request that needs policies is `ReadPolicies` and `ReplacePolicies`
(`refreshPolicies`), then `ListPolicies` or `GetPolicy`, or for a match `ReadPassport`,
`SearchDocuments`, `MatchPassport` in one hold of the mutex and `SaveMatchRun`. The
latest match is read from its row (`ReadMatchRun`) and then put into memory
(`LoadMatchRun`). `CreateChecklist` works on the list as the last request has left it.
`Restart` is the process starting again: its memory is empty but for the published
policies, which `main.go:88-96` reads before the server listens. Rules
are records of a field, an operator, the values the operator can read and those it
accepts; `EvaluateRule` and `Evaluate` are the two functions of `evaluate.go`. `from`
remembers whose list an answer was made from. A rule with `IN` that comes out of
`policy_versions.rules` is MISSING_INFO for every fact: JSON gives an `[]any`, and
`compare` (`evaluate.go:87`) asks for a `[]string`. README.md:216 says MISSING_INFO is
for a field that is unconfirmed. The model has the code's behaviour (`Decides`).

Some definitions carry the comment `Mutant`: variants of an action with a
plausible bug, which no specification uses. `PROJECT.json` pairs each property
with the mutant that violates it.

## 3. What TLC checks

All runs explore every reachable state of their instance. Deadlock is not an
error in them: inputs are finite (jobs, requests, calls), and once they are used
up the system rightly stops.

| Run | Instance | Shows |
|---|---|---|
| `QueueOneWorker` | 1 worker, 2 jobs, 2 sources, 2 attempts, 1 pass, 1 loss, fairness; 297,000 states | `TypeOK`, `SucceededMeansExtracted`, `AttemptsAreBounded`, `VerdictIsFinal`, `ContractKept`, `EveryJobSettles` although leases may run out under the worker |
| `QueueTwoWorkers` | 2 workers, 2 jobs, 1 source, 1 loss | `TokensAreUnique`, `DeadLetterIsEarned`, `ExtractedHasCandidates`, `OrphanLeaseMeansLoss` while two workers work on one job |
| `IdempotencyLives` | 3 requests, 2 keys, 2 bodies, limit 1, 1 restart, fairness | `TypeOK`, `RunningIsRegistered`, `NoStrandedWaiter`, `ReplaysAreFaithful`, `KeyCommitsOnceInOneLife`, `CapacityRespected`, `EveryRequestAnswered` |
| `IdempotencyRestart` | 3 requests, 2 keys, limit 2, 1 restart | *violates* `KeyCommitsOnce` |
| `PassportCalls` | 2 builds or a build and a refresh, a confirmation, 2 extractions, fairness; 465,000 states | `TypeOK`, `CompanyNameIsCurrent`, `ConfirmationsBuildOnWhatWasSeen`, `OneVersionPerKey`, `AcceptedIsNoNewer`, `EveryTransactionEnds` |
| `DraftOneWriter` | 2 updates, 3 actions, 1 reload, 1 restart, one writer; 1.2 million states | `TypeOK`, `AcknowledgedEditsAreStored`, `MemoryAgreesWithRow`, `ApprovalNeedsEvidenceInOneLife`, `StoredStatusAdvances` |
| `DraftTwoWriters` | 3 overlapping updates, 1 reload | *violates* `AcknowledgedEditsAreStored` |
| `DraftRestart` | 2 actions, 1 reload, 1 restart | *violates* `ApprovalNeedsEvidence` |
| `WatchlistPasses` | 2 crawlers, 1 workspace, 1 policy with 2 versions, 1 stale fact, 2 days, 1 fault, fairness | `TypeOK`, `OneAlertPerCrawler`, `NothingOutlivesItsWorkspace`, `OrphansComeFromFailures`, `DueIsAnnounced` |
| `MatchingRequests` | a match, a public read, an administrator's read, 1 policy with 2 versions of different rules and items, 2 fields, 1 document, 2 passport versions, restarts; 6.3 million states | `TypeOK`, `UnreviewedOnlyByAdministration`, `MatchedWasPublished`, `ShownDocumentsAreUsable`, `VerdictsRestOnTheirVersion`, `AvailableWasMatched`, `ChecklistsWerePublished` |
| `MatchingShared` | the same | *violates* `MatchingReceivesReviewed` |
| `MatchingCache` | the same | *violates* `LatestMatchIsCurrent` |

**Bounds.** `MaxClaims` and `MaxPasses` in the queue, `MaxLosses`, `MaxRestarts` and
the sizes of the sets of calls. Two attempts tell a first, a retried and a last
attempt apart. In `QueueOneWorker` a job can be claimed at most
`MaxAttempts + MaxLosses = 3` times and `MaxClaims` is 4, so the bound on claims
cuts nothing off and liveness is not helped by it. Two jobs are enough for one to
overtake another; two sources for a retry that finds one extracted. In
`Idempotency` a limit of 1 with 2 keys reaches eviction and refusal, and three
requests let two wait for a third. In `PassportStore` each
call is one transaction, and the calls of a run overlap in every order: of three
keys one is for refreshing, so that the second of two builds can meet a
confirmation in the opposite order of locks and wait for it in a cycle, and of two
extractions a confirmation can see the older, the newer, both or none. In
`ApplicationDraft` two updates and three actions reach a submission, an approval, a
generation and an edit on a stale copy. In `Watchlist` two crawlers are the two
processes of the deployment; `MaxVersions`, `Days` and `Week` let a deadline move
into and out of the window, one fault ends a pass at any statement, and `MaxStale`
caps the alerts that grow without a limit; `Replaced` keeps users from changing
settings for ever. In `Matching` two versions of a policy are the old and the new
one, three requests put two foreign lists under the third, and the rules of the two
reach every verdict: met, not met, missing and never decided. Of the items one asks
for both fields, so that a passport with one of them is told from one with both;
`MaxFacts` gives a match one version to be overtaken by, and a checklist needs no
second one. What holds for these sizes only because they are small is what section 4
is for.

**Fairness.** `ExtractionQueue`: the worker's ticker fires and its calls return
within the job context (`cmd/worker/main.go`), clocks advance; uploads, builds and
losses are never forced, and losses are bounded. `Idempotency`: handlers return,
since their outbound calls carry timeouts, and runnable goroutines run; clients
need not cancel. `PassportStore`: statements return and PostgreSQL's deadlock
detector runs (`Fairness` forces some statement or the detector, not each call). `EveryTransactionEnds` needs the detector: a build takes `companies`
and then `passports`, a confirmation of the legal name the other way round.
`Watchlist`: the ticker of each crawler fires and its statements return; users, the
calendar and the corpus need not act, and faults are bounded. `Matching` states none.

### Findings

Five runs show where the code does something else than its documents say.

1. *A match cache that is not invalidated* (`MatchingCache`). README.md:225
   promises that the cache "automatically invalidates and refreshes whenever the
   Company Passport is updated". `LatestMatchRun` returns the newest row whatever
   version it was computed for.
2. *Idempotency ends with the process* (`IdempotencyRestart`).
   docs/THREAT_MODEL.md:21 asks for replay-safe idempotency; records are kept in
   memory although a table `idempotency_keys` exists, so a retry after a restart
   runs the mutation again.
3. *A newer draft is overwritten* (`DraftTwoWriters`).
   docs/application-draft-templates.md:48 says never to. A reload that puts an old
   copy into memory and two overlapping updates on it bring a version number that
   passes the check of `SaveDraft` over a row whose edit the copy lacks.
4. *Approval without evidence after a restart* (`DraftRestart`). README.md:238
   promises a gate; checklists live in memory only and a missing one blocks nothing.
5. *Matching an unreviewed version* (`MatchingShared`). policy/store.go:42-43 says
   that "public matching only receives ACTIVE versions which have an explicit review
   timestamp", docs/THREAT_MODEL.md:40 wants it confirmed that unreviewed policies
   never enter retrieval, and openapi.yaml:88 calls the public answers "published
   policies". The query keeps to it, the list does not: an administrator's request
   (`server.go:881-897`) that comes between a match's refresh and its evaluation puts
   every version into the list that they share, and the match, which asks for ACTIVE
   only (`service.go:251`), evaluates an ACTIVE version that nobody reviewed. `listPolicies`
   shows it in the same way, and `getPolicy` any version in the list.
   `UnreviewedOnlyByAdministration` and its theorem say that there is no other way.

Besides, with two worker processes `VerdictIsFinal`, `AttemptsAreBounded` and
`SucceededMeansExtracted` depend on leases that outlive a step: one step may take
461 s and a lease is 300 s. The deployment runs one worker, and the code logs
`"concurrency", 1`; the runs take one worker, and the theorems show that several
would do as well if leases were renewed in time (`RenewalInTime`).

## 4. What is proved

TLAPS proves the following for every value of the constants that the assumptions of
the modules allow: any number of workers, jobs, sources, requests, keys, calls,
updates, crawlers, policies, rules, losses, faults and restarts. Every invariant
and every action property of a passing run is the statement of one theorem; the
refinement of `JobContract` is proved, too.

| Theorem | States | Under |
|---|---|---|
| `ExtractionQueueProofs!TypeCorrect` | `[]TypeOK` | |
| `ClaimsAreFenced` | `[]TokensAreUnique` | |
| `DeadLettersAreEarned` | `[]DeadLetterIsEarned` | |
| `OrphansComeFromLosses` | `[]OrphanLeaseMeansLoss` | |
| `CandidatesPrecedeExtracted` | `[]ExtractedHasCandidates` | |
| `AttemptsStayBounded`, `VerdictsAreFinal` | `[]AttemptsAreBounded`, `VerdictIsFinal` | `Serial` |
| `QueueContractProofs!SucceededIsExtracted` | `[]SucceededMeansExtracted` | `OneWorker` |
| `QueueKeepsContract` | `ContractKept`: the queue implements `JobContract` | `OneWorker` |
| `IdempotencyProofs!TypeCorrect` | `[]TypeOK` | |
| `RunningStaysRegistered`, `NoWaiterStranded`, `ReplayIsFaithful`, `StoreIsBounded` | `[]RunningIsRegistered`, `[]NoStrandedWaiter`, `[]ReplaysAreFaithful`, `[]CapacityRespected` | |
| `OneCommitPerKey` | `[]KeyCommitsOnceInOneLife` | |
| `PassportStoreProofs!PassportTypeCorrect` | `[]TypeOK` | |
| `NamesAgree` | `[]CompanyNameIsCurrent` | |
| `NoLostConfirmation` | `[]ConfirmationsBuildOnWhatWasSeen` | |
| `NothingNewerAccepted` | `[]AcceptedIsNoNewer` | |
| `OneVersionPerKeyInOneProcess` | `[]OneVersionPerKey` | `SingleApi` |
| `ApplicationDraftProofs!TypeCorrect` | `[]TypeOK` | |
| `SavedEditsStay`, `MemoryFollowsRow` | `[]AcknowledgedEditsAreStored`, `[]MemoryAgreesWithRow` | `OneWriter` |
| `StatusAdvances` | `StoredStatusAdvances` | `OneWriter` |
| `ApprovalsHaveEvidence` | `[]ApprovalNeedsEvidenceInOneLife` | |
| `WatchlistProofs!WatchlistTypeCorrect` | `[]TypeOK` | |
| `BoundedDuplicates` | `[]OneAlertPerCrawler` | |
| `NothingLeftBehind` | `[]NothingOutlivesItsWorkspace` | |
| `OrphanedWorkspaces` | `[]OrphansComeFromFailures` | |
| `MatchingProofs!MatchingTypeCorrect` | `[]TypeOK` | |
| `UnreviewedNeedsAnAdministrator` | `[]UnreviewedOnlyByAdministration` | |
| `ResultsAreUnique`, `OnlyPublishedIsMatched` | `[]OneResultPerPolicy`, `[]MatchedWasPublished` | |
| `DocumentsStayUsable` | `[]ShownDocumentsAreUsable` | |
| `VerdictsAreGrounded` | `[]VerdictsRestOnTheirVersion` | |
| `AvailableRestsOnAMatch`, `ChecklistsAreOfPublished` | `[]AvailableWasMatched`, `[]ChecklistsWerePublished` | |

`OneWorker` is what the deployment runs; `Serial` is `RenewalInTime` or `OneWorker`.
`SingleApi` is one API process, `OneWriter` a client that waits for its answers. The
instances of the runs satisfy them, except where a run shows what happens without.

**Queue.** None of the properties is inductive. `ClaimInv` adds that a job without a
row has the fresh row and that a worker holds a job that is there. It carries
`TokensAreUnique`, from which the dead letters follow: `FailJob` uses the attempts
read at claim time, and `attempts` only grows from there. `SerialInv` says that the
holder of a job, if there is one, holds its current lease and that the attempts
not accounted for by losses are within the budget: at claim time
`attempts < MaxAttempts + losses` because `FailJob` would otherwise have settled the
job. `CandidatesFirst` follows a source through the worker's steps.

**Contract.** `ContractInv` is `SerialInv` with `LoopInv` (what the worker's loop still
has before it, with the source in its hand, is exactly what its job lacks) and
`NothingMissing` (a job that succeeded lacks nothing). Under it each action of the
queue is one of four kinds of steps a client can see: nothing, one document more,
one row decided, one row made. Each kind is then matched with an action of
`JobContract` or a stutter.

**Idempotency.** `IInv` relates each record to what happened to its request: stored
answers belong to committed requests, an open channel to a running one, and a
waiter's target has its key and its hash. `FreshAnswersStay` is a second invariant
for `OneCommitPerKey`: within one life of the process a recent committed answer is
still stored under its key, so that a second request with that key finds it.

**Passport.** `Inv` adds to the properties what each kind of call knows between two
statements (`CallInv`): a build writes versions only while it holds the row of
`passports`, and what a confirmation read under its `FOR UPDATE` is still what is
there (`ConfirmInv`). The latter needs `Exclusive`: no candidate can be inserted beside
such a lock. So the open candidates of the field are the same when they are accepted
as when the newest was read, and none is newer than that one (`NoNewer`), which
exists because the extractions are finitely many and their times are numbers
(`Dated`, `NewestIsNoOlder`). `OneVersionPerKey` has its own `KeyInv`, the only one that needs
`SingleApi`.

**Drafts.** `IInv` follows a copy from where it is read to where it is stored. A copy
no write works on agrees with the row (`Agrees`: older, or the same version with
the same status and at least the row's edits); the copy a write works on is at
most one version ahead and then has all the row's edits and a status at least as
high (`Extends`). With one writer this is preserved by stale reloads, by failed
saves that were applied and by restarts; with two the second half breaks, which is
finding 3. `AllSound` is the invariant of
`ApprovalsHaveEvidence`: until a first restart every copy that is approved or
generated, in memory, in the row and in the hands of handlers, was evidenced.

**Watchlist.** That a policy has at most as many alerts as there are crawlers is not
inductive: two crawlers may both have found an alert missing. `RoomForInserters`
counts the alerts that are there together with the crawlers about to insert one;
a crawler begins to insert only where no alert is, and then the inserters, as a set
of crawlers, are no more than the crawlers. `WInv` holds what the two statements of
a creation leave between them (one creator, no member yet), and passes are well
formed: what one is about to save belongs to the category at hand.

**Matching.** A list of policies is old as soon as it is read. `GoodList` is what stays
true of it: at most one ACTIVE version of a policy, each published in the corpus at
some time. It holds of the shared list and of the one each request has in its
hand; of a list that no administrator has read it is known besides that all of it
is published and reviewed (`PublicList`). `GoodRun` follows for the runs in memory, in
the table and in the hands of requests. It names the version of the passport,
which the request read in an earlier step (`GoodCall`), and that version stays
because versions are only added (`FactsGrow`). `MemoryIsMatched` says whose passport is
in memory, that of a run in memory or none, from which the checklists follow; the
runs, the passport and the checklists are lost together. `EvaluationIsSound` is the lemma about the rule
engine: for any rules and facts a verdict NOT_MET has a witness, and MET has no
exception.

**Only proved.** `OneResultPerPolicy`, a part of `GoodRun`: it follows from the one
ACTIVE version of each policy in a list and is in no run.

**Only model-checked.** The liveness properties `EveryJobSettles`,
`EveryRequestAnswered`, `EveryTransactionEnds` and `DueIsAnnounced`: liveness under
fairness and `ENABLED` are out of the prover's reach. The violated properties are
shown by counterexamples.

## 5. What the models leave out

* Texts, scores, evidence and values of fields, which are members of small sets.
  The checks of `ValidateCandidates` and of the field catalogue are failures that
  may happen.
* Clocks: durations are bits or days that time may set. The client's limit of 480
  polls is not modelled.
* In the drafts: templates and generation (the sections are one abstract set of
  edits), several drafts of a workspace, the items of a checklist (one flag), the
  version check of a checklist item, and a statement of a dead API process that
  PostgreSQL executes after the next process has started. The row's version is
  never compared with the one a client has read from elsewhere.
* In `PassportStore`: a call of `SaveCandidates` saves one candidate, so that no two have
  one creation time.
* In `Matching`: which documents a search finds and in which order, the limit of
  5,000 versions, several workspaces in the memory of one process, and the parsing
  of numbers and dates, of which each rule keeps the set of values it can read.
* In `Watchlist`: the texts of alerts and whether they were read, and the support
  types of policies (each fits a company that has been built).
* The cutting of texts into chunks, the retries of the Gemini client, migrations.
* The development mode without a database, which does each operation under one
  mutex.

## 6. Plan

Done, in this order: `ExtractionQueue` with `JobContract`, `Idempotency`,
`PassportStore`, `ApplicationDraft`, `Workspaces` and `Watchlist`, `Matching`, and the
proofs about all of them. Next:

1. An abstract specification of the idempotency layer (a key is free, running or
   answered) and of the passport (a sequence of versions that grows by one), with
   their implementation proved step by step as that of `JobContract`.
2. More action properties: an answer that was stored is never replaced by another
   within its life; a version of the passport never changes.
3. A composition of `ExtractionQueue` and `PassportStore`: a job that succeeded has
   its candidates or confirmed values in the passport.
4. Pure operators: `Chunks` against *nothing but line breaks and blanks is lost*,
   retries of the Gemini client.

## 7. Running

    tlc -config QueueOneWorker.cfg MCExtractionQueue.tla
    tlapm ExtractionQueueProofs.tla

The configuration of a run has the run's name; `PROJECT.json` names its module.
