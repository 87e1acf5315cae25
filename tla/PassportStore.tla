--------------------------- MODULE PassportStore ---------------------------
(***************************************************************************)
(* The Company Passport of one workspace in PostgreSQL: the transactions   *)
(* that build it, confirm a field of it and propose candidates for it      *)
(* (src/api/internal/pipeline/store.go, worker_store.go).                  *)
(*                                                                         *)
(* The transactions run under READ COMMITTED: a statement reads what is    *)
(* committed when it starts, writes are visible at the commit, and two row *)
(* locks order the writers: the workspace's row of companies and its row   *)
(* of passports.  FOR UPDATE on the latter excludes everyone, the UPDATE   *)
(* of a build only other writers, and the foreign key of a new candidate   *)
(* takes the row's KEY SHARE lock.  Locks are held until the end of the    *)
(* transaction.                                                            *)
(***************************************************************************)
EXTENDS Naturals, Sequences, FiniteSets

CONSTANTS
    Builds,    \* calls of EnqueueBuild
    Confirms,  \* calls of ConfirmField
    Saves,     \* calls of SaveCandidates
    Keys,      \* workspace, kind of build and Idempotency-Key
    RefreshKeys, \* the Keys of PASSPORT_REFRESH
    Sources, Fields, LegalName, Values,
    SingleApi, \* TRUE: one API process, whose idempotency layer lets at most
               \* one call per key through at a time
    Missing, NoKey, NoOne

Handlers == Builds \cup Confirms \cup Saves

ASSUME PassportAssumption ==
    /\ Builds \cap Confirms = {} /\ Builds \cap Saves = {} /\ Confirms \cap Saves = {}
    /\ NoOne \notin Handlers
    /\ RefreshKeys \subseteq Keys /\ NoKey \notin Keys
    /\ LegalName \in Fields
    /\ Missing \notin Values
    /\ SingleApi \in BOOLEAN
    /\ IsFiniteSet(Saves)

VARIABLES
    company,       \* companies.legal_name
    versions,      \* passport_versions; the last one is passports.current_version
    jobs,          \* jobs[k]: the call that inserted the job with this key
    candidates,    \* field_candidates
    companyLock,   \* who holds the row of companies
    passportLock,  \* who holds the row of passports for writing
    sharers,       \* who holds the row of passports in KEY SHARE mode
    call           \* call[c]: the local variables of handler c

database == <<company, versions, jobs, candidates>>
locks == <<companyLock, passportLock, sharers>>
vars == <<company, versions, jobs, candidates,
          companyLock, passportLock, sharers, call>>

Step == {"new", "refresh", "company", "passport", "version", "locked", "accept",
         "insert", "commit", "done", "failed"}
Open == {"NEEDS_REVIEW", "CONFLICTED"}

FieldValues == [Fields -> Values \cup {Missing}]
Version == [fields : FieldValues, by : Handlers, seen : Nat, field : Fields]
\* at is created_at, the start of the transaction that inserted it.
Candidate == [source : Sources, field : Fields, value : Values,
              status : Open \cup {"ACCEPTED"}, at : Nat]
Call == [pc : Step, key : Keys \cup {NoKey}, field : Fields,
         value : Values \cup {Missing}, version : Nat, fields : FieldValues,
         proposed : SUBSET Candidate, accepted : SUBSET Candidate]

Nothing == [f \in Fields |-> Missing]
Fresh == [pc |-> "new", key |-> NoKey, field |-> LegalName, value |-> Missing,
          version |-> 0, fields |-> Nothing, proposed |-> {}, accepted |-> {}]

\* Rows, locks and local variables have the shapes of the schema and the
\* handlers.
TypeOK ==
    /\ company \in Values \cup {Missing}
    /\ versions \in Seq(Version)
    /\ jobs \in [Keys -> Builds \cup {NoOne}]
    /\ candidates \subseteq Candidate
    /\ companyLock \in Handlers \cup {NoOne}
    /\ passportLock \in Handlers \cup {NoOne}
    /\ sharers \subseteq Saves
    /\ call \in [Handlers -> Call]

Init ==
    /\ company = Missing
    /\ versions = <<>>
    /\ jobs = [k \in Keys |-> NoOne]
    /\ candidates = {}
    /\ companyLock = NoOne
    /\ passportLock = NoOne
    /\ sharers = {}
    /\ call = [c \in Handlers |-> Fresh]

Current == Len(versions)
CurrentFields == versions[Current].fields

Become(c, state) == call' = [call EXCEPT ![c] = state]
Goto(c, step) == Become(c, [call[c] EXCEPT !.pc = step])

\* A call that returns forgets its local variables; its key is the client's.
Finish(c, how) == Become(c, [Fresh EXCEPT !.pc = how, !.key = call[c].key])

Running(c) == call[c].pc \notin {"new", "done", "failed"}

\* The end of a transaction.
Release(c) ==
    /\ companyLock' = IF companyLock = c THEN NoOne ELSE companyLock
    /\ passportLock' = IF passportLock = c THEN NoOne ELSE passportLock
    /\ sharers' = sharers \ {c}

\* Mutant: an error return without the deferred Rollback.
RollbackForgotten(c) ==
    /\ Finish(c, "failed")
    /\ UNCHANGED <<database, locks>>

Rollback(c) ==
    /\ Finish(c, "failed")
    /\ Release(c)
    /\ UNCHANGED database

-----------------------------------------------------------------------------
(* EnqueueBuild: building the passport anew, or refreshing it. *)

\* Mutant: the existing job is not looked up.
BeginBuildAgain(c, k, name) ==
    /\ call[c].pc = "new"
    /\ SingleApi => \A d \in Builds : call[d].key = k => ~Running(d)
    /\ IF k \in RefreshKeys
       THEN Become(c, [Fresh EXCEPT !.pc = IF versions = <<>> THEN "failed" ELSE "refresh",
                                    !.key = k])
       ELSE Become(c, [Fresh EXCEPT !.pc = "company", !.key = k, !.value = name])
    /\ UNCHANGED <<database, locks>>

\* The check for an existing job, after which a refresh also wants a passport.
\* Sources and their statuses are ExtractionQueue's business.
BeginBuild(c, k, name) ==
    /\ call[c].pc = "new"
    /\ SingleApi => \A d \in Builds : call[d].key = k => ~Running(d)
    /\ IF jobs[k] # NoOne
       THEN Finish(c, "done")
       ELSE IF k \in RefreshKeys
       THEN Become(c, [Fresh EXCEPT !.pc = IF versions = <<>> THEN "failed" ELSE "refresh",
                                    !.key = k])
       ELSE Become(c, [Fresh EXCEPT !.pc = "company", !.key = k, !.value = name])
    /\ UNCHANGED <<database, locks>>

\* INSERT INTO jobs ... ON CONFLICT (idempotency_key): the first insert stays.
InsertJob(c) ==
    jobs' = [jobs EXCEPT ![call[c].key] = IF @ = NoOne THEN c ELSE @]

CommitRefresh(c) ==
    /\ call[c].pc = "refresh"
    /\ InsertJob(c)
    /\ Finish(c, "done")
    /\ UNCHANGED <<company, versions, candidates, locks>>

\* The upsert of companies, by a build or by the confirmation of the name.
LockCompany(c) ==
    /\ call[c].pc = "company"
    /\ companyLock = NoOne
    /\ companyLock' = c
    /\ Goto(c, IF c \in Builds THEN "passport" ELSE "commit")
    /\ UNCHANGED <<database, passportLock, sharers>>

\* Mutant: the version is read off by one.
LockPassportOffByOne(c) ==
    /\ call[c].pc = "passport"
    /\ passportLock = NoOne
    /\ passportLock' = c
    /\ Become(c, [call[c] EXCEPT !.pc = "version", !.version = Current - 1])
    /\ UNCHANGED <<database, companyLock, sharers>>

\* The upsert of passports: current_version + 1.
LockPassport(c) ==
    /\ call[c].pc = "passport"
    /\ passportLock = NoOne
    /\ passportLock' = c
    /\ Become(c, [call[c] EXCEPT !.pc = "version", !.version = Current])
    /\ UNCHANGED <<database, companyLock, sharers>>

\* initialFields drops every field but the name; then the job and the commit.
CommitBuild(c) ==
    /\ call[c].pc = "version"
    /\ company' = call[c].value
    /\ versions' = Append(versions,
                     [fields |-> [Nothing EXCEPT ![LegalName] = call[c].value],
                      by |-> c, seen |-> call[c].version, field |-> LegalName])
    /\ InsertJob(c)
    /\ Release(c)
    /\ Finish(c, "done")
    /\ UNCHANGED candidates

-----------------------------------------------------------------------------
(* ConfirmField. *)

\* Mutant: expected_version is not compared.
LockForAnyVersion(c, f, v, e) ==
    /\ call[c].pc = "new"
    /\ e \in 1..Current
    /\ passportLock = NoOne
    /\ sharers = {}
    /\ passportLock' = c
    /\ Become(c, [Fresh EXCEPT !.pc = "locked", !.field = f, !.value = v,
                               !.version = e, !.fields = versions[e].fields])
    /\ UNCHANGED <<database, companyLock, sharers>>

\* SELECT ... FOR UPDATE OF p, and the check of expected_version.  e is what
\* the client read at some earlier time.
LockForConfirm(c, f, v, e) ==
    /\ call[c].pc = "new"
    /\ e \in 1..Current
    /\ passportLock = NoOne
    /\ sharers = {}
    /\ IF e = Current
       THEN /\ passportLock' = c
            /\ Become(c, [Fresh EXCEPT !.pc = "locked", !.field = f, !.value = v,
                                       !.version = e, !.fields = CurrentFields])
       ELSE /\ Finish(c, "failed")
            /\ UNCHANGED passportLock
    /\ UNCHANGED <<database, companyLock, sharers>>

OpenCandidates(f) == {d \in candidates : d.field = f /\ d.status \in Open}

\* ORDER BY created_at DESC LIMIT 1.  No two calls start at one time, and each
\* call inserts one candidate here.
Newest(set) == {d \in set : \A e \in set : e.at <= d.at}

\* The confirmation takes over the evidence of the newest open candidate.
ReadCandidates(c) ==
    /\ call[c].pc = "locked"
    /\ Become(c, [call[c] EXCEPT !.pc = "accept",
                                 !.proposed = Newest(OpenCandidates(call[c].field))])
    /\ UNCHANGED <<database, locks>>

\* INSERT passport_versions, UPDATE passports, UPDATE field_candidates: the
\* last statement accepts all that is open when it runs, older candidates too.
AcceptCandidates(c) ==
    /\ call[c].pc = "accept"
    /\ Become(c, [call[c] EXCEPT
                    !.pc = IF call[c].field = LegalName THEN "company" ELSE "commit",
                    !.accepted = OpenCandidates(call[c].field)])
    /\ UNCHANGED <<database, locks>>

\* Mutant: a confirmed name is not written to companies.
CommitConfirmPassportOnly(c) ==
    /\ call[c].pc = "commit"
    /\ c \in Confirms
    /\ versions' = Append(versions,
                     [fields |-> [call[c].fields EXCEPT ![call[c].field] = call[c].value],
                      by |-> c, seen |-> call[c].version, field |-> call[c].field])
    /\ candidates' = (candidates \ call[c].accepted)
                     \cup {[d EXCEPT !.status = "ACCEPTED"] : d \in call[c].accepted}
    /\ Release(c)
    /\ Finish(c, "done")
    /\ UNCHANGED <<company, jobs>>

CommitConfirm(c) ==
    /\ call[c].pc = "commit"
    /\ c \in Confirms
    /\ versions' = Append(versions,
                     [fields |-> [call[c].fields EXCEPT ![call[c].field] = call[c].value],
                      by |-> c, seen |-> call[c].version, field |-> call[c].field])
    /\ candidates' = (candidates \ call[c].accepted)
                     \cup {[d EXCEPT !.status = "ACCEPTED"] : d \in call[c].accepted}
    /\ company' = IF call[c].field = LegalName THEN call[c].value ELSE company
    /\ Release(c)
    /\ Finish(c, "done")
    /\ UNCHANGED jobs

-----------------------------------------------------------------------------
(* SaveCandidates. *)

\* now(), as the number of the calls that have started before.
Now == Cardinality({d \in Saves : call[d].pc # "new"})

\* Reads the current fields without a lock.  A value that is confirmed already
\* is not proposed again; one that contradicts a confirmed value is a conflict.
ReadPassport(c, s, f, v) ==
    /\ call[c].pc = "new"
    /\ Current > 0
    /\ IF CurrentFields[f] = v
       THEN Finish(c, "done")
       ELSE Become(c, [Fresh EXCEPT !.pc = "insert", !.proposed =
              {[source |-> s, field |-> f, value |-> v,
                status |-> IF CurrentFields[f] = Missing
                           THEN "NEEDS_REVIEW" ELSE "CONFLICTED",
                at |-> Now]}])
    /\ UNCHANGED <<database, locks>>

\* Mutant: confirmations read the passport without FOR UPDATE, so that a new
\* candidate does not wait for them.
InsertCandidateUnordered(c) ==
    /\ call[c].pc = "insert"
    /\ sharers' = sharers \cup {c}
    /\ Goto(c, "commit")
    /\ UNCHANGED <<database, companyLock, passportLock>>

\* The foreign key waits for a FOR UPDATE holder, not for a build.
InsertCandidate(c) ==
    /\ call[c].pc = "insert"
    /\ passportLock \notin Confirms
    /\ sharers' = sharers \cup {c}
    /\ Goto(c, "commit")
    /\ UNCHANGED <<database, companyLock, passportLock>>

\* ON CONFLICT DO NOTHING on source, field and value, whatever the status.
SameFact(d, e) == d.source = e.source /\ d.field = e.field /\ d.value = e.value

CommitSave(c) ==
    /\ call[c].pc = "commit"
    /\ c \in Saves
    /\ candidates' = candidates \cup
          {d \in call[c].proposed : \A e \in candidates : ~SameFact(d, e)}
    /\ Release(c)
    /\ Finish(c, "done")
    /\ UNCHANGED <<company, versions, jobs>>

-----------------------------------------------------------------------------
(* Failures. *)

\* A validation or statement error, a lost connection, a crash.
Fail(c) == Running(c) /\ Rollback(c)

WaitsFor(c, d) ==
    \/ call[c].pc = "company" /\ companyLock = d
    \/ call[c].pc = "passport" /\ passportLock = d

\* PostgreSQL's deadlock detector ends one transaction of a cycle of waits.
BreakDeadlock(c) ==
    /\ \E d \in Handlers : WaitsFor(c, d) /\ WaitsFor(d, c)
    /\ Rollback(c)

-----------------------------------------------------------------------------

Proceed(c) ==
    \/ CommitRefresh(c) \/ LockCompany(c) \/ LockPassport(c) \/ CommitBuild(c)
    \/ ReadCandidates(c) \/ AcceptCandidates(c) \/ CommitConfirm(c)
    \/ InsertCandidate(c) \/ CommitSave(c)

Next ==
    \/ \E c \in Builds, k \in Keys, name \in Values : BeginBuild(c, k, name)
    \/ \E c \in Confirms, f \in Fields, v \in Values, e \in 1..Current :
          LockForConfirm(c, f, v, e)
    \/ \E c \in Saves, s \in Sources, f \in Fields, v \in Values : ReadPassport(c, s, f, v)
    \/ \E c \in Handlers : Proceed(c) \/ Fail(c) \/ BreakDeadlock(c)

\* Some statement that can run returns, and the deadlock detector runs.  Every
\* call has finitely many statements, so no more is needed.
Fairness ==
    /\ WF_vars(\E c \in Handlers : Proceed(c))
    /\ WF_vars(\E c \in Handlers : BreakDeadlock(c))

Spec == Init /\ [][Next]_vars
FairSpec == Spec /\ Fairness

-----------------------------------------------------------------------------

\* The name in companies, which Store.Passport and the list of workspaces
\* show, is the name of the current passport version: three writers of two
\* tables never leave them apart.
CompanyNameIsCurrent ==
    versions # <<>> => company = CurrentFields[LegalName]

\* Confirmations are never lost and never blind: each one extends the very
\* version its client had read, and changes one field of it.
ConfirmationsBuildOnWhatWasSeen ==
    \A n \in 1..Current : versions[n].by \in Confirms =>
        /\ versions[n].seen = n - 1
        /\ n > 1
        /\ \A f \in Fields \ {versions[n].field} :
              versions[n].fields[f] = versions[n - 1].fields[f]

\* A confirmation closes open candidates of its field without their ids, and
\* looks at one of them only.  None that it closes is newer than the one it
\* looked at: what arrives during a confirmation stays open for a person to see.
AcceptedIsNoNewer ==
    \A c \in Confirms : \A d \in call[c].accepted :
        \E e \in call[c].proposed : d.at <= e.at

\* One idempotency key makes at most one passport version.
OneVersionPerKey ==
    \A m, n \in 1..Current :
        /\ versions[m].by \in Builds
        /\ versions[n].by \in Builds
        /\ call[versions[m].by].key = call[versions[n].by].key
        => m = n

\* Every transaction ends although builds and confirmations of the name take
\* the rows of companies and passports in opposite orders.
EveryTransactionEnds ==
    (\E c \in Handlers : Running(c)) ~> (\A c \in Handlers : ~Running(c))

=============================================================================
