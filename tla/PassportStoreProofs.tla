------------------------ MODULE PassportStoreProofs ------------------------
(***************************************************************************)
(* Theorems about PassportStore for any number of calls, keys, sources,    *)
(* fields and values.                                                      *)
(***************************************************************************)
EXTENDS PassportStore, SequenceTheorems, FiniteSetTheorems, WellFoundedInduction, TLAPS

Stopped == {"new", "done", "failed"}
BuildSteps == Stopped \cup {"refresh", "company", "passport", "version"}
Holding == {"locked", "accept", "company", "commit"}

\* A build writes versions only while it holds the row of passports.
BuildInv(c) ==
    /\ call[c].pc \in BuildSteps
    /\ Running(c) => call[c].key \in Keys
    /\ call[c].pc = "version" => passportLock = c

\* No candidate of the first set is newer than all of the second.
NoNewer(set, seen) == \A d \in set : \E e \in seen : d.at <= e.at

\* The calls count the time, so it ends.
Dated(set) == \A d \in set : d.at <= Cardinality(Saves)

\* What a confirmation read under its lock is still what is there.
ConfirmInv(c) ==
    /\ call[c].pc \in Stopped \cup Holding
    /\ call[c].pc \in Holding =>
        /\ passportLock = c
        /\ Current > 0
        /\ call[c].version = Current
        /\ call[c].fields = CurrentFields
    /\ call[c].pc \in {"locked", "accept"} => call[c].accepted = {}
    /\ call[c].pc = "accept" => NoNewer(OpenCandidates(call[c].field), call[c].proposed)
    /\ NoNewer(call[c].accepted, call[c].proposed)
    /\ Dated(call[c].accepted)

SaveInv(c) ==
    /\ call[c].pc \in Stopped \cup {"insert", "commit"}
    /\ call[c].pc = "commit" => c \in sharers
    /\ Dated(call[c].proposed)

CallInv(c) ==
    /\ c \in Builds => BuildInv(c)
    /\ c \in Confirms => ConfirmInv(c)
    /\ c \in Saves => SaveInv(c)

CallsInv == \A c \in Handlers : CallInv(c)

\* FOR UPDATE excludes KEY SHARE.
Exclusive == passportLock \in Confirms => sharers = {}

Inv ==
    /\ TypeOK
    /\ CallsInv
    /\ Exclusive
    /\ Dated(candidates)
    /\ CompanyNameIsCurrent
    /\ ConfirmationsBuildOnWhatWasSeen

\* With one API process: a build that runs is the only one of its key, and
\* finds no job of it; one that made a version has left the job behind.
KeyInv ==
    /\ \A n \in 1..Current : versions[n].by \in Builds =>
        /\ call[versions[n].by].pc = "done"
        /\ call[versions[n].by].key \in Keys
        /\ jobs[call[versions[n].by].key] # NoOne
    /\ \A c \in Builds : Running(c) => jobs[call[c].key] = NoOne
    /\ \A c, d \in Builds : Running(c) /\ Running(d) /\ call[c].key = call[d].key => c = d
    /\ OneVersionPerKey

-----------------------------------------------------------------------------
(* The steps of one call, seen by the others. *)

\* A call keeps what it knows as long as the others leave it its locks, and
\* the rows that its lock protects.
LEMMA OthersKeepCallInv ==
    ASSUME CallsInv, NEW c,
           \A d \in Handlers : d # c => call'[d] = call[d],
           \A d \in Handlers : d # c /\ passportLock = d => passportLock' = d,
           \A d \in Handlers : d # c /\ d \in sharers => d \in sharers',
           \A d \in Confirms : d # c /\ passportLock = d => UNCHANGED <<versions, candidates>>
    PROVE  \A d \in Handlers : d # c => CallInv(d)'
<1> SUFFICES ASSUME NEW d \in Handlers, d # c
             PROVE  CallInv(d)'
    OBVIOUS
<1>1. CallInv(d) /\ call'[d] = call[d]
    BY DEF CallsInv
<1>2. d \in Builds => BuildInv(d)'
    BY <1>1 DEF CallInv, BuildInv, Running
<1>3. d \in Confirms => ConfirmInv(d)'
    <2> SUFFICES ASSUME d \in Confirms
                 PROVE  ConfirmInv(d)'
        OBVIOUS
    <2>1. ConfirmInv(d)
        BY <1>1 DEF CallInv
    <2>2. CASE call[d].pc \in Holding
        <3>1. passportLock = d /\ passportLock' = d /\ versions' = versions /\ candidates' = candidates
            BY <2>1, <2>2 DEF ConfirmInv
        <3> QED BY <1>1, <2>1, <3>1 DEF ConfirmInv, Current, CurrentFields, OpenCandidates
    <2>3. CASE call[d].pc \notin Holding
        <3>1. call[d].pc # "accept"
            BY <2>3 DEF Holding
        <3> QED BY <1>1, <2>1, <2>3, <3>1 DEF ConfirmInv
    <2> QED BY <2>2, <2>3
<1>4. d \in Saves => SaveInv(d)'
    BY <1>1 DEF CallInv, SaveInv
<1> QED BY <1>2, <1>3, <1>4 DEF CallInv

\* Kinds of calls share no call.
LEMMA Kinds ==
    /\ \A c \in Builds : c \in Handlers /\ c \notin Confirms /\ c \notin Saves
    /\ \A c \in Confirms : c \in Handlers /\ c \notin Builds /\ c \notin Saves
    /\ \A c \in Saves : c \in Handlers /\ c \notin Builds /\ c \notin Confirms
BY PassportAssumption DEF Handlers

\* A statement that commits nothing: the caller goes on to another state.
LEMMA StatementKeepsInv ==
    ASSUME Inv, NEW c \in Handlers, NEW state \in Call, Become(c, state), UNCHANGED database,
           companyLock' \in Handlers \cup {NoOne}, passportLock' \in Handlers \cup {NoOne},
           sharers' \subseteq Saves, Exclusive',
           \A d \in Handlers : d # c /\ passportLock = d => passportLock' = d,
           \A d \in Handlers : d # c /\ d \in sharers => d \in sharers',
           call'[c] = state => CallInv(c)'
    PROVE  Inv'
<1>1. call' = [call EXCEPT ![c] = state] /\ call \in [Handlers -> Call]
    BY DEF Become, Inv, TypeOK
<1>2. call' \in [Handlers -> Call] /\ call'[c] = state /\ \A d \in Handlers : d # c => call'[d] = call[d]
    BY <1>1
<1>3. company' = company /\ versions' = versions /\ jobs' = jobs /\ candidates' = candidates
    BY DEF database
<1>4. TypeOK'
    BY <1>2, <1>3 DEF Inv, TypeOK
<1>5. CallsInv
    BY DEF Inv
<1>6. \A d \in Handlers : d # c => CallInv(d)'
    BY <1>2, <1>3, <1>5, OthersKeepCallInv
<1>7. CallsInv'
    <2> SUFFICES ASSUME NEW d \in Handlers
                 PROVE  CallInv(d)'
        BY DEF CallsInv
    <2>1. CASE d = c
        BY <2>1, <1>2
    <2>2. CASE d # c
        BY <2>2, <1>6
    <2> QED BY <2>1, <2>2
<1>8. CompanyNameIsCurrent' /\ ConfirmationsBuildOnWhatWasSeen'
    BY <1>3 DEF Inv, CompanyNameIsCurrent, ConfirmationsBuildOnWhatWasSeen, Current, CurrentFields
<1>9. Dated(candidates)'
    BY <1>3 DEF Inv
<1> QED BY <1>4, <1>7, <1>8, <1>9 DEF Inv

\* The end of a transaction takes nothing from the others.
LEMMA ReleaseIsOwn ==
    ASSUME TypeOK, Exclusive, NEW c \in Handlers, Release(c)
    PROVE  /\ companyLock' \in Handlers \cup {NoOne}
           /\ passportLock' \in Handlers \cup {NoOne}
           /\ sharers' \subseteq Saves
           /\ Exclusive'
           /\ \A d \in Handlers : d # c /\ passportLock = d => passportLock' = d
           /\ \A d \in Handlers : d # c /\ d \in sharers => d \in sharers'
<1>1. NoOne \notin Confirms
    BY PassportAssumption DEF Handlers
<1> QED BY <1>1 DEF TypeOK, Exclusive, Release

LEMMA FreshIsACall ==
    /\ Nothing \in FieldValues
    /\ Fresh \in Call
BY PassportAssumption DEF Fresh, Nothing, FieldValues, Call, Step

LEMMA Returning ==
    ASSUME TypeOK, NEW c \in Handlers, NEW step \in Step
    PROVE  [Fresh EXCEPT !.pc = step, !.key = call[c].key] \in Call
BY FreshIsACall DEF TypeOK, Call

-----------------------------------------------------------------------------
(* The time of a candidate. *)

\* now() is one of the times there are.
LEMMA NowIsBounded == Now \in Nat /\ Now <= Cardinality(Saves)
<1> DEFINE started == {d \in Saves : call[d].pc # "new"}
<1>1. started \in SUBSET Saves /\ IsFiniteSet(Saves)
    BY PassportAssumption
<1> HIDE DEF started
<1>2. IsFiniteSet(started) /\ Cardinality(started) <= Cardinality(Saves)
    BY <1>1, FS_Subset
<1>3. Cardinality(started) \in Nat
    BY <1>2, FS_CardinalityType
<1> QED BY <1>2, <1>3 DEF Now, started

\* Among dated candidates there is a newest one, and none is newer.
LEMMA NewestIsNoOlder ==
    ASSUME NEW set \in SUBSET Candidate, Dated(set)
    PROVE  NoNewer(set, Newest(set))
<1> DEFINE last == Cardinality(Saves)
           ages == {last - d.at : d \in set}
<1>1. last \in Nat
    BY PassportAssumption, FS_CardinalityType
<1>2. \A d \in set : d.at \in Nat /\ d.at <= last
    BY DEF Candidate, Dated
<1>3. CASE set = {}
    BY <1>3 DEF NoNewer
<1>4. CASE set # {}
    <2>1. ages \subseteq Nat /\ ages # {}
        BY <1>1, <1>2, <1>4
    <2> HIDE DEF ages
    <2>2. PICK age \in ages : \A other \in ages : ~(<<other, age>> \in OpToRel(<, Nat))
        BY <2>1, WFMin, NatLessThanWellFounded
    <2>3. \A other \in ages : age <= other
        <3>1. \A i, j \in Nat : i < j => <<i, j>> \in OpToRel(<, Nat)
            BY Zenon DEF OpToRel
        <3>2. \A other \in ages : ~(other < age)
            BY <2>1, <2>2, <3>1, Zenon
        <3> QED BY <2>1, <3>2
    <2>4. PICK e \in set : age = last - e.at
        BY DEF ages
    <2>5. \A d \in set : d.at <= e.at
        <3> TAKE d \in set
        <3>1. age <= last - d.at
            BY <2>3 DEF ages
        <3> HIDE DEF last
        <3> QED BY <3>1, <2>4, <1>1, <1>2
    <2> QED BY <2>4, <2>5 DEF Newest, NoNewer
<1> QED BY <1>3, <1>4

-----------------------------------------------------------------------------
(* Statements that commit nothing. *)

\* A call that has stopped wants nothing any more.
LEMMA StoppedCall ==
    ASSUME TypeOK, CallsInv, NEW c \in Handlers, NEW step \in Stopped,
           call'[c] = [Fresh EXCEPT !.pc = step, !.key = call[c].key]
    PROVE  CallInv(c)'
<1>1. call'[c].pc = step /\ call'[c].accepted = {} /\ call'[c].proposed = {}
    BY FreshIsACall DEF Fresh
<1>2. step \in {"new", "done", "failed"}
    BY DEF Stopped
<1>3. c \in Builds => BuildInv(c)'
    BY <1>1, <1>2 DEF BuildInv, BuildSteps, Running, Stopped
<1>4. c \in Confirms => ConfirmInv(c)'
    <2>1. step \notin Holding /\ step \notin {"locked", "accept"}
        BY <1>2 DEF Holding
    <2> QED BY <2>1, <1>1 DEF ConfirmInv, NoNewer, Dated
<1>5. c \in Saves => SaveInv(c)'
    BY <1>1, <1>2 DEF SaveInv, Dated
<1> QED BY <1>3, <1>4, <1>5 DEF CallInv

\* A call that stops without a commit.
LEMMA StoppingKeepsInv ==
    ASSUME Inv, NEW c \in Handlers, NEW step \in Stopped, Finish(c, step), UNCHANGED database,
           Release(c) \/ UNCHANGED locks
    PROVE  Inv'
<1> DEFINE state == [Fresh EXCEPT !.pc = step, !.key = call[c].key]
<1>1. state \in Call /\ Become(c, state)
    BY Returning DEF Inv, Stopped, Step, Finish
<1>2. /\ companyLock' \in Handlers \cup {NoOne}
      /\ passportLock' \in Handlers \cup {NoOne}
      /\ sharers' \subseteq Saves
      /\ Exclusive'
      /\ \A d \in Handlers : d # c /\ passportLock = d => passportLock' = d
      /\ \A d \in Handlers : d # c /\ d \in sharers => d \in sharers'
    <2>1. CASE Release(c)
        BY <2>1, ReleaseIsOwn DEF Inv
    <2>2. CASE UNCHANGED locks
        BY <2>2 DEF locks, Inv, TypeOK, Exclusive
    <2> QED BY <2>1, <2>2
<1>3. call'[c] = state => CallInv(c)'
    BY StoppedCall DEF Inv
<1> HIDE DEF state
<1> QED BY <1>1, <1>2, <1>3, StatementKeepsInv

LEMMA BeginBuildKeepsInv ==
    ASSUME Inv, NEW c \in Builds, NEW k \in Keys, NEW name \in Values, BeginBuild(c, k, name)
    PROVE  Inv'
<1> DEFINE refresh == [Fresh EXCEPT !.pc = IF versions = <<>> THEN "failed" ELSE "refresh", !.key = k]
           build == [Fresh EXCEPT !.pc = "company", !.key = k, !.value = name]
<1>1. c \in Handlers /\ c \notin Confirms /\ c \notin Saves
    BY Kinds
<1>2. UNCHANGED database /\ UNCHANGED locks
    BY DEF BeginBuild
<1>3. /\ companyLock' \in Handlers \cup {NoOne} /\ passportLock' \in Handlers \cup {NoOne}
      /\ sharers' \subseteq Saves /\ Exclusive'
      /\ passportLock' = passportLock /\ sharers' = sharers
    BY <1>2 DEF locks, Inv, TypeOK, Exclusive
<1>4. Finish(c, "done") \/ Become(c, refresh) \/ Become(c, build)
    BY DEF BeginBuild
<1>5. CASE Finish(c, "done")
    BY <1>1, <1>2, <1>5, StoppingKeepsInv DEF Stopped
<1>6. \A state : state \in {refresh, build} =>
          /\ state \in Call /\ state.key \in Keys
          /\ state.pc \in {"failed", "refresh", "company"}
    <2>1. "failed" \in Step /\ "refresh" \in Step /\ "company" \in Step
        BY DEF Step
    <2>2. refresh \in Call /\ refresh.key \in Keys /\ refresh.pc \in {"failed", "refresh"}
        BY <2>1, FreshIsACall DEF Call
    <2>3. build \in Call /\ build.key \in Keys /\ build.pc = "company"
        BY <2>1, FreshIsACall DEF Call
    <2> HIDE DEF refresh, build
    <2> QED BY <2>2, <2>3
<1> HIDE DEF refresh, build
<1>7. ASSUME NEW state \in {refresh, build}, Become(c, state)
      PROVE  Inv'
    <2>1. state \in Call /\ state.key \in Keys /\ state.pc \in {"failed", "refresh", "company"}
        BY <1>6
    <2>2. ASSUME call'[c] = state
          PROVE  CallInv(c)'
        BY <2>1, <2>2, <1>1 DEF CallInv, BuildInv, BuildSteps, Stopped
    <2> QED BY <2>1, <2>2, <1>1, <1>2, <1>3, <1>7, StatementKeepsInv
<1> QED BY <1>4, <1>5, <1>7

\* The row locks of a build; that of companies also of a confirmation.
LEMMA LockingKeepsInv ==
    ASSUME Inv, NEW c \in Handlers, LockCompany(c) \/ LockPassport(c)
    PROVE  Inv'
<1>1. call[c] \in Call /\ call \in [Handlers -> Call] /\ UNCHANGED database /\ sharers' = sharers
    BY DEF Inv, TypeOK, LockCompany, LockPassport
<1>2. CallInv(c) /\ Exclusive
    BY DEF Inv, CallsInv
<1>3. CASE LockCompany(c)
    <2> DEFINE next == IF c \in Builds THEN "passport" ELSE "commit"
               state == [call[c] EXCEPT !.pc = next]
    <2>1. /\ call[c].pc = "company" /\ Become(c, state)
          /\ companyLock' = c /\ passportLock' = passportLock
        BY <1>3 DEF LockCompany, Goto
    <2>2. (c \in Builds \/ c \in Confirms) /\ c \notin Saves
        BY <2>1, <1>2, Kinds DEF CallInv, SaveInv, Stopped, Handlers
    <2>3. state \in Call /\ state.pc = next
        BY <1>1 DEF Call, Step
    <2>4. /\ state.version = call[c].version /\ state.fields = call[c].fields /\ state.key = call[c].key
          /\ state.accepted = call[c].accepted /\ state.proposed = call[c].proposed
        BY <1>1 DEF Call
    <2> HIDE DEF state
    <2>5. ASSUME call'[c] = state
          PROVE  CallInv(c)'
        <3>1. CASE c \in Builds
            <4>1. c \notin Confirms /\ call'[c].pc = "passport" /\ call[c].key \in Keys
                BY <3>1, <2>1, <2>3, <2>5, <1>2, Kinds DEF CallInv, BuildInv, Running
            <4> QED BY <4>1, <2>2, <2>4, <2>5 DEF CallInv, BuildInv, BuildSteps
        <3>2. CASE c \in Confirms
            <4>1. c \notin Builds /\ call'[c].pc = "commit"
                BY <3>2, <2>3, <2>5, Kinds
            <4>2. ConfirmInv(c) /\ call[c].pc \in Holding
                BY <3>2, <2>1, <1>2 DEF CallInv, Holding
            <4>3. versions' = versions
                BY <1>1 DEF database
            <4>4. ConfirmInv(c)'
                BY <4>1, <4>2, <4>3, <2>1, <2>4, <2>5 DEF ConfirmInv, Holding, Current, CurrentFields
            <4> QED BY <4>1, <4>4, <2>2 DEF CallInv
        <3> QED BY <2>2, <3>1, <3>2
    <2>6. /\ companyLock' \in Handlers \cup {NoOne} /\ passportLock' \in Handlers \cup {NoOne}
          /\ sharers' \subseteq Saves /\ Exclusive'
        BY <1>1, <2>1 DEF Inv, TypeOK, Exclusive
    <2> QED BY <1>1, <2>1, <2>3, <2>5, <2>6, StatementKeepsInv
<1>4. CASE LockPassport(c)
    <2> DEFINE state == [call[c] EXCEPT !.pc = "version", !.version = Current]
    <2>1. /\ call[c].pc = "passport" /\ Become(c, state)
          /\ passportLock = NoOne /\ passportLock' = c /\ companyLock' = companyLock
        BY <1>4 DEF LockPassport
    <2>2. c \in Builds /\ c \notin Confirms /\ c \notin Saves
        BY <2>1, <1>2, Kinds DEF CallInv, ConfirmInv, SaveInv, Stopped, Holding, Handlers
    <2>3. Current \in Nat
        BY DEF Inv, TypeOK, Current
    <2>4. state \in Call /\ state.pc = "version" /\ state.key = call[c].key
        BY <1>1, <2>3 DEF Call, Step
    <2> HIDE DEF state
    <2>5. ASSUME call'[c] = state
          PROVE  CallInv(c)'
        <3>1. call[c].key \in Keys
            BY <2>1, <2>2, <1>2 DEF CallInv, BuildInv, Running
        <3> QED BY <3>1, <2>1, <2>2, <2>4, <2>5 DEF CallInv, BuildInv, BuildSteps
    <2>6. NoOne \notin Handlers
        BY PassportAssumption
    <2>7. /\ companyLock' \in Handlers \cup {NoOne} /\ passportLock' \in Handlers \cup {NoOne}
          /\ sharers' \subseteq Saves /\ Exclusive'
        BY <1>1, <2>1, <2>2 DEF Inv, TypeOK, Exclusive
    <2> QED BY <1>1, <2>1, <2>4, <2>5, <2>6, <2>7, StatementKeepsInv
<1> QED BY <1>3, <1>4

\* SELECT ... FOR UPDATE: from here on nobody else writes versions.
LEMMA LockForConfirmKeepsInv ==
    ASSUME Inv, NEW c \in Confirms, NEW f \in Fields, NEW v \in Values, NEW e \in 1..Current,
           LockForConfirm(c, f, v, e)
    PROVE  Inv'
<1>1. c \in Handlers /\ c \notin Builds /\ c \notin Saves
    BY Kinds
<1>2. /\ UNCHANGED <<database, companyLock, sharers>> /\ passportLock = NoOne /\ sharers = {}
      /\ NoOne \notin Handlers
    BY PassportAssumption DEF LockForConfirm
<1>3. CASE e # Current
    <2>1. Finish(c, "failed") /\ UNCHANGED locks
        BY <1>3 DEF LockForConfirm, locks
    <2> QED BY <2>1, <1>1, <1>2, StoppingKeepsInv DEF Stopped
<1>4. CASE e = Current
    <2> DEFINE state == [Fresh EXCEPT !.pc = "locked", !.field = f, !.value = v,
                                      !.version = e, !.fields = CurrentFields]
    <2>1. passportLock' = c /\ Become(c, state)
        BY <1>4 DEF LockForConfirm
    <2>2. versions \in Seq(Version) /\ Current \in Nat /\ Current > 0
        BY DEF Inv, TypeOK, Current
    <2>3. CurrentFields \in FieldValues
        <3>1. versions[Current] \in Version
            BY <2>2, ElementOfSeq DEF Current
        <3> QED BY <3>1 DEF Version, CurrentFields
    <2>4. "locked" \in Step
        BY DEF Step
    <2>5. /\ state \in Call /\ state.pc = "locked" /\ state.version = Current
          /\ state.fields = CurrentFields /\ state.accepted = {}
        BY <1>4, <2>2, <2>3, <2>4, FreshIsACall DEF Call, Fresh
    <2> HIDE DEF state
    <2>6. ASSUME call'[c] = state
          PROVE  CallInv(c)'
        <3>1. versions' = versions
            BY <1>2 DEF database
        <3>2. Current' = Current /\ CurrentFields' = CurrentFields
            BY <3>1 DEF Current, CurrentFields
        <3>3. ConfirmInv(c)'
            BY <2>1, <2>2, <2>5, <2>6, <3>2 DEF ConfirmInv, Holding, NoNewer, Dated
        <3> QED BY <3>3, <1>1 DEF CallInv
    <2>7. /\ companyLock' \in Handlers \cup {NoOne} /\ passportLock' \in Handlers \cup {NoOne}
          /\ sharers' \subseteq Saves /\ Exclusive'
        BY <1>1, <1>2, <2>1 DEF Inv, TypeOK, Exclusive
    <2> QED BY <1>1, <1>2, <2>1, <2>5, <2>6, <2>7, StatementKeepsInv
<1> QED BY <1>3, <1>4

\* What a confirmation reads and writes before its commit.
LEMMA ConfirmStatementsKeepInv ==
    ASSUME Inv, NEW c \in Handlers, ReadCandidates(c) \/ AcceptCandidates(c)
    PROVE  Inv'
<1> DEFINE open == OpenCandidates(call[c].field)
           later == IF call[c].field = LegalName THEN "company" ELSE "commit"
<1>1. /\ call[c] \in Call /\ CallInv(c) /\ UNCHANGED database /\ UNCHANGED locks
      /\ call[c].pc \in {"locked", "accept"}
    BY DEF Inv, TypeOK, CallsInv, ReadCandidates, AcceptCandidates
<1>2. c \in Confirms /\ c \notin Builds /\ c \notin Saves
    BY <1>1, Kinds DEF CallInv, BuildInv, SaveInv, BuildSteps, Stopped, Handlers
<1>3. ConfirmInv(c) /\ call[c].pc \in Holding
    BY <1>1, <1>2 DEF CallInv, Holding
<1>4. open \in SUBSET Candidate /\ Dated(open)
    BY DEF Inv, TypeOK, OpenCandidates, Dated
<1>5. PICK state \in Call :
          /\ Become(c, state)
          /\ state.pc \in Holding
          /\ state.version = call[c].version /\ state.fields = call[c].fields
          /\ state.pc \in {"locked", "accept"} => state.accepted = {}
          /\ state.pc = "accept" => NoNewer(open, state.proposed)
          /\ NoNewer(state.accepted, state.proposed)
          /\ Dated(state.accepted)
          /\ state.field = call[c].field
    <2>1. CASE ReadCandidates(c)
        <3> DEFINE s == [call[c] EXCEPT !.pc = "accept", !.proposed = Newest(open)]
        <3>1. call[c].pc = "locked" /\ Become(c, s)
            BY <2>1 DEF ReadCandidates
        <3>2. "accept" \in Step /\ "accept" \in Holding
            BY DEF Step, Holding
        <3>3. /\ s \in Call /\ s.pc = "accept" /\ s.version = call[c].version /\ s.fields = call[c].fields
              /\ s.proposed = Newest(open) /\ s.accepted = call[c].accepted /\ s.field = call[c].field
            BY <3>2, <1>1, <1>4 DEF Call, Newest
        <3>4. call[c].accepted = {}
            BY <3>1, <1>3 DEF ConfirmInv
        <3>5. NoNewer(call[c].accepted, s.proposed) /\ Dated(call[c].accepted)
            BY <3>4 DEF NoNewer, Dated
        <3> HIDE DEF s, open
        <3>6. NoNewer(open, Newest(open))
            BY <1>4, NewestIsNoOlder
        <3> QED BY <3>1, <3>2, <3>3, <3>4, <3>5, <3>6
    <2>2. CASE AcceptCandidates(c)
        <3> DEFINE s == [call[c] EXCEPT !.pc = later, !.accepted = open]
        <3>1. call[c].pc = "accept" /\ Become(c, s)
            BY <2>2 DEF AcceptCandidates
        <3>2. later \in Step /\ later \in Holding /\ later \notin {"locked", "accept"}
            BY DEF Step, Holding
        <3>3. /\ s \in Call /\ s.pc = later /\ s.version = call[c].version /\ s.fields = call[c].fields
              /\ s.proposed = call[c].proposed /\ s.accepted = open /\ s.field = call[c].field
            BY <3>2, <1>1, <1>4 DEF Call
        <3>4. NoNewer(open, call[c].proposed)
            BY <3>1, <1>3 DEF ConfirmInv
        <3> HIDE DEF s, open, later
        <3> QED BY <3>1, <3>2, <3>3, <3>4, <1>4
    <2> QED BY <2>1, <2>2 DEF ReadCandidates, AcceptCandidates
<1>6. /\ versions' = versions /\ candidates' = candidates /\ passportLock' = passportLock
      /\ sharers' = sharers
    BY <1>1 DEF database, locks
<1>7. ASSUME call'[c] = state
      PROVE  CallInv(c)'
    <2>1. Current' = Current /\ CurrentFields' = CurrentFields /\ OpenCandidates(state.field)' = open
        BY <1>5, <1>6 DEF Current, CurrentFields, OpenCandidates
    <2>2. ConfirmInv(c)'
        BY <2>1, <1>3, <1>5, <1>6, <1>7 DEF ConfirmInv, OpenCandidates
    <2> QED BY <2>2, <1>2 DEF CallInv
<1>8. /\ companyLock' \in Handlers \cup {NoOne} /\ passportLock' \in Handlers \cup {NoOne}
      /\ sharers' \subseteq Saves /\ Exclusive'
    BY <1>1 DEF locks, Inv, TypeOK, Exclusive
<1> QED BY <1>1, <1>5, <1>6, <1>7, <1>8, StatementKeepsInv

\* Candidates are computed and put into a transaction, which waits for
\* confirmations under way.
LEMMA ReadersKeepInv ==
    ASSUME Inv, NEW c \in Handlers,
           \/ c \in Saves /\ \E s \in Sources, f \in Fields, v \in Values : ReadPassport(c, s, f, v)
           \/ InsertCandidate(c)
    PROVE  Inv'
<1>1. call[c] \in Call /\ CallInv(c)
    BY DEF Inv, TypeOK, CallsInv
<1>2. ASSUME c \in Saves, NEW s \in Sources, NEW f \in Fields, NEW v \in Values, ReadPassport(c, s, f, v)
      PROVE  Inv'
    <2>1. c \notin Builds /\ c \notin Confirms
        BY <1>2, Kinds
    <2>2. UNCHANGED database /\ UNCHANGED locks
        BY <1>2 DEF ReadPassport
    <2>3. CASE CurrentFields[f] = v
        BY <2>2, <2>3, <1>2, StoppingKeepsInv DEF ReadPassport, Stopped
    <2>4. CASE CurrentFields[f] # v
        <3> DEFINE status == IF CurrentFields[f] = Missing THEN "NEEDS_REVIEW" ELSE "CONFLICTED"
                   d == [source |-> s, field |-> f, value |-> v, status |-> status, at |-> Now]
                   state == [Fresh EXCEPT !.pc = "insert", !.proposed = {d}]
        <3>1. Become(c, state)
            BY <1>2, <2>4 DEF ReadPassport
        <3>2. d \in Candidate /\ Dated({d})
            BY NowIsBounded DEF Candidate, Open, Dated
        <3>3. "insert" \in Step
            BY DEF Step
        <3> HIDE DEF d
        <3>4. state \in Call /\ state.pc = "insert" /\ Dated(state.proposed)
            BY <3>2, <3>3, FreshIsACall DEF Call
        <3> HIDE DEF state
        <3>5. ASSUME call'[c] = state
              PROVE  CallInv(c)'
            BY <1>2, <2>1, <3>4, <3>5 DEF CallInv, SaveInv
        <3>6. /\ companyLock' \in Handlers \cup {NoOne} /\ passportLock' \in Handlers \cup {NoOne}
              /\ sharers' \subseteq Saves /\ Exclusive'
              /\ passportLock' = passportLock /\ sharers' = sharers
            BY <2>2 DEF locks, Inv, TypeOK, Exclusive
        <3> QED BY <2>2, <3>1, <3>4, <3>5, <3>6, StatementKeepsInv
    <2> QED BY <2>3, <2>4
<1>3. CASE InsertCandidate(c)
    <2> DEFINE state == [call[c] EXCEPT !.pc = "commit"]
    <2>1. /\ call[c].pc = "insert" /\ passportLock \notin Confirms
          /\ sharers' = sharers \cup {c} /\ Become(c, state)
          /\ UNCHANGED database /\ companyLock' = companyLock /\ passportLock' = passportLock
        BY <1>3 DEF InsertCandidate, Goto
    <2>2. c \in Saves /\ c \notin Builds /\ c \notin Confirms
        BY <1>1, <2>1, Kinds DEF CallInv, BuildInv, ConfirmInv, BuildSteps, Stopped,
                                 Holding, Handlers
    <2>3. state \in Call /\ state.pc = "commit" /\ state.proposed = call[c].proposed
        BY <1>1 DEF Call, Step
    <2> HIDE DEF state
    <2>4. ASSUME call'[c] = state
          PROVE  CallInv(c)'
        BY <1>1, <2>1, <2>2, <2>3, <2>4 DEF CallInv, SaveInv
    <2>5. /\ companyLock' \in Handlers \cup {NoOne} /\ passportLock' \in Handlers \cup {NoOne}
          /\ sharers' \subseteq Saves /\ Exclusive'
        BY <2>1, <2>2 DEF Inv, TypeOK, Exclusive
    <2> QED BY <2>1, <2>3, <2>4, <2>5, StatementKeepsInv
<1> QED BY <1>2, <1>3

-----------------------------------------------------------------------------
(* Commits. *)

\* A commit that leaves alone what confirmations of others rely on.
LEMMA CommitKeepsCalls ==
    ASSUME Inv, NEW c \in Handlers, Finish(c, "done"), Release(c) \/ UNCHANGED locks,
           \A d \in Confirms : d # c /\ passportLock = d => UNCHANGED <<versions, candidates>>,
           company' \in Values \cup {Missing}, versions' \in Seq(Version),
           jobs' \in [Keys -> Builds \cup {NoOne}], candidates' \subseteq Candidate
    PROVE  TypeOK' /\ CallsInv' /\ Exclusive'
<1> DEFINE state == [Fresh EXCEPT !.pc = "done", !.key = call[c].key]
<1>1. state \in Call /\ call' = [call EXCEPT ![c] = state] /\ call \in [Handlers -> Call]
    <2>1. "done" \in Step
        BY DEF Step
    <2> QED BY <2>1, Returning DEF Inv, TypeOK, Finish, Become
<1>2. /\ companyLock' \in Handlers \cup {NoOne}
      /\ passportLock' \in Handlers \cup {NoOne}
      /\ sharers' \subseteq Saves
      /\ Exclusive'
      /\ \A d \in Handlers : d # c /\ passportLock = d => passportLock' = d
      /\ \A d \in Handlers : d # c /\ d \in sharers => d \in sharers'
    <2>1. CASE Release(c)
        BY <2>1, ReleaseIsOwn DEF Inv
    <2>2. CASE UNCHANGED locks
        BY <2>2 DEF locks, Inv, TypeOK, Exclusive
    <2> QED BY <2>1, <2>2
<1>3. call' \in [Handlers -> Call] /\ call'[c] = state /\ \A d \in Handlers : d # c => call'[d] = call[d]
    BY <1>1
<1>4. TypeOK'
    BY <1>2, <1>3 DEF TypeOK
<1>5. CallInv(c)'
    BY <1>3, StoppedCall DEF Inv, Stopped
<1>6. \A d \in Handlers : d # c => CallInv(d)'
    BY <1>2, <1>3, OthersKeepCallInv DEF Inv
<1>7. CallsInv'
    BY <1>5, <1>6 DEF CallsInv
<1> QED BY <1>2, <1>4, <1>7

\* A new version comes last and leaves the others as they are.
LEMMA Appended ==
    ASSUME versions \in Seq(Version), NEW v \in Version, versions' = Append(versions, v)
    PROVE  /\ versions' \in Seq(Version)
           /\ Current \in Nat
           /\ Current' = Current + 1
           /\ \A n \in 1..Current : versions'[n] = versions[n]
           /\ versions'[Current'] = v
<1>1. /\ Append(versions, v) \in Seq(Version)
      /\ Len(Append(versions, v)) = Len(versions) + 1
      /\ \A i \in 1..Len(versions) : Append(versions, v)[i] = versions[i]
      /\ Append(versions, v)[Len(versions) + 1] = v
    BY AppendProperties
<1>2. Len(versions) \in Nat
    BY LenProperties
<1> QED BY <1>1, <1>2 DEF Current

\* The chain of confirmations grows by a version that does not break it.
LEMMA ChainGrows ==
    ASSUME versions \in Seq(Version), ConfirmationsBuildOnWhatWasSeen,
           NEW v \in Version, versions' = Append(versions, v),
           v.by \in Confirms =>
               /\ v.seen = Current /\ Current > 0
               /\ \A f \in Fields \ {v.field} : v.fields[f] = CurrentFields[f]
    PROVE  ConfirmationsBuildOnWhatWasSeen'
<1>1. /\ Current \in Nat
      /\ Current' = Current + 1
      /\ \A n \in 1..Current : versions'[n] = versions[n]
      /\ versions'[Current'] = v
    BY Appended
<1> SUFFICES ASSUME NEW n \in 1..Current', versions'[n].by \in Confirms
             PROVE  /\ versions'[n].seen = n - 1
                    /\ n > 1
                    /\ \A f \in Fields \ {versions'[n].field} :
                          versions'[n].fields[f] = versions'[n - 1].fields[f]
    BY DEF ConfirmationsBuildOnWhatWasSeen
<1>2. CASE n = Current'
    <2>1. n - 1 = Current
        <3>1. n = Current + 1 /\ Current \in Nat
            BY <1>1, <1>2
        <3> QED BY <3>1
    <2>2. versions'[n] = v /\ v.by \in Confirms /\ Current > 0
        BY <1>1, <1>2
    <2>3. Current \in 1..Current
        BY <1>1, <2>2
    <2>4. versions'[n - 1] = versions[Current]
        BY <1>1, <2>1, <2>3
    <2> QED BY <2>1, <2>2, <2>4 DEF CurrentFields
<1>3. CASE n # Current'
    <2>1. n \in 1..Current
        BY <1>1, <1>3
    <2>2. /\ versions[n].seen = n - 1 /\ n > 1
          /\ \A f \in Fields \ {versions[n].field} : versions[n].fields[f] = versions[n - 1].fields[f]
        BY <1>1, <2>1 DEF ConfirmationsBuildOnWhatWasSeen
    <2>3. n - 1 \in 1..Current
        BY <1>1, <2>1, <2>2
    <2> QED BY <1>1, <2>1, <2>2, <2>3
<1> QED BY <1>2, <1>3

LEMMA CommitBuildKeepsInv ==
    ASSUME Inv, NEW c \in Handlers, CommitBuild(c)
    PROVE  Inv'
<1> DEFINE v == [fields |-> [Nothing EXCEPT ![LegalName] = call[c].value],
                 by |-> c, seen |-> call[c].version, field |-> LegalName]
<1>1. /\ call[c] \in Call /\ CallInv(c) /\ call[c].pc = "version" /\ versions \in Seq(Version)
      /\ jobs \in [Keys -> Builds \cup {NoOne}] /\ NoOne \notin Handlers /\ LegalName \in Fields
    BY PassportAssumption DEF Inv, TypeOK, CallsInv, CommitBuild
<1>2. c \in Builds /\ c \notin Confirms
    BY <1>1, Kinds DEF CallInv, ConfirmInv, SaveInv, Stopped, Holding, Handlers
<1>3. call[c].key \in Keys /\ passportLock = c
    BY <1>1, <1>2 DEF CallInv, BuildInv, Running
<1>4. /\ company' = call[c].value /\ versions' = Append(versions, v) /\ Release(c) /\ Finish(c, "done")
      /\ jobs' = [jobs EXCEPT ![call[c].key] = IF @ = NoOne THEN c ELSE @]
      /\ candidates' = candidates
    BY DEF CommitBuild, InsertJob
<1>5. v \in Version /\ v.fields[LegalName] = call[c].value /\ v.by = c
    <2>1. call[c].value \in Values \cup {Missing} /\ call[c].version \in Nat
        BY <1>1 DEF Call
    <2>2. [Nothing EXCEPT ![LegalName] = call[c].value] \in FieldValues
        BY <2>1, <1>1, FreshIsACall DEF FieldValues
    <2> QED BY <1>1, <2>1, <2>2, FreshIsACall DEF Version, FieldValues
<1> HIDE DEF v
<1>6. versions' \in Seq(Version) /\ versions'[Current'] = v
    BY <1>1, <1>4, <1>5, Appended
<1>7. TypeOK' /\ CallsInv' /\ Exclusive'
    <2>1. jobs' \in [Keys -> Builds \cup {NoOne}]
        BY <1>1, <1>2, <1>4
    <2>2. company' \in Values \cup {Missing}
        BY <1>1, <1>4 DEF Call
    <2>3. candidates' \subseteq Candidate
        BY <1>4 DEF Inv, TypeOK
    <2>4. \A d \in Confirms : ~(d # c /\ passportLock = d)
        BY <1>3
    <2> QED BY <1>4, <1>6, <2>1, <2>2, <2>3, <2>4, CommitKeepsCalls
<1>8. CompanyNameIsCurrent'
    BY <1>4, <1>5, <1>6 DEF CompanyNameIsCurrent, CurrentFields
<1>9. ConfirmationsBuildOnWhatWasSeen'
    BY <1>1, <1>2, <1>4, <1>5, ChainGrows DEF Inv
<1>10. Dated(candidates)'
    BY <1>4 DEF Inv
<1> QED BY <1>7, <1>8, <1>9, <1>10 DEF Inv

LEMMA CommitConfirmKeepsInv ==
    ASSUME Inv, NEW c \in Confirms, CommitConfirm(c)
    PROVE  Inv'
<1> DEFINE f == call[c].field
           v == [fields |-> [call[c].fields EXCEPT ![f] = call[c].value],
                 by |-> c, seen |-> call[c].version, field |-> f]
           accepted == {[d EXCEPT !.status = "ACCEPTED"] : d \in call[c].accepted}
<1>1. /\ c \in Handlers /\ call[c] \in Call /\ CallInv(c) /\ call[c].pc = "commit"
      /\ versions \in Seq(Version) /\ LegalName \in Fields
    BY PassportAssumption, Kinds DEF Inv, TypeOK, CallsInv, CommitConfirm
<1>2. /\ passportLock = c /\ Current > 0
      /\ call[c].version = Current /\ call[c].fields = CurrentFields
    BY <1>1 DEF CallInv, ConfirmInv, Holding
<1>3. /\ versions' = Append(versions, v) /\ Release(c) /\ Finish(c, "done")
      /\ candidates' = (candidates \ call[c].accepted) \cup accepted
      /\ company' = IF f = LegalName THEN call[c].value ELSE company
      /\ jobs' = jobs
    BY DEF CommitConfirm
<1>4. /\ v \in Version /\ v.by = c /\ v.seen = Current /\ v.field = f /\ f \in Fields
      /\ \A g \in Fields : v.fields[g] = IF g = f THEN call[c].value ELSE CurrentFields[g]
    <2>1. /\ call[c].value \in Values \cup {Missing} /\ call[c].version \in Nat
          /\ call[c].fields \in FieldValues /\ f \in Fields
        BY <1>1 DEF Call
    <2>2. [call[c].fields EXCEPT ![f] = call[c].value] \in FieldValues
        BY <2>1 DEF FieldValues
    <2>3. v \in Version
        BY <1>1, <2>1, <2>2 DEF Version
    <2> QED BY <1>2, <2>1, <2>3 DEF FieldValues
<1>5. candidates' \subseteq Candidate /\ Dated(candidates)'
    <2>1. candidates \subseteq Candidate /\ call[c].accepted \subseteq Candidate
        BY <1>1 DEF Inv, TypeOK, Call
    <2>2. \A d \in Candidate : /\ [d EXCEPT !.status = "ACCEPTED"] \in Candidate
                               /\ [d EXCEPT !.status = "ACCEPTED"].at = d.at
        BY DEF Candidate
    <2>3. Dated(candidates) /\ Dated(call[c].accepted)
        BY <1>1 DEF Inv, CallInv, ConfirmInv
    <2>4. Dated(accepted)
        BY <2>1, <2>2, <2>3 DEF Dated
    <2> HIDE DEF accepted
    <2>5. Dated(candidates)'
        BY <1>3, <2>3, <2>4 DEF Dated
    <2> USE DEF accepted
    <2>6. candidates' \subseteq Candidate
        BY <1>3, <2>1, <2>2
    <2> QED BY <2>5, <2>6
<1> HIDE DEF v, accepted
<1>6. versions' \in Seq(Version) /\ versions'[Current'] = v
    BY <1>1, <1>3, <1>4, Appended
<1>7. TypeOK' /\ CallsInv' /\ Exclusive'
    <2>1. jobs' \in [Keys -> Builds \cup {NoOne}]
        BY <1>3 DEF Inv, TypeOK
    <2>2. company' \in Values \cup {Missing}
        BY <1>1, <1>3 DEF Call, Inv, TypeOK
    <2>3. \A d \in Confirms : ~(d # c /\ passportLock = d)
        BY <1>2
    <2> QED BY <1>1, <1>3, <1>5, <1>6, <2>1, <2>2, <2>3, CommitKeepsCalls
<1>8. CompanyNameIsCurrent'
    <2>1. company = CurrentFields[LegalName]
        <3>1. versions # <<>>
            BY <1>1, <1>2, EmptySeq DEF Current
        <3> QED BY <3>1 DEF Inv, CompanyNameIsCurrent
    <2>2. company' = v.fields[LegalName]
        BY <1>1, <1>3, <1>4, <2>1
    <2> QED BY <1>6, <2>2 DEF CompanyNameIsCurrent, CurrentFields
<1>9. ConfirmationsBuildOnWhatWasSeen'
    BY <1>1, <1>2, <1>3, <1>4, ChainGrows DEF Inv
<1> QED BY <1>5, <1>7, <1>8, <1>9 DEF Inv

\* The other commits leave the versions alone.
LEMMA OtherCommitsKeepInv ==
    ASSUME Inv, NEW c \in Handlers, CommitRefresh(c) \/ CommitSave(c)
    PROVE  Inv'
<1>1. /\ call[c] \in Call /\ CallInv(c) /\ company' = company /\ versions' = versions
      /\ Finish(c, "done") /\ (Release(c) \/ UNCHANGED locks)
    BY DEF Inv, TypeOK, CallsInv, CommitRefresh, CommitSave
<1>2. SUFFICES /\ \A d \in Confirms : d # c /\ passportLock = d => candidates' = candidates
               /\ jobs' \in [Keys -> Builds \cup {NoOne}]
               /\ candidates' \subseteq Candidate /\ Dated(candidates)'
              
    <2>1. company' \in Values \cup {Missing} /\ versions' \in Seq(Version)
        BY <1>1 DEF Inv, TypeOK
    <2>2. TypeOK' /\ CallsInv' /\ Exclusive'
        BY <1>1, <1>2, <2>1, CommitKeepsCalls
    <2>3. CompanyNameIsCurrent' /\ ConfirmationsBuildOnWhatWasSeen'
        BY <1>1 DEF Inv, CompanyNameIsCurrent, ConfirmationsBuildOnWhatWasSeen, Current, CurrentFields
    <2> QED BY <1>2, <2>2, <2>3 DEF Inv
<1>3. jobs \in [Keys -> Builds \cup {NoOne}] /\ candidates \subseteq Candidate /\ Dated(candidates)
    BY DEF Inv, TypeOK
<1>4. CASE CommitRefresh(c)
    <2>1. c \in Builds
        BY <1>1, <1>4 DEF CommitRefresh, CallInv, ConfirmInv, SaveInv, Stopped, Holding, Handlers
    <2>2. call[c].key \in Keys
        BY <1>1, <1>4, <2>1 DEF CommitRefresh, CallInv, BuildInv, Running
    <2> QED BY <1>3, <1>4, <2>1, <2>2 DEF CommitRefresh, InsertJob
<1>5. CASE CommitSave(c)
    <2>1. c \in sharers
        BY <1>1, <1>5 DEF CommitSave, CallInv, SaveInv
    <2>2. passportLock \notin Confirms
        BY <2>1 DEF Inv, Exclusive
    <2>3. call[c].proposed \subseteq Candidate /\ Dated(call[c].proposed)
        BY <1>1, <1>5, Kinds DEF Call, CallInv, SaveInv, CommitSave
    <2>4. jobs' = jobs /\ candidates' \subseteq candidates \cup call[c].proposed
        BY <1>5 DEF CommitSave
    <2>5. Dated(candidates)'
        BY <1>3, <2>3, <2>4 DEF Dated
    <2> QED BY <1>3, <2>2, <2>3, <2>4, <2>5
<1> QED BY <1>4, <1>5

-----------------------------------------------------------------------------
(* The theorems. *)

LEMMA InvInit == Init => Inv
<1> SUFFICES ASSUME Init
             PROVE  Inv
    OBVIOUS
<1>1. /\ versions = <<>> /\ company = Missing /\ jobs = [k \in Keys |-> NoOne] /\ candidates = {}
      /\ companyLock = NoOne /\ passportLock = NoOne /\ sharers = {}
      /\ call = [c \in Handlers |-> Fresh]
    BY DEF Init
<1>2. Fresh \in Call /\ Fresh.pc = "new" /\ Fresh.accepted = {} /\ Fresh.proposed = {}
    BY FreshIsACall DEF Fresh
<1>3. TypeOK
    <2>1. <<>> \in Seq(Version)
        BY EmptySeq
    <2> QED BY <1>1, <1>2, <2>1 DEF TypeOK
<1>4. CallsInv
    <2> SUFFICES ASSUME NEW c \in Handlers
                 PROVE  CallInv(c)
        BY DEF CallsInv
    <2>1. call[c].pc = "new" /\ call[c].accepted = {} /\ call[c].proposed = {}
        BY <1>1, <1>2
    <2>2. BuildInv(c)
        BY <2>1 DEF BuildInv, BuildSteps, Stopped, Running
    <2>3. ConfirmInv(c)
        <3>1. "new" \notin Holding /\ "new" \notin {"locked", "accept"}
            BY DEF Holding
        <3> QED BY <2>1, <3>1 DEF ConfirmInv, Stopped, NoNewer, Dated
    <2>4. SaveInv(c)
        BY <2>1 DEF SaveInv, Dated, Stopped
    <2> QED BY <2>2, <2>3, <2>4 DEF CallInv
<1>5. Exclusive /\ CompanyNameIsCurrent /\ Dated(candidates)
    BY <1>1 DEF Exclusive, CompanyNameIsCurrent, Dated
<1>6. ConfirmationsBuildOnWhatWasSeen
    <2>1. Current = 0
        BY <1>1, EmptySeq DEF Current
    <2> QED BY <2>1 DEF ConfirmationsBuildOnWhatWasSeen
<1> QED BY <1>3, <1>4, <1>5, <1>6 DEF Inv

LEMMA InvStep == Inv /\ [Next]_vars => Inv'
<1> SUFFICES ASSUME Inv, [Next]_vars
             PROVE  Inv'
    OBVIOUS
<1>1. ASSUME NEW c \in Builds, NEW k \in Keys, NEW name \in Values, BeginBuild(c, k, name)
      PROVE  Inv'
    BY <1>1, BeginBuildKeepsInv
<1>2. ASSUME NEW c \in Confirms, NEW f \in Fields, NEW v \in Values, NEW e \in 1..Current,
             LockForConfirm(c, f, v, e)
      PROVE  Inv'
    BY <1>2, LockForConfirmKeepsInv
<1>3. ASSUME NEW c \in Saves, NEW s \in Sources, NEW f \in Fields, NEW v \in Values,
             ReadPassport(c, s, f, v)
      PROVE  Inv'
    BY <1>3, ReadersKeepInv, Kinds
<1>4. ASSUME NEW c \in Handlers, Proceed(c)
      PROVE  Inv'
    <2>1. CASE LockCompany(c) \/ LockPassport(c)
        BY <2>1, LockingKeepsInv
    <2>2. CASE ReadCandidates(c) \/ AcceptCandidates(c)
        BY <2>2, ConfirmStatementsKeepInv
    <2>3. CASE InsertCandidate(c)
        BY <2>3, ReadersKeepInv
    <2>4. CASE CommitBuild(c)
        BY <2>4, CommitBuildKeepsInv
    <2>5. CASE CommitConfirm(c)
        BY <2>5, CommitConfirmKeepsInv DEF CommitConfirm
    <2>6. CASE CommitRefresh(c) \/ CommitSave(c)
        BY <2>6, OtherCommitsKeepInv
    <2> QED BY <1>4, <2>1, <2>2, <2>3, <2>4, <2>5, <2>6 DEF Proceed
<1>5. ASSUME NEW c \in Handlers, Fail(c) \/ BreakDeadlock(c)
      PROVE  Inv'
    BY <1>5, StoppingKeepsInv DEF Fail, BreakDeadlock, Rollback, Stopped
<1>6. CASE UNCHANGED vars
    <2>1. UNCHANGED <<company, versions, jobs, candidates, companyLock, passportLock,
                      sharers, call>>
        BY <1>6 DEF vars
    <2>2. TypeOK'
        BY <2>1 DEF Inv, TypeOK
    <2>3. CallsInv
        BY DEF Inv
    <2>4. \A c \in Handlers : CallInv(c)'
        BY <2>1, <2>3, PassportAssumption, OthersKeepCallInv
    <2>5. Exclusive' /\ CompanyNameIsCurrent' /\ ConfirmationsBuildOnWhatWasSeen'
        BY <2>1 DEF Inv, Exclusive, CompanyNameIsCurrent, ConfirmationsBuildOnWhatWasSeen,
                    Current, CurrentFields
    <2>6. Dated(candidates)'
        BY <2>1 DEF Inv
    <2> QED BY <2>2, <2>4, <2>5, <2>6 DEF Inv, CallsInv
<1> QED BY <1>1, <1>2, <1>3, <1>4, <1>5, <1>6 DEF Next

LEMMA AlwaysInv == Spec => []Inv
BY InvInit, InvStep, PTL DEF Spec

\* The tables, the row locks and the local variables of the handlers keep
\* their shapes.
THEOREM PassportTypeCorrect == Spec => []TypeOK
<1>1. Inv => TypeOK
    BY DEF Inv
<1> QED BY <1>1, AlwaysInv, PTL

\* companies and passport_versions agree about the name, whoever writes them.
THEOREM NamesAgree == Spec => []CompanyNameIsCurrent
<1>1. Inv => CompanyNameIsCurrent
    BY DEF Inv
<1> QED BY <1>1, AlwaysInv, PTL

\* Every confirmation extends the version that its client had read.
THEOREM NoLostConfirmation == Spec => []ConfirmationsBuildOnWhatWasSeen
<1>1. Inv => ConfirmationsBuildOnWhatWasSeen
    BY DEF Inv
<1> QED BY <1>1, AlwaysInv, PTL

\* Whatever a confirmation closes is no newer than the candidate it looked at:
\* the row lock keeps new ones out between its two statements.
THEOREM NothingNewerAccepted == Spec => []AcceptedIsNoNewer
<1>1. Inv => AcceptedIsNoNewer
    BY Kinds DEF Inv, CallsInv, CallInv, ConfirmInv, NoNewer, AcceptedIsNoNewer
<1> QED BY <1>1, AlwaysInv, PTL

-----------------------------------------------------------------------------
(* One version per key, with one API process. *)

\* A version that a build writes is its first and the first of its key.
FirstOfItsKey(c, v) ==
    v.by \in Builds =>
        /\ v.by = c
        /\ call'[c].pc = "done"
        /\ call'[c].key \in Keys
        /\ jobs[call'[c].key] = NoOne
        /\ jobs'[call'[c].key] # NoOne

\* A step of c keeps KeyInv when jobs stay, c has not been done before, and
\* the running builds have no job of their keys and no key in common.
LEMMA KeyStep ==
    ASSUME TypeOK, KeyInv, NEW c,
           \A d \in Builds : d # c => call'[d] = call[d],
           c \in Builds => call[c].pc # "done",
           \A k \in Keys : jobs[k] # NoOne => jobs'[k] # NoOne,
           \A d \in Builds : d # c /\ Running(d) => jobs'[call[d].key] = NoOne,
           c \in Builds /\ Running(c)' =>
               /\ jobs'[call'[c].key] = NoOne
               /\ \A d \in Builds : d # c /\ Running(d) => call[d].key # call'[c].key,
           \/ versions' = versions
           \/ \E v \in Version : versions' = Append(versions, v) /\ FirstOfItsKey(c, v)
    PROVE  KeyInv'
<1>1. \A d \in Builds : d # c => (Running(d)' <=> Running(d)) /\ call'[d] = call[d]
    BY DEF Running
<1>2. \A n \in 1..Current : versions[n].by \in Builds =>
          /\ versions[n].by # c
          /\ call'[versions[n].by] = call[versions[n].by]
          /\ call[versions[n].by].pc = "done"
          /\ call[versions[n].by].key \in Keys
          /\ jobs[call[versions[n].by].key] # NoOne
    BY DEF KeyInv
<1>3. \A d \in Builds : Running(d)' => jobs'[call'[d].key] = NoOne
    BY <1>1
<1>4. \A d, e \in Builds : Running(d)' /\ Running(e)' /\ call'[d].key = call'[e].key => d = e
    <2> SUFFICES ASSUME NEW d \in Builds, NEW e \in Builds, Running(d)', Running(e)',
                        call'[d].key = call'[e].key
                 PROVE  d = e
        OBVIOUS
    <2>1. CASE d # c /\ e # c
        BY <2>1, <1>1 DEF KeyInv
    <2>2. CASE d = c \/ e = c
        BY <2>2, <1>1
    <2> QED BY <2>1, <2>2
<1>5. CASE versions' = versions
    <2>1. Current' = Current
        BY <1>5 DEF Current
    <2>2. \A n \in 1..Current' : versions'[n].by \in Builds =>
              /\ call'[versions'[n].by].pc = "done"
              /\ call'[versions'[n].by].key \in Keys
              /\ jobs'[call'[versions'[n].by].key] # NoOne
        BY <1>2, <1>5, <2>1
    <2>3. OneVersionPerKey'
        BY <1>2, <1>5, <2>1 DEF KeyInv, OneVersionPerKey
    <2> QED BY <1>3, <1>4, <2>2, <2>3 DEF KeyInv
<1>6. ASSUME NEW v \in Version, versions' = Append(versions, v), FirstOfItsKey(c, v)
      PROVE  KeyInv'
    <2>1. /\ Current \in Nat
          /\ Current' = Current + 1
          /\ \A n \in 1..Current : versions'[n] = versions[n]
          /\ versions'[Current'] = v
        BY <1>6, Appended DEF TypeOK
    <2>2. \A n \in 1..Current' : (n \in 1..Current /\ versions'[n] = versions[n]) \/ n = Current'
        BY <2>1
    <2>3. \A n \in 1..Current' : versions'[n].by \in Builds =>
              /\ call'[versions'[n].by].pc = "done"
              /\ call'[versions'[n].by].key \in Keys
              /\ jobs'[call'[versions'[n].by].key] # NoOne
        <3> TAKE n \in 1..Current'
        <3>1. CASE n \in 1..Current /\ versions'[n] = versions[n]
            BY <3>1, <1>2
        <3>2. CASE n = Current'
            BY <3>2, <2>1, <1>6 DEF FirstOfItsKey
        <3> QED BY <2>2, <3>1, <3>2
    <2>4. OneVersionPerKey'
        <3> SUFFICES ASSUME NEW m \in 1..Current', NEW n \in 1..Current',
                            versions'[m].by \in Builds, versions'[n].by \in Builds,
                            call'[versions'[m].by].key = call'[versions'[n].by].key
                     PROVE  m = n
            BY DEF OneVersionPerKey
        <3>1. CASE /\ m \in 1..Current /\ versions'[m] = versions[m]
                   /\ n \in 1..Current /\ versions'[n] = versions[n]
            BY <3>1, <1>2 DEF KeyInv, OneVersionPerKey
        <3>2. ASSUME NEW i \in 1..Current, versions'[i] = versions[i], versions[i].by \in Builds,
                     v.by \in Builds
              PROVE  call'[versions'[i].by].key # call'[v.by].key
            BY <3>2, <1>2, <1>6 DEF FirstOfItsKey
        <3>3. CASE m = Current' /\ n # Current'
            BY <3>2, <3>3, <2>1, <2>2
        <3>4. CASE n = Current' /\ m # Current'
            BY <3>2, <3>4, <2>1, <2>2
        <3> QED BY <2>2, <3>1, <3>3, <3>4
    <2> QED BY <1>3, <1>4, <2>3, <2>4 DEF KeyInv
<1> QED BY <1>5, <1>6

\* Calls that are not builds, and versions that are not theirs.
LEMMA OtherCallsKeepKeyInv ==
    ASSUME TypeOK, KeyInv, NEW c, c \notin Builds,
           \A d \in Builds : d # c => call'[d] = call[d], jobs' = jobs,
           \/ versions' = versions
           \/ \E v \in Version : versions' = Append(versions, v) /\ v.by = c
    PROVE  KeyInv'
<1>1. \A d \in Builds : d # c /\ Running(d) => jobs'[call[d].key] = NoOne
    BY DEF KeyInv
<1>2. \/ versions' = versions
      \/ \E v \in Version : versions' = Append(versions, v) /\ FirstOfItsKey(c, v)
    BY DEF FirstOfItsKey
<1> QED BY <1>1, <1>2, KeyStep

\* A running build that goes on with its key or stops, and makes neither a job
\* nor a version.
LEMMA RunningBuildKeepsKeyInv ==
    ASSUME TypeOK, KeyInv, NEW c \in Builds, Running(c), call'[c].key = call[c].key,
           \A d \in Builds : d # c => call'[d] = call[d], jobs' = jobs, versions' = versions
    PROVE  KeyInv'
<1>1. /\ \A d \in Builds : Running(d) => jobs'[call[d].key] = NoOne
      /\ \A d \in Builds : d # c /\ Running(d) => call[d].key # call'[c].key
      /\ call[c].pc # "done"
    BY DEF KeyInv, Running
<1> QED BY <1>1, KeyStep

\* One process lets no second call of a key through while one runs, and later
\* ones find the job.
LEMMA BeginBuildKeepsKeyInv ==
    ASSUME SingleApi, Inv, KeyInv, NEW c \in Builds, NEW k \in Keys, NEW name \in Values,
           BeginBuild(c, k, name)
    PROVE  KeyInv'
<1>1. /\ c \in Handlers /\ call \in [Handlers -> Call] /\ TypeOK
      /\ jobs' = jobs /\ versions' = versions /\ call[c].pc = "new"
      /\ \A d \in Builds : call[d].key = k => ~Running(d)
    BY Kinds DEF BeginBuild, Inv, TypeOK, database
<1>2. \A state : Become(c, state) =>
          call'[c] = state /\ \A d \in Builds : d # c => call'[d] = call[d]
    BY <1>1, Kinds DEF Become
<1>3. \A d \in Builds : Running(d) => jobs'[call[d].key] = NoOne
    BY <1>1 DEF KeyInv
<1>4. CASE jobs[k] # NoOne
    <2> DEFINE state == [Fresh EXCEPT !.pc = "done", !.key = call[c].key]
    <2>1. Become(c, state) /\ state.pc = "done"
        BY <1>4, FreshIsACall DEF BeginBuild, Finish, Fresh
    <2> HIDE DEF state
    <2>2. call'[c].pc = "done" /\ \A d \in Builds : d # c => call'[d] = call[d]
        BY <2>1, <1>2
    <2>3. ~Running(c)'
        BY <2>2 DEF Running
    <2> QED BY <1>1, <1>3, <2>2, <2>3, KeyStep
<1>5. CASE jobs[k] = NoOne
    <2>1. call'[c].key = k /\ \A d \in Builds : d # c => call'[d] = call[d]
        <3>1. PICK state \in {[Fresh EXCEPT !.pc = IF versions = <<>> THEN "failed" ELSE "refresh",
                                            !.key = k],
                              [Fresh EXCEPT !.pc = "company", !.key = k, !.value = name]} :
                  Become(c, state)
            BY <1>5 DEF BeginBuild
        <3>2. state.key = k
            BY <3>1, FreshIsACall DEF Fresh
        <3> QED BY <3>1, <3>2, <1>2
    <2>2. /\ jobs'[call'[c].key] = NoOne
          /\ \A d \in Builds : d # c /\ Running(d) => call[d].key # call'[c].key
        BY <1>1, <1>5, <2>1
    <2> QED BY <1>1, <1>3, <2>1, <2>2, KeyStep
<1> QED BY <1>4, <1>5

\* The commits of builds leave the job behind.
LEMMA BuildCommitsKeepKeyInv ==
    ASSUME Inv, KeyInv, NEW c \in Builds, CommitRefresh(c) \/ CommitBuild(c)
    PROVE  KeyInv'
<1>1. /\ c \in Handlers /\ call \in [Handlers -> Call] /\ call[c] \in Call /\ TypeOK
      /\ jobs \in [Keys -> Builds \cup {NoOne}] /\ c # NoOne /\ Finish(c, "done")
    BY Kinds, PassportAssumption DEF Inv, TypeOK, CommitRefresh, CommitBuild
<1>2. Running(c) /\ call[c].pc # "done" /\ call[c].key \in Keys
    <2>1. Running(c) /\ call[c].pc # "done"
        BY DEF CommitRefresh, CommitBuild, Running
    <2> QED BY <2>1, <1>1 DEF Inv, CallsInv, CallInv, BuildInv
<1>3. /\ call'[c].pc = "done" /\ call'[c].key = call[c].key
      /\ \A d \in Builds : d # c => call'[d] = call[d]
    BY <1>1, Kinds DEF Finish, Become, Fresh
<1>4. ~Running(c)'
    BY <1>3 DEF Running
<1>5. jobs' = [jobs EXCEPT ![call[c].key] = IF @ = NoOne THEN c ELSE @]
    BY DEF CommitRefresh, CommitBuild, InsertJob
<1>6. /\ \A k \in Keys : jobs[k] # NoOne => jobs'[k] # NoOne
      /\ jobs[call'[c].key] = NoOne /\ jobs'[call'[c].key] # NoOne
    <2>1. jobs[call[c].key] = NoOne
        BY <1>2 DEF KeyInv
    <2> QED BY <2>1, <1>1, <1>2, <1>3, <1>5
<1>7. \A d \in Builds : d # c /\ Running(d) => jobs'[call[d].key] = NoOne
    <2> SUFFICES ASSUME NEW d \in Builds, d # c, Running(d)
                 PROVE  jobs'[call[d].key] = NoOne
        OBVIOUS
    <2>1. /\ jobs[call[d].key] = NoOne /\ call[d].key # call[c].key
          /\ call[d].key \in Keys
        BY <1>2, Kinds DEF KeyInv, Inv, CallsInv, CallInv, BuildInv
    <2> QED BY <2>1, <1>1, <1>5
<1>8. CASE CommitRefresh(c)
    <2>1. versions' = versions
        BY <1>8 DEF CommitRefresh
    <2> QED BY <2>1, <1>1, <1>2, <1>3, <1>4, <1>6, <1>7, KeyStep
<1>9. CASE CommitBuild(c)
    <2> DEFINE v == [fields |-> [Nothing EXCEPT ![LegalName] = call[c].value],
                     by |-> c, seen |-> call[c].version, field |-> LegalName]
    <2>1. versions' = Append(versions, v)
        BY <1>9 DEF CommitBuild
    <2>2. v \in Version /\ v.by = c
        <3>1. call[c].value \in Values \cup {Missing} /\ call[c].version \in Nat /\ LegalName \in Fields
            BY <1>1, PassportAssumption DEF Call
        <3>2. [Nothing EXCEPT ![LegalName] = call[c].value] \in FieldValues
            BY <3>1, FreshIsACall DEF FieldValues
        <3> QED BY <1>1, <3>1, <3>2 DEF Version
    <2> HIDE DEF v
    <2>3. FirstOfItsKey(c, v)
        BY <2>2, <1>2, <1>3, <1>6 DEF FirstOfItsKey
    <2> QED BY <2>1, <2>2, <2>3, <1>1, <1>2, <1>3, <1>4, <1>6, <1>7, KeyStep
<1> QED BY <1>8, <1>9

\* Every other statement of a call, by its kind.
LEMMA ProceedKeepsKeyInv ==
    ASSUME Inv, KeyInv, NEW c \in Handlers, Proceed(c) \/ Fail(c) \/ BreakDeadlock(c)
    PROVE  KeyInv'
<1>1. /\ TypeOK /\ call \in [Handlers -> Call] /\ call[c] \in Call /\ versions \in Seq(Version)
      /\ CallInv(c) /\ Builds \subseteq Handlers
    BY DEF Inv, TypeOK, CallsInv, Handlers
<1>2. CASE c \in Builds /\ (CommitRefresh(c) \/ CommitBuild(c))
    BY <1>2, BuildCommitsKeepKeyInv
<1>3. CASE c \in Builds /\ ~(CommitRefresh(c) \/ CommitBuild(c))
    <2>1. BuildInv(c)
        BY <1>1, <1>3 DEF CallInv
    <2>2. LockCompany(c) \/ LockPassport(c) \/ (Rollback(c) /\ Running(c))
        BY <1>3, <2>1, Kinds DEF Proceed, BuildInv, BuildSteps, Stopped, ReadCandidates,
               AcceptCandidates, CommitConfirm, InsertCandidate, CommitSave,
               Fail, BreakDeadlock, WaitsFor, Running
    <2>3. Running(c) /\ jobs' = jobs /\ versions' = versions
        BY <2>2 DEF LockCompany, LockPassport, Rollback, Running, database
    <2>4. call'[c].key = call[c].key /\ \A d \in Builds : d # c => call'[d] = call[d]
        BY <2>2, <1>1 DEF LockCompany, LockPassport, Rollback, Goto, Finish, Become, Call, Fresh
    <2> QED BY <1>1, <1>3, <2>3, <2>4, RunningBuildKeepsKeyInv
<1>4. CASE c \notin Builds
    <2>1. ~CommitRefresh(c) /\ ~CommitBuild(c) /\ ~LockPassport(c)
        BY <1>1, <1>4 DEF CommitRefresh, CommitBuild, LockPassport, CallInv, ConfirmInv, SaveInv,
                          Stopped, Holding, Handlers
    <2>2. jobs' = jobs
        BY <2>1 DEF Proceed, LockCompany, ReadCandidates, AcceptCandidates, CommitConfirm,
                    InsertCandidate, CommitSave, Fail, BreakDeadlock, Rollback, database
    <2>3. \A d \in Builds : d # c => call'[d] = call[d]
        BY <2>1, <1>1, <1>4 DEF Proceed, LockCompany, ReadCandidates, AcceptCandidates,
               CommitConfirm, InsertCandidate, CommitSave, Fail, BreakDeadlock,
               Rollback, Goto, Finish, Become
    <2>4. \/ versions' = versions
          \/ \E v \in Version : versions' = Append(versions, v) /\ v.by = c
        <3>1. CASE CommitConfirm(c)
            <4> DEFINE v == [fields |-> [call[c].fields EXCEPT ![call[c].field] = call[c].value],
                             by |-> c, seen |-> call[c].version, field |-> call[c].field]
            <4>1. versions' = Append(versions, v)
                BY <3>1 DEF CommitConfirm
            <4>2. /\ call[c].value \in Values \cup {Missing} /\ call[c].version \in Nat
                  /\ call[c].fields \in FieldValues /\ call[c].field \in Fields
                BY <1>1 DEF Call
            <4>3. [call[c].fields EXCEPT ![call[c].field] = call[c].value] \in FieldValues
                BY <4>2 DEF FieldValues
            <4>4. v \in Version /\ v.by = c
                BY <4>2, <4>3 DEF Version
            <4> HIDE DEF v
            <4> QED BY <4>1, <4>4
        <3>2. CASE ~CommitConfirm(c)
            BY <2>1, <3>2 DEF Proceed, LockCompany, ReadCandidates, AcceptCandidates,
                   InsertCandidate, CommitSave, Fail, BreakDeadlock, Rollback, database
        <3> QED BY <3>1, <3>2
    <2> QED BY <1>1, <1>4, <2>2, <2>3, <2>4, OtherCallsKeepKeyInv
<1> QED BY <1>2, <1>3, <1>4

LEMMA KeyInvInit == Init => KeyInv
<1> SUFFICES ASSUME Init
             PROVE  KeyInv
    OBVIOUS
<1>1. Current = 0
    BY EmptySeq DEF Init, Current
<1>2. \A c \in Builds : ~Running(c)
    BY Kinds DEF Init, Fresh, Running
<1> QED BY <1>1, <1>2 DEF KeyInv, OneVersionPerKey

LEMMA KeyInvStep ==
    ASSUME SingleApi
    PROVE  Inv /\ KeyInv /\ [Next]_vars => KeyInv'
<1> SUFFICES ASSUME Inv, KeyInv, [Next]_vars
             PROVE  KeyInv'
    OBVIOUS
<1>1. ASSUME NEW c \in Builds, NEW k \in Keys, NEW name \in Values, BeginBuild(c, k, name)
      PROVE  KeyInv'
    BY <1>1, BeginBuildKeepsKeyInv
<1>2. ASSUME NEW c \in Handlers, c \notin Builds, NEW state, Become(c, state), UNCHANGED database
      PROVE  KeyInv'
    <2>1. TypeOK /\ call \in [Handlers -> Call] /\ Builds \subseteq Handlers
        BY DEF Inv, TypeOK, Handlers
    <2>2. \A d \in Builds : d # c => call'[d] = call[d]
        BY <1>2, <2>1 DEF Become
    <2>3. jobs' = jobs /\ versions' = versions
        BY <1>2 DEF database
    <2> QED BY <1>2, <2>1, <2>2, <2>3, OtherCallsKeepKeyInv
<1>3. ASSUME NEW c \in Confirms, NEW f \in Fields, NEW v \in Values, NEW e \in 1..Current,
             LockForConfirm(c, f, v, e)
      PROVE  KeyInv'
    BY <1>2, <1>3, Kinds DEF LockForConfirm, Finish
<1>4. ASSUME NEW c \in Saves, NEW s \in Sources, NEW f \in Fields, NEW v \in Values,
             ReadPassport(c, s, f, v)
      PROVE  KeyInv'
    BY <1>2, <1>4, Kinds DEF ReadPassport, Finish
<1>5. ASSUME NEW c \in Handlers, Proceed(c) \/ Fail(c) \/ BreakDeadlock(c)
      PROVE  KeyInv'
    BY <1>5, ProceedKeepsKeyInv
<1>6. CASE UNCHANGED vars
    <2>1. versions' = versions /\ jobs' = jobs /\ call' = call
        BY <1>6 DEF vars
    <2> QED BY <2>1 DEF KeyInv, Current, Running, OneVersionPerKey
<1> QED BY <1>1, <1>3, <1>4, <1>5, <1>6 DEF Next

\* With one API process one key makes at most one passport version, although
\* a build only looks for the job before its transaction and the unique index
\* is asked after the version is written.
THEOREM OneVersionPerKeyInOneProcess ==
    ASSUME SingleApi
    PROVE  Spec => []OneVersionPerKey
<1>1. KeyInv => OneVersionPerKey
    BY DEF KeyInv
<1>2. Spec => []KeyInv
    BY AlwaysInv, KeyInvInit, KeyInvStep, PTL DEF Spec
<1> QED BY <1>1, <1>2, PTL

=============================================================================
