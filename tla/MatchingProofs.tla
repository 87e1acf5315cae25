---------------------------- MODULE MatchingProofs ----------------------------
(***************************************************************************)
(* Proofs about Matching, for any number of requests, policies, versions   *)
(* and rules: what the list that all requests share may hold, that a run   *)
(* has one verdict for each policy and rests on the version of the         *)
(* passport that it names, that every document shown is registered, that   *)
(* checklists are of published versions, and that what they take for       *)
(* available was confirmed in a version that a match worked on.            *)
(*                                                                         *)
(* Every list that a request has read, the shared one included, holds at   *)
(* most one ACTIVE version of a policy, though the corpus may have moved   *)
(* on: GoodList says so of one list, GoodRun what follows for one run,     *)
(* GoodCall for the local variables of one request.  The predicates take   *)
(* the tables they depend on as parameters, so that it is one lemma each   *)
(* that they survive a change of the corpus or of the passport.            *)
(***************************************************************************)
EXTENDS Matching, TLAPS

USE MatchingAssumption

-----------------------------------------------------------------------------
(* The inductive invariant. *)

\* Of one policy the corpus has one ACTIVE version at most.
OneActive ==
    \A k, m \in Policies \X Versions :
        k[1] = m[1] /\ corpus[k].lifecycle = "ACTIVE" /\ corpus[m].lifecycle = "ACTIVE" => k = m

\* A list that was read from the corpus, perhaps some time ago.
GoodList(list, corp) ==
    /\ \A p, q \in list : p.id = q.id /\ p.lifecycle = "ACTIVE" /\ q.lifecycle = "ACTIVE" => p = q
    /\ \A p \in list : p.lifecycle = "ACTIVE" => corp[<<p.id, p.version>>].lifecycle # "PENDING_REVIEW"

PublicList(list) == \A p \in list : p.lifecycle = "ACTIVE" /\ p.reviewed

\* What a verdict says of the facts it was made from.
GoodVerdict(r, pass) ==
    /\ r.verdict = "NOT_MET" =>
           \E rule \in Rules[<<r.id, r.version>>] : rule.required /\ pass[rule.field] \notin rule.accepts \cup {Missing}
    /\ r.verdict = "MET" =>
           \A rule \in Rules[<<r.id, r.version>>] : rule.required => pass[rule.field] \in rule.accepts

GoodRun(run, corp, fs) ==
    /\ \A r, s \in run.results : r.id = s.id => r = s
    /\ \A r \in run.results : r.id \in Policies =>
           /\ r.version \in Versions
           /\ corp[<<r.id, r.version>>].lifecycle # "PENDING_REVIEW"
           /\ run.passport \in 1..Len(fs)
           /\ GoodVerdict(r, fs[run.passport])
    /\ \A r \in run.results : r.id \in Documents => r.mode # "RULE_ENGINE_ONLY"

GoodCall(c, state, corp, fs) ==
    /\ GoodList(state.read, corp)
    /\ c \notin Admins => PublicList(state.read)
    /\ state.pc \in {"search", "match"} => state.passport \in 1..Len(fs)
    /\ GoodRun(state.run, corp, fs)
    /\ c \notin Admins => PublicList(state.shown) \/ state.from \in Admins

FirstFacts == facts # <<>> /\ facts[1] = NoFacts

SharedList == GoodList(policies, corpus) /\ (writer \notin Admins => PublicList(policies))

AllRuns == \A run \in matches \cup {stored} : GoodRun(run, corpus, facts)

AllCalls == \A c \in Refreshers : GoodCall(c, call[c], corpus, facts)

\* The passport in memory is the one that a match in memory worked on.
MemoryIsMatched ==
    memory = NoFacts
    \/ \E run \in matches : run.passport \in 1..Len(facts) /\ memory = facts[run.passport]

\* AvailableWasMatched of one list of checklists, with the version existing.
GoodChecklists(list, runs, fs) ==
    \A i \in 1..Len(list) : list[i].available # {} =>
        \E run \in runs :
            /\ run.passport \in 1..Len(fs)
            /\ \A item \in list[i].available : \A f \in item : fs[run.passport][f] # Missing

Checklists ==
    /\ GoodChecklists(checklists, matches, facts)
    /\ \A i \in 1..Len(checklists) : checklists[i].template = "own" =>
           checklists[i].policy \in Policies /\ checklists[i].version \in Versions
    /\ ChecklistsWerePublished

Inv ==
    /\ TypeOK /\ OneActive /\ FirstFacts
    /\ SharedList /\ AllRuns /\ AllCalls /\ MemoryIsMatched
    /\ ShownDocumentsAreUsable /\ Checklists

-----------------------------------------------------------------------------
(* How the tables move, and what survives it. *)

\* A version that has been published never waits for review again.
Later(corp, corp2) ==
    \A k \in Policies \X Versions :
        corp[k].lifecycle # "PENDING_REVIEW" => corp2[k].lifecycle # "PENDING_REVIEW"

\* Versions of the passport are only added.
Grows(fs, fs2) ==
    /\ Len(fs) \in Nat /\ Len(fs2) \in Nat /\ Len(fs) <= Len(fs2)
    /\ \A v \in 1..Len(fs) : fs2[v] = fs[v]

\* Of the corpus only the review changes anything, and it never takes a
\* publication back.
LEMMA CorpusMoves ==
    ASSUME TypeOK, OneActive, [Next]_vars
    PROVE  Later(corpus, corpus') /\ OneActive'
<1>1. CASE corpus' = corpus
    BY <1>1 DEF Later, OneActive
<1>2. ASSUME NEW k \in Policies \X Versions, RetireVersion(k)
      PROVE  Later(corpus, corpus') /\ OneActive'
    <2>1. \A m \in Policies \X Versions :
              corpus'[m].lifecycle = IF m = k THEN "SUPERSEDED" ELSE corpus[m].lifecycle
        BY <1>2 DEF RetireVersion, TypeOK, Row
    <2> QED BY <2>1 DEF Later, OneActive
<1>3. ASSUME NEW k \in Policies \X Versions, NEW reviewed \in BOOLEAN, PublishVersion(k, reviewed)
      PROVE  Later(corpus, corpus') /\ OneActive'
    <2>1. \A m \in Policies \X Versions :
              corpus'[m].lifecycle =
                  IF m = k THEN "ACTIVE"
                  ELSE IF m[1] = k[1] /\ corpus[m].lifecycle = "ACTIVE" THEN "SUPERSEDED"
                  ELSE corpus[m].lifecycle
        BY <1>3 DEF PublishVersion, TypeOK, Row
    <2> QED BY <2>1 DEF Later, OneActive
<1>4. Corpus \/ corpus' = corpus
    BY DEF Next, Request, vars, ReadPolicies, ReplacePolicies, ListPolicies, GetPolicy, Show,
           ReadPassport, SearchDocuments, MatchPassport, SaveMatchRun, Unavailable, ReadMatchRun, LoadMatchRun,
           CreateChecklist, ChangePassport, Restart, database
<1> QED BY <1>1, <1>2, <1>3, <1>4 DEF Corpus

\* Of the passport only builds and confirmations change anything, and they
\* add a version.
LEMMA FactsGrow ==
    ASSUME TypeOK, FirstFacts, [Next]_vars
    PROVE  Grows(facts, facts') /\ FirstFacts'
<1>1. CASE facts' = facts
    BY <1>1 DEF Grows, FirstFacts, TypeOK
<1>2. ASSUME NEW values \in FieldValues, ChangePassport(values)
      PROVE  Grows(facts, facts') /\ FirstFacts'
    BY <1>2 DEF ChangePassport, Grows, FirstFacts, TypeOK
<1>3. facts' = facts \/ \E values \in FieldValues : ChangePassport(values)
    BY DEF Next, Request, vars, ReadPolicies, ReplacePolicies, ListPolicies, GetPolicy, Show,
           ReadPassport, SearchDocuments, MatchPassport, SaveMatchRun, Unavailable, ReadMatchRun, LoadMatchRun,
           CreateChecklist, Corpus, PublishVersion, RetireVersion, Restart, database
<1> QED BY <1>1, <1>2, <1>3

\* A list that was read stays good however the corpus moves.
LEMMA ListStays ==
    ASSUME NEW list \in SUBSET Policy, NEW corp, NEW corp2, Later(corp, corp2), GoodList(list, corp)
    PROVE  GoodList(list, corp2)
BY DEF GoodList, Later, Policy

\* A run stays good however the corpus and the passport move.
LEMMA RunStays ==
    ASSUME NEW run \in Run, NEW corp, NEW corp2, NEW fs, NEW fs2,
           Later(corp, corp2), Grows(fs, fs2), GoodRun(run, corp, fs)
    PROVE  GoodRun(run, corp2, fs2)
<1>1. ASSUME NEW r \in run.results, r.id \in Policies
      PROVE  /\ r.version \in Versions
             /\ corp2[<<r.id, r.version>>].lifecycle # "PENDING_REVIEW"
             /\ run.passport \in 1..Len(fs2)
             /\ GoodVerdict(r, fs2[run.passport])
    BY <1>1 DEF GoodRun, Later, Grows
<1> QED BY <1>1 DEF GoodRun

\* Checklists stay good however the passport moves, and with more runs.
LEMMA ChecklistsStay ==
    ASSUME NEW list, NEW runs, NEW runs2, runs \subseteq runs2,
           NEW fs, NEW fs2, Grows(fs, fs2), GoodChecklists(list, runs, fs)
    PROVE  GoodChecklists(list, runs2, fs2)
<1> SUFFICES ASSUME NEW i \in 1..Len(list), list[i].available # {}
             PROVE  \E run \in runs2 :
                        /\ run.passport \in 1..Len(fs2)
                        /\ \A item \in list[i].available : \A f \in item :
                               fs2[run.passport][f] # Missing
    BY DEF GoodChecklists
<1>1. PICK run \in runs :
          /\ run.passport \in 1..Len(fs)
          /\ \A item \in list[i].available : \A f \in item : fs[run.passport][f] # Missing
    BY DEF GoodChecklists
<1>2. run.passport \in 1..Len(fs2) /\ fs2[run.passport] = fs[run.passport]
    BY <1>1 DEF Grows
<1> QED BY <1>1, <1>2

\* The local variables of a request stay good, too.
LEMMA CallStays ==
    ASSUME NEW c, NEW state \in Call, NEW corp, NEW corp2, NEW fs, NEW fs2,
           Later(corp, corp2), Grows(fs, fs2), GoodCall(c, state, corp, fs)
    PROVE  GoodCall(c, state, corp2, fs2)
<1>1. state.read \in SUBSET Policy /\ state.run \in Run
    BY DEF Call
<1>2. GoodList(state.read, corp2)
    BY <1>1, ListStays DEF GoodCall
<1>3. GoodRun(state.run, corp2, fs2)
    BY <1>1, RunStays DEF GoodCall
<1> QED BY <1>2, <1>3 DEF GoodCall, Grows

-----------------------------------------------------------------------------
(* What the operators return. *)

\* What Policies selects, for the public and for the administration.
LEMMA ReadIsGood ==
    ASSUME TypeOK, OneActive, NEW all \in BOOLEAN, NEW list, list = Listed(all)
    PROVE  /\ list \in SUBSET Policy /\ GoodList(list, corpus)
           /\ ~all => PublicList(list)
<1> DEFINE keys == {k \in Policies \X Versions : all \/ Published(corpus[k])}
<1>0. list = {[id |-> k[1], version |-> k[2], lifecycle |-> corpus[k].lifecycle,
               reviewed |-> corpus[k].reviewed] : k \in keys}
    BY DEF Listed
<1>5. ~all => PublicList(list)
    BY <1>0 DEF PublicList, Published
<1>6. keys \in SUBSET (Policies \X Versions)
    OBVIOUS
<1> HIDE DEF keys
<1>1. ASSUME NEW p \in list
      PROVE  \E k \in keys : /\ k \in Policies \X Versions
                             /\ k = <<k[1], k[2]>> /\ k[1] \in Policies /\ k[2] \in Versions
                             /\ p = [id |-> k[1], version |-> k[2], lifecycle |-> corpus[k].lifecycle,
                                    reviewed |-> corpus[k].reviewed]
    BY <1>0, <1>6
<1>2. list \in SUBSET Policy
    <2>1. ASSUME NEW p \in list
          PROVE  p \in Policy
        BY <1>1 DEF TypeOK, Row, Policy
    <2> QED BY <2>1
<1>3. ASSUME NEW p \in list, NEW q \in list,
             p.id = q.id, p.lifecycle = "ACTIVE", q.lifecycle = "ACTIVE"
      PROVE  p = q
    <2>1. PICK k \in keys : /\ k \in Policies \X Versions
                           /\ p = [id |-> k[1], version |-> k[2], lifecycle |-> corpus[k].lifecycle,
                                  reviewed |-> corpus[k].reviewed]
        BY <1>1
    <2>2. PICK m \in keys : /\ m \in Policies \X Versions
                           /\ q = [id |-> m[1], version |-> m[2], lifecycle |-> corpus[m].lifecycle,
                                  reviewed |-> corpus[m].reviewed]
        BY <1>1
    <2>3. k = m
        BY <1>3, <2>1, <2>2 DEF OneActive
    <2> QED BY <2>1, <2>2, <2>3
<1>4. ASSUME NEW p \in list, p.lifecycle = "ACTIVE"
      PROVE  corpus[<<p.id, p.version>>].lifecycle # "PENDING_REVIEW"
    <2>1. PICK k \in keys : /\ k = <<k[1], k[2]>>
                           /\ p = [id |-> k[1], version |-> k[2], lifecycle |-> corpus[k].lifecycle,
                                  reviewed |-> corpus[k].reviewed]
        BY <1>1
    <2>2. corpus[<<p.id, p.version>>].lifecycle = p.lifecycle
        BY <2>1
    <2> QED BY <1>4, <2>2
<1> QED BY <1>2, <1>3, <1>4, <1>5 DEF GoodList

\* One rule is decided by one confirmed fact, or not at all.
LEMMA RuleIsSound ==
    ASSUME NEW pass, NEW rule
    PROVE  /\ EvaluateRule(pass, rule) \in Verdicts
           /\ EvaluateRule(pass, rule) = "MET" => pass[rule.field] \in rule.accepts
           /\ EvaluateRule(pass, rule) = "NOT_MET" => pass[rule.field] \notin rule.accepts \cup {Missing}
BY DEF EvaluateRule, Verdicts

\* The verdict of the required rules together.
LEMMA EvaluationIsSound ==
    ASSUME NEW pass, NEW rules
    PROVE  /\ Evaluate(pass, rules) \in Verdicts
           /\ Evaluate(pass, rules) = "NOT_MET" =>
                  \E rule \in rules : rule.required /\ pass[rule.field] \notin rule.accepts \cup {Missing}
           /\ Evaluate(pass, rules) = "MET" =>
                  \A rule \in rules : rule.required => pass[rule.field] \in rule.accepts
<1> DEFINE criteria == {EvaluateRule(pass, rule) : rule \in {rule \in rules : rule.required}}
<1>1. Evaluate(pass, rules) = IF "NOT_MET" \in criteria THEN "NOT_MET"
                              ELSE IF "MISSING_INFO" \in criteria THEN "MISSING_INFO" ELSE "MET"
    BY DEF Evaluate
<1>2. \A v \in criteria : v \in Verdicts
    BY RuleIsSound
<1>3. Evaluate(pass, rules) \in Verdicts
    BY <1>1 DEF Verdicts
<1>4. ASSUME Evaluate(pass, rules) = "NOT_MET"
      PROVE  \E rule \in rules : rule.required /\ pass[rule.field] \notin rule.accepts \cup {Missing}
    <2>1. "NOT_MET" \in criteria
        <3> HIDE DEF criteria
        <3> QED BY <1>1, <1>4
    <2>2. PICK rule \in rules : rule.required /\ EvaluateRule(pass, rule) = "NOT_MET"
        BY <2>1
    <2> QED BY <2>2, RuleIsSound
<1>5. ASSUME Evaluate(pass, rules) = "MET", NEW rule \in rules, rule.required
      PROVE  pass[rule.field] \in rule.accepts
    <2>1. "NOT_MET" \notin criteria /\ "MISSING_INFO" \notin criteria
        <3> HIDE DEF criteria
        <3> QED BY <1>1, <1>5
    <2>2. EvaluateRule(pass, rule) \in criteria
        BY <1>5
    <2>3. EvaluateRule(pass, rule) = "MET"
        <3> HIDE DEF criteria
        <3> QED BY <1>2, <2>1, <2>2 DEF Verdicts
    <2> QED BY <2>3, RuleIsSound
<1> QED BY <1>3, <1>4, <1>5

\* The run of one match: a result for each ACTIVE policy of the list and for
\* each document that is not known as a policy.
LEMMA RunIsGood ==
    ASSUME TypeOK, SharedList, NEW v \in 1..Len(facts), NEW documents \in SUBSET Documents,
           NEW run, run = [passport |-> v, results |-> Results(facts[v], documents)]
    PROVE  /\ run \in Run
           /\ GoodRun(run, corpus, facts)
           /\ \A r \in run.results : r.id \in Documents => r.id \in Unknown(documents)
<1> DEFINE mode == IF documents = {} THEN "RULE_ENGINE_ONLY" ELSE "HYBRID_RULE_VECTOR"
           OfPolicy(p) == [id |-> p.id, version |-> p.version, mode |-> mode,
                           verdict |-> Evaluate(facts[v], Rules[<<p.id, p.version>>])]
           OfDocument(d) == [id |-> d, version |-> 0, mode |-> "HYBRID_RULE_VECTOR",
                             verdict |-> "MISSING_INFO"]
<1>1. /\ run.passport = v
      /\ run.results = {OfPolicy(p) : p \in Active} \cup {OfDocument(d) : d \in Unknown(documents)}
    BY DEF Results, Matched
<1>2. Active \subseteq policies /\ Active \subseteq Policy /\ \A p \in Active : p.lifecycle = "ACTIVE"
    BY DEF Active, TypeOK
<1>3. Unknown(documents) \subseteq Documents
    BY DEF Unknown
<1>4. \A p \in Active : /\ OfPolicy(p) \in Result /\ OfPolicy(p).id = p.id
                        /\ p.id \in Policies /\ p.version \in Versions
    <2>1. mode \in Modes
        BY DEF Modes
    <2>2. \A p \in Active : Evaluate(facts[v], Rules[<<p.id, p.version>>]) \in Verdicts
        BY EvaluationIsSound
    <2> QED BY <1>2, <2>1, <2>2 DEF Policy, Result
<1>5. \A d \in Unknown(documents) : /\ OfDocument(d) \in Result /\ OfDocument(d).id = d
                                    /\ d \in Documents /\ d \notin Policies
    BY <1>3 DEF Result, Modes, Verdicts
<1>6. \A p \in Active :
          /\ OfPolicy(p).version = p.version
          /\ OfPolicy(p).verdict = Evaluate(facts[v], Rules[<<p.id, p.version>>])
    OBVIOUS
<1>7. \A d \in Unknown(documents) : OfDocument(d).mode = "HYBRID_RULE_VECTOR"
    OBVIOUS
<1>8. run \in Run
    <2>1. run.results \in SUBSET Result
        <3> HIDE DEF OfPolicy, OfDocument
        <3> QED BY <1>1, <1>4, <1>5
    <2>2. v \in Nat
        BY DEF TypeOK
    <2>3. run = [passport |-> v, results |-> run.results]
        BY <1>1
    <2> QED BY <2>1, <2>2, <2>3 DEF Run
<1>9. ASSUME NEW r \in run.results, NEW s \in run.results, r.id = s.id
      PROVE  r = s
    <2> HIDE DEF OfPolicy, OfDocument
    <2>1. CASE r.id \in Policies
        <3>1. PICK p \in Active : r = OfPolicy(p)
            BY <1>1, <1>5, <2>1
        <3>2. PICK q \in Active : s = OfPolicy(q)
            BY <1>1, <1>5, <1>9, <2>1
        <3>3. p = q
            BY <1>2, <1>4, <1>9, <3>1, <3>2 DEF SharedList, GoodList
        <3> QED BY <3>1, <3>2, <3>3
    <2>2. CASE r.id \notin Policies
        <3>1. PICK d \in Unknown(documents) : r = OfDocument(d)
            BY <1>1, <1>4, <2>2
        <3>2. PICK e \in Unknown(documents) : s = OfDocument(e)
            BY <1>1, <1>4, <1>9, <2>2
        <3> QED BY <1>5, <1>9, <3>1, <3>2
    <2> QED BY <2>1, <2>2
<1>10. ASSUME NEW r \in run.results, r.id \in Policies
       PROVE  /\ r.version \in Versions
              /\ corpus[<<r.id, r.version>>].lifecycle # "PENDING_REVIEW"
              /\ run.passport \in 1..Len(facts)
              /\ GoodVerdict(r, facts[run.passport])
    <2> HIDE DEF OfPolicy, OfDocument
    <2>1. PICK p \in Active : r = OfPolicy(p)
        BY <1>1, <1>5, <1>10
    <2>2. corpus[<<r.id, r.version>>].lifecycle # "PENDING_REVIEW"
        BY <1>2, <1>4, <1>6, <2>1 DEF SharedList, GoodList
    <2>3. r.verdict = Evaluate(facts[v], Rules[<<r.id, r.version>>])
        BY <1>4, <1>6, <2>1
    <2>4. GoodVerdict(r, facts[v])
        BY <2>3, EvaluationIsSound DEF GoodVerdict
    <2> QED BY <1>1, <1>4, <1>6, <2>1, <2>2, <2>4
<1>11. ASSUME NEW r \in run.results, r.id \in Documents
       PROVE  r.mode # "RULE_ENGINE_ONLY" /\ r.id \in Unknown(documents)
    <2> HIDE DEF OfPolicy, OfDocument
    <2>1. PICK d \in Unknown(documents) : r = OfDocument(d)
        BY <1>1, <1>4, <1>11
    <2> QED BY <1>5, <1>7, <2>1
<1> QED BY <1>8, <1>9, <1>10, <1>11 DEF GoodRun

-----------------------------------------------------------------------------
(* Init and the steps. *)

\* A request that has not begun knows nothing that could be wrong.
LEMMA FreshIsGood ==
    ASSUME NEW c, NEW corp, NEW fs
    PROVE  /\ Fresh \in Call /\ NoRun \in Run
           /\ GoodRun(NoRun, corp, fs)
           /\ GoodCall(c, Fresh, corp, fs)
<1>1. NoRun \in Run /\ GoodRun(NoRun, corp, fs)
    BY DEF NoRun, Run, GoodRun
<1>2. Fresh \in Call
    BY <1>1 DEF Fresh, Call, Step
<1>3. GoodCall(c, Fresh, corp, fs)
    BY <1>1 DEF GoodCall, Fresh, GoodList, PublicList
<1> QED BY <1>1, <1>2, <1>3

\* NewService: empty memory beside empty tables.
LEMMA MatchingInit == Init => Inv
<1> SUFFICES ASSUME Init PROVE Inv
    OBVIOUS
<1>1. NoFacts \in FieldValues
    BY DEF NoFacts, FieldValues
<1>2. TypeOK
    <2>1. corpus \in [Policies \X Versions -> Row]
        BY DEF Init, Row, Lifecycles
    <2>2. facts \in Seq(FieldValues) /\ memory \in FieldValues
        BY <1>1 DEF Init
    <2>3. stored \in Run /\ call \in [Refreshers -> Call]
        BY FreshIsGood DEF Init
    <2> QED BY <2>1, <2>2, <2>3 DEF Init, TypeOK
<1>3. OneActive
    BY DEF Init, OneActive
<1>4. FirstFacts /\ MemoryIsMatched
    BY DEF Init, FirstFacts, MemoryIsMatched
<1>5. SharedList
    BY DEF Init, SharedList, GoodList, PublicList
<1>6. AllRuns /\ AllCalls
    <2>1. GoodRun(stored, corpus, facts) /\ matches = {}
        BY FreshIsGood DEF Init
    <2>2. \A c \in Refreshers : call[c] = Fresh /\ GoodCall(c, Fresh, corpus, facts)
        BY FreshIsGood DEF Init
    <2> QED BY <2>1, <2>2 DEF AllRuns, AllCalls
<1>7. ShownDocumentsAreUsable /\ Checklists
    BY DEF Init, ShownDocumentsAreUsable, Checklists, GoodChecklists, ChecklistsWerePublished
<1> QED BY <1>2, <1>3, <1>4, <1>5, <1>6, <1>7 DEF Inv

\* What a step leaves alone stays good, however the tables move.
LEMMA SharedListStays ==
    ASSUME Inv, [Next]_vars, UNCHANGED <<policies, writer>>
    PROVE  SharedList'
<1>1. Later(corpus, corpus') /\ policies \in SUBSET Policy
    BY CorpusMoves DEF Inv, TypeOK
<1>2. GoodList(policies, corpus')
    BY <1>1, ListStays DEF Inv, SharedList
<1> QED BY <1>2 DEF Inv, SharedList

\* Any run that is good before a step is good after it.
LEMMA AllRunsStay ==
    ASSUME Inv, [Next]_vars, NEW run \in Run, GoodRun(run, corpus, facts)
    PROVE  GoodRun(run, corpus', facts')
BY CorpusMoves, FactsGrow, RunStays DEF Inv

\* So are the variables of any request that the step leaves alone,
LEMMA AllCallsStay ==
    ASSUME Inv, [Next]_vars, NEW c \in Refreshers
    PROVE  GoodCall(c, call[c], corpus', facts')
<1>1. call[c] \in Call /\ GoodCall(c, call[c], corpus, facts)
    BY DEF Inv, TypeOK, AllCalls
<1> QED BY <1>1, CorpusMoves, FactsGrow, CallStays DEF Inv

\* and with those of the one that it moves, all of them are.
LEMMA OneCallMoves ==
    ASSUME Inv, [Next]_vars, NEW c \in Refreshers, NEW state \in Call, Become(c, state),
           GoodCall(c, state, corpus', facts')
    PROVE  call' \in [Refreshers -> Call] /\ AllCalls'
<1>1. \A d \in Refreshers : call'[d] = IF d = c THEN state ELSE call[d]
    BY DEF Become, Inv, TypeOK
<1>2. call' \in [Refreshers -> Call]
    BY DEF Become, Inv, TypeOK
<1>3. \A d \in Refreshers : GoodCall(d, call'[d], corpus', facts')
    BY <1>1, AllCallsStay
<1> QED BY <1>2, <1>3 DEF AllCalls

\* A step of no request at all.
LEMMA CallsUnchanged ==
    ASSUME Inv, [Next]_vars, UNCHANGED call
    PROVE  AllCalls'
BY AllCallsStay DEF AllCalls

\* The passport in memory stays that of a match when no run is forgotten,
LEMMA MemoryStays ==
    ASSUME Inv, [Next]_vars, UNCHANGED memory, matches \subseteq matches'
    PROVE  MemoryIsMatched'
<1>1. Grows(facts, facts')
    BY FactsGrow DEF Inv
<1>2. CASE memory = NoFacts
    BY <1>2 DEF MemoryIsMatched
<1>3. ASSUME NEW run \in matches, run.passport \in 1..Len(facts), memory = facts[run.passport]
      PROVE  MemoryIsMatched'
    <2>1. run \in matches' /\ run.passport \in 1..Len(facts') /\ memory' = facts'[run.passport]
        BY <1>1, <1>3 DEF Grows
    <2> QED BY <2>1 DEF MemoryIsMatched
<1> QED BY <1>2, <1>3 DEF Inv, MemoryIsMatched

\* and so do the checklists that were made of it.
LEMMA AllChecklistsStay ==
    ASSUME Inv, [Next]_vars, UNCHANGED checklists, matches \subseteq matches'
    PROVE  Checklists'
<1>1. Grows(facts, facts') /\ Later(corpus, corpus')
    BY FactsGrow, CorpusMoves DEF Inv
<1>2. GoodChecklists(checklists, matches', facts')
    BY <1>1, ChecklistsStay DEF Inv, Checklists
<1>3. \A i \in 1..Len(checklists) : checklists[i].template = "own" =>
          /\ checklists[i].policy \in Policies /\ checklists[i].version \in Versions
          /\ corpus[<<checklists[i].policy, checklists[i].version>>].lifecycle # "PENDING_REVIEW"
    BY DEF Inv, Checklists, ChecklistsWerePublished
<1>4. \A i \in 1..Len(checklists) : checklists[i].template = "own" =>
          corpus'[<<checklists[i].policy, checklists[i].version>>].lifecycle # "PENDING_REVIEW"
    BY <1>1, <1>3 DEF Later
<1> QED BY <1>2, <1>3, <1>4 DEF Checklists, ChecklistsWerePublished

\* A step that touches no table that runs are in, nor the memory.
LEMMA ServiceStays ==
    ASSUME Inv, [Next]_vars, UNCHANGED <<stored, service>>
    PROVE  SharedList' /\ AllRuns' /\ MemoryIsMatched' /\ ShownDocumentsAreUsable' /\ Checklists'
<1> USE DEF service
<1>1. SharedList'
    BY SharedListStays
<1>2. AllRuns'
    BY AllRunsStay DEF Inv, AllRuns, TypeOK
<1>3. MemoryIsMatched'
    BY MemoryStays
<1>4. ShownDocumentsAreUsable'
    BY DEF Inv, ShownDocumentsAreUsable
<1>5. Checklists'
    BY AllChecklistsStay
<1> QED BY <1>1, <1>2, <1>3, <1>4, <1>5

\* A step of one request that changes its local variables only.
LEMMA LocalStep ==
    ASSUME Inv, [Next]_vars, NEW c \in Refreshers, NEW state \in Call, Become(c, state),
           GoodCall(c, state, corpus, facts), UNCHANGED <<database, service>>
    PROVE  Inv'
<1>1. UNCHANGED <<corpus, facts, stored, policies, writer, matches, retrieved, memory, checklists>>
    BY DEF database, service
<1>2. GoodCall(c, state, corpus', facts')
    BY <1>1
<1>3. call' \in [Refreshers -> Call] /\ AllCalls'
    BY <1>2, OneCallMoves
<1>4. TypeOK'
    BY <1>1, <1>3 DEF Inv, TypeOK
<1>5. OneActive' /\ FirstFacts'
    BY CorpusMoves, FactsGrow DEF Inv
<1>6. SharedList' /\ AllRuns' /\ MemoryIsMatched' /\ ShownDocumentsAreUsable' /\ Checklists'
    BY <1>1, ServiceStays
<1> QED BY <1>3, <1>4, <1>5, <1>6 DEF Inv

\* ReadPolicies: what was selected is good, and published unless the request
\* is an administrator's.
LEMMA ReadStep ==
    ASSUME Inv, [Next]_vars, NEW c \in Refreshers, ReadPolicies(c)
    PROVE  Inv'
<1> DEFINE list == Listed(c \in Admins)
           state == [call[c] EXCEPT !.pc = "replace", !.read = list]
<1>1. list \in SUBSET Policy /\ GoodList(list, corpus) /\ (c \notin Admins => PublicList(list))
    <2>1. CASE c \in Admins
        <3>1. list = Listed(TRUE)
            BY <2>1
        <3> HIDE DEF list
        <3> QED BY <2>1, <3>1, ReadIsGood DEF Inv
    <2>2. CASE c \notin Admins
        <3>1. list = Listed(FALSE)
            BY <2>2 DEF Listed
        <3> HIDE DEF list
        <3> QED BY <2>2, <3>1, ReadIsGood DEF Inv
    <2> QED BY <2>1, <2>2
<1>3. Become(c, state) /\ UNCHANGED <<database, service>>
    BY DEF ReadPolicies
<1>4. call[c] \in Call /\ GoodCall(c, call[c], corpus, facts)
    BY DEF Inv, TypeOK, AllCalls
<1> HIDE DEF list
<1>5. state \in Call
    BY <1>1, <1>4 DEF Call, Step
<1>6. GoodCall(c, state, corpus, facts)
    BY <1>1, <1>4 DEF GoodCall, Call
<1> HIDE DEF state
<1> QED BY <1>3, <1>5, <1>6, LocalStep

\* ListPolicies and GetPolicy: an answer from the list as it is now.
LEMMA ShowStep ==
    ASSUME Inv, [Next]_vars, NEW c \in Refreshers, NEW set \in SUBSET policies, Show(c, set)
    PROVE  Inv'
<1> DEFINE state == [Fresh EXCEPT !.pc = "done", !.shown = set, !.from = writer]
<1>1. Become(c, state) /\ UNCHANGED <<database, service>>
    BY DEF Show
<1>2. writer \in Refreshers \cup {NoOne} /\ set \in SUBSET Policy
    BY DEF Inv, TypeOK
<1>3. Fresh \in Call /\ GoodCall(c, Fresh, corpus, facts)
    BY FreshIsGood
<1>4. PublicList(set) \/ writer \in Admins
    BY DEF Inv, SharedList, PublicList
<1>5. state \in Call
    BY <1>2, <1>3 DEF Call, Step
<1>6. GoodCall(c, state, corpus, facts)
    BY <1>3, <1>4 DEF GoodCall, Call
<1> HIDE DEF state
<1> QED BY <1>1, <1>5, <1>6, LocalStep

\* ListPolicies: all of the list, or what is ACTIVE in it.
LEMMA ListStep ==
    ASSUME Inv, [Next]_vars, NEW c \in Refreshers, ListPolicies(c)
    PROVE  Inv'
<1>1. (IF c \in Admins THEN policies ELSE Active) \in SUBSET policies
    BY DEF Active
<1> QED BY <1>1, ShowStep DEF ListPolicies

\* GetPolicy: the newest version that it finds.
LEMMA GetStep ==
    ASSUME Inv, [Next]_vars, NEW c \in Refreshers, NEW id, NEW version, GetPolicy(c, id, version)
    PROVE  Inv'
<1>1. First({p \in policies : p.id = id /\ (version = 0 \/ p.version = version)}) \in SUBSET policies
    BY DEF First
<1> QED BY <1>1, ShowStep DEF GetPolicy

\* ReadPassport, SearchDocuments and Unavailable.
LEMMA PrepareStep ==
    ASSUME Inv, [Next]_vars, NEW c \in Refreshers,
           ReadPassport(c) \/ SearchDocuments(c) \/ Unavailable(c)
    PROVE  Inv'
<1>1. call[c] \in Call /\ GoodCall(c, call[c], corpus, facts)
    BY DEF Inv, TypeOK, AllCalls
<1>2. CASE ReadPassport(c)
    <2> DEFINE state == [call[c] EXCEPT !.pc = "search", !.passport = Len(facts)]
    <2>1. Len(facts) \in 1..Len(facts) /\ Len(facts) \in Nat
        BY DEF Inv, FirstFacts, TypeOK
    <2>2. state \in Call /\ GoodCall(c, state, corpus, facts)
        BY <1>1, <2>1 DEF Call, Step, GoodCall
    <2>3. Become(c, state) /\ UNCHANGED <<database, service>>
        BY <1>2 DEF ReadPassport
    <2> HIDE DEF state
    <2> QED BY <2>2, <2>3, LocalStep
<1>3. CASE SearchDocuments(c)
    <2>1. PICK found \in SUBSET Documents :
              Become(c, [call[c] EXCEPT !.pc = "match", !.documents = found])
        BY <1>3 DEF SearchDocuments, Findings
    <2> DEFINE state == [call[c] EXCEPT !.pc = "match", !.documents = found]
    <2>2. state \in Call /\ GoodCall(c, state, corpus, facts)
        BY <1>1, <1>3 DEF SearchDocuments, Call, Step, GoodCall
    <2>3. Become(c, state) /\ UNCHANGED <<database, service>>
        BY <1>3, <2>1 DEF SearchDocuments
    <2> HIDE DEF state
    <2> QED BY <2>2, <2>3, LocalStep
<1>4. CASE Unavailable(c)
    BY <1>4, FreshIsGood, LocalStep DEF Unavailable
<1> QED BY <1>2, <1>3, <1>4

\* ReplacePolicies: the shared list is the one that this request has read.
LEMMA ReplaceStep ==
    ASSUME Inv, [Next]_vars, NEW c \in Refreshers, ReplacePolicies(c)
    PROVE  Inv'
<1> DEFINE state == [Fresh EXCEPT !.pc = IF c \in Matches THEN "passport" ELSE "use"]
<1>1. UNCHANGED <<corpus, facts, stored, matches, retrieved, memory, checklists>>
    BY DEF ReplacePolicies, database
<1>2. policies' = call[c].read /\ writer' = c /\ Become(c, state)
    BY DEF ReplacePolicies
<1>3. call[c] \in Call /\ GoodCall(c, call[c], corpus, facts)
    BY DEF Inv, TypeOK, AllCalls
<1>4. state \in Call /\ GoodCall(c, state, corpus', facts')
    BY <1>1, FreshIsGood DEF Call, Step, GoodCall
<1> HIDE DEF state
<1>5. call' \in [Refreshers -> Call] /\ AllCalls'
    BY <1>2, <1>4, OneCallMoves
<1>6. TypeOK'
    BY <1>1, <1>2, <1>3, <1>5 DEF Inv, TypeOK, Call
<1>7. OneActive' /\ FirstFacts'
    BY CorpusMoves, FactsGrow DEF Inv
<1>8. SharedList'
    BY <1>1, <1>2, <1>3 DEF SharedList, GoodCall
<1>9. AllRuns' /\ MemoryIsMatched' /\ ShownDocumentsAreUsable' /\ Checklists'
    BY <1>1, MemoryStays, AllChecklistsStay DEF Inv, AllRuns, ShownDocumentsAreUsable
<1> QED BY <1>5, <1>6, <1>7, <1>8, <1>9 DEF Inv

\* MatchPassport: a run made from the list as it is, and from the version of
\* the passport that was read before.
LEMMA MatchStep ==
    ASSUME Inv, [Next]_vars, NEW c \in Refreshers, MatchPassport(c)
    PROVE  Inv'
<1> DEFINE v == call[c].passport
           documents == call[c].documents
           run == [passport |-> v, results |-> Results(facts[v], documents)]
           state == [Fresh EXCEPT !.pc = "save", !.run = run, !.shown = Matched, !.from = writer]
<1>1. /\ memory' = facts[v] /\ retrieved' = retrieved \cup Unknown(documents)
      /\ matches' = matches \cup {run} /\ Become(c, state)
      /\ UNCHANGED <<corpus, facts, stored, policies, writer, checklists>>
    BY DEF MatchPassport, PassportOf, Register, database
<1>2. /\ call[c] \in Call /\ v \in 1..Len(facts) /\ documents \in SUBSET Documents
      /\ facts[v] \in FieldValues
    <2>1. call[c] \in Call /\ GoodCall(c, call[c], corpus, facts) /\ call[c].pc = "match"
        BY DEF Inv, TypeOK, AllCalls, MatchPassport
    <2>2. v \in 1..Len(facts) /\ documents \in SUBSET Documents
        BY <2>1 DEF GoodCall, Call
    <2> QED BY <2>1, <2>2 DEF Inv, TypeOK
<1> HIDE DEF v, documents
<1>3. /\ run \in Run /\ GoodRun(run, corpus, facts)
      /\ \A r \in run.results : r.id \in Documents => r.id \in Unknown(documents)
    BY <1>2, RunIsGood DEF Inv
<1> HIDE DEF run
<1>4. Unknown(documents) \subseteq Documents
    BY <1>2 DEF Unknown
<1>5. state \in Call /\ GoodCall(c, state, corpus, facts)
    <2>1. Matched \in SUBSET Policy /\ writer \in Refreshers \cup {NoOne}
        BY DEF Matched, Active, Inv, TypeOK
    <2>2. PublicList(Matched) \/ writer \in Admins
        BY DEF Matched, Active, Inv, SharedList, PublicList
    <2>3. Fresh \in Call /\ GoodCall(c, Fresh, corpus, facts)
        BY FreshIsGood
    <2>4. state \in Call
        BY <1>3, <2>1, <2>3 DEF Call, Step
    <2>5. /\ state.read = Fresh.read /\ state.pc = "save" /\ state.run = run
          /\ state.shown = Matched /\ state.from = writer
        BY <2>3 DEF Call
    <2> QED BY <1>3, <2>2, <2>3, <2>4, <2>5 DEF GoodCall
<1> HIDE DEF state
<1>6. call' \in [Refreshers -> Call] /\ AllCalls'
    <2>1. GoodCall(c, state, corpus', facts')
        BY <1>1, <1>5
    <2> QED BY <1>1, <1>5, <2>1, OneCallMoves
<1>7. TypeOK'
    BY <1>1, <1>2, <1>3, <1>4, <1>6 DEF Inv, TypeOK
<1>8. OneActive' /\ FirstFacts' /\ SharedList'
    BY <1>1, CorpusMoves, FactsGrow, SharedListStays DEF Inv
<1>9. AllRuns'
    BY <1>1, <1>3 DEF Inv, AllRuns
<1>10. MemoryIsMatched'
    <2>1. run \in matches' /\ run.passport = v /\ memory' = facts'[v] /\ v \in 1..Len(facts')
        BY <1>1, <1>2 DEF run
    <2> QED BY <2>1 DEF MemoryIsMatched
<1>11. ShownDocumentsAreUsable'
    BY <1>1, <1>3 DEF Inv, ShownDocumentsAreUsable
<1>12. Checklists'
    BY <1>1, AllChecklistsStay
<1> QED BY <1>6, <1>7, <1>8, <1>9, <1>10, <1>11, <1>12 DEF Inv

\* SaveMatchRun: the newest row is the run of this request, or stays.
LEMMA SaveStep ==
    ASSUME Inv, [Next]_vars, NEW c \in Refreshers, SaveMatchRun(c)
    PROVE  Inv'
<1> DEFINE state == [call[c] EXCEPT !.pc = "done", !.run = NoRun]
<1>1. /\ stored' \in {stored, call[c].run} /\ Become(c, state)
      /\ UNCHANGED <<corpus, facts, policies, writer, matches, retrieved, memory, checklists>>
    BY DEF SaveMatchRun, service
<1>2. call[c] \in Call /\ GoodCall(c, call[c], corpus, facts)
    BY DEF Inv, TypeOK, AllCalls
<1>3. call[c].run \in Run /\ GoodRun(call[c].run, corpus, facts)
    BY <1>2 DEF Call, GoodCall
<1>4. state \in Call /\ GoodCall(c, state, corpus, facts)
    BY <1>2, FreshIsGood DEF Call, Step, GoodCall
<1> HIDE DEF state
<1>5. call' \in [Refreshers -> Call] /\ AllCalls'
    <2>1. GoodCall(c, state, corpus', facts')
        BY <1>1, <1>4
    <2> QED BY <1>1, <1>4, <2>1, OneCallMoves
<1>6. TypeOK'
    BY <1>1, <1>3, <1>5 DEF Inv, TypeOK
<1>7. OneActive' /\ FirstFacts' /\ SharedList'
    BY <1>1, CorpusMoves, FactsGrow, SharedListStays DEF Inv
<1>8. AllRuns'
    BY <1>1, <1>3 DEF Inv, AllRuns
<1>9. MemoryIsMatched' /\ ShownDocumentsAreUsable' /\ Checklists'
    BY <1>1, MemoryStays, AllChecklistsStay DEF Inv, ShownDocumentsAreUsable
<1> QED BY <1>5, <1>6, <1>7, <1>8, <1>9 DEF Inv

\* ReadMatchRun: the newest row, which is good as all runs are.
LEMMA ReadMatchStep ==
    ASSUME Inv, [Next]_vars, NEW c \in Refreshers, ReadMatchRun(c)
    PROVE  Inv'
<1> DEFINE state == [Fresh EXCEPT !.pc = "load", !.run = stored, !.passport = Len(facts)]
<1>1. Become(c, state) /\ UNCHANGED <<database, service>>
    BY DEF ReadMatchRun
<1>2. stored \in Run /\ GoodRun(stored, corpus, facts) /\ Len(facts) \in Nat
    BY DEF Inv, TypeOK, AllRuns
<1>3. Fresh \in Call /\ GoodCall(c, Fresh, corpus, facts)
    BY FreshIsGood
<1>4. state \in Call
    BY <1>2, <1>3 DEF Call, Step
<1>5. GoodCall(c, state, corpus, facts)
    BY <1>2, <1>3 DEF GoodCall, Call
<1> HIDE DEF state
<1> QED BY <1>1, <1>4, <1>5, LocalStep

\* LoadMatchRun: the documents of the cached run are registered with it.
LEMMA LoadStep ==
    ASSUME Inv, [Next]_vars, NEW c \in Refreshers, LoadMatchRun(c)
    PROVE  Inv'
<1> DEFINE run == call[c].run
           found == {r.id : r \in {r \in run.results : r.mode # "RULE_ENGINE_ONLY"}}
<1>1. /\ matches' = matches \cup {run} /\ retrieved' = retrieved \cup found
      /\ Become(c, Fresh)
      /\ UNCHANGED <<corpus, facts, stored, policies, writer, memory, checklists>>
    BY DEF LoadMatchRun, database
<1>2. run \in Run /\ GoodRun(run, corpus, facts)
    <2>1. call[c] \in Call /\ GoodCall(c, call[c], corpus, facts)
        BY DEF Inv, TypeOK, AllCalls
    <2> QED BY <2>1 DEF Call, GoodCall
<1> HIDE DEF run
<1>3. found \subseteq Policies \cup Documents
    BY <1>2 DEF Run, Result
<1>4. \A r \in run.results : r.id \in Documents => r.id \in found
    BY <1>2 DEF GoodRun
<1> HIDE DEF found
<1>5. call' \in [Refreshers -> Call] /\ AllCalls'
    BY <1>1, FreshIsGood, OneCallMoves
<1>6. TypeOK'
    BY <1>1, <1>2, <1>3, <1>5 DEF Inv, TypeOK
<1>7. OneActive' /\ FirstFacts' /\ SharedList'
    BY <1>1, CorpusMoves, FactsGrow, SharedListStays DEF Inv
<1>8. AllRuns'
    BY <1>1, <1>2 DEF Inv, AllRuns
<1>9. MemoryIsMatched' /\ Checklists'
    BY <1>1, MemoryStays, AllChecklistsStay
<1>10. ShownDocumentsAreUsable'
    BY <1>1, <1>4 DEF Inv, ShownDocumentsAreUsable
<1> QED BY <1>5, <1>6, <1>7, <1>8, <1>9, <1>10 DEF Inv

\* CreateChecklist with a policy's own template: an item is available by the
\* passport in memory, and the policy is one that was ACTIVE.
LEMMA OwnChecklist ==
    ASSUME Inv, NEW id, NEW p \in Usable(id), NEW new,
           new = [policy |-> id, version |-> p.version, template |-> "own", available |-> Available(p)]
    PROVE  /\ new \in Checklist
           /\ new.policy \in Policies /\ new.version \in Versions
           /\ corpus[<<new.policy, new.version>>].lifecycle # "PENDING_REVIEW"
           /\ new.available # {} =>
                  \E run \in matches :
                      /\ run.passport \in 1..Len(facts)
                      /\ \A item \in new.available : \A f \in item : facts[run.passport][f] # Missing
<1>1. p \in policies /\ p \in Policy /\ p.id = id /\ p.lifecycle = "ACTIVE"
    BY DEF Usable, FoundPolicy, First, Inv, TypeOK
<1>2. id \in Policies /\ p.version \in Versions
    BY <1>1 DEF Policy
<1>3. corpus[<<id, p.version>>].lifecycle # "PENDING_REVIEW"
    BY <1>1 DEF Inv, SharedList, GoodList
<1>4. Available(p) \subseteq SUBSET Fields
    <2>1. Items[<<p.id, p.version>>] \subseteq SUBSET Fields
        BY <1>1, <1>2
    <2> QED BY <2>1 DEF Available
<1>5. new \in Checklist
    <2> HIDE DEF Available
    <2> QED BY <1>2, <1>4 DEF Checklist
<1>6. ASSUME Available(p) # {}
      PROVE  \E run \in matches :
                 /\ run.passport \in 1..Len(facts)
                 /\ \A item \in Available(p) : \A f \in item : facts[run.passport][f] # Missing
    <2>1. PICK item \in Available(p) : item # {} /\ item \subseteq Fields
        BY <1>4, <1>6 DEF Available
    <2>2. PICK f \in item : f \in Fields /\ memory[f] # Missing
        BY <2>1 DEF Available
    <2>3. memory # NoFacts
        BY <2>2 DEF NoFacts
    <2>4. PICK run \in matches : run.passport \in 1..Len(facts) /\ memory = facts[run.passport]
        BY <2>3 DEF Inv, MemoryIsMatched
    <2> QED BY <2>4 DEF Available
<1> QED BY <1>2, <1>3, <1>5, <1>6

\* CreateChecklist, of a policy or of a document.
LEMMA ChecklistStep ==
    ASSUME Inv, [Next]_vars, NEW id \in Policies \cup Documents, CreateChecklist(id)
    PROVE  Inv'
<1>1. PICK new :
          /\ checklists' = Append(checklists, new)
          /\ \/ \E p \in Usable(id) :
                    new = [policy |-> id, version |-> p.version, template |-> "own",
                           available |-> Available(p)]
             \/ new = [policy |-> id, version |-> 0, template |-> "generic", available |-> {}]
    BY DEF CreateChecklist
<1>2. UNCHANGED <<corpus, facts, stored, policies, writer, matches, retrieved, memory, call>>
    BY DEF CreateChecklist, database
<1>3. /\ new \in Checklist
      /\ new.template = "own" =>
             /\ new.policy \in Policies /\ new.version \in Versions
             /\ corpus[<<new.policy, new.version>>].lifecycle # "PENDING_REVIEW"
      /\ new.available # {} =>
             \E run \in matches :
                 /\ run.passport \in 1..Len(facts)
                 /\ \A item \in new.available : \A f \in item : facts[run.passport][f] # Missing
    <2>1. CASE \E p \in Usable(id) :
                   new = [policy |-> id, version |-> p.version, template |-> "own",
                          available |-> Available(p)]
        BY <2>1, OwnChecklist
    <2>2. CASE new = [policy |-> id, version |-> 0, template |-> "generic", available |-> {}]
        BY <2>2 DEF Checklist
    <2> QED BY <1>1, <2>1, <2>2
<1>4. /\ checklists' \in Seq(Checklist)
      /\ \A i \in 1..Len(checklists') :
             \/ i \in 1..Len(checklists) /\ checklists'[i] = checklists[i]
             \/ checklists'[i] = new
    <2>1. checklists' = Append(checklists, new) /\ checklists \in Seq(Checklist)
        BY <1>1 DEF Inv, TypeOK
    <2> QED BY <1>3, <2>1
<1>5. TypeOK'
    BY <1>2, <1>4 DEF Inv, TypeOK
<1>6. OneActive' /\ FirstFacts' /\ SharedList' /\ AllCalls'
    BY <1>2, CorpusMoves, FactsGrow, SharedListStays, CallsUnchanged DEF Inv
<1>7. AllRuns' /\ MemoryIsMatched' /\ ShownDocumentsAreUsable'
    BY <1>2, MemoryStays DEF Inv, AllRuns, ShownDocumentsAreUsable
<1>8. Checklists'
    <2>1. GoodChecklists(checklists', matches', facts')
        BY <1>2, <1>3, <1>4 DEF Inv, Checklists, GoodChecklists
    <2>2. \A i \in 1..Len(checklists') : checklists'[i].template = "own" =>
              /\ checklists'[i].policy \in Policies /\ checklists'[i].version \in Versions
              /\ corpus'[<<checklists'[i].policy, checklists'[i].version>>].lifecycle # "PENDING_REVIEW"
        BY <1>2, <1>3, <1>4 DEF Inv, Checklists, ChecklistsWerePublished
    <2> QED BY <2>1, <2>2 DEF Checklists, ChecklistsWerePublished
<1> QED BY <1>5, <1>6, <1>7, <1>8 DEF Inv

\* The passport and the corpus change under the process.
LEMMA TablesStep ==
    ASSUME Inv, [Next]_vars,
           Corpus \/ \E values \in FieldValues : ChangePassport(values)
    PROVE  Inv'
<1>1. UNCHANGED <<stored, policies, writer, matches, retrieved, memory, checklists, call>>
    BY DEF Corpus, PublishVersion, RetireVersion, ChangePassport, service
<1>2. corpus' \in [Policies \X Versions -> Row]
    <2>1. CASE corpus' = corpus
        BY <2>1 DEF Inv, TypeOK
    <2>2. ASSUME NEW k \in Policies \X Versions, RetireVersion(k)
          PROVE  corpus' \in [Policies \X Versions -> Row]
        <3>1. corpus \in [Policies \X Versions -> Row] /\ corpus[k] \in Row
            BY DEF Inv, TypeOK
        <3>2. [corpus[k] EXCEPT !.lifecycle = "SUPERSEDED"] \in Row
            BY <3>1 DEF Row, Lifecycles
        <3>3. corpus' = [corpus EXCEPT ![k] = [corpus[k] EXCEPT !.lifecycle = "SUPERSEDED"]]
            BY <2>2 DEF RetireVersion
        <3> HIDE DEF Row
        <3> QED BY <3>1, <3>2, <3>3
    <2>3. ASSUME NEW k \in Policies \X Versions, NEW reviewed \in BOOLEAN, PublishVersion(k, reviewed)
          PROVE  corpus' \in [Policies \X Versions -> Row]
        <3> DEFINE row(m) == IF m = k THEN [lifecycle |-> "ACTIVE", reviewed |-> reviewed]
                             ELSE IF m[1] = k[1] /\ corpus[m].lifecycle = "ACTIVE"
                                  THEN [corpus[m] EXCEPT !.lifecycle = "SUPERSEDED"]
                             ELSE corpus[m]
        <3>1. corpus' = [m \in Policies \X Versions |-> row(m)]
            BY <2>3 DEF PublishVersion
        <3>2. \A m \in Policies \X Versions : row(m) \in Row
            BY DEF Inv, TypeOK, Row, Lifecycles
        <3> HIDE DEF row
        <3> QED BY <3>1, <3>2
    <2> QED BY <2>1, <2>2, <2>3 DEF Corpus, ChangePassport
<1>3. facts' \in Seq(FieldValues)
    <2>1. facts \in Seq(FieldValues)
        BY DEF Inv, TypeOK
    <2>2. CASE Corpus
        BY <2>1, <2>2 DEF Corpus, PublishVersion, RetireVersion
    <2>3. ASSUME NEW values \in FieldValues, ChangePassport(values)
          PROVE  facts' \in Seq(FieldValues)
        <3> HIDE DEF FieldValues
        <3> QED BY <2>1, <2>3 DEF ChangePassport
    <2> QED BY <2>2, <2>3
<1>4. TypeOK'
    BY <1>1, <1>2, <1>3 DEF Inv, TypeOK
<1>5. OneActive' /\ FirstFacts' /\ AllCalls'
    BY <1>1, CorpusMoves, FactsGrow, CallsUnchanged DEF Inv
<1>6. SharedList' /\ AllRuns' /\ MemoryIsMatched' /\ ShownDocumentsAreUsable' /\ Checklists'
    BY <1>1, ServiceStays DEF service
<1> QED BY <1>4, <1>5, <1>6 DEF Inv

\* A restart empties the memory and loads the published list.
LEMMA RestartStep ==
    ASSUME Inv, [Next]_vars, Restart
    PROVE  Inv'
<1>1. /\ policies' = Listed(FALSE) /\ writer' = NoOne /\ matches' = {} /\ retrieved' = {}
      /\ memory' = NoFacts /\ checklists' = <<>>
      /\ UNCHANGED <<corpus, facts, stored>>
    BY DEF Restart, database
<1>2. \A c \in Refreshers : call[c] \in Call /\ call'[c] \in {call[c], Fresh}
    BY DEF Restart, Inv, TypeOK
<1>3. call' \in [Refreshers -> Call]
    <2>1. \A c \in Refreshers : call'[c] \in Call
        BY <1>2, FreshIsGood
    <2>2. call' = [c \in Refreshers |-> IF call[c].pc = "done" THEN call[c] ELSE Fresh]
        BY DEF Restart
    <2> QED BY <2>1, <2>2
<1>4. AllCalls'
    <2>1. \A c \in Refreshers : GoodCall(c, Fresh, corpus', facts')
        BY FreshIsGood
    <2>2. \A c \in Refreshers : GoodCall(c, call[c], corpus', facts')
        BY AllCallsStay
    <2>3. \A c \in Refreshers : GoodCall(c, call'[c], corpus', facts')
        BY <1>2, <2>1, <2>2
    <2> QED BY <2>3 DEF AllCalls
<1>5. NoFacts \in FieldValues
    BY DEF NoFacts, FieldValues
<1>6. policies' \in SUBSET Policy /\ GoodList(policies', corpus) /\ PublicList(policies')
    BY <1>1, ReadIsGood DEF Inv
<1>7. TypeOK'
    <2>1. checklists' \in Seq(Checklist) /\ matches' \subseteq Run /\ memory' \in FieldValues
        BY <1>1, <1>5
    <2> QED BY <1>1, <1>3, <1>6, <2>1 DEF Inv, TypeOK
<1>8. OneActive' /\ FirstFacts'
    BY CorpusMoves, FactsGrow DEF Inv
<1>9. SharedList' /\ MemoryIsMatched'
    BY <1>1, <1>6 DEF SharedList, MemoryIsMatched
<1>10. AllRuns' /\ ShownDocumentsAreUsable' /\ Checklists'
    BY <1>1 DEF Inv, AllRuns, ShownDocumentsAreUsable, Checklists, GoodChecklists, ChecklistsWerePublished
<1> QED BY <1>4, <1>7, <1>8, <1>9, <1>10 DEF Inv

\* Every step keeps the invariant.
LEMMA MatchingNext == Inv /\ [Next]_vars => Inv'
<1> SUFFICES ASSUME Inv, [Next]_vars PROVE Inv'
    OBVIOUS
<1>1. ASSUME NEW c \in Refreshers, Request(c)
      PROVE  Inv'
    BY <1>1, ReadStep, ReplaceStep, ListStep, GetStep, PrepareStep, MatchStep, SaveStep,
       ReadMatchStep, LoadStep DEF Request
<1>2. ASSUME NEW id \in Policies \cup Documents, CreateChecklist(id)
      PROVE  Inv'
    BY <1>2, ChecklistStep
<1>3. CASE Restart
    BY <1>3, RestartStep
<1>4. CASE Corpus \/ \E values \in FieldValues : ChangePassport(values)
    BY <1>4, TablesStep
<1>5. CASE UNCHANGED vars
    <2>1. UNCHANGED <<corpus, facts, stored, policies, writer, matches, retrieved, memory,
                      checklists, call>>
        BY <1>5 DEF vars
    <2>2. TypeOK' /\ AllCalls'
        BY <2>1, CallsUnchanged DEF Inv, TypeOK
    <2>3. OneActive' /\ FirstFacts'
        BY CorpusMoves, FactsGrow DEF Inv
    <2>4. SharedList' /\ AllRuns' /\ MemoryIsMatched' /\ ShownDocumentsAreUsable' /\ Checklists'
        BY <2>1, ServiceStays DEF service
    <2> QED BY <2>2, <2>3, <2>4 DEF Inv
<1> QED BY <1>1, <1>2, <1>3, <1>4, <1>5 DEF Next

\* The invariant holds in every state of every behaviour.
LEMMA Invariance == Spec => []Inv
<1> QED BY MatchingInit, MatchingNext, PTL DEF Spec

-----------------------------------------------------------------------------
(* The theorems. *)

\* Tables, memory, runs, checklists and local variables have the shapes of
\* the schema and of the Go types, for the handlers and the service together.
THEOREM MatchingTypeCorrect == Spec => []TypeOK
<1>1. Inv => TypeOK
    BY DEF Inv
<1> QED BY <1>1, Invariance, PTL

\* What a match or a public read shows is published and reviewed, unless an
\* administrator's list had taken the place of its own (ReplacePolicies).
THEOREM UnreviewedNeedsAnAdministrator == Spec => []UnreviewedOnlyByAdministration
<1>1. Inv => UnreviewedOnlyByAdministration
    BY DEF Inv, AllCalls, GoodCall, PublicList, UnreviewedOnlyByAdministration, Refreshers
<1> QED BY <1>1, Invariance, PTL

\* MatchPassportHybrid makes one result for each policy and document, on
\* whatever list it works, and the cached row keeps it so.
THEOREM ResultsAreUnique == Spec => []OneResultPerPolicy
<1>1. Inv => OneResultPerPolicy
    BY DEF Inv, AllRuns, GoodRun, OneResultPerPolicy
<1> QED BY <1>1, Invariance, PTL

\* A policy in a run, computed or cached, was published when it was matched.
THEOREM OnlyPublishedIsMatched == Spec => []MatchedWasPublished
<1>1. Inv => MatchedWasPublished
    BY DEF Inv, AllRuns, GoodRun, MatchedWasPublished
<1> QED BY <1>1, Invariance, PTL

\* A document in a run that is in memory is registered, whether the run was
\* computed by this process or loaded from the table (LoadMatchRun).
THEOREM DocumentsStayUsable == Spec => []ShownDocumentsAreUsable
<1>1. Inv => ShownDocumentsAreUsable
    BY DEF Inv
<1> QED BY <1>1, Invariance, PTL

\* A verdict rests on the facts of the version that its run names, and a
\* missing fact decides nothing (Evaluate, createMatch).
THEOREM VerdictsAreGrounded == Spec => []VerdictsRestOnTheirVersion
<1>1. Inv => VerdictsRestOnTheirVersion
    BY DEF Inv, AllRuns, GoodRun, GoodVerdict, VerdictsRestOnTheirVersion
<1> QED BY <1>1, Invariance, PTL

\* What CreateChecklist takes for available was confirmed in the version of the
\* passport that one match of this process worked on.
THEOREM AvailableRestsOnAMatch == Spec => []AvailableWasMatched
<1>1. Inv => AvailableWasMatched
    BY DEF Inv, Checklists, GoodChecklists, AvailableWasMatched
<1> QED BY <1>1, Invariance, PTL

\* A checklist with a policy's own template is of a version that was published
\* (CreateChecklist, on whatever list other requests have left).
THEOREM ChecklistsAreOfPublished == Spec => []ChecklistsWerePublished
<1>1. Inv => ChecklistsWerePublished
    BY DEF Inv, Checklists
<1> QED BY <1>1, Invariance, PTL

=============================================================================
