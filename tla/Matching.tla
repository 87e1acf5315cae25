------------------------------ MODULE Matching ------------------------------
(***************************************************************************)
(* Matching one workspace's passport against the policies and the legal    *)
(* documents, and making checklists from the results: the handlers of      *)
(* src/api/internal/httpapi/server.go, the memory of one API process in    *)
(* src/api/internal/platform/service.go, the reads of                      *)
(* src/api/internal/policy/store.go.                                       *)
(*                                                                         *)
(* All requests of the process share one list of policies.  A request that *)
(* needs it reads policy_versions, replaces the list and then works on the *)
(* list, whatever it has become meanwhile: an administrator's request puts *)
(* every version into it.                                                  *)
(***************************************************************************)
EXTENDS Naturals, Sequences, FiniteSets

CONSTANTS
    Policies,   \* values of policy_key
    Documents,  \* ids of legal_documents
    Versions,   \* version numbers of a policy
    Fields, Values,
    Rules,      \* the structured rules of a version of a policy
    Items,      \* the items of its own checklist: the fields each of them asks for
    Source,     \* the source URL of a policy or a document, NoURL without one
    NoURL,
    Matches, Readers, Admins, \* calls of createMatch, of listPolicies,
                \* getPolicy and getLatestMatch, and of adminPolicies
    MaxFacts, MaxChecklists, \* bounds of the model
    Missing, NoOne

Refreshers == Matches \cup Readers \cup Admins

\* A rule compares one field; reads are the values its operator can parse,
\* accepts the ones that satisfy it.
Operators == {"EQ", "IN", "CONTAINS", "GT", "GTE", "LT", "LTE", "EXISTS", "DATE_BEFORE", "DATE_AFTER"}
Rule == [field : Fields, operator : Operators, reads : SUBSET Values,
         accepts : SUBSET Values, required : BOOLEAN]

ASSUME MatchingAssumption ==
    /\ Policies \cap Documents = {}
    /\ Versions \subseteq Nat
    /\ Rules \in [Policies \X Versions -> SUBSET Rule]
    /\ Items \in [Policies \X Versions -> SUBSET SUBSET Fields]
    /\ DOMAIN Source = Policies \cup Documents
    /\ Matches \cap Readers = {} /\ Matches \cap Admins = {} /\ Readers \cap Admins = {}
    /\ NoOne \notin Refreshers
    /\ Missing \notin Values
    /\ MaxFacts \in Nat \ {0} /\ MaxChecklists \in Nat

VARIABLES
    corpus,     \* policy_versions: lifecycle and review of each version
    facts,      \* the passport's versions: confirmed values; the last is current
    stored,     \* the newest row of match_runs, NoRun without one
    policies,   \* the list in memory
    writer,     \* the request that replaced it last
    matches,    \* match runs in memory
    retrieved,  \* RetrievedPolicies: documents that checklists can be made from
    memory,     \* the passport in memory, which the last match put there
    checklists, \* checklists in memory
    call        \* call[c]: the local variables and the answer of request c

database == <<corpus, facts, stored>>
service == <<policies, writer, matches, retrieved, memory, checklists>>
vars == <<corpus, facts, stored, policies, writer, matches, retrieved, memory,
          checklists, call>>

\* DRAFT counts as PENDING_REVIEW, RETIRED as SUPERSEDED; the second mode
\* stands for RULE_FTS_FALLBACK too.
Lifecycles == {"PENDING_REVIEW", "ACTIVE", "SUPERSEDED"}
Modes == {"RULE_ENGINE_ONLY", "HYBRID_RULE_VECTOR"}
Verdicts == {"MET", "NOT_MET", "MISSING_INFO"}
Row == [lifecycle : Lifecycles, reviewed : BOOLEAN]
Policy == [id : Policies, version : Versions, lifecycle : Lifecycles, reviewed : BOOLEAN]
FieldValues == [Fields -> Values \cup {Missing}]
\* The version of a document is left out, 0.
Result == [id : Policies \cup Documents, version : Versions \cup {0}, mode : Modes,
           verdict : Verdicts]
NoRun == [passport |-> 0, results |-> {}]
Run == [passport : Nat, results : SUBSET Result]
Checklist == [policy : Policies \cup Documents, version : Versions \cup {0},
              template : {"own", "generic"}, available : SUBSET SUBSET Fields]
Step == {"new", "replace", "passport", "search", "match", "save", "use", "load", "done"}
Call == [pc : Step, read : SUBSET Policy, passport : Nat, documents : SUBSET Documents,
         run : Run, shown : SUBSET Policy, from : Refreshers \cup {NoOne}]

NoFacts == [f \in Fields |-> Missing]
Fresh == [pc |-> "new", read |-> {}, passport |-> 0, documents |-> {},
          run |-> NoRun, shown |-> {}, from |-> NoOne]

\* Tables, memory and local variables have the shapes of the schema and of
\* the Go types.
TypeOK ==
    /\ corpus \in [Policies \X Versions -> Row]
    /\ facts \in Seq(FieldValues)
    /\ stored \in Run
    /\ policies \subseteq Policy
    /\ writer \in Refreshers \cup {NoOne}
    /\ matches \subseteq Run
    /\ retrieved \subseteq Policies \cup Documents
    /\ memory \in FieldValues
    /\ checklists \in Seq(Checklist)
    /\ call \in [Refreshers -> Call]

\* Nothing is published when the process starts first, so its list is empty.
Init ==
    /\ corpus = [k \in Policies \X Versions |-> [lifecycle |-> "PENDING_REVIEW", reviewed |-> FALSE]]
    /\ facts = <<NoFacts>>
    /\ stored = NoRun
    /\ policies = {} /\ writer = NoOne
    /\ matches = {} /\ retrieved = {}
    /\ memory = NoFacts
    /\ checklists = <<>>
    /\ call = [c \in Refreshers |-> Fresh]

Become(c, state) == call' = [call EXCEPT ![c] = state]

-----------------------------------------------------------------------------
(* The rule engine (eligibility/evaluate.go). *)

\* rules come out of policy_versions.rules, where the list that IN expects is
\* no []string any more but an []any, which compare refuses.
Decides(rule, value) == rule.operator # "IN" /\ value \in rule.reads

EvaluateRule(pass, rule) ==
    IF pass[rule.field] = Missing \/ ~Decides(rule, pass[rule.field]) THEN "MISSING_INFO"
    ELSE IF pass[rule.field] \in rule.accepts THEN "MET" ELSE "NOT_MET"

\* Of the required rules, one that is not met outweighs any that cannot be
\* decided.
Evaluate(pass, rules) ==
    LET criteria == {EvaluateRule(pass, rule) : rule \in {rule \in rules : rule.required}}
    IN  IF "NOT_MET" \in criteria THEN "NOT_MET"
        ELSE IF "MISSING_INFO" \in criteria THEN "MISSING_INFO" ELSE "MET"

-----------------------------------------------------------------------------
(* The list of policies. *)

\* Mutant: the review timestamp is not asked for.
PublishedUnreviewed(row) == row.lifecycle = "ACTIVE"

\* The WHERE clause of Policies for the public.
Published(row) == row.lifecycle = "ACTIVE" /\ row.reviewed

\* SELECT ... FROM policy_versions.
Listed(all) ==
    {[id |-> k[1], version |-> k[2], lifecycle |-> corpus[k].lifecycle,
      reviewed |-> corpus[k].reviewed] :
        k \in {k \in Policies \X Versions : all \/ Published(corpus[k])}}

ReadPolicies(c) ==
    /\ call[c].pc = "new"
    /\ Become(c, [call[c] EXCEPT !.pc = "replace", !.read = Listed(c \in Admins)])
    /\ UNCHANGED <<database, service>>

ReplacePolicies(c) ==
    /\ call[c].pc = "replace"
    /\ policies' = call[c].read
    /\ writer' = c
    /\ Become(c, [Fresh EXCEPT !.pc = IF c \in Matches THEN "passport" ELSE "use"])
    /\ UNCHANGED <<database, matches, retrieved, memory, checklists>>

\* The newest review first, unreviewed versions last; versions are reviewed
\* and created in their order.
Before(p, q) ==
    \/ p.reviewed /\ ~q.reviewed
    \/ p.reviewed = q.reviewed /\ p.version >= q.version
First(set) == {p \in set : \A q \in set : Before(p, q)}

Show(c, set) ==
    /\ Become(c, [Fresh EXCEPT !.pc = "done", !.shown = set, !.from = writer])
    /\ UNCHANGED <<database, service>>

\* Policies(activeOnly): the public list leaves out what is not ACTIVE.
Active == {p \in policies : p.lifecycle = "ACTIVE"}

ListPolicies(c) ==
    /\ call[c].pc = "use" /\ c \in Readers \cup Admins
    /\ Show(c, IF c \in Admins THEN policies ELSE Active)

\* Policy(id, version), 0 for any version; no version is left out.
GetPolicy(c, id, version) ==
    /\ call[c].pc = "use" /\ c \in Readers
    /\ Show(c, First({p \in policies : p.id = id /\ (version = 0 \/ p.version = version)}))

-----------------------------------------------------------------------------
(* createMatch, getLatestMatch and createChecklist. *)

ReadPassport(c) ==
    /\ call[c].pc = "passport"
    /\ Become(c, [call[c] EXCEPT !.pc = "search", !.passport = Len(facts)])
    /\ UNCHANGED <<database, service>>

\* What is in effect and how well it fits is not modelled, but each document
\* is found once at most.
Findings == SUBSET Documents

\* The hybrid search or, when the query cannot be embedded, one by full text.
SearchDocuments(c) ==
    /\ call[c].pc = "search"
    /\ \E found \in Findings :
           Become(c, [call[c] EXCEPT !.pc = "match", !.documents = found])
    /\ UNCHANGED <<database, service>>

\* A document that a policy was made from is not shown beside it.
Unknown(documents) ==
    {d \in documents : Source[d] = NoURL \/ \A p \in Active : Source[p.id] # Source[d]}

\* Mutant: every version in the list is evaluated.
MatchedAll == policies
Matched == Active

Results(pass, documents) ==
    {[id |-> p.id, version |-> p.version,
      mode |-> IF documents = {} THEN "RULE_ENGINE_ONLY" ELSE "HYBRID_RULE_VECTOR",
      verdict |-> Evaluate(pass, Rules[<<p.id, p.version>>])] : p \in Matched}
    \cup
    {[id |-> d, version |-> 0, mode |-> "HYBRID_RULE_VECTOR", verdict |-> "MISSING_INFO"] :
        d \in Unknown(documents)}

\* Mutant: documents are registered under their URL.
RegisterByURL(documents) == retrieved \cup {Source[d] : d \in documents}
Register(documents) == retrieved \cup documents

\* Mutant: the passport is read again.
PassportNow(c) == facts[Len(facts)]
PassportOf(c) == facts[call[c].passport]

\* MatchPassportHybrid, in one hold of the mutex.
MatchPassport(c) ==
    LET pass == PassportOf(c)
        run == [passport |-> call[c].passport,
                results |-> Results(pass, call[c].documents)]
    IN  /\ call[c].pc = "match"
        /\ memory' = pass
        /\ retrieved' = Register(Unknown(call[c].documents))
        /\ matches' = matches \cup {run}
        /\ Become(c, [Fresh EXCEPT !.pc = "save", !.run = run, !.shown = Matched, !.from = writer])
        /\ UNCHANGED <<database, policies, writer, checklists>>

\* SaveMatchRun; its error is logged and the answer is the same.
SaveMatchRun(c) ==
    /\ call[c].pc = "save"
    /\ stored' \in {stored, call[c].run}
    /\ Become(c, [call[c] EXCEPT !.pc = "done", !.run = NoRun])
    /\ UNCHANGED <<corpus, facts, service>>

\* getLatestMatch reads the newest run.  passport only notes the version that
\* is current then.
ReadMatchRun(c) ==
    /\ call[c].pc = "new" /\ c \in Readers
    /\ stored # NoRun
    /\ Become(c, [Fresh EXCEPT !.pc = "load", !.run = stored, !.passport = Len(facts)])
    /\ UNCHANGED <<database, service>>

\* Mutant: the results are shown but not registered.
LoadMatchRunOnly(c) ==
    /\ call[c].pc = "load"
    /\ matches' = matches \cup {call[c].run}
    /\ Become(c, Fresh)
    /\ UNCHANGED <<database, policies, writer, retrieved, memory, checklists>>

\* Every result of a run that found documents is registered as a retrieved
\* document, its policies included.  The client may ask again.
LoadMatchRun(c) ==
    LET run == call[c].run
    IN  /\ call[c].pc = "load"
        /\ matches' = matches \cup {run}
        /\ retrieved' = retrieved \cup {r.id : r \in {r \in run.results : r.mode # "RULE_ENGINE_ONLY"}}
        /\ Become(c, Fresh)
        /\ UNCHANGED <<database, policies, writer, memory, checklists>>

\* findPolicy takes the first version in the list, whatever its lifecycle.
FoundPolicy(id) == First({p \in policies : p.id = id})

\* Mutant: the lifecycle is not asked for.
UsableUnchecked(id) == FoundPolicy(id)
Usable(id) == {p \in FoundPolicy(id) : p.lifecycle = "ACTIVE"}

\* An item is AVAILABLE when all of its fields are confirmed in memory.
Available(p) ==
    {item \in Items[<<p.id, p.version>>] : item # {} /\ \A f \in item : memory[f] # Missing}

\* The list is not refreshed.  A document is looked for among the retrieved
\* ones; of the template that all documents have, only the titles count.
CreateChecklist(id) ==
    /\ Len(checklists) < MaxChecklists
    /\ \/ \E p \in Usable(id) :
              checklists' = Append(checklists,
                  [policy |-> id, version |-> p.version, template |-> "own",
                   available |-> Available(p)])
       \/ /\ FoundPolicy(id) = {} /\ id \in retrieved
          /\ checklists' = Append(checklists,
                 [policy |-> id, version |-> 0, template |-> "generic", available |-> {}])
    /\ UNCHANGED <<database, policies, writer, matches, retrieved, memory, call>>

\* An unreachable table fails the request, which may come again.
Unavailable(c) ==
    /\ call[c].pc \in {"passport", "search"}
    /\ Become(c, Fresh)
    /\ UNCHANGED <<database, service>>

-----------------------------------------------------------------------------
(* The rest of the system. *)

\* A build or a confirmation: another version of the passport.
ChangePassport(values) ==
    /\ Len(facts) < MaxFacts
    /\ facts' = Append(facts, values)
    /\ UNCHANGED <<corpus, stored, service, call>>

\* Publishing and retiring a version: external.  The schema lets a version be
\* ACTIVE without a review; of one policy only one version is.
PublishVersion(k, reviewed) ==
    /\ corpus[k].lifecycle = "PENDING_REVIEW"
    /\ corpus' = [m \in Policies \X Versions |->
           IF m = k THEN [lifecycle |-> "ACTIVE", reviewed |-> reviewed]
           ELSE IF m[1] = k[1] /\ corpus[m].lifecycle = "ACTIVE"
                THEN [corpus[m] EXCEPT !.lifecycle = "SUPERSEDED"]
           ELSE corpus[m]]
    /\ UNCHANGED <<facts, stored, service, call>>

RetireVersion(k) ==
    /\ corpus[k].lifecycle = "ACTIVE"
    /\ corpus' = [corpus EXCEPT ![k].lifecycle = "SUPERSEDED"]
    /\ UNCHANGED <<facts, stored, service, call>>

\* The process starts again with an empty memory; its requests are lost.  It
\* reads the published policies before it listens, or ends.
Restart ==
    /\ policies' = Listed(FALSE) /\ writer' = NoOne
    /\ matches' = {} /\ retrieved' = {}
    /\ memory' = NoFacts
    /\ checklists' = <<>>
    /\ call' = [c \in Refreshers |->
           IF call[c].pc = "done" THEN call[c] ELSE Fresh]
    /\ UNCHANGED database

Request(c) ==
    \/ ReadPolicies(c) \/ ReplacePolicies(c)
    \/ ListPolicies(c)
    \/ \E id \in Policies, version \in Versions \cup {0} : GetPolicy(c, id, version)
    \/ ReadPassport(c) \/ SearchDocuments(c) \/ MatchPassport(c) \/ SaveMatchRun(c)
    \/ Unavailable(c)
    \/ ReadMatchRun(c) \/ LoadMatchRun(c)

Corpus ==
    \/ \E k \in Policies \X Versions : RetireVersion(k)
    \/ \E k \in Policies \X Versions, reviewed \in BOOLEAN : PublishVersion(k, reviewed)

Next ==
    \/ \E c \in Refreshers : Request(c)
    \/ \E id \in Policies \cup Documents : CreateChecklist(id)
    \/ \E values \in FieldValues : ChangePassport(values)
    \/ Corpus
    \/ Restart

Spec == Init /\ [][Next]_vars

-----------------------------------------------------------------------------
(* Properties. *)

\* Public answers should hold published and reviewed versions only, and do not
\* (MatchingReceivesReviewed below; getPolicy does not even ask for ACTIVE).  The
\* one way for another version to get there is an administrator's request that
\* put its list under the answer; with no such request in between, never.
UnreviewedOnlyByAdministration ==
    \A c \in Matches \cup Readers :
        (\E p \in call[c].shown : ~(p.lifecycle = "ACTIVE" /\ p.reviewed)) => call[c].from \in Admins

\* Whatever list a match works on, its run has one result for each policy and
\* document.
OneResultPerPolicy ==
    \A run \in matches \cup {stored} : \A r, s \in run.results : r.id = s.id => r = s

\* A match never makes a result of a version that was not published, not even
\* under an administrator's list or from the cache.
MatchedWasPublished ==
    \A run \in matches \cup {stored} : \A r \in run.results :
        r.id \in Policies => corpus[<<r.id, r.version>>].lifecycle # "PENDING_REVIEW"

\* A document in a run that a client can be shown, computed or loaded from the
\* cache, before or after a restart, can be made a checklist of.
ShownDocumentsAreUsable ==
    \A run \in matches : \A r \in run.results : r.id \in Documents => r.id \in retrieved

\* What a run says of a policy rests on the passport version that the run
\* names, however many versions there are by the time it is computed: a
\* missing fact never counts against the company, nor for it.
VerdictsRestOnTheirVersion ==
    \A run \in matches \cup {stored} : \A r \in run.results : r.id \in Policies =>
        LET fact(rule) == facts[run.passport][rule.field]
        IN  /\ r.verdict = "NOT_MET" =>
                   \E rule \in Rules[<<r.id, r.version>>] : rule.required /\ fact(rule) \notin rule.accepts \cup {Missing}
            /\ r.verdict = "MET" =>
                   \A rule \in Rules[<<r.id, r.version>>] : rule.required => fact(rule) \in rule.accepts

\* An item of a checklist is called available only when all of its fields are
\* confirmed in the version of the passport that a match in memory worked on:
\* not by what is confirmed while the match runs, nor by fields of two versions.
AvailableWasMatched ==
    \A i \in 1..Len(checklists) : checklists[i].available # {} =>
        \E run \in matches : \A item \in checklists[i].available :
            \A f \in item : facts[run.passport][f] # Missing

\* A checklist with a policy's own template is of a version that was published,
\* though its request works on the list that some other one has left, an
\* administrator's included.
ChecklistsWerePublished ==
    \A i \in 1..Len(checklists) : checklists[i].template = "own" =>
        corpus[<<checklists[i].policy, checklists[i].version>>].lifecycle # "PENDING_REVIEW"

\* Violated: policy/store.go, "Public matching only receives ACTIVE versions
\* which have an explicit review timestamp".
MatchingReceivesReviewed ==
    \A c \in Matches : \A p \in call[c].shown : p.lifecycle = "ACTIVE" /\ p.reviewed

\* Violated: README.md, the match cache "automatically invalidates and refreshes
\* whenever the Company Passport is updated".
LatestMatchIsCurrent ==
    \A c \in Readers : call[c].pc = "load" => call[c].run.passport = call[c].passport

=============================================================================
