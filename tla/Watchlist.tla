----------------------------- MODULE Watchlist ------------------------------
(***************************************************************************)
(* The crawler's passes (src/api/internal/crawler/crawler.go), which the   *)
(* API process and cmd/crawler both run, with the alerts and the watchlist *)
(* settings they read and write (pipeline/store.go) and the workspaces     *)
(* these belong to.  Every statement of a pass is a step: the companies    *)
(* and the clock are read at its beginning, the rows of a category when    *)
(* its turn comes, and an alert is looked for before it is inserted.       *)
(*                                                                         *)
(* Categories are named by the type of their alerts.  Policies all have    *)
(* the support type that a company needs once its passport has been built. *)
(***************************************************************************)
EXTENDS Workspaces, Naturals, Sequences, FiniteSets

CONSTANTS
    Watched,      \* bound: the workspaces that may have a company
    Crawlers,     \* processes that run passes
    Policies,     \* values of policy_key
    Facts,        \* confirmed passport fields on a legal document out of force
    Choices,      \* the sets of categories that users switch on
    Replaced,     \* bound: the settings that a user goes on to replace
    Versions,     \* what may be published: versions of a policy
    Days, Week,   \* bound: days of the calendar; the window of upcoming deadlines
    MaxVersions,  \* bound: versions of a policy
    MaxFaults,    \* bound: failing statements and dying processes
    MaxStale      \* bound: alerts about one fact are counted up to here

Turns == <<"POLICY_NEW", "DEADLINE", "EVIDENCE_STALE", "POLICY_CHANGED">>
Types == {Turns[n] : n \in 1..4}
Subjects == Policies \cup Facts
Version == [deadline : 0..Days, verified : BOOLEAN]

ASSUME WatchlistAssumption ==
    /\ Watched \subseteq Ids
    /\ IsFiniteSet(Crawlers)
    /\ Policies \cap Facts = {} /\ NoOne \notin Subjects
    /\ Choices \cup Replaced \subseteq SUBSET Types
    /\ Versions \subseteq Version
    /\ Days \in Nat /\ Week \in Nat /\ MaxVersions \in Nat
    /\ MaxFaults \in Nat /\ MaxStale \in Nat

VARIABLES
    company,  \* company[w]: the row of companies
    policy,   \* policy[k]: its versions, of which the last is ACTIVE
    today,
    alerts,   \* alerts[a]: how many rows, a = <<workspace, type, subject>>
    pass,     \* pass[c]: the local variables of RunCrawler
    faults

world == <<policy, today>>
vars == <<tenancy, world, company, alerts, pass, faults>>

Company == [exists : BOOLEAN, settings : SUBSET Types, built : BOOLEAN]
NoCompany == [exists |-> FALSE, settings |-> {}, built |-> FALSE]
About(t) == IF t = "EVIDENCE_STALE" THEN Facts ELSE Policies
Keys == {a \in Watched \X Types \X Subjects : a[3] \in About(a[2])}

\* left: companies the pass has not done with; turn: the category at hand;
\* rows: what its query still has to give; saving: the row without an alert.
Pass == [now : 0..Days, left : [Watched -> Company], at : Watched \cup {NoOne},
         turn : 0..4, rows : SUBSET Subjects, saving : Subjects \cup {NoOne}]
Idle == [now |-> 0, left |-> [w \in Watched |-> NoCompany], at |-> NoOne,
         turn |-> 0, rows |-> {}, saving |-> NoOne]

\* Rows of the tables and local variables have the shapes of the schema and
\* of RunCrawler.
TypeOK ==
    /\ WorkspacesTypeOK
    /\ company \in [Watched -> Company]
    /\ policy \in [Policies -> Seq(Version)]
    /\ today \in 0..Days
    /\ alerts \in [Keys -> Nat]
    /\ pass \in [Crawlers -> Pass]
    /\ faults \in Nat

Init ==
    /\ WorkspacesInit
    /\ company = [w \in Watched |-> NoCompany]
    /\ policy = [k \in Policies |-> <<>>]
    /\ today = 0
    /\ alerts = [a \in Keys |-> 0]
    /\ pass = [c \in Crawlers |-> Idle]
    /\ faults = 0

-----------------------------------------------------------------------------
(* Requests. *)

\* companies and alerts refer to workspaces with ON DELETE CASCADE.
Tenancy ==
    /\ WorkspacesNext
    /\ company' = [w \in Watched |-> IF owner'[w] = NoOne THEN NoCompany ELSE company[w]]
    /\ alerts' = [a \in Keys |-> IF owner'[a[1]] = NoOne THEN 0 ELSE alerts[a]]
    /\ UNCHANGED <<world, pass, faults>>

\* Handlers of requests that were let into w.  If it was deleted since, the
\* foreign key refuses the row and nothing changes.
LetIn(w) == <<w, owner[w]>> \in members

\* The settings of a workspace without a company come with a company that has
\* no needs.
SaveWatchlistSettings(w, choice) ==
    /\ LetIn(w)
    /\ company[w].settings \in Replaced
    /\ company' = [company EXCEPT ![w].exists = TRUE, ![w].settings = choice]
    /\ UNCHANGED <<tenancy, world, alerts, pass, faults>>

\* EnqueueBuild fills in the name and the needs and keeps the settings.
BuildCompany(w) ==
    /\ LetIn(w)
    /\ company' = [company EXCEPT ![w].exists = TRUE, ![w].built = TRUE]
    /\ UNCHANGED <<tenancy, world, alerts, pass, faults>>

-----------------------------------------------------------------------------
(* The corpus and the clock. *)

Active(k) == policy[k][Len(policy[k])]

PublishVersion(k, version) ==
    /\ Len(policy[k]) < MaxVersions
    /\ policy[k] # <<>> => version # Active(k)
    /\ policy' = [policy EXCEPT ![k] = Append(@, version)]
    /\ UNCHANGED <<tenancy, today, company, alerts, pass, faults>>

NextDay ==
    /\ today < Days
    /\ today' = today + 1
    /\ UNCHANGED <<tenancy, policy, company, alerts, pass, faults>>

-----------------------------------------------------------------------------
(* A pass. *)

Become(c, state) == pass' = [pass EXCEPT ![c] = state]
Pending(c) == {w \in Watched : pass[c].left[w].exists}

\* The ticker fires; the companies of all workspaces are read.  Without one
\* the pass is over.
BeginPass(c) ==
    /\ pass[c] = Idle
    /\ \E w \in Watched : company[w].exists
    /\ Become(c, [Idle EXCEPT !.now = today, !.left = company])
    /\ UNCHANGED <<tenancy, world, company, alerts, faults>>

NextCompany(c, w) ==
    /\ pass[c].at = NoOne
    /\ w \in Pending(c)
    /\ Become(c, [pass[c] EXCEPT !.at = w])
    /\ UNCHANGED <<tenancy, world, company, alerts, faults>>

Upcoming(k, now) == Active(k).deadline \in now + 1..now + Week
Changed(k) == \E n \in 1..Len(policy[k]) - 1 : policy[k][n].deadline # Active(k).deadline

\* The WHERE of the four queries; now is the beginning of the pass.
Found(t, built, now) ==
    IF ~built THEN {} ELSE
    LET published == {k \in Policies : policy[k] # <<>>} IN
    CASE t = "POLICY_NEW"     -> {k \in published : Active(k).verified}
      [] t = "DEADLINE"       -> {k \in published : Upcoming(k, now)}
      [] t = "EVIDENCE_STALE" -> Facts
      [] t = "POLICY_CHANGED" -> {k \in published : Changed(k)}

\* Mutant: the switches are read the wrong way round.
SwitchedOff(c, n) == Turns[n] \notin pass[c].left[pass[c].at].settings

SwitchedOn(c, n) == Turns[n] \in pass[c].left[pass[c].at].settings

\* The categories are asked in their order, without those switched off.
NextTurn(c, n) ==
    /\ pass[c].at # NoOne /\ pass[c].rows = {}
    /\ n > pass[c].turn /\ SwitchedOn(c, n)
    /\ \A m \in pass[c].turn + 1..n - 1 : ~SwitchedOn(c, m)

QueryRows(c, n) ==
    /\ NextTurn(c, n)
    /\ Become(c, [pass[c] EXCEPT !.turn = n,
         !.rows = Found(Turns[n], pass[c].left[pass[c].at].built, pass[c].now)])
    /\ UNCHANGED <<tenancy, world, company, alerts, faults>>

CompanyDone(c) ==
    /\ pass[c].at # NoOne /\ pass[c].rows = {}
    /\ \A n \in pass[c].turn + 1..4 : ~SwitchedOn(c, n)
    /\ Become(c, IF Pending(c) = {pass[c].at} THEN Idle
                 ELSE [Idle EXCEPT !.now = pass[c].now,
                                   !.left = [pass[c].left EXCEPT ![pass[c].at] = NoCompany]])
    /\ UNCHANGED <<tenancy, world, company, alerts, faults>>

\* Mutant: the alert is not looked for.
ExistsNever(w, t, x) == FALSE

\* Policies are looked for by their key, facts by their key in a message that
\* has their label instead: those are never found.
Exists(w, t, x) == t # "EVIDENCE_STALE" /\ alerts[<<w, t, x>>] > 0

\* SELECT EXISTS, of one row after the other.
CheckAlert(c, x) ==
    /\ x \in pass[c].rows
    /\ pass[c].saving = NoOne
    /\ Become(c, IF Exists(pass[c].at, Turns[pass[c].turn], x)
                 THEN [pass[c] EXCEPT !.rows = @ \ {x}]
                 ELSE [pass[c] EXCEPT !.saving = x])
    /\ UNCHANGED <<tenancy, world, company, alerts, faults>>

RowDone(c) == Become(c, [pass[c] EXCEPT !.rows = @ \ {pass[c].saving}, !.saving = NoOne])

\* Mutant: alerts without the foreign key to workspaces.
InsertAlertAnywhere(a) == alerts' = [alerts EXCEPT ![a] = @ + 1]

InsertAlert(a) ==
    alerts' = IF owner[a[1]] = NoOne \/ (a[3] \in Facts /\ alerts[a] >= MaxStale)
              THEN alerts
              ELSE [alerts EXCEPT ![a] = @ + 1]

\* An error of SaveAlert, as for a workspace that is gone, is only logged.
SaveAlert(c) ==
    /\ pass[c].saving # NoOne
    /\ InsertAlert(<<pass[c].at, Turns[pass[c].turn], pass[c].saving>>)
    /\ RowDone(c)
    /\ UNCHANGED <<tenancy, world, company, faults>>

\* A failing statement costs a row, a category or the whole pass.
FailStatement(c) ==
    /\ faults < MaxFaults
    /\ faults' = faults + 1
    /\ \/ pass[c].saving # NoOne /\ RowDone(c)
       \/ pass[c].rows # {} /\ pass[c].saving = NoOne /\ Become(c, [pass[c] EXCEPT !.rows = {}])
       \/ \E n \in 1..4 : NextTurn(c, n) /\ Become(c, [pass[c] EXCEPT !.turn = n])
    /\ UNCHANGED <<tenancy, world, company, alerts>>

\* The process dies; the next one begins with a pass.
Crash(c) ==
    /\ faults < MaxFaults
    /\ faults' = faults + 1
    /\ pass[c] # Idle
    /\ Become(c, Idle)
    /\ UNCHANGED <<tenancy, world, company, alerts>>

-----------------------------------------------------------------------------

Crawl(c) ==
    \/ BeginPass(c) \/ CompanyDone(c) \/ SaveAlert(c)
    \/ \E w \in Watched : NextCompany(c, w)
    \/ \E n \in 1..4 : QueryRows(c, n)
    \/ \E x \in Subjects : CheckAlert(c, x)

Users ==
    \E w \in Watched : BuildCompany(w) \/ \E choice \in Choices : SaveWatchlistSettings(w, choice)

Corpus ==
    \/ \E k \in Policies, v \in Versions : PublishVersion(k, v)
    \/ NextDay

Next == Tenancy \/ Users \/ Corpus \/ \E c \in Crawlers : Crawl(c) \/ FailStatement(c) \/ Crash(c)

\* The tickers fire and statements return; users and the world need not act.
Fairness == \A c \in Crawlers : WF_vars(Crawl(c))

Spec == Init /\ [][Next]_vars
FairSpec == Spec /\ Fairness

-----------------------------------------------------------------------------

\* Looking for an alert and inserting it are two statements and no index
\* refuses a second row: there is at most one alert per crawler process about
\* a policy and category, over all passes, and exactly one with one process.
OneAlertPerCrawler ==
    \A a \in Keys : a[3] \in Policies => alerts[a] <= Cardinality(Crawlers)

\* A pass works for long on companies it read at its beginning: it never
\* leaves an alert behind in a workspace that was deleted meanwhile.
NothingOutlivesItsWorkspace ==
    \A a \in Keys : owner[a[1]] = NoOne => alerts[a] = 0 /\ company[a[1]] = NoCompany

\* What a company has switched on and its passport calls for.
Due(w, t, x) == t \in company[w].settings /\ x \in Found(t, company[w].built, today)

\* A category that stays due is announced, whatever statements fail, processes
\* die and users change in between (README: "Identify new policies matching
\* the workspace's support profile").
DueIsAnnounced ==
    \A w \in Watched : \A t \in Types : \A x \in About(t) :
        Due(w, t, x) ~> (alerts[<<w, t, x>>] > 0 \/ ~Due(w, t, x))

=============================================================================
