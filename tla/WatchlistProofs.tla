-------------------------- MODULE WatchlistProofs ---------------------------
(***************************************************************************)
(* Theorems about Workspaces and Watchlist for any number of accounts,     *)
(* requests, crawler processes, policies, versions and faults.             *)
(***************************************************************************)
EXTENDS Watchlist, FiniteSetTheorems, TLAPS

-----------------------------------------------------------------------------
(* Workspaces and their members. *)

\* A creation that still has its second statement to come.
Promised(r) ==
    request[r].made # NoOne =>
        /\ request[r].principal # NoOne
        /\ creation[request[r].made] = "pending"
        /\ owner[request[r].made] = request[r].principal

OneCreator ==
    \A r, q \in Requests : request[r].made # NoOne /\ request[q].made = request[r].made => q = r

\* A workspace nobody was told of has no member, so nobody can delete it.
NoMemberYet ==
    \A w \in Extra, p \in Principals : creation[w] \in {"none", "pending"} => <<w, p>> \notin members

DefaultsAreOwned == \A p \in Principals : owner[p] \in {p, NoOne}

WInv ==
    /\ WorkspacesTypeOK
    /\ \A r \in Requests : Promised(r)
    /\ OneCreator
    /\ NoMemberYet
    /\ DefaultsAreOwned
    /\ OrphansComeFromFailures

\* Without rows and requests there is nothing to go wrong.
LEMMA WInit == WorkspacesInit => WInv
BY DEF WorkspacesInit, WInv, WorkspacesTypeOK, Handler, Ready, Ids, Promised, OneCreator,
       NoMemberYet, DefaultsAreOwned, OrphansComeFromFailures

\* Every statement of a request keeps the invariant of the tables.
LEMMA WStep ==
    ASSUME WInv, WorkspacesNext
    PROVE  WInv'
<1> USE WorkspacesAssumption
<1>1. PICK r \in Requests :
          \/ \E p \in Principals, w \in Ids : Authenticate(r, p, w)
          \/ \E w \in Extra : InsertWorkspace(r, w)
          \/ InsertMember(r) \/ CreateFails(r) \/ OtherRequest(r)
          \/ \E w \in Ids : DeleteWorkspace(r, w)
    BY DEF WorkspacesNext
<1>2. ASSUME NEW p \in Principals, NEW w \in Ids, Authenticate(r, p, w)
      PROVE  WInv'
    <2> USE <1>2 DEF Authenticate, Ensure
    <2>1. WorkspacesTypeOK'
        BY DEF WInv, WorkspacesTypeOK, Handler, Ready, Ids
    <2>2. \A q \in Requests : request'[q].made = request[q].made
        BY DEF WInv, WorkspacesTypeOK, Handler, Ready
    <2>3. \A q \in Requests : request'[q].principal = request[q].principal \/ request[q].made = NoOne
        BY DEF WInv, WorkspacesTypeOK, Handler, Ready
    <2>4. \A x \in Extra : owner'[x] = owner[x]
        BY DEF WInv, WorkspacesTypeOK, Ids
    <2>5. \A q \in Requests : request[q].made \in Extra \cup {NoOne}
        BY DEF WInv, WorkspacesTypeOK, Handler
    <2>6. \A q \in Requests : Promised(q)'
        BY <2>2, <2>3, <2>4, <2>5 DEF WInv, Promised
    <2>7. OneCreator'
        BY <2>2 DEF WInv, OneCreator
    <2>8. NoMemberYet'
        BY DEF WInv, NoMemberYet
    <2>9. DefaultsAreOwned'
        BY DEF WInv, DefaultsAreOwned, WorkspacesTypeOK, Ids
    <2>10. OrphansComeFromFailures'
        BY DEF WInv, OrphansComeFromFailures, WorkspacesTypeOK, Ids
    <2> QED BY <2>1, <2>6, <2>7, <2>8, <2>9, <2>10 DEF WInv
<1>3. ASSUME NEW w \in Extra, InsertWorkspace(r, w)
      PROVE  WInv'
    <2> USE <1>3 DEF InsertWorkspace, Entered
    <2>1. WorkspacesTypeOK'
        BY DEF WInv, WorkspacesTypeOK, Handler, Ready, Ids
    <2>2. \A q \in Requests : request[q].made # w
        <3>1. w # NoOne /\ creation[w] = "none"
            BY DEF Ids
        <3> QED BY <3>1 DEF WInv, Promised
    <2>3. /\ request'[r].made = w
          /\ \A q \in Requests : /\ request'[q].principal = request[q].principal
                                 /\ q # r => request'[q].made = request[q].made
        BY DEF WInv, WorkspacesTypeOK, Handler
    <2>4. /\ owner'[w] = request[r].principal /\ creation'[w] = "pending"
          /\ \A x \in Extra : x # w => owner'[x] = owner[x] /\ creation'[x] = creation[x]
        BY DEF WInv, WorkspacesTypeOK, Ids
    <2>5. \A q \in Requests : request[q].made \in Extra \cup {NoOne}
        BY DEF WInv, WorkspacesTypeOK, Handler
    <2>6. \A q \in Requests : Promised(q)'
        BY <2>2, <2>3, <2>4, <2>5 DEF WInv, Promised
    <2>7. OneCreator'
        BY <2>2, <2>3 DEF WInv, OneCreator
    <2>8. NoMemberYet'
        BY <2>4 DEF WInv, NoMemberYet, WorkspacesTypeOK
    <2>9. DefaultsAreOwned'
        BY DEF WInv, DefaultsAreOwned, WorkspacesTypeOK, Ids
    <2>10. OrphansComeFromFailures'
        BY <2>4 DEF WInv, OrphansComeFromFailures, WorkspacesTypeOK, Ids
    <2> QED BY <2>1, <2>6, <2>7, <2>8, <2>9, <2>10 DEF WInv
<1>4. ASSUME InsertMember(r) \/ CreateFails(r)
      PROVE  WInv'
    <2> DEFINE w == request[r].made
               p == request[r].principal
    <2>1. w \in Extra /\ p \in Principals /\ creation[w] = "pending" /\ owner[w] = p
        BY <1>4 DEF InsertMember, CreateFails, WInv, Promised, WorkspacesTypeOK, Handler
    <2>2. /\ owner' = owner
          /\ request' = [request EXCEPT ![r] = Ready]
          /\ \/ creation' = [creation EXCEPT ![w] = "created"] /\ members' = members \cup {<<w, p>>}
             \/ /\ creation' = [creation EXCEPT ![w] = "failed"]
                /\ members' = members \/ members' = members \cup {<<w, p>>}
        BY <1>4 DEF InsertMember, CreateFails, AddMember, Answer
    <2> HIDE DEF w, p
    <2>3. WorkspacesTypeOK'
        BY <2>1, <2>2 DEF WInv, WorkspacesTypeOK, Handler, Ready, Ids
    <2>4. /\ request'[r] = Ready
          /\ \A q \in Requests : q # r => request'[q] = request[q] /\ request[q].made # w
        <3>1. w = request[r].made /\ w # NoOne
            BY <2>1 DEF w, Ids
        <3>2. \A q \in Requests : q # r => request[q].made # w
            BY <3>1 DEF WInv, OneCreator
        <3> QED BY <2>2, <3>2 DEF WInv, WorkspacesTypeOK
    <2>5. \A q \in Requests : request[q].made \in Extra \cup {NoOne}
        BY DEF WInv, WorkspacesTypeOK, Handler
    <2>6. \A x \in Extra : x # w => creation'[x] = creation[x]
        BY <2>2 DEF WInv, WorkspacesTypeOK
    <2>7. creation'[w] \in {"created", "failed"}
        BY <2>1, <2>2 DEF WInv, WorkspacesTypeOK
    <2>8. \A q \in Requests : Promised(q)'
        BY <2>2, <2>4, <2>5, <2>6 DEF WInv, Promised, Ready
    <2>9. OneCreator'
        BY <2>4 DEF WInv, OneCreator, Ready
    <2>10. NoMemberYet'
        BY <2>2, <2>6, <2>7 DEF WInv, NoMemberYet
    <2>11. DefaultsAreOwned'
        BY <2>2 DEF WInv, DefaultsAreOwned
    <2>12. OrphansComeFromFailures'
        <3> SUFFICES ASSUME NEW x \in Ids, owner[x] # NoOne, <<x, owner[x]>> \notin members'
                     PROVE  x \in Extra /\ creation'[x] \in {"pending", "failed"}
            BY <2>2 DEF OrphansComeFromFailures
        <3>1. <<x, owner[x]>> \notin members
            BY <2>2
        <3>2. x \in Extra /\ creation[x] \in {"pending", "failed"}
            BY <3>1 DEF WInv, OrphansComeFromFailures
        <3>3. CASE x # w
            BY <3>2, <3>3, <2>6
        <3>4. CASE x = w
            <4>1. members' # members \cup {<<w, p>>}
                BY <3>4, <2>1
            <4> QED BY <4>1, <3>2, <3>4, <2>2, <2>7 DEF WInv, WorkspacesTypeOK
        <3> QED BY <3>3, <3>4
    <2> QED BY <2>3, <2>8, <2>9, <2>10, <2>11, <2>12 DEF WInv
<1>5. ASSUME OtherRequest(r) \/ \E w \in Ids : DeleteWorkspace(r, w)
      PROVE  WInv'
    <2>1. /\ request[r].made = NoOne
          /\ request' = [request EXCEPT ![r] = Ready]
          /\ creation' = creation
        BY <1>5 DEF OtherRequest, DeleteWorkspace, Answer, Entered
    <2>2. \/ owner' = owner /\ members' = members
          \/ \E w \in Ids : /\ w \in Principals \cup List(request[r].principal)
                            /\ w # request[r].principal /\ owner[w] = request[r].principal
                            /\ request[r].principal # NoOne
                            /\ owner' = [owner EXCEPT ![w] = NoOne]
                            /\ members' = {m \in members : m[1] # w}
        BY <1>5 DEF OtherRequest, DeleteWorkspace, Entered
    <2>3. /\ request'[r] = Ready
          /\ \A q \in Requests : q # r => request'[q] = request[q]
        BY <2>1 DEF WInv, WorkspacesTypeOK
    <2>4. WorkspacesTypeOK'
        BY <2>1, <2>2 DEF WInv, WorkspacesTypeOK, Handler, Ready
    <2>5. OneCreator'
        BY <2>3 DEF WInv, OneCreator, Ready
    <2>6. NoMemberYet'
        BY <2>1, <2>2 DEF WInv, NoMemberYet
    <2>7. DefaultsAreOwned'
        <3> SUFFICES ASSUME NEW p \in Principals
                     PROVE  owner'[p] \in {p, NoOne}
            BY DEF DefaultsAreOwned
        <3>1. owner[p] \in {p, NoOne} /\ p \in Ids
            BY DEF WInv, DefaultsAreOwned, Ids
        <3> QED BY <3>1, <2>2 DEF WInv, WorkspacesTypeOK
    <2>8. OrphansComeFromFailures'
        <3> SUFFICES ASSUME NEW x \in Ids, owner'[x] # NoOne, <<x, owner'[x]>> \notin members'
                     PROVE  x \in Extra /\ creation[x] \in {"pending", "failed"}
            BY <2>1 DEF OrphansComeFromFailures
        <3>1. owner'[x] = owner[x] /\ (<<x, owner[x]>> \in members => <<x, owner[x]>> \in members')
            BY <2>2 DEF WInv, WorkspacesTypeOK
        <3> QED BY <3>1 DEF WInv, OrphansComeFromFailures
    <2>9. \A q \in Requests : Promised(q)'
        <3> SUFFICES ASSUME NEW q \in Requests, q # r, request[q].made # NoOne
                     PROVE  owner'[request[q].made] = owner[request[q].made]
            BY <2>1, <2>3 DEF WInv, Promised, Ready
        <3> DEFINE x == request[q].made
        <3>1. x \in Extra /\ creation[x] = "pending"
            BY DEF WInv, Promised, WorkspacesTypeOK, Handler
        <3>2. x \notin Principals /\ x \in Ids
            BY <3>1 DEF Ids
        <3>3. request[r].principal \in Principals => x \notin List(request[r].principal)
            BY <3>1 DEF WInv, NoMemberYet, List
        <3>4. request[r].principal \in Principals \cup {NoOne}
            BY DEF WInv, WorkspacesTypeOK, Handler
        <3> HIDE DEF x
        <3>5. owner'[x] = owner[x]
            BY <2>2, <3>2, <3>3, <3>4 DEF WInv, WorkspacesTypeOK
        <3> QED BY <3>5 DEF x
    <2> QED BY <2>4, <2>5, <2>6, <2>7, <2>8, <2>9 DEF WInv
<1> QED BY <1>1, <1>2, <1>3, <1>4, <1>5

\* What does not touch the tables keeps it too.
LEMMA WStutter ==
    ASSUME WInv, UNCHANGED tenancy
    PROVE  WInv'
BY DEF tenancy, WInv, WorkspacesTypeOK, Promised, OneCreator, NoMemberYet, DefaultsAreOwned,
       OrphansComeFromFailures

-----------------------------------------------------------------------------
(* The crawler's passes. *)

\* What a pass is about to save is one of the rows it holds, which belong to
\* the category at hand.
WellFormed(p) ==
    /\ p.saving \in p.rows \cup {NoOne}
    /\ p.rows # {} => /\ p.at \in Watched
                      /\ p.turn \in 1..4
                      /\ p.rows \subseteq About(Turns[p.turn])

\* An alert that p found missing and is going to insert.
Inserts(p, a) == p.saving # NoOne /\ a = <<p.at, Turns[p.turn], p.saving>>

Inserters(a) == {c \in Crawlers : Inserts(pass[c], a)}

\* Every alert that is there, or that some crawler has found missing and is
\* about to insert, took a crawler that looked when there was none.
RoomForInserters ==
    \A a \in Keys : a[3] \in Policies =>
        alerts[a] + Cardinality(Inserters(a)) <= Cardinality(Crawlers)

Inv ==
    /\ TypeOK
    /\ WInv
    /\ \A c \in Crawlers : WellFormed(pass[c])
    /\ NothingOutlivesItsWorkspace
    /\ RoomForInserters

\* The categories by their number.
LEMMA Categories ==
    /\ Turns[1] = "POLICY_NEW" /\ Turns[2] = "DEADLINE"
    /\ Turns[3] = "EVIDENCE_STALE" /\ Turns[4] = "POLICY_CHANGED"
    /\ \A n \in 1..4 : Turns[n] \in Types
    /\ \A t \in Types : About(t) \subseteq Subjects
BY DEF Turns, Types, About, Subjects

\* A query finds rows of its category.
LEMMA FoundIsAbout ==
    ASSUME NEW n \in 1..4, NEW built \in BOOLEAN, NEW now
    PROVE  Found(Turns[n], built, now) \subseteq About(Turns[n])
<1>1. CASE n = 1
    BY <1>1, Categories DEF Found, About
<1>2. CASE n = 2
    BY <1>2, Categories DEF Found, About
<1>3. CASE n = 3
    BY <1>3, Categories DEF Found, About
<1>4. CASE n = 4
    BY <1>4, Categories DEF Found, About
<1> QED BY <1>1, <1>2, <1>3, <1>4

LEMMA IdleIsWellFormed == Idle \in Pass /\ WellFormed(Idle) /\ \A a : ~Inserts(Idle, a)
<1>1. NoCompany \in Company
    BY DEF NoCompany, Company
<1>2. 0 \in 0..Days /\ 0 \in 0..4
    BY WatchlistAssumption
<1> QED BY <1>1, <1>2 DEF Idle, Pass, WellFormed, Inserts

\* A step that adds no alert and has nobody begin to insert one.
LEMMA NobodyStarts ==
    ASSUME RoomForInserters, alerts \in [Keys -> Nat], alerts' \in [Keys -> Nat],
           \A a \in Keys : alerts'[a] <= alerts[a],
           \A c \in Crawlers : \A a \in Keys : Inserts(pass'[c], a) => Inserts(pass[c], a)
    PROVE  RoomForInserters'
<1> SUFFICES ASSUME NEW a \in Keys, a[3] \in Policies
             PROVE  alerts'[a] + Cardinality(Inserters(a)') <= Cardinality(Crawlers)
    BY DEF RoomForInserters
<1>1. Inserters(a)' \subseteq Inserters(a) /\ Inserters(a) \subseteq Crawlers
    BY DEF Inserters
<1>2. IsFiniteSet(Crawlers) /\ IsFiniteSet(Inserters(a))
    BY <1>1, WatchlistAssumption, FS_Subset
<1>3. Cardinality(Inserters(a)') <= Cardinality(Inserters(a))
    BY <1>1, <1>2, FS_Subset
<1>4. /\ Cardinality(Inserters(a)') \in Nat
      /\ Cardinality(Inserters(a)) \in Nat
      /\ Cardinality(Crawlers) \in Nat
    BY <1>1, <1>2, FS_Subset, FS_CardinalityType
<1>5. alerts[a] + Cardinality(Inserters(a)) <= Cardinality(Crawlers)
    BY DEF RoomForInserters
<1>6. alerts[a] \in Nat /\ alerts'[a] \in Nat /\ alerts'[a] <= alerts[a]
    OBVIOUS
<1> QED BY <1>3, <1>4, <1>5, <1>6

\* One crawler goes on to a well-formed state of its pass.
LEMMA PassStep ==
    ASSUME pass \in [Crawlers -> Pass], \A d \in Crawlers : WellFormed(pass[d]),
           NEW c \in Crawlers, NEW state \in Pass, WellFormed(state), Become(c, state)
    PROVE  /\ pass' \in [Crawlers -> Pass]
           /\ \A d \in Crawlers : WellFormed(pass'[d])
           /\ pass'[c] = state
           /\ \A d \in Crawlers : d # c => pass'[d] = pass[d]
<1>1. pass' = [pass EXCEPT ![c] = state]
    BY DEF Become
<1>2. pass' \in [Crawlers -> Pass] /\ pass'[c] = state
    BY <1>1
<1>3. \A d \in Crawlers : d # c => pass'[d] = pass[d]
    BY <1>1
<1>4. \A d \in Crawlers : WellFormed(pass'[d])
    <2> TAKE d \in Crawlers
    <2>1. CASE d = c
        BY <2>1, <1>2
    <2>2. CASE d # c
        BY <2>2, <1>3
    <2> QED BY <2>1, <2>2
<1> QED BY <1>2, <1>3, <1>4

\* It does so without a change of the tables and without beginning to insert.
LEMMA QuietPass ==
    ASSUME Inv, NEW c \in Crawlers, NEW state \in Pass, WellFormed(state), Become(c, state),
           \A a \in Keys : Inserts(state, a) => Inserts(pass[c], a),
           UNCHANGED <<tenancy, world, company, alerts>>, faults' \in Nat
    PROVE  Inv'
<1>1. pass \in [Crawlers -> Pass] /\ \A d \in Crawlers : WellFormed(pass[d])
    BY DEF Inv, TypeOK
<1>2. /\ pass' \in [Crawlers -> Pass]
      /\ \A d \in Crawlers : WellFormed(pass'[d])
      /\ pass'[c] = state
      /\ \A d \in Crawlers : d # c => pass'[d] = pass[d]
    BY <1>1, PassStep
<1>3. WInv' /\ WorkspacesTypeOK'
    BY WStutter DEF Inv, WInv
<1>4. TypeOK'
    BY <1>2, <1>3 DEF Inv, TypeOK, world
<1>5. NothingOutlivesItsWorkspace'
    BY DEF Inv, NothingOutlivesItsWorkspace, tenancy
<1>6. alerts' = alerts /\ alerts \in [Keys -> Nat] /\ RoomForInserters
    BY DEF Inv, TypeOK
<1>7. \A a \in Keys : alerts'[a] <= alerts[a]
    BY <1>6
<1>8. \A d \in Crawlers : \A a \in Keys : Inserts(pass'[d], a) => Inserts(pass[d], a)
    <2> TAKE d \in Crawlers
    <2>1. CASE d = c
        BY <2>1, <1>2
    <2>2. CASE d # c
        BY <2>2, <1>2
    <2> QED BY <2>1, <2>2
<1>9. RoomForInserters'
    BY <1>6, <1>7, <1>8, NobodyStarts
<1> QED BY <1>2, <1>3, <1>4, <1>5, <1>9 DEF Inv

\* Reading: the companies, the next company, the rows of a category.
LEMMA ReadingKeepsInv ==
    ASSUME Inv, NEW c \in Crawlers,
           \/ BeginPass(c) \/ CompanyDone(c)
           \/ \E w \in Watched : NextCompany(c, w)
           \/ \E n \in 1..4 : QueryRows(c, n)
    PROVE  Inv'
<1> DEFINE p == pass[c]
<1>1. /\ p \in Pass /\ WellFormed(p)
      /\ company \in [Watched -> Company] /\ today \in 0..Days /\ faults \in Nat
    BY DEF Inv, TypeOK
<1>2. p.now \in 0..Days /\ p.left \in [Watched -> Company] /\ p.at \in Watched \cup {NoOne}
    BY <1>1 DEF Pass
<1>3. NoOne \notin Watched /\ NoOne \notin Subjects /\ 0 \in 0..4
    BY WatchlistAssumption, WorkspacesAssumption DEF Ids
<1>4. p.rows = {} => p.saving = NoOne
    BY <1>1 DEF WellFormed
<1>5. Idle \in Pass /\ WellFormed(Idle) /\ \A a : ~Inserts(Idle, a)
    BY IdleIsWellFormed
<1> HIDE DEF p
<1>6. CASE BeginPass(c)
    <2> DEFINE state == [Idle EXCEPT !.now = today, !.left = company]
    <2>1. state \in Pass /\ WellFormed(state) /\ \A a \in Keys : ~Inserts(state, a)
        BY <1>1, <1>3 DEF Pass, Idle, WellFormed, Inserts
    <2>2. /\ Become(c, state) /\ UNCHANGED <<tenancy, world, company, alerts>>
          /\ faults' \in Nat
        BY <1>6, <1>1 DEF BeginPass
    <2> HIDE DEF state
    <2> QED BY <2>1, <2>2, QuietPass
<1>7. CASE CompanyDone(c)
    <2> DEFINE rest == [Idle EXCEPT !.now = p.now, !.left = [p.left EXCEPT ![p.at] = NoCompany]]
               state == IF Pending(c) = {p.at} THEN Idle ELSE rest
    <2>1. p.at \in Watched /\ NoCompany \in Company
        BY <1>7, <1>2 DEF CompanyDone, p, NoCompany, Company
    <2>2. rest \in Pass /\ WellFormed(rest) /\ \A a \in Keys : ~Inserts(rest, a)
        BY <2>1, <1>2, <1>3 DEF Pass, Idle, WellFormed, Inserts
    <2>3. /\ Become(c, state) /\ UNCHANGED <<tenancy, world, company, alerts>>
          /\ faults' \in Nat
        BY <1>7, <1>1 DEF CompanyDone, p
    <2> HIDE DEF rest
    <2>4. state \in Pass /\ WellFormed(state) /\ \A a \in Keys : ~Inserts(state, a)
        BY <2>2, <1>5
    <2> HIDE DEF state
    <2> QED BY <2>3, <2>4, QuietPass
<1>8. ASSUME NEW w \in Watched, NextCompany(c, w)
      PROVE  Inv'
    <2> DEFINE state == [p EXCEPT !.at = w]
    <2>1. p.rows = {} /\ p.saving = NoOne
        BY <1>8, <1>1, <1>3, <1>4 DEF NextCompany, p, WellFormed
    <2>2. state \in Pass /\ WellFormed(state) /\ \A a \in Keys : ~Inserts(state, a)
        BY <2>1, <1>1 DEF Pass, WellFormed, Inserts
    <2>3. /\ Become(c, state) /\ UNCHANGED <<tenancy, world, company, alerts>>
          /\ faults' \in Nat
        BY <1>8, <1>1 DEF NextCompany, p
    <2> HIDE DEF state
    <2> QED BY <2>2, <2>3, QuietPass
<1>9. ASSUME NEW n \in 1..4, QueryRows(c, n)
      PROVE  Inv'
    <2> DEFINE found == Found(Turns[n], p.left[p.at].built, p.now)
               state == [p EXCEPT !.turn = n, !.rows = found]
    <2>1. p.at \in Watched /\ p.saving = NoOne
        BY <1>9, <1>2, <1>4 DEF QueryRows, NextTurn, p
    <2>2. p.left[p.at].built \in BOOLEAN
        BY <2>1, <1>2 DEF Company
    <2>3. found \subseteq About(Turns[n]) /\ About(Turns[n]) \subseteq Subjects
        BY <2>2, FoundIsAbout, Categories
    <2>4. Become(c, state) /\ UNCHANGED <<tenancy, world, company, alerts, faults>>
        BY <1>9 DEF QueryRows, p
    <2> HIDE DEF found
    <2>5. n \in 0..4 /\ found \in SUBSET Subjects
        BY <2>3
    <2>6. state \in Pass
        BY <2>5, <1>1 DEF Pass
    <2>7. state.saving = NoOne /\ state.rows = found /\ state.at = p.at /\ state.turn = n
        BY <2>1, <1>1 DEF Pass
    <2> HIDE DEF state
    <2>8. WellFormed(state) /\ \A a \in Keys : ~Inserts(state, a)
        BY <2>1, <2>3, <2>7 DEF WellFormed, Inserts
    <2> QED BY <2>4, <2>6, <2>8, <1>1, QuietPass
<1> QED BY <1>6, <1>7, <1>8, <1>9

\* A failing statement gives up the row, the category or the pass, and a dying
\* process all of it.
LEMMA FaultsKeepInv ==
    ASSUME Inv, NEW c \in Crawlers, FailStatement(c) \/ Crash(c)
    PROVE  Inv'
<1> DEFINE p == pass[c]
<1>1. p \in Pass /\ WellFormed(p) /\ faults' \in Nat
    BY DEF Inv, TypeOK, FailStatement, Crash
<1>2. NoOne \notin Subjects
    BY WatchlistAssumption
<1>3. UNCHANGED <<tenancy, world, company, alerts>>
    BY DEF FailStatement, Crash
<1>4. Idle \in Pass /\ WellFormed(Idle) /\ \A a : ~Inserts(Idle, a)
    BY IdleIsWellFormed
<1>5. \/ Become(c, [p EXCEPT !.rows = @ \ {p.saving}, !.saving = NoOne])
      \/ p.saving = NoOne /\ Become(c, [p EXCEPT !.rows = {}])
      \/ \E n \in 1..4 : p.rows = {} /\ Become(c, [p EXCEPT !.turn = n])
      \/ Become(c, Idle)
    BY DEF FailStatement, Crash, RowDone, NextTurn
<1> HIDE DEF p
<1> SUFFICES ASSUME NEW state, Become(c, state),
                    \/ state = [p EXCEPT !.rows = @ \ {p.saving}, !.saving = NoOne]
                    \/ p.saving = NoOne /\ state = [p EXCEPT !.rows = {}]
                    \/ \E n \in 1..4 : p.rows = {} /\ state = [p EXCEPT !.turn = n]
                    \/ state = Idle
             PROVE  Inv'
    BY <1>5
<1>6. CASE state = [p EXCEPT !.rows = @ \ {p.saving}, !.saving = NoOne]
    <2>1. state \in Pass /\ WellFormed(state) /\ \A a \in Keys : ~Inserts(state, a)
        BY <1>1, <1>6 DEF Pass, WellFormed, Inserts
    <2> QED BY <2>1, <1>1, <1>3, QuietPass
<1>7. CASE p.saving = NoOne /\ state = [p EXCEPT !.rows = {}]
    <2>1. state \in Pass /\ WellFormed(state) /\ \A a \in Keys : ~Inserts(state, a)
        BY <1>1, <1>7 DEF Pass, WellFormed, Inserts
    <2> QED BY <2>1, <1>1, <1>3, QuietPass
<1>8. ASSUME NEW n \in 1..4, p.rows = {}, state = [p EXCEPT !.turn = n]
      PROVE  Inv'
    <2>1. n \in 0..4 /\ p.saving = NoOne
        BY <1>1, <1>8 DEF WellFormed
    <2>2. state \in Pass
        BY <2>1, <1>1, <1>8 DEF Pass
    <2>3. state.saving = NoOne /\ state.rows = {}
        BY <2>1, <1>1, <1>8 DEF Pass
    <2>4. WellFormed(state) /\ \A a \in Keys : ~Inserts(state, a)
        BY <2>3 DEF WellFormed, Inserts
    <2> QED BY <2>2, <2>4, <1>1, <1>3, QuietPass
<1>9. CASE state = Idle
    BY <1>9, <1>1, <1>3, <1>4, QuietPass
<1> QED BY <1>6, <1>7, <1>8, <1>9

\* An alert that is not there is looked for and found missing: whoever begins
\* to insert it is one of the crawlers, and no alert stands beside them.
LEMMA CheckKeepsInv ==
    ASSUME Inv, NEW c \in Crawlers, NEW x \in Subjects, CheckAlert(c, x)
    PROVE  Inv'
<1> DEFINE p == pass[c]
           t == Turns[p.turn]
<1>1. /\ p \in Pass /\ WellFormed(p) /\ x \in p.rows /\ p.saving = NoOne
      /\ pass \in [Crawlers -> Pass] /\ \A d \in Crawlers : WellFormed(pass[d])
    BY DEF Inv, TypeOK, CheckAlert
<1>2. UNCHANGED <<tenancy, world, company, alerts, faults>> /\ faults' \in Nat
    BY DEF CheckAlert, Inv, TypeOK
<1>3. /\ Exists(p.at, t, x) => Become(c, [p EXCEPT !.rows = @ \ {x}])
      /\ ~Exists(p.at, t, x) => Become(c, [p EXCEPT !.saving = x])
    BY DEF CheckAlert
<1>4. p.at \in Watched /\ t \in Types /\ x \in About(t)
    BY <1>1, Categories DEF WellFormed
<1>5. NoOne \notin Subjects
    BY WatchlistAssumption
<1> HIDE DEF p
<1>6. CASE Exists(p.at, t, x)
    <2> DEFINE state == [p EXCEPT !.rows = @ \ {x}]
    <2>1. state \in Pass /\ WellFormed(state) /\ \A a \in Keys : ~Inserts(state, a)
        BY <1>1 DEF Pass, WellFormed, Inserts
    <2>2. Become(c, state)
        BY <1>3, <1>6
    <2> HIDE DEF state
    <2> QED BY <2>1, <2>2, <1>2, QuietPass
<1>7. CASE ~Exists(p.at, t, x)
    <2> DEFINE state == [p EXCEPT !.saving = x]
    <2>1. state \in Pass /\ WellFormed(state)
        BY <1>1 DEF Pass, WellFormed
    <2>2. state.at = p.at /\ state.turn = p.turn /\ state.saving = x
        BY <1>1 DEF Pass
    <2>3. Become(c, state)
        BY <1>3, <1>7
    <2> HIDE DEF state
    <2>4. /\ pass' \in [Crawlers -> Pass]
          /\ \A d \in Crawlers : WellFormed(pass'[d])
          /\ pass'[c] = state
          /\ \A d \in Crawlers : d # c => pass'[d] = pass[d]
        BY <2>1, <2>3, <1>1, PassStep
    <2>5. WInv' /\ WorkspacesTypeOK'
        BY <1>2, WStutter DEF Inv, WInv
    <2>6. TypeOK'
        BY <2>4, <2>5, <1>2 DEF Inv, TypeOK, world
    <2>7. NothingOutlivesItsWorkspace'
        BY <1>2 DEF Inv, NothingOutlivesItsWorkspace, tenancy
    <2>8. RoomForInserters'
        <3> SUFFICES ASSUME NEW a \in Keys, a[3] \in Policies
                     PROVE  alerts[a] + Cardinality(Inserters(a)') <= Cardinality(Crawlers)
            BY <1>2 DEF RoomForInserters
        <3>1. CASE a = <<p.at, t, x>>
            <4>1. a[1] = p.at /\ a[2] = t /\ a[3] = x
                BY <3>1
            <4>2. t # "EVIDENCE_STALE"
                BY <4>1, <1>4, WatchlistAssumption DEF About
            <4>3. alerts[a] \in Nat /\ ~(alerts[a] > 0)
                BY <4>2, <3>1, <1>7 DEF Exists, Inv, TypeOK
            <4>4. Inserters(a)' \subseteq Crawlers
                BY DEF Inserters
            <4>5. IsFiniteSet(Crawlers)
                BY WatchlistAssumption
            <4>6. Cardinality(Inserters(a)') <= Cardinality(Crawlers)
                BY <4>4, <4>5, FS_Subset
            <4>7. Cardinality(Inserters(a)') \in Nat
                BY <4>4, <4>5, FS_Subset, FS_CardinalityType
            <4> QED BY <4>3, <4>6, <4>7
        <3>2. CASE a # <<p.at, t, x>>
            <4>1. ~Inserts(pass'[c], a) /\ ~Inserts(pass[c], a)
                BY <2>2, <2>4, <3>2, <1>1 DEF Inserts, p
            <4>2. Inserters(a)' = Inserters(a)
                BY <4>1, <2>4 DEF Inserters
            <4> QED BY <4>2 DEF Inv, RoomForInserters
        <3> QED BY <3>1, <3>2
    <2> QED BY <2>4, <2>5, <2>6, <2>7, <2>8 DEF Inv
<1> QED BY <1>6, <1>7

\* An insertion takes the room of the crawler that makes it, and none takes
\* place in a workspace that is gone.
LEMMA SaveKeepsInv ==
    ASSUME Inv, NEW c \in Crawlers, SaveAlert(c)
    PROVE  Inv'
<1> DEFINE p == pass[c]
           b == <<p.at, Turns[p.turn], p.saving>>
           state == [p EXCEPT !.rows = @ \ {p.saving}, !.saving = NoOne]
<1>1. /\ p \in Pass /\ WellFormed(p) /\ p.saving # NoOne
      /\ pass \in [Crawlers -> Pass] /\ \A d \in Crawlers : WellFormed(pass[d])
      /\ alerts \in [Keys -> Nat]
    BY DEF Inv, TypeOK, SaveAlert
<1>2. UNCHANGED <<tenancy, world, company, faults>> /\ Become(c, state)
    BY DEF SaveAlert, RowDone
<1>3. b \in Keys
    <2>1. p.at \in Watched /\ Turns[p.turn] \in Types /\ p.saving \in About(Turns[p.turn])
        BY <1>1, Categories DEF WellFormed
    <2>2. p.saving \in Subjects
        BY <2>1, Categories
    <2> QED BY <2>1, <2>2 DEF Keys
<1>4. \/ alerts' = alerts
      \/ alerts' = [alerts EXCEPT ![b] = @ + 1] /\ owner[b[1]] # NoOne
    BY DEF SaveAlert, InsertAlert
<1>5. alerts' \in [Keys -> Nat]
    BY <1>1, <1>3, <1>4
<1>6. state \in Pass /\ WellFormed(state) /\ \A a \in Keys : ~Inserts(state, a)
    BY <1>1 DEF Pass, WellFormed, Inserts
<1>7. Inserts(p, b)
    BY <1>1 DEF Inserts
<1> HIDE DEF state, b
<1>8. /\ pass' \in [Crawlers -> Pass]
      /\ \A d \in Crawlers : WellFormed(pass'[d])
      /\ pass'[c] = state
      /\ \A d \in Crawlers : d # c => pass'[d] = pass[d]
    BY <1>1, <1>2, <1>6, PassStep
<1>9. WInv' /\ WorkspacesTypeOK'
    BY <1>2, WStutter DEF Inv, WInv
<1>10. TypeOK'
    BY <1>2, <1>5, <1>8, <1>9 DEF Inv, TypeOK, world
<1>11. NothingOutlivesItsWorkspace'
    <2> SUFFICES ASSUME NEW a \in Keys, owner[a[1]] = NoOne
                 PROVE  alerts'[a] = 0 /\ company[a[1]] = NoCompany
        BY <1>2 DEF NothingOutlivesItsWorkspace, tenancy
    <2>1. alerts[a] = 0 /\ company[a[1]] = NoCompany
        BY DEF Inv, NothingOutlivesItsWorkspace
    <2>2. alerts'[a] = alerts[a]
        BY <1>1, <1>3, <1>4
    <2> QED BY <2>1, <2>2
<1>12. RoomForInserters'
    <2> SUFFICES ASSUME NEW a \in Keys, a[3] \in Policies
                 PROVE  alerts'[a] + Cardinality(Inserters(a)') <= Cardinality(Crawlers)
        BY DEF RoomForInserters
    <2>1. alerts[a] + Cardinality(Inserters(a)) <= Cardinality(Crawlers)
        BY DEF Inv, RoomForInserters
    <2>2. IsFiniteSet(Inserters(a)) /\ IsFiniteSet(Crawlers)
        BY WatchlistAssumption, FS_Subset DEF Inserters
    <2>3. Cardinality(Inserters(a)) \in Nat /\ Cardinality(Crawlers) \in Nat
        BY <2>2, FS_CardinalityType
    <2>4. CASE a = b
        <3>1. c \in Inserters(a) /\ Inserters(a)' = Inserters(a) \ {c}
            BY <2>4, <1>6, <1>7, <1>8 DEF Inserters
        <3>2. Cardinality(Inserters(a)') = Cardinality(Inserters(a)) - 1
            BY <3>1, <2>2, FS_RemoveElement
        <3>3. alerts[a] \in Nat /\ (alerts'[a] = alerts[a] \/ alerts'[a] = alerts[a] + 1)
            BY <2>4, <1>1, <1>3, <1>4
        <3> QED BY <2>1, <2>3, <3>2, <3>3
    <2>5. CASE a # b
        <3>1. ~Inserts(p, a)
            BY <2>5 DEF Inserts, b
        <3>2. Inserters(a)' = Inserters(a)
            BY <3>1, <1>6, <1>8 DEF Inserters
        <3>3. alerts'[a] = alerts[a]
            BY <2>5, <1>1, <1>3, <1>4
        <3> QED BY <2>1, <3>2, <3>3
    <2> QED BY <2>4, <2>5
<1> QED BY <1>8, <1>9, <1>10, <1>11, <1>12 DEF Inv

\* Requests, users, the corpus and the clock leave the passes alone.
LEMMA WorldKeepsInv ==
    ASSUME Inv, Tenancy \/ Users \/ Corpus
    PROVE  Inv'
<1>1. /\ \A c \in Crawlers : WellFormed(pass[c])
      /\ pass' = pass /\ pass \in [Crawlers -> Pass] /\ faults' = faults /\ faults \in Nat
      /\ alerts \in [Keys -> Nat] /\ company \in [Watched -> Company]
      /\ policy \in [Policies -> Seq(Version)] /\ today \in 0..Days
    BY DEF Inv, TypeOK, Tenancy, Users, BuildCompany, SaveWatchlistSettings, Corpus,
           PublishVersion, NextDay
<1>2. \A w \in Watched : LetIn(w) => owner[w] # NoOne
    <2>1. members \subseteq Ids \X Principals /\ NoOne \notin Principals
        BY WorkspacesAssumption DEF Inv, WInv, WorkspacesTypeOK, Ids
    <2> QED BY <2>1 DEF LetIn
<1>3. SUFFICES /\ WInv'
               /\ company' \in [Watched -> Company]
               /\ policy' \in [Policies -> Seq(Version)] /\ today' \in 0..Days
               /\ alerts' \in [Keys -> Nat]
               /\ \A a \in Keys : alerts'[a] <= alerts[a]
               /\ NothingOutlivesItsWorkspace'
    <2>1. TypeOK'
        BY <1>1, <1>3 DEF TypeOK, WInv
    <2>2. \A c \in Crawlers : WellFormed(pass'[c])
        BY <1>1
    <2>3. \A c \in Crawlers : \A a \in Keys : Inserts(pass'[c], a) => Inserts(pass[c], a)
        BY <1>1
    <2>4. RoomForInserters'
        BY <2>3, <1>1, <1>3, NobodyStarts DEF Inv
    <2> QED BY <1>3, <2>1, <2>2, <2>4 DEF Inv
<1>4. CASE Tenancy
    <2>1. WInv'
        BY <1>4, WStep DEF Tenancy, Inv
    <2>2. /\ company' = [w \in Watched |-> IF owner'[w] = NoOne THEN NoCompany ELSE company[w]]
          /\ alerts' = [a \in Keys |-> IF owner'[a[1]] = NoOne THEN 0 ELSE alerts[a]]
          /\ policy' = policy /\ today' = today
        BY <1>4 DEF Tenancy, world
    <2>3. NoCompany \in Company /\ \A a \in Keys : a[1] \in Watched
        BY DEF NoCompany, Company, Keys
    <2>4. company' \in [Watched -> Company]
        BY <1>1, <2>2, <2>3
    <2>5. alerts' \in [Keys -> Nat] /\ \A a \in Keys : alerts'[a] <= alerts[a]
        BY <1>1, <2>2
    <2>6. NothingOutlivesItsWorkspace'
        BY <2>2, <2>3 DEF NothingOutlivesItsWorkspace
    <2> QED BY <1>1, <2>1, <2>2, <2>4, <2>5, <2>6
<1>5. CASE Users
    <2>1. PICK w \in Watched : BuildCompany(w) \/ \E choice \in Choices : SaveWatchlistSettings(w, choice)
        BY <1>5 DEF Users
    <2>2. LetIn(w) /\ UNCHANGED <<tenancy, world, alerts>>
        BY <2>1 DEF BuildCompany, SaveWatchlistSettings
    <2>3. company' \in [Watched -> Company] /\ \A v \in Watched : v # w => company'[v] = company[v]
        <3>1. CASE BuildCompany(w)
            BY <3>1, <1>1 DEF BuildCompany, Company
        <3>2. ASSUME NEW choice \in Choices, SaveWatchlistSettings(w, choice)
              PROVE  /\ company' \in [Watched -> Company]
                     /\ \A v \in Watched : v # w => company'[v] = company[v]
            <4>1. choice \in SUBSET Types
                BY WatchlistAssumption
            <4> QED BY <3>2, <4>1, <1>1 DEF SaveWatchlistSettings, Company
        <3> QED BY <2>1, <3>1, <3>2
    <2>4. WInv'
        BY <2>2, WStutter DEF Inv
    <2>5. NothingOutlivesItsWorkspace'
        <3> SUFFICES ASSUME NEW a \in Keys, owner[a[1]] = NoOne
                     PROVE  alerts[a] = 0 /\ company'[a[1]] = NoCompany
            BY <2>2 DEF NothingOutlivesItsWorkspace, tenancy
        <3>1. a[1] \in Watched /\ a[1] # w
            BY <1>2, <2>2 DEF Keys
        <3> QED BY <3>1, <2>3 DEF Inv, NothingOutlivesItsWorkspace
    <2>6. alerts' = alerts /\ policy' = policy /\ today' = today
        BY <2>2 DEF world
    <2> QED BY <1>1, <2>3, <2>4, <2>5, <2>6
<1>6. CASE Corpus
    <2>1. UNCHANGED <<tenancy, company, alerts>>
        BY <1>6 DEF Corpus, PublishVersion, NextDay
    <2>2. policy' \in [Policies -> Seq(Version)] /\ today' \in 0..Days
        <3>1. ASSUME NEW k \in Policies, NEW v \in Versions, PublishVersion(k, v)
              PROVE  policy' \in [Policies -> Seq(Version)] /\ today' \in 0..Days
            <4>1. v \in Version /\ policy[k] \in Seq(Version)
                BY <1>1, WatchlistAssumption
            <4>2. Append(policy[k], v) \in Seq(Version)
                BY <4>1
            <4>3. policy' = [policy EXCEPT ![k] = Append(policy[k], v)] /\ today' = today
                BY <3>1 DEF PublishVersion
            <4> QED BY <1>1, <4>2, <4>3
        <3>2. CASE NextDay
            BY <3>2, <1>1, WatchlistAssumption DEF NextDay
        <3> QED BY <1>6, <3>1, <3>2 DEF Corpus
    <2>3. WInv'
        BY <2>1, WStutter DEF Inv
    <2>4. NothingOutlivesItsWorkspace'
        BY <2>1 DEF Inv, NothingOutlivesItsWorkspace, tenancy
    <2>5. company' = company /\ alerts' = alerts /\ \A a \in Keys : alerts'[a] <= alerts[a]
        BY <2>1, <1>1
    <2> QED BY <1>1, <2>2, <2>3, <2>4, <2>5
<1> QED BY <1>4, <1>5, <1>6

-----------------------------------------------------------------------------
(* The theorems. *)

\* Nothing is there at first.
LEMMA InvInit == Init => Inv
<1> SUFFICES ASSUME Init
             PROVE  Inv
    OBVIOUS
<1>1. WInv
    BY WInit DEF Init
<1>2. /\ pass = [c \in Crawlers |-> Idle] /\ alerts = [a \in Keys |-> 0] /\ faults = 0
      /\ company = [w \in Watched |-> NoCompany] /\ policy = [k \in Policies |-> <<>>]
      /\ today = 0
    BY DEF Init
<1>3. Idle \in Pass /\ WellFormed(Idle) /\ \A a : ~Inserts(Idle, a)
    BY IdleIsWellFormed
<1>4. TypeOK
    <2>1. NoCompany \in Company /\ <<>> \in Seq(Version) /\ 0 \in 0..Days /\ 0 \in Nat
        BY WatchlistAssumption DEF NoCompany, Company
    <2> QED BY <1>1, <1>2, <1>3, <2>1 DEF TypeOK, WInv
<1>5. NothingOutlivesItsWorkspace
    BY <1>2 DEF NothingOutlivesItsWorkspace, Keys
<1>6. RoomForInserters
    <2> SUFFICES ASSUME NEW a \in Keys
                 PROVE  alerts[a] + Cardinality(Inserters(a)) <= Cardinality(Crawlers)
        BY DEF RoomForInserters
    <2>1. Inserters(a) = {}
        BY <1>2, <1>3 DEF Inserters
    <2>2. Cardinality(Inserters(a)) = 0 /\ Cardinality(Crawlers) \in Nat
        BY <2>1, FS_EmptySet, FS_CardinalityType, WatchlistAssumption
    <2> QED BY <1>2, <2>2
<1> QED BY <1>1, <1>2, <1>3, <1>4, <1>5, <1>6 DEF Inv

\* Every step keeps the invariant.
LEMMA InvStep == Inv /\ [Next]_vars => Inv'
<1> SUFFICES ASSUME Inv, [Next]_vars
             PROVE  Inv'
    OBVIOUS
<1>1. CASE Tenancy \/ Users \/ Corpus
    BY <1>1, WorldKeepsInv
<1>2. ASSUME NEW c \in Crawlers, Crawl(c)
      PROVE  Inv'
    <2>1. CASE \/ BeginPass(c) \/ CompanyDone(c)
               \/ \E w \in Watched : NextCompany(c, w)
               \/ \E n \in 1..4 : QueryRows(c, n)
        BY <2>1, ReadingKeepsInv
    <2>2. CASE SaveAlert(c)
        BY <2>2, SaveKeepsInv
    <2>3. CASE \E x \in Subjects : CheckAlert(c, x)
        BY <2>3, CheckKeepsInv
    <2> QED BY <1>2, <2>1, <2>2, <2>3 DEF Crawl
<1>3. ASSUME NEW c \in Crawlers, FailStatement(c) \/ Crash(c)
      PROVE  Inv'
    BY <1>3, FaultsKeepInv
<1>4. CASE UNCHANGED vars
    <2>1. WInv' /\ WorkspacesTypeOK'
        BY <1>4, WStutter DEF vars, Inv, WInv
    <2>2. UNCHANGED <<owner, policy, today, company, alerts, pass, faults>>
        BY <1>4 DEF vars, tenancy, world
    <2>3. TypeOK'
        BY <2>1, <2>2 DEF Inv, TypeOK
    <2>4. \A c \in Crawlers : WellFormed(pass'[c])
        BY <2>2 DEF Inv
    <2>5. NothingOutlivesItsWorkspace'
        BY <2>2 DEF Inv, NothingOutlivesItsWorkspace
    <2>6. RoomForInserters'
        BY <2>2 DEF Inv, RoomForInserters, Inserters
    <2> QED BY <2>1, <2>3, <2>4, <2>5, <2>6 DEF Inv
<1> QED BY <1>1, <1>2, <1>3, <1>4 DEF Next

LEMMA AlwaysInv == Spec => []Inv
BY InvInit, InvStep, PTL DEF Spec

\* The tables and the local variables of the passes keep their shapes; a
\* pass that holds rows knows the company and the category they belong to.
THEOREM WatchlistTypeCorrect == Spec => []TypeOK
<1>1. Inv => TypeOK
    BY DEF Inv
<1> QED BY <1>1, AlwaysInv, PTL

\* A workspace its owner can neither enter nor see comes from a creation that
\* is under way or was answered with an error.
THEOREM OrphanedWorkspaces == Spec => []OrphansComeFromFailures
<1>1. Inv => OrphansComeFromFailures
    BY DEF Inv, WInv
<1> QED BY <1>1, AlwaysInv, PTL

\* However many passes are run, there are no more alerts about a policy and a
\* category than crawler processes: with one process, no duplicates.
THEOREM BoundedDuplicates == Spec => []OneAlertPerCrawler
<1>1. Inv => OneAlertPerCrawler
    <2> SUFFICES ASSUME Inv, NEW a \in Keys, a[3] \in Policies
                 PROVE  alerts[a] <= Cardinality(Crawlers)
        BY DEF OneAlertPerCrawler
    <2>1. alerts[a] + Cardinality(Inserters(a)) <= Cardinality(Crawlers)
        BY DEF Inv, RoomForInserters
    <2>2. IsFiniteSet(Inserters(a)) /\ IsFiniteSet(Crawlers)
        BY WatchlistAssumption, FS_Subset DEF Inserters
    <2>3. Cardinality(Inserters(a)) \in Nat /\ Cardinality(Crawlers) \in Nat
        BY <2>2, FS_CardinalityType
    <2>4. alerts[a] \in Nat
        BY DEF Inv, TypeOK
    <2> QED BY <2>1, <2>3, <2>4
<1> QED BY <1>1, AlwaysInv, PTL

\* A pass leaves nothing behind in a workspace that was deleted under it.
THEOREM NothingLeftBehind == Spec => []NothingOutlivesItsWorkspace
<1>1. Inv => NothingOutlivesItsWorkspace
    BY DEF Inv
<1> QED BY <1>1, AlwaysInv, PTL

=============================================================================
