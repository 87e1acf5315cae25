----------------------------- MODULE Workspaces -----------------------------
(***************************************************************************)
(* Workspaces and their members (src/api/internal/tenancy/bootstrap.go)    *)
(* and the requests that make and delete them (authenticate,               *)
(* createWorkspace and deleteWorkspace of httpapi/server.go).  Every       *)
(* request first makes sure that the default workspace of its principal is *)
(* there, which has the principal's id.  Each statement is atomic; a       *)
(* creation has two.                                                       *)
(***************************************************************************)
CONSTANTS
    Principals,  \* accounts; each is also the id of its default workspace
    Extra,       \* ids of further workspaces: uuids, each of one creation
    Requests,    \* HTTP requests under way at a time
    NoOne

Ids == Principals \cup Extra

ASSUME WorkspacesAssumption ==
    /\ Principals \cap Extra = {}
    /\ NoOne \notin Ids

VARIABLES
    owner,    \* the rows of workspaces: owner[w], or NoOne without a row
    members,  \* workspace_members: pairs of a workspace and a principal
    request,  \* request[r]: the handler of r
    creation  \* creation[w]: how the creation of w was answered

tenancy == <<owner, members, request, creation>>

Handler == [principal : Principals \cup {NoOne}, made : Extra \cup {NoOne}]
Ready == [principal |-> NoOne, made |-> NoOne]

WorkspacesTypeOK ==
    /\ owner \in [Ids -> Principals \cup {NoOne}]
    /\ members \subseteq Ids \X Principals
    /\ request \in [Requests -> Handler]
    /\ creation \in [Extra -> {"none", "pending", "created", "failed"}]

WorkspacesInit ==
    /\ owner = [w \in Ids |-> NoOne]
    /\ members = {}
    /\ request = [r \in Requests |-> Ready]
    /\ creation = [w \in Extra |-> "none"]

Answer(r) == request' = [request EXCEPT ![r] = Ready]
Entered(r) == request[r].principal # NoOne /\ request[r].made = NoOne

\* The workspaces of a member; those that List shows.
List(p) == {w \in Ids : <<w, p>> \in members}

\* One statement for the workspace and its member, without effect on rows that
\* are there.
Ensure(p) ==
    /\ owner' = [owner EXCEPT ![p] = p]
    /\ members' = members \cup {<<p, p>>}

\* The default workspace, which a request without a header means, or one that
\* the principal is a member of.
Resolve(p, w) == w = p \/ w \in List(p)

\* Without access to w the request ends here.
Authenticate(r, p, w) ==
    /\ request[r] = Ready
    /\ Ensure(p)
    /\ request' = IF Resolve(p, w) THEN [request EXCEPT ![r].principal = p] ELSE request
    /\ UNCHANGED creation

InsertWorkspace(r, w) ==
    /\ Entered(r)
    /\ creation[w] = "none"
    /\ owner' = [owner EXCEPT ![w] = request[r].principal]
    /\ creation' = [creation EXCEPT ![w] = "pending"]
    /\ request' = [request EXCEPT ![r].made = w]
    /\ UNCHANGED members

\* Mutant: the columns of the membership swapped.
AddMemberSwapped(r) == members' = members \cup {<<request[r].principal, request[r].made>>}

\* Nobody else can delete the workspace yet: List does not show it.
AddMember(r) == members' = members \cup {<<request[r].made, request[r].principal>>}

\* Mutant: the answer does not wait for the second statement.
AnswerWithoutMember(r) ==
    /\ request[r].made # NoOne
    /\ creation' = [creation EXCEPT ![request[r].made] = "created"]
    /\ Answer(r)
    /\ UNCHANGED <<owner, members>>

InsertMember(r) ==
    /\ request[r].made # NoOne
    /\ AddMember(r)
    /\ creation' = [creation EXCEPT ![request[r].made] = "created"]
    /\ Answer(r)
    /\ UNCHANGED owner

\* The second statement fails, or is applied and only its answer is lost.
CreateFails(r) ==
    /\ request[r].made # NoOne
    /\ UNCHANGED members \/ AddMember(r)
    /\ creation' = [creation EXCEPT ![request[r].made] = "failed"]
    /\ Answer(r)
    /\ UNCHANGED owner

\* Clients know the workspaces that List shows them and the default ones; the
\* statement asks for the owner, and members go with their workspace.
DeleteWorkspace(r, w) ==
    /\ Entered(r)
    /\ w \in Principals \cup List(request[r].principal)
    /\ IF w # request[r].principal /\ owner[w] = request[r].principal
       THEN /\ owner' = [owner EXCEPT ![w] = NoOne]
            /\ members' = {m \in members : m[1] # w}
       ELSE UNCHANGED <<owner, members>>
    /\ Answer(r)
    /\ UNCHANGED creation

\* Any other request, or one that its handler refuses.
OtherRequest(r) ==
    /\ Entered(r)
    /\ Answer(r)
    /\ UNCHANGED <<owner, members, creation>>

WorkspacesNext ==
    \E r \in Requests :
        \/ \E p \in Principals, w \in Ids : Authenticate(r, p, w)
        \/ \E w \in Extra : InsertWorkspace(r, w)
        \/ InsertMember(r) \/ CreateFails(r) \/ OtherRequest(r)
        \/ \E w \in Ids : DeleteWorkspace(r, w)

-----------------------------------------------------------------------------

\* A workspace its owner cannot enter or see, because createWorkspace inserts
\* two rows without a transaction, comes from a creation that is under way or
\* was answered with an error: one that was answered with success is usable.
OrphansComeFromFailures ==
    \A w \in Ids : owner[w] # NoOne /\ <<w, owner[w]>> \notin members =>
        w \in Extra /\ creation[w] \in {"pending", "failed"}

=============================================================================
