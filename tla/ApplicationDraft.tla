-------------------------- MODULE ApplicationDraft --------------------------
(***************************************************************************)
(* One application draft: the copy in the memory of the API process        *)
(* (src/api/internal/platform/application.go), the row of                  *)
(* application_draft_cache (src/api/internal/application/store.go) and the *)
(* handlers that keep the two together                                     *)
(* (src/api/internal/httpapi/application_handlers.go).                     *)
(*                                                                         *)
(* A handler changes the copy under the service's mutex, writes the row    *)
(* afterwards and puts the previous copy back when the write fails; other  *)
(* handlers run in between.  A copy holds a pointer to its map of          *)
(* sections, which all copies made from it share and an edit changes in    *)
(* place.  A map is named by the request that allocated it, an edit by the *)
(* request that made it.  The policy is published and has an approved      *)
(* template, so that only the checklist can block an approval.             *)
(***************************************************************************)
EXTENDS Naturals

CONSTANTS
    Creator,     \* the call of createApplication
    Updates,     \* calls of updateApplication
    Actions,     \* calls of applicationAction
    Reads,       \* calls of latestApplication and of getApplication
    MaxRestarts, \* bound: restarts of the API process
    OneWriter    \* TRUE: clients wait for the answer to one write before the next

Writers == {Creator} \cup Updates \cup Actions
Requests == Writers \cup Reads

ASSUME DraftAssumption ==
    /\ Updates \cap Actions = {} /\ Updates \cap Reads = {} /\ Actions \cap Reads = {}
    /\ Creator \notin Updates \cup Actions \cup Reads
    /\ MaxRestarts \in Nat
    /\ OneWriter \in BOOLEAN

VARIABLES
    memory,    \* state.Applications[id], version 0 without one
    heap,      \* heap[r]: the edits in the map of sections r allocated
    stored,    \* the row of application_draft_cache, version 0 without one
    checklist, \* the checklist the application refers to, in memory only
    request,   \* request[r]: the local variables of the handler of r
    restarts

vars == <<memory, heap, stored, checklist, request, restarts>>

Status == {"NONE", "DRAFT_READY", "PENDING_REVIEW", "APPROVED", "GENERATED"}
Rank == [s \in Status |-> CASE s = "NONE" -> 0 [] s = "DRAFT_READY" -> 1
                            [] s = "PENDING_REVIEW" -> 2 [] s = "APPROVED" -> 3
                            [] s = "GENERATED" -> 4]

\* evidenced: history, the draft was approved on a complete checklist.
Draft == [version : Nat, status : Status, map : Requests, evidenced : BOOLEAN]
Row == [version : Nat, status : Status, edits : SUBSET Updates, evidenced : BOOLEAN]
NoDraft == [version |-> 0, status |-> "NONE", map |-> Creator, evidenced |-> FALSE]
NoRow == [version |-> 0, status |-> "NONE", edits |-> {}, evidenced |-> FALSE]

Step == {"new", "begun", "applied", "encoded", "failed", "read",
         "saved",    \* answered with the new draft, which is stored
         "refused",  \* answered with an error, or a read that is answered
         "lost"}     \* the process died under the request
Handler == [pc : Step, draft : Draft, previous : Draft, edits : SUBSET Updates]
Fresh == [pc |-> "new", draft |-> NoDraft, previous |-> NoDraft, edits |-> {}]

\* Copies, rows, maps and local variables have the shapes of platform.Application
\* and of the schema.
TypeOK ==
    /\ memory \in Draft
    /\ heap \in [Requests -> SUBSET Updates]
    /\ stored \in Row
    /\ checklist \in {"none", "incomplete", "complete"}
    /\ request \in [Requests -> Handler]
    /\ restarts \in Nat

Init ==
    /\ memory = NoDraft
    /\ heap = [r \in Requests |-> {}]
    /\ stored = NoRow
    /\ checklist = "none"
    /\ request = [r \in Requests |-> Fresh]
    /\ restarts = 0

Become(r, state) == request' = [request EXCEPT ![r] = state]
Goto(r, step) == Become(r, [request[r] EXCEPT !.pc = step])

Busy == {"begun", "applied", "encoded", "failed"}
Writing(r) == r \in Writers /\ request[r].pc \in Busy
MayWrite == OneWriter => \A r \in Writers : ~Writing(r)

-----------------------------------------------------------------------------
(* The checklist. *)

\* Its items are available when the passport fields they name are confirmed.
CreateChecklist ==
    /\ checklist = "none"
    /\ request[Creator].pc = "new"
    /\ checklist' \in {"incomplete", "complete"}
    /\ UNCHANGED <<memory, heap, stored, request, restarts>>

UpdateChecklistItem ==
    /\ checklist # "none"
    /\ checklist' \in {"incomplete", "complete"}
    /\ UNCHANGED <<memory, heap, stored, request, restarts>>

-----------------------------------------------------------------------------
(* The copy in memory. *)

\* Mutant: the new draft has a status the table does not have.
CreateAsDraft ==
    /\ request[Creator].pc = "new"
    /\ checklist # "none"
    /\ MayWrite
    /\ memory' = [version |-> 1, status |-> "DRAFT", map |-> Creator,
                  evidenced |-> FALSE]
    /\ Become(Creator, [Fresh EXCEPT !.pc = "applied", !.draft = memory'])
    /\ UNCHANGED <<heap, stored, checklist, restarts>>

\* Generated or fallback sections; a failed save removes the copy again, which
\* is the previous state to go back to.
CreateApplicationFromTemplate ==
    /\ request[Creator].pc = "new"
    /\ checklist # "none"
    /\ MayWrite
    /\ memory' = [version |-> 1, status |-> "DRAFT_READY", map |-> Creator,
                  evidenced |-> FALSE]
    /\ Become(Creator, [Fresh EXCEPT !.pc = "applied", !.draft = memory'])
    /\ UNCHANGED <<heap, stored, checklist, restarts>>

\* previous, read before the change and under another acquisition of the mutex.
\* The client knows the draft by an answer of createApplication or of
\* latestApplication, which both need its row.
ReadPrevious(r) ==
    /\ r \in Updates \cup Actions
    /\ request[r].pc = "new"
    /\ stored.version > 0
    /\ memory.version > 0
    /\ MayWrite
    /\ Become(r, [Fresh EXCEPT !.pc = "begun", !.previous = memory])
    /\ UNCHANGED <<memory, heap, stored, checklist, restarts>>

Apply(r, draft) ==
    /\ memory' = draft
    /\ Become(r, [request[r] EXCEPT !.pc = "applied", !.draft = draft])

Editable(r, e) ==
    /\ r \in Updates
    /\ request[r].pc = "begun"
    /\ memory.version > 0
    /\ e = memory.version
    /\ memory.status = "DRAFT_READY"

\* e is the version the client's edit is based on; getApplication shows every
\* version memory has had.
UpdateApplication(r, e) ==
    /\ Editable(r, e)
    /\ heap' = [heap EXCEPT ![memory.map] = @ \cup {r}]
    /\ Apply(r, [memory EXCEPT !.version = @ + 1])
    /\ UNCHANGED <<stored, checklist, restarts>>

\* A section is too large: the sections before it are in the map already.
UpdateTooLarge(r, e) ==
    /\ Editable(r, e)
    /\ heap' = [heap EXCEPT ![memory.map] = @ \cup {r}]
    /\ Goto(r, "refused")
    /\ UNCHANGED <<memory, stored, checklist, restarts>>

Transition(r, from, to, evidence) ==
    /\ r \in Actions
    /\ request[r].pc = "begun"
    /\ memory.version > 0
    /\ memory.status = from
    /\ Apply(r, [memory EXCEPT !.version = @ + 1, !.status = to, !.evidenced = evidence])
    /\ UNCHANGED <<heap, stored, checklist, restarts>>

Submit(r) == Transition(r, "DRAFT_READY", "PENDING_REVIEW", FALSE)

\* Mutant: the reasons are not computed again.
ApproveUnchecked(r) == Transition(r, "PENDING_REVIEW", "APPROVED", checklist = "complete")

\* applicationBlockers finds what a required item lacks; a checklist that is
\* not in memory has no items.
Approve(r) ==
    /\ checklist # "incomplete"
    /\ Transition(r, "PENDING_REVIEW", "APPROVED", checklist = "complete")

Generate(r) == Transition(r, "APPROVED", "GENERATED", memory.evidenced)

\* Not found, a version or status conflict, an action that is blocked: nothing
\* but the answer, and reasons that are computed anew for every approval.
Refuse(r) ==
    /\ request[r].pc \in {"new", "begun"}
    /\ Goto(r, "refused")
    /\ UNCHANGED <<memory, heap, stored, checklist, restarts>>

-----------------------------------------------------------------------------
(* The row. *)

\* SaveDraft encodes the shared map, outside of the mutex ...
EncodeSections(r) ==
    /\ request[r].pc = "applied"
    /\ Become(r, [request[r] EXCEPT !.pc = "encoded",
                                    !.edits = heap[request[r].draft.map]])
    /\ UNCHANGED <<memory, heap, stored, checklist, restarts>>

\* ... and writes the row unless its version is as new.
RowOf(r) == [version |-> request[r].draft.version, status |-> request[r].draft.status,
             edits |-> request[r].edits, evidenced |-> request[r].draft.evidenced]

\* Mutant: the upsert without its WHERE.
WriteAnyVersion(r) == stored' = RowOf(r)

WriteRow(r) ==
    /\ stored.version < request[r].draft.version
    /\ stored' = RowOf(r)

SaveDraft(r) ==
    /\ request[r].pc = "encoded"
    /\ WriteRow(r)
    /\ Goto(r, "saved")
    /\ UNCHANGED <<memory, heap, checklist, restarts>>

\* No row was affected, the statement failed, or only its answer was lost.
SaveDraftFails(r) ==
    /\ request[r].pc = "encoded"
    /\ WriteRow(r) \/ UNCHANGED stored
    /\ Goto(r, "failed")
    /\ UNCHANGED <<memory, heap, checklist, restarts>>

\* Mutant: the change stays in memory when it could not be stored.
KeepUnsaved(r) ==
    /\ request[r].pc = "failed"
    /\ Goto(r, "refused")
    /\ UNCHANGED <<memory, heap, stored, checklist, restarts>>

\* The previous version and status, with the map that has the new sections.
RestorePrevious(r) ==
    /\ request[r].pc = "failed"
    /\ memory' = request[r].previous
    /\ Goto(r, "refused")
    /\ UNCHANGED <<heap, stored, checklist, restarts>>

-----------------------------------------------------------------------------
(* Reads. *)

\* latestApplication, and getApplication when memory has no copy.
ReadDraft(r) ==
    /\ r \in Reads
    /\ request[r].pc = "new"
    /\ stored.version > 0
    /\ heap' = [heap EXCEPT ![r] = stored.edits]
    /\ Become(r, [Fresh EXCEPT !.pc = "read",
                               !.draft = [version |-> stored.version, status |-> stored.status,
                                          map |-> r, evidenced |-> stored.evidenced]])
    /\ UNCHANGED <<memory, stored, checklist, restarts>>

RestoreApplication(r) ==
    /\ request[r].pc = "read"
    /\ memory' = request[r].draft
    /\ Goto(r, "refused")
    /\ UNCHANGED <<heap, stored, checklist, restarts>>

\* A new process: nothing but the row is left.
Restart ==
    /\ restarts < MaxRestarts
    /\ restarts' = restarts + 1
    /\ memory' = NoDraft
    /\ checklist' = "none"
    /\ request' = [r \in Requests |-> IF request[r].pc \in Busy \cup {"read"}
                                      THEN [request[r] EXCEPT !.pc = "lost"]
                                      ELSE request[r]]
    /\ UNCHANGED <<heap, stored>>

-----------------------------------------------------------------------------

Next ==
    \/ CreateChecklist \/ UpdateChecklistItem
    \/ CreateApplicationFromTemplate
    \/ \E r \in Requests :
          \/ ReadPrevious(r) \/ Refuse(r)
          \/ \E e \in 1..memory.version : UpdateApplication(r, e) \/ UpdateTooLarge(r, e)
          \/ Submit(r) \/ Approve(r) \/ Generate(r)
          \/ EncodeSections(r) \/ SaveDraft(r) \/ SaveDraftFails(r) \/ RestorePrevious(r)
          \/ ReadDraft(r) \/ RestoreApplication(r)
    \/ Restart

Spec == Init /\ [][Next]_vars

-----------------------------------------------------------------------------

\* An edit the client was told is saved is in the row from then on, through
\* failed saves, reloads that put old copies back, and restarts.
AcknowledgedEditsAreStored ==
    \A r \in Updates : request[r].pc = "saved" => r \in stored.edits

\* The stored status never goes back: a submission or approval that reached
\* the row is not undone by an edit or reload that started before it.
StoredStatusAdvances ==
    [][Rank[stored'.status] >= Rank[stored.status]]_vars

\* Between two writes memory never shows a version that is not stored, and a
\* copy of the stored version has its status and all its edits.  It may be
\* behind: the version check of SaveDraft then refuses the next write.
Agrees(draft) ==
    /\ draft.version <= stored.version
    /\ draft.version = stored.version =>
          /\ draft.status = stored.status
          /\ stored.edits \subseteq heap[draft.map]

MemoryAgreesWithRow == (\A r \in Writers : ~Writing(r)) => Agrees(memory)

\* An application is only approved and generated when its checklist was
\* complete (applicationBlockers).
ApprovalNeedsEvidence ==
    /\ memory.status \in {"APPROVED", "GENERATED"} => memory.evidenced
    /\ stored.status \in {"APPROVED", "GENERATED"} => stored.evidenced

\* Which the code grants while the process that made the checklist lives, also
\* to clients that overlap.
ApprovalNeedsEvidenceInOneLife == restarts = 0 => ApprovalNeedsEvidence

=============================================================================
