----------------------- MODULE ApplicationDraftProofs -----------------------
(***************************************************************************)
(* Theorems about ApplicationDraft for any number of updates, actions,     *)
(* reloads and restarts: what a client that waits for the answer to each   *)
(* of its writes (OneWriter) may rely on.                                  *)
(*                                                                         *)
(* The invariant follows a copy of the draft from where it is read to      *)
(* where it is stored.  A copy that no write is working on agrees with the *)
(* row (Agrees); the one a write is working on is at most one version      *)
(* ahead, and when it is ahead it has everything the row has (Extends).    *)
(***************************************************************************)
EXTENDS ApplicationDraft, TLAPS

Ahead == {"applied", "encoded"}
Touching == Ahead \cup {"failed"}

\* Only writes change and store the draft, only reads bring it back.
Roles ==
    /\ \A r \in Reads : request[r].pc \in {"new", "read", "refused", "lost"}
    /\ \A r \in Writers : request[r].pc # "read"

Alone == \A r, s \in Writers : Writing(r) /\ Writing(s) => r = s

NoRowYet == stored.version = 0 => stored = NoRow

\* A map that a read is still to allocate is in no copy.
Allocated(draft) == draft.map \in Reads => request[draft.map].pc # "new"

Extends(draft) ==
    /\ draft.version <= stored.version + 1
    /\ draft.version = stored.version + 1 =>
          /\ Rank[stored.status] <= Rank[draft.status]
          /\ stored.edits \subseteq heap[draft.map]

\* What write r is working on before its row is encoded ...
Applied(r) ==
    /\ Extends(request[r].draft)
    /\ Allocated(request[r].draft)
    /\ r \in Updates => r \in heap[request[r].draft.map]
    /\ memory = request[r].draft \/ Agrees(memory)

\* ... and after.
Encoded(r) ==
    /\ request[r].edits \subseteq heap[request[r].draft.map]
    /\ request[r].draft.version = stored.version + 1 => stored.edits \subseteq request[r].edits
    /\ r \in Updates => r \in request[r].edits

ReadCopies ==
    \A r \in Reads : request[r].pc = "read" =>
        Agrees(request[r].draft) /\ Allocated(request[r].draft)

PreviousCopies ==
    \A r \in Writers : request[r].pc \in Busy =>
        Agrees(request[r].previous) /\ Allocated(request[r].previous)

Written ==
    \A r \in Writers : /\ request[r].pc \in Ahead => Applied(r)
                       /\ request[r].pc = "encoded" => Encoded(r)

MemoryCopy ==
    /\ Allocated(memory)
    /\ (\A r \in Writers : request[r].pc \notin Touching) => Agrees(memory)

IInv ==
    /\ TypeOK
    /\ Roles
    /\ Alone
    /\ NoRowYet
    /\ ReadCopies
    /\ PreviousCopies
    /\ Written
    /\ MemoryCopy
    /\ AcknowledgedEditsAreStored

-----------------------------------------------------------------------------
(* Types. *)

\* The checks on a request's record, one fact for each of its components.
LEMMA HandlerShape ==
    ASSUME NEW h \in Handler
    PROVE  /\ h.pc \in Step
           /\ h.draft \in Draft
           /\ h.previous \in Draft
           /\ h.edits \in SUBSET Updates
BY DEF Handler

\* The initial state has the right types.
LEMMA TypeInit == Init => TypeOK
BY DraftAssumption
   DEF Init, TypeOK, NoDraft, NoRow, Fresh, Draft, Row, Handler, Step, Status, Requests, Writers

\* Every step keeps them: the drafts and rows it makes are put together from
\* the ones there are.
LEMMA TypeStep == TypeOK /\ [Next]_vars => TypeOK'
<1> SUFFICES ASSUME TypeOK, [Next]_vars PROVE TypeOK'
    OBVIOUS
<1> USE DraftAssumption
<1>1. CASE CreateChecklist \/ UpdateChecklistItem
    BY <1>1 DEF CreateChecklist, UpdateChecklistItem, TypeOK
<1>2. CASE CreateApplicationFromTemplate
    <2>1. memory' \in Draft
        BY <1>2 DEF CreateApplicationFromTemplate, Draft, Status, Requests, Writers
    <2>2. [Fresh EXCEPT !.pc = "applied", !.draft = memory'] \in Handler
        BY <2>1 DEF Fresh, NoDraft, Draft, Handler, Step, Status, Requests, Writers
    <2> QED BY <1>2, <2>1, <2>2 DEF CreateApplicationFromTemplate, Become, TypeOK
<1>3. ASSUME NEW r \in Requests, ReadPrevious(r) PROVE TypeOK'
    <2>1. [Fresh EXCEPT !.pc = "begun", !.previous = memory] \in Handler
        BY DEF TypeOK, Fresh, NoDraft, Draft, Handler, Step, Status, Requests, Writers
    <2> QED BY <1>3, <2>1 DEF ReadPrevious, Become, TypeOK
<1>4. ASSUME NEW r \in Requests, NEW step \in Step, Goto(r, step)
      PROVE request' \in [Requests -> Handler]
    BY <1>4 DEF Goto, Become, TypeOK, Handler
<1>5. ASSUME NEW r \in Requests, Refuse(r) \/ RestoreApplication(r) \/ RestorePrevious(r)
      PROVE TypeOK'
    <2>1. Goto(r, "refused") /\ "refused" \in Step
        BY <1>5 DEF Refuse, RestoreApplication, RestorePrevious, Step
    <2>2. request' \in [Requests -> Handler]
        BY <1>4, <2>1
    <2>3. memory' \in Draft
        BY <1>5, HandlerShape DEF Refuse, RestoreApplication, RestorePrevious, TypeOK
    <2> QED BY <1>5, <2>2, <2>3 DEF Refuse, RestoreApplication, RestorePrevious, TypeOK
<1>6. ASSUME NEW r \in Requests, NEW draft \in Draft, Apply(r, draft)
      PROVE memory' \in Draft /\ request' \in [Requests -> Handler]
    <2>1. [request[r] EXCEPT !.pc = "applied", !.draft = draft] \in Handler
        BY <1>6 DEF TypeOK, Handler, Step
    <2> QED BY <1>6, <2>1 DEF Apply, Become, TypeOK
<1>7. ASSUME NEW r \in Requests, NEW e \in 1..memory.version, UpdateApplication(r, e)
      PROVE TypeOK'
    <2>1. [memory EXCEPT !.version = @ + 1] \in Draft
        BY DEF TypeOK, Draft
    <2>2. memory' \in Draft /\ request' \in [Requests -> Handler]
        BY <1>6, <1>7, <2>1 DEF UpdateApplication
    <2>3. heap' \in [Requests -> SUBSET Updates]
        BY <1>7 DEF UpdateApplication, Editable, TypeOK
    <2> QED BY <1>7, <2>2, <2>3 DEF UpdateApplication, TypeOK
<1>8. ASSUME NEW r \in Requests, NEW e \in 1..memory.version, UpdateTooLarge(r, e)
      PROVE TypeOK'
    <2>1. Goto(r, "refused") /\ "refused" \in Step
        BY <1>8 DEF UpdateTooLarge, Step
    <2>2. request' \in [Requests -> Handler]
        BY <1>4, <2>1
    <2>3. heap' \in [Requests -> SUBSET Updates]
        BY <1>8 DEF UpdateTooLarge, Editable, TypeOK
    <2> QED BY <1>8, <2>2, <2>3 DEF UpdateTooLarge, TypeOK
<1>9. ASSUME NEW r \in Requests, NEW from, NEW to \in Status, NEW evidence \in BOOLEAN,
             Transition(r, from, to, evidence)
      PROVE TypeOK'
    <2> DEFINE version == memory.version + 1
    <2>a. memory \in Draft /\ version \in Nat
        BY DEF TypeOK, Draft
    <2> HIDE DEF version
    <2>b. [memory EXCEPT !.version = version, !.status = to, !.evidenced = evidence] \in Draft
        BY <2>a, Zenon DEF Draft
    <2>1. [memory EXCEPT !.version = @ + 1, !.status = to, !.evidenced = evidence] \in Draft
        BY <2>b DEF version
    <2>2. memory' \in Draft /\ request' \in [Requests -> Handler]
        BY <1>6, <1>9, <2>1 DEF Transition
    <2> QED BY <1>9, <2>2 DEF Transition, TypeOK
<1>10. ASSUME NEW r \in Requests, Submit(r) \/ Approve(r) \/ Generate(r) PROVE TypeOK'
    <2>1. {"PENDING_REVIEW", "APPROVED", "GENERATED"} \subseteq Status
        BY DEF Status
    <2>2. memory.evidenced \in BOOLEAN /\ (checklist = "complete") \in BOOLEAN
        BY DEF TypeOK, Draft
    <2> QED BY <1>9, <1>10, <2>1, <2>2 DEF Submit, Approve, Generate
<1>11. ASSUME NEW r \in Requests, EncodeSections(r) PROVE TypeOK'
    <2>1. heap[request[r].draft.map] \in SUBSET Updates
        BY HandlerShape DEF TypeOK, Draft
    <2>2. [request[r] EXCEPT !.pc = "encoded", !.edits = heap[request[r].draft.map]] \in Handler
        BY <2>1 DEF TypeOK, Handler, Step
    <2> QED BY <1>11, <2>2 DEF EncodeSections, Become, TypeOK
<1>12. ASSUME NEW r \in Requests, SaveDraft(r) \/ SaveDraftFails(r) PROVE TypeOK'
    <2>1. RowOf(r) \in Row
        BY HandlerShape DEF RowOf, Row, TypeOK, Draft
    <2>2. stored' \in Row
        BY <1>12, <2>1 DEF SaveDraft, SaveDraftFails, WriteRow, TypeOK
    <2>3. (Goto(r, "saved") \/ Goto(r, "failed")) /\ {"saved", "failed"} \subseteq Step
        BY <1>12 DEF SaveDraft, SaveDraftFails, Step
    <2>4. request' \in [Requests -> Handler]
        BY <1>4, <2>3
    <2> QED BY <1>12, <2>2, <2>4 DEF SaveDraft, SaveDraftFails, TypeOK
<1>13. ASSUME NEW r \in Requests, ReadDraft(r) PROVE TypeOK'
    <2> DEFINE draft == [version |-> stored.version, status |-> stored.status,
                         map |-> r, evidenced |-> stored.evidenced]
    <2>1. draft \in Draft /\ stored.edits \in SUBSET Updates
        BY DEF TypeOK, Row, Draft
    <2>2. [Fresh EXCEPT !.pc = "read", !.draft = draft] \in Handler
        BY <2>1 DEF Fresh, NoDraft, Draft, Handler, Step, Status, Requests, Writers
    <2> HIDE DEF draft
    <2>3. Become(r, [Fresh EXCEPT !.pc = "read", !.draft = draft])
        BY <1>13 DEF ReadDraft, draft
    <2> QED BY <1>13, <2>1, <2>2, <2>3 DEF ReadDraft, Become, TypeOK
<1>14. CASE Restart
    <2>1. NoDraft \in Draft
        BY DEF NoDraft, Draft, Status, Requests, Writers
    <2>2. \A r \in Requests : [request[r] EXCEPT !.pc = "lost"] \in Handler
        BY DEF TypeOK, Handler, Step
    <2> QED BY <1>14, <2>1, <2>2 DEF Restart, TypeOK
<1>15. CASE UNCHANGED vars
    BY <1>15 DEF vars, TypeOK
<1> QED
    BY <1>1, <1>2, <1>3, <1>5, <1>7, <1>8, <1>10, <1>11, <1>12, <1>13, <1>14, <1>15 DEF Next

\* TypeOK holds in every reachable state, whoever writes.
THEOREM TypeCorrect == Spec => []TypeOK
BY TypeInit, TypeStep, PTL DEF Spec

-----------------------------------------------------------------------------
(* The invariant. *)

\* What a step that touches one request leaves alone.
LEMMA Others ==
    ASSUME TypeOK, NEW r \in Requests, NEW h, Become(r, h)
    PROVE  request'[r] = h /\ \A s \in Requests : s # r => request'[s] = request[s]
BY DEF TypeOK, Become

\* Statuses are ranked by numbers.
LEMMA RankIsNat == \A status \in Status : Rank[status] \in Nat
BY DEF Rank, Status

\* The components of a request's record and of the copies and the row.
LEMMA Shapes ==
    ASSUME TypeOK
    PROVE  /\ \A s \in Requests : /\ request[s].draft \in Draft /\ request[s].previous \in Draft
                                  /\ request[s].edits \subseteq Updates
           /\ \A d \in Draft : d.version \in Nat /\ d.status \in Status /\ d.map \in Requests
           /\ memory \in Draft
           /\ stored.version \in Nat /\ stored.status \in Status
BY HandlerShape DEF TypeOK, Draft, Row

\* A new draft may be ahead of a row that is not there.
LEMMA CreateKeeps ==
    ASSUME IInv, OneWriter, CreateApplicationFromTemplate
    PROVE  IInv'
<1> USE DraftAssumption DEF Writers, Requests
<1>a. TypeOK /\ TypeOK'
    BY TypeStep DEF IInv, Next
<1>b. /\ UNCHANGED <<heap, stored>>
      /\ \A s \in Writers : ~Writing(s)
      /\ request[Creator].pc = "new" /\ request'[Creator].pc = "applied"
      /\ request'[Creator].draft = memory' /\ request'[Creator].previous = NoDraft
      /\ memory'.version = 1 /\ memory'.status = "DRAFT_READY" /\ memory'.map = Creator
      /\ \A s \in Requests : s # Creator => request'[s] = request[s]
    <2>1. Become(Creator, [Fresh EXCEPT !.pc = "applied", !.draft = memory'])
        BY DEF CreateApplicationFromTemplate
    <2>2. /\ request'[Creator] = [Fresh EXCEPT !.pc = "applied", !.draft = memory']
          /\ \A s \in Requests : s # Creator => request'[s] = request[s]
        BY <1>a, <2>1, Others
    <2> QED BY <1>a, <2>2 DEF CreateApplicationFromTemplate, MayWrite, Fresh
<1>1. Roles'
    BY <1>a, <1>b DEF IInv, Roles
<1>2. Alone'
    BY <1>a, <1>b DEF IInv, Alone, Writing, Busy
<1>3. NoRowYet'
    BY <1>a, <1>b DEF IInv, NoRowYet
<1>4. ReadCopies'
    BY <1>a, <1>b DEF IInv, ReadCopies, Agrees, Allocated
<1>5. PreviousCopies'
    BY <1>a, <1>b
       DEF IInv, PreviousCopies, Agrees, Allocated, NoRowYet, NoRow, NoDraft,
           Writing, Busy, TypeOK, Row
<1>6. Written'
    BY <1>a, <1>b
       DEF IInv, Written, Applied, Encoded, Extends, Agrees, Allocated, Ahead,
           NoRowYet, NoRow, Rank, Status, Writing, Busy, TypeOK, Row
<1>7. MemoryCopy'
    BY <1>a, <1>b DEF IInv, MemoryCopy, Agrees, Allocated, Touching, Ahead
<1>8. AcknowledgedEditsAreStored'
    BY <1>a, <1>b DEF IInv, AcknowledgedEditsAreStored
<1> QED BY <1>a, <1>1, <1>2, <1>3, <1>4, <1>5, <1>6, <1>7, <1>8 DEF IInv

\* What a write starts from is the copy in memory, which no other write works on.
LEMMA ReadPreviousKeeps ==
    ASSUME IInv, OneWriter, NEW r \in Writers, ReadPrevious(r)
    PROVE  IInv'
<1> USE DraftAssumption DEF Writers, Requests
<1>a. TypeOK /\ TypeOK'
    BY TypeStep DEF IInv, Next
<1>b. /\ UNCHANGED <<memory, heap, stored>>
      /\ \A s \in Writers : ~Writing(s)
      /\ request[r].pc = "new" /\ request'[r].pc = "begun" /\ request'[r].previous = memory
      /\ \A s \in Requests : s # r => request'[s] = request[s]
    <2>1. Become(r, [Fresh EXCEPT !.pc = "begun", !.previous = memory])
        BY DEF ReadPrevious
    <2>2. /\ request'[r] = [Fresh EXCEPT !.pc = "begun", !.previous = memory]
          /\ \A s \in Requests : s # r => request'[s] = request[s]
        BY <1>a, <2>1, Others
    <2> QED BY <1>a, <2>2 DEF ReadPrevious, MayWrite, Fresh
<1>1. Roles'
    BY <1>a, <1>b DEF IInv, Roles
<1>2. Alone'
    BY <1>a, <1>b DEF IInv, Alone, Writing, Busy
<1>3. NoRowYet'
    BY <1>a, <1>b DEF IInv, NoRowYet
<1>4. ReadCopies'
    BY <1>a, <1>b DEF IInv, ReadCopies, Agrees, Allocated
<1>5. PreviousCopies'
    BY <1>a, <1>b
       DEF IInv, PreviousCopies, Agrees, Allocated, MemoryCopy, Touching, Ahead,
           Writing, Busy
<1>6. Written'
    BY <1>a, <1>b
       DEF IInv, Written, Applied, Encoded, Extends, Agrees, Allocated, Ahead,
           Writing, Busy
<1>7. MemoryCopy'
    BY <1>a, <1>b
       DEF IInv, MemoryCopy, Agrees, Allocated, Touching, Ahead, Writing, Busy
<1>8. AcknowledgedEditsAreStored'
    BY <1>a, <1>b DEF IInv, AcknowledgedEditsAreStored
<1> QED BY <1>a, <1>1, <1>2, <1>3, <1>4, <1>5, <1>6, <1>7, <1>8 DEF IInv

\* An answer without a change ends a write that has not begun to change anything.
LEMMA RefuseKeeps ==
    ASSUME IInv, NEW r \in Requests, Refuse(r)
    PROVE  IInv'
<1> USE DraftAssumption DEF Writers, Requests
<1>a. TypeOK /\ TypeOK'
    BY TypeStep DEF IInv, Next
<1>b. /\ UNCHANGED <<memory, heap, stored>>
      /\ request[r].pc \in {"new", "begun"} /\ request'[r].pc = "refused"
      /\ \A s \in Requests : s # r => request'[s] = request[s]
    BY <1>a, Others DEF Refuse, Goto, TypeOK, Handler
<1>1. Roles'
    BY <1>a, <1>b DEF IInv, Roles
<1>2. Alone'
    BY <1>a, <1>b DEF IInv, Alone, Writing, Busy
<1>3. NoRowYet'
    BY <1>a, <1>b DEF IInv, NoRowYet
<1>4. ReadCopies'
    BY <1>a, <1>b DEF IInv, ReadCopies, Agrees, Allocated
<1>5. PreviousCopies'
    BY <1>a, <1>b DEF IInv, PreviousCopies, Agrees, Allocated, Busy
<1>6. Written'
    BY <1>a, <1>b DEF IInv, Written, Applied, Encoded, Extends, Agrees, Allocated, Ahead
<1>7. MemoryCopy'
    BY <1>a, <1>b DEF IInv, MemoryCopy, Agrees, Allocated, Touching, Ahead
<1>8. AcknowledgedEditsAreStored'
    BY <1>a, <1>b DEF IInv, AcknowledgedEditsAreStored
<1> QED BY <1>a, <1>1, <1>2, <1>3, <1>4, <1>5, <1>6, <1>7, <1>8 DEF IInv

\* An edit is made on a copy that agrees with the row; maps only grow.
LEMMA UpdateKeeps ==
    ASSUME IInv, OneWriter, NEW r \in Writers, NEW e \in 1..memory.version,
           UpdateApplication(r, e)
    PROVE  IInv'
<1> USE DraftAssumption DEF Writers, Requests
<1>a. TypeOK /\ TypeOK'
    BY TypeStep DEF IInv, Next
<1>b. /\ UNCHANGED stored /\ memory' = request'[r].draft
      /\ request[r].pc = "begun" /\ request'[r].pc = "applied"
      /\ memory'.version = memory.version + 1 /\ memory'.map = memory.map
      /\ request'[r].previous = request[r].previous
      /\ \A s \in Requests : s # r => request'[s] = request[s]
      /\ r \in Updates /\ memory'.status = memory.status
      /\ r \in heap'[memory.map] /\ \A m \in Requests : heap[m] \subseteq heap'[m]
    <2> DEFINE draft == [memory EXCEPT !.version = @ + 1]
    <2>1. Apply(r, draft) /\ request[r].pc = "begun"
        BY DEF UpdateApplication, Editable
    <2>2. draft.version = memory.version + 1 /\ draft.map = memory.map
        BY <1>a DEF TypeOK, Draft
    <2> HIDE DEF draft
    <2>3. /\ memory' = draft /\ request'[r] = [request[r] EXCEPT !.pc = "applied", !.draft = draft]
          /\ \A s \in Requests : s # r => request'[s] = request[s]
        BY <1>a, <2>1, Others DEF Apply
    <2>4. request[r] \in Handler
        BY <1>a DEF TypeOK
    <2>5. request'[r].pc = "applied" /\ request'[r].draft = draft /\ request'[r].previous = request[r].previous
        BY <2>3, <2>4 DEF Handler
    <2>6. draft.status = memory.status
        BY <1>a DEF draft, TypeOK, Draft
    <2>7. r \in heap'[memory.map] /\ \A m \in Requests : heap[m] \subseteq heap'[m]
        BY <1>a DEF UpdateApplication, Editable, TypeOK, Draft
    <2> QED BY <2>1, <2>2, <2>3, <2>5, <2>6, <2>7 DEF UpdateApplication, Editable
<1>c. /\ \A s \in Writers : s # r => request[s].pc \notin Busy
      /\ Agrees(memory) /\ Allocated(memory)
    BY <1>a, <1>b DEF IInv, Alone, Writing, Busy, Touching, Ahead, MemoryCopy
<1>d. /\ \A s \in Requests : request[s].draft \in Draft /\ request[s].previous \in Draft
      /\ \A d \in Draft : d.version \in Nat /\ d.status \in Status /\ d.map \in Requests
      /\ memory \in Draft /\ stored.version \in Nat /\ stored.status \in Status
    BY <1>a, Shapes
<1>e. Applied(r)'
    <2>1. Extends(request[r].draft)'
        <3>1. memory'.version <= stored.version + 1
            BY <1>b, <1>c, <1>d DEF Agrees
        <3>2. ASSUME memory'.version = stored.version + 1
              PROVE  /\ Rank[stored.status] <= Rank[memory'.status]
                     /\ stored.edits \subseteq heap'[memory'.map]
            <4>1. memory.version = stored.version
                BY <1>b, <1>d, <3>2
            <4>2. memory.status = stored.status /\ stored.edits \subseteq heap[memory.map]
                BY <1>c, <4>1 DEF Agrees
            <4>3. memory'.status \in Status
                BY <1>a DEF TypeOK, Draft
            <4>4. Rank[stored.status] <= Rank[memory'.status]
                BY <1>b, <1>d, <4>2, <4>3, RankIsNat
            <4> QED BY <1>b, <1>d, <4>2, <4>4
        <3> QED BY <1>b, <3>1, <3>2 DEF Extends
    <2>2. Allocated(request[r].draft)'
        BY <1>b, <1>c, <1>d DEF Allocated
    <2>3. (r \in Updates => r \in heap[request[r].draft.map])'
        BY <1>b
    <2> QED BY <1>b, <2>1, <2>2, <2>3 DEF Applied
<1>1. Roles'
    BY <1>a, <1>b DEF IInv, Roles
<1>2. Alone'
    BY <1>a, <1>b, <1>c DEF IInv, Alone, Writing, Busy
<1>3. NoRowYet'
    BY <1>a, <1>b DEF IInv, NoRowYet
<1>4. ReadCopies'
    BY <1>a, <1>b, <1>d DEF IInv, ReadCopies, Agrees, Allocated
<1>5. PreviousCopies'
    BY <1>a, <1>b, <1>c, <1>d DEF IInv, PreviousCopies, Agrees, Allocated, Busy
<1>6. Written'
    BY <1>a, <1>b, <1>c, <1>e
       DEF IInv, Written, Applied, Encoded, Extends, Agrees, Allocated, Ahead, Busy
<1>7. MemoryCopy'
    BY <1>a, <1>b, <1>c, <1>d DEF IInv, MemoryCopy, Agrees, Allocated, Touching, Ahead
<1>8. AcknowledgedEditsAreStored'
    BY <1>a, <1>b DEF IInv, AcknowledgedEditsAreStored
<1> QED BY <1>a, <1>1, <1>2, <1>3, <1>4, <1>5, <1>6, <1>7, <1>8 DEF IInv

\* Sections written before one that is too large only add to the map.
LEMMA TooLargeKeeps ==
    ASSUME IInv, NEW r \in Writers, NEW e \in 1..memory.version, UpdateTooLarge(r, e)
    PROVE  IInv'
<1> USE DraftAssumption DEF Writers, Requests
<1>a. TypeOK /\ TypeOK'
    BY TypeStep DEF IInv, Next
<1>b. /\ UNCHANGED <<memory, stored>>
      /\ request[r].pc = "begun" /\ request'[r].pc = "refused"
      /\ \A m \in Requests : heap[m] \subseteq heap'[m]
      /\ \A s \in Requests : s # r => request'[s] = request[s]
    BY <1>a, Others DEF UpdateTooLarge, Editable, Goto, TypeOK, Draft, Handler
<1>1. Roles'
    BY <1>a, <1>b DEF IInv, Roles
<1>2. Alone'
    BY <1>a, <1>b DEF IInv, Alone, Writing, Busy
<1>3. NoRowYet'
    BY <1>a, <1>b DEF IInv, NoRowYet
<1>4. ReadCopies'
    BY <1>a, <1>b DEF IInv, ReadCopies, Agrees, Allocated, TypeOK, Draft, Handler
<1>5. PreviousCopies'
    BY <1>a, <1>b
       DEF IInv, PreviousCopies, Agrees, Allocated, Busy, TypeOK, Draft, Handler
<1>6. Written'
    BY <1>a, <1>b
       DEF IInv, Written, Applied, Encoded, Extends, Agrees, Allocated, Ahead,
           TypeOK, Draft, Handler
<1>7. MemoryCopy'
    BY <1>a, <1>b
       DEF IInv, MemoryCopy, Agrees, Allocated, Touching, Ahead, TypeOK, Draft, Handler
<1>8. AcknowledgedEditsAreStored'
    BY <1>a, <1>b DEF IInv, AcknowledgedEditsAreStored
<1> QED BY <1>a, <1>1, <1>2, <1>3, <1>4, <1>5, <1>6, <1>7, <1>8 DEF IInv

\* What an action does, whichever it is.
LEMMA TransitionStep ==
    ASSUME TypeOK, NEW r \in Writers, NEW from \in Status, NEW to \in Status, NEW evidence \in BOOLEAN,
           Transition(r, from, to, evidence)
    PROVE  /\ UNCHANGED <<stored, heap>> /\ memory' = request'[r].draft
           /\ request[r].pc = "begun" /\ request'[r].pc = "applied"
           /\ memory'.version = memory.version + 1 /\ memory'.map = memory.map
           /\ request'[r].previous = request[r].previous
           /\ \A s \in Requests : s # r => request'[s] = request[s]
           /\ r \in Actions /\ memory.status = from /\ memory'.status = to
<1> USE DEF Requests
<1> DEFINE draft == [memory EXCEPT !.version = @ + 1, !.status = to, !.evidenced = evidence]
<1>1. Apply(r, draft) /\ request[r].pc = "begun" /\ r \in Actions /\ memory.status = from
    BY DEF Transition
<1>2. draft.version = memory.version + 1 /\ draft.map = memory.map /\ draft.status = to
    BY DEF TypeOK, Draft
<1> HIDE DEF draft
<1>3. /\ memory' = draft /\ request'[r] = [request[r] EXCEPT !.pc = "applied", !.draft = draft]
      /\ \A s \in Requests : s # r => request'[s] = request[s]
    BY <1>1, Others DEF Apply
<1>4. request[r] \in Handler
    BY DEF TypeOK
<1>5. request'[r].pc = "applied" /\ request'[r].draft = draft /\ request'[r].previous = request[r].previous
    BY <1>3, <1>4 DEF Handler
<1> QED BY <1>1, <1>2, <1>3, <1>5 DEF Transition

\* Every action goes up in the order of the statuses.
LEMMA TransitionKeeps ==
    ASSUME IInv, OneWriter, NEW r \in Writers, Submit(r) \/ Approve(r) \/ Generate(r)
    PROVE  IInv'
<1> USE DraftAssumption DEF Writers, Requests
<1>a. TypeOK /\ TypeOK'
    BY TypeStep DEF IInv, Next
<1>b. /\ UNCHANGED stored /\ memory' = request'[r].draft
      /\ request[r].pc = "begun" /\ request'[r].pc = "applied"
      /\ memory'.version = memory.version + 1 /\ memory'.map = memory.map
      /\ request'[r].previous = request[r].previous
      /\ \A s \in Requests : s # r => request'[s] = request[s]
      /\ r \in Actions /\ UNCHANGED heap
      /\ Rank[memory.status] < Rank[memory'.status]
    <2>1. PICK from \in Status, to \in Status, evidence \in BOOLEAN :
            Transition(r, from, to, evidence) /\ Rank[from] < Rank[to]
        <3>1. {"DRAFT_READY", "PENDING_REVIEW", "APPROVED", "GENERATED"} \subseteq Status
            BY DEF Status
        <3>2. /\ Rank["DRAFT_READY"] < Rank["PENDING_REVIEW"]
              /\ Rank["PENDING_REVIEW"] < Rank["APPROVED"]
              /\ Rank["APPROVED"] < Rank["GENERATED"]
            BY DEF Rank, Status
        <3>3. memory.evidenced \in BOOLEAN /\ (checklist = "complete") \in BOOLEAN
            BY <1>a DEF TypeOK, Draft
        <3> QED BY <3>1, <3>2, <3>3 DEF Submit, Approve, Generate
    <2> QED BY <1>a, <2>1, TransitionStep
<1>c. /\ \A s \in Writers : s # r => request[s].pc \notin Busy
      /\ Agrees(memory) /\ Allocated(memory)
    BY <1>a, <1>b DEF IInv, Alone, Writing, Busy, Touching, Ahead, MemoryCopy
<1>d. /\ \A s \in Requests : request[s].draft \in Draft /\ request[s].previous \in Draft
      /\ \A d \in Draft : d.version \in Nat /\ d.status \in Status /\ d.map \in Requests
      /\ memory \in Draft /\ stored.version \in Nat /\ stored.status \in Status
    BY <1>a, Shapes
<1>e. Applied(r)'
    <2>1. Extends(request[r].draft)'
        <3>1. memory'.version <= stored.version + 1
            BY <1>b, <1>c, <1>d DEF Agrees
        <3>2. ASSUME memory'.version = stored.version + 1
              PROVE  /\ Rank[stored.status] <= Rank[memory'.status]
                     /\ stored.edits \subseteq heap'[memory'.map]
            <4>1. memory.version = stored.version
                BY <1>b, <1>d, <3>2
            <4>2. memory.status = stored.status /\ stored.edits \subseteq heap[memory.map]
                BY <1>c, <4>1 DEF Agrees
            <4>3. memory'.status \in Status
                BY <1>a DEF TypeOK, Draft
            <4>4. Rank[stored.status] <= Rank[memory'.status]
                BY <1>b, <1>d, <4>2, <4>3, RankIsNat
            <4> QED BY <1>b, <1>d, <4>2, <4>4
        <3> QED BY <1>b, <3>1, <3>2 DEF Extends
    <2>2. Allocated(request[r].draft)'
        BY <1>b, <1>c, <1>d DEF Allocated
    <2>3. (r \in Updates => r \in heap[request[r].draft.map])'
        BY <1>b
    <2> QED BY <1>b, <2>1, <2>2, <2>3 DEF Applied
<1>1. Roles'
    BY <1>a, <1>b DEF IInv, Roles
<1>2. Alone'
    BY <1>a, <1>b, <1>c DEF IInv, Alone, Writing, Busy
<1>3. NoRowYet'
    BY <1>a, <1>b DEF IInv, NoRowYet
<1>4. ReadCopies'
    BY <1>a, <1>b, <1>d DEF IInv, ReadCopies, Agrees, Allocated
<1>5. PreviousCopies'
    BY <1>a, <1>b, <1>c, <1>d DEF IInv, PreviousCopies, Agrees, Allocated, Busy
<1>6. Written'
    BY <1>a, <1>b, <1>c, <1>e
       DEF IInv, Written, Applied, Encoded, Extends, Agrees, Allocated, Ahead, Busy
<1>7. MemoryCopy'
    BY <1>a, <1>b, <1>c, <1>d DEF IInv, MemoryCopy, Agrees, Allocated, Touching, Ahead
<1>8. AcknowledgedEditsAreStored'
    BY <1>a, <1>b DEF IInv, AcknowledgedEditsAreStored
<1> QED BY <1>a, <1>1, <1>2, <1>3, <1>4, <1>5, <1>6, <1>7, <1>8 DEF IInv

\* What is encoded is the shared map as it is at that moment.
LEMMA EncodeKeeps ==
    ASSUME IInv, NEW r \in Writers, EncodeSections(r)
    PROVE  IInv'
<1> USE DraftAssumption DEF Writers, Requests
<1>a. TypeOK /\ TypeOK'
    BY TypeStep DEF IInv, Next
<1>b. /\ UNCHANGED <<memory, heap, stored>>
      /\ request[r].pc = "applied" /\ request'[r].pc = "encoded"
      /\ request'[r].draft = request[r].draft /\ request'[r].previous = request[r].previous
      /\ request'[r].edits = heap[request[r].draft.map]
      /\ \A s \in Requests : s # r => request'[s] = request[s]
    <2>1. Become(r, [request[r] EXCEPT !.pc = "encoded", !.edits = heap[request[r].draft.map]])
        BY DEF EncodeSections
    <2>2. /\ request'[r] = [request[r] EXCEPT !.pc = "encoded", !.edits = heap[request[r].draft.map]]
          /\ \A s \in Requests : s # r => request'[s] = request[s]
        BY <1>a, <2>1, Others
    <2> QED BY <1>a, <2>2 DEF EncodeSections, TypeOK, Handler
<1>1. Roles'
    BY <1>a, <1>b DEF IInv, Roles
<1>2. Alone'
    BY <1>a, <1>b DEF IInv, Alone, Writing, Busy
<1>3. NoRowYet'
    BY <1>a, <1>b DEF IInv, NoRowYet
<1>4. ReadCopies'
    BY <1>a, <1>b DEF IInv, ReadCopies, Agrees, Allocated
<1>5. PreviousCopies'
    BY <1>a, <1>b DEF IInv, PreviousCopies, Agrees, Allocated, Busy
<1>6. Written'
    BY <1>a, <1>b DEF IInv, Written, Applied, Encoded, Extends, Agrees, Allocated, Ahead
<1>7. MemoryCopy'
    BY <1>a, <1>b DEF IInv, MemoryCopy, Agrees, Allocated, Touching, Ahead
<1>8. AcknowledgedEditsAreStored'
    BY <1>a, <1>b DEF IInv, AcknowledgedEditsAreStored
<1> QED BY <1>a, <1>1, <1>2, <1>3, <1>4, <1>5, <1>6, <1>7, <1>8 DEF IInv

\* A row is replaced by one of the next version that has all its edits, and its own.
LEMMA SaveKeeps ==
    ASSUME IInv, NEW r \in Writers, SaveDraft(r)
    PROVE  IInv'
<1> USE DraftAssumption DEF Writers, Requests
<1>a. TypeOK /\ TypeOK'
    BY TypeStep DEF IInv, Next
<1>b. /\ UNCHANGED <<memory, heap>>
      /\ request[r].pc = "encoded" /\ request'[r].pc = "saved"
      /\ request'[r].draft = request[r].draft /\ request'[r].previous = request[r].previous
      /\ \A s \in Requests : s # r => request'[s] = request[s]
      /\ stored.version < request[r].draft.version
      /\ stored' = RowOf(r)
    BY <1>a, Others DEF SaveDraft, WriteRow, Goto, TypeOK, Handler
<1>c. \A s \in Writers : s # r => request[s].pc \notin Busy
    BY <1>b DEF IInv, Alone, Writing, Busy
<1>d. /\ \A s \in Requests : request[s].draft \in Draft /\ request[s].previous \in Draft
      /\ \A d \in Draft : d.version \in Nat /\ d.status \in Status /\ d.map \in Requests
      /\ memory \in Draft /\ stored.version \in Nat /\ stored.status \in Status
    BY <1>a, Shapes
<1>e. /\ stored'.version = stored.version + 1 /\ stored'.version = request[r].draft.version
      /\ stored'.status = request[r].draft.status /\ stored'.edits = request[r].edits
      /\ stored.edits \subseteq stored'.edits
      /\ r \in Updates => r \in stored'.edits
      /\ stored'.edits \subseteq heap[request[r].draft.map]
      /\ memory = request[r].draft \/ Agrees(memory)
    <2>1. Applied(r) /\ Encoded(r)
        BY <1>b DEF IInv, Written, Ahead
    <2>2. request[r].draft.version = stored.version + 1
        BY <1>b, <1>d, <2>1 DEF Applied, Extends
    <2> QED BY <1>b, <2>1, <2>2 DEF Applied, Encoded, RowOf
<1>f. \A d \in Draft : Agrees(d) => d.version < stored'.version
    BY <1>d, <1>e DEF Agrees
<1>1. Roles'
    BY <1>a, <1>b DEF IInv, Roles
<1>2. Alone'
    BY <1>a, <1>b DEF IInv, Alone, Writing, Busy
<1>3. NoRowYet'
    BY <1>a, <1>b, <1>d, <1>e DEF IInv, NoRowYet
<1>4. ReadCopies'
    BY <1>a, <1>b, <1>d, <1>e, <1>f DEF IInv, ReadCopies, Agrees, Allocated
<1>5. PreviousCopies'
    BY <1>a, <1>b, <1>c, <1>d, <1>e, <1>f
       DEF IInv, PreviousCopies, Agrees, Allocated, Busy
<1>6. Written'
    BY <1>a, <1>b, <1>c
       DEF IInv, Written, Applied, Encoded, Extends, Agrees, Allocated, Ahead, Busy
<1>7. MemoryCopy'
    BY <1>a, <1>b, <1>c, <1>d, <1>e, <1>f
       DEF IInv, MemoryCopy, Agrees, Allocated, Touching, Ahead, Busy
<1>8. AcknowledgedEditsAreStored'
    BY <1>a, <1>b, <1>d, <1>e DEF IInv, AcknowledgedEditsAreStored
<1> QED BY <1>a, <1>1, <1>2, <1>3, <1>4, <1>5, <1>6, <1>7, <1>8 DEF IInv

\* A save that fails may have written the row: it is the next version, too.
LEMMA SaveFailsKeeps ==
    ASSUME IInv, NEW r \in Writers, SaveDraftFails(r), stored' # stored
    PROVE  IInv'
<1> USE DraftAssumption DEF Writers, Requests
<1>a. TypeOK /\ TypeOK'
    BY TypeStep DEF IInv, Next
<1>b. /\ UNCHANGED <<memory, heap>>
      /\ request[r].pc = "encoded" /\ request'[r].pc = "failed"
      /\ request'[r].draft = request[r].draft /\ request'[r].previous = request[r].previous
      /\ \A s \in Requests : s # r => request'[s] = request[s]
      /\ stored.version < request[r].draft.version /\ stored' = RowOf(r)
    BY <1>a, Others DEF SaveDraftFails, WriteRow, Goto, TypeOK, Handler
<1>c. \A s \in Writers : s # r => request[s].pc \notin Busy
    BY <1>b DEF IInv, Alone, Writing, Busy
<1>d. /\ \A s \in Requests : request[s].draft \in Draft /\ request[s].previous \in Draft
      /\ \A d \in Draft : d.version \in Nat /\ d.status \in Status /\ d.map \in Requests
      /\ memory \in Draft /\ stored.version \in Nat /\ stored.status \in Status
    BY <1>a, Shapes
<1>e. /\ stored'.version = stored.version + 1 /\ stored'.version = request[r].draft.version
      /\ stored'.status = request[r].draft.status /\ stored'.edits = request[r].edits
      /\ stored.edits \subseteq stored'.edits
      /\ r \in Updates => r \in stored'.edits
      /\ stored'.edits \subseteq heap[request[r].draft.map]
      /\ memory = request[r].draft \/ Agrees(memory)
    <2>1. Applied(r) /\ Encoded(r)
        BY <1>b DEF IInv, Written, Ahead
    <2>2. request[r].draft.version = stored.version + 1
        BY <1>b, <1>d, <2>1 DEF Applied, Extends
    <2> QED BY <1>b, <2>1, <2>2 DEF Applied, Encoded, RowOf
<1>f. \A d \in Draft : Agrees(d) => d.version < stored'.version
    BY <1>d, <1>e DEF Agrees
<1>1. Roles'
    BY <1>a, <1>b DEF IInv, Roles
<1>2. Alone'
    BY <1>a, <1>b DEF IInv, Alone, Writing, Busy
<1>3. NoRowYet'
    BY <1>a, <1>b, <1>d, <1>e DEF IInv, NoRowYet
<1>4. ReadCopies'
    BY <1>a, <1>b, <1>d, <1>e, <1>f DEF IInv, ReadCopies, Agrees, Allocated
<1>5. PreviousCopies'
    BY <1>a, <1>b, <1>c, <1>d, <1>e, <1>f
       DEF IInv, PreviousCopies, Agrees, Allocated, Busy
<1>6. Written'
    BY <1>a, <1>b, <1>c
       DEF IInv, Written, Applied, Encoded, Extends, Agrees, Allocated, Ahead, Busy
<1>7. MemoryCopy'
    BY <1>a, <1>b, <1>c, <1>d, <1>e, <1>f
       DEF IInv, MemoryCopy, Agrees, Allocated, Touching, Ahead, Busy
<1>8. AcknowledgedEditsAreStored'
    BY <1>a, <1>b, <1>d, <1>e DEF IInv, AcknowledgedEditsAreStored
<1> QED BY <1>a, <1>1, <1>2, <1>3, <1>4, <1>5, <1>6, <1>7, <1>8 DEF IInv

\* A save that fails and has written nothing.
LEMMA NotSavedKeeps ==
    ASSUME IInv, NEW r \in Writers, SaveDraftFails(r), stored' = stored
    PROVE  IInv'
<1> USE DraftAssumption DEF Writers, Requests
<1>a. TypeOK /\ TypeOK'
    BY TypeStep DEF IInv, Next
<1>b. /\ UNCHANGED <<memory, heap>>
      /\ request[r].pc = "encoded" /\ request'[r].pc = "failed"
      /\ request'[r].draft = request[r].draft /\ request'[r].previous = request[r].previous
      /\ \A s \in Requests : s # r => request'[s] = request[s]
    BY <1>a, Others DEF SaveDraftFails, Goto, TypeOK, Handler
<1>1. Roles'
    BY <1>a, <1>b DEF IInv, Roles
<1>2. Alone'
    BY <1>a, <1>b DEF IInv, Alone, Writing, Busy
<1>3. NoRowYet'
    BY <1>a, <1>b DEF IInv, NoRowYet
<1>4. ReadCopies'
    BY <1>a, <1>b DEF IInv, ReadCopies, Agrees, Allocated
<1>5. PreviousCopies'
    BY <1>a, <1>b DEF IInv, PreviousCopies, Agrees, Allocated, Busy
<1>6. Written'
    BY <1>a, <1>b DEF IInv, Written, Applied, Encoded, Extends, Agrees, Allocated, Ahead
<1>7. MemoryCopy'
    BY <1>a, <1>b DEF IInv, MemoryCopy, Agrees, Allocated, Touching, Ahead
<1>8. AcknowledgedEditsAreStored'
    BY <1>a, <1>b DEF IInv, AcknowledgedEditsAreStored
<1> QED BY <1>a, <1>1, <1>2, <1>3, <1>4, <1>5, <1>6, <1>7, <1>8 DEF IInv

\* The copy that is put back agrees with the row.
LEMMA RestorePreviousKeeps ==
    ASSUME IInv, NEW r \in Writers, RestorePrevious(r)
    PROVE  IInv'
<1> USE DraftAssumption DEF Writers, Requests
<1>a. TypeOK /\ TypeOK'
    BY TypeStep DEF IInv, Next
<1>b. /\ UNCHANGED <<heap, stored>> /\ memory' = request[r].previous
      /\ request[r].pc = "failed" /\ request'[r].pc = "refused"
      /\ \A s \in Requests : s # r => request'[s] = request[s]
    BY <1>a, Others DEF RestorePrevious, Goto, TypeOK, Handler
<1>c. \A s \in Writers : s # r => request[s].pc \notin Busy
    BY <1>b DEF IInv, Alone, Writing, Busy
<1>1. Roles'
    BY <1>a, <1>b DEF IInv, Roles
<1>2. Alone'
    BY <1>a, <1>b DEF IInv, Alone, Writing, Busy
<1>3. NoRowYet'
    BY <1>a, <1>b DEF IInv, NoRowYet
<1>4. ReadCopies'
    BY <1>a, <1>b DEF IInv, ReadCopies, Agrees, Allocated
<1>5. PreviousCopies'
    BY <1>a, <1>b DEF IInv, PreviousCopies, Agrees, Allocated, Busy
<1>6. Written'
    BY <1>a, <1>b, <1>c
       DEF IInv, Written, Applied, Encoded, Extends, Agrees, Allocated, Ahead, Busy
<1>7. MemoryCopy'
    BY <1>a, <1>b
       DEF IInv, MemoryCopy, Agrees, Allocated, Touching, Ahead, PreviousCopies, Busy
<1>8. AcknowledgedEditsAreStored'
    BY <1>a, <1>b DEF IInv, AcknowledgedEditsAreStored
<1> QED BY <1>a, <1>1, <1>2, <1>3, <1>4, <1>5, <1>6, <1>7, <1>8 DEF IInv

\* A read makes a copy of the row with a map of its own.
LEMMA ReadKeeps ==
    ASSUME IInv, NEW r \in Reads, ReadDraft(r)
    PROVE  IInv'
<1> USE DraftAssumption DEF Writers, Requests
<1>a. TypeOK /\ TypeOK'
    BY TypeStep DEF IInv, Next
<1>b. /\ UNCHANGED <<memory, stored>>
      /\ request[r].pc = "new" /\ request'[r].pc = "read"
      /\ request'[r].draft.version = stored.version /\ request'[r].draft.status = stored.status
      /\ request'[r].draft.map = r
      /\ heap'[r] = stored.edits /\ \A m \in Requests : m # r => heap'[m] = heap[m]
      /\ \A s \in Requests : s # r => request'[s] = request[s]
    <2> DEFINE draft == [version |-> stored.version, status |-> stored.status,
                         map |-> r, evidenced |-> stored.evidenced]
    <2>1. Become(r, [Fresh EXCEPT !.pc = "read", !.draft = draft])
        BY DEF ReadDraft
    <2>2. /\ request'[r] = [Fresh EXCEPT !.pc = "read", !.draft = draft]
          /\ \A s \in Requests : s # r => request'[s] = request[s]
        BY <1>a, <2>1, Others
    <2>3. heap'[r] = stored.edits /\ \A m \in Requests : m # r => heap'[m] = heap[m]
        BY <1>a DEF ReadDraft, TypeOK
    <2> QED BY <2>2, <2>3 DEF ReadDraft, Fresh
<1>c. /\ \A s \in Requests : request[s].draft \in Draft /\ request[s].previous \in Draft
      /\ \A d \in Draft : d.version \in Nat /\ d.status \in Status /\ d.map \in Requests
      /\ memory \in Draft /\ stored.version \in Nat /\ stored.status \in Status
    BY <1>a, Shapes
<1>1. Roles'
    BY <1>a, <1>b DEF IInv, Roles
<1>2. Alone'
    BY <1>a, <1>b DEF IInv, Alone, Writing, Busy
<1>3. NoRowYet'
    BY <1>a, <1>b DEF IInv, NoRowYet
<1>4. ReadCopies'
    BY <1>a, <1>b, <1>c DEF IInv, ReadCopies, Agrees, Allocated, Roles
<1>5. PreviousCopies'
    BY <1>a, <1>b, <1>c DEF IInv, PreviousCopies, Agrees, Allocated, Roles
<1>6. Written'
    BY <1>a, <1>b, <1>c
       DEF IInv, Written, Applied, Encoded, Extends, Agrees, Allocated, Ahead, Roles
<1>7. MemoryCopy'
    BY <1>a, <1>b, <1>c DEF IInv, MemoryCopy, Agrees, Allocated, Touching, Ahead, Roles
<1>8. AcknowledgedEditsAreStored'
    BY <1>a, <1>b DEF IInv, AcknowledgedEditsAreStored
<1> QED BY <1>a, <1>1, <1>2, <1>3, <1>4, <1>5, <1>6, <1>7, <1>8 DEF IInv

\* A copy that was read replaces the one in memory, even the one a write works on.
LEMMA RestoreKeeps ==
    ASSUME IInv, NEW r \in Reads, RestoreApplication(r)
    PROVE  IInv'
<1> USE DraftAssumption DEF Writers, Requests
<1>a. TypeOK /\ TypeOK'
    BY TypeStep DEF IInv, Next
<1>b. /\ UNCHANGED <<heap, stored>> /\ memory' = request[r].draft
      /\ request[r].pc = "read" /\ request'[r].pc = "refused"
      /\ \A s \in Requests : s # r => request'[s] = request[s]
    BY <1>a, Others DEF RestoreApplication, Goto, TypeOK, Handler
<1>1. Roles'
    BY <1>a, <1>b DEF IInv, Roles
<1>2. Alone'
    BY <1>a, <1>b DEF IInv, Alone, Writing, Busy
<1>3. NoRowYet'
    BY <1>a, <1>b DEF IInv, NoRowYet
<1>4. ReadCopies'
    BY <1>a, <1>b DEF IInv, ReadCopies, Agrees, Allocated
<1>5. PreviousCopies'
    BY <1>a, <1>b DEF IInv, PreviousCopies, Agrees, Allocated
<1>6. Written'
    BY <1>a, <1>b
       DEF IInv, Written, Applied, Encoded, Extends, Agrees, Allocated, Ahead,
           ReadCopies
<1>7. MemoryCopy'
    BY <1>a, <1>b DEF IInv, MemoryCopy, Agrees, Allocated, Touching, Ahead, ReadCopies
<1>8. AcknowledgedEditsAreStored'
    BY <1>a, <1>b DEF IInv, AcknowledgedEditsAreStored
<1> QED BY <1>a, <1>1, <1>2, <1>3, <1>4, <1>5, <1>6, <1>7, <1>8 DEF IInv

\* After a restart there is the row, and nobody works on a copy.
LEMMA RestartKeeps ==
    ASSUME IInv, Restart
    PROVE  IInv'
<1> USE DraftAssumption DEF Writers, Requests
<1>a. TypeOK /\ TypeOK'
    BY TypeStep DEF IInv, Next
<1>b. /\ UNCHANGED <<heap, stored>> /\ memory' = NoDraft
      /\ \A s \in Requests : \/ request[s].pc \in Busy \cup {"read"} /\ request'[s].pc = "lost"
                             \/ request[s].pc \notin Busy \cup {"read"} /\ request'[s] = request[s]
    BY <1>a DEF Restart, TypeOK, Handler
<1>1. Roles'
    BY <1>a, <1>b DEF IInv, Roles
<1>2. Alone'
    BY <1>a, <1>b DEF IInv, Alone, Writing, Busy
<1>3. NoRowYet'
    BY <1>a, <1>b DEF IInv, NoRowYet
<1>4. ReadCopies'
    BY <1>a, <1>b DEF IInv, ReadCopies, Agrees, Allocated
<1>5. PreviousCopies'
    BY <1>a, <1>b DEF IInv, PreviousCopies, Agrees, Allocated, Busy
<1>6. Written'
    BY <1>a, <1>b
       DEF IInv, Written, Applied, Encoded, Extends, Agrees, Allocated, Ahead, Busy
<1>7. MemoryCopy'
    BY <1>a, <1>b
       DEF IInv, MemoryCopy, Agrees, Allocated, Touching, Ahead, Busy, NoRowYet,
           NoRow, NoDraft, TypeOK, Row
<1>8. AcknowledgedEditsAreStored'
    BY <1>a, <1>b DEF IInv, AcknowledgedEditsAreStored
<1> QED BY <1>a, <1>1, <1>2, <1>3, <1>4, <1>5, <1>6, <1>7, <1>8 DEF IInv

\* Every step of a client that waits for its answers keeps the invariant.
LEMMA StepIInv == ASSUME OneWriter, IInv, [Next]_vars PROVE IInv'
<1> USE DraftAssumption DEF Writers, Requests
<1>t. TypeOK'
    BY TypeStep DEF IInv
<1>1. CASE CreateChecklist \/ UpdateChecklistItem \/ UNCHANGED vars
    <2>1. UNCHANGED <<memory, heap, stored, request>>
        BY <1>1 DEF CreateChecklist, UpdateChecklistItem, vars
    <2>2. /\ Roles' /\ Alone' /\ NoRowYet' /\ ReadCopies' /\ PreviousCopies'
          /\ Written' /\ MemoryCopy' /\ AcknowledgedEditsAreStored'
        BY <2>1 DEF IInv, Roles, Alone, Writing, NoRowYet, ReadCopies, PreviousCopies,
                    Written, Applied, Encoded, Extends, Agrees, Allocated, MemoryCopy,
                    AcknowledgedEditsAreStored
    <2> QED BY <1>t, <2>2 DEF IInv
<1>2. CASE CreateApplicationFromTemplate
    BY <1>2, CreateKeeps
<1>3. ASSUME NEW r \in Requests, ReadPrevious(r) PROVE IInv'
    BY <1>3, ReadPreviousKeeps DEF ReadPrevious
<1>4. ASSUME NEW r \in Requests, NEW e \in 1..memory.version,
             UpdateApplication(r, e) \/ UpdateTooLarge(r, e)
      PROVE IInv'
    BY <1>4, UpdateKeeps, TooLargeKeeps DEF UpdateApplication, UpdateTooLarge, Editable
<1>5. ASSUME NEW r \in Requests, Submit(r) \/ Approve(r) \/ Generate(r) PROVE IInv'
    BY <1>5, TransitionKeeps DEF Submit, Approve, Generate, Transition
<1>6. ASSUME NEW r \in Requests, EncodeSections(r) PROVE IInv'
    <2>1. r \in Writers
        BY <1>6 DEF EncodeSections, IInv, Roles
    <2> QED BY <1>6, <2>1, EncodeKeeps
<1>7. ASSUME NEW r \in Requests, SaveDraft(r) \/ SaveDraftFails(r) PROVE IInv'
    <2>1. r \in Writers
        BY <1>7 DEF SaveDraft, SaveDraftFails, IInv, Roles
    <2> QED BY <1>7, <2>1, SaveKeeps, SaveFailsKeeps, NotSavedKeeps
<1>8. ASSUME NEW r \in Requests, RestorePrevious(r) PROVE IInv'
    <2>1. r \in Writers
        BY <1>8 DEF RestorePrevious, IInv, Roles
    <2> QED BY <1>8, <2>1, RestorePreviousKeeps
<1>9. ASSUME NEW r \in Requests, ReadDraft(r) PROVE IInv'
    BY <1>9, ReadKeeps DEF ReadDraft
<1>10. ASSUME NEW r \in Requests, RestoreApplication(r) PROVE IInv'
    <2>1. r \in Reads
        BY <1>10 DEF RestoreApplication, IInv, Roles
    <2> QED BY <1>10, <2>1, RestoreKeeps
<1>11. ASSUME NEW r \in Requests, Refuse(r) PROVE IInv'
    BY <1>11, RefuseKeeps
<1>12. CASE Restart
    BY <1>12, RestartKeeps
<1> QED
    BY <1>1, <1>2, <1>3, <1>4, <1>5, <1>6, <1>7, <1>8, <1>9, <1>10, <1>11, <1>12 DEF Next

\* Nothing is there to be wrong at the start.
LEMMA InitIInv == Init => IInv
<1> SUFFICES ASSUME Init PROVE IInv
    OBVIOUS
<1> USE DraftAssumption DEF Writers, Requests
<1>1. TypeOK
    BY TypeInit
<1>2. \A r \in Requests : request[r].pc = "new"
    BY DEF Init, Fresh
<1>3. memory = NoDraft /\ stored = NoRow
    BY DEF Init
<1>4. Agrees(memory) /\ Allocated(memory)
    BY <1>3 DEF Agrees, Allocated, NoDraft, NoRow
<1>5. /\ Roles /\ Alone /\ NoRowYet /\ ReadCopies /\ PreviousCopies
      /\ Written /\ MemoryCopy /\ AcknowledgedEditsAreStored
    BY <1>2, <1>3, <1>4
       DEF Roles, Alone, Writing, Busy, NoRowYet, ReadCopies, PreviousCopies, Written,
           Ahead, MemoryCopy, AcknowledgedEditsAreStored
<1> QED BY <1>1, <1>5 DEF IInv

\* IInv is an invariant of every client that waits for its answers.
LEMMA Invariant == ASSUME OneWriter PROVE Spec => []IInv
<1>1. Init => IInv
    BY InitIInv
<1>2. IInv /\ [Next]_vars => IInv'
    BY StepIInv
<1> QED BY <1>1, <1>2, PTL DEF Spec

\* An edit that was answered as saved is in the row from then on, whatever
\* saves fail and whenever the page is reloaded or the API process restarted.
THEOREM SavedEditsStay == ASSUME OneWriter PROVE Spec => []AcknowledgedEditsAreStored
<1>1. IInv => AcknowledgedEditsAreStored
    BY DEF IInv
<1> QED BY <1>1, Invariant, PTL

\* Between two writes the copy in memory is an older version or the stored one.
THEOREM MemoryFollowsRow == ASSUME OneWriter PROVE Spec => []MemoryAgreesWithRow
<1>1. IInv => MemoryAgreesWithRow
    BY DEF IInv, MemoryCopy, MemoryAgreesWithRow, Writing, Busy, Touching, Ahead
<1> QED BY <1>1, Invariant, PTL

\* No write of the row takes the stored status back.
THEOREM StatusAdvances == ASSUME OneWriter PROVE Spec => StoredStatusAdvances
<1>1. ASSUME IInv, [Next]_vars PROVE [Rank[stored'.status] >= Rank[stored.status]]_vars
    <2>1. TypeOK
        BY <1>1 DEF IInv
    <2>2. ASSUME NEW r \in Requests, SaveDraft(r) \/ SaveDraftFails(r), stored' # stored
          PROVE Rank[stored'.status] >= Rank[stored.status]
        <3>1. /\ request[r].pc = "encoded" /\ stored.version < request[r].draft.version
              /\ stored'.status = request[r].draft.status
            BY <2>2 DEF SaveDraft, SaveDraftFails, WriteRow, RowOf
        <3>2. r \in Writers
            BY <1>1, <3>1 DEF IInv, Roles, Requests
        <3>3. Extends(request[r].draft)
            BY <1>1, <3>1, <3>2 DEF IInv, Written, Applied, Ahead
        <3>4. /\ request[r].draft.version \in Nat /\ stored.version \in Nat
              /\ request[r].draft.status \in Status /\ stored.status \in Status
            BY <2>1, Shapes
        <3> QED BY <3>1, <3>3, <3>4, RankIsNat DEF Extends
    <2>3. CASE stored' = stored
        <3>1. Rank[stored.status] \in Nat
            BY <2>1, Shapes, RankIsNat
        <3> QED BY <2>3, <3>1
    <2>4. CASE stored' # stored
        <3>1. PICK r \in Requests : SaveDraft(r) \/ SaveDraftFails(r)
            BY <1>1, <2>4
               DEF Next, vars, CreateChecklist, UpdateChecklistItem, Restart,
                   CreateApplicationFromTemplate, ReadPrevious, Refuse, UpdateApplication,
                   UpdateTooLarge, Submit, Approve, Generate, Transition, EncodeSections,
                   RestorePrevious, ReadDraft, RestoreApplication
        <3> QED BY <2>2, <2>4, <3>1
    <2> QED BY <2>3, <2>4
<1> QED BY <1>1, Invariant, PTL DEF Spec, StoredStatusAdvances

-----------------------------------------------------------------------------
(* Approvals, for clients that overlap as well. *)

\* A copy of the draft that is approved was approved with evidence, and there
\* is no copy before there is a checklist.
Sound(draft, list) ==
    /\ draft.status \in {"APPROVED", "GENERATED"} => draft.evidenced
    /\ list = "none" => draft.version = 0

SoundHandler(h, list) == Sound(h.draft, list) /\ Sound(h.previous, list)

AllSound ==
    restarts = 0 =>
        /\ Sound(memory, checklist)
        /\ Sound(stored, checklist)
        /\ \A r \in Requests : SoundHandler(request[r], checklist)

\* A step of one request keeps the copies of the others.
LEMMA OneSound ==
    ASSUME TypeOK, AllSound, restarts = 0, NEW r \in Requests, NEW h, Become(r, h),
           SoundHandler(h, checklist), Sound(memory', checklist), Sound(stored', checklist),
           checklist' = checklist
    PROVE  AllSound'
<1>1. \A q \in Requests : request'[q] = IF q = r THEN h ELSE request[q]
    BY DEF TypeOK, Become
<1>2. \A q \in Requests : SoundHandler(request'[q], checklist)
    BY <1>1, Zenon DEF AllSound
<1> QED BY <1>2 DEF AllSound

\* A step that only moves the program counter keeps the request's copies.
LEMMA GotoSound ==
    ASSUME TypeOK, AllSound, restarts = 0, NEW r \in Requests, NEW step, Goto(r, step),
           Sound(memory', checklist), Sound(stored', checklist), checklist' = checklist
    PROVE  AllSound'
<1> DEFINE h == [request[r] EXCEPT !.pc = step]
<1>1. h.draft = request[r].draft /\ h.previous = request[r].previous
    BY DEF TypeOK, Handler
<1>2. SoundHandler(h, checklist)
    BY <1>1 DEF SoundHandler, AllSound
<1>3. Become(r, h)
    BY DEF Goto
<1> HIDE DEF h
<1> QED BY <1>2, <1>3, OneSound

\* The drafts a process has read or made: the evidence is checked where a
\* draft becomes approved.
LEMMA StepSound == TypeOK /\ AllSound /\ [Next]_vars => AllSound'
<1> SUFFICES ASSUME TypeOK, AllSound, [Next]_vars, restarts' = 0 PROVE AllSound'
    BY DEF AllSound
<1>0. restarts = 0 /\ ~Restart
    <2>1. restarts \in Nat
        BY DEF TypeOK
    <2>2. ~Restart
        BY <2>1 DEF Restart
    <2>3. restarts' = restarts
        BY <2>2, Zenon
           DEF Next, vars, CreateChecklist, UpdateChecklistItem,
               CreateApplicationFromTemplate, ReadPrevious, Refuse, UpdateApplication,
               UpdateTooLarge, Submit, Approve, Generate, Transition, EncodeSections,
               SaveDraft, SaveDraftFails, RestorePrevious, ReadDraft, RestoreApplication
    <2> QED BY <2>2, <2>3
<1>1. /\ Sound(memory, checklist) /\ Sound(stored, checklist)
      /\ \A r \in Requests : SoundHandler(request[r], checklist)
    BY <1>0 DEF AllSound
<1>2. CASE CreateChecklist \/ UpdateChecklistItem
    <2>1. /\ checklist' # "none" /\ UNCHANGED <<memory, stored, request>>
        BY <1>2 DEF CreateChecklist, UpdateChecklistItem
    <2>2. \A d : Sound(d, checklist) => Sound(d, checklist')
        BY <2>1 DEF Sound
    <2> QED BY <1>1, <2>1, <2>2 DEF AllSound, SoundHandler
<1>3. CASE CreateApplicationFromTemplate
    <2>1. /\ Become(Creator, [Fresh EXCEPT !.pc = "applied", !.draft = memory'])
          /\ checklist # "none" /\ UNCHANGED <<stored, checklist>>
          /\ memory'.status = "DRAFT_READY" /\ Creator \in Requests
        BY <1>3 DEF CreateApplicationFromTemplate, Requests, Writers
    <2>2. Sound(memory', checklist) /\ Sound(NoDraft, checklist)
        BY <2>1 DEF Sound, NoDraft
    <2> DEFINE h == [Fresh EXCEPT !.pc = "applied", !.draft = memory']
    <2>3. h.draft = memory' /\ h.previous = NoDraft
        BY DEF Fresh
    <2>4. SoundHandler(h, checklist)
        BY <2>2, <2>3 DEF SoundHandler
    <2> HIDE DEF h
    <2>5. Become(Creator, h)
        BY <2>1 DEF h
    <2> QED BY <1>0, <1>1, <2>1, <2>2, <2>4, <2>5, OneSound
<1>4. ASSUME NEW r \in Requests, ReadPrevious(r) PROVE AllSound'
    <2> DEFINE h == [Fresh EXCEPT !.pc = "begun", !.previous = memory]
    <2>1. h.draft = NoDraft /\ h.previous = memory /\ Sound(NoDraft, checklist)
        BY DEF Fresh, NoDraft, Sound
    <2>2. SoundHandler(h, checklist)
        BY <1>1, <2>1 DEF SoundHandler
    <2> HIDE DEF h
    <2>3. Become(r, h) /\ UNCHANGED <<memory, stored, checklist>>
        BY <1>4 DEF ReadPrevious, h
    <2> QED BY <1>0, <1>1, <2>2, <2>3, OneSound
<1>5. ASSUME NEW r \in Requests, NEW draft, Apply(r, draft), Sound(draft, checklist),
             UNCHANGED <<stored, checklist>>
      PROVE  AllSound'
    <2> DEFINE h == [request[r] EXCEPT !.pc = "applied", !.draft = draft]
    <2>1. h.draft = draft /\ h.previous = request[r].previous
        BY DEF TypeOK, Handler
    <2>2. SoundHandler(h, checklist)
        BY <1>1, <1>5, <2>1 DEF SoundHandler
    <2> HIDE DEF h
    <2>3. Become(r, h) /\ memory' = draft
        BY <1>5 DEF Apply, h
    <2> QED BY <1>0, <1>1, <1>5, <2>2, <2>3, OneSound
<1>6. ASSUME NEW r \in Requests, NEW e \in 1..memory.version, UpdateApplication(r, e)
      PROVE  AllSound'
    <2> DEFINE draft == [memory EXCEPT !.version = @ + 1]
    <2>1. draft.status = memory.status /\ draft.status = "DRAFT_READY" /\ checklist # "none"
        BY <1>1, <1>6 DEF UpdateApplication, Editable, TypeOK, Draft, Sound
    <2>2. Sound(draft, checklist)
        BY <2>1 DEF Sound
    <2> HIDE DEF draft
    <2>3. Apply(r, draft) /\ UNCHANGED <<stored, checklist>>
        BY <1>6 DEF UpdateApplication, draft
    <2> QED BY <1>5, <2>2, <2>3
<1>7. ASSUME NEW r \in Requests, NEW from, NEW to, NEW evidence \in BOOLEAN,
             Transition(r, from, to, evidence),
             to \in {"APPROVED", "GENERATED"} => evidence
      PROVE  AllSound'
    <2> DEFINE version == memory.version + 1
               draft == [memory EXCEPT !.version = version, !.status = to,
                                       !.evidenced = evidence]
    <2>1. checklist # "none"
        BY <1>1, <1>7 DEF Transition, TypeOK, Draft, Sound
    <2> HIDE DEF version
    <2>2. draft.status = to /\ draft.evidenced = evidence
        BY Zenon DEF TypeOK, Draft
    <2>3. Sound(draft, checklist)
        BY <1>7, <2>1, <2>2, Zenon DEF Sound
    <2>4. Apply(r, draft) /\ UNCHANGED <<stored, checklist>>
        BY <1>7 DEF Transition, version
    <2> HIDE DEF draft
    <2> QED BY <1>5, <2>3, <2>4
<1>8. ASSUME NEW r \in Requests, Submit(r) \/ Approve(r) \/ Generate(r) PROVE AllSound'
    <2>1. checklist \in {"none", "incomplete", "complete"} /\ memory.evidenced \in BOOLEAN
        BY DEF TypeOK, Draft
    <2>2. CASE Submit(r)
        BY <1>7, <2>2 DEF Submit
    <2>3. CASE Approve(r)
        <3>1. memory.version > 0 /\ checklist # "incomplete"
            BY <2>3 DEF Approve, Transition
        <3>2. checklist = "complete"
            BY <1>1, <2>1, <3>1 DEF Sound, TypeOK, Draft
        <3> QED BY <1>7, <2>3, <3>2 DEF Approve
    <2>4. CASE Generate(r)
        <3>1. memory.status = "APPROVED"
            BY <2>4 DEF Generate, Transition
        <3>2. memory.evidenced
            BY <1>1, <3>1, Zenon DEF Sound
        <3> QED BY <1>7, <2>1, <2>4, <3>2 DEF Generate
    <2> QED BY <1>8, <2>2, <2>3, <2>4
<1>9. ASSUME NEW r \in Requests, EncodeSections(r) PROVE AllSound'
    <2> DEFINE h == [request[r] EXCEPT !.pc = "encoded", !.edits = heap[request[r].draft.map]]
    <2>1. h.draft = request[r].draft /\ h.previous = request[r].previous
        BY DEF TypeOK, Handler
    <2>2. SoundHandler(h, checklist)
        BY <1>1, <2>1 DEF SoundHandler
    <2> HIDE DEF h
    <2>3. Become(r, h) /\ UNCHANGED <<memory, stored, checklist>>
        BY <1>9 DEF EncodeSections, h
    <2> QED BY <1>0, <1>1, <2>2, <2>3, OneSound
<1>10. ASSUME NEW r \in Requests, SaveDraft(r) \/ SaveDraftFails(r) PROVE AllSound'
    <2>1. Sound(request[r].draft, checklist)
        BY <1>1 DEF SoundHandler
    <2>2. Sound(RowOf(r), checklist)
        <3>1. /\ RowOf(r).status = request[r].draft.status
              /\ RowOf(r).version = request[r].draft.version
              /\ RowOf(r).evidenced = request[r].draft.evidenced
            BY Zenon DEF RowOf
        <3> QED BY <2>1, <3>1, Zenon DEF Sound
    <2>3. /\ stored' = RowOf(r) \/ stored' = stored
          /\ Goto(r, "saved") \/ Goto(r, "failed")
          /\ UNCHANGED <<memory, checklist>>
        BY <1>10, Zenon DEF SaveDraft, SaveDraftFails, WriteRow
    <2>4. Sound(stored', checklist)
        BY <1>1, <2>2, <2>3
    <2> QED BY <1>0, <1>1, <2>3, <2>4, GotoSound
<1>11. ASSUME NEW r \in Requests, ReadDraft(r) PROVE AllSound'
    <2> DEFINE copy == [version |-> stored.version, status |-> stored.status,
                        map |-> r, evidenced |-> stored.evidenced]
               h == [Fresh EXCEPT !.pc = "read", !.draft = copy]
    <2>1. /\ copy.status = stored.status /\ copy.version = stored.version
          /\ copy.evidenced = stored.evidenced
        BY Zenon
    <2>2. Sound(copy, checklist)
        BY <1>1, <2>1, Zenon DEF Sound
    <2>3. Become(r, h) /\ UNCHANGED <<memory, stored, checklist>>
        BY <1>11 DEF ReadDraft
    <2> HIDE DEF copy
    <2>4. h.draft = copy /\ h.previous = NoDraft /\ Sound(NoDraft, checklist)
        BY DEF Fresh, NoDraft, Sound
    <2>5. SoundHandler(h, checklist)
        BY <2>2, <2>4 DEF SoundHandler
    <2> HIDE DEF h
    <2> QED BY <1>0, <1>1, <2>3, <2>5, OneSound
<1>12. ASSUME NEW r \in Requests, Refuse(r) \/ RestorePrevious(r) \/ RestoreApplication(r)
       PROVE  AllSound'
    <2>1. /\ Goto(r, "refused") /\ UNCHANGED <<stored, checklist>>
          /\ memory' \in {memory, request[r].previous, request[r].draft}
        BY <1>12 DEF Refuse, RestorePrevious, RestoreApplication
    <2>2. Sound(memory', checklist)
        BY <1>1, <2>1 DEF SoundHandler
    <2> QED BY <1>0, <1>1, <2>1, <2>2, GotoSound
<1>13. ASSUME NEW r \in Requests, NEW e \in 1..memory.version, UpdateTooLarge(r, e)
       PROVE  AllSound'
    BY <1>0, <1>1, <1>13, GotoSound DEF UpdateTooLarge
<1>14. CASE UNCHANGED vars
    BY <1>14 DEF vars, AllSound
<1> QED
    BY <1>0, <1>2, <1>3, <1>4, <1>6, <1>8, <1>9, <1>10, <1>11, <1>12, <1>13, <1>14 DEF Next

\* As long as the process that made the checklist lives, nothing is approved
\* without evidence, whatever clients overlap and saves fail.
THEOREM ApprovalsHaveEvidence == Spec => []ApprovalNeedsEvidenceInOneLife
<1>1. Init => AllSound
    BY DEF Init, AllSound, SoundHandler, Sound, NoDraft, NoRow, Fresh
<1>2. AllSound => ApprovalNeedsEvidenceInOneLife
    BY DEF AllSound, Sound, ApprovalNeedsEvidenceInOneLife, ApprovalNeedsEvidence
<1> QED BY <1>1, <1>2, StepSound, TypeCorrect, PTL DEF Spec

=============================================================================
