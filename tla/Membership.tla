----------------------------- MODULE Membership -----------------------------
(***************************************************************************)
(* Who is on the roster of a badminton session: the handlers of            *)
(* BadmintonSessionService, MemberService and RequestService that write    *)
(* the tables badminton_sessions, members and requests.                    *)
(*                                                                         *)
(* No handler opens a transaction of its own: each awaited query is one    *)
(* atomic step, and between two of them any other request may run.  A      *)
(* handler therefore is a chain of actions, and what it has read so far    *)
(* waits in inflight.  A handler whose guard fails answers with an error   *)
(* and changes nothing, so it takes no step at all.                        *)
(***************************************************************************)
EXTENDS FiniteSets, Functions, Tables

CONSTANTS
    Users,       \* ids of registered users; no handler here changes them
    Sessions,    \* ids a badminton session can get
    MemberIds,   \* ids a member row can get
    RequestIds,  \* ids a join request can get
    Capacities,  \* values of numberOfPeople
    Calls        \* requests the server works on at the same time

ASSUME CapacitiesAssumption == Capacities \subseteq Nat \ {0}

VARIABLES
    sessions,    \* table badminton_sessions
    members,     \* table members
    requests,    \* table requests
    inflight,    \* call -> what the handler holds across its next await
    everStarted, \* history: sessions that have been STARTED at some time
    admitted     \* history: <<r, m>> when accepting request r saved member m

tables == <<sessions, members, requests>>
vars == <<sessions, members, requests, inflight, everStarted, admitted>>

-----------------------------------------------------------------------------
(* Rows *)

SessionStatus == {"PENDING", "STARTED", "FINISHED"}
PaymentStatus == {"UNPAID", "PAID"}
RequestStatus == {"PENDING", "ACCEPTED", "REJECTED"}

SessionRow == [status: SessionStatus, createdBy: Users, numberOfPeople: Capacities]

\* live is FALSE once deletedAt is set: the ORM hides the row from finds.
MemberRow == [user: Users, session: Sessions, payment: PaymentStatus, live: BOOLEAN]

RequestRow == [createdBy: Users, session: Sessions, status: RequestStatus, live: BOOLEAN]

NewMember(u, s) == [user |-> u, session |-> s, payment |-> "UNPAID", live |-> TRUE]

Live(table) == {id \in DOMAIN table : table[id].live}

\* badmintonSession.members as the joins load it
Roster(s) == {m \in Live(members) : members[m].session = s}

\* Mutant of IsMember: compares the id of the member row, not of its user.
IsMemberByRowId(u, s) == u \in Roster(s)

IsMember(u, s) == \E m \in Roster(s) : members[m].user = u

\* the find with paymentStatus UNPAID
UnpaidMembers(s) == {m \in Roster(s) : members[m].payment = "UNPAID"}

-----------------------------------------------------------------------------
(* Bodies that validation lets through; "unset" is a field left out *)

\* known: the find of memberIds returns as many users as there are ids.
CreateBadmintonSessionDto ==
    [numberOfPeople: Capacities, memberIds: {{}}, known: {FALSE}]
    \cup [numberOfPeople: Capacities, memberIds: SUBSET Users, known: {TRUE}]

UpdateBadmintonSessionDto ==
    [numberOfPeople: Capacities, status: SessionStatus \cup {"unset"}]

CreateMemberDto == [userId: Users, badmintonSessionId: Sessions]
UpdateMemberDto == [paymentType: PaymentStatus \cup {"unset"}]
CreateRequestDto == [badmintonSessionId: Sessions]
ChangeStatusRequestDto == [status: RequestStatus]

-----------------------------------------------------------------------------
(* What a handler holds while it waits for its next query *)

Continuation ==
    [op: {"SaveMembers"}, user: Users, session: Sessions,
     invited: SUBSET Users, found: BOOLEAN]
    \cup [op: {"FindUnpaid", "SaveSession"}, session: Sessions, row: SessionRow]
    \cup [op: {"WriteSession"}, session: Sessions, row: SessionRow, seen: SessionRow]
    \cup [op: {"SaveMember"}, user: Users, session: Sessions]
    \cup [op: {"UpdateMember"}, member: MemberIds, payment: PaymentStatus \cup {"unset"}]
    \cup [op: {"DeleteMember"}, member: MemberIds]
    \cup [op: {"InsertRequest"}, user: Users, session: Sessions]
    \cup [op: {"SaveOwner", "SaveRequest"}, request: RequestIds, row: RequestRow]
    \cup [op: {"WriteRequest"}, request: RequestIds, row: RequestRow, seen: RequestRow]
    \cup [op: {"DeleteRequest"}, user: Users, request: RequestIds]

Idle(c) == c \notin DOMAIN inflight
At(c, op) == c \in DOMAIN inflight /\ inflight[c].op = op

\* Call c now waits for the query described by k.
Await(c, k) == inflight' = Put(inflight, c, k)

\* Call c has been answered.
Answer(c) == inflight' = Drop(inflight, c)

Init ==
    /\ sessions = EmptyTable
    /\ members = EmptyTable
    /\ requests = EmptyTable
    /\ inflight = EmptyTable
    /\ everStarted = {}
    /\ admitted = {}

-----------------------------------------------------------------------------
(* BadmintonSessionService.insert *)

\* The session row is saved before memberIds is looked at.  found is FALSE
\* when the later find returns fewer users than there are ids: an unknown id,
\* or the same id twice.
SessionInsert(c, u, s, people, invited, found) ==
    /\ Idle(c)
    /\ s \in Unused(sessions, Sessions)
    /\ sessions' = Put(sessions, s,
            [status |-> "PENDING", createdBy |-> u, numberOfPeople |-> people])
    /\ Await(c, [op |-> "SaveMembers", user |-> u, session |-> s,
                 invited |-> invited, found |-> found])
    /\ UNCHANGED <<members, requests, everStarted, admitted>>

\* 'Some members are not found': the session stays, without any member.
SessionInsertReject(c) ==
    /\ At(c, "SaveMembers")
    /\ ~inflight[c].found
    /\ Answer(c)
    /\ UNCHANGED <<tables, everStarted, admitted>>

\* One save for the creator and every invited user; a creator who is also
\* among the ids gets two rows.
SessionInsertMembers(c) ==
    /\ At(c, "SaveMembers")
    /\ inflight[c].found
    /\ \E own \in Unused(members, MemberIds) :
       \E id \in Injection(inflight[c].invited, Unused(members, MemberIds) \ {own}) :
          members' = PutAll(members,
                [m \in {own} \cup Range(id) |->
                    NewMember(IF m = own THEN inflight[c].user
                              ELSE CHOOSE v \in inflight[c].invited : id[v] = m,
                              inflight[c].session)])
    /\ Answer(c)
    /\ UNCHANGED <<sessions, requests, everStarted, admitted>>

-----------------------------------------------------------------------------
(* BadmintonSessionService.change *)

\* Mutant of SessionChange: Object.assign with a body whose status is missing.
SessionChangeVerbatim(c, u, s, status, people) ==
    /\ Idle(c)
    /\ s \in DOMAIN sessions
    /\ status = "unset" => sessions[s].status = "PENDING"
    /\ status = "STARTED" => sessions[s].status = "PENDING"
    /\ status = "FINISHED" => sessions[s].status = "STARTED"
    /\ sessions[s].createdBy = u
    /\ Await(c, [op |-> IF status = "FINISHED" THEN "FindUnpaid" ELSE "SaveSession",
                 session |-> s,
                 row |-> [sessions[s] EXCEPT !.numberOfPeople = people, !.status = status]])
    /\ UNCHANGED <<tables, everStarted, admitted>>

\* Mutant of SessionChange: without the guard of the status FINISHED.
SessionChangeUnguarded(c, u, s, status, people) ==
    /\ Idle(c)
    /\ s \in DOMAIN sessions
    /\ status = "unset" => sessions[s].status = "PENDING"
    /\ status = "STARTED" => sessions[s].status = "PENDING"
    /\ sessions[s].createdBy = u
    /\ Await(c, [op |-> IF status = "FINISHED" THEN "FindUnpaid" ELSE "SaveSession",
                 session |-> s,
                 row |-> [sessions[s] EXCEPT !.numberOfPeople = people,
                            !.status = IF status = "unset" THEN @ ELSE status]])
    /\ UNCHANGED <<tables, everStarted, admitted>>

\* status is "unset" when the body names none; people equal to the stored
\* value stands for a body without numberOfPeople.
SessionChange(c, u, s, status, people) ==
    /\ Idle(c)
    /\ s \in DOMAIN sessions
    /\ status = "unset" => sessions[s].status = "PENDING"
    /\ status = "STARTED" => sessions[s].status = "PENDING"
    /\ status = "FINISHED" => sessions[s].status = "STARTED"
    /\ sessions[s].createdBy = u
    /\ Await(c, [op |-> IF status = "FINISHED" THEN "FindUnpaid" ELSE "SaveSession",
                 session |-> s,
                 row |-> [sessions[s] EXCEPT !.numberOfPeople = people,
                            !.status = IF status = "unset" THEN @ ELSE status]])
    /\ UNCHANGED <<tables, everStarted, admitted>>

\* Mutant of SessionFindUnpaid: the result of the find is not looked at.
SessionFindUnpaidIgnored(c) ==
    /\ At(c, "FindUnpaid")
    /\ Await(c, [inflight[c] EXCEPT !.op = "SaveSession"])
    /\ UNCHANGED <<tables, everStarted, admitted>>

\* 'Some members are not paid', or on to the save.
SessionFindUnpaid(c) ==
    /\ At(c, "FindUnpaid")
    /\ IF UnpaidMembers(inflight[c].session) # {}
       THEN Answer(c)
       ELSE Await(c, [inflight[c] EXCEPT !.op = "SaveSession"])
    /\ UNCHANGED <<tables, everStarted, admitted>>

\* save first reads the row again, to find which columns of the entity loaded
\* at the start of the call differ from it.
SessionSaveRead(c) ==
    /\ At(c, "SaveSession")
    /\ Await(c, [op |-> "WriteSession", session |-> inflight[c].session,
                 row |-> inflight[c].row, seen |-> sessions[inflight[c].session]])
    /\ UNCHANGED <<tables, everStarted, admitted>>

SessionSaveWrite(c) ==
    /\ At(c, "WriteSession")
    /\ LET s == inflight[c].session
           current == sessions[s]
           seen == inflight[c].seen
           row == inflight[c].row
           status == Column(current.status, seen.status, row.status)
       IN  /\ sessions' = Put(sessions, s,
                [status |-> status, createdBy |-> current.createdBy,
                 numberOfPeople |-> Column(current.numberOfPeople, seen.numberOfPeople,
                                           row.numberOfPeople)])
           /\ everStarted' = IF status = "STARTED" THEN everStarted \cup {s} ELSE everStarted
    /\ Answer(c)
    /\ UNCHANGED <<members, requests, admitted>>

\* BadmintonSessionService.remove is no action: getEntity does not join
\* createdBy, so reading createdBy.id throws before anything is written.

-----------------------------------------------------------------------------
(* MemberService *)

MemberInsert(c, u, v, s) ==
    /\ Idle(c)
    /\ s \in DOMAIN sessions
    /\ sessions[s].status = "PENDING"
    /\ sessions[s].createdBy = u
    /\ ~IsMember(v, s)
    /\ Await(c, [op |-> "SaveMember", user |-> v, session |-> s])
    /\ UNCHANGED <<tables, everStarted, admitted>>

MemberInsertSave(c) ==
    /\ At(c, "SaveMember")
    /\ \E m \in Unused(members, MemberIds) :
          members' = Put(members, m, NewMember(inflight[c].user, inflight[c].session))
    /\ Answer(c)
    /\ UNCHANGED <<sessions, requests, everStarted, admitted>>

\* The columns surcharge and totalFee are not modelled here.  payment is the
\* body's paymentType, the only field with which a client could say PAID.
MemberChange(c, u, m, payment) ==
    /\ Idle(c)
    /\ m \in Live(members)
    /\ sessions[members[m].session].status = "STARTED"
    /\ sessions[members[m].session].createdBy = u
    /\ Await(c, [op |-> "UpdateMember", member |-> m, payment |-> payment])
    /\ UNCHANGED <<tables, everStarted, admitted>>

\* A body with paymentType names a property the entity does not have: the ORM
\* throws, and the call can only end in Abort.  Without it the update writes the
\* columns left out here, and paymentStatus stays as it is.
MemberChangeUpdate(c) ==
    /\ At(c, "UpdateMember")
    /\ inflight[c].payment = "unset"
    /\ Answer(c)
    /\ UNCHANGED <<tables, everStarted, admitted>>

\* Mutant of MemberRemove: without the guard on the status of the session.
MemberRemoveUnguarded(c, u, m) ==
    /\ Idle(c)
    /\ m \in Live(members)
    /\ sessions[members[m].session].createdBy = u
    /\ Await(c, [op |-> "DeleteMember", member |-> m])
    /\ UNCHANGED <<tables, everStarted, admitted>>

MemberRemove(c, u, m) ==
    /\ Idle(c)
    /\ m \in Live(members)
    /\ sessions[members[m].session].status = "PENDING"
    /\ sessions[members[m].session].createdBy = u
    /\ Await(c, [op |-> "DeleteMember", member |-> m])
    /\ UNCHANGED <<tables, everStarted, admitted>>

MemberRemoveDelete(c) ==
    /\ At(c, "DeleteMember")
    /\ members' = [members EXCEPT ![inflight[c].member].live = FALSE]
    /\ Answer(c)
    /\ UNCHANGED <<sessions, requests, everStarted, admitted>>

-----------------------------------------------------------------------------
(* RequestService *)

RequestInsert(c, u, s) ==
    /\ Idle(c)
    /\ s \in DOMAIN sessions
    /\ sessions[s].status = "PENDING"
    /\ ~IsMember(u, s)
    /\ Cardinality(Roster(s)) < sessions[s].numberOfPeople
    /\ Await(c, [op |-> "InsertRequest", user |-> u, session |-> s])
    /\ UNCHANGED <<tables, everStarted, admitted>>

RequestInsertSave(c) ==
    /\ At(c, "InsertRequest")
    /\ \E r \in Unused(requests, RequestIds) :
          requests' = Put(requests, r,
                [createdBy |-> inflight[c].user, session |-> inflight[c].session,
                 status |-> "PENDING", live |-> TRUE])
    /\ Answer(c)
    /\ UNCHANGED <<sessions, members, everStarted, admitted>>

\* Mutant of RequestChange: the request is saved without its member.
RequestChangeMemberless(c, u, r, status) ==
    /\ Idle(c)
    /\ r \in Live(requests)
    /\ sessions[requests[r].session].createdBy = u
    /\ requests[r].status = "PENDING"
    /\ Await(c, [op |-> "SaveRequest", request |-> r,
                 row |-> [requests[r] EXCEPT !.status = status]])
    /\ UNCHANGED <<tables, everStarted, admitted>>

\* The decision is taken on the request as loaded; ACCEPTED saves a member
\* row before the request.
RequestChange(c, u, r, status) ==
    /\ Idle(c)
    /\ r \in Live(requests)
    /\ sessions[requests[r].session].createdBy = u
    /\ requests[r].status = "PENDING"
    /\ Await(c, [op |-> IF status = "ACCEPTED" THEN "SaveOwner" ELSE "SaveRequest",
                 request |-> r,
                 row |-> [requests[r] EXCEPT !.status = status]])
    /\ UNCHANGED <<tables, everStarted, admitted>>

\* The new member is the creator of the session, not of the request.
RequestAccept(c) ==
    /\ At(c, "SaveOwner")
    /\ LET s == inflight[c].row.session
       IN  \E m \in Unused(members, MemberIds) :
              /\ members' = Put(members, m, NewMember(sessions[s].createdBy, s))
              /\ admitted' = admitted \cup {<<inflight[c].request, m>>}
    /\ Await(c, [inflight[c] EXCEPT !.op = "SaveRequest"])
    /\ UNCHANGED <<sessions, requests, everStarted>>

RequestSaveRead(c) ==
    /\ At(c, "SaveRequest")
    /\ Await(c, [op |-> "WriteRequest", request |-> inflight[c].request,
                 row |-> inflight[c].row, seen |-> requests[inflight[c].request]])
    /\ UNCHANGED <<tables, everStarted, admitted>>

\* The loaded entity has deletedAt = null: a request deleted since then comes
\* back to life.
RequestSaveWrite(c) ==
    /\ At(c, "WriteRequest")
    /\ LET r == inflight[c].request
           current == requests[r]
           seen == inflight[c].seen
           row == inflight[c].row
       IN  requests' = Put(requests, r,
                [createdBy |-> current.createdBy, session |-> current.session,
                 status |-> Column(current.status, seen.status, row.status),
                 live |-> Column(current.live, seen.live, row.live)])
    /\ Answer(c)
    /\ UNCHANGED <<sessions, members, everStarted, admitted>>

\* The query that should load request r has no WHERE: it returns some live
\* request q, and the ownership check looks at q.
RequestRemove(c, u, q, r) ==
    /\ Idle(c)
    /\ q \in Live(requests)
    /\ requests[q].createdBy = u
    /\ Await(c, [op |-> "DeleteRequest", user |-> u, request |-> r])
    /\ UNCHANGED <<tables, everStarted, admitted>>

RequestRemoveDelete(c) ==
    /\ At(c, "DeleteRequest")
    /\ requests' = [r \in DOMAIN requests |->
                        IF r = inflight[c].request
                        THEN [requests[r] EXCEPT !.live = FALSE]
                        ELSE requests[r]]
    /\ Answer(c)
    /\ UNCHANGED <<sessions, members, everStarted, admitted>>

-----------------------------------------------------------------------------
\* The next query of call c fails, or the process dies: what the call has
\* written so far stays.
Abort(c) ==
    /\ c \in DOMAIN inflight
    /\ Answer(c)
    /\ UNCHANGED <<tables, everStarted, admitted>>

SessionBegins(c) ==
    \E u \in Users, s \in Sessions :
        \/ \E body \in CreateBadmintonSessionDto :
              SessionInsert(c, u, s, body.numberOfPeople, body.memberIds, body.known)
        \/ \E body \in UpdateBadmintonSessionDto :
              SessionChange(c, u, s, body.status, body.numberOfPeople)

MemberBegins(c) ==
    \E u \in Users :
        \/ \E body \in CreateMemberDto : MemberInsert(c, u, body.userId, body.badmintonSessionId)
        \/ \E m \in MemberIds, body \in UpdateMemberDto : MemberChange(c, u, m, body.paymentType)
        \/ \E m \in MemberIds : MemberRemove(c, u, m)

RequestBegins(c) ==
    \E u \in Users :
        \/ \E body \in CreateRequestDto : RequestInsert(c, u, body.badmintonSessionId)
        \/ \E r \in RequestIds, body \in ChangeStatusRequestDto :
              RequestChange(c, u, r, body.status)
        \/ \E q, r \in RequestIds : RequestRemove(c, u, q, r)

Continues(c) ==
    \/ SessionInsertReject(c) \/ SessionInsertMembers(c)
    \/ SessionFindUnpaid(c) \/ SessionSaveRead(c) \/ SessionSaveWrite(c)
    \/ MemberInsertSave(c) \/ MemberChangeUpdate(c) \/ MemberRemoveDelete(c)
    \/ RequestInsertSave(c) \/ RequestRemoveDelete(c)
    \/ RequestAccept(c) \/ RequestSaveRead(c) \/ RequestSaveWrite(c)

Next ==
    \E c \in Calls :
        SessionBegins(c) \/ MemberBegins(c) \/ RequestBegins(c) \/ Continues(c) \/ Abort(c)

Spec == Init /\ [][Next]_vars

-----------------------------------------------------------------------------
(* Properties that hold however the calls interleave *)

\* Every table holds rows of its type, and what a handler holds is of the
\* shape its next query expects.
TypeOK ==
    /\ IsTable(sessions, Sessions, SessionRow)
    /\ IsTable(members, MemberIds, MemberRow)
    /\ IsTable(requests, RequestIds, RequestRow)
    /\ IsTable(inflight, Calls, Continuation)
    /\ everStarted \subseteq Sessions
    /\ admitted \subseteq RequestIds \X MemberIds

\* A request is never ACCEPTED without a member row that its acceptance saved
\* in the same session: RequestService.change saves the member first, so
\* neither a crash between the two saves nor a second decision under way can
\* leave an accepted request with nothing to show for it.
AcceptedHasMembership ==
    \A r \in DOMAIN requests :
        requests[r].status = "ACCEPTED" =>
            \E m \in DOMAIN members :
                /\ <<r, m>> \in admitted
                /\ members[m].session = requests[r].session

\* A FINISHED session has been STARTED at some time, although the status is
\* written from a copy of the row that may be old by then
\* (BadmintonSessionService.change, the guard on FINISHED).
FinishedWasStarted ==
    \A s \in DOMAIN sessions :
        sessions[s].status = "FINISHED" => s \in everStarted

-----------------------------------------------------------------------------
(* Properties of one call at a time, failures and crashes included *)

\* A user other than the creator has at most one live membership in a
\* session: MemberService.insert refuses a second one, and the ids of
\* BadmintonSessionService.insert are distinct users.
OneMembershipPerGuest ==
    \A m, n \in Live(members) :
        /\ members[m].user = members[n].user
        /\ members[m].session = members[n].session
        /\ members[m].user # sessions[members[m].session].createdBy
        => m = n

\* What a session shows: its guests, and each request as answered or withdrawn.
Guests(s) == {members[m].user : m \in Roster(s)} \ {sessions[s].createdBy}

Shown == INSTANCE RosterSpec WITH
    status <- [s \in DOMAIN sessions |-> sessions[s].status],
    guests <- [s \in DOMAIN sessions |-> Guests(s)],
    asked <- [r \in DOMAIN requests |->
                IF requests[r].live THEN requests[r].status ELSE "WITHDRAWN"]

\* With one call at a time a call is as good as atomic, although it is made of
\* several queries, each of which may fail: what sessions, guests and requests
\* show is a behaviour of RosterSpec (all
\* handlers of the three services).
ImplementsRoster == Shown!Spec

\* No session is finished while a live member has not paid: the find of
\* unpaid members runs before the status is saved.
FinishedWhenPaid ==
    [][\A s \in DOMAIN sessions :
          /\ sessions[s].status # "FINISHED"
          /\ sessions'[s].status = "FINISHED"
          => UnpaidMembers(s) = {}]_vars

-----------------------------------------------------------------------------
(* What messages and declarations of the code say, and the code does not do *)

\* 'You are not the owner of this request': a request is deleted only by a
\* call of the user who created it (RequestService.remove).
RemovedByItsCreator ==
    [][\A r \in Live(requests) :
          ~requests'[r].live =>
             \E c \in DOMAIN inflight :
                At(c, "DeleteRequest") /\ inflight[c].user = requests[r].createdBy]_vars

\* 'Request is not in pending status': a request that has been accepted or
\* rejected keeps that decision (RequestService.change).  The guard looks at the
\* request as loaded, so of two overlapping decisions the later one stays.
DecidedOnce ==
    [][\A r \in DOMAIN requests :
          requests[r].status # "PENDING" => requests'[r].status = requests[r].status]_vars
=============================================================================
