-------------------------- MODULE MembershipProofs --------------------------
(***************************************************************************)
(* Theorems about Membership for any users, sessions, ids and any number   *)
(* of concurrent calls.                                                    *)
(***************************************************************************)
EXTENDS Membership, Lemmas

-----------------------------------------------------------------------------
(* The inductive invariant *)

\* Member and request rows belong to sessions that exist.
RowsRefer ==
    /\ \A m \in DOMAIN members : members[m].session \in DOMAIN sessions
    /\ \A r \in DOMAIN requests : requests[r].session \in DOMAIN sessions

\* A session that is past PENDING has been STARTED.
StartedIsRecorded ==
    \A s \in DOMAIN sessions : sessions[s].status # "PENDING" => s \in everStarted

\* Request r was accepted into session s by saving a member row.
HasMembership(r, s) ==
    \E m \in DOMAIN members : <<r, m>> \in admitted /\ members[m].session = s

\* What the guards passed so far by waiting call c have established: the rows
\* it names exist, a session it is to finish has been STARTED, and a request
\* it is to save as ACCEPTED has its member row.
Justified(c) ==
    /\ inflight[c].op \in {"SaveMembers", "FindUnpaid", "SaveSession", "WriteSession",
                           "SaveMember", "InsertRequest"}
          => inflight[c].session \in DOMAIN sessions
    /\ inflight[c].op \in {"FindUnpaid", "SaveSession", "WriteSession"}
          => (inflight[c].row.status = "FINISHED" => inflight[c].session \in everStarted)
    /\ inflight[c].op \in {"SaveOwner", "SaveRequest", "WriteRequest"}
          => /\ inflight[c].request \in DOMAIN requests
             /\ inflight[c].row.session = requests[inflight[c].request].session
    /\ inflight[c].op \in {"SaveRequest", "WriteRequest"}
          => (inflight[c].row.status = "ACCEPTED"
                => HasMembership(inflight[c].request, inflight[c].row.session))

RowsInv == RowsRefer /\ StartedIsRecorded /\ AcceptedHasMembership

IInv ==
    /\ TypeOK
    /\ RowsInv
    /\ \A c \in DOMAIN inflight : Justified(c)

\* No step removes a row, moves one to another session, or forgets history.
Grows ==
    /\ DOMAIN sessions \subseteq DOMAIN sessions'
    /\ \A m \in DOMAIN members :
          m \in DOMAIN members' /\ members'[m].session = members[m].session
    /\ \A r \in DOMAIN requests :
          r \in DOMAIN requests' /\ requests'[r].session = requests[r].session
    /\ everStarted \subseteq everStarted'
    /\ admitted \subseteq admitted'

TablesTyped ==
    /\ IsTable(sessions, Sessions, SessionRow)
    /\ IsTable(members, MemberIds, MemberRow)
    /\ IsTable(requests, RequestIds, RequestRow)
    /\ everStarted \subseteq Sessions
    /\ admitted \subseteq RequestIds \X MemberIds

-----------------------------------------------------------------------------
(* What a waiting handler holds *)

\* The fields of a continuation have the types its kind declares.
LEMMA ContinuationFields ==
    ASSUME NEW k \in Continuation
    PROVE  /\ k.op = "SaveMembers" =>
                 /\ k.user \in Users /\ k.session \in Sessions
                 /\ k.invited \in SUBSET Users /\ k.found \in BOOLEAN
           /\ k.op \in {"FindUnpaid", "SaveSession"} =>
                 k.session \in Sessions /\ k.row \in SessionRow
           /\ k.op = "WriteSession" =>
                 k.session \in Sessions /\ k.row \in SessionRow /\ k.seen \in SessionRow
           /\ k.op \in {"SaveMember", "InsertRequest"} =>
                 k.user \in Users /\ k.session \in Sessions
           /\ k.op = "DeleteMember" => k.member \in MemberIds
           /\ k.op \in {"SaveOwner", "SaveRequest"} =>
                 k.request \in RequestIds /\ k.row \in RequestRow
           /\ k.op = "WriteRequest" =>
                 k.request \in RequestIds /\ k.row \in RequestRow /\ k.seen \in RequestRow
           /\ k.op = "DeleteRequest" => k.request \in RequestIds
BY DEF Continuation

\* Awaiting a well-formed continuation stores it and nothing else.
LEMMA AwaitFacts ==
    ASSUME TypeOK, NEW c \in Calls, NEW k \in Continuation, Await(c, k)
    PROVE  /\ IsTable(inflight', Calls, Continuation)
           /\ DOMAIN inflight' = DOMAIN inflight \cup {c}
           /\ inflight'[c] = k
           /\ \A d \in DOMAIN inflight : d # c => inflight'[d] = inflight[d]
<1>1. IsTable(inflight, Calls, Continuation)
  BY DEF TypeOK
<1> QED
  BY <1>1, PutRow DEF Await

\* Answering a call removes what it held and nothing else.
LEMMA AnswerFacts ==
    ASSUME TypeOK, NEW c, Answer(c)
    PROVE  /\ IsTable(inflight', Calls, Continuation)
           /\ DOMAIN inflight' = DOMAIN inflight \ {c}
           /\ \A d \in DOMAIN inflight' : inflight'[d] = inflight[d]
<1>1. IsTable(inflight, Calls, Continuation)
  BY DEF TypeOK
<1> QED
  BY <1>1, DropRow DEF Answer

-----------------------------------------------------------------------------
(* Steps in general *)

\* What held for a waiting call still holds after a step of another call.
LEMMA JustifiedStays ==
    ASSUME Grows, NEW d \in DOMAIN inflight, Justified(d), inflight'[d] = inflight[d]
    PROVE  Justified(d)'
BY DEF Grows, Justified, HasMembership

\* A step that answers its call keeps the invariant if it keeps the tables'.
LEMMA AnswerStep ==
    ASSUME IInv, NEW c, Answer(c), Grows, TablesTyped', RowsInv'
    PROVE  IInv'
<1>1. /\ IsTable(inflight', Calls, Continuation)
      /\ DOMAIN inflight' = DOMAIN inflight \ {c}
      /\ \A d \in DOMAIN inflight' : inflight'[d] = inflight[d]
  BY AnswerFacts DEF IInv
<1>2. TypeOK'
  BY <1>1 DEF TypeOK, TablesTyped
<1>3. ASSUME NEW d \in DOMAIN inflight'  PROVE Justified(d)'
  BY <1>1, JustifiedStays DEF IInv
<1> QED
  BY <1>2, <1>3 DEF IInv

\* A step that makes its call wait again keeps the invariant if, moreover,
\* what the call now holds is justified.
LEMMA AwaitStep ==
    ASSUME IInv, NEW c \in Calls, NEW k \in Continuation, Await(c, k), Grows,
           TablesTyped', RowsInv', Justified(c)'
    PROVE  IInv'
<1>1. /\ IsTable(inflight', Calls, Continuation)
      /\ DOMAIN inflight' = DOMAIN inflight \cup {c}
      /\ \A d \in DOMAIN inflight : d # c => inflight'[d] = inflight[d]
  BY AwaitFacts DEF IInv
<1>2. TypeOK'
  BY <1>1 DEF TypeOK, TablesTyped
<1>3. ASSUME NEW d \in DOMAIN inflight'  PROVE Justified(d)'
  <2>1. CASE d = c
    BY <2>1
  <2>2. CASE d # c
    BY <1>1, <2>2, JustifiedStays DEF IInv
  <2> QED
    BY <2>1, <2>2
<1> QED
  BY <1>2, <1>3 DEF IInv

\* A step that leaves the tables and the history alone keeps what is said
\* about them.
LEMMA QuietStep ==
    ASSUME IInv, UNCHANGED <<tables, everStarted, admitted>>
    PROVE  Grows /\ TablesTyped' /\ RowsInv'
BY DEF IInv, TypeOK, RowsInv, RowsRefer, StartedIsRecorded, AcceptedHasMembership,
       Grows, TablesTyped, tables

-----------------------------------------------------------------------------
(* The first query of each call *)

LEMMA SessionBeginsStep ==
    ASSUME IInv, NEW c \in Calls, SessionBegins(c)
    PROVE  IInv'
<1>1. ASSUME NEW u \in Users, NEW s \in Sessions, NEW people \in Capacities,
             NEW invited \in SUBSET Users, NEW found \in BOOLEAN,
             SessionInsert(c, u, s, people, invited, found)
      PROVE  IInv'
  <2> DEFINE k == [op |-> "SaveMembers", user |-> u, session |-> s,
                   invited |-> invited, found |-> found]
             row == [status |-> "PENDING", createdBy |-> u, numberOfPeople |-> people]
  <2>1. k \in Continuation /\ Await(c, k)
    BY <1>1 DEF SessionInsert, Continuation
  <2>2. row \in SessionRow /\ sessions' = Put(sessions, s, row) /\ s \notin DOMAIN sessions
    BY <1>1 DEF SessionInsert, SessionRow, SessionStatus, Unused
  <2>3. /\ IsTable(sessions', Sessions, SessionRow)
        /\ DOMAIN sessions' = DOMAIN sessions \cup {s}
        /\ sessions'[s] = row
        /\ \A x \in DOMAIN sessions : sessions'[x] = sessions[x]
    BY <2>2, PutRow DEF IInv, TypeOK
  <2>4. UNCHANGED <<members, requests, everStarted, admitted>>
    BY <1>1 DEF SessionInsert
  <2>5. Grows /\ TablesTyped'
    BY <2>3, <2>4 DEF IInv, TypeOK, Grows, TablesTyped
  <2>6. RowsInv'
    BY <2>3, <2>4 DEF IInv, RowsInv, RowsRefer, StartedIsRecorded, AcceptedHasMembership
  <2>7. inflight'[c] = k
    BY <2>1, AwaitFacts DEF IInv
  <2>8. Justified(c)'
    BY <2>3, <2>7 DEF Justified
  <2> HIDE DEF k
  <2> QED
    BY <2>1, <2>5, <2>6, <2>8, AwaitStep
<1>2. ASSUME NEW u \in Users, NEW s \in Sessions, NEW people \in Capacities,
             NEW status \in SessionStatus \cup {"unset"},
             SessionChange(c, u, s, status, people)
      PROVE  IInv'
  <2> DEFINE row == [sessions[s] EXCEPT !.numberOfPeople = people,
                        !.status = IF status = "unset" THEN @ ELSE status]
             k == [op |-> IF status = "FINISHED" THEN "FindUnpaid" ELSE "SaveSession",
                   session |-> s, row |-> row]
  <2>1. s \in DOMAIN sessions /\ sessions[s] \in SessionRow
    BY <1>2 DEF SessionChange, IInv, TypeOK, IsTable
  <2>2. row \in SessionRow
    BY <2>1 DEF SessionRow, SessionStatus
  <2>3. k \in Continuation /\ Await(c, k)
    BY <1>2, <2>2 DEF SessionChange, Continuation
  <2>4. UNCHANGED <<tables, everStarted, admitted>>
    BY <1>2 DEF SessionChange
  <2>5. row.status = "FINISHED" => s \in everStarted
    <3>1. row.status = IF status = "unset" THEN sessions[s].status ELSE status
      BY <2>1 DEF SessionRow
    <3> QED
      BY <1>2, <2>1, <3>1 DEF SessionChange, IInv, RowsInv, StartedIsRecorded
  <2>6. inflight'[c] = k
    BY <2>3, AwaitFacts DEF IInv
  <2>7. Justified(c)'
    <3>1. k.op \in {"FindUnpaid", "SaveSession"} /\ k.session = s /\ k.row = row
      OBVIOUS
    <3> HIDE DEF k, row
    <3> QED
      BY <2>1, <2>4, <2>5, <2>6, <3>1 DEF Justified, tables
  <2> HIDE DEF k
  <2> QED
    BY <2>3, <2>4, <2>7, QuietStep, AwaitStep
<1>3. \A body \in CreateBadmintonSessionDto :
            /\ body.numberOfPeople \in Capacities
            /\ body.memberIds \in SUBSET Users
            /\ body.known \in BOOLEAN
  BY DEF CreateBadmintonSessionDto
<1>4. \A body \in UpdateBadmintonSessionDto :
            body.numberOfPeople \in Capacities /\ body.status \in SessionStatus \cup {"unset"}
  BY DEF UpdateBadmintonSessionDto
<1> QED
  BY <1>1, <1>2, <1>3, <1>4 DEF SessionBegins

LEMMA MemberBeginsStep ==
    ASSUME IInv, NEW c \in Calls, MemberBegins(c)
    PROVE  IInv'
<1>1. ASSUME NEW u \in Users, NEW v \in Users, NEW s \in Sessions, MemberInsert(c, u, v, s)
      PROVE  IInv'
  <2> DEFINE k == [op |-> "SaveMember", user |-> v, session |-> s]
  <2>1. k \in Continuation /\ Await(c, k)
    BY <1>1 DEF MemberInsert, Continuation
  <2>2. UNCHANGED <<tables, everStarted, admitted>> /\ s \in DOMAIN sessions
    BY <1>1 DEF MemberInsert
  <2>3. inflight'[c] = k
    BY <2>1, AwaitFacts DEF IInv
  <2>4. Justified(c)'
    BY <2>2, <2>3 DEF Justified, tables
  <2> HIDE DEF k
  <2> QED
    BY <2>1, <2>2, <2>4, QuietStep, AwaitStep
<1>2. ASSUME NEW u \in Users, NEW m \in MemberIds, NEW payment \in PaymentStatus \cup {"unset"},
             MemberChange(c, u, m, payment)
      PROVE  IInv'
  <2> DEFINE k == [op |-> "UpdateMember", member |-> m, payment |-> payment]
  <2>1. k \in Continuation /\ Await(c, k)
    BY <1>2 DEF MemberChange, Continuation
  <2>2. UNCHANGED <<tables, everStarted, admitted>>
    BY <1>2 DEF MemberChange
  <2>3. inflight'[c] = k
    BY <2>1, AwaitFacts DEF IInv
  <2>4. Justified(c)'
    BY <2>3 DEF Justified
  <2> HIDE DEF k
  <2> QED
    BY <2>1, <2>2, <2>4, QuietStep, AwaitStep
<1>3. ASSUME NEW u \in Users, NEW m \in MemberIds, MemberRemove(c, u, m)
      PROVE  IInv'
  <2> DEFINE k == [op |-> "DeleteMember", member |-> m]
  <2>1. k \in Continuation /\ Await(c, k)
    BY <1>3 DEF MemberRemove, Continuation
  <2>2. UNCHANGED <<tables, everStarted, admitted>>
    BY <1>3 DEF MemberRemove
  <2>3. inflight'[c] = k
    BY <2>1, AwaitFacts DEF IInv
  <2>4. Justified(c)'
    BY <2>3 DEF Justified
  <2> HIDE DEF k
  <2> QED
    BY <2>1, <2>2, <2>4, QuietStep, AwaitStep
<1> QED
  BY <1>1, <1>2, <1>3 DEF MemberBegins, CreateMemberDto, UpdateMemberDto

LEMMA RequestBeginsStep ==
    ASSUME IInv, NEW c \in Calls, RequestBegins(c)
    PROVE  IInv'
<1>1. ASSUME NEW u \in Users, NEW s \in Sessions, RequestInsert(c, u, s)
      PROVE  IInv'
  <2> DEFINE k == [op |-> "InsertRequest", user |-> u, session |-> s]
  <2>1. k \in Continuation /\ Await(c, k)
    BY <1>1 DEF RequestInsert, Continuation
  <2>2. UNCHANGED <<tables, everStarted, admitted>> /\ s \in DOMAIN sessions
    BY <1>1 DEF RequestInsert
  <2>3. inflight'[c] = k
    BY <2>1, AwaitFacts DEF IInv
  <2>4. Justified(c)'
    BY <2>2, <2>3 DEF Justified, tables
  <2> HIDE DEF k
  <2> QED
    BY <2>1, <2>2, <2>4, QuietStep, AwaitStep
<1>2. ASSUME NEW u \in Users, NEW r \in RequestIds, NEW status \in RequestStatus,
             RequestChange(c, u, r, status)
      PROVE  IInv'
  <2> DEFINE row == [requests[r] EXCEPT !.status = status]
             k == [op |-> IF status = "ACCEPTED" THEN "SaveOwner" ELSE "SaveRequest",
                   request |-> r, row |-> row]
  <2>1. r \in DOMAIN requests /\ requests[r] \in RequestRow
    BY <1>2 DEF RequestChange, Live, IInv, TypeOK, IsTable
  <2>2. row \in RequestRow /\ row.session = requests[r].session /\ row.status = status
    BY <2>1 DEF RequestRow
  <2>3. k \in Continuation /\ Await(c, k)
    BY <1>2, <2>2 DEF RequestChange, Continuation
  <2>4. UNCHANGED <<tables, everStarted, admitted>>
    BY <1>2 DEF RequestChange
  <2>5. inflight'[c] = k
    BY <2>3, AwaitFacts DEF IInv
  <2>6. Justified(c)'
    <3>1. /\ k.op \in {"SaveOwner", "SaveRequest"} /\ k.request = r /\ k.row = row
          /\ k.op = "SaveRequest" => status # "ACCEPTED"
      OBVIOUS
    <3> HIDE DEF k, row
    <3> QED
      BY <2>1, <2>2, <2>4, <2>5, <3>1 DEF Justified, tables
  <2> HIDE DEF k
  <2> QED
    BY <2>3, <2>4, <2>6, QuietStep, AwaitStep
<1>3. ASSUME NEW u \in Users, NEW q \in RequestIds, NEW r \in RequestIds,
             RequestRemove(c, u, q, r)
      PROVE  IInv'
  <2> DEFINE k == [op |-> "DeleteRequest", user |-> u, request |-> r]
  <2>1. k \in Continuation /\ Await(c, k)
    BY <1>3 DEF RequestRemove, Continuation
  <2>2. UNCHANGED <<tables, everStarted, admitted>>
    BY <1>3 DEF RequestRemove
  <2>3. inflight'[c] = k
    BY <2>1, AwaitFacts DEF IInv
  <2>4. Justified(c)'
    BY <2>3 DEF Justified
  <2> HIDE DEF k
  <2> QED
    BY <2>1, <2>2, <2>4, QuietStep, AwaitStep
<1> QED
  BY <1>1, <1>2, <1>3 DEF RequestBegins, CreateRequestDto, ChangeStatusRequestDto

-----------------------------------------------------------------------------
(* The later queries of each call *)

\* Steps that only answer: the tables stay as they are.
LEMMA OnlyAnswerStep ==
    ASSUME IInv, NEW c \in Calls,
           \/ SessionInsertReject(c) \/ MemberChangeUpdate(c) \/ Abort(c)
    PROVE  IInv'
<1>1. Answer(c) /\ UNCHANGED <<tables, everStarted, admitted>>
  BY DEF SessionInsertReject, MemberChangeUpdate, Abort
<1> QED
  BY <1>1, QuietStep, AnswerStep

\* Saving any member rows of existing sessions keeps what is said about rows.
LEMMA SaveMemberRows ==
    ASSUME IInv, NEW rows, IsTable(rows, MemberIds, MemberRow),
           DOMAIN rows \cap DOMAIN members = {},
           \A m \in DOMAIN rows : rows[m].session \in DOMAIN sessions,
           members' = PutAll(members, rows),
           admitted \subseteq admitted', admitted' \subseteq RequestIds \X MemberIds,
           UNCHANGED <<sessions, requests, everStarted>>
    PROVE  Grows /\ TablesTyped' /\ RowsInv'
<1>1. IsTable(members, MemberIds, MemberRow)
  BY DEF IInv, TypeOK
<1>2. /\ IsTable(members', MemberIds, MemberRow)
      /\ DOMAIN members' = DOMAIN members \cup DOMAIN rows
      /\ \A m \in DOMAIN rows : members'[m] = rows[m]
      /\ \A m \in DOMAIN members \ DOMAIN rows : members'[m] = members[m]
  <2>1. IsTable(PutAll(members, rows), MemberIds, MemberRow)
    BY <1>1, PutRows
  <2> QED
    BY <2>1 DEF PutAll
<1> QED
  BY <1>2 DEF IInv, TypeOK, RowsInv, RowsRefer, StartedIsRecorded, AcceptedHasMembership,
              Grows, TablesTyped

\* The same for one row.
LEMMA SaveMemberRow ==
    ASSUME IInv, NEW u \in Users, NEW s \in DOMAIN sessions,
           NEW m \in Unused(members, MemberIds),
           members' = Put(members, m, NewMember(u, s)),
           admitted \subseteq admitted', admitted' \subseteq RequestIds \X MemberIds,
           UNCHANGED <<sessions, requests, everStarted>>
    PROVE  /\ Grows /\ TablesTyped' /\ RowsInv'
           /\ m \in DOMAIN members' /\ members'[m].session = s
<1>1. m \in MemberIds /\ m \notin DOMAIN members /\ s \in Sessions
  BY DEF Unused, IInv, TypeOK, IsTable
<1>2. NewMember(u, s) \in MemberRow /\ NewMember(u, s).session = s
  BY <1>1 DEF NewMember, MemberRow, PaymentStatus
<1>3. /\ IsTable(members', MemberIds, MemberRow)
      /\ DOMAIN members' = DOMAIN members \cup {m}
      /\ members'[m] = NewMember(u, s)
      /\ \A x \in DOMAIN members : members'[x] = members[x]
  BY <1>1, <1>2, PutRow DEF IInv, TypeOK
<1> QED
  BY <1>2, <1>3 DEF IInv, TypeOK, RowsInv, RowsRefer, StartedIsRecorded,
                    AcceptedHasMembership, Grows, TablesTyped

LEMMA SessionInsertMembersStep ==
    ASSUME IInv, NEW c \in Calls, SessionInsertMembers(c)
    PROVE  IInv'
<1> DEFINE k == inflight[c]
<1>1. /\ c \in DOMAIN inflight /\ k \in Continuation /\ k.op = "SaveMembers"
      /\ k.user \in Users /\ k.session \in DOMAIN sessions /\ k.session \in Sessions
      /\ k.invited \in SUBSET Users
  <2>1. c \in DOMAIN inflight /\ k \in Continuation /\ k.op = "SaveMembers"
    BY DEF SessionInsertMembers, At, IInv, TypeOK, IsTable
  <2> QED
    BY <2>1, ContinuationFields DEF IInv, Justified
<1>2. PICK own \in Unused(members, MemberIds) :
         \E id \in Injection(k.invited, Unused(members, MemberIds) \ {own}) :
            members' = PutAll(members,
               [m \in {own} \cup Range(id) |->
                   NewMember(IF m = own THEN k.user ELSE CHOOSE v \in k.invited : id[v] = m,
                             k.session)])
  BY DEF SessionInsertMembers
<1>3. PICK id \in Injection(k.invited, Unused(members, MemberIds) \ {own}) :
         members' = PutAll(members,
            [m \in {own} \cup Range(id) |->
                NewMember(IF m = own THEN k.user ELSE CHOOSE v \in k.invited : id[v] = m,
                          k.session)])
  BY <1>2
<1> DEFINE rows == [m \in {own} \cup Range(id) |->
                NewMember(IF m = own THEN k.user ELSE CHOOSE v \in k.invited : id[v] = m,
                          k.session)]
<1>4. /\ id \in [k.invited -> Unused(members, MemberIds) \ {own}]
      /\ Range(id) = {id[v] : v \in k.invited}
  BY DEF Injection, Range
<1>5. DOMAIN rows \subseteq Unused(members, MemberIds)
  BY <1>4
<1>6. ASSUME NEW m \in DOMAIN rows
      PROVE  rows[m] \in MemberRow /\ rows[m].session = k.session
  <2>1. m = own \/ \E v \in k.invited : id[v] = m
    BY <1>4
  <2>2. (IF m = own THEN k.user ELSE CHOOSE v \in k.invited : id[v] = m) \in Users
    BY <1>1, <2>1
  <2> QED
    BY <1>1, <2>2 DEF NewMember, MemberRow, PaymentStatus
<1>7. IsTable(rows, MemberIds, MemberRow) /\ DOMAIN rows \cap DOMAIN members = {}
  BY <1>5, <1>6 DEF IsTable, Unused
<1>8. Answer(c) /\ UNCHANGED <<sessions, requests, everStarted, admitted>>
  BY DEF SessionInsertMembers
<1>9. members' = PutAll(members, rows) /\ admitted \subseteq RequestIds \X MemberIds
  BY <1>3 DEF IInv, TypeOK
<1> HIDE DEF rows, k
<1>10. Grows /\ TablesTyped' /\ RowsInv'
  BY <1>1, <1>6, <1>7, <1>8, <1>9, SaveMemberRows
<1> QED
  BY <1>8, <1>10, AnswerStep

LEMMA MemberInsertSaveStep ==
    ASSUME IInv, NEW c \in Calls, MemberInsertSave(c)
    PROVE  IInv'
<1>1. /\ c \in DOMAIN inflight /\ inflight[c] \in Continuation
      /\ inflight[c].op = "SaveMember"
  BY DEF MemberInsertSave, At, IInv, TypeOK, IsTable
<1>2. inflight[c].user \in Users /\ inflight[c].session \in DOMAIN sessions
  BY <1>1, ContinuationFields DEF IInv, Justified
<1>3. Answer(c) /\ UNCHANGED <<sessions, requests, everStarted, admitted>>
  BY DEF MemberInsertSave
<1>4. PICK m \in Unused(members, MemberIds) :
         members' = Put(members, m, NewMember(inflight[c].user, inflight[c].session))
  BY DEF MemberInsertSave
<1>5. Grows /\ TablesTyped' /\ RowsInv'
  BY <1>2, <1>3, <1>4, SaveMemberRow DEF IInv, TypeOK
<1> QED
  BY <1>3, <1>5, AnswerStep

LEMMA MemberRemoveDeleteStep ==
    ASSUME IInv, NEW c \in Calls, MemberRemoveDelete(c)
    PROVE  IInv'
<1>1. Answer(c) /\ UNCHANGED <<sessions, requests, everStarted, admitted>>
  BY DEF MemberRemoveDelete
<1>2. members \in [DOMAIN members -> MemberRow] /\ DOMAIN members \subseteq MemberIds
  BY DEF IInv, TypeOK, IsTable
<1>3. /\ members' \in [DOMAIN members -> MemberRow]
      /\ \A m \in DOMAIN members : members'[m].session = members[m].session
  BY <1>2 DEF MemberRemoveDelete, MemberRow
<1>4. Grows /\ TablesTyped' /\ RowsInv'
  BY <1>1, <1>2, <1>3 DEF IInv, TypeOK, IsTable, RowsInv, RowsRefer, StartedIsRecorded,
                          AcceptedHasMembership, Grows, TablesTyped
<1> QED
  BY <1>1, <1>4, AnswerStep

LEMMA SessionFindUnpaidStep ==
    ASSUME IInv, NEW c \in Calls, SessionFindUnpaid(c)
    PROVE  IInv'
<1>1. /\ c \in DOMAIN inflight /\ inflight[c] \in Continuation
      /\ inflight[c].op = "FindUnpaid"
      /\ UNCHANGED <<tables, everStarted, admitted>>
  BY DEF SessionFindUnpaid, At, IInv, TypeOK, IsTable
<1>2. CASE Answer(c)
  BY <1>1, <1>2, QuietStep, AnswerStep
<1>3. CASE Await(c, [inflight[c] EXCEPT !.op = "SaveSession"])
  <2> DEFINE k == [inflight[c] EXCEPT !.op = "SaveSession"]
  <2>1. /\ k \in Continuation /\ k.op = "SaveSession"
        /\ k.session = inflight[c].session /\ k.row = inflight[c].row
    BY <1>1 DEF Continuation
  <2>2. inflight'[c] = k
    BY <1>3, <2>1, AwaitFacts DEF IInv
  <2>3. Justified(c)
    BY <1>1 DEF IInv
  <2>4. Justified(c)'
    <3> HIDE DEF k
    <3> QED
      BY <1>1, <2>1, <2>2, <2>3 DEF Justified, tables
  <2> HIDE DEF k
  <2> QED
    BY <1>1, <1>3, <2>1, <2>4, QuietStep, AwaitStep DEF k
<1> QED
  BY <1>2, <1>3 DEF SessionFindUnpaid

LEMMA SessionSaveReadStep ==
    ASSUME IInv, NEW c \in Calls, SessionSaveRead(c)
    PROVE  IInv'
<1> DEFINE s == inflight[c].session
           k == [op |-> "WriteSession", session |-> s,
                 row |-> inflight[c].row, seen |-> sessions[s]]
<1>1. /\ c \in DOMAIN inflight /\ inflight[c] \in Continuation
      /\ inflight[c].op = "SaveSession"
      /\ UNCHANGED <<tables, everStarted, admitted>> /\ Await(c, k)
  BY DEF SessionSaveRead, At, IInv, TypeOK, IsTable
<1>2. Justified(c)
  BY <1>1 DEF IInv
<1>3. s \in DOMAIN sessions /\ sessions[s] \in SessionRow
  BY <1>1, <1>2 DEF Justified, IInv, TypeOK, IsTable
<1>4. k \in Continuation
  <2>1. s \in Sessions /\ inflight[c].row \in SessionRow
    BY <1>1, ContinuationFields
  <2> QED
    BY <1>3, <2>1 DEF Continuation
<1>5. inflight'[c] = k
  BY <1>1, <1>4, AwaitFacts DEF IInv
<1>6. Justified(c)'
  BY <1>1, <1>2, <1>5 DEF Justified, tables
<1> HIDE DEF k
<1> QED
  BY <1>1, <1>4, <1>6, QuietStep, AwaitStep

LEMMA SessionSaveWriteStep ==
    ASSUME IInv, NEW c \in Calls, SessionSaveWrite(c)
    PROVE  IInv'
<1> DEFINE s == inflight[c].session
           current == sessions[s]
           seen == inflight[c].seen
           want == inflight[c].row
           status == Column(current.status, seen.status, want.status)
           new == [status |-> status, createdBy |-> current.createdBy,
                   numberOfPeople |-> Column(current.numberOfPeople, seen.numberOfPeople,
                                             want.numberOfPeople)]
<1>1. /\ c \in DOMAIN inflight /\ inflight[c] \in Continuation
      /\ inflight[c].op = "WriteSession" /\ Justified(c)
  BY DEF SessionSaveWrite, At, IInv, TypeOK, IsTable
<1>2. s \in DOMAIN sessions /\ s \in Sessions /\ want \in SessionRow /\ current \in SessionRow
  BY <1>1, ContinuationFields DEF Justified, IInv, TypeOK, IsTable
<1>3. new \in SessionRow /\ new.status = status
  BY <1>2 DEF SessionRow, Column
<1>4. /\ sessions' = Put(sessions, s, new)
      /\ everStarted' = IF status = "STARTED" THEN everStarted \cup {s} ELSE everStarted
      /\ Answer(c) /\ UNCHANGED <<members, requests, admitted>>
  BY DEF SessionSaveWrite
<1>5. status \in {current.status, want.status}
  BY DEF Column
<1>6. status # "PENDING" => s \in everStarted'
  <2>1. want.status \in SessionStatus /\ current.status \in SessionStatus
    BY <1>2 DEF SessionRow
  <2>2. want.status = "FINISHED" => s \in everStarted
    BY <1>1 DEF Justified
  <2>3. current.status # "PENDING" => s \in everStarted
    BY <1>2 DEF IInv, RowsInv, StartedIsRecorded
  <2> HIDE DEF s, status, current, want
  <2> QED
    BY <1>4, <1>5, <2>1, <2>2, <2>3 DEF SessionStatus
<1> HIDE DEF s, new, status, current, want, seen
<1>7. /\ IsTable(sessions', Sessions, SessionRow)
      /\ DOMAIN sessions' = DOMAIN sessions
      /\ sessions'[s] = new
      /\ \A x \in DOMAIN sessions : x # s => sessions'[x] = sessions[x]
  <2>1. IsTable(sessions, Sessions, SessionRow)
    BY DEF IInv, TypeOK
  <2> QED
    BY <1>2, <1>3, <1>4, <2>1, PutRow
<1>8. Grows /\ TablesTyped'
  BY <1>2, <1>4, <1>7 DEF IInv, TypeOK, Grows, TablesTyped
<1>9. RowsInv'
  BY <1>3, <1>4, <1>6, <1>7 DEF IInv, RowsInv, RowsRefer, StartedIsRecorded,
                                 AcceptedHasMembership
<1> QED
  BY <1>4, <1>8, <1>9, AnswerStep

\* Saving one request row of an existing session, whose status is ACCEPTED only
\* with a membership to show for it, keeps what is said about rows.
LEMMA SaveRequestRow ==
    ASSUME IInv, NEW r \in RequestIds, NEW row \in RequestRow,
           row.session \in DOMAIN sessions,
           r \in DOMAIN requests => row.session = requests[r].session,
           row.status = "ACCEPTED" => HasMembership(r, row.session),
           requests' = Put(requests, r, row),
           UNCHANGED <<sessions, members, everStarted, admitted>>
    PROVE  Grows /\ TablesTyped' /\ RowsInv'
<1>1. IsTable(requests, RequestIds, RequestRow)
  BY DEF IInv, TypeOK
<1>2. /\ IsTable(requests', RequestIds, RequestRow)
      /\ DOMAIN requests' = DOMAIN requests \cup {r}
      /\ requests'[r] = row
      /\ \A x \in DOMAIN requests : x # r => requests'[x] = requests[x]
  <2>1. IsTable(Put(requests, r, row), RequestIds, RequestRow)
    BY <1>1, PutRow
  <2> QED
    BY <2>1 DEF Put
<1>3. Grows /\ TablesTyped'
  BY <1>2 DEF IInv, TypeOK, Grows, TablesTyped
<1>4. RowsRefer' /\ StartedIsRecorded'
  BY <1>2 DEF IInv, RowsInv, RowsRefer, StartedIsRecorded
<1>5. AcceptedHasMembership'
  BY <1>2 DEF IInv, RowsInv, AcceptedHasMembership, HasMembership
<1> QED
  BY <1>3, <1>4, <1>5 DEF RowsInv

LEMMA RequestInsertSaveStep ==
    ASSUME IInv, NEW c \in Calls, RequestInsertSave(c)
    PROVE  IInv'
<1>1. /\ c \in DOMAIN inflight /\ inflight[c] \in Continuation
      /\ inflight[c].op = "InsertRequest" /\ Justified(c)
  BY DEF RequestInsertSave, At, IInv, TypeOK, IsTable
<1>2. /\ inflight[c].user \in Users /\ inflight[c].session \in DOMAIN sessions
      /\ inflight[c].session \in Sessions
  BY <1>1, ContinuationFields DEF Justified
<1> DEFINE row == [createdBy |-> inflight[c].user, session |-> inflight[c].session,
                   status |-> "PENDING", live |-> TRUE]
<1>3. PICK r \in Unused(requests, RequestIds) : requests' = Put(requests, r, row)
  BY DEF RequestInsertSave
<1>4. Answer(c) /\ UNCHANGED <<sessions, members, everStarted, admitted>>
  BY DEF RequestInsertSave
<1>5. /\ row \in RequestRow /\ row.session \in DOMAIN sessions /\ row.status = "PENDING"
      /\ r \in RequestIds /\ r \notin DOMAIN requests
  BY <1>2 DEF RequestRow, RequestStatus, Unused
<1> HIDE DEF row
<1>6. Grows /\ TablesTyped' /\ RowsInv'
  BY <1>3, <1>4, <1>5, SaveRequestRow
<1> QED
  BY <1>4, <1>6, AnswerStep

LEMMA RequestAcceptStep ==
    ASSUME IInv, NEW c \in Calls, RequestAccept(c)
    PROVE  IInv'
<1> DEFINE r == inflight[c].request
           s == inflight[c].row.session
           k == [inflight[c] EXCEPT !.op = "SaveRequest"]
<1>1. /\ c \in DOMAIN inflight /\ inflight[c] \in Continuation
      /\ inflight[c].op = "SaveOwner" /\ Justified(c)
  BY DEF RequestAccept, At, IInv, TypeOK, IsTable
<1>2. /\ r \in RequestIds /\ r \in DOMAIN requests /\ s = requests[r].session
      /\ s \in DOMAIN sessions
  BY <1>1, ContinuationFields DEF Justified, IInv, RowsInv, RowsRefer
<1>3. sessions[s].createdBy \in Users
  BY <1>2 DEF IInv, TypeOK, IsTable, SessionRow
<1>4. /\ k \in Continuation /\ k.op = "SaveRequest" /\ k.request = r
      /\ k.row = inflight[c].row
  BY <1>1 DEF Continuation
<1>5. PICK m \in Unused(members, MemberIds) :
         /\ members' = Put(members, m, NewMember(sessions[s].createdBy, s))
         /\ admitted' = admitted \cup {<<r, m>>}
  BY DEF RequestAccept
<1>6. Await(c, k) /\ UNCHANGED <<sessions, requests, everStarted>>
  BY DEF RequestAccept
<1>7. admitted \subseteq admitted' /\ admitted' \subseteq RequestIds \X MemberIds
  BY <1>2, <1>5 DEF Unused, IInv, TypeOK
<1>8. /\ Grows /\ TablesTyped' /\ RowsInv'
      /\ m \in DOMAIN members' /\ members'[m].session = s
  BY <1>2, <1>3, <1>5, <1>6, <1>7, SaveMemberRow
<1>9. inflight'[c] = k
  BY <1>4, <1>6, AwaitFacts DEF IInv
<1>10. Justified(c)'
  <2>1. \E x \in DOMAIN members' : <<r, x>> \in admitted' /\ members'[x].session = s
    BY <1>5, <1>8
  <2> HIDE DEF k
  <2>2. /\ inflight'[c].op = "SaveRequest" /\ inflight'[c].request = r
        /\ inflight'[c].row.session = s
    BY <1>4, <1>9
  <2> QED
    BY <1>2, <1>6, <2>1, <2>2 DEF Justified, HasMembership
<1> HIDE DEF k
<1> QED
  BY <1>4, <1>6, <1>8, <1>10, AwaitStep

LEMMA RequestSaveReadStep ==
    ASSUME IInv, NEW c \in Calls, RequestSaveRead(c)
    PROVE  IInv'
<1> DEFINE r == inflight[c].request
           k == [op |-> "WriteRequest", request |-> r,
                 row |-> inflight[c].row, seen |-> requests[r]]
<1>1. /\ c \in DOMAIN inflight /\ inflight[c] \in Continuation
      /\ inflight[c].op = "SaveRequest"
      /\ UNCHANGED <<tables, everStarted, admitted>> /\ Await(c, k)
  BY DEF RequestSaveRead, At, IInv, TypeOK, IsTable
<1>2. Justified(c)
  BY <1>1 DEF IInv
<1>3. r \in DOMAIN requests /\ requests[r] \in RequestRow
  BY <1>1, <1>2 DEF Justified, IInv, TypeOK, IsTable
<1>4. k \in Continuation
  <2>1. r \in RequestIds /\ inflight[c].row \in RequestRow
    BY <1>1, ContinuationFields
  <2> QED
    BY <1>3, <2>1 DEF Continuation
<1>5. inflight'[c] = k
  BY <1>1, <1>4, AwaitFacts DEF IInv
<1>6. Justified(c)'
  BY <1>1, <1>2, <1>5 DEF Justified, HasMembership, tables
<1> HIDE DEF k
<1> QED
  BY <1>1, <1>4, <1>6, QuietStep, AwaitStep

LEMMA RequestSaveWriteStep ==
    ASSUME IInv, NEW c \in Calls, RequestSaveWrite(c)
    PROVE  IInv'
<1> DEFINE r == inflight[c].request
           current == requests[r]
           seen == inflight[c].seen
           want == inflight[c].row
           new == [createdBy |-> current.createdBy, session |-> current.session,
                   status |-> Column(current.status, seen.status, want.status),
                   live |-> Column(current.live, seen.live, want.live)]
<1>1. /\ c \in DOMAIN inflight /\ inflight[c] \in Continuation
      /\ inflight[c].op = "WriteRequest" /\ Justified(c)
  BY DEF RequestSaveWrite, At, IInv, TypeOK, IsTable
<1>2. /\ r \in DOMAIN requests /\ r \in RequestIds /\ want.session = current.session
      /\ want \in RequestRow /\ current \in RequestRow
  BY <1>1, ContinuationFields DEF Justified, IInv, TypeOK, IsTable
<1>3. current.session \in DOMAIN sessions
  BY <1>2 DEF IInv, RowsInv, RowsRefer
<1>4. new \in RequestRow /\ new.session = current.session
  BY <1>2 DEF RequestRow, Column
<1>5. new.status = "ACCEPTED" => HasMembership(r, current.session)
  <2>1. want.status = "ACCEPTED" => HasMembership(r, want.session)
    BY <1>1 DEF Justified
  <2>2. current.status = "ACCEPTED" => HasMembership(r, current.session)
    BY <1>2 DEF IInv, RowsInv, AcceptedHasMembership, HasMembership
  <2>3. new.status \in {current.status, want.status}
    BY DEF Column
  <2> HIDE DEF r, current, want, new
  <2> QED
    BY <1>2, <2>1, <2>2, <2>3
<1>6. requests' = Put(requests, r, new)
  BY DEF RequestSaveWrite
<1>7. Answer(c) /\ UNCHANGED <<sessions, members, everStarted, admitted>>
  BY DEF RequestSaveWrite
<1> HIDE DEF r, current, seen, want, new
<1>8. current = requests[r]
  BY DEF current
<1>9. Grows /\ TablesTyped' /\ RowsInv'
  BY <1>2, <1>3, <1>4, <1>5, <1>6, <1>7, <1>8, SaveRequestRow
<1> QED
  BY <1>7, <1>9, AnswerStep

LEMMA RequestRemoveDeleteStep ==
    ASSUME IInv, NEW c \in Calls, RequestRemoveDelete(c)
    PROVE  IInv'
<1>1. Answer(c) /\ UNCHANGED <<sessions, members, everStarted, admitted>>
  BY DEF RequestRemoveDelete
<1>2. requests \in [DOMAIN requests -> RequestRow] /\ DOMAIN requests \subseteq RequestIds
  BY DEF IInv, TypeOK, IsTable
<1>3. /\ requests' \in [DOMAIN requests -> RequestRow]
      /\ \A r \in DOMAIN requests :
            /\ requests'[r].session = requests[r].session
            /\ requests'[r].status = requests[r].status
  BY <1>2 DEF RequestRemoveDelete, RequestRow
<1>4. Grows /\ TablesTyped'
  BY <1>1, <1>2, <1>3 DEF IInv, TypeOK, IsTable, Grows, TablesTyped
<1>5. RowsInv'
  BY <1>1, <1>2, <1>3 DEF IInv, RowsInv, RowsRefer, StartedIsRecorded, AcceptedHasMembership
<1> QED
  BY <1>1, <1>4, <1>5, AnswerStep

-----------------------------------------------------------------------------
(* The theorems *)

\* Every step of every call keeps the inductive invariant.
LEMMA StepKeepsInvariant ==
    ASSUME IInv, [Next]_vars
    PROVE  IInv'
<1>1. CASE Next
  <2>1. PICK c \in Calls :
           SessionBegins(c) \/ MemberBegins(c) \/ RequestBegins(c) \/ Continues(c) \/ Abort(c)
    BY <1>1 DEF Next
  <2>2. CASE SessionBegins(c)
    BY <2>2, SessionBeginsStep
  <2>3. CASE MemberBegins(c)
    BY <2>3, MemberBeginsStep
  <2>4. CASE RequestBegins(c)
    BY <2>4, RequestBeginsStep
  <2>5. CASE Continues(c)
    BY <2>5, OnlyAnswerStep, SessionInsertMembersStep, SessionFindUnpaidStep,
       SessionSaveReadStep, SessionSaveWriteStep, MemberInsertSaveStep,
       MemberRemoveDeleteStep, RequestInsertSaveStep, RequestRemoveDeleteStep,
       RequestAcceptStep, RequestSaveReadStep, RequestSaveWriteStep DEF Continues
  <2>6. CASE Abort(c)
    BY <2>6, OnlyAnswerStep
  <2> QED
    BY <2>1, <2>2, <2>3, <2>4, <2>5, <2>6
<1>2. CASE UNCHANGED vars
  <2>1. UNCHANGED <<sessions, members, requests, inflight, everStarted, admitted>>
    BY <1>2 DEF vars
  <2>2. TypeOK' /\ RowsInv'
    BY <2>1 DEF IInv, TypeOK, RowsInv, RowsRefer, StartedIsRecorded, AcceptedHasMembership
  <2>3. \A c \in DOMAIN inflight' : Justified(c)'
    BY <2>1 DEF IInv, Justified, HasMembership
  <2> QED
    BY <2>2, <2>3 DEF IInv
<1> QED
  BY <1>1, <1>2

\* The inductive invariant holds in every reachable state.
LEMMA InvariantHolds == Spec => []IInv
<1>1. Init => IInv
  BY DEF Init, IInv, TypeOK, IsTable, EmptyTable, RowsInv, RowsRefer, StartedIsRecorded,
         AcceptedHasMembership
<1>2. IInv /\ [Next]_vars => IInv'
  BY StepKeepsInvariant
<1> QED
  BY <1>1, <1>2, PTL DEF Spec

\* Type correctness: tables and waiting handlers always hold values of their
\* types, for any number of users, sessions, rows and concurrent calls.
THEOREM TypeCorrect == Spec => []TypeOK
<1>1. IInv => TypeOK
  BY DEF IInv
<1> QED
  BY <1>1, InvariantHolds, PTL

\* However many calls interleave, fail or die half-way, an ACCEPTED request has
\* a member row that its acceptance saved (RequestService.change).
THEOREM AcceptanceIsBacked == Spec => []AcceptedHasMembership
<1>1. IInv => AcceptedHasMembership
  BY DEF IInv, RowsInv
<1> QED
  BY <1>1, InvariantHolds, PTL

\* However old the copies that handlers write back, a FINISHED session has
\* been STARTED before (BadmintonSessionService.change).
THEOREM FinishFollowsStart == Spec => []FinishedWasStarted
<1>1. IInv => FinishedWasStarted
  BY DEF IInv, RowsInv, StartedIsRecorded, FinishedWasStarted
<1> QED
  BY <1>1, InvariantHolds, PTL

-----------------------------------------------------------------------------
(* One call at a time *)

OneAtATime == \A c, d \in Calls : c = d

NobodyHasPaid == \A m \in DOMAIN members : members[m].payment = "UNPAID"

\* The statuses a session may be given.
Follows(from, to) ==
    \/ to = "PENDING"
    \/ from = "PENDING" /\ to = "STARTED"
    \/ from = "STARTED" /\ to = "FINISHED"

\* What a call has read is what the tables still say, and so are the conditions
\* it has been let through on.
SerialSession(k) ==
    /\ k.op = "SaveMembers" =>
            /\ sessions[k.session].status = "PENDING"
            /\ sessions[k.session].createdBy = k.user
            /\ Roster(k.session) = {}
    /\ k.op \in {"FindUnpaid", "SaveSession", "WriteSession"} =>
            Follows(sessions[k.session].status, k.row.status)
    /\ k.op \in {"SaveSession", "WriteSession"} /\ k.row.status = "FINISHED" =>
            UnpaidMembers(k.session) = {}
    /\ k.op = "WriteSession" => k.seen = sessions[k.session]

SerialMember(k) ==
    /\ k.op = "SaveMember" =>
            sessions[k.session].status = "PENDING" /\ ~IsMember(k.user, k.session)
    /\ k.op = "DeleteMember" =>
            /\ k.member \in Live(members)
            /\ sessions[members[k.member].session].status = "PENDING"

SerialRequest(k) ==
    /\ k.op \in {"SaveOwner", "SaveRequest", "WriteRequest"} =>
            /\ requests[k.request].status = "PENDING"
            /\ requests[k.request].live /\ k.row.live
    /\ k.op = "WriteRequest" => k.seen = requests[k.request]

Serial(k) == SerialSession(k) /\ SerialMember(k) /\ SerialRequest(k)

RosterInv == NobodyHasPaid /\ OneMembershipPerGuest

SerialInv ==
    /\ RosterInv
    /\ \A c \in DOMAIN inflight : Serial(inflight[c])

\* What a step shows is a step of RosterSpec or nothing, and it finishes only a
\* session whose members have paid.
FinishesPaid ==
    \A s \in DOMAIN sessions :
        /\ sessions[s].status # "FINISHED"
        /\ sessions'[s].status = "FINISHED"
        => UnpaidMembers(s) = {}

Effect == (Shown!Next \/ UNCHANGED Shown!vars) /\ FinishesPaid

\* A request as RosterSpec sees it.
Asked(r) == IF requests[r].live THEN requests[r].status ELSE "WITHDRAWN"

\* What is shown depends on the tables only.
LEMMA QuietEffect ==
    ASSUME UNCHANGED tables
    PROVE  Effect
<1>1. UNCHANGED <<sessions, members, requests>>
  BY DEF tables
<1>2. \A s \in DOMAIN sessions : Guests(s)' = Guests(s)
  BY <1>1 DEF Guests, Roster, Live
<1>3. UNCHANGED Shown!vars
  BY <1>1, <1>2 DEF Shown!vars
<1>4. QED
  BY <1>1, <1>3 DEF Effect, FinishesPaid

\* Rows that nobody else has, as members of one session that is PENDING, are
\* guests that join it.
LEMMA JoinEffect ==
    ASSUME IInv, UNCHANGED <<sessions, requests>>,
           NEW s \in DOMAIN sessions, sessions[s].status = "PENDING",
           NEW group \in SUBSET Users, group \cap Guests(s) = {},
           Guests(s)' = Guests(s) \cup group,
           \A x \in DOMAIN sessions : x # s => Guests(x)' = Guests(x)
    PROVE  Effect
<1>1. s \in Sessions
  BY DEF IInv, TypeOK, IsTable
<1>2. Shown!Join(s, group)
  BY DEF Shown!Join
<1>3. Shown!Next
  BY <1>1, <1>2 DEF Shown!Next
<1>4. QED
  BY <1>3 DEF Effect, FinishesPaid

LEMMA LeaveEffect ==
    ASSUME IInv, UNCHANGED <<sessions, requests>>,
           NEW s \in DOMAIN sessions, sessions[s].status = "PENDING", NEW u \in Users,
           Guests(s)' = Guests(s) \ {u},
           \A x \in DOMAIN sessions : x # s => Guests(x)' = Guests(x)
    PROVE  Effect
<1>1. s \in Sessions
  BY DEF IInv, TypeOK, IsTable
<1>2. Shown!Leave(s, u)
  BY DEF Shown!Leave
<1>3. Shown!Next
  BY <1>1, <1>2 DEF Shown!Next
<1>4. QED
  BY <1>3 DEF Effect, FinishesPaid

\* What leaves the guests of every session as they are shows nothing.
LEMMA SameGuestsEffect ==
    ASSUME UNCHANGED <<sessions, requests>>,
           \A x \in DOMAIN sessions : Guests(x)' = Guests(x)
    PROVE  Effect
<1>1. UNCHANGED Shown!vars
  BY DEF Shown!vars
<1>2. QED
  BY <1>1 DEF Effect, FinishesPaid

\* Steps that write requests only: what they show is what becomes of Asked.
LEMMA AskedEffect ==
    ASSUME UNCHANGED <<sessions, members>>,
           LET asked == [r \in DOMAIN requests |-> Asked(r)]
           IN  \/ \E r \in RequestIds \ DOMAIN requests : asked' = Put(asked, r, "PENDING")
               \/ \E r \in RequestIds \cap DOMAIN requests :
                     \E answer \in {"ACCEPTED", "REJECTED"} :
                        Asked(r) = "PENDING" /\ asked' = [asked EXCEPT ![r] = answer]
               \/ \E r \in RequestIds \cap DOMAIN requests :
                     asked' = [asked EXCEPT ![r] = "WITHDRAWN"]
               \/ asked' = asked
    PROVE  Effect
<1>1. \A s \in DOMAIN sessions : Guests(s)' = Guests(s)
  BY DEF Guests, Roster, Live
<1> DEFINE asked == [r \in DOMAIN requests |->
                        IF requests[r].live THEN requests[r].status ELSE "WITHDRAWN"]
<1>2. CASE \E r \in RequestIds \ DOMAIN requests : asked' = Put(asked, r, "PENDING")
  <2>1. PICK r \in RequestIds \ DOMAIN requests : asked' = Put(asked, r, "PENDING")
    BY <1>2
  <2>2. Shown!Ask(r)
    BY <1>1, <2>1 DEF Shown!Ask, Shown!Unused, Shown!Put, Put
  <2>3. QED
    BY <2>2 DEF Shown!Next, Effect, FinishesPaid
<1>3. CASE \E r \in RequestIds \cap DOMAIN requests : \E answer \in {"ACCEPTED", "REJECTED"} :
              Asked(r) = "PENDING" /\ asked' = [asked EXCEPT ![r] = answer]
  <2>1. PICK r \in RequestIds \cap DOMAIN requests : \E answer \in {"ACCEPTED", "REJECTED"} :
              Asked(r) = "PENDING" /\ asked' = [asked EXCEPT ![r] = answer]
    BY <1>3
  <2>2. PICK answer \in {"ACCEPTED", "REJECTED"} :
              Asked(r) = "PENDING" /\ asked' = [asked EXCEPT ![r] = answer]
    BY <2>1
  <2>3. Shown!Decide(r, answer)
    BY <1>1, <2>2 DEF Shown!Decide, Asked
  <2>4. QED
    BY <2>3 DEF Shown!Next, Effect, FinishesPaid
<1>4. CASE \E r \in RequestIds \cap DOMAIN requests : asked' = [asked EXCEPT ![r] = "WITHDRAWN"]
  <2>1. PICK r \in RequestIds \cap DOMAIN requests : asked' = [asked EXCEPT ![r] = "WITHDRAWN"]
    BY <1>4
  <2>2. Shown!Withdraw(r)
    BY <1>1, <2>1 DEF Shown!Withdraw
  <2>3. QED
    BY <2>2 DEF Shown!Next, Effect, FinishesPaid
<1>5. CASE asked' = asked
  <2>1. UNCHANGED Shown!vars
    BY <1>1, <1>5 DEF Shown!vars
  <2>2. QED
    BY <2>1 DEF Effect, FinishesPaid
<1>6. QED
  BY <1>2, <1>3, <1>4, <1>5 DEF Asked

\* A session that is new shows as one without guests.
LEMMA OpenEffect ==
    ASSUME IInv, UNCHANGED <<members, requests>>, NEW s \in Sessions \ DOMAIN sessions,
           NEW row, row.status = "PENDING", sessions' = Put(sessions, s, row)
    PROVE  Effect
<1>1. /\ DOMAIN sessions' = DOMAIN sessions \cup {s} /\ sessions'[s] = row
      /\ \A x \in DOMAIN sessions : sessions'[x] = sessions[x]
  BY DEF Put
<1>2. \A x \in DOMAIN sessions : Guests(x)' = Guests(x)
  BY <1>1 DEF Guests, Roster, Live
<1>3. Guests(s)' = {}
  BY DEF IInv, RowsInv, RowsRefer, Guests, Roster, Live
<1>4. Shown!Open(s)
  BY <1>1, <1>2, <1>3 DEF Shown!Open, Shown!Unused, Shown!Put
<1>5. Shown!Next
  BY <1>4 DEF Shown!Next
<1>6. FinishesPaid
  BY <1>1 DEF FinishesPaid
<1>7. QED
  BY <1>5, <1>6 DEF Effect

\* A session whose status changes as Follows has it, ending only when all have
\* paid, shows a step of RosterSpec: since nobody has, it ends without guests.
LEMMA StatusEffect ==
    ASSUME IInv, NobodyHasPaid, UNCHANGED <<members, requests>>,
           NEW s \in DOMAIN sessions, NEW row,
           row.createdBy = sessions[s].createdBy, Follows(sessions[s].status, row.status),
           row.status = "FINISHED" => UnpaidMembers(s) = {},
           sessions' = Put(sessions, s, row)
    PROVE  Effect
<1>1. /\ DOMAIN sessions' = DOMAIN sessions /\ sessions'[s] = row
      /\ \A x \in DOMAIN sessions : x # s => sessions'[x] = sessions[x]
  BY DEF Put
<1>2. \A x \in DOMAIN sessions : Guests(x)' = Guests(x)
  BY <1>1 DEF Guests, Roster, Live
<1>3. s \in Sessions /\ sessions[s].status \in SessionStatus
  BY DEF IInv, TypeOK, IsTable, SessionRow
<1> DEFINE status == [x \in DOMAIN sessions |-> sessions[x].status]
<1>4. status' = [status EXCEPT ![s] = row.status]
  BY <1>1
<1>5. [x \in DOMAIN sessions |-> Guests(x)]' = [x \in DOMAIN sessions |-> Guests(x)]
  BY <1>1, <1>2
<1>6. CASE row.status = sessions[s].status
  <2>1. status' = status
    BY <1>1, <1>6
  <2>2. UNCHANGED Shown!vars
    BY <1>5, <2>1 DEF Shown!vars
  <2>3. FinishesPaid
    BY <1>1, <1>6 DEF FinishesPaid
  <2>4. QED
    BY <2>2, <2>3 DEF Effect
<1>7. CASE row.status # sessions[s].status
  <2>1. CASE row.status = "PENDING"
    <3>1. Shown!Restatus(s, {"STARTED", "FINISHED"}, "PENDING")
      BY <1>3, <1>4, <1>5, <1>7, <2>1 DEF Shown!Restatus, SessionStatus
    <3>2. QED
      BY <1>1, <1>3, <2>1, <3>1 DEF Shown!Next, Effect, FinishesPaid
  <2>2. CASE sessions[s].status = "PENDING" /\ row.status = "STARTED"
    <3>1. Shown!Restatus(s, {"PENDING"}, "STARTED")
      BY <1>4, <1>5, <2>2 DEF Shown!Restatus
    <3>2. QED
      BY <1>1, <1>3, <2>2, <3>1 DEF Shown!Next, Effect, FinishesPaid
  <2>3. CASE sessions[s].status = "STARTED" /\ row.status = "FINISHED"
    <3>1. Roster(s) = {}
      BY <2>3 DEF NobodyHasPaid, UnpaidMembers, Roster, Live
    <3>2. Guests(s) = {}
      BY <3>1 DEF Guests
    <3>3. Shown!Restatus(s, {"STARTED"}, "FINISHED")
      BY <1>4, <1>5, <2>3 DEF Shown!Restatus
    <3>4. Shown!Finish(s)
      BY <3>2, <3>3 DEF Shown!Finish
    <3>5. FinishesPaid
      BY <1>1, <2>3 DEF FinishesPaid
    <3>6. QED
      BY <1>3, <3>4, <3>5 DEF Shown!Next, Effect
  <2>4. QED
    BY <2>1, <2>2, <2>3 DEF Follows
<1>8. QED
  BY <1>6, <1>7

-----------------------------------------------------------------------------
(* Calls, one at a time *)

\* The only call there is goes on with k, or ends.
LEMMA SerialAwait ==
    ASSUME OneAtATime, IInv, NEW c \in Calls, NEW k, Await(c, k), RosterInv', Serial(k)'
    PROVE  SerialInv'
<1>1. DOMAIN inflight' = {c} /\ inflight'[c] = k
  BY DEF OneAtATime, IInv, TypeOK, IsTable, Await, Put
<1>2. ASSUME NEW d \in DOMAIN inflight'
      PROVE  Serial(inflight[d])'
  BY <1>1
<1>3. QED
  BY <1>2 DEF SerialInv

LEMMA SerialAnswer ==
    ASSUME OneAtATime, IInv, NEW c \in Calls, Answer(c), RosterInv'
    PROVE  SerialInv'
<1>1. DOMAIN inflight' = {}
  BY DEF OneAtATime, IInv, TypeOK, IsTable, Answer, Drop
<1>2. QED
  BY <1>1 DEF SerialInv

LEMMA RosterStays ==
    ASSUME RosterInv, UNCHANGED tables
    PROVE  RosterInv'
<1>1. UNCHANGED <<sessions, members>>
  BY DEF tables
<1>2. QED
  BY <1>1 DEF RosterInv, NobodyHasPaid, OneMembershipPerGuest, Live

LEMMA SerialStays ==
    ASSUME UNCHANGED tables, NEW k, Serial(k)
    PROVE  Serial(k)'
<1>1. UNCHANGED <<sessions, members, requests>>
  BY DEF tables
<1>2. SerialSession(k)' /\ SerialMember(k)' /\ SerialRequest(k)'
  BY <1>1 DEF Serial, SerialSession, SerialMember, SerialRequest, IsMember, UnpaidMembers,
     Roster, Live
<1>3. QED
  BY <1>2 DEF Serial

\* Steps that only read.
LEMMA SerialReads ==
    ASSUME OneAtATime, IInv, SerialInv, NEW c \in Calls, NEW k, Await(c, k), Serial(k),
           UNCHANGED tables
    PROVE  SerialInv' /\ Effect
BY QuietEffect, RosterStays, SerialStays, SerialAwait DEF SerialInv

LEMMA SerialEnds ==
    ASSUME OneAtATime, IInv, SerialInv, NEW c \in Calls, Answer(c), UNCHANGED tables
    PROVE  SerialInv' /\ Effect
BY QuietEffect, RosterStays, SerialAnswer DEF SerialInv

\* What a handler that goes on has in hand.
LEMMA SerialAt ==
    ASSUME IInv, SerialInv, NEW c, NEW op, At(c, op)
    PROVE  /\ c \in DOMAIN inflight /\ inflight[c] \in Continuation
           /\ inflight[c].op = op /\ Justified(c) /\ Serial(inflight[c])
BY DEF At, IInv, TypeOK, IsTable, SerialInv

LEMMA SerialSessionInsert ==
    ASSUME OneAtATime, IInv, SerialInv, NEW c \in Calls, NEW u, NEW s \in Sessions,
           NEW people, NEW invited, NEW found, SessionInsert(c, u, s, people, invited, found)
    PROVE  SerialInv' /\ Effect
<1> DEFINE row == [status |-> "PENDING", createdBy |-> u, numberOfPeople |-> people]
           call == [op |-> "SaveMembers", user |-> u, session |-> s,
                    invited |-> invited, found |-> found]
<1>1. /\ s \in Sessions \ DOMAIN sessions /\ sessions' = Put(sessions, s, row)
      /\ Await(c, call) /\ UNCHANGED <<members, requests>>
  BY DEF SessionInsert, Unused
<1>2. row.status = "PENDING" /\ row.createdBy = u
  OBVIOUS
<1>3. PICK k : k = call
  OBVIOUS
<1>4. k.op = "SaveMembers" /\ k.session = s /\ k.user = u
  BY <1>3
<1>5. /\ DOMAIN sessions' = DOMAIN sessions \cup {s}
      /\ sessions'[s].status = "PENDING" /\ sessions'[s].createdBy = u
      /\ \A x \in DOMAIN sessions : sessions'[x] = sessions[x]
  BY <1>1, <1>2 DEF Put
<1>6. Effect
  <2> HIDE DEF row
  <2>1. QED
    BY <1>1, <1>2, OpenEffect
<1>7. RosterInv'
  BY <1>1, <1>5 DEF SerialInv, RosterInv, NobodyHasPaid, OneMembershipPerGuest, Live, IInv,
     RowsInv, RowsRefer
<1>8. Roster(s)' = {}
  BY <1>1 DEF Roster, Live, IInv, RowsInv, RowsRefer
<1>9. Serial(k)'
  BY <1>4, <1>5, <1>8 DEF Serial, SerialSession, SerialMember, SerialRequest
<1>10. QED
  BY <1>1, <1>3, <1>6, <1>7, <1>9, SerialAwait

LEMMA SerialSessionChange ==
    ASSUME OneAtATime, IInv, SerialInv, NEW c \in Calls, NEW u, NEW s, NEW status, NEW people,
           status \in SessionStatus \cup {"unset"}, SessionChange(c, u, s, status, people)
    PROVE  SerialInv' /\ Effect
<1> DEFINE row == [sessions[s] EXCEPT !.numberOfPeople = people,
                                      !.status = IF status = "unset" THEN @ ELSE status]
           call == [op |-> IF status = "FINISHED" THEN "FindUnpaid" ELSE "SaveSession",
                    session |-> s, row |-> row]
<1>1. s \in DOMAIN sessions /\ sessions[s] \in SessionRow
  BY DEF SessionChange, IInv, TypeOK, IsTable
<1>2. row.status = IF status = "unset" THEN sessions[s].status ELSE status
  BY <1>1 DEF SessionRow
<1>3. PICK k : k = call
  OBVIOUS
<1>4. /\ k.op = IF status = "FINISHED" THEN "FindUnpaid" ELSE "SaveSession"
      /\ k.session = s /\ k.row.status = row.status
  BY <1>3
<1>5. Await(c, k) /\ UNCHANGED tables
  BY <1>3 DEF SessionChange
<1>6. Follows(sessions[s].status, row.status)
  BY <1>1, <1>2 DEF SessionChange, Follows, SessionStatus
<1>7. k.op = "SaveSession" => row.status # "FINISHED"
  BY <1>2, <1>4 DEF SessionChange
<1> HIDE DEF row
<1>8. Serial(k)
  BY <1>4, <1>6, <1>7 DEF Serial, SerialSession, SerialMember, SerialRequest
<1>9. QED
  BY <1>5, <1>8, SerialReads

LEMMA SerialFindUnpaid ==
    ASSUME OneAtATime, IInv, SerialInv, NEW c \in Calls, SessionFindUnpaid(c)
    PROVE  SerialInv' /\ Effect
<1>1. /\ c \in DOMAIN inflight /\ inflight[c] \in Continuation
      /\ inflight[c].op = "FindUnpaid" /\ Serial(inflight[c])
  BY SerialAt DEF SessionFindUnpaid
<1>2. UNCHANGED tables
  BY DEF SessionFindUnpaid
<1>3. CASE UnpaidMembers(inflight[c].session) # {}
  BY <1>2, <1>3, SerialEnds DEF SessionFindUnpaid
<1>4. CASE UnpaidMembers(inflight[c].session) = {}
  <2>1. PICK k : k = [inflight[c] EXCEPT !.op = "SaveSession"]
    OBVIOUS
  <2>2. k.op = "SaveSession" /\ k.session = inflight[c].session /\ k.row = inflight[c].row
    BY <1>1, <2>1 DEF Continuation
  <2>3. Await(c, k)
    BY <1>4, <2>1 DEF SessionFindUnpaid
  <2>4. Serial(k)
    BY <1>1, <1>4, <2>2 DEF Serial, SerialSession, SerialMember, SerialRequest
  <2>5. QED
    BY <1>2, <2>3, <2>4, SerialReads
<1>5. QED
  BY <1>3, <1>4

LEMMA SerialSessionSaveRead ==
    ASSUME OneAtATime, IInv, SerialInv, NEW c \in Calls, SessionSaveRead(c)
    PROVE  SerialInv' /\ Effect
<1>1. inflight[c].op = "SaveSession" /\ Serial(inflight[c])
  BY SerialAt DEF SessionSaveRead
<1>2. PICK k : k = [op |-> "WriteSession", session |-> inflight[c].session,
                    row |-> inflight[c].row, seen |-> sessions[inflight[c].session]]
  OBVIOUS
<1>3. /\ k.op = "WriteSession" /\ k.session = inflight[c].session /\ k.row = inflight[c].row
      /\ k.seen = sessions[inflight[c].session]
  BY <1>2
<1>4. Await(c, k) /\ UNCHANGED tables
  BY <1>2 DEF SessionSaveRead
<1>5. Serial(k)
  BY <1>1, <1>3 DEF Serial, SerialSession, SerialMember, SerialRequest
<1>6. QED
  BY <1>4, <1>5, SerialReads

LEMMA SerialSessionSaveWrite ==
    ASSUME OneAtATime, IInv, SerialInv, NEW c \in Calls, SessionSaveWrite(c)
    PROVE  SerialInv' /\ Effect
<1>1. /\ inflight[c].op = "WriteSession" /\ Justified(c) /\ Serial(inflight[c])
      /\ inflight[c].session \in DOMAIN sessions
      /\ inflight[c].seen = sessions[inflight[c].session]
  BY SerialAt DEF SessionSaveWrite, Justified, Serial, SerialSession
<1>2. PICK s : s = inflight[c].session
  OBVIOUS
<1>3. PICK row : row =
         [status |-> Column(sessions[s].status, sessions[s].status, inflight[c].row.status),
          createdBy |-> sessions[s].createdBy,
          numberOfPeople |-> Column(sessions[s].numberOfPeople, sessions[s].numberOfPeople,
                                    inflight[c].row.numberOfPeople)]
  OBVIOUS
<1>4. row.status = inflight[c].row.status /\ row.createdBy = sessions[s].createdBy
  BY <1>3 DEF Column
<1>5. sessions' = Put(sessions, s, row) /\ Answer(c) /\ UNCHANGED <<members, requests>>
  BY <1>1, <1>2, <1>3 DEF SessionSaveWrite
<1>6. /\ Follows(sessions[s].status, row.status)
      /\ row.status = "FINISHED" => UnpaidMembers(s) = {}
  BY <1>1, <1>2, <1>4 DEF Serial, SerialSession
<1>7. s \in DOMAIN sessions /\ NobodyHasPaid
  BY <1>1, <1>2 DEF SerialInv, RosterInv
<1>8. Effect
  BY <1>4, <1>5, <1>6, <1>7, StatusEffect
<1>9. RosterInv'
  <2>1. \A x \in DOMAIN sessions : sessions'[x].createdBy = sessions[x].createdBy
    BY <1>4, <1>5, <1>7 DEF Put
  <2>2. QED
    BY <1>5, <2>1 DEF SerialInv, RosterInv, NobodyHasPaid, OneMembershipPerGuest, Live, IInv,
       RowsInv, RowsRefer
<1>10. QED
  BY <1>5, <1>8, <1>9, SerialAnswer

\* New rows of one session, all of users that are no guests yet, at most one of
\* each but the creator: they add to its guests and leave nobody twice.
LEMMA NewRows ==
    ASSUME IInv, RosterInv, UNCHANGED sessions, NEW s \in DOMAIN sessions,
           NEW rows, DOMAIN rows \cap DOMAIN members = {}, members' = PutAll(members, rows),
           \A m \in DOMAIN rows :
              rows[m].session = s /\ rows[m].live = TRUE /\ rows[m].payment = "UNPAID",
           \A m \in DOMAIN rows : rows[m].user \notin Guests(s),
           \A m, n \in DOMAIN rows :
              rows[m].user = rows[n].user /\ rows[m].user # sessions[s].createdBy => m = n
    PROVE  /\ RosterInv'
           /\ Guests(s)' =
                Guests(s) \cup ({rows[m].user : m \in DOMAIN rows} \ {sessions[s].createdBy})
           /\ \A x \in DOMAIN sessions : x # s => Guests(x)' = Guests(x)
<1>1. /\ DOMAIN members' = DOMAIN members \cup DOMAIN rows
      /\ \A m \in DOMAIN rows : members'[m] = rows[m]
      /\ \A m \in DOMAIN members : m \notin DOMAIN rows /\ members'[m] = members[m]
  BY DEF PutAll
<1>2. Live(members') = Live(members) \cup DOMAIN rows
  BY <1>1 DEF Live
<1>3. NobodyHasPaid'
  BY <1>1 DEF RosterInv, NobodyHasPaid
<1>4. ASSUME NEW m \in Live(members'), NEW n \in Live(members'),
             members'[m].user = members'[n].user, members'[m].session = members'[n].session,
             members'[m].user # sessions[members'[m].session].createdBy
      PROVE  m = n
  <2>1. CASE m \in DOMAIN rows /\ n \in DOMAIN rows
    BY <1>1, <1>4, <2>1
  <2>2. CASE m \notin DOMAIN rows /\ n \notin DOMAIN rows
    <3>1. m \in Live(members) /\ n \in Live(members)
      BY <1>2, <2>2
    <3>2. members'[m] = members[m] /\ members'[n] = members[n]
      BY <1>1, <3>1 DEF Live
    <3>3. QED
      BY <1>4, <3>1, <3>2 DEF RosterInv, OneMembershipPerGuest
  <2>3. ASSUME NEW a \in DOMAIN rows, NEW b \in Live(members),
               members'[a].user = members'[b].user, members'[a].session = members'[b].session,
               members'[a].user # sessions[members'[a].session].createdBy
        PROVE  FALSE
    <3>1. members'[a] = rows[a] /\ members'[b] = members[b]
      BY <1>1 DEF Live
    <3>2. b \in Roster(s) /\ members[b].user = rows[a].user
      BY <2>3, <3>1 DEF Roster
    <3>3. rows[a].user # sessions[s].createdBy
      BY <2>3, <3>1
    <3>4. rows[a].user \in Guests(s)
      BY <3>2, <3>3 DEF Guests
    <3>5. QED
      BY <3>4
  <2>4. QED
    BY <1>2, <1>4, <2>1, <2>2, <2>3
<1>5. RosterInv'
  BY <1>3, <1>4 DEF RosterInv, OneMembershipPerGuest
<1>6. Roster(s)' = Roster(s) \cup DOMAIN rows
  BY <1>1, <1>2 DEF Roster, Live
<1>7. Guests(s)' =
          Guests(s) \cup ({rows[m].user : m \in DOMAIN rows} \ {sessions[s].createdBy})
  <2>1. \A m \in Roster(s) : members'[m] = members[m]
    BY <1>1 DEF Roster, Live
  <2>2. {members'[m].user : m \in Roster(s)'} =
            {members[m].user : m \in Roster(s)} \cup {rows[m].user : m \in DOMAIN rows}
    BY <1>1, <1>6, <2>1
  <2>3. QED
    BY <2>2 DEF Guests
<1>8. ASSUME NEW x \in DOMAIN sessions, x # s
      PROVE  Guests(x)' = Guests(x)
  <2>1. Roster(x)' = Roster(x)
    BY <1>1, <1>2, <1>8 DEF Roster, Live
  <2>2. \A m \in Roster(x) : members'[m] = members[m]
    BY <1>1 DEF Roster, Live
  <2>3. QED
    BY <2>1, <2>2 DEF Guests
<1>9. QED
  BY <1>5, <1>7, <1>8

LEMMA PutIsPutAll ==
    ASSUME NEW table, NEW id, NEW row
    PROVE  Put(table, id, row) = PutAll(table, [x \in {id} |-> row])
BY DEF Put, PutAll

\* The same for one row.
LEMMA NewRow ==
    ASSUME IInv, RosterInv, UNCHANGED sessions, NEW s \in DOMAIN sessions, NEW u,
           NEW m \in Unused(members, MemberIds), members' = Put(members, m, NewMember(u, s)),
           u \notin Guests(s)
    PROVE  /\ RosterInv'
           /\ Guests(s)' = Guests(s) \cup ({u} \ {sessions[s].createdBy})
           /\ \A x \in DOMAIN sessions : x # s => Guests(x)' = Guests(x)
<1>1. PICK rows : rows = [x \in {m} |-> NewMember(u, s)]
  OBVIOUS
<1>2. members' = PutAll(members, rows)
  BY <1>1, PutIsPutAll
<1>3. DOMAIN rows = {m} /\ rows[m] = NewMember(u, s) /\ m \notin DOMAIN members
  BY <1>1 DEF Unused
<1>4. rows[m].session = s /\ rows[m].live = TRUE /\ rows[m].payment = "UNPAID" /\ rows[m].user = u
  BY <1>3 DEF NewMember
<1>5. {rows[x].user : x \in DOMAIN rows} = {u}
  BY <1>3, <1>4
<1>6. DOMAIN rows \cap DOMAIN members = {}
  BY <1>3
<1>7. \A x \in DOMAIN rows : x = m
  BY <1>3
<1>8. /\ \A x \in DOMAIN rows :
            rows[x].session = s /\ rows[x].live = TRUE /\ rows[x].payment = "UNPAID"
      /\ \A x \in DOMAIN rows : rows[x].user \notin Guests(s)
      /\ \A x, y \in DOMAIN rows :
            rows[x].user = rows[y].user /\ rows[x].user # sessions[s].createdBy => x = y
  BY <1>4, <1>7
<1>9. /\ RosterInv'
      /\ Guests(s)' =
            Guests(s) \cup ({rows[x].user : x \in DOMAIN rows} \ {sessions[s].createdBy})
      /\ \A x \in DOMAIN sessions : x # s => Guests(x)' = Guests(x)
  BY <1>2, <1>6, <1>8, NewRows
<1>10. QED
  BY <1>5, <1>9

LEMMA SerialSessionInsertMembers ==
    ASSUME OneAtATime, IInv, SerialInv, NEW c \in Calls, SessionInsertMembers(c)
    PROVE  SerialInv' /\ Effect
<1> DEFINE k == inflight[c]
           s == k.session
<1>1. At(c, "SaveMembers")
  BY DEF SessionInsertMembers
<1>2. /\ k \in Continuation /\ k.op = "SaveMembers" /\ Serial(k)
      /\ k.session \in DOMAIN sessions /\ k.invited \subseteq Users /\ k.user \in Users
  <2>1. /\ k \in Continuation /\ k.op = "SaveMembers" /\ Serial(k) /\ Justified(c)
    BY <1>1, SerialAt
  <2>2. QED
    BY <2>1, ContinuationFields DEF Justified
<1>3. s \in DOMAIN sessions
  BY <1>2
<1>4. /\ sessions[s].status = "PENDING" /\ sessions[s].createdBy = k.user /\ Guests(s) = {}
  BY <1>2 DEF Serial, SerialSession, Guests
<1>5. PICK own \in Unused(members, MemberIds) :
         \E id \in Injection(k.invited, Unused(members, MemberIds) \ {own}) :
            members' = PutAll(members,
               [m \in {own} \cup Range(id) |->
                   NewMember(IF m = own THEN k.user ELSE CHOOSE v \in k.invited : id[v] = m, s)])
  BY DEF SessionInsertMembers
<1>6. PICK id \in Injection(k.invited, Unused(members, MemberIds) \ {own}) :
            members' = PutAll(members,
               [m \in {own} \cup Range(id) |->
                   NewMember(IF m = own THEN k.user ELSE CHOOSE v \in k.invited : id[v] = m, s)])
  BY <1>5
<1>7. PICK rows : rows = [m \in {own} \cup Range(id) |->
                   NewMember(IF m = own THEN k.user ELSE CHOOSE v \in k.invited : id[v] = m, s)]
  OBVIOUS
<1> HIDE DEF k, s
<1>8. /\ id \in [k.invited -> Unused(members, MemberIds) \ {own}]
      /\ \A v, w \in k.invited : id[v] = id[w] => v = w
      /\ Range(id) = {id[v] : v \in k.invited}
  BY DEF Injection, IsInjective, Range
<1>9. DOMAIN rows = {own} \cup {id[v] : v \in k.invited}
  BY <1>7, <1>8
<1>10. rows[own] = NewMember(k.user, s)
  BY <1>7
<1>11. ASSUME NEW v \in k.invited
       PROVE  rows[id[v]] = NewMember(v, s)
  <2>1. id[v] # own /\ id[v] \in Range(id)
    BY <1>8
  <2>2. (CHOOSE w \in k.invited : id[w] = id[v]) = v
    BY <1>8
  <2>3. QED
    BY <1>7, <2>1, <2>2
<1>12. \A u : /\ NewMember(u, s).user = u /\ NewMember(u, s).session = s
              /\ NewMember(u, s).live = TRUE /\ NewMember(u, s).payment = "UNPAID"
  BY DEF NewMember
<1>13. \A m \in DOMAIN rows : m = own \/ \E v \in k.invited : m = id[v]
  BY <1>9
<1>14. /\ \A m \in DOMAIN rows :
             rows[m].session = s /\ rows[m].live = TRUE /\ rows[m].payment = "UNPAID"
       /\ \A m \in DOMAIN rows : rows[m].user \notin Guests(s)
  BY <1>4, <1>10, <1>11, <1>12, <1>13
<1>15. ASSUME NEW m \in DOMAIN rows, NEW n \in DOMAIN rows,
              rows[m].user = rows[n].user, rows[m].user # sessions[s].createdBy
       PROVE  m = n
  <2>1. m # own /\ n # own
    BY <1>4, <1>10, <1>12, <1>15
  <2>2. PICK v \in k.invited, w \in k.invited : m = id[v] /\ n = id[w]
    BY <1>13, <2>1
  <2>3. v = w
    BY <1>11, <1>12, <1>15, <2>2
  <2>4. QED
    BY <2>2, <2>3
<1>16. {rows[m].user : m \in DOMAIN rows} = {k.user} \cup k.invited
  <2>1. \A m \in DOMAIN rows : rows[m].user \in {k.user} \cup k.invited
    BY <1>10, <1>11, <1>12, <1>13
  <2>2. own \in DOMAIN rows /\ rows[own].user = k.user
    BY <1>9, <1>10, <1>12
  <2>3. \A v \in k.invited : id[v] \in DOMAIN rows /\ rows[id[v]].user = v
    BY <1>9, <1>11, <1>12
  <2>4. QED
    BY <2>1, <2>2, <2>3
<1>17. DOMAIN rows \cap DOMAIN members = {}
  BY <1>8, <1>9 DEF Unused
<1>18. members' = PutAll(members, rows)
  BY <1>6, <1>7
<1>19. Answer(c) /\ UNCHANGED <<sessions, requests>>
  BY DEF SessionInsertMembers
<1>20. PICK t \in DOMAIN sessions : t = s
  BY <1>3
<1>21. PICK group : group = ({k.user} \cup k.invited) \ {sessions[t].createdBy}
  OBVIOUS
<1>22. /\ RosterInv'
       /\ Guests(t)' = Guests(t) \cup group
       /\ \A x \in DOMAIN sessions : x # t => Guests(x)' = Guests(x)
  <2>1. RosterInv
    BY DEF SerialInv
  <2>2. /\ \A m \in DOMAIN rows :
              rows[m].session = t /\ rows[m].live = TRUE /\ rows[m].payment = "UNPAID"
        /\ \A m \in DOMAIN rows : rows[m].user \notin Guests(t)
        /\ \A m, n \in DOMAIN rows :
              rows[m].user = rows[n].user /\ rows[m].user # sessions[t].createdBy => m = n
    BY <1>14, <1>15, <1>20
  <2>3. /\ RosterInv'
        /\ Guests(t)' =
              Guests(t) \cup ({rows[m].user : m \in DOMAIN rows} \ {sessions[t].createdBy})
        /\ \A x \in DOMAIN sessions : x # t => Guests(x)' = Guests(x)
    BY <1>17, <1>18, <1>19, <2>1, <2>2, NewRows
  <2>4. QED
    BY <1>16, <1>21, <2>3
<1>23. /\ group \in SUBSET Users /\ group \cap Guests(t) = {}
       /\ sessions[t].status = "PENDING"
  BY <1>2, <1>4, <1>20, <1>21
<1>24. Effect
  BY <1>19, <1>22, <1>23, JoinEffect
<1>25. QED
  BY <1>19, <1>22, <1>24, SerialAnswer

LEMMA SerialMemberInsert ==
    ASSUME OneAtATime, IInv, SerialInv, NEW c \in Calls, NEW u, NEW v, NEW s,
           MemberInsert(c, u, v, s)
    PROVE  SerialInv' /\ Effect
<1>1. PICK k : k = [op |-> "SaveMember", user |-> v, session |-> s]
  OBVIOUS
<1>2. k.op = "SaveMember" /\ k.user = v /\ k.session = s
  BY <1>1
<1>3. Await(c, k) /\ UNCHANGED tables
  BY <1>1 DEF MemberInsert
<1>4. Serial(k)
  BY <1>2 DEF MemberInsert, Serial, SerialSession, SerialMember, SerialRequest
<1>5. QED
  BY <1>3, <1>4, SerialReads

LEMMA SerialMemberInsertSave ==
    ASSUME OneAtATime, IInv, SerialInv, NEW c \in Calls, MemberInsertSave(c)
    PROVE  SerialInv' /\ Effect
<1>1. /\ inflight[c] \in Continuation /\ inflight[c].op = "SaveMember"
      /\ Serial(inflight[c]) /\ Justified(c)
  BY SerialAt DEF MemberInsertSave
<1>2. PICK u : u = inflight[c].user
  OBVIOUS
<1>3. PICK s : s = inflight[c].session
  OBVIOUS
<1>4. /\ u \in Users /\ s \in DOMAIN sessions
      /\ sessions[s].status = "PENDING" /\ ~IsMember(u, s)
  BY <1>1, <1>2, <1>3, ContinuationFields DEF Justified, Serial, SerialMember
<1>5. u \notin Guests(s)
  BY <1>4 DEF Guests, IsMember
<1>6. PICK m \in Unused(members, MemberIds) : members' = Put(members, m, NewMember(u, s))
  BY <1>2, <1>3 DEF MemberInsertSave
<1>7. Answer(c) /\ UNCHANGED <<sessions, requests>>
  BY DEF MemberInsertSave
<1>8. PICK group : group = {u} \ {sessions[s].createdBy}
  OBVIOUS
<1>9. /\ RosterInv' /\ Guests(s)' = Guests(s) \cup group
      /\ \A x \in DOMAIN sessions : x # s => Guests(x)' = Guests(x)
  BY <1>4, <1>5, <1>6, <1>7, <1>8, NewRow DEF SerialInv
<1>10. group \in SUBSET Users /\ group \cap Guests(s) = {}
  BY <1>4, <1>5, <1>8
<1>11. Effect
  BY <1>4, <1>7, <1>9, <1>10, JoinEffect
<1>12. QED
  BY <1>7, <1>9, <1>11, SerialAnswer

LEMMA SerialMemberChange ==
    ASSUME OneAtATime, IInv, SerialInv, NEW c \in Calls, NEW u, NEW m, NEW payment,
           MemberChange(c, u, m, payment)
    PROVE  SerialInv' /\ Effect
<1>1. PICK k : k = [op |-> "UpdateMember", member |-> m, payment |-> payment]
  OBVIOUS
<1>2. k.op = "UpdateMember"
  BY <1>1
<1>3. Await(c, k) /\ UNCHANGED tables
  BY <1>1 DEF MemberChange
<1>4. Serial(k)
  BY <1>2 DEF Serial, SerialSession, SerialMember, SerialRequest
<1>5. QED
  BY <1>3, <1>4, SerialReads

LEMMA SerialMemberRemove ==
    ASSUME OneAtATime, IInv, SerialInv, NEW c \in Calls, NEW u, NEW m, MemberRemove(c, u, m)
    PROVE  SerialInv' /\ Effect
<1>1. PICK k : k = [op |-> "DeleteMember", member |-> m]
  OBVIOUS
<1>2. k.op = "DeleteMember" /\ k.member = m
  BY <1>1
<1>3. Await(c, k) /\ UNCHANGED tables
  BY <1>1 DEF MemberRemove
<1>4. Serial(k)
  BY <1>2 DEF MemberRemove, Serial, SerialSession, SerialMember, SerialRequest
<1>5. QED
  BY <1>3, <1>4, SerialReads

LEMMA SerialMemberRemoveDelete ==
    ASSUME OneAtATime, IInv, SerialInv, NEW c \in Calls, MemberRemoveDelete(c)
    PROVE  SerialInv' /\ Effect
<1>1. inflight[c].op = "DeleteMember" /\ Serial(inflight[c])
  BY SerialAt DEF MemberRemoveDelete
<1>2. PICK m : m = inflight[c].member
  OBVIOUS
<1>3. m \in DOMAIN members /\ members[m].live /\ sessions[members[m].session].status = "PENDING"
  BY <1>1, <1>2 DEF Serial, SerialMember, Live
<1>4. members[m] \in MemberRow /\ members[m].session \in DOMAIN sessions
  BY <1>3 DEF IInv, TypeOK, IsTable, RowsInv, RowsRefer
<1>5. PICK s \in DOMAIN sessions : s = members[m].session
  BY <1>4
<1>6. PICK u \in Users : u = members[m].user
  BY <1>4 DEF MemberRow
<1>7. /\ DOMAIN members' = DOMAIN members /\ ~members'[m].live
      /\ \A x \in DOMAIN members : x # m => members'[x] = members[x]
      /\ members'[m].payment = members[m].payment
  BY <1>2, <1>3, <1>4 DEF MemberRemoveDelete, MemberRow
<1>8. Answer(c) /\ UNCHANGED <<sessions, requests>>
  BY DEF MemberRemoveDelete
<1>9. Live(members') = Live(members) \ {m} /\ m \in Live(members)
  BY <1>3, <1>7 DEF Live
<1>10. RosterInv'
  <2>1. NobodyHasPaid'
    BY <1>3, <1>7 DEF SerialInv, RosterInv, NobodyHasPaid
  <2>2. \A x \in Live(members') : members'[x] = members[x]
    BY <1>7, <1>9 DEF Live
  <2>3. OneMembershipPerGuest'
    BY <1>8, <1>9, <2>2 DEF SerialInv, RosterInv, OneMembershipPerGuest
  <2>4. QED
    BY <2>1, <2>3 DEF RosterInv
<1>11. ASSUME NEW x \in DOMAIN sessions, x # s
       PROVE  Guests(x)' = Guests(x)
  <2>1. Roster(x)' = Roster(x)
    BY <1>5, <1>7, <1>9, <1>11 DEF Roster, Live
  <2>2. \A n \in Roster(x) : members'[n] = members[n]
    BY <1>5, <1>7, <1>11 DEF Roster, Live
  <2>3. QED
    BY <1>8, <2>1, <2>2 DEF Guests
<1>12. Guests(s)' = Guests(s) \ {u}
  <2>1. Roster(s)' = Roster(s) \ {m} /\ m \in Roster(s)
    BY <1>5, <1>7, <1>9 DEF Roster, Live
  <2>2. \A n \in Roster(s)' : members'[n] = members[n]
    BY <1>7, <2>1 DEF Roster, Live
  <2>3. ASSUME NEW n \in Roster(s) \ {m}, members[n].user = u, u # sessions[s].createdBy
        PROVE  FALSE
    BY <1>5, <1>6, <1>9, <2>3 DEF Roster, SerialInv, RosterInv, OneMembershipPerGuest
  <2>4. {members'[n].user : n \in Roster(s)'} = {members[n].user : n \in Roster(s) \ {m}}
    BY <2>1, <2>2
  <2>5. {members[n].user : n \in Roster(s)} = {members[n].user : n \in Roster(s) \ {m}} \cup {u}
    BY <1>6, <2>1
  <2>6. u # sessions[s].createdBy => u \notin {members[n].user : n \in Roster(s) \ {m}}
    BY <2>3
  <2>7. QED
    BY <1>8, <2>4, <2>5, <2>6 DEF Guests
<1>13. Effect
  BY <1>3, <1>5, <1>8, <1>11, <1>12, LeaveEffect
<1>14. QED
  BY <1>8, <1>10, <1>13, SerialAnswer

LEMMA SerialRequestInsert ==
    ASSUME OneAtATime, IInv, SerialInv, NEW c \in Calls, NEW u, NEW s, RequestInsert(c, u, s)
    PROVE  SerialInv' /\ Effect
<1>1. PICK k : k = [op |-> "InsertRequest", user |-> u, session |-> s]
  OBVIOUS
<1>2. k.op = "InsertRequest"
  BY <1>1
<1>3. Await(c, k) /\ UNCHANGED tables
  BY <1>1 DEF RequestInsert
<1>4. Serial(k)
  BY <1>2 DEF Serial, SerialSession, SerialMember, SerialRequest
<1>5. QED
  BY <1>3, <1>4, SerialReads

\* What is said about rosters does not depend on requests.
LEMMA RosterAsRequestsChange ==
    ASSUME SerialInv, UNCHANGED <<sessions, members>>
    PROVE  RosterInv'
BY DEF SerialInv, RosterInv, NobodyHasPaid, OneMembershipPerGuest, Live

LEMMA SerialRequestInsertSave ==
    ASSUME OneAtATime, IInv, SerialInv, NEW c \in Calls, RequestInsertSave(c)
    PROVE  SerialInv' /\ Effect
<1>1. PICK r \in Unused(requests, RequestIds) : requests' = Put(requests, r,
             [createdBy |-> inflight[c].user, session |-> inflight[c].session,
              status |-> "PENDING", live |-> TRUE])
  BY DEF RequestInsertSave
<1>2. Answer(c) /\ UNCHANGED <<sessions, members>>
  BY DEF RequestInsertSave
<1>3. r \in RequestIds \ DOMAIN requests
  BY DEF Unused
<1>4. [x \in DOMAIN requests |-> Asked(x)]' = Put([x \in DOMAIN requests |-> Asked(x)], r, "PENDING")
  <2>1. /\ DOMAIN requests' = DOMAIN requests \cup {r}
        /\ requests'[r].status = "PENDING" /\ requests'[r].live
        /\ \A x \in DOMAIN requests : requests'[x] = requests[x]
    BY <1>1, <1>3 DEF Put
  <2>2. \A x \in DOMAIN requests' : Asked(x)' = IF x = r THEN "PENDING" ELSE Asked(x)
    BY <2>1 DEF Asked
  <2>3. QED
    BY <1>3, <2>1, <2>2 DEF Put
<1>5. Effect
  BY <1>2, <1>3, <1>4, AskedEffect
<1>6. QED
  BY <1>2, <1>5, RosterAsRequestsChange, SerialAnswer

LEMMA SerialRequestChange ==
    ASSUME OneAtATime, IInv, SerialInv, NEW c \in Calls, NEW u, NEW r, NEW status,
           RequestChange(c, u, r, status)
    PROVE  SerialInv' /\ Effect
<1>1. PICK k : k = [op |-> IF status = "ACCEPTED" THEN "SaveOwner" ELSE "SaveRequest",
                    request |-> r, row |-> [requests[r] EXCEPT !.status = status]]
  OBVIOUS
<1>2. requests[r] \in RequestRow /\ requests[r].status = "PENDING" /\ requests[r].live
  BY DEF RequestChange, Live, IInv, TypeOK, IsTable
<1>3. /\ k.op \in {"SaveOwner", "SaveRequest"} /\ k.request = r
      /\ k.row = [requests[r] EXCEPT !.status = status]
  BY <1>1
<1>4. k.row.live
  BY <1>2, <1>3 DEF RequestRow
<1>5. Await(c, k) /\ UNCHANGED tables
  BY <1>1 DEF RequestChange
<1>6. Serial(k)
  BY <1>2, <1>3, <1>4 DEF Serial, SerialSession, SerialMember, SerialRequest
<1>7. QED
  BY <1>5, <1>6, SerialReads

LEMMA SerialRequestAccept ==
    ASSUME OneAtATime, IInv, SerialInv, NEW c \in Calls, RequestAccept(c)
    PROVE  SerialInv' /\ Effect
<1>1. /\ inflight[c] \in Continuation /\ inflight[c].op = "SaveOwner"
      /\ Serial(inflight[c]) /\ Justified(c)
  BY SerialAt DEF RequestAccept
<1>2. inflight[c].row.session \in DOMAIN sessions
  BY <1>1 DEF Justified, IInv, RowsInv, RowsRefer
<1>3. PICK s \in DOMAIN sessions : s = inflight[c].row.session
  BY <1>2
<1>4. PICK m \in Unused(members, MemberIds) :
             members' = Put(members, m, NewMember(sessions[s].createdBy, s))
  BY <1>3 DEF RequestAccept
<1>5. PICK k : k = [inflight[c] EXCEPT !.op = "SaveRequest"]
  OBVIOUS
<1>6. k.op = "SaveRequest" /\ k.request = inflight[c].request /\ k.row = inflight[c].row
  BY <1>1, <1>5 DEF Continuation
<1>7. Await(c, k) /\ UNCHANGED <<sessions, requests>>
  BY <1>5 DEF RequestAccept
<1>8. PICK u : u = sessions[s].createdBy
  OBVIOUS
<1>9. u \notin Guests(s)
  BY <1>8 DEF Guests
<1>10. /\ RosterInv'
       /\ Guests(s)' = Guests(s) \cup ({u} \ {sessions[s].createdBy})
       /\ \A x \in DOMAIN sessions : x # s => Guests(x)' = Guests(x)
  BY <1>4, <1>7, <1>8, <1>9, NewRow DEF SerialInv
<1>11. Effect
  BY <1>7, <1>8, <1>10, SameGuestsEffect
<1>12. Serial(k)'
  BY <1>1, <1>6, <1>7 DEF Serial, SerialSession, SerialMember, SerialRequest
<1>13. QED
  BY <1>7, <1>10, <1>11, <1>12, SerialAwait

LEMMA SerialRequestSaveRead ==
    ASSUME OneAtATime, IInv, SerialInv, NEW c \in Calls, RequestSaveRead(c)
    PROVE  SerialInv' /\ Effect
<1>1. inflight[c].op = "SaveRequest" /\ Serial(inflight[c])
  BY SerialAt DEF RequestSaveRead
<1>2. PICK k : k = [op |-> "WriteRequest", request |-> inflight[c].request,
                    row |-> inflight[c].row, seen |-> requests[inflight[c].request]]
  OBVIOUS
<1>3. /\ k.op = "WriteRequest" /\ k.request = inflight[c].request /\ k.row = inflight[c].row
      /\ k.seen = requests[inflight[c].request]
  BY <1>2
<1>4. Await(c, k) /\ UNCHANGED tables
  BY <1>2 DEF RequestSaveRead
<1>5. Serial(k)
  BY <1>1, <1>3 DEF Serial, SerialSession, SerialMember, SerialRequest
<1>6. QED
  BY <1>4, <1>5, SerialReads

LEMMA SerialRequestSaveWrite ==
    ASSUME OneAtATime, IInv, SerialInv, NEW c \in Calls, RequestSaveWrite(c)
    PROVE  SerialInv' /\ Effect
<1>1. /\ inflight[c] \in Continuation /\ inflight[c].op = "WriteRequest"
      /\ Serial(inflight[c]) /\ Justified(c)
  BY SerialAt DEF RequestSaveWrite
<1>2. PICK r : r = inflight[c].request
  OBVIOUS
<1>3. PICK answer : answer = inflight[c].row.status
  OBVIOUS
<1>4. /\ r \in DOMAIN requests /\ r \in RequestIds /\ answer \in RequestStatus
      /\ requests[r].status = "PENDING" /\ requests[r].live = TRUE /\ inflight[c].row.live = TRUE
      /\ inflight[c].seen = requests[r]
  <2>1. inflight[c].row \in RequestRow /\ inflight[c].request \in RequestIds
    BY <1>1, ContinuationFields
  <2>2. requests[r] \in RequestRow /\ r \in DOMAIN requests
    BY <1>1, <1>2 DEF Justified, IInv, TypeOK, IsTable
  <2>3. QED
    BY <1>1, <1>2, <1>3, <2>1, <2>2 DEF Serial, SerialRequest, RequestRow
<1>5. /\ DOMAIN requests' = DOMAIN requests
      /\ requests'[r].status = answer /\ requests'[r].live = TRUE
      /\ \A x \in DOMAIN requests : x # r => requests'[x] = requests[x]
  BY <1>2, <1>3, <1>4 DEF RequestSaveWrite, Put, Column
<1>6. Answer(c) /\ UNCHANGED <<sessions, members>>
  BY DEF RequestSaveWrite
<1>7. [x \in DOMAIN requests |-> Asked(x)]' =
          [[x \in DOMAIN requests |-> Asked(x)] EXCEPT ![r] = answer]
  <2>1. \A x \in DOMAIN requests : Asked(x)' = IF x = r THEN answer ELSE Asked(x)
    BY <1>5 DEF Asked
  <2>2. QED
    BY <1>5, <2>1
<1>8. Asked(r) = "PENDING"
  BY <1>4 DEF Asked
<1>9. Effect
  <2>1. CASE answer \in {"ACCEPTED", "REJECTED"}
    BY <1>4, <1>6, <1>7, <1>8, <2>1, AskedEffect
  <2>2. CASE answer = "PENDING"
    <3>1. [x \in DOMAIN requests |-> Asked(x)]' = [x \in DOMAIN requests |-> Asked(x)]
      BY <1>7, <1>8, <2>2
    <3>2. QED
      BY <1>6, <3>1, AskedEffect
  <2>3. QED
    BY <1>4, <2>1, <2>2 DEF RequestStatus
<1>10. QED
  BY <1>6, <1>9, RosterAsRequestsChange, SerialAnswer

LEMMA SerialRequestRemove ==
    ASSUME OneAtATime, IInv, SerialInv, NEW c \in Calls, NEW u, NEW q, NEW r,
           RequestRemove(c, u, q, r)
    PROVE  SerialInv' /\ Effect
<1>1. PICK k : k = [op |-> "DeleteRequest", user |-> u, request |-> r]
  OBVIOUS
<1>2. k.op = "DeleteRequest"
  BY <1>1
<1>3. Await(c, k) /\ UNCHANGED tables
  BY <1>1 DEF RequestRemove
<1>4. Serial(k)
  BY <1>2 DEF Serial, SerialSession, SerialMember, SerialRequest
<1>5. QED
  BY <1>3, <1>4, SerialReads

LEMMA SerialRequestRemoveDelete ==
    ASSUME OneAtATime, IInv, SerialInv, NEW c \in Calls, RequestRemoveDelete(c)
    PROVE  SerialInv' /\ Effect
<1>1. /\ inflight[c] \in Continuation /\ inflight[c].op = "DeleteRequest"
  BY SerialAt DEF RequestRemoveDelete
<1>2. PICK r \in RequestIds : r = inflight[c].request
  BY <1>1, ContinuationFields
<1>3. Answer(c) /\ UNCHANGED <<sessions, members>>
  BY DEF RequestRemoveDelete
<1>4. /\ DOMAIN requests' = DOMAIN requests
      /\ r \in DOMAIN requests => requests'[r].live = FALSE
      /\ \A x \in DOMAIN requests : x # r => requests'[x] = requests[x]
  <2>1. \A x \in DOMAIN requests : requests[x] \in RequestRow
    BY DEF IInv, TypeOK, IsTable
  <2>2. QED
    BY <1>2, <2>1 DEF RequestRemoveDelete, RequestRow
<1>5. Effect
  <2>1. \A x \in DOMAIN requests : Asked(x)' = IF x = r THEN "WITHDRAWN" ELSE Asked(x)
    BY <1>4 DEF Asked
  <2>2. CASE r \in DOMAIN requests
    <3>1. [x \in DOMAIN requests |-> Asked(x)]' =
              [[x \in DOMAIN requests |-> Asked(x)] EXCEPT ![r] = "WITHDRAWN"]
      BY <1>4, <2>1, <2>2
    <3>2. QED
      BY <1>3, <2>2, <3>1, AskedEffect
  <2>3. CASE r \notin DOMAIN requests
    <3>1. [x \in DOMAIN requests |-> Asked(x)]' = [x \in DOMAIN requests |-> Asked(x)]
      BY <1>4, <2>1, <2>3
    <3>2. QED
      BY <1>3, <3>1, AskedEffect
  <2>4. QED
    BY <2>2, <2>3
<1>6. QED
  BY <1>3, <1>5, RosterAsRequestsChange, SerialAnswer

LEMMA SerialInit ==
    ASSUME Init
    PROVE  SerialInv /\ Shown!Init
<1>1. SerialInv
  BY DEF Init, EmptyTable, SerialInv, RosterInv, NobodyHasPaid, OneMembershipPerGuest, Live
<1>2. DOMAIN sessions = {} /\ DOMAIN requests = {}
  BY DEF Init, EmptyTable
<1>3. Shown!Init
  BY <1>2 DEF Shown!Init, Shown!EmptyTable
<1>4. QED
  BY <1>1, <1>3

LEMMA SerialBegins ==
    ASSUME OneAtATime, IInv, SerialInv, NEW c \in Calls,
           SessionBegins(c) \/ MemberBegins(c) \/ RequestBegins(c)
    PROVE  SerialInv' /\ Effect
<1>1. CASE SessionBegins(c)
  <2>1. PICK u \in Users, s \in Sessions :
           \/ \E body \in CreateBadmintonSessionDto :
                 SessionInsert(c, u, s, body.numberOfPeople, body.memberIds, body.known)
           \/ \E body \in UpdateBadmintonSessionDto :
                 SessionChange(c, u, s, body.status, body.numberOfPeople)
    BY <1>1 DEF SessionBegins
  <2>2. \A body \in UpdateBadmintonSessionDto : body.status \in SessionStatus \cup {"unset"}
    BY DEF UpdateBadmintonSessionDto
  <2>3. QED
    BY <2>1, <2>2, SerialSessionInsert, SerialSessionChange
<1>2. CASE MemberBegins(c)
  BY <1>2, SerialMemberInsert, SerialMemberChange, SerialMemberRemove DEF MemberBegins
<1>3. CASE RequestBegins(c)
  BY <1>3, SerialRequestInsert, SerialRequestChange, SerialRequestRemove DEF RequestBegins
<1>4. QED
  BY <1>1, <1>2, <1>3

\* Every step keeps the invariant and shows a step of RosterSpec or nothing.
LEMMA SerialStep ==
    ASSUME OneAtATime, IInv, SerialInv, [Next]_vars
    PROVE  SerialInv' /\ Effect
<1>1. CASE Next
  <2>1. PICK c \in Calls :
           SessionBegins(c) \/ MemberBegins(c) \/ RequestBegins(c) \/ Continues(c) \/ Abort(c)
    BY <1>1 DEF Next
  <2>2. CASE SessionBegins(c) \/ MemberBegins(c) \/ RequestBegins(c)
    BY <2>2, SerialBegins
  <2>3. CASE SessionInsertReject(c) \/ MemberChangeUpdate(c) \/ Abort(c)
    BY <2>3, SerialEnds DEF SessionInsertReject, MemberChangeUpdate, Abort
  <2>4. CASE Continues(c)
    BY <2>3, <2>4, SerialSessionInsertMembers, SerialFindUnpaid, SerialSessionSaveRead,
       SerialSessionSaveWrite, SerialMemberInsertSave, SerialMemberRemoveDelete,
       SerialRequestInsertSave, SerialRequestRemoveDelete, SerialRequestAccept,
       SerialRequestSaveRead, SerialRequestSaveWrite DEF Continues
  <2>5. QED
    BY <2>1, <2>2, <2>3, <2>4
<1>2. CASE UNCHANGED vars
  <2>1. UNCHANGED <<sessions, members, requests, inflight>>
    BY <1>2 DEF vars
  <2>2. UNCHANGED tables
    BY <2>1 DEF tables
  <2>3. \A c \in DOMAIN inflight' : Serial(inflight[c])'
    <3>1. ASSUME NEW c \in DOMAIN inflight'
          PROVE  Serial(inflight[c])'
      <4>1. PICK k : k = inflight[c]
        OBVIOUS
      <4>2. Serial(k)
        BY <2>1, <3>1, <4>1 DEF SerialInv
      <4>3. QED
        BY <2>1, <2>2, <4>1, <4>2, SerialStays
    <3>2. QED
      BY <3>1
  <2>4. QED
    BY <2>2, <2>3, QuietEffect, RosterStays DEF SerialInv
<1>3. QED
  BY <1>1, <1>2

-----------------------------------------------------------------------------
(* Theorems about one call at a time, any of whose queries may fail. *)

\* What the only call has in hand is what the tables say, nobody is on a roster
\* twice and nobody has paid.
LEMMA SerialInvariant ==
    ASSUME OneAtATime
    PROVE  Spec => []SerialInv
<1>1. Init => SerialInv
  BY SerialInit
<1>2. IInv /\ SerialInv /\ [Next]_vars => SerialInv'
  BY SerialStep
<1>3. QED
  BY <1>1, <1>2, InvariantHolds, PTL DEF Spec

\* A guest has one membership in a session at most, whether invited with the
\* session or added to it ('User is already a member of this badminton session').
THEOREM GuestOnce ==
    ASSUME OneAtATime
    PROVE  Spec => []OneMembershipPerGuest
<1>1. SerialInv => OneMembershipPerGuest
  BY DEF SerialInv, RosterInv
<1>2. QED
  BY <1>1, SerialInvariant, PTL

\* 'Some members are not paid': a session is not finished while a member has not,
\* although the status is written two queries after the members were looked at.
THEOREM PaidBeforeFinish ==
    ASSUME OneAtATime
    PROVE  Spec => FinishedWhenPaid
<1>1. IInv /\ SerialInv /\ [Next]_vars => [FinishesPaid]_vars
  BY SerialStep DEF Effect
<1>2. QED
  BY <1>1, InvariantHolds, SerialInvariant, PTL DEF Spec, FinishedWhenPaid, FinishesPaid

\* The handlers of the three services, query by query and with any query failing,
\* implement RosterSpec: whatever happens to sessions, guests and requests
\* happens at once or not at all.
THEOREM CallsAreAtomic ==
    ASSUME OneAtATime
    PROVE  Spec => ImplementsRoster
<1>1. Init => Shown!Init
  BY SerialInit
<1>2. IInv /\ SerialInv /\ [Next]_vars => [Shown!Next]_(Shown!vars)
  BY SerialStep DEF Effect
<1>3. QED
  BY <1>1, <1>2, InvariantHolds, SerialInvariant, PTL DEF Spec, ImplementsRoster, Shown!Spec
=============================================================================
