------------------------ MODULE NotificationsProofs ------------------------
(***************************************************************************)
(* Theorems about Notifications for any number of users, devices,          *)
(* notifications and calls: the device tokens that a logout removes and    *)
(* the histories that follow the pushes.                                   *)
(***************************************************************************)
EXTENDS Notifications, Lemmas

-----------------------------------------------------------------------------
(* The inductive invariant *)

\* A call that has found the row of its user relies on it later: no row ever
\* leaves fcm-tokens, remove only marks it deleted.
RowsStay ==
    \A c \in DOMAIN inflight :
        At(c, "upsert", "saveRead") \/ At(c, "upsert", "saveWrite")
            \/ At(c, "remove", "softDelete")
        => inflight[c].user \in DOMAIN tokens

\* Who has signed out has no upsert under way that could bring a token back.
SignedOutIsQuiet == \A u \in signedOut : ~Upserting(u)

\* An insert is about a message to its receiver that Firebase has answered for,
\* and past its first query the detail is there.
InsertsAreResolved ==
    \A c \in DOMAIN inflight :
        inflight[c].kind = "insert" =>
            /\ \E p \in resolved : p.note = inflight[c].note /\ p.receiver = inflight[c].user
            /\ inflight[c].at # "detail" => inflight[c].note \in details

TokenInv == RowsStay /\ SignedOutIsQuiet /\ SignedOutHasNoToken
NoteInv == InsertsAreResolved /\ HistoryTellsPushes /\ HistoryHasDetail /\ UnreadUntilOpened

IInv == TypeOK /\ TokenInv /\ NoteInv

-----------------------------------------------------------------------------
(* Calls *)

\* A call knows its user, and a call about a notification knows that too.
LEMMA CallFields ==
    ASSUME NEW call \in Call
    PROVE  /\ call.kind \in {"upsert", "remove", "send", "insert"}
           /\ call.user \in Users
           /\ call.kind = "upsert" => call.device \in Devices
           /\ call.kind \in {"send", "insert"} => call.note \in Notes
           /\ call.kind = "send" /\ call.at = "multicast" => call.device \in Devices
           /\ call.kind = "upsert" /\ call.at = "saveWrite" => call.seen \in TokenRow
BY DEF Call

LEMMA AtCall ==
    ASSUME TypeOK, NEW c, NEW kind, NEW place, At(c, kind, place)
    PROVE  /\ c \in DOMAIN inflight /\ c \in Calls /\ inflight[c] \in Call
           /\ inflight[c].kind = kind /\ inflight[c].at = place
BY DEF TypeOK, At, IsTable

LEMMA AwaitFacts ==
    ASSUME TypeOK, NEW c \in Calls, NEW call \in Call, Await(c, call)
    PROVE  /\ IsTable(inflight', Calls, Call)
           /\ DOMAIN inflight' = DOMAIN inflight \cup {c}
           /\ inflight'[c] = call
           /\ \A d \in DOMAIN inflight : d # c => inflight'[d] = inflight[d]
<1>1. IsTable(inflight, Calls, Call)
  BY DEF TypeOK
<1>2. QED
  BY <1>1 DEF Await, IsTable, Put

LEMMA AnswerFacts ==
    ASSUME TypeOK, NEW c, Answer(c)
    PROVE  /\ IsTable(inflight', Calls, Call)
           /\ DOMAIN inflight' = DOMAIN inflight \ {c}
           /\ \A d \in DOMAIN inflight' : inflight'[d] = inflight[d]
<1>1. IsTable(inflight, Calls, Call)
  BY DEF TypeOK
<1>2. inflight' = Drop(inflight, c)
  BY DEF Answer
<1>3. QED
  BY <1>1, <1>2, DropRow

\* The inserts under way are the same after the step.
SameInserts ==
    /\ \A d \in DOMAIN inflight' : inflight'[d].kind = "insert" =>
            d \in DOMAIN inflight /\ inflight[d] = inflight'[d]
    /\ \A d \in DOMAIN inflight : inflight[d].kind = "insert" =>
            d \in DOMAIN inflight' /\ inflight'[d] = inflight[d]

\* No upsert has begun and whoever waits for the row of a user has it.
QuietCalls ==
    \A d \in DOMAIN inflight' :
        /\ inflight'[d].kind = "upsert" => Upserting(inflight'[d].user)
        /\ \/ d \in DOMAIN inflight /\ inflight[d] = inflight'[d]
           \/ inflight'[d].user \in DOMAIN tokens
           \/ ~ \/ inflight'[d].kind = "upsert" /\ inflight'[d].at \in {"saveRead", "saveWrite"}
                \/ inflight'[d].kind = "remove" /\ inflight'[d].at = "softDelete"

\* A step that leaves the histories and the inserts alone keeps what holds of
\* them; more may be lost.
LEMMA NoteFrame ==
    ASSUME NoteInv, SameInserts, UNCHANGED <<details, histories, resolved, pushes, opened>>,
           lost \subseteq lost'
    PROVE  NoteInv'
<1>1. Inserting \subseteq Inserting'
  BY DEF Inserting, SameInserts
<1>2. InsertsAreResolved'
  BY DEF NoteInv, InsertsAreResolved, SameInserts
<1>3. QED
  BY <1>1, <1>2 DEF NoteInv, HistoryTellsPushes, HistoryHasDetail, UnreadUntilOpened

\* A step that begins no upsert and writes the row of nobody, or of a user whose
\* upsert is under way, keeps what holds of the users who have signed out.
LEMMA TokenFrame ==
    ASSUME TokenInv, QuietCalls, UNCHANGED signedOut,
           NEW w, Upserting(w) \/ UNCHANGED tokens,
           DOMAIN tokens \subseteq DOMAIN tokens',
           \A u \in DOMAIN tokens' \ {w} : u \in DOMAIN tokens /\ tokens'[u] = tokens[u]
    PROVE  TokenInv'
<1>1. RowsStay'
  BY DEF TokenInv, RowsStay, QuietCalls, At
<1>2. SignedOutIsQuiet'
  BY DEF TokenInv, SignedOutIsQuiet, QuietCalls, Upserting
<1>3. SignedOutHasNoToken'
  BY DEF TokenInv, SignedOutHasNoToken, SignedOutIsQuiet, HasToken
<1>4. QED
  BY <1>1, <1>2, <1>3 DEF TokenInv

\* The end of a remove: its user has no live token and is signed out unless an
\* upsert is under way.
LEMMA SignOutFrame ==
    ASSUME TokenInv, QuietCalls, NEW w, SignOut(w), ~(w \in DOMAIN tokens' /\ tokens'[w].live),
           DOMAIN tokens' = DOMAIN tokens,
           \A u \in DOMAIN tokens \ {w} : tokens'[u] = tokens[u]
    PROVE  TokenInv'
<1>1. RowsStay'
  BY DEF TokenInv, RowsStay, QuietCalls, At
<1>2. SignedOutIsQuiet'
  BY DEF TokenInv, SignedOutIsQuiet, QuietCalls, Upserting, SignOut
<1>3. SignedOutHasNoToken'
  BY DEF TokenInv, SignedOutHasNoToken, SignOut, HasToken
<1>4. QED
  BY <1>1, <1>2, <1>3 DEF TokenInv

\* The two writes of an upsert.
LEMMA TokenPut ==
    ASSUME TypeOK, NEW w \in Users, NEW row \in TokenRow, tokens' = Put(tokens, w, row)
    PROVE  /\ IsTable(tokens', Users, TokenRow)
           /\ DOMAIN tokens' = DOMAIN tokens \cup {w}
           /\ \A u \in DOMAIN tokens : u # w => tokens'[u] = tokens[u]
<1>1. IsTable(tokens, Users, TokenRow)
  BY DEF TypeOK
<1>2. QED
  BY <1>1 DEF IsTable, Put

\* A call that goes on, or begins as no upsert, and finds the row it relies on.
LEMMA AwaitQuiet ==
    ASSUME TypeOK, NEW c \in Calls, NEW call \in Call, Await(c, call),
           call.kind = "upsert" => Upserting(call.user),
           \/ call.user \in DOMAIN tokens
           \/ call.kind = "upsert" /\ call.at \in {"find", "insertRow"}
           \/ call.kind = "remove" /\ call.at = "find"
           \/ call.kind \in {"send", "insert"}
    PROVE  QuietCalls
<1>1. /\ DOMAIN inflight' = DOMAIN inflight \cup {c}
      /\ inflight'[c] = call
      /\ \A d \in DOMAIN inflight : d # c => inflight'[d] = inflight[d]
  BY AwaitFacts
<1>2. ASSUME NEW d \in DOMAIN inflight', d # c
      PROVE  d \in DOMAIN inflight /\ inflight'[d] = inflight[d]
  BY <1>1, <1>2
<1>3. QED
  BY <1>1, <1>2 DEF QuietCalls, Upserting

LEMMA AnswerQuiet ==
    ASSUME TypeOK, NEW c, Answer(c)
    PROVE  QuietCalls
BY AnswerFacts DEF QuietCalls, Upserting

LEMMA AwaitNoInsert ==
    ASSUME TypeOK, NEW c \in Calls, NEW call \in Call, Await(c, call),
           call.kind # "insert", c \in DOMAIN inflight => inflight[c].kind # "insert"
    PROVE  SameInserts
BY AwaitFacts DEF SameInserts

LEMMA AnswerNoInsert ==
    ASSUME TypeOK, NEW c, Answer(c), inflight[c].kind # "insert"
    PROVE  SameInserts
BY AnswerFacts DEF SameInserts

-----------------------------------------------------------------------------
(* Device tokens *)

LEMMA UpsertStep ==
    ASSUME IInv, NEW c \in Calls, NEW u \in Users, NEW d \in Devices, Upsert(c, u, d)
    PROVE  IInv'
<1> DEFINE call == [kind |-> "upsert", at |-> "find", user |-> u, device |-> d]
<1>1. call \in Call /\ call.kind = "upsert" /\ call.at = "find" /\ call.user = u
  BY DEF Call
<1>2. Await(c, call) /\ Idle(c) /\ TypeOK
  BY DEF Upsert, IInv
<1> HIDE DEF call
<1>3. /\ IsTable(inflight', Calls, Call)
      /\ DOMAIN inflight' = DOMAIN inflight \cup {c}
      /\ inflight'[c] = call
      /\ \A x \in DOMAIN inflight : x # c => inflight'[x] = inflight[x]
  BY <1>1, <1>2, AwaitFacts
<1>4. TypeOK'
  BY <1>2, <1>3 DEF Upsert, TypeOK
<1>5. RowsStay'
  BY <1>1, <1>3 DEF Upsert, IInv, TokenInv, RowsStay, At
<1>6. SignedOutIsQuiet' /\ SignedOutHasNoToken'
  BY <1>1, <1>3 DEF Upsert, IInv, TokenInv, SignedOutIsQuiet, Upserting,
     SignedOutHasNoToken, HasToken
<1>7. SameInserts
  BY <1>1, <1>2, AwaitNoInsert DEF Idle
<1>8. NoteInv'
  BY <1>7, NoteFrame DEF Upsert, IInv
<1>9. QED
  BY <1>4, <1>5, <1>6, <1>8 DEF IInv, TokenInv

LEMMA UpsertFindStep ==
    ASSUME IInv, NEW c \in Calls, UpsertFind(c)
    PROVE  IInv'
<1> DEFINE call == [inflight[c] EXCEPT
                        !.at = IF HasToken(inflight[c].user) THEN "saveRead" ELSE "insertRow"]
<1>1. TypeOK /\ c \in DOMAIN inflight /\ inflight[c] \in Call
      /\ inflight[c].kind = "upsert" /\ inflight[c].at = "find"
  BY AtCall DEF UpsertFind, IInv
<1>2. /\ call \in Call /\ call.kind = "upsert" /\ call.user = inflight[c].user
      /\ call.at = "insertRow" \/ call.user \in DOMAIN tokens
  BY <1>1 DEF Call, HasToken
<1>3. Await(c, call)
  BY DEF UpsertFind
<1>4. Upserting(call.user)
  BY <1>1, <1>2 DEF Upserting
<1> HIDE DEF call
<1>5. IsTable(inflight', Calls, Call) /\ QuietCalls /\ SameInserts
  BY <1>1, <1>2, <1>3, <1>4, AwaitFacts, AwaitQuiet, AwaitNoInsert
<1>6. TokenInv' /\ NoteInv'
  BY <1>5, TokenFrame, NoteFrame DEF UpsertFind, records, IInv
<1>7. QED
  BY <1>1, <1>5, <1>6 DEF UpsertFind, records, IInv, TypeOK

LEMMA UpsertSaveReadStep ==
    ASSUME IInv, NEW c \in Calls, UpsertSaveRead(c)
    PROVE  IInv'
<1> DEFINE call == [kind |-> "upsert", at |-> "saveWrite", user |-> inflight[c].user,
                    device |-> inflight[c].device, seen |-> tokens[inflight[c].user]]
<1>1. TypeOK /\ c \in DOMAIN inflight /\ inflight[c] \in Call
      /\ inflight[c].kind = "upsert" /\ inflight[c].at = "saveRead"
  BY AtCall DEF UpsertSaveRead, IInv
<1>2. inflight[c].user \in DOMAIN tokens
  BY <1>1 DEF UpsertSaveRead, IInv, TokenInv, RowsStay
<1>3. tokens[inflight[c].user] \in TokenRow
  BY <1>1, <1>2 DEF TypeOK, IsTable
<1>4. call \in Call /\ call.kind = "upsert" /\ call.user = inflight[c].user
  BY <1>1, <1>3, CallFields DEF Call
<1>5. Await(c, call)
  BY DEF UpsertSaveRead
<1>6. Upserting(call.user)
  BY <1>1, <1>4 DEF Upserting
<1> HIDE DEF call
<1>7. IsTable(inflight', Calls, Call) /\ QuietCalls /\ SameInserts
  BY <1>1, <1>2, <1>4, <1>5, <1>6, AwaitFacts, AwaitQuiet, AwaitNoInsert
<1>8. TokenInv' /\ NoteInv'
  BY <1>7, TokenFrame, NoteFrame DEF UpsertSaveRead, records, IInv
<1>9. QED
  BY <1>1, <1>7, <1>8 DEF UpsertSaveRead, records, IInv, TypeOK

LEMMA UpsertSaveWriteStep ==
    ASSUME IInv, NEW c \in Calls, UpsertSaveWrite(c)
    PROVE  IInv'
<1> DEFINE w == inflight[c].user
           seen == inflight[c].seen
           row == [token |-> Column(tokens[w].token, seen.token, inflight[c].device),
                   live |-> Column(tokens[w].live, seen.live, TRUE)]
           call == [kind |-> "upsert", at |-> "insertRow", user |-> w,
                    device |-> inflight[c].device]
<1>1. TypeOK /\ c \in DOMAIN inflight /\ inflight[c] \in Call
      /\ inflight[c].kind = "upsert" /\ inflight[c].at = "saveWrite"
  BY AtCall DEF UpsertSaveWrite, IInv
<1>2. w \in DOMAIN tokens
  BY <1>1 DEF UpsertSaveWrite, IInv, TokenInv, RowsStay
<1>3. w \in Users /\ inflight[c].device \in Devices /\ seen \in TokenRow
  BY <1>1, CallFields
<1>4. tokens[w] \in TokenRow
  BY <1>1, <1>2 DEF TypeOK, IsTable
<1>5. row \in TokenRow
  BY <1>3, <1>4 DEF TokenRow, Column
<1>6. /\ call \in Call /\ call.kind = "upsert" /\ call.user = w
      /\ call.at = "insertRow"
  BY <1>3 DEF Call
<1>7. Await(c, call) /\ tokens' = Put(tokens, w, row)
  BY DEF UpsertSaveWrite
<1>8. Upserting(w)
  BY <1>1 DEF Upserting
<1> HIDE DEF w, row, call
<1>9. IsTable(inflight', Calls, Call) /\ QuietCalls /\ SameInserts
  BY <1>1, <1>6, <1>7, <1>8, AwaitFacts, AwaitQuiet, AwaitNoInsert
<1>11. /\ IsTable(tokens', Users, TokenRow)
       /\ DOMAIN tokens' = DOMAIN tokens \cup {w}
       /\ \A u \in DOMAIN tokens : u # w => tokens'[u] = tokens[u]
  BY <1>1, <1>3, <1>5, <1>7, TokenPut
<1>12. UNCHANGED <<details, histories, records>>
  BY DEF UpsertSaveWrite
<1>13. TokenInv'
  BY <1>8, <1>9, <1>11, <1>12, TokenFrame DEF records, IInv
<1>14. NoteInv'
  BY <1>9, <1>12, NoteFrame DEF records, IInv
<1>15. QED
  BY <1>1, <1>9, <1>11, <1>12, <1>13, <1>14 DEF records, IInv, TypeOK

LEMMA UpsertInsertStep ==
    ASSUME IInv, NEW c \in Calls, UpsertInsert(c)
    PROVE  IInv'
<1> DEFINE w == inflight[c].user
           row == [token |-> inflight[c].device, live |-> TRUE]
<1>1. TypeOK /\ c \in DOMAIN inflight /\ inflight[c] \in Call
      /\ inflight[c].kind = "upsert"
  BY AtCall DEF UpsertInsert, IInv
<1>2. w \in Users /\ row \in TokenRow
  BY <1>1, CallFields DEF TokenRow
<1>3. Answer(c) /\ tokens' = IF w \in DOMAIN tokens THEN tokens ELSE Put(tokens, w, row)
  BY DEF UpsertInsert
<1>4. Upserting(w)
  BY <1>1 DEF Upserting
<1> HIDE DEF w, row
<1>5. IsTable(inflight', Calls, Call) /\ QuietCalls /\ SameInserts
  BY <1>1, <1>3, AnswerFacts, AnswerQuiet, AnswerNoInsert
<1>6. IsTable(tokens, Users, TokenRow)
  BY <1>1 DEF TypeOK
<1>7. /\ IsTable(tokens', Users, TokenRow)
      /\ DOMAIN tokens' = DOMAIN tokens \cup {w}
      /\ \A u \in DOMAIN tokens : u # w => tokens'[u] = tokens[u]
  <2>1. CASE w \in DOMAIN tokens
    BY <1>3, <1>6, <2>1
  <2>2. CASE w \notin DOMAIN tokens
    BY <1>1, <1>2, <1>3, <2>2, TokenPut
  <2>3. QED
    BY <2>1, <2>2
<1>8. UNCHANGED <<details, histories, records>>
  BY DEF UpsertInsert
<1>9. TokenInv'
  BY <1>4, <1>5, <1>7, <1>8, TokenFrame DEF records, IInv
<1>10. NoteInv'
  BY <1>5, <1>8, NoteFrame DEF records, IInv
<1>11. QED
  BY <1>1, <1>5, <1>7, <1>8, <1>9, <1>10 DEF records, IInv, TypeOK

LEMMA RemoveStep ==
    ASSUME IInv, NEW c \in Calls, NEW u \in Users, Remove(c, u)
    PROVE  IInv'
<1> DEFINE call == [kind |-> "remove", at |-> "find", user |-> u]
<1>1. call \in Call /\ call.kind = "remove" /\ call.at = "find"
  BY DEF Call
<1>2. Await(c, call) /\ Idle(c) /\ TypeOK
  BY DEF Remove, IInv
<1> HIDE DEF call
<1>3. IsTable(inflight', Calls, Call) /\ QuietCalls /\ SameInserts
  BY <1>1, <1>2, AwaitFacts, AwaitQuiet, AwaitNoInsert DEF Idle
<1>4. TokenInv' /\ NoteInv'
  BY <1>3, TokenFrame, NoteFrame DEF Remove, records, IInv
<1>5. QED
  BY <1>2, <1>3, <1>4 DEF Remove, records, IInv, TypeOK

LEMMA RemoveFindStep ==
    ASSUME IInv, NEW c \in Calls, RemoveFind(c)
    PROVE  IInv'
<1> DEFINE w == inflight[c].user
           call == [inflight[c] EXCEPT !.at = "softDelete"]
<1>1. TypeOK /\ c \in DOMAIN inflight /\ inflight[c] \in Call
      /\ inflight[c].kind = "remove" /\ inflight[c].at = "find"
  BY AtCall DEF RemoveFind, IInv
<1>2. w \in Users
  BY <1>1, CallFields
<1>3. UNCHANGED <<tokens, details, histories, resolved, pushes, lost, opened>>
  BY DEF RemoveFind
<1>4. CASE HasToken(w)
  <2>1. call \in Call /\ call.kind = "remove" /\ call.user = w
    BY <1>1 DEF Call
  <2>2. Await(c, call) /\ UNCHANGED signedOut /\ w \in DOMAIN tokens
    BY <1>4 DEF RemoveFind, HasToken
  <2> HIDE DEF call
  <2>3. IsTable(inflight', Calls, Call) /\ QuietCalls /\ SameInserts
    BY <1>1, <2>1, <2>2, AwaitFacts, AwaitQuiet, AwaitNoInsert
  <2>4. TokenInv' /\ NoteInv'
    BY <1>3, <2>2, <2>3, TokenFrame, NoteFrame DEF IInv
  <2>5. QED
    BY <1>1, <1>3, <2>2, <2>3, <2>4 DEF IInv, TypeOK
<1>5. CASE ~HasToken(w)
  <2>1. Answer(c) /\ SignOut(w)
    BY <1>5 DEF RemoveFind
  <2>2. ~(w \in DOMAIN tokens' /\ tokens'[w].live)
    BY <1>3, <1>5 DEF HasToken
  <2>3. signedOut' \subseteq Users
    BY <1>1, <1>2, <2>1 DEF SignOut, TypeOK
  <2> HIDE DEF w
  <2>4. IsTable(inflight', Calls, Call) /\ QuietCalls /\ SameInserts
    BY <1>1, <2>1, AnswerFacts, AnswerQuiet, AnswerNoInsert
  <2>5. TokenInv' /\ NoteInv'
    BY <1>3, <2>1, <2>2, <2>4, SignOutFrame, NoteFrame DEF IInv
  <2>6. QED
    BY <1>1, <1>3, <2>3, <2>4, <2>5 DEF IInv, TypeOK
<1>6. QED
  BY <1>4, <1>5

LEMMA RemoveSoftDeleteStep ==
    ASSUME IInv, NEW c \in Calls, RemoveSoftDelete(c)
    PROVE  IInv'
<1> DEFINE w == inflight[c].user
<1>1. TypeOK /\ c \in DOMAIN inflight /\ inflight[c] \in Call
      /\ inflight[c].kind = "remove" /\ inflight[c].at = "softDelete"
  BY AtCall DEF RemoveSoftDelete, IInv
<1>2. w \in Users
  BY <1>1, CallFields
<1>3. w \in DOMAIN tokens
  BY <1>1 DEF RemoveSoftDelete, IInv, TokenInv, RowsStay
<1>4. UNCHANGED <<details, histories, resolved, pushes, lost, opened>>
      /\ Answer(c) /\ SignOut(w) /\ tokens' = [tokens EXCEPT ![w].live = FALSE]
  BY DEF RemoveSoftDelete
<1> HIDE DEF w
<1>5. /\ DOMAIN tokens' = DOMAIN tokens
      /\ \A u \in DOMAIN tokens \ {w} : tokens'[u] = tokens[u]
      /\ tokens'[w] = [tokens[w] EXCEPT !.live = FALSE]
  BY <1>3, <1>4
<1>6. tokens[w] \in TokenRow /\ IsTable(tokens, Users, TokenRow)
  BY <1>1, <1>3 DEF TypeOK, IsTable
<1>7. tokens'[w] \in TokenRow /\ tokens'[w].live = FALSE
  BY <1>5, <1>6 DEF TokenRow
<1>8. IsTable(tokens', Users, TokenRow)
  BY <1>4, <1>5, <1>6, <1>7 DEF IsTable
<1>9. signedOut' \subseteq Users
  BY <1>1, <1>2, <1>4 DEF SignOut, TypeOK
<1>10. IsTable(inflight', Calls, Call) /\ QuietCalls /\ SameInserts
  BY <1>1, <1>4, AnswerFacts, AnswerQuiet, AnswerNoInsert
<1>11. ~(w \in DOMAIN tokens' /\ tokens'[w].live)
  BY <1>7
<1>12. TokenInv' /\ NoteInv'
  BY <1>4, <1>5, <1>10, <1>11, SignOutFrame, NoteFrame DEF IInv
<1>13. QED
  BY <1>1, <1>4, <1>8, <1>9, <1>10, <1>12 DEF IInv, TypeOK

-----------------------------------------------------------------------------
(* Notifications and their histories *)

LEMMA SendStep ==
    ASSUME IInv, NEW c \in Calls, NEW n \in Notes, NEW u \in Users, Send(c, n, u)
    PROVE  IInv'
<1> DEFINE call == [kind |-> "send", at |-> "find", user |-> u, note |-> n]
<1>1. call \in Call /\ call.kind = "send"
  BY DEF Call
<1>2. Await(c, call) /\ Idle(c) /\ TypeOK
  BY DEF Send, IInv
<1> HIDE DEF call
<1>3. IsTable(inflight', Calls, Call) /\ QuietCalls /\ SameInserts
  BY <1>1, <1>2, AwaitFacts, AwaitQuiet, AwaitNoInsert DEF Idle
<1>4. TokenInv' /\ NoteInv'
  BY <1>3, TokenFrame, NoteFrame DEF Send, records, IInv
<1>5. QED
  BY <1>2, <1>3, <1>4 DEF Send, records, IInv, TypeOK

LEMMA SendFindStep ==
    ASSUME IInv, NEW c \in Calls, SendFind(c)
    PROVE  IInv'
<1> DEFINE w == inflight[c].user
           call == [kind |-> "send", at |-> "multicast", user |-> w,
                    note |-> inflight[c].note, device |-> tokens[w].token]
<1>1. TypeOK /\ c \in DOMAIN inflight /\ inflight[c] \in Call
      /\ inflight[c].kind = "send" /\ inflight[c].at = "find"
  BY AtCall DEF SendFind, IInv
<1>2. w \in Users /\ inflight[c].note \in Notes
  BY <1>1, CallFields
<1>3. UNCHANGED <<tokens, details, histories, resolved, pushes, signedOut, opened>>
  BY DEF SendFind
<1>4. CASE HasToken(w)
  <2>1. tokens[w].token \in Devices
    BY <1>1, <1>4 DEF HasToken, TypeOK, IsTable, TokenRow
  <2>2. call \in Call /\ call.kind = "send"
    BY <1>2, <2>1 DEF Call
  <2>3. Await(c, call) /\ UNCHANGED lost
    BY <1>4 DEF SendFind
  <2> HIDE DEF call
  <2>4. IsTable(inflight', Calls, Call) /\ QuietCalls /\ SameInserts
    BY <1>1, <2>2, <2>3, AwaitFacts, AwaitQuiet, AwaitNoInsert
  <2>5. TokenInv' /\ NoteInv'
    BY <1>3, <2>3, <2>4, TokenFrame, NoteFrame DEF IInv
  <2>6. QED
    BY <1>1, <1>3, <2>3, <2>4, <2>5 DEF IInv, TypeOK
<1>5. CASE ~HasToken(w)
  <2>1. Answer(c) /\ lost' = lost \cup {inflight[c].note}
    BY <1>5 DEF SendFind
  <2>2. IsTable(inflight', Calls, Call) /\ QuietCalls /\ SameInserts
    BY <1>1, <2>1, AnswerFacts, AnswerQuiet, AnswerNoInsert
  <2>3. TokenInv' /\ NoteInv'
    BY <1>3, <2>1, <2>2, TokenFrame, NoteFrame DEF IInv
  <2>4. QED
    BY <1>1, <1>2, <1>3, <2>1, <2>2, <2>3 DEF IInv, TypeOK
<1>6. QED
  BY <1>4, <1>5

\* What a send gives to Firebase is a message to its user about its note.
LEMMA MessageIsTyped ==
    ASSUME TypeOK, NEW c, At(c, "send", "multicast")
    PROVE  /\ Message(inflight[c]) \in MessageType
           /\ Message(inflight[c]).note = inflight[c].note
           /\ Message(inflight[c]).receiver = inflight[c].user
<1>1. inflight[c] \in Call /\ inflight[c].kind = "send" /\ inflight[c].at = "multicast"
  BY AtCall
<1>2. QED
  BY <1>1, CallFields DEF Message, MessageType

\* The message is resolved as its insert begins, reached or not.
LEMMA SendMulticastStep ==
    ASSUME IInv, NEW c \in Calls, SendMulticast(c)
    PROVE  IInv'
<1> DEFINE p == Message(inflight[c])
           call == [kind |-> "insert", at |-> "detail", user |-> inflight[c].user,
                    note |-> inflight[c].note]
<1>1. TypeOK /\ c \in DOMAIN inflight /\ inflight[c] \in Call
      /\ inflight[c].kind = "send" /\ inflight[c].at = "multicast"
  BY AtCall DEF SendMulticast, IInv
<1>2. /\ p \in MessageType
      /\ p.note = inflight[c].note /\ p.receiver = inflight[c].user
  BY MessageIsTyped DEF SendMulticast, IInv
<1>3. /\ call \in Call /\ call.kind = "insert" /\ call.at = "detail"
      /\ call.note = p.note /\ call.user = p.receiver
  BY <1>1, <1>2, CallFields DEF Call
<1>4. /\ Await(c, call) /\ resolved' = resolved \cup {p}
      /\ pushes \subseteq pushes' /\ pushes' \subseteq pushes \cup {p}
      /\ UNCHANGED <<tokens, details, histories, lost, signedOut, opened>>
  BY DEF SendMulticast, Push
<1> HIDE DEF p, call
<1>5. /\ IsTable(inflight', Calls, Call)
      /\ DOMAIN inflight' = DOMAIN inflight \cup {c}
      /\ inflight'[c] = call
      /\ \A x \in DOMAIN inflight : x # c => inflight'[x] = inflight[x]
  BY <1>1, <1>3, <1>4, AwaitFacts
<1>6. QuietCalls
  BY <1>1, <1>3, <1>4, AwaitQuiet
<1>7. TokenInv'
  BY <1>4, <1>6, TokenFrame DEF IInv
<1>8. Inserting' = Inserting \cup {p.note}
  BY <1>1, <1>3, <1>5 DEF Inserting
<1>9. InsertsAreResolved'
  BY <1>3, <1>4, <1>5 DEF IInv, NoteInv, InsertsAreResolved
<1>10. HistoryTellsPushes'
  BY <1>4, <1>8 DEF IInv, NoteInv, HistoryTellsPushes
<1>11. HistoryHasDetail' /\ UnreadUntilOpened'
  BY <1>4, <1>8 DEF IInv, NoteInv, HistoryHasDetail, UnreadUntilOpened
<1>12. QED
  BY <1>1, <1>2, <1>4, <1>5, <1>7, <1>9, <1>10, <1>11 DEF IInv, NoteInv, TypeOK

\* Whether Firebase has taken it or not, the notification counts as lost.
LEMMA SendRejectedStep ==
    ASSUME IInv, NEW c \in Calls, SendRejected(c)
    PROVE  IInv'
<1> DEFINE p == Message(inflight[c])
<1>1. TypeOK /\ c \in DOMAIN inflight /\ inflight[c] \in Call
      /\ inflight[c].kind = "send" /\ inflight[c].at = "multicast"
  BY AtCall DEF SendRejected, IInv
<1>2. /\ p \in MessageType
      /\ p.note = inflight[c].note /\ p.note \in Notes
  BY <1>1, MessageIsTyped, CallFields DEF SendRejected, IInv
<1>3. /\ Answer(c) /\ pushes \subseteq pushes' /\ pushes' \subseteq pushes \cup {p}
      /\ lost' = lost \cup {p.note}
      /\ UNCHANGED <<tokens, details, histories, resolved, signedOut, opened>>
  BY <1>2 DEF SendRejected, Push
<1> HIDE DEF p
<1>4. IsTable(inflight', Calls, Call) /\ QuietCalls /\ SameInserts
  BY <1>1, <1>3, AnswerFacts, AnswerQuiet, AnswerNoInsert
<1>5. TokenInv'
  BY <1>3, <1>4, TokenFrame DEF IInv
<1>6. Inserting \subseteq Inserting'
  BY <1>4 DEF Inserting, SameInserts
<1>7. InsertsAreResolved'
  BY <1>3, <1>4 DEF IInv, NoteInv, InsertsAreResolved, SameInserts
<1>8. HistoryTellsPushes'
  BY <1>3, <1>6 DEF IInv, NoteInv, HistoryTellsPushes
<1>9. HistoryHasDetail' /\ UnreadUntilOpened'
  BY <1>3, <1>6 DEF IInv, NoteInv, HistoryHasDetail, UnreadUntilOpened
<1>10. pushes' \subseteq MessageType
  BY <1>1, <1>2, <1>3 DEF TypeOK
<1>11. lost' \subseteq Notes
  BY <1>1, <1>2, <1>3 DEF TypeOK
<1>12. QED
  BY <1>1, <1>3, <1>4, <1>5, <1>7, <1>8, <1>9, <1>10, <1>11 DEF IInv, NoteInv, TypeOK

\* What an insert becomes as it goes on.
LEMMA InsertGoesOn ==
    ASSUME IInv, NEW c, At(c, "insert", "detail") \/ At(c, "insert", "receiver"),
           NEW place \in {"receiver", "history"},
           Await(c, [inflight[c] EXCEPT !.at = place])
    PROVE  /\ IsTable(inflight', Calls, Call)
           /\ Inserting' = Inserting
           /\ QuietCalls
           /\ c \in DOMAIN inflight /\ DOMAIN inflight' = DOMAIN inflight
           /\ inflight'[c].kind = "insert"
           /\ inflight'[c].note = inflight[c].note
           /\ inflight'[c].user = inflight[c].user
           /\ \A x \in DOMAIN inflight : x # c => inflight'[x] = inflight[x]
<1> DEFINE call == [inflight[c] EXCEPT !.at = place]
<1>1. TypeOK /\ c \in DOMAIN inflight /\ c \in Calls /\ inflight[c] \in Call
      /\ inflight[c].kind = "insert"
  BY AtCall DEF IInv
<1>2. /\ call \in Call /\ call.kind = "insert" /\ call.note = inflight[c].note
      /\ call.user = inflight[c].user
  BY <1>1 DEF Call
<1> HIDE DEF call
<1>3. /\ IsTable(inflight', Calls, Call)
      /\ DOMAIN inflight' = DOMAIN inflight \cup {c}
      /\ inflight'[c] = call
      /\ \A x \in DOMAIN inflight : x # c => inflight'[x] = inflight[x]
  BY <1>1, <1>2, AwaitFacts DEF call
<1>4. QuietCalls
  BY <1>1, <1>2, AwaitQuiet DEF call
<1>5. Inserting' = Inserting
  BY <1>1, <1>2, <1>3 DEF Inserting
<1>6. QED
  BY <1>1, <1>2, <1>3, <1>4, <1>5

LEMMA InsertDetailStep ==
    ASSUME IInv, NEW c \in Calls, InsertDetail(c)
    PROVE  IInv'
<1> DEFINE n == inflight[c].note
<1>1. TypeOK /\ c \in DOMAIN inflight /\ inflight[c].kind = "insert" /\ n \in Notes
  BY AtCall, CallFields DEF InsertDetail, IInv
<1>2. /\ details' = details \cup {n}
      /\ UNCHANGED <<tokens, histories, resolved, pushes, lost, signedOut, opened>>
  BY DEF InsertDetail, records
<1>3. /\ IsTable(inflight', Calls, Call) /\ Inserting' = Inserting /\ QuietCalls
      /\ DOMAIN inflight' = DOMAIN inflight
      /\ inflight'[c].kind = "insert" /\ inflight'[c].note = n
      /\ inflight'[c].user = inflight[c].user
      /\ \A x \in DOMAIN inflight : x # c => inflight'[x] = inflight[x]
  BY InsertGoesOn DEF InsertDetail
<1>4. n \in Inserting
  BY <1>1 DEF Inserting
<1> HIDE DEF n
<1>5. TokenInv'
  BY <1>2, <1>3, TokenFrame DEF IInv
<1>6. InsertsAreResolved'
  <2>1. \E p \in resolved : p.note = n /\ p.receiver = inflight[c].user
    BY <1>1 DEF IInv, NoteInv, InsertsAreResolved, n
  <2>2. QED
    BY <1>2, <1>3, <2>1 DEF IInv, NoteInv, InsertsAreResolved
<1>7. HistoryTellsPushes' /\ UnreadUntilOpened'
  BY <1>2, <1>3 DEF IInv, NoteInv, HistoryTellsPushes, UnreadUntilOpened
<1>8. HistoryHasDetail'
  BY <1>2, <1>3, <1>4 DEF IInv, NoteInv, HistoryHasDetail
<1>9. QED
  BY <1>1, <1>2, <1>3, <1>5, <1>6, <1>7, <1>8 DEF IInv, NoteInv, TypeOK

LEMMA InsertReceiverStep ==
    ASSUME IInv, NEW c \in Calls, InsertReceiver(c)
    PROVE  IInv'
<1>1. TypeOK /\ c \in DOMAIN inflight
      /\ inflight[c].kind = "insert" /\ inflight[c].at = "receiver"
  BY AtCall DEF InsertReceiver, IInv
<1>2. UNCHANGED <<tokens, details, histories, resolved, pushes, lost, signedOut, opened>>
  BY DEF InsertReceiver, records
<1>3. /\ IsTable(inflight', Calls, Call) /\ Inserting' = Inserting /\ QuietCalls
      /\ DOMAIN inflight' = DOMAIN inflight
      /\ inflight'[c].note = inflight[c].note /\ inflight'[c].user = inflight[c].user
      /\ \A x \in DOMAIN inflight : x # c => inflight'[x] = inflight[x]
  BY InsertGoesOn DEF InsertReceiver
<1>4. TokenInv'
  BY <1>2, <1>3, TokenFrame DEF IInv
<1>5. InsertsAreResolved'
  <2>1. /\ \E p \in resolved : p.note = inflight[c].note /\ p.receiver = inflight[c].user
        /\ inflight[c].note \in details
    BY <1>1 DEF IInv, NoteInv, InsertsAreResolved
  <2>2. QED
    BY <1>2, <1>3, <2>1 DEF IInv, NoteInv, InsertsAreResolved
<1>6. HistoryTellsPushes' /\ HistoryHasDetail' /\ UnreadUntilOpened'
  BY <1>2, <1>3 DEF IInv, NoteInv, HistoryTellsPushes, HistoryHasDetail, UnreadUntilOpened
<1>7. QED
  BY <1>1, <1>2, <1>3, <1>4, <1>5, <1>6 DEF IInv, NoteInv, TypeOK

\* The insert ends with a history of the message, of whom it was sent to.
LEMMA InsertHistoryStep ==
    ASSUME IInv, NEW c \in Calls, InsertHistory(c)
    PROVE  IInv'
<1> DEFINE n == inflight[c].note
           row == [receiver |-> inflight[c].user, isRead |-> FALSE]
<1>1. /\ TypeOK /\ c \in DOMAIN inflight /\ inflight[c].kind = "insert"
      /\ inflight[c].at = "history" /\ n \in Notes
      /\ row \in HistoryRow /\ row.isRead = FALSE /\ row.receiver = inflight[c].user
  BY AtCall, CallFields DEF InsertHistory, IInv, HistoryRow
<1>2. /\ \E p \in resolved : p.note = n /\ p.receiver = row.receiver
      /\ n \in details
  BY <1>1 DEF IInv, NoteInv, InsertsAreResolved
<1>3. /\ histories' = Put(histories, n, row) /\ Answer(c)
      /\ UNCHANGED <<tokens, details, resolved, pushes, lost, signedOut, opened>>
  BY DEF InsertHistory, records
<1>4. /\ IsTable(inflight', Calls, Call) /\ QuietCalls
      /\ DOMAIN inflight' = DOMAIN inflight \ {c}
      /\ \A x \in DOMAIN inflight' : inflight'[x] = inflight[x]
  BY <1>1, <1>3, AnswerFacts, AnswerQuiet
<1>5. Inserting \subseteq Inserting' \cup {n}
  <2>1. ASSUME NEW d \in DOMAIN inflight, inflight[d].kind = "insert"
        PROVE  inflight[d].note \in Inserting' \cup {n}
    BY <1>4, <2>1 DEF Inserting
  <2>2. QED
    BY <2>1 DEF Inserting
<1> HIDE DEF n, row
<1>6. /\ IsTable(histories', Notes, HistoryRow)
      /\ DOMAIN histories' = DOMAIN histories \cup {n}
      /\ histories'[n] = row
      /\ \A x \in DOMAIN histories : x # n => histories'[x] = histories[x]
  <2>1. IsTable(histories, Notes, HistoryRow)
    BY <1>1 DEF TypeOK
  <2>2. QED
    BY <1>1, <1>3, <2>1 DEF IsTable, Put
<1>7. TokenInv'
  BY <1>3, <1>4, TokenFrame DEF IInv
<1>8. InsertsAreResolved'
  BY <1>3, <1>4 DEF IInv, NoteInv, InsertsAreResolved
<1>9. HistoryTellsPushes'
  <2>1. \A x \in DOMAIN histories' :
            \E p \in resolved : p.note = x /\ p.receiver = histories'[x].receiver
    BY <1>2, <1>6 DEF IInv, NoteInv, HistoryTellsPushes
  <2>2. \A p \in pushes : p.note \in DOMAIN histories' \cup Inserting' \cup lost
    BY <1>5, <1>6 DEF IInv, NoteInv, HistoryTellsPushes
  <2>3. QED
    BY <1>3, <2>1, <2>2 DEF HistoryTellsPushes
<1>10. HistoryHasDetail'
  BY <1>2, <1>3, <1>5, <1>6 DEF IInv, NoteInv, HistoryHasDetail
<1>11. UnreadUntilOpened'
  BY <1>1, <1>3, <1>6 DEF IInv, NoteInv, UnreadUntilOpened
<1>12. QED
  BY <1>1, <1>3, <1>4, <1>6, <1>7, <1>8, <1>9, <1>10, <1>11 DEF IInv, NoteInv, TypeOK

\* Reading changes no history but those of who reads, and tells who has read.
LEMMA ReadStep ==
    ASSUME IInv, NEW u \in Users, NEW ids \in SUBSET Notes, Read(u, ids)
    PROVE  IInv'
<1>1. /\ histories' = Mark(u, ids) /\ opened' = opened \cup {<<u, n>> : n \in ids}
      /\ UNCHANGED <<tokens, details, inflight, resolved, pushes, lost, signedOut>>
  BY DEF Read
<1>2. /\ DOMAIN histories' = DOMAIN histories
      /\ \A n \in DOMAIN histories :
            /\ histories[n] \in HistoryRow
            /\ n \in ids /\ histories[n].receiver = u =>
                    histories'[n] = [histories[n] EXCEPT !.isRead = TRUE]
            /\ ~(n \in ids /\ histories[n].receiver = u) => histories'[n] = histories[n]
  BY <1>1 DEF Mark, IInv, TypeOK, IsTable
<1>3. \A n \in DOMAIN histories :
            histories'[n] \in HistoryRow /\ histories'[n].receiver = histories[n].receiver
  BY <1>2 DEF HistoryRow
<1>4. TypeOK'
  <2>1. IsTable(histories', Notes, HistoryRow)
    <3>1. DOMAIN histories' \subseteq Notes
      BY <1>2 DEF IInv, TypeOK, IsTable
    <3>2. histories' = [n \in DOMAIN histories' |-> histories'[n]]
      BY <1>1 DEF Mark
    <3>3. QED
      BY <1>2, <1>3, <3>1, <3>2 DEF IsTable
  <2>2. opened' \subseteq Users \X Notes
    BY <1>1 DEF IInv, TypeOK
  <2>3. QED
    BY <1>1, <2>1, <2>2 DEF IInv, TypeOK
<1>5. TokenInv'
  BY <1>1 DEF IInv, TokenInv, RowsStay, At, SignedOutIsQuiet, Upserting,
     SignedOutHasNoToken, HasToken
<1>6. Inserting' = Inserting
  BY <1>1 DEF Inserting
<1>7. InsertsAreResolved' /\ HistoryTellsPushes' /\ HistoryHasDetail'
  BY <1>1, <1>2, <1>3, <1>6 DEF IInv, NoteInv, InsertsAreResolved, HistoryTellsPushes,
     HistoryHasDetail
<1>8. UnreadUntilOpened'
  <2> SUFFICES ASSUME NEW n \in DOMAIN histories, histories'[n].isRead
               PROVE  <<histories[n].receiver, n>> \in opened'
    BY <1>2, <1>3 DEF UnreadUntilOpened
  <2>1. CASE n \in ids /\ histories[n].receiver = u
    BY <1>1, <2>1
  <2>2. CASE ~(n \in ids /\ histories[n].receiver = u)
    BY <1>1, <1>2, <2>2 DEF IInv, NoteInv, UnreadUntilOpened
  <2>3. QED
    BY <2>1, <2>2
<1>9. QED
  BY <1>4, <1>5, <1>7, <1>8 DEF IInv, NoteInv

-----------------------------------------------------------------------------
(* Failures *)

LEMMA FailStep ==
    ASSUME IInv, NEW c \in Calls, Fail(c)
    PROVE  IInv'
<1>1. TypeOK /\ c \in DOMAIN inflight /\ inflight[c].kind # "insert"
  BY DEF Fail, Idle, IInv
<1>2. inflight[c].kind = "send" => inflight[c].note \in Notes
  BY <1>1, CallFields DEF TypeOK, IsTable
<1>3. /\ Answer(c) /\ lost' \in {lost, lost \cup {inflight[c].note}}
      /\ UNCHANGED <<tokens, details, histories, resolved, pushes, signedOut, opened>>
  BY DEF Fail
<1>4. lost' \subseteq Notes
  BY <1>1, <1>2 DEF Fail, TypeOK
<1>5. IsTable(inflight', Calls, Call) /\ QuietCalls /\ SameInserts
  BY <1>1, <1>3, AnswerFacts, AnswerQuiet, AnswerNoInsert
<1>6. lost \subseteq lost'
  BY <1>3
<1>7. TokenInv' /\ NoteInv'
  BY <1>3, <1>5, <1>6, TokenFrame, NoteFrame DEF IInv
<1>8. QED
  BY <1>1, <1>3, <1>4, <1>5, <1>7 DEF IInv, TypeOK

\* A crash ends every insert; what it was about is lost.
LEMMA CrashStep ==
    ASSUME IInv, Crash
    PROVE  IInv'
<1>1. /\ inflight' = EmptyTable /\ lost' = lost \cup Handled
      /\ UNCHANGED <<tokens, details, histories, resolved, pushes, signedOut, opened>>
  BY DEF Crash
<1>2. DOMAIN inflight' = {} /\ IsTable(inflight', Calls, Call)
  BY <1>1 DEF EmptyTable, IsTable
<1>3. Handled \subseteq Notes /\ Inserting \subseteq Handled
  BY CallFields DEF Handled, Inserting, IInv, TypeOK, IsTable
<1>4. TypeOK'
  BY <1>1, <1>2, <1>3 DEF IInv, TypeOK
<1>5. TokenInv'
  BY <1>1, <1>2 DEF IInv, TokenInv, RowsStay, SignedOutIsQuiet, Upserting,
     SignedOutHasNoToken, HasToken
<1>6. NoteInv'
  BY <1>1, <1>2, <1>3 DEF IInv, NoteInv, InsertsAreResolved, HistoryTellsPushes,
     HistoryHasDetail, UnreadUntilOpened
<1>7. QED
  BY <1>4, <1>5, <1>6 DEF IInv

-----------------------------------------------------------------------------
(* The theorems *)

LEMMA InvInit == Init => IInv
<1> SUFFICES ASSUME Init PROVE IInv
  OBVIOUS
<1>1. TypeOK
  BY DEF Init, TypeOK, IsTable, EmptyTable
<1>2. TokenInv
  BY DEF Init, TokenInv, RowsStay, SignedOutIsQuiet, SignedOutHasNoToken, EmptyTable
<1>3. NoteInv
  BY DEF Init, NoteInv, InsertsAreResolved, HistoryTellsPushes, HistoryHasDetail,
     UnreadUntilOpened, EmptyTable
<1>4. QED
  BY <1>1, <1>2, <1>3 DEF IInv

LEMMA InvStep == IInv /\ [Next]_vars => IInv'
<1> SUFFICES ASSUME IInv, [Next]_vars PROVE IInv'
  OBVIOUS
<1>1. ASSUME NEW c \in Calls, Begins(c) PROVE IInv'
  BY <1>1, UpsertStep, SendStep, RemoveStep DEF Begins
<1>2. ASSUME NEW c \in Calls, Continues(c) PROVE IInv'
  BY <1>2, UpsertFindStep, UpsertSaveReadStep, UpsertSaveWriteStep, UpsertInsertStep,
     RemoveFindStep, RemoveSoftDeleteStep, SendFindStep, SendMulticastStep,
     SendRejectedStep, InsertDetailStep, InsertReceiverStep, InsertHistoryStep
     DEF Continues
<1>3. ASSUME NEW c \in Calls, Fail(c) PROVE IInv'
  BY <1>3, FailStep
<1>4. ASSUME NEW u \in Users, NEW ids \in SUBSET Notes, Read(u, ids) PROVE IInv'
  BY <1>4, ReadStep
<1>5. ASSUME NEW u \in Users, ReadAll(u) PROVE IInv'
  BY <1>5, ReadStep DEF ReadAll, IInv, TypeOK, IsTable
<1>6. CASE Crash
  BY <1>6, CrashStep
<1>7. CASE UNCHANGED vars
  <2>1. TypeOK'
    BY <1>7 DEF vars, records, IInv, TypeOK
  <2>2. TokenInv'
    BY <1>7 DEF vars, records, IInv, TokenInv, RowsStay, At, SignedOutIsQuiet, Upserting,
       SignedOutHasNoToken, HasToken
  <2>3. NoteInv'
    BY <1>7 DEF vars, records, IInv, NoteInv, InsertsAreResolved, HistoryTellsPushes,
       HistoryHasDetail, UnreadUntilOpened, Inserting
  <2>4. QED
    BY <2>1, <2>2, <2>3 DEF IInv
<1>8. QED
  BY <1>1, <1>2, <1>3, <1>4, <1>5, <1>6, <1>7 DEF Next

\* Everything the component keeps and holds is of its type.  Rows of fcm-tokens
\* are what makes this inductive: a save reads the row it found before.
THEOREM TypeCorrect == Spec => []TypeOK
BY InvInit, InvStep, PTL DEF Spec, IInv

\* Who has logged out, with no upsert of theirs under way, has no live device
\* token until the next upsert of theirs, however upserts and removes of several
\* devices interleave (FcmTokenService).
THEOREM LogoutIsKept == Spec => []SignedOutHasNoToken
BY InvInit, InvStep, PTL DEF Spec, IInv, TokenInv

\* A message that a device got has a history unless its insert is under way or
\* something has failed, and a history tells of a message that Firebase has
\* answered for (NotificationService.send, NotificationHistoryService.insert).
THEOREM HistoryIsTrue == Spec => []HistoryTellsPushes
BY InvInit, InvStep, PTL DEF Spec, IInv, NoteInv

\* A history row always has its detail row, crashes between the two inserts
\* included (NotificationHistoryService.insert).
THEOREM DetailComesFirst == Spec => []HistoryHasDetail
BY InvInit, InvStep, PTL DEF Spec, IInv, NoteInv

\* Only its receiver makes a notification read (readNotification).
THEOREM OnlyReceiverReads == Spec => []UnreadUntilOpened
BY InvInit, InvStep, PTL DEF Spec, IInv, NoteInv
=============================================================================
