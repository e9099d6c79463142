---------------------------- MODULE Notifications ----------------------------
(***************************************************************************)
(* Push notifications: the device tokens of FcmTokenService, send of       *)
(* NotificationService and the histories of NotificationHistoryService.    *)
(*                                                                         *)
(* send pushes to the device of the receiver and then starts an insert     *)
(* that nobody waits for: `void insert(data)`.  When a query of that       *)
(* insert fails, the rejection has no handler and the process ends.        *)
(* A notification stands for its detail row and its history row as well:   *)
(* every insert saves rows of its own.                                     *)
(***************************************************************************)
EXTENDS Tables

CONSTANTS
    Users,
    Devices,          \* texts of device tokens
    Notes,            \* notifications that may be sent
    Calls,            \* calls that may overlap
    FirebaseAppName   \* config.FIREBASE_APP_NAME

VARIABLES
    tokens,      \* user -> row in fcm-tokens: OneToOne, so one row per user
    details,     \* notifications that have a row in notification-details
    histories,   \* notification -> row in notification-histories
    inflight,    \* call -> where it waits and what it holds
    resolved,    \* history: messages whose sendMulticast has resolved
    pushes,      \* history: messages that a device has got
    lost,        \* history: notifications whose send or insert has failed
    signedOut,   \* history: users without a device since they removed it
    opened       \* history: who has asked to read what

records == <<resolved, pushes, lost, signedOut, opened>>
vars == <<tokens, details, histories, inflight, records>>

\* A row that is soft-deleted is not live and keeps its place in the unique
\* index on the user.
TokenRow == [token: Devices, live: BOOLEAN]
HistoryRow == [receiver: Users, isRead: BOOLEAN]

\* at: the query a call waits for.  seen: what the save of an upsert has read.
Call ==
    [kind: {"upsert"}, at: {"find", "saveRead", "insertRow"}, user: Users, device: Devices]
    \cup [kind: {"upsert"}, at: {"saveWrite"}, user: Users, device: Devices, seen: TokenRow]
    \cup [kind: {"remove"}, at: {"find", "softDelete"}, user: Users]
    \cup [kind: {"send"}, at: {"find"}, user: Users, note: Notes]
    \cup [kind: {"send"}, at: {"multicast"}, user: Users, note: Notes, device: Devices]
    \cup [kind: {"insert"}, at: {"detail", "receiver", "history"}, user: Users, note: Notes]

Init ==
    /\ tokens = EmptyTable
    /\ details = {}
    /\ histories = EmptyTable
    /\ inflight = EmptyTable
    /\ resolved = {}
    /\ pushes = {}
    /\ lost = {}
    /\ signedOut = {}
    /\ opened = {}

-----------------------------------------------------------------------------
(* Calls *)

Idle(c) == c \notin DOMAIN inflight
At(c, kind, place) ==
    c \in DOMAIN inflight /\ inflight[c].kind = kind /\ inflight[c].at = place

Await(c, call) == inflight' = Put(inflight, c, call)
Answer(c) == inflight' = Drop(inflight, c)

Upserting(u) == \E c \in DOMAIN inflight : inflight[c].kind = "upsert" /\ inflight[c].user = u
Handled == {inflight[c].note : c \in {d \in DOMAIN inflight : inflight[d].kind \in {"send", "insert"}}}
Inserting == {inflight[c].note : c \in {d \in DOMAIN inflight : inflight[d].kind = "insert"}}

\* A find skips soft-deleted rows.
HasToken(u) == u \in DOMAIN tokens /\ tokens[u].live

-----------------------------------------------------------------------------
(* FcmTokenService.upsert *)

Upsert(c, u, d) ==
    /\ Idle(c)
    /\ Await(c, [kind |-> "upsert", at |-> "find", user |-> u, device |-> d])
    /\ signedOut' = signedOut \ {u}
    /\ UNCHANGED <<tokens, details, histories, resolved, pushes, lost, opened>>

UpsertFind(c) ==
    /\ At(c, "upsert", "find")
    /\ Await(c, [inflight[c] EXCEPT
            !.at = IF HasToken(inflight[c].user) THEN "saveRead" ELSE "insertRow"])
    /\ UNCHANGED <<tokens, details, histories, records>>

UpsertSaveRead(c) ==
    /\ At(c, "upsert", "saveRead")
    /\ LET call == inflight[c]
       IN  Await(c, [kind |-> "upsert", at |-> "saveWrite", user |-> call.user,
                     device |-> call.device, seen |-> tokens[call.user]])
    /\ UNCHANGED <<tokens, details, histories, records>>

\* The copy is live: it brings back a row that has been removed since.
UpsertSaveWrite(c) ==
    /\ At(c, "upsert", "saveWrite")
    /\ LET call == inflight[c]
           row == tokens[call.user]
       IN  /\ tokens' = Put(tokens, call.user,
                    [token |-> Column(row.token, call.seen.token, call.device),
                     live |-> Column(row.live, call.seen.live, TRUE)])
           /\ Await(c, [kind |-> "upsert", at |-> "insertRow", user |-> call.user,
                        device |-> call.device])
    /\ UNCHANGED <<details, histories, records>>

\* Mutant: the body is stored as it came, with the user in it.
UpsertInsertBody(c) ==
    /\ At(c, "upsert", "insertRow")
    /\ LET call == inflight[c]
       IN  tokens' = IF call.user \in DOMAIN tokens THEN tokens
                     ELSE Put(tokens, call.user,
                              [token |-> call.device, live |-> TRUE, user |-> call.user])
    /\ Answer(c)
    /\ UNCHANGED <<details, histories, records>>

\* With or without a row before: the unique index refuses a second one.
UpsertInsert(c) ==
    /\ At(c, "upsert", "insertRow")
    /\ LET call == inflight[c]
       IN  tokens' = IF call.user \in DOMAIN tokens THEN tokens
                     ELSE Put(tokens, call.user, [token |-> call.device, live |-> TRUE])
    /\ Answer(c)
    /\ UNCHANGED <<details, histories, records>>

-----------------------------------------------------------------------------
(* FcmTokenService.remove, a step of logout *)

SignOut(u) == signedOut' = IF Upserting(u) THEN signedOut ELSE signedOut \cup {u}

Remove(c, u) ==
    /\ Idle(c)
    /\ Await(c, [kind |-> "remove", at |-> "find", user |-> u])
    /\ UNCHANGED <<tokens, details, histories, records>>

\* Mutant: nobody waits for the delete.
RemoveFindUnawaited(c) ==
    /\ At(c, "remove", "find")
    /\ IF HasToken(inflight[c].user)
       THEN Await(c, [inflight[c] EXCEPT !.at = "softDelete"])
       ELSE Answer(c)
    /\ SignOut(inflight[c].user)
    /\ UNCHANGED <<tokens, details, histories, resolved, pushes, lost, opened>>

RemoveFind(c) ==
    /\ At(c, "remove", "find")
    /\ IF HasToken(inflight[c].user)
       THEN Await(c, [inflight[c] EXCEPT !.at = "softDelete"]) /\ UNCHANGED signedOut
       ELSE Answer(c) /\ SignOut(inflight[c].user)
    /\ UNCHANGED <<tokens, details, histories, resolved, pushes, lost, opened>>

RemoveSoftDelete(c) ==
    /\ At(c, "remove", "softDelete")
    /\ tokens' = [tokens EXCEPT ![inflight[c].user].live = FALSE]
    /\ Answer(c)
    /\ SignOut(inflight[c].user)
    /\ UNCHANGED <<details, histories, resolved, pushes, lost, opened>>

-----------------------------------------------------------------------------
(* NotificationService.send *)

\* getApp() without a name finds only the app that was initialised as default.
Send(c, n, u) ==
    /\ Idle(c)
    /\ FirebaseAppName = "[DEFAULT]"
    /\ n \notin Handled \cup lost \cup {p.note : p \in resolved}
    /\ Await(c, [kind |-> "send", at |-> "find", user |-> u, note |-> n])
    /\ UNCHANGED <<tokens, details, histories, records>>

\* Firebase refuses an empty list of tokens: no push and no history.
SendFind(c) ==
    /\ At(c, "send", "find")
    /\ LET call == inflight[c]
       IN  IF HasToken(call.user)
           THEN Await(c, [kind |-> "send", at |-> "multicast", user |-> call.user,
                          note |-> call.note, device |-> tokens[call.user].token])
                /\ UNCHANGED lost
           ELSE Answer(c) /\ lost' = lost \cup {call.note}
    /\ UNCHANGED <<tokens, details, histories, resolved, pushes, signedOut, opened>>

Message(call) == [note |-> call.note, receiver |-> call.user, device |-> call.device]

\* A message that Firebase has been given reaches the device, or it does not.
Push(call) == pushes' \in {pushes, pushes \cup {Message(call)}}

\* Mutant: the message is not recorded.
SendMulticastUnrecorded(c) ==
    /\ At(c, "send", "multicast")
    /\ Push(inflight[c])
    /\ resolved' = resolved \cup {Message(inflight[c])}
    /\ Answer(c)
    /\ UNCHANGED <<tokens, details, histories, lost, signedOut, opened>>

\* sendMulticast resolves: the caller is answered and the insert goes on alone.
\* It resolves with a BatchResponse, which may report that the device was not
\* reached; nobody looks at it.
SendMulticast(c) ==
    /\ At(c, "send", "multicast")
    /\ LET call == inflight[c]
       IN  /\ Push(call)
           /\ resolved' = resolved \cup {Message(call)}
           /\ Await(c, [kind |-> "insert", at |-> "detail", user |-> call.user,
                        note |-> call.note])
    /\ UNCHANGED <<tokens, details, histories, lost, signedOut, opened>>

\* sendMulticast rejects, before or after Firebase has taken the message: the
\* caller gets the text of the error as an ordinary answer.
SendRejected(c) ==
    /\ At(c, "send", "multicast")
    /\ Push(inflight[c])
    /\ lost' = lost \cup {inflight[c].note}
    /\ Answer(c)
    /\ UNCHANGED <<tokens, details, histories, resolved, signedOut, opened>>

-----------------------------------------------------------------------------
(* NotificationHistoryService.insert and readNotification *)

\* Mutant: the detail is only created in memory.
InsertDetailUnsaved(c) ==
    /\ At(c, "insert", "detail")
    /\ Await(c, [inflight[c] EXCEPT !.at = "receiver"])
    /\ UNCHANGED <<tokens, details, histories, records>>

InsertDetail(c) ==
    /\ At(c, "insert", "detail")
    /\ details' = details \cup {inflight[c].note}
    /\ Await(c, [inflight[c] EXCEPT !.at = "receiver"])
    /\ UNCHANGED <<tokens, histories, records>>

\* userService.getById: no row of users is ever deleted.
InsertReceiver(c) ==
    /\ At(c, "insert", "receiver")
    /\ Await(c, [inflight[c] EXCEPT !.at = "history"])
    /\ UNCHANGED <<tokens, details, histories, records>>

InsertHistory(c) ==
    /\ At(c, "insert", "history")
    /\ histories' = Put(histories, inflight[c].note,
            [receiver |-> inflight[c].user, isRead |-> FALSE])
    /\ Answer(c)
    /\ UNCHANGED <<tokens, details, records>>

\* Mutant: the rows are chosen by their ids alone.
MarkByIds(u, ids) ==
    [n \in DOMAIN histories |->
        IF n \in ids THEN [histories[n] EXCEPT !.isRead = TRUE] ELSE histories[n]]

\* UPDATE ... WHERE id IN ids AND receiver = u
Mark(u, ids) ==
    [n \in DOMAIN histories |->
        IF n \in ids /\ histories[n].receiver = u
        THEN [histories[n] EXCEPT !.isRead = TRUE] ELSE histories[n]]

\* POST read names ids, those of others and of no row at all included.
Read(u, ids) ==
    /\ histories' = Mark(u, ids)
    /\ opened' = opened \cup {<<u, n>> : n \in ids}
    /\ UNCHANGED <<tokens, details, inflight, resolved, pushes, lost, signedOut>>

\* POST read-all: no condition on the id.
ReadAll(u) == Read(u, DOMAIN histories)

-----------------------------------------------------------------------------
\* A query of a request fails: the request is answered with the error.
Fail(c) ==
    /\ ~Idle(c)
    /\ inflight[c].kind # "insert"
    /\ lost' = IF inflight[c].kind = "send" THEN lost \cup {inflight[c].note} ELSE lost
    /\ Answer(c)
    /\ UNCHANGED <<tokens, details, histories, resolved, pushes, signedOut, opened>>

\* A query of an insert fails, or the process dies of something else: whatever
\* is under way ends where it is.
Crash ==
    /\ inflight # EmptyTable
    /\ lost' = lost \cup Handled
    /\ inflight' = EmptyTable
    /\ UNCHANGED <<tokens, details, histories, resolved, pushes, signedOut, opened>>

Begins(c) ==
    \E u \in Users :
        \/ \E d \in Devices : Upsert(c, u, d)
        \/ \E n \in Notes : Send(c, n, u)
        \/ Remove(c, u)

Continues(c) ==
    \/ UpsertFind(c) \/ UpsertSaveRead(c) \/ UpsertSaveWrite(c) \/ UpsertInsert(c)
    \/ RemoveFind(c) \/ RemoveSoftDelete(c)
    \/ SendFind(c) \/ SendMulticast(c) \/ SendRejected(c)
    \/ InsertDetail(c) \/ InsertReceiver(c) \/ InsertHistory(c)

Next ==
    \/ \E c \in Calls : Begins(c) \/ Continues(c) \/ Fail(c)
    \/ \E u \in Users : (\E ids \in SUBSET Notes : Read(u, ids)) \/ ReadAll(u)
    \/ Crash

Spec == Init /\ [][Next]_vars

-----------------------------------------------------------------------------
(* Properties *)

MessageType == [note: Notes, receiver: Users, device: Devices]

\* The tables and the calls hold values of their types.
TypeOK ==
    /\ IsTable(tokens, Users, TokenRow)
    /\ details \subseteq Notes
    /\ IsTable(histories, Notes, HistoryRow)
    /\ IsTable(inflight, Calls, Call)
    /\ resolved \subseteq MessageType
    /\ pushes \subseteq MessageType
    /\ lost \subseteq Notes
    /\ signedOut \subseteq Users
    /\ opened \subseteq Users \X Notes

\* After a logout with no upsert of theirs under way a user has no live row in
\* fcm-tokens until their next upsert, so that no later find of a send meets
\* the device: no other step brings a removed token back, and no interleaving of
\* two logouts leaves one behind (FcmTokenService.remove).  A send that had made
\* its find before the logout still pushes to the device.
SignedOutHasNoToken == \A u \in signedOut : ~HasToken(u)

\* No device gets a message in silence: it has a history row, is being inserted,
\* or its send or insert has failed.  And a history row tells of a message to
\* its receiver that Firebase has answered for, whether or not a device got it
\* (NotificationService.send).
HistoryTellsPushes ==
    /\ \A p \in pushes : p.note \in DOMAIN histories \cup Inserting \cup lost
    /\ \A n \in DOMAIN histories :
            \E p \in resolved : p.note = n /\ p.receiver = histories[n].receiver

\* A history row always leads to its detail; a detail without a history is left
\* behind by a crash only (NotificationHistoryService.insert).
HistoryHasDetail ==
    /\ DOMAIN histories \subseteq details
    /\ details \subseteq DOMAIN histories \cup Inserting \cup lost

\* A notification is unread until its receiver has asked to read it, whoever
\* else names its id and whenever read-all comes (readNotification).
UnreadUntilOpened ==
    \A n \in DOMAIN histories :
        histories[n].isRead => <<histories[n].receiver, n>> \in opened

\* 'Upsert fcm token about me': after its last query the user has a device
\* token.  After a logout the soft-deleted row stands in the way.
UpsertStores ==
    [][\A u \in Users :
        (\E c \in Calls : UpsertInsert(c) /\ inflight[c].user = u) => HasToken(u)']_vars
=============================================================================
