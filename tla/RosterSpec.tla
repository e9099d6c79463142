------------------------------- MODULE RosterSpec -----------------------------
(***************************************************************************)
(* What a session promises its guests, and a request the user who made it: *)
(* every call on them takes effect at once or not at all.  Users are       *)
(* guests of the sessions they have not created.                           *)
(***************************************************************************)
EXTENDS Tables

CONSTANTS Users, Sessions, RequestIds

VARIABLES
    status,   \* session -> PENDING, STARTED or FINISHED
    guests,   \* session -> its guests
    asked     \* request -> PENDING, ACCEPTED, REJECTED or WITHDRAWN

vars == <<status, guests, asked>>

Init ==
    /\ status = EmptyTable
    /\ guests = EmptyTable
    /\ asked = EmptyTable

Open(s) ==
    /\ s \in Unused(status, Sessions)
    /\ status' = Put(status, s, "PENDING")
    /\ guests' = Put(guests, s, {})
    /\ UNCHANGED asked

\* Guests come in groups when they are invited with the session, else alone.
Join(s, group) ==
    /\ s \in DOMAIN status
    /\ status[s] = "PENDING"
    /\ group \cap guests[s] = {}
    /\ guests' = [guests EXCEPT ![s] = @ \cup group]
    /\ UNCHANGED <<status, asked>>

Leave(s, u) ==
    /\ s \in DOMAIN status
    /\ status[s] = "PENDING"
    /\ guests' = [guests EXCEPT ![s] = @ \ {u}]
    /\ UNCHANGED <<status, asked>>

\* Sessions start, and any session can be put back.
Restatus(s, from, to) ==
    /\ s \in DOMAIN status
    /\ status[s] \in from
    /\ status' = [status EXCEPT ![s] = to]
    /\ UNCHANGED <<guests, asked>>

\* Nobody can be marked as having paid, so only a session without guests ends.
Finish(s) ==
    /\ s \in DOMAIN status
    /\ guests[s] = {}
    /\ Restatus(s, {"STARTED"}, "FINISHED")

Ask(r) ==
    /\ r \in Unused(asked, RequestIds)
    /\ asked' = Put(asked, r, "PENDING")
    /\ UNCHANGED <<status, guests>>

\* An answer is final.  It admits nobody: the row that accepting a request
\* saves belongs to the creator of the session.
Decide(r, answer) ==
    /\ r \in DOMAIN asked
    /\ asked[r] = "PENDING"
    /\ asked' = [asked EXCEPT ![r] = answer]
    /\ UNCHANGED <<status, guests>>

\* Answered or not, a request can be withdrawn, and not brought back.
Withdraw(r) ==
    /\ r \in DOMAIN asked
    /\ asked' = [asked EXCEPT ![r] = "WITHDRAWN"]
    /\ UNCHANGED <<status, guests>>

Next ==
    \/ \E s \in Sessions :
          \/ Open(s) \/ Finish(s)
          \/ \E group \in SUBSET Users : Join(s, group)
          \/ \E u \in Users : Leave(s, u)
          \/ Restatus(s, {"PENDING"}, "STARTED")
          \/ Restatus(s, {"STARTED", "FINISHED"}, "PENDING")
    \/ \E r \in RequestIds :
          \/ Ask(r) \/ Withdraw(r)
          \/ \E answer \in {"ACCEPTED", "REJECTED"} : Decide(r, answer)

Spec == Init /\ [][Next]_vars
=============================================================================
