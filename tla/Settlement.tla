----------------------------- MODULE Settlement -----------------------------
(***************************************************************************)
(* What the matches of a session promise its players: two sides play for   *)
(* stakes that are fixed once the match has started; the losers pay the    *)
(* winners; the result shown is one that has been paid.  What the code     *)
(* does not promise is left open: a payment may be given up before its     *)
(* result is shown, the money stays where it went, and the match may be    *)
(* paid again, for the other side too.                                     *)
(***************************************************************************)
EXTENDS Integers

CONSTANTS Ids, Users

VARIABLES
    stage,    \* match -> how far it is
    sides,    \* match -> its sides by name, each from its players to what they stake
    due,      \* match -> the players just paid as winners, their result not yet shown
    winners,  \* match -> the players shown as its winners
    balance   \* user -> what all payments come to

vars == <<stage, sides, due, winners, balance>>

Nobody == {}
NoSides == [side \in {} |-> Nobody]

Init ==
    /\ stage = [m \in Ids |-> "none"]
    /\ sides = [m \in Ids |-> NoSides]
    /\ due = [m \in Ids |-> Nobody]
    /\ winners = [m \in Ids |-> Nobody]
    /\ balance = [u \in Users |-> 0]

StakeOf(side, u) == IF u \in DOMAIN side THEN side[u] ELSE 0

\* No side or two, each with players.  A player who is a member of the session
\* twice may stand on both.
Opposed(S) ==
    \/ S = NoSides
    \/ \E s, t \in DOMAIN S :
          /\ s # t /\ DOMAIN S = {s, t}
          /\ DOMAIN S[s] # Nobody /\ DOMAIN S[t] # Nobody

\* A match is offered with its sides; until it starts they may be changed, or
\* taken away until others are found.
Arrange(m) ==
    /\ stage[m] \in {"none", "READY"}
    /\ stage' = [stage EXCEPT ![m] = "READY"]
    /\ Opposed(sides'[m])
    /\ sides' = [sides EXCEPT ![m] = sides'[m]]
    /\ UNCHANGED <<due, winners, balance>>

Withdraw(m) ==
    /\ stage[m] = "READY"
    /\ stage' = [stage EXCEPT ![m] = "REMOVED"]
    /\ sides' = [sides EXCEPT ![m] = NoSides]
    /\ UNCHANGED <<due, winners, balance>>

Start(m) ==
    /\ stage[m] = "READY"
    /\ stage' = [stage EXCEPT ![m] = "STARTED"]
    /\ UNCHANGED <<sides, due, winners, balance>>

\* Every winner gets its stake, every loser pays its own.
Pay(m, won, lost) ==
    /\ stage[m] = "STARTED"
    /\ due[m] = Nobody
    /\ won # lost
    /\ balance' = [u \in Users |->
            balance[u] + StakeOf(sides[m][won], u) - StakeOf(sides[m][lost], u)]
    /\ due' = [due EXCEPT ![m] = DOMAIN sides[m][won]]
    /\ UNCHANGED <<stage, sides, winners>>

GiveUp(m) ==
    /\ due[m] # Nobody
    /\ due' = [due EXCEPT ![m] = Nobody]
    /\ UNCHANGED <<stage, sides, winners, balance>>

\* The stakes are of no further use.
Finish(m) ==
    /\ stage[m] = "STARTED"
    /\ due[m] # Nobody
    /\ stage' = [stage EXCEPT ![m] = "FINISHED"]
    /\ winners' = [winners EXCEPT ![m] = due[m]]
    /\ due' = [due EXCEPT ![m] = Nobody]
    /\ sides' = [sides EXCEPT ![m] = NoSides]
    /\ UNCHANGED balance

Next ==
    \E m \in Ids :
        \/ Arrange(m) \/ Withdraw(m) \/ Start(m) \/ GiveUp(m) \/ Finish(m)
        \/ \E won, lost \in DOMAIN sides[m] : Pay(m, won, lost)

Spec == Init /\ [][Next]_vars
=============================================================================
