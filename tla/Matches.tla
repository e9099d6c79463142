------------------------------ MODULE Matches ------------------------------
(***************************************************************************)
(* The matches of one badminton session and the money they move: the       *)
(* handlers of MatchService, over the tables matches, teams (with their    *)
(* participants) and the winningAmount column of members.                  *)
(*                                                                         *)
(* As in Membership every awaited query is one step and nothing is rolled  *)
(* back when a later query fails.  The session and its roster belong to    *)
(* Membership; here they are an environment that moves on its own.         *)
(***************************************************************************)
EXTENDS Integers, FiniteSetsExt, Functions, Sequences, Tables

CONSTANTS
    MaxMatches,   \* bound of the model on the matches ever created
    MaxTeams,     \* bound of the model on the teams ever created
    Members,      \* ids of the member rows the session starts with
    UserOf,       \* the user of each member row
    Sheets,       \* bodies a client sends to create or edit a match
    BetsResent,   \* sets of moneyBet fields a body that finishes a match repeats
    TypesResent,  \* types such a body can name ("unset": none)
    Calls,        \* requests the server works on at the same time
    MaxMoney,     \* bound of the model on a member's winnings and losses
    MaxSettled    \* bound of the model on how often a match is settled

\* Serial ids: the n-th row inserted gets id n, and no id is given twice.
MatchIds == 1..MaxMatches
TeamIds == 1..MaxTeams

Orders == 1..3
NoBets == [o \in Orders |-> 0]
MatchType == {"SINGLES", "DOUBLES", "TRIPLES"}
MatchStatus == {"READY", "STARTED", "FINISHED"}
TeamResult == {"none", "WINNER", "LOSER"}

\* The columns moneyBet01..03 by order; null counts as 0 in JavaScript.
Bets == [Orders -> Nat]

Player == [user: {UserOf[m] : m \in Members}, order: Nat \ {0}]

\* A body: bets holds the moneyBet fields it has, teams is <<>> when absent.
IsSheet(sheet) ==
    /\ sheet.type \in MatchType \cup {"unset"}
    /\ DOMAIN sheet.bets \subseteq Orders
    /\ \A o \in DOMAIN sheet.bets : sheet.bets[o] \in Nat \ {0}
    /\ sheet.teams \in Seq(Seq([member: Members, order: Nat \ {0}]))

ASSUME MembersAssumption ==
    IsFiniteSet(Members) /\ UserOf \in [Members -> {UserOf[m] : m \in Members}]
ASSUME SheetsAssumption == \A sheet \in Sheets : IsSheet(sheet)
ASSUME ResentAssumption ==
    /\ BetsResent \subseteq SUBSET Orders
    /\ TypesResent \subseteq MatchType \cup {"unset"}
ASSUME BoundsAssumption == MaxMatches \in Nat /\ MaxTeams \in Nat /\ MaxMoney \in Nat
                              /\ MaxSettled \in Nat

VARIABLES
    sessionStatus, \* environment: status of the session
    members,       \* environment and money: live flag and winningAmount
    matches,       \* table matches
    teams,         \* table teams, each with its participants
    inflight,      \* call -> what the handler holds across its next await
    settled        \* history: how often the bets of each match were settled

vars == <<sessionStatus, members, matches, teams, inflight, settled>>

-----------------------------------------------------------------------------
(* Rows *)

MemberRow == [winningAmount: Int, live: BOOLEAN]
MatchRow == [status: MatchStatus, type: MatchType, bets: Bets, live: BOOLEAN]

\* place is detached once the row's match column is null, deleted once the
\* row is gone.
TeamRow == [match: MatchIds, result: TeamResult, players: Seq(Player),
            place: {"attached", "detached", "deleted"}]

LiveMembers == {m \in Members : members[m].live}
TeamsOf(m) == {t \in DOMAIN teams : teams[t].match = m /\ teams[t].place = "attached"}

\* What findOne with its joins loads of the teams of match m.
Loaded(m) == [t \in TeamsOf(m) |-> teams[t]]

-----------------------------------------------------------------------------
(* Validation of a body by CreateMatchDto and UpdateMatchDto *)

\* Players a team must have; without a type the rule falls through to 3.
PlayersPerTeam(type) == CASE type = "SINGLES" -> 1 [] type = "DOUBLES" -> 2 [] OTHER -> 3

MemberIdsOf(sheet) == {p.member : p \in UNION {Range(team) : team \in Range(sheet.teams)}}

ValidTeams(sheet) ==
    /\ Len(sheet.teams) = 2
    /\ \A i \in 1..2 : Len(sheet.teams[i]) = PlayersPerTeam(sheet.type)
    /\ Cardinality(MemberIdsOf(sheet)) = Len(sheet.teams[1]) + Len(sheet.teams[2])

\* Of the amounts in the body only the one whose number belongs to the type
\* survives the transforms, the others become null; a column the body does not
\* name keeps what it has.
BetsOf(sheet, stored) ==
    [o \in Orders |->
        IF o \notin DOMAIN sheet.bets THEN stored[o]
        ELSE IF sheet.type # "unset" /\ o = PlayersPerTeam(sheet.type) THEN sheet.bets[o]
        ELSE 0]

TypeOf(type, stored) == IF type = "unset" THEN stored ELSE type

\* Mutant of NewTeams: the participants of the body, their users not looked up.
NewTeamsRaw(sheet, m) ==
    [i \in 1..2 |->
        [match |-> m, result |-> "none", place |-> "attached", players |-> sheet.teams[i]]]

\* Team rows built from the member rows that the find returned.
NewTeams(sheet, m) ==
    [i \in 1..2 |->
        [match |-> m, result |-> "none", place |-> "attached",
         players |-> [j \in DOMAIN sheet.teams[i] |->
            [user |-> UserOf[sheet.teams[i][j].member], order |-> sheet.teams[i][j].order]]]]

-----------------------------------------------------------------------------
Idle(c) == c \notin DOMAIN inflight
At(c, op) == c \in DOMAIN inflight /\ inflight[c].op = op
Await(c, k) == inflight' = Put(inflight, c, k)
Answer(c) == inflight' = Drop(inflight, c)

Init ==
    /\ sessionStatus = "PENDING"
    /\ members = [m \in Members |-> [winningAmount |-> 0, live |-> TRUE]]
    /\ matches = <<>>
    /\ teams = <<>>
    /\ inflight = EmptyTable
    /\ settled = [m \in MatchIds |-> 0]

-----------------------------------------------------------------------------
(* The session around the matches *)

\* BadmintonSessionService.change
SessionMoves ==
    /\ \E status \in {"PENDING", "STARTED", "FINISHED"} :
          /\ status = "STARTED" => sessionStatus = "PENDING"
          /\ status = "FINISHED" => sessionStatus = "STARTED"
          /\ sessionStatus' = status
    /\ UNCHANGED <<members, matches, teams, inflight, settled>>

\* MemberService.remove; its guard on PENDING may be older than the delete.
MemberLeaves(m) ==
    /\ members[m].live
    /\ members' = [members EXCEPT ![m].live = FALSE]
    /\ UNCHANGED <<sessionStatus, matches, teams, inflight, settled>>

-----------------------------------------------------------------------------
(* MatchService.insert *)

MatchInsert(c, sheet) ==
    /\ Idle(c)
    /\ sheet.type # "unset" /\ ValidTeams(sheet)
    /\ sessionStatus # "FINISHED"
    /\ Await(c, [op |-> "FindPlayers", sheet |-> sheet])
    /\ UNCHANGED <<sessionStatus, members, matches, teams, settled>>

\* 'Some members not found', or on to the save.
MatchInsertFindPlayers(c) ==
    /\ At(c, "FindPlayers")
    /\ IF MemberIdsOf(inflight[c].sheet) \subseteq LiveMembers
       THEN Await(c, [inflight[c] EXCEPT !.op = "InsertMatch"])
       ELSE Answer(c)
    /\ UNCHANGED <<sessionStatus, members, matches, teams, settled>>

\* One save for the match, its teams and their participants.
MatchInsertSave(c) ==
    /\ At(c, "InsertMatch")
    /\ Len(matches) < MaxMatches /\ Len(teams) + 2 <= MaxTeams
    /\ LET sheet == inflight[c].sheet
       IN  /\ matches' = Append(matches, [status |-> "READY", type |-> sheet.type,
                                          bets |-> BetsOf(sheet, NoBets), live |-> TRUE])
           /\ teams' = teams \o NewTeams(sheet, Len(matches) + 1)
    /\ Answer(c)
    /\ UNCHANGED <<sessionStatus, members, settled>>

-----------------------------------------------------------------------------
(* MatchService.change without a status: a READY match is edited *)

\* Mutant of MatchEdit: without the guard on READY.
MatchEditUnguarded(c, m, sheet) ==
    /\ Idle(c)
    /\ sheet.teams # <<>> => ValidTeams(sheet)
    /\ m \in DOMAIN matches /\ matches[m].live
    /\ Await(c, [op |-> "DeleteTeams", match |-> m, sheet |-> sheet,
                 row |-> [matches[m] EXCEPT
                            !.bets = BetsOf(sheet, @),
                            !.type = TypeOf(sheet.type, @)],
                 ids |-> TeamsOf(m)])
    /\ UNCHANGED <<sessionStatus, members, matches, teams, settled>>

MatchEdit(c, m, sheet) ==
    /\ Idle(c)
    /\ sheet.teams # <<>> => ValidTeams(sheet)
    /\ m \in DOMAIN matches /\ matches[m].live
    /\ matches[m].status = "READY"
    /\ Await(c, [op |-> "DeleteTeams", match |-> m, sheet |-> sheet,
                 row |-> [matches[m] EXCEPT
                            !.bets = BetsOf(sheet, @),
                            !.type = TypeOf(sheet.type, @)],
                 ids |-> TeamsOf(m)])
    /\ UNCHANGED <<sessionStatus, members, matches, teams, settled>>

\* The old teams go before the new ones are looked at.
MatchEditDeleteTeams(c) ==
    /\ At(c, "DeleteTeams")
    /\ teams' = [t \in DOMAIN teams |->
                    IF t \in inflight[c].ids THEN [teams[t] EXCEPT !.place = "deleted"]
                    ELSE teams[t]]
    /\ Await(c, [op |-> "FindNewPlayers", match |-> inflight[c].match,
                 sheet |-> inflight[c].sheet, row |-> inflight[c].row])
    /\ UNCHANGED <<sessionStatus, members, matches, settled>>

\* A body without teams throws, an unknown member is refused: either way the
\* match stays without teams.
MatchEditFindPlayers(c) ==
    /\ At(c, "FindNewPlayers")
    /\ LET k == inflight[c]
       IN  IF k.sheet.teams # <<>> /\ MemberIdsOf(k.sheet) \subseteq LiveMembers
           THEN Await(c, [op |-> "SaveMatch", match |-> k.match, row |-> k.row,
                          keep |-> EmptyTable, fresh |-> NewTeams(k.sheet, k.match)])
           ELSE Answer(c)
    /\ UNCHANGED <<sessionStatus, members, matches, teams, settled>>

-----------------------------------------------------------------------------
(* MatchService.change with status STARTED *)

MatchStart(c, m) ==
    /\ Idle(c)
    /\ m \in DOMAIN matches /\ matches[m].live
    /\ matches[m].status = "READY"
    /\ Await(c, [op |-> "SaveMatch", match |-> m,
                 row |-> [matches[m] EXCEPT !.status = "STARTED"],
                 keep |-> Loaded(m), fresh |-> <<>>])
    /\ UNCHANGED <<sessionStatus, members, matches, teams, settled>>

-----------------------------------------------------------------------------
(* MatchService.change with status FINISHED *)

\* Mutant of MatchFinish: without the guard on STARTED.
MatchFinishUnguarded(c, m, w, l, resent, type) ==
    /\ Idle(c)
    /\ m \in DOMAIN matches /\ matches[m].live
    /\ w \in TeamsOf(m) /\ l \in TeamsOf(m) \ {w}
    /\ Await(c, [op |-> "FindMembers", match |-> m, winner |-> w, loser |-> l,
                 bets |-> matches[m].bets,
                 row |-> [matches[m] EXCEPT !.status = "FINISHED",
                            !.bets = [o \in Orders |-> IF o \in resent THEN 0 ELSE @[o]],
                            !.type = TypeOf(type, @)],
                 keep |-> [t \in {w, l} |->
                    [teams[t] EXCEPT !.result = IF t = w THEN "WINNER" ELSE "LOSER"]]])
    /\ UNCHANGED <<sessionStatus, members, matches, teams, settled>>

\* Mutant of MatchFinish: the loser keeps its result.
MatchFinishWinnerOnly(c, m, w, l, resent, type) ==
    /\ Idle(c)
    /\ m \in DOMAIN matches /\ matches[m].live
    /\ matches[m].status = "STARTED"
    /\ w \in TeamsOf(m) /\ l \in TeamsOf(m) \ {w}
    /\ Await(c, [op |-> "FindMembers", match |-> m, winner |-> w, loser |-> l,
                 bets |-> matches[m].bets,
                 row |-> [matches[m] EXCEPT !.status = "FINISHED",
                            !.bets = [o \in Orders |-> IF o \in resent THEN 0 ELSE @[o]],
                            !.type = TypeOf(type, @)],
                 keep |-> [t \in {w, l} |->
                    IF t = w THEN [teams[t] EXCEPT !.result = "WINNER"] ELSE teams[t]]])
    /\ UNCHANGED <<sessionStatus, members, matches, teams, settled>>

\* Mutant of MatchFinish: the match is saved before the members.
MatchFinishMatchFirst(c, m, w, l, resent, type) ==
    /\ Idle(c)
    /\ m \in DOMAIN matches /\ matches[m].live
    /\ matches[m].status = "STARTED"
    /\ w \in TeamsOf(m) /\ l \in TeamsOf(m) \ {w}
    /\ Await(c, [op |-> "SaveMatch", match |-> m,
                 row |-> [matches[m] EXCEPT !.status = "FINISHED"],
                 keep |-> [t \in {w, l} |->
                    [teams[t] EXCEPT !.result = IF t = w THEN "WINNER" ELSE "LOSER"]],
                 fresh |-> <<>>])
    /\ UNCHANGED <<sessionStatus, members, matches, teams, settled>>

\* w is the winnerTeamId of the body, l the first team with another id.
\* resent: the moneyBet fields the body repeats, which its transforms turn to
\* null; type: the match type the body names.
MatchFinish(c, m, w, l, resent, type) ==
    /\ Idle(c)
    /\ m \in DOMAIN matches /\ matches[m].live
    /\ matches[m].status = "STARTED"
    /\ w \in TeamsOf(m) /\ l \in TeamsOf(m) \ {w}
    /\ Await(c, [op |-> "FindMembers", match |-> m, winner |-> w, loser |-> l,
                 bets |-> matches[m].bets,
                 row |-> [matches[m] EXCEPT !.status = "FINISHED",
                            !.bets = [o \in Orders |-> IF o \in resent THEN 0 ELSE @[o]],
                            !.type = TypeOf(type, @)],
                 keep |-> [t \in {w, l} |->
                    [teams[t] EXCEPT !.result = IF t = w THEN "WINNER" ELSE "LOSER"]]])
    /\ UNCHANGED <<sessionStatus, members, matches, teams, settled>>

PlayersOf(keep) == UNION {Range(keep[t].players) : t \in DOMAIN keep}

\* What the players at the places J of team play for.
BetsAt(team, bets, J) ==
    SumFunctionOnSet([j \in DOMAIN team.players |-> bets[team.players[j].order]], J)

\* What the players of team add up to for the member row that chosen gives
\* each user.
Stake(team, bets, chosen, member) ==
    BetsAt(team, bets, {j \in DOMAIN team.players : chosen[team.players[j].user] = member})

\* Mutant of MatchFinishFindMembers: the losers are not debited.
MatchFinishNoDebit(c) ==
    /\ At(c, "FindMembers")
    /\ LET k == inflight[c]
           users == {p.user : p \in PlayersOf(k.keep)}
           choices == {f \in [users -> LiveMembers] : \A u \in users : UserOf[f[u]] = u}
       IN  IF choices = {} \/ \E p \in PlayersOf(k.keep) : p.order \notin Orders
           THEN Answer(c)
           ELSE \E chosen \in choices :
                   Await(c, [op |-> "SaveMembers", match |-> k.match, row |-> k.row,
                        keep |-> k.keep,
                        amounts |-> [m \in Range(chosen) |->
                            members[m].winningAmount
                                + Stake(k.keep[k.winner], k.bets, chosen, m)]])
    /\ UNCHANGED <<sessionStatus, members, matches, teams, settled>>

\* The amounts are added to what this find returned.  A player without a live
\* member row, or an order without a moneyBet column, fails the call.
MatchFinishFindMembers(c) ==
    /\ At(c, "FindMembers")
    /\ LET k == inflight[c]
           users == {p.user : p \in PlayersOf(k.keep)}
           choices == {f \in [users -> LiveMembers] : \A u \in users : UserOf[f[u]] = u}
       IN  IF choices = {} \/ \E p \in PlayersOf(k.keep) : p.order \notin Orders
           THEN Answer(c)
           ELSE \E chosen \in choices :
                   Await(c, [op |-> "SaveMembers", match |-> k.match, row |-> k.row,
                        keep |-> k.keep,
                        amounts |-> [m \in Range(chosen) |->
                            members[m].winningAmount
                                + Stake(k.keep[k.winner], k.bets, chosen, m)
                                - Stake(k.keep[k.loser], k.bets, chosen, m)]])
    /\ UNCHANGED <<sessionStatus, members, matches, teams, settled>>

MatchFinishReadMembers(c) ==
    /\ At(c, "SaveMembers")
    /\ LET k == inflight[c]
       IN  Await(c, [op |-> "WriteMembers", match |-> k.match, row |-> k.row,
                     keep |-> k.keep, amounts |-> k.amounts,
                     seen |-> [m \in DOMAIN k.amounts |-> members[m]]])
    /\ UNCHANGED <<sessionStatus, members, matches, teams, settled>>

\* The members are saved in a transaction of their own, before the match.
MatchFinishWriteMembers(c) ==
    /\ At(c, "WriteMembers")
    /\ LET k == inflight[c]
           write(m) == [winningAmount |-> Column(members[m].winningAmount,
                                                 k.seen[m].winningAmount, k.amounts[m]),
                        live |-> Column(members[m].live, k.seen[m].live, TRUE)]
       IN  /\ \A m \in DOMAIN k.amounts : write(m).winningAmount \in -MaxMoney..MaxMoney
           /\ members' = [m \in Members |->
                            IF m \in DOMAIN k.amounts THEN write(m) ELSE members[m]]
           /\ settled[k.match] < MaxSettled
           /\ settled' = [settled EXCEPT ![k.match] = @ + 1]
           /\ Await(c, [op |-> "SaveMatch", match |-> k.match, row |-> k.row,
                        keep |-> k.keep, fresh |-> <<>>])
    /\ UNCHANGED <<sessionStatus, matches, teams>>

-----------------------------------------------------------------------------
(* repository.save(match): the match, its teams, and the teams it lost *)

MatchSaveRead(c) ==
    /\ At(c, "SaveMatch")
    /\ LET k == inflight[c]
       IN  Await(c, [op |-> "WriteMatch", match |-> k.match, row |-> k.row,
                     keep |-> k.keep, fresh |-> k.fresh,
                     seen |-> matches[k.match],
                     seenTeams |-> [t \in DOMAIN k.keep |-> teams[t]],
                     orphans |-> TeamsOf(k.match) \ DOMAIN k.keep])
    /\ UNCHANGED <<sessionStatus, members, matches, teams, settled>>

\* A team of the entity whose row was gone is inserted again with its id, a
\* team in the table that the entity does not list loses its match.
MatchSaveWrite(c) ==
    /\ At(c, "WriteMatch")
    /\ LET k == inflight[c]
           inserted == {t \in DOMAIN k.keep : k.seenTeams[t].place = "deleted"}
           current == matches[k.match]
           update(t) == IF teams[t].place = "deleted" THEN teams[t]
                        ELSE [teams[t] EXCEPT
                            !.result = Column(@, k.seenTeams[t].result, k.keep[t].result),
                            !.place = Column(@, k.seenTeams[t].place, "attached")]
           detach(t) == IF teams[t].place = "deleted" THEN teams[t]
                        ELSE [teams[t] EXCEPT !.place = "detached"]
           kept == [t \in DOMAIN teams |->
                        IF t \in inserted THEN k.keep[t]
                        ELSE IF t \in DOMAIN k.keep THEN update(t)
                        ELSE IF t \in k.orphans THEN detach(t)
                        ELSE teams[t]]
       IN  IF \E t \in inserted : teams[t].place # "deleted"
           THEN UNCHANGED <<matches, teams>>   \* the id is taken: rolled back
           ELSE /\ Len(teams) + Len(k.fresh) <= MaxTeams
                /\ matches' = Put(matches, k.match,
                        [status |-> Column(current.status, k.seen.status, k.row.status),
                         type |-> Column(current.type, k.seen.type, k.row.type),
                         bets |-> [o \in Orders |->
                            Column(current.bets[o], k.seen.bets[o], k.row.bets[o])],
                         live |-> Column(current.live, k.seen.live, TRUE)])
                /\ teams' = kept \o k.fresh
    /\ Answer(c)
    /\ UNCHANGED <<sessionStatus, members, settled>>

-----------------------------------------------------------------------------
(* MatchService.remove *)

\* Mutant of MatchRemove: without the guard on READY.
MatchRemoveUnguarded(c, m) ==
    /\ Idle(c)
    /\ m \in DOMAIN matches /\ matches[m].live
    /\ Await(c, [op |-> "DeleteMatch", match |-> m])
    /\ UNCHANGED <<sessionStatus, members, matches, teams, settled>>

MatchRemove(c, m) ==
    /\ Idle(c)
    /\ m \in DOMAIN matches /\ matches[m].live
    /\ matches[m].status = "READY"
    /\ Await(c, [op |-> "DeleteMatch", match |-> m])
    /\ UNCHANGED <<sessionStatus, members, matches, teams, settled>>

MatchRemoveDelete(c) ==
    /\ At(c, "DeleteMatch")
    /\ matches' = [matches EXCEPT ![inflight[c].match].live = FALSE]
    /\ Answer(c)
    /\ UNCHANGED <<sessionStatus, members, teams, settled>>

\* The next query of call c fails, or the process dies.
Abort(c) ==
    /\ c \in DOMAIN inflight
    /\ Answer(c)
    /\ UNCHANGED <<sessionStatus, members, matches, teams, settled>>

-----------------------------------------------------------------------------
(* Calls begin, go on and fail *)

\* The score and the shuttles of a body that finishes a match are left out.
UpdateMatchDto ==
    [status: {"unset"}, sheet: Sheets]
    \cup [status: {"STARTED"}]
    \cup [status: {"FINISHED"}, winnerTeamId: TeamIds, bets: BetsResent, type: TypesResent]

Begins(c) ==
    \/ \E sheet \in Sheets : MatchInsert(c, sheet)
    \/ \E m \in MatchIds, body \in UpdateMatchDto :
          \/ body.status = "unset" /\ MatchEdit(c, m, body.sheet)
          \/ body.status = "STARTED" /\ MatchStart(c, m)
          \/ /\ body.status = "FINISHED"
             /\ \E l \in TeamIds : MatchFinish(c, m, body.winnerTeamId, l, body.bets, body.type)
    \/ \E m \in MatchIds : MatchRemove(c, m)

Continues(c) ==
    \/ MatchInsertFindPlayers(c) \/ MatchInsertSave(c)
    \/ MatchEditDeleteTeams(c) \/ MatchEditFindPlayers(c)
    \/ MatchFinishFindMembers(c) \/ MatchFinishReadMembers(c) \/ MatchFinishWriteMembers(c)
    \/ MatchSaveRead(c) \/ MatchSaveWrite(c) \/ MatchRemoveDelete(c)

Environment == SessionMoves \/ \E m \in Members : MemberLeaves(m)

Next == Environment \/ \E c \in Calls : Begins(c) \/ Continues(c) \/ Abort(c)

Spec == Init /\ [][Next]_vars

-----------------------------------------------------------------------------
(* Properties that hold however the calls interleave *)

\* Every table holds rows of its type.
TypeOK ==
    /\ sessionStatus \in {"PENDING", "STARTED", "FINISHED"}
    /\ members \in [Members -> MemberRow]
    /\ matches \in Seq(MatchRow) /\ Len(matches) <= MaxMatches
    /\ teams \in Seq(TeamRow) /\ Len(teams) <= MaxTeams
    /\ DOMAIN inflight \subseteq Calls
    /\ settled \in [MatchIds -> Nat]

\* However edits, starts and finishes of a match overlap and whichever of their
\* queries fail: no match is FINISHED, and no team is shown as winner or loser,
\* before the bets of that match have reached the members' winnings.
\* (MatchService.change saves the members before the match.)
ResultsAreSettled ==
    /\ \A m \in DOMAIN matches : matches[m].status = "FINISHED" => settled[m] >= 1
    /\ \A t \in DOMAIN teams : teams[t].result # "none" => settled[teams[t].match] >= 1

-----------------------------------------------------------------------------
(* Properties of one call at a time, failures and crashes included *)

\* A FINISHED match has two teams, the WINNER and the LOSER, and no other match
\* has a result yet.
FinishedHasResults ==
    \A m \in DOMAIN matches :
        IF matches[m].status = "FINISHED"
        THEN \E w, l \in DOMAIN teams :
                /\ TeamsOf(m) = {w, l}
                /\ teams[w].result = "WINNER" /\ teams[l].result = "LOSER"
        ELSE \A t \in TeamsOf(m) : teams[t].result = "none"

\* The orders team t plays at; nothing in the validators compares them.
OrdersIn(t) ==
    [o \in Orders |-> Cardinality({j \in DOMAIN teams[t].players : teams[t].players[j].order = o})]

EvenLineups ==
    \A t, u \in DOMAIN teams : teams[t].match = teams[u].match => OrdersIn(t) = OrdersIn(u)

\* Settling moves money between players and makes none: as long as the teams of
\* every match play at the same orders, winnings and losses of the members add
\* up to zero, whatever failed and was repeated in between.
MoneyIsZeroSum ==
    EvenLineups => SumFunction([m \in Members |-> members[m].winningAmount]) = 0

\* 'Match has finished': nothing about a FINISHED match changes any more.
FinishedIsFinal ==
    [][\A m \in DOMAIN matches :
          matches[m].status = "FINISHED" =>
            /\ matches'[m] = matches[m]
            /\ TeamsOf(m)' = TeamsOf(m)
            /\ \A t \in TeamsOf(m) : teams'[t] = teams[t]]_vars

\* 'Match is not ready': once a match is STARTED its line-up stays.
LineupFixedAfterStart ==
    [][\A m \in DOMAIN matches :
          matches[m].status = "STARTED" =>
            \A t \in DOMAIN teams :
               /\ t \in TeamsOf(m)' <=> t \in TeamsOf(m)
               /\ t \in TeamsOf(m) => teams'[t].players = teams[t].players]_vars

Users == {UserOf[m] : m \in Members}

\* The winnings of user u, on whichever of its member rows they are.
BalanceOf(u) ==
    SumFunction([m \in {n \in Members : UserOf[n] = u} |-> members[m].winningAmount])

PlacesOf(team, u) == {j \in DOMAIN team.players : team.players[j].user = u}

\* What user u gets from sides that have their results, by the bets.
ResultOf(sides, bets, u) ==
    LET earned(t) == BetsAt(sides[t], bets, PlacesOf(sides[t], u))
    IN  SumFunction([t \in DOMAIN sides |->
            IF sides[t].result = "WINNER" THEN earned(t) ELSE -earned(t)])

FinishedMatches == {x \in DOMAIN matches : matches[x].status = "FINISHED"}

\* While no call is under way and every FINISHED match, and no other, was settled
\* just once, every user has won exactly what the bets and results of these
\* matches say (MatchService.change; a body that repeats moneyBet fields when it
\* finishes a match erases them after they were paid).
BalanceMatchesResults ==
    /\ \A c \in Calls : Idle(c)
    /\ \A x \in DOMAIN matches : settled[x] = IF x \in FinishedMatches THEN 1 ELSE 0
    => \A u \in Users :
          BalanceOf(u) = SumFunction([x \in FinishedMatches |->
                                        ResultOf(Loaded(x), matches[x].bets, u)])

-----------------------------------------------------------------------------
(* What the matches promise, one call at a time *)

StageShown(m) ==
    IF m \notin DOMAIN matches THEN "none"
    ELSE IF matches[m].live THEN matches[m].status ELSE "REMOVED"

UsersOf(team) == {p.user : p \in Range(team.players)}

\* A team from its users to what they play for.
SideShown(t) ==
    [u \in UsersOf(teams[t]) |->
        BetsAt(teams[t], matches[teams[t].match].bets,
               {j \in PlacesOf(teams[t], u) : teams[t].players[j].order \in Orders})]

\* Calls that have paid match m and are about to show it.
Paying(m) ==
    {c \in DOMAIN inflight :
        /\ inflight[c].op \in {"SaveMatch", "WriteMatch"}
        /\ inflight[c].match = m /\ inflight[c].row.status = "FINISHED"}

PaidShown(m) ==
    LET kept == UNION {Range(inflight[c].keep) : c \in Paying(m)}
    IN  UNION {UsersOf(team) : team \in {t \in kept : t.result = "WINNER"}}

SidesShown(m) ==
    IF StageShown(m) \in {"READY", "STARTED"} THEN [t \in TeamsOf(m) |-> SideShown(t)]
    ELSE EmptyTable

WinnersShown(m) ==
    UNION {UsersOf(teams[t]) : t \in {u \in TeamsOf(m) : teams[u].result = "WINNER"}}

SettlementView == INSTANCE Settlement WITH
    Ids <- MatchIds,
    stage <- [m \in MatchIds |-> StageShown(m)],
    sides <- [m \in MatchIds |-> SidesShown(m)],
    due <- [m \in MatchIds |-> PaidShown(m)],
    winners <- [m \in MatchIds |-> WinnersShown(m)],
    balance <- [u \in Users |-> BalanceOf(u)]

\* With calls one at a time, any of which may fail half-way and be sent again:
\* stakes are fixed when the match starts, every payment is made by them between
\* the two sides of a STARTED match, and what is shown as the winner is the side
\* that the last payment went to (MatchService as a whole implements Settlement).
ImplementsSettlement == SettlementView!Spec

=============================================================================
