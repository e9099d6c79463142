------------------------------- MODULE Listing -------------------------------
(***************************************************************************)
(* listWithPage: the paged lists of users, sessions, matches, members,     *)
(* requests and notifications, of which a client reads page after page     *)
(* while other calls write the table.                                      *)
(*                                                                         *)
(* getManyAndCount is two or three queries.  A list with joins reads the   *)
(* ids of the page, then the rows of these ids; a list without reads the   *)
(* rows at once.  Then it counts.  A row is its id, a column `key` by      *)
(* which lists are filtered and sorted, and the `scope` that a controller  *)
(* asks for: the session of a match or member, the receiver of a           *)
(* notification, the creator of a session or request.                      *)
(*                                                                         *)
(* A request is answered with a page or refused, and any of its queries    *)
(* may fail: what the client then has in hand, and goes by, is the         *)
(* envelope that Responses makes of it, or the text of the rate limiter.   *)
(*                                                                         *)
(* The code takes the keys of filters and the names of sorts as they come. *)
(* Here they name columns: what other texts make of a query is left out,   *)
(* as are columns of joined rows and parts of dates.                       *)
(***************************************************************************)
EXTENDS Sequences, FiniteSets, Responses

CONSTANTS
    MaxId,                  \* bound of the model on the rows ever inserted
    Keys, Scopes,           \* values of the columns, natural numbers
    PageSizes,              \* pageSize of the requests, Unset if none is named
    Selections, Sorts,      \* filter and search, sort of the requests
    Includes,               \* lists of relations that requests include
    ErrorCodes,             \* what a query may be rejected with
    PAGINATION_PAGE_SIZE    \* default and greatest page size

Unset == 0

\* What a list can be filtered, searched and sorted by.
Columns == {"id", "key", "scope"}

\* EQ stands for a key without a suffix.
Suffixes == {"IN", "RANGE", "GTE", "LTE", "GT", "LT", "EQ"}

ASSUME ColumnsAssumption == Keys \subseteq Nat /\ Scopes \subseteq Nat /\ MaxId \in Nat
ASSUME PageSizesValidated ==
    PAGINATION_PAGE_SIZE \in Nat /\ PageSizes \subseteq 1..PAGINATION_PAGE_SIZE \cup {Unset}
ASSUME SortsAssumption == Sorts \subseteq Seq([column : Columns, desc : BOOLEAN])
ASSUME SelectionsAssumption ==
    \A sel \in Selections :
        /\ sel = [filter |-> sel.filter, search |-> sel.search]
        /\ DOMAIN sel.filter \subseteq [column : Columns, suffix : Suffixes]
        /\ sel.search.fields \subseteq Columns

VARIABLES
    rows,        \* id -> row
    query,       \* the request of the walk, as the service gets it
    at,          \* the query listWithPage waits for, or where the client is
    page,        \* ids of the page that listWithPage has read so far
    answer,      \* the response to the last request, as long as it is the last
    shown,       \* ids of all answers of the walk, page after page
    start,       \* history: the rows selected when the walk began
    writes       \* history: what kind of writes there were since the walk began

walk == <<query, at, page, answer, shown, start>>
vars == <<rows, walk, writes>>

Seqs == INSTANCE SequencesExt

Ids == 1..MaxId
Row == [id: Ids, key: Keys, scope: Scopes, live: BOOLEAN]

\* Number(undefined): what comes out of a request that names no pageSize.
NaN == -1

NoAnswer == EmptyTable

-----------------------------------------------------------------------------
(* ListService.setFilters: a filter is an object from keys, a column and a *)
(* suffix, to what the column is compared with.  Such comparisons are what *)
(* andWhere, which sets no brackets, makes a conjunction of.               *)

Satisfies(value, suffix, operand) ==
    CASE suffix = "IN"    -> value \in operand
      [] suffix = "RANGE" -> operand[1] <= value /\ value <= operand[2]
      [] suffix = "GTE"   -> value >= operand
      [] suffix = "LTE"   -> value <= operand
      [] suffix = "GT"    -> value > operand
      [] suffix = "LT"    -> value < operand
      [] suffix = "EQ"    -> value = operand

\* A search is a text, that is the values which contain it, and columns.
NoSearch == [fields |-> {}, text |-> {}]

\* Every filter and, if the request searches, one of the columns searched.
Selected(selection) ==
    {i \in DOMAIN rows :
        /\ rows[i].live
        /\ \A k \in DOMAIN selection.filter :
                Satisfies(rows[i][k.column], k.suffix, selection.filter[k])
        /\ \/ selection.search = NoSearch
           \/ \E field \in selection.search.fields : rows[i][field] \in selection.search.text}

-----------------------------------------------------------------------------
(* Joins.  A relation is a path; it is joined to its parent, the table or  *)
(* another join, under an alias.                                           *)

Join(parent, alias) == [parent |-> parent, alias |-> alias]
JoinAll(names) == [n \in DOMAIN names |-> Join(<<>>, <<names[n]>>)]

\* What extendFindAllQuery of each service joins in any case.
BaseJoins ==
    [users |-> <<>>,
     sessions |-> JoinAll(<<"createdBy", "address", "member", "match">>)
                    \o <<Join(<<"member">>, <<"user">>)>>,
     matches |-> <<Join(<<>>, <<"team">>), Join(<<"team">>, <<"participant">>),
                   Join(<<"participant">>, <<"user">>)>>,
     members |-> JoinAll(<<"memberUser">>),
     requests |-> JoinAll(<<"createdBy", "badmintonSession">>),
     histories |-> JoinAll(<<"notificationDetail", "receiver">>)]

\* FetchUtils.addIncludedEntities: a relation that is included comes after its
\* parents, but for those that are included too and are left to their own turn.
JoinsOf(path, include) ==
    SelectSeq([n \in DOMAIN path |-> Join(SubSeq(path, 1, n - 1), SubSeq(path, 1, n))],
              LAMBDA join : join.alias = path \/ ~Seqs!Contains(include, join.alias))

Included(include) == Seqs!FlattenSeq([n \in DOMAIN include |-> JoinsOf(include[n], include)])

\* A query is rejected where a join hangs on none before it, or two joins have
\* one alias.
WellJoined(joins) ==
    /\ \A n \in DOMAIN joins :
            joins[n].parent = <<>> \/ \E m \in 1..(n - 1) : joins[m].alias = joins[n].parent
    /\ \A m, n \in DOMAIN joins : joins[m].alias = joins[n].alias => m = n

-----------------------------------------------------------------------------
(* FetchUtils.addSorting and addPagination                                 *)

\* addOrderBy keeps one direction for a column: a column that is named again
\* stays in its place and takes the direction it was named with last.
Descends(sort, column) ==
    \E n \in DOMAIN sort :
        /\ sort[n].column = column /\ sort[n].desc
        /\ \A m \in DOMAIN sort : m > n => sort[m].column # column

OrderBys(sort) ==
    [n \in DOMAIN sort |-> [sort[n] EXCEPT !.desc = Descends(sort, sort[n].column)]]

\* sort is a sequence of columns, each ascending or descending.
Less(s, a, b) == IF s.desc THEN a[s.column] > b[s.column] ELSE a[s.column] < b[s.column]

Precedes(sort, a, b) ==
    \E n \in DOMAIN sort :
        /\ Less(sort[n], a, b)
        /\ \A m \in 1..(n - 1) : a[sort[m].column] = b[sort[m].column]

\* What the database may answer to ORDER BY sort: rows that tie come anyhow.
Answers(S, sort) ==
    {s \in Seqs!SetToSeqs(S) :
        \A m, n \in DOMAIN s : m < n => ~Precedes(sort, rows[s[n]], rows[s[m]])}

\* The query for the ids of a page ends its ORDER BY with the primary key.
ById == [column |-> "id", desc |-> FALSE]

Take(q) == IF q.pageSize = Unset THEN PAGINATION_PAGE_SIZE ELSE q.pageSize

\* Mutant: rows are skipped, not pages.
SkipRows(q) == q.pageNumber - 1

Skip(q) == Take(q) * (q.pageNumber - 1)

\* OFFSET and LIMIT beyond the end are no error.
UpTo(s, first, last) == SubSeq(s, first, IF last < Len(s) THEN last ELSE Len(s))

\* Mutant: one row more than asked for.
SliceOver(s, q) == UpTo(s, Skip(q) + 1, Skip(q) + Take(q) + 1)

Slice(s, q) == UpTo(s, Skip(q) + 1, Skip(q) + Take(q))

-----------------------------------------------------------------------------
(* The requests the controllers make of listWithPage                       *)

Scoped(s) == [k \in {[column |-> "scope", suffix |-> "EQ"]} |-> s]

\* Mutant: what the client filters by comes last.
ForcedFirst(selection, s) == [selection EXCEPT !.filter = PutAll(Scoped(s), @)]

\* { ...query.filter, scope }: the controller has the last word.
Forced(selection, s) == [selection EXCEPT !.filter = PutAll(@, Scoped(s))]

\* sound: the database does not reject the query for what it joins or selects.
ListOf(table, sel, include, scope) ==
    LET joins == BaseJoins[table] \o Included(include)
    IN  [joined |-> joins # <<>>, sound |-> WellJoined(joins), selection |-> sel, scope |-> scope]

\* A user has no relation that could be included.
ListUsers(sel, include) ==
    [ListOf("users", sel, <<>>, Scopes) EXCEPT !.sound = include = <<>>]

\* type "joined" filters by a joined row, not by a column, and is left out.
ListSessions(sel, include, type, s) ==
    IF type = "ALL" THEN ListOf("sessions", sel, include, Scopes)
    ELSE ListOf("sessions", Forced(sel, s), include, {s})

ListMatches(sel, include, s) == ListOf("matches", Forced(sel, s), include, {s})

\* type RECEIVED filters by the joined session, its id and its creator.  A request
\* keeps its session, a session its creator, and no session is removed: what a
\* request is received by stays as a column of it would.
ListRequests(sel, include, s) == ListOf("requests", Forced(sel, s), include, {s})

ListHistories(sel, include, s) == ListOf("histories", Forced(sel, s), include, {s})

\* It always selects member.paymentType, which is no column.
ListMembers(sel, include, s) ==
    [ListOf("members", Forced(sel, s), include, {s}) EXCEPT !.sound = FALSE]

\* What the validated queries come to, page and order aside.
QueryUserDto == {ListUsers(sel, inc) : sel \in Selections, inc \in Includes}
QueryBadmintonSessionDto ==
    {ListSessions(sel, inc, type, s) :
        sel \in Selections, inc \in Includes, type \in {"ALL", "ORGANIZED"}, s \in Scopes}
QueryMatchDto == {ListMatches(sel, inc, s) : sel \in Selections, inc \in Includes, s \in Scopes}
QueryMemberDto == {ListMembers(sel, inc, s) : sel \in Selections, inc \in Includes, s \in Scopes}
QueryRequestDto == {ListRequests(sel, inc, s) : sel \in Selections, inc \in Includes, s \in Scopes}
QueryDto == {ListHistories(sel, inc, s) : sel \in Selections, inc \in Includes, s \in Scopes}

Requests ==
    QueryUserDto \cup QueryBadmintonSessionDto \cup QueryMatchDto \cup QueryMemberDto
        \cup QueryRequestDto \cup QueryDto

-----------------------------------------------------------------------------
Init ==
    /\ rows = EmptyTable
    /\ query = EmptyTable
    /\ at = "idle"
    /\ page = <<>>
    /\ answer = NoAnswer
    /\ shown = <<>>
    /\ start = {}
    /\ writes = "none"

\* A client asks for the first page.
Ask(request, pageSize, sort) ==
    /\ at = "idle"
    /\ query' = PutAll(request, [pageSize |-> pageSize, sort |-> OrderBys(sort),
                                 pageNumber |-> 1])
    /\ at' = "page"
    /\ page' = <<>>
    /\ answer' = NoAnswer
    /\ shown' = <<>>
    /\ start' = Selected(request.selection)
    /\ writes' = "none"
    /\ UNCHANGED rows

\* Mutant: addPagination goes on with the query from before addSorting.
FindPageUnsorted ==
    /\ at = "page" /\ query.sound
    /\ \E s \in Answers(Selected(query.selection), IF query.joined THEN <<ById>> ELSE <<>>) :
            page' = Slice(s, query)
    /\ at' = IF query.joined /\ page' # <<>> THEN "load" ELSE "count"
    /\ UNCHANGED <<rows, query, answer, shown, start, writes>>

\* The rows, or with joins their ids.
FindPage ==
    /\ at = "page" /\ query.sound
    /\ \E s \in Answers(Selected(query.selection),
                        IF query.joined THEN Append(query.sort, ById) ELSE query.sort) :
            page' = Slice(s, query)
    /\ at' = IF query.joined /\ page' # <<>> THEN "load" ELSE "count"
    /\ UNCHANGED <<rows, query, answer, shown, start, writes>>

\* The rows of these ids that the filter still selects.
LoadPage ==
    /\ at = "load"
    /\ page' \in Answers(Selected(query.selection) \cap Seqs!ToSet(page), query.sort)
    /\ at' = "count"
    /\ UNCHANGED <<rows, query, answer, shown, start, writes>>

Ceil(a, b) == (a + b - 1) \div b

\* Mutant: the last page counts when it is full.
PagesFloor(totalItems, q) == IF q.pageSize = Unset THEN NaN ELSE totalItems \div q.pageSize

Pages(totalItems, q) == IF q.pageSize = Unset THEN NaN ELSE Ceil(totalItems, q.pageSize)

Answered(response) ==
    /\ answer' = response
    /\ page' = <<>>
    /\ at' = "answered"

CountRows ==
    /\ at = "count"
    /\ Answered(ResponseTransformInterceptor(
            [data |-> page,
             meta |-> [totalPages |-> Pages(Cardinality(Selected(query.selection)), query),
                       currentPage |-> query.pageNumber]]))
    /\ shown' = shown \o page
    /\ UNCHANGED <<rows, query, start, writes>>

\* What the guard, the validation of the query and, for a list of users that
\* leaves out the members of a session, the session that it does not find throw.
Refusals(q) ==
    {HttpException("Unauthorized",
        [errorCode |-> [module |-> "JWT", number |-> "011G"], message |-> "not verified"]),
     ValidationError}
    \cup IF q.joined THEN {}
         ELSE {HttpException("NotFound", [message |-> "Badminton session not found"])}

\* Ahead of all of them, the rate limiter.
Refuse ==
    /\ at = "page"
    /\ \/ Answered(TooManyRequests)
       \/ \E exception \in Refusals(query) : Answered(Thrown(exception))
    /\ UNCHANGED <<rows, query, shown, start, writes>>

\* The query that listWithPage waits for is rejected.
QueryFails ==
    /\ at \in {"page", "load", "count"}
    /\ \E code \in ErrorCodes : Answered(Thrown(handleDbError("LIST", OtherError(code))))
    /\ UNCHANGED <<rows, query, shown, start, writes>>

\* The client goes by success, and by meta.totalPages if there is one.
Succeeded == at = "answered" /\ Enveloped(answer) /\ answer.body.success
TotalPages == IF "totalPages" \in DOMAIN answer.body.meta THEN answer.body.meta.totalPages ELSE NaN
IsLast == Succeeded /\ query.pageNumber >= TotalPages

\* It goes on while there are more pages.
AskNext ==
    /\ Succeeded /\ ~IsLast
    /\ query' = [query EXCEPT !.pageNumber = @ + 1]
    /\ at' = "page"
    /\ answer' = NoAnswer
    /\ UNCHANGED <<rows, page, shown, start, writes>>

\* It asks again for a page that it did not get.
AskAgain ==
    /\ at = "answered" /\ ~Succeeded
    /\ at' = "page"
    /\ answer' = NoAnswer
    /\ UNCHANGED <<rows, query, page, shown, start, writes>>

\* The walk ends: read to the end, or the client leaves.
Leave ==
    /\ at # "idle"
    /\ query' = EmptyTable
    /\ at' = "idle"
    /\ page' = <<>>
    /\ answer' = NoAnswer
    /\ shown' = <<>>
    /\ start' = {}
    /\ writes' = "none"
    /\ UNCHANGED rows

Note(kind) ==
    writes' = IF at = "idle" THEN "none"
              ELSE IF writes \in {"none", kind} THEN kind ELSE "mixed"

\* The ids of a table grow.
Insert(k, s) ==
    LET i == Cardinality(DOMAIN rows) + 1 IN
    /\ i \in Ids
    /\ rows' = Put(rows, i, [id |-> i, key |-> k, scope |-> s, live |-> TRUE])
    /\ Note("inserts")
    /\ UNCHANGED walk

Remove(i) ==
    /\ rows[i].live
    /\ rows' = [rows EXCEPT ![i].live = FALSE]
    /\ Note("removes")
    /\ UNCHANGED walk

Change(i, k) ==
    /\ rows[i].live /\ rows[i].key # k
    /\ rows' = [rows EXCEPT ![i].key = k]
    /\ Note("mixed")
    /\ UNCHANGED walk

Next ==
    \/ \E r \in Requests, n \in PageSizes, s \in Sorts : Ask(r, n, s)
    \/ FindPage \/ LoadPage \/ CountRows \/ Refuse \/ QueryFails
    \/ AskNext \/ AskAgain \/ Leave
    \/ \E k \in Keys, s \in Scopes : Insert(k, s)
    \/ \E i \in DOMAIN rows : Remove(i) \/ \E k \in Keys : Change(i, k)

Spec == Init /\ [][Next]_vars

-----------------------------------------------------------------------------
(* Properties *)

\* The table and the walk hold values of their types, and a page is no longer
\* than what was asked for.
TypeOK ==
    /\ IsTable(rows, Ids, Row)
    /\ at \in {"idle", "page", "load", "count", "answered"}
    /\ page \in Seq(Ids)
    /\ at # "idle" => Len(page) <= Take(query)
    /\ at = "answered" /\ Enveloped(answer) =>
            answer.body.success \in BOOLEAN /\ TotalPages \in Nat \cup {NaN}
    /\ shown \in Seq(Ids)
    /\ start \subseteq Ids
    /\ writes \in {"none", "inserts", "removes", "mixed"}

\* No two rows tie: with joins the database breaks ties by the id.
NoTies == query.joined \/ \E n \in DOMAIN query.sort : query.sort[n].column = "id"

\* A client that reads on until totalPages has seen every row that was there
\* when it began, however many rows are inserted meanwhile, and between the
\* queries of a page too, and however often it asked again for a page that
\* failed (listWithPage, addPagination).
WalkMissesNothing ==
    (IsLast /\ query.pageSize # Unset /\ NoTies /\ writes \in {"none", "inserts"}) =>
        start \subseteq Seqs!ToSet(shown)

\* Whatever a request is refused for and whichever query fails, the client is
\* told so.  In the envelope success is FALSE and there is a text to show, even
\* where the code is that of success, and what comes with success is a page.
\* Only the rate limiter answers without an envelope, and never with the status
\* 200 that the filters may give to a failure (BaseException,
\* getMessageFromCode, the exception filters, main.ts).
FailureIsTold ==
    at = "answered" =>
        \/ ~Enveloped(answer) /\ answer.status # 200
        \/ Succeeded /\ "totalPages" \in DOMAIN answer.body.meta
        \/ /\ Enveloped(answer) /\ ~answer.body.success
           /\ answer.body.message # NoText /\ answer.body.meta = NoMeta

\* A client sees no row twice, however many rows are removed meanwhile, pages
\* that it asked for again included.
WalkRepeatsNothing ==
    (at # "idle" /\ NoTies /\ writes \in {"none", "removes"}) => Seqs!IsInjective(shown)

\* The pages of a walk make one sorted list, with ties and without a second
\* ORDER BY on the id too, as long as nobody writes (addSorting).
WalkIsSorted ==
    (at # "idle" /\ writes = "none") =>
        \A m, n \in DOMAIN shown :
            m < n => ~Precedes(query.sort, rows[shown[n]], rows[shown[m]])

\* Whichever columns a client filters and searches by, the column that the
\* controller forces included, it gets rows of the scope it asks for only: the
\* matches of a session, its own notifications (the lists of the controllers).
\* It is about filters whose keys name a column, as SelectionsAssumption says.
ScopeIsKept == \A n \in DOMAIN shown : rows[shown[n]].scope \in query.scope
=============================================================================
