------------------------------ MODULE MCListing ------------------------------
(***************************************************************************)
(* Instances of Listing for TLC.                                           *)
(***************************************************************************)
EXTENDS Listing

On(column, suffix, operand) ==
    [k \in {[column |-> column, suffix |-> suffix]} |-> operand]

\* A filter that names the column which the controller forces, and a search.
SomeSelections ==
    {[filter |-> PutAll(On("key", "GTE", 2), On("scope", "EQ", 2)), search |-> NoSearch],
     [filter |-> EmptyTable, search |-> [fields |-> {"key", "id"}, text |-> {1}]]}

\* Names of relations, and lists of up to three relations of relations of two.
Names == {"user", "address"}
Paths == UNION {[1..n -> Names] : n \in 1..2}
SomeIncludes == UNION {[1..n -> Paths] : n \in 0..3}

By(column, desc) == <<[column |-> column, desc |-> desc]>>

\* -key, which ties, and id,-id, which the second direction decides.
SomeSorts == {By("key", TRUE), By("id", FALSE) \o By("id", TRUE)}

\* Of the directions that a column is given the last one counts, in the place of
\* the first.
ASSUME SortLaws ==
    LET a == [id |-> 1, key |-> 1, scope |-> 1]
        b == [id |-> 2, key |-> 1, scope |-> 2]
    IN  \A d, e \in BOOLEAN :
            /\ OrderBys(By("id", d) \o By("id", e)) = By("id", e) \o By("id", e)
            /\ Precedes(OrderBys(By("id", d) \o By("scope", d) \o By("id", e)), a, b) <=> ~e

\* What the suffixes mean against each other.
ASSUME SuffixLaws ==
    \A v, a, b \in 0..3 :
        /\ Satisfies(v, "RANGE", <<a, b>>) <=>
                Satisfies(v, "GTE", a) /\ Satisfies(v, "LTE", b)
        /\ Satisfies(v, "LT", a) <=> ~Satisfies(v, "GTE", a)
        /\ Satisfies(v, "GT", a) <=> ~Satisfies(v, "LTE", a)
        /\ Satisfies(v, "IN", {a, b}) <=> Satisfies(v, "EQ", a) \/ Satisfies(v, "EQ", b)
        /\ Satisfies(v, "EQ", a) <=> Satisfies(v, "RANGE", <<a, a>>)

\* Whatever is thrown is answered as a failure with a text; a code has the text of
\* the code it ends with, if there is one.
ASSUME FailureLaws ==
    LET codes == {"UNIQUE_VIOLATION", "SYNTAX_ERROR", "INVALID_TEXT_REPRESENTATION",
                  "FOREIGN_KEY_VIOLATION", "other"}
        thrown == {handleDbError("USER", OtherError(code)) : code \in codes}
            \cup {notFound("USER"), ValidationError}
            \cup {FrameworkException(status) : status \in {400, 404, 413, 429}}
    IN  /\ \A e \in thrown : ~Thrown(e).body.success /\ Thrown(e).body.message # NoText
        /\ \A e \in thrown : e.http => ~MulterExceptionFilter([e EXCEPT !.status = 413]).body.success
        /\ Thrown(FrameworkException(404)).body.errorCode = Global(NOT_FOUND)
        /\ getMessageFromCode(notFound("USER").response.errorCode, NoText) = NOT_FOUND
        /\ getMessageFromCode([module |-> "USER", number |-> PROTECTED], NoText) = NoText

\* A list of relations is joined without a clash, and each of them once, where it
\* names no relation twice, parents first, and of the relations that it does not
\* name uses each for one child only; other lists are rejected.
Prefixes(path) == {SubSeq(path, 1, n) : n \in 1..(Len(path) - 1)}

Orderly(include) ==
    \A m, n \in DOMAIN include :
        /\ include[m] = include[n] => m = n
        /\ include[m] \in Prefixes(include[n]) => m < n
        /\ \A path \in Prefixes(include[m]) \cap Prefixes(include[n]) :
                m = n \/ Seqs!Contains(include, path)

ASSUME IncludeLaws ==
    \A include \in SomeIncludes :
        /\ Orderly(include) <=> WellJoined(Included(include))
        /\ Seqs!ToSet(include) \subseteq {join.alias : join \in Seqs!ToSet(Included(include))}

\* A result without meta is data and no page.
ASSUME ResultLaws ==
    /\ ResponseTransformInterceptor([data |-> "user"]).body.success
    /\ ResponseTransformInterceptor([data |-> "user"]).body.meta = NoMeta
=============================================================================
