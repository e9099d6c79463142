------------------------------ MODULE Responses ------------------------------
(***************************************************************************)
(* What a client is answered: the envelope of results and of exceptions,   *)
(* the exceptions of base/api/exception and the filters that turn what a   *)
(* handler throws into a response.                                         *)
(*                                                                         *)
(* An error code is a module and a number, as USER020008.  A text is the   *)
(* number of the code it is the text of, or names where it is written.     *)
(***************************************************************************)
EXTENDS Integers, Tables

CONSTANT FIXED_STATUS_CODE   \* setting: answer everything with status 200

ASSUME StatusAssumption == FIXED_STATUS_CODE \in BOOLEAN

Global(number) == [module |-> "", number |-> number]

SUCCESS == Global("000000")
UNKNOWN == Global("999999")
SYSTEM_ERROR == Global("990001")
VALIDATION == Global("010009")

NOT_FOUND == "020008"
DUPLICATE == "020010"
PROTECTED == "020012"
QUERY_DB_ERROR == "020013"

NoText == ""
NoData == "null"
NoMeta == EmptyTable

ALL_MESSAGES ==
    {Global(n) : n \in {"000000", "999999", "990001", "000002", "000003", "000006", "000007",
                        "000011", "020008", "010009", "020010"}}
        \cup {[module |-> "AUTH", number |-> n] : n \in {"000101", "000102"}}

EndsWith(code, key) == code = key \/ key = Global(code.number)

\* The text of a code, of one it ends with, or the default.
getMessageFromCode(code, default) ==
    IF \E key \in ALL_MESSAGES : EndsWith(code, key) THEN code.number ELSE default

defaultPayload ==
    [success |-> TRUE, errorCode |-> SUCCESS, message |-> NoText, data |-> NoData, meta |-> NoMeta]

-----------------------------------------------------------------------------
(* Exceptions *)

\* Mutant of BaseException: the code alone decides about success.
BaseExceptionByCode(partial, default) ==
    LET payload == PutAll(defaultPayload, partial)
    IN  [payload EXCEPT
            !.success = payload.errorCode = SUCCESS,
            !.message = IF @ # NoText THEN @ ELSE getMessageFromCode(payload.errorCode, default)]

\* An exception with a text is none of success, even with the code of success.
BaseException(partial, default) ==
    LET payload == PutAll(defaultPayload, partial)
    IN  [payload EXCEPT
            !.success = payload.errorCode = SUCCESS /\ payload.message = NoText,
            !.message = IF @ # NoText THEN @ ELSE getMessageFromCode(payload.errorCode, default)]

Status ==
    [BusinessException |-> 500, BadRequest |-> 400, Unauthorized |-> 401, Forbidden |-> 403,
     NotFound |-> 404, MethodNotAllowed |-> 405, NotAcceptable |-> 406, Conflict |-> 409,
     UnsupportedMediaType |-> 415, TemporaryRedirect |-> 307, PayloadTooLarge |-> 413,
     FailedDependency |-> 424]

DefaultText(class) ==
    CASE class = "NotFound" -> NOT_FOUND
      [] class \in {"UnsupportedMediaType", "PayloadTooLarge", "FailedDependency"} -> class
      [] OTHER -> NoText

HttpException(class, partial) ==
    [http |-> TRUE, status |-> Status[class], response |-> BaseException(partial, DefaultText(class))]

\* Exceptions of the framework, as of a route that does not exist, have another
\* body; anything else that is thrown is no HttpException.
FrameworkException(status) == [http |-> TRUE, status |-> status, response |-> [message |-> "framework"]]
OtherError(code) == [http |-> FALSE, code |-> code]

\* No rule of a body has a code for its text.
ValidationError ==
    HttpException("BadRequest",
        [errorCode |-> VALIDATION, message |-> VALIDATION.number, data |-> "errors"])

notFound(alias) ==
    HttpException("NotFound",
        [errorCode |-> [module |-> alias, number |-> NOT_FOUND], message |-> "not found"])

\* What a service throws instead of what its query was rejected with.
handleDbError(alias, error) ==
    LET QueryDbError(number, text) ==
            HttpException("BadRequest",
                [errorCode |-> [module |-> alias, number |-> number], message |-> text])
    IN  IF error.http THEN error
        ELSE CASE error.code = "UNIQUE_VIOLATION" -> QueryDbError(DUPLICATE, "detail")
               [] error.code = "SYNTAX_ERROR" -> QueryDbError(QUERY_DB_ERROR, "syntax")
               [] error.code = "INVALID_TEXT_REPRESENTATION" -> QueryDbError(QUERY_DB_ERROR, "text")
               [] error.code = "FOREIGN_KEY_VIOLATION" -> QueryDbError(PROTECTED, "protected")
               [] OTHER -> error

-----------------------------------------------------------------------------
(* Responses *)

ResponseTransformInterceptor(result) ==
    [status |-> 200,
     body |-> IF "meta" \in DOMAIN result
              THEN PutAll(defaultPayload, [data |-> result.data, meta |-> result.meta])
              ELSE PutAll(defaultPayload, [data |-> result.data])]

HttpExceptionFilter(exception) ==
    [status |-> IF FIXED_STATUS_CODE THEN 200 ELSE exception.status,
     body |-> IF "success" \in DOMAIN exception.response THEN exception.response
              ELSE HttpException("BadRequest",
                    [errorCode |-> IF exception.status = 404 THEN Global(NOT_FOUND) ELSE UNKNOWN,
                     data |-> exception.response.message]).response]

UnknownExceptionsFilter ==
    [status |-> 500,
     body |-> HttpException("BusinessException", [errorCode |-> SYSTEM_ERROR]).response]

\* On the routes that take files.
MulterExceptionFilter(exception) ==
    IF exception.status # 413 THEN HttpExceptionFilter(exception)
    ELSE HttpExceptionFilter(HttpException("PayloadTooLarge",
            [errorCode |-> [module |-> "PAYLOAD_TOO_LARGE", number |-> ""],
             message |-> "PayloadTooLarge"]))

\* The filter that is registered last is asked first.
Thrown(exception) ==
    IF exception.http THEN HttpExceptionFilter(exception) ELSE UnknownExceptionsFilter

\* The rate limiter answers ahead of guards, pipes and filters, in plain text.
TooManyRequests == [status |-> 429, body |-> EmptyTable]

Enveloped(response) == "success" \in DOMAIN response.body
=============================================================================
