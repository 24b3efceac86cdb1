------------------------------ MODULE ApiErrors ------------------------------
(***************************************************************************)
(* From an error thrown in a handler to the answer the client gets:        *)
(* GlobalHttpRequestExceptionFilter and ErrorToExceptionMapper             *)
(* (src/core/presentation/filters).  Messages, paths and timestamps are    *)
(* left out; the public code of an expected error is named by its class.   *)
(***************************************************************************)
EXTENDS Integers

(* Error classes of the features, by the status the table maps them to. *)
ExpectedErrorMappings ==
    [s \in {400, 401, 404, 409} |->
        CASE s = 400 ->
                {"InvalidEmailError", "InvalidDeviceIdError", "InvalidNameError",
                 "InvalidNewPasswordError", "InvalidBlogCursorError",
                 "InvalidBlogTitleError", "InvalidBlogContentError",
                 "InvalidBlogImageError", "InvalidBlogTopicError",
                 "InvalidChatMemberIdError", "InvalidChatMembersError",
                 "InvalidChatMessageContentError", "InvalidChatCandidateCursorError",
                 "InvalidChatListCursorError", "InvalidChatMessageCursorError"}
          [] s = 401 ->
                {"InvalidCredentialsError", "InvalidRefreshTokenError",
                 "InvalidAccessTokenError"}
          [] s = 404 ->
                {"BlogNotFoundError", "ChatMemberNotFoundError", "ChatNotFoundError"}
          [] s = 409 ->
                {"EmailAlreadyInUseError", "UserAlreadySignedInOnDeviceError"}]

Statuses == DOMAIN ExpectedErrorMappings

(* What a handler may throw: an HttpException of Nest, with a list of      *)
(* messages when it comes from the ValidationPipe, or any other error.     *)
HttpException(status, list) == [http |-> TRUE, status |-> status, list |-> list]
Thrown(class) == [http |-> FALSE, class |-> class]

(* An answer, and whether the error is reported to Sentry. *)
Answer(status, code, reported) == [status |-> status, code |-> code, reported |-> reported]

(* The answers of the handlers modelled. *)
Codes ==
    {"created", "validation_error", "bad_request", "internal_server_error"}
        \cup UNION {ExpectedErrorMappings[s] : s \in Statuses}

AnswerType == [status : {201, 500} \cup Statuses, code : Codes, reported : BOOLEAN]

UNEXPECTED_EXCEPTION == Answer(500, "internal_server_error", TRUE)

(* Mutant: an error the table does not have is answered as the fault of    *)
(* the client.                                                             *)
mapErrorBlamingClient(class) ==
    IF \E s \in Statuses : class \in ExpectedErrorMappings[s]
    THEN Answer(CHOOSE s \in Statuses : class \in ExpectedErrorMappings[s], class, FALSE)
    ELSE Answer(400, "bad_request", FALSE)

mapError(class) ==
    IF \E s \in Statuses : class \in ExpectedErrorMappings[s]
    THEN Answer(CHOOSE s \in Statuses : class \in ExpectedErrorMappings[s], class, FALSE)
    ELSE UNEXPECTED_EXCEPTION

extractHttpExceptionCode(error) ==
    CASE error.list -> "validation_error"
      [] ~error.list /\ error.status = 400 -> "bad_request"
      [] ~error.list /\ error.status = 401 -> "unauthorized"
      [] ~error.list /\ error.status = 403 -> "forbidden"
      [] ~error.list /\ error.status = 404 -> "not_found"
      [] ~error.list /\ error.status = 409 -> "conflict"
      [] OTHER -> "http_exception"

(* GlobalHttpRequestExceptionFilter.catch *)
catch(error) ==
    IF error.http
    THEN Answer(error.status, extractHttpExceptionCode(error), FALSE)
    ELSE mapError(error.class)
===============================================================================
