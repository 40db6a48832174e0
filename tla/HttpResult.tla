----------------------------- MODULE HttpResult -----------------------------
(***************************************************************************)
(* What the http layer of mtxclient hands to an application callback when   *)
(* a transfer ends: mtx::http::Client::prepare_callback, used by get, put   *)
(* and post, and mtx::http::Client::delete_, which has a handler of its     *)
(* own.  A transfer is the triple coeurl reports: the curl error code, the  *)
(* http status and the body, the body reduced to what it parses as.         *)
(***************************************************************************)
EXTENDS Integers, Sequences

CONSTANTS
    NetError,       \* nonzero curl error codes
    Status,         \* http status codes (0: the transfer had no response)
    Indeterminate   \* what an uninitialised int may hold

ASSUME HttpResultAssumption ==
    /\ NetError \subseteq Nat \ {0}
    /\ Status \subseteq Nat
    /\ Indeterminate \subseteq Nat
    /\ 0 \in Indeterminate

\* A body, as the two types deserialize() tries on it see it.  They are
\* independent: a download (Response = std::string) accepts every body, and any
\* json object is accepted as an Error.
\*   response  not a Response, an empty one (no room id, no rooms), a full one
\*   error     not an Error, one without and one with authentication flows
Body == [response : {"no", "empty", "full"}, error : {"no", "plain", "flows"}]

Transfer == [err_code : NetError \cup {0}, status : Status, body : Body]

\* A default-constructed Response, passed on when none was read.
NoValue == "no"

\* ClientError: matrix_error as the kind of Error read, parse_error as whether
\* it is set.
ClientError == [error_code : Nat, status_code : Nat,
                matrix_error : {"no", "plain", "flows"}, parse_error : BOOLEAN]

\* The value-initialised ClientError, `client_error{}`.
CleanError == [error_code |-> 0, status_code |-> 0,
               matrix_error |-> "no", parse_error |-> FALSE]

\* The empty optional: the callback's "no error".
NoError == [none |-> TRUE]

\* Mutated form: 300 counted as success.
is_success_bug(status) == status >= 200 /\ status <= 300

\* "We only count 2xx status codes as success."
is_success(status) == status >= 200 /\ status < 300

\* The code given to an http error whose body is not an Error.
CURLE_ABORTED_BY_CALLBACK == 42

-----------------------------------------------------------------------------
(* get, put and post.                                                       *)

\* Mutated form: a negative code for an unparsable error body.
status_error_bug(t) ==
    [CleanError EXCEPT !.status_code = t.status,
                       !.matrix_error = t.body.error,
                       !.error_code = IF t.body.error = "no" THEN -1 ELSE 0]

\* The error branch taken for a status that is not 2xx.
status_error(t) ==
    IF t.body.error = "no"
      THEN [CleanError EXCEPT !.status_code = t.status, !.parse_error = TRUE,
                              !.error_code = CURLE_ABORTED_BY_CALLBACK]
      ELSE [CleanError EXCEPT !.status_code = t.status,
                              !.matrix_error = t.body.error]

\* Mutated form: the status is recorded before the network error is looked at.
client_error_bug(t) ==
    CASE t.err_code # 0 ->
           [CleanError EXCEPT !.error_code = t.err_code, !.status_code = t.status]
      [] t.err_code = 0 /\ ~ is_success(t.status) -> status_error(t)
      [] t.err_code = 0 /\ is_success(t.status) /\ t.body.response # "no" -> NoError
      [] OTHER -> [CleanError EXCEPT !.parse_error = TRUE]

\* The ClientError the callback receives, NoError for success.
client_error(t) ==
    CASE t.err_code # 0 -> [CleanError EXCEPT !.error_code = t.err_code]
      [] t.err_code = 0 /\ ~ is_success(t.status) -> status_error(t)
      [] t.err_code = 0 /\ is_success(t.status) /\ t.body.response # "no" -> NoError
      [] OTHER -> [CleanError EXCEPT !.parse_error = TRUE]

\* The Response passed along: read from the body also for an http error, "in
\* case we have an endpoint that doesn't return an error struct".
response_data(t) == IF t.err_code # 0 THEN NoValue ELSE t.body.response

\* How an application callback may end: normally, by throwing something derived
\* from std::exception, or by throwing something else.
Throws == {"no", "std", "other"}

\* Mutated form: no catch clause around the application's callback.
invoke_callback_bug(throws) == throws

\* invoke_callback: the exception that leaves it, given the one it caught.
invoke_callback(throws) == IF throws = "std" THEN "no" ELSE throws

\* The invocations of the application callback, in order.  Only the success
\* branch invokes it inside a try block, whose handler catches std::exception
\* and goes on to invoke it once more.
prepare_callback(t, throws) ==
    LET first == [err |-> client_error(t), value |-> response_data(t)]
        again == [err |-> [CleanError EXCEPT !.parse_error = TRUE],
                  value |-> NoValue]
    IN  IF first.err = NoError /\ invoke_callback(throws) = "std"
          THEN <<first, again>>
          ELSE <<first>>

-----------------------------------------------------------------------------
(* delete_ declares `ClientError client_error;` without an initialiser, so  *)
(* the members it does not assign are indeterminate: the operator returns   *)
(* the set of errors the callback may receive.                              *)

delete_errors(t) ==
    IF t.err_code # 0
      THEN {[CleanError EXCEPT !.error_code = t.err_code, !.status_code = i] :
              i \in Indeterminate}
      ELSE IF ~ is_success(t.status)
             THEN {[CleanError EXCEPT !.error_code = i,
                                      !.status_code = t.status,
                                      !.matrix_error = t.body.error,
                                      !.parse_error = t.body.error = "no"] :
                     i \in Indeterminate}
             ELSE {NoError}
=============================================================================
