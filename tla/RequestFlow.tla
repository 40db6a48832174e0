----------------------------- MODULE RequestFlow -----------------------------
(***************************************************************************)
(* One call of a Client API function, from the call to the application's    *)
(* callback, for the functions that may need several http requests:         *)
(*                                                                          *)
(*   preview_url, download, get_thumbnail   fall back to older endpoints    *)
(*   get_summary                            falls back to the hierarchy API *)
(*   registration, delete_device(s) and     ask the application to complete *)
(*   device_signing_upload                  an authentication stage (UIA)   *)
(*                                                                          *)
(* and for the plain get, put, post and delete_ every other function makes. *)
(* The continuation of each request is the lambda the function passes to    *)
(* get, post or delete_; what that lambda receives is HttpResult's.         *)
(***************************************************************************)
EXTENDS HttpResult

CONSTANTS
    Functions,    \* the API functions explored
    MaxNext       \* how often the application completes a stage (a bound)

AllFunctions == {"get", "put", "post", "delete", "preview_url", "download",
                 "get_thumbnail", "get_summary", "registration",
                 "delete_devices", "device_signing_upload"}

UIAFunctions == {"registration", "delete_devices", "device_signing_upload"}

ASSUME FunctionsAssumption == Functions \subseteq AllFunctions

ASSUME MaxNextAssumption == MaxNext \in Nat

VARIABLES
    fn,           \* the function called
    opt,          \* get_thumbnail: try_download; get_summary: given an alias
    state,        \* "idle", "flight", "prompted" or "done"
    sent,         \* the endpoints requested so far, in order
    transfer,     \* the last transfer coeurl reported
    calls         \* the invocations of the application's callback

vars == <<fn, opt, state, sent, transfer, calls>>

NoTransfer == [err_code |-> 0, status |-> 0,
               body |-> [response |-> "no", error |-> "no"]]

\* The endpoint a function asks first.
FirstEndpoint(f) ==
    CASE f = "preview_url"   -> "preview_v1"
      [] f = "download"      -> "download_v1"
      [] f = "get_thumbnail" -> "thumbnail_v1"
      [] f = "get_summary"   -> "summary"
      [] OTHER               -> f

endpoint == sent[Len(sent)]

\* What a continuation does with an invocation: run the application's callback,
\* run the UIA prompt, or ask another endpoint.
Callback == [do |-> "callback"]
Prompt == [do |-> "prompt"]
Ask(e) == [do |-> "ask", endpoint |-> e]

\* `err && status_code is one of codes`
failed(i, codes) == i.err # NoError /\ i.err.status_code \in codes

-----------------------------------------------------------------------------
(* The continuations, one per function that has one of its own.             *)

preview_url(i) ==
    IF endpoint = "preview_v1" /\ failed(i, {400, 404})
      THEN Ask("preview_v3") ELSE Callback

\* Mutated form: the fallback asks the endpoint that was just found missing.
download_bug(i) ==
    IF failed(i, {400, 404}) THEN Ask("download_v1") ELSE Callback

download(i) ==
    IF endpoint = "download_v1" /\ failed(i, {400, 404})
      THEN Ask("download_v3") ELSE Callback

\* Mutated form: the old thumbnail endpoint's 404 goes to the application.
get_thumbnail_bug(i) ==
    CASE endpoint = "thumbnail_v1" /\ failed(i, {404}) /\ opt -> Ask("download_v1")
      [] endpoint = "thumbnail_v1" /\ failed(i, {400, 404}) /\ ~ (opt /\ failed(i, {404}))
           -> Ask("thumbnail_v3")
      [] endpoint \in {"download_v1", "download_v3"} -> download(i)
      [] OTHER -> Callback

get_thumbnail(i) ==
    CASE endpoint \in {"thumbnail_v1", "thumbnail_v3"} /\ opt /\ failed(i, {404})
           -> Ask("download_v1")
      [] endpoint = "thumbnail_v1" /\ failed(i, {400, 404}) /\ ~ (opt /\ failed(i, {404}))
           -> Ask("thumbnail_v3")
      [] endpoint \in {"download_v1", "download_v3"} -> download(i)
      [] OTHER -> Callback

\* Mutated form: an alias that does not resolve is dropped without a callback.
get_summary_bug(i) ==
    CASE endpoint = "summary" /\ failed(i, {400, 404}) /\ opt -> Ask("alias")
      [] endpoint = "summary" /\ failed(i, {400, 404}) /\ ~ opt -> Ask("hierarchy")
      [] endpoint = "alias" /\ i.value = "full" -> Ask("hierarchy")
      [] endpoint = "alias" /\ i.value # "full" -> Prompt
      [] OTHER -> Callback

\* Mutated form: the hierarchy is asked on any missing summary, also after a
\* transfer that failed on the way.
get_summary_any(i) ==
    CASE endpoint = "summary" /\ failed(i, {400, 404}) /\ opt -> Ask("alias")
      [] endpoint = "summary" /\ i.value # "full" /\ ~ opt -> Ask("hierarchy")
      [] endpoint = "alias" /\ i.value = "full" -> Ask("hierarchy")
      [] OTHER -> Callback

\* The alias continuation looks at the room id only, not at the error: an http
\* error whose body has a room id goes on to the hierarchy.
get_summary(i) ==
    CASE endpoint = "summary" /\ failed(i, {400, 404}) /\ opt -> Ask("alias")
      [] endpoint = "summary" /\ failed(i, {400, 404}) /\ ~ opt -> Ask("hierarchy")
      [] endpoint = "alias" /\ i.value = "full" -> Ask("hierarchy")
      [] OTHER -> Callback

\* registration prompts on every 401.
registration(i) == IF failed(i, {401}) THEN Prompt ELSE Callback

\* delete_device, delete_devices and device_signing_upload.
uia_post(i) ==
    IF failed(i, {401}) /\ i.err.matrix_error = "flows" THEN Prompt ELSE Callback

continuation(i) ==
    CASE fn = "preview_url"   -> preview_url(i)
      [] fn = "download"      -> download(i)
      [] fn = "get_thumbnail" -> get_thumbnail(i)
      [] fn = "get_summary"   -> get_summary(i)
      [] fn = "registration"  -> registration(i)
      [] fn \in {"delete_devices", "device_signing_upload"} -> uia_post(i)
      [] OTHER                -> Callback

\* The value handed to the application: get_summary passes the first room of
\* a hierarchy, and a default-constructed chunk when there is none.
handed(i) ==
    IF fn = "get_summary" /\ endpoint \in {"alias", "hierarchy"} /\ i.value # "full"
      THEN [i EXCEPT !.value = NoValue] ELSE i

-----------------------------------------------------------------------------
Init ==
    /\ fn \in Functions
    /\ opt \in (IF fn \in {"get_thumbnail", "get_summary"} THEN BOOLEAN ELSE {FALSE})
    /\ state = "idle"
    /\ sent = <<>>
    /\ transfer = NoTransfer
    /\ calls = <<>>

\* The application calls the function, which submits its first request.
Call ==
    /\ state = "idle"
    /\ state' = "flight"
    /\ sent' = <<FirstEndpoint(fn)>>
    /\ UNCHANGED <<fn, opt, transfer, calls>>

\* The transfer of a get, put or post ends; invs are the invocations of the
\* continuation, the first of which decides what comes next.
Complete(t, throws) ==
    LET invs == prepare_callback(t, throws)
        then == continuation(invs[1])
    IN  /\ state = "flight"
        /\ fn # "delete"
        /\ transfer' = t
        /\ \/ /\ then.do = "callback"
              /\ state' = "done"
              /\ calls' = calls \o [k \in DOMAIN invs |-> handed(invs[k])]
              /\ UNCHANGED sent
           \/ /\ then.do = "prompt"
              /\ state' = "prompted"
              /\ UNCHANGED <<sent, calls>>
           \/ /\ then.do = "ask"
              /\ sent' = Append(sent, then.endpoint)
              /\ UNCHANGED <<state, calls>>
        /\ UNCHANGED <<fn, opt>>

\* The transfer of a delete_ ends.
CompleteDelete(t) ==
    /\ state = "flight"
    /\ fn = "delete"
    /\ transfer' = t
    /\ state' = "done"
    /\ \E e \in delete_errors(t) : calls' = Append(calls, [err |-> e, value |-> NoValue])
    /\ UNCHANGED <<fn, opt, sent>>

\* UIAHandler::next: the application completed a stage, and the handler posts
\* the request it cached again, with the auth data.
next ==
    /\ state = "prompted"
    /\ Len(sent) <= MaxNext
    /\ state' = "flight"
    /\ sent' = Append(sent, endpoint)
    /\ UNCHANGED <<fn, opt, transfer, calls>>

Done ==
    /\ state = "done" \/ (state = "prompted" /\ Len(sent) > MaxNext)
    /\ UNCHANGED vars

Transferred == \E t \in Transfer :
    (\E throws \in Throws : Complete(t, throws)) \/ CompleteDelete(t)

Next == Call \/ Transferred \/ next \/ Done

\* coeurl ends every transfer: an answer, an error or its timeout.
Fairness == WF_vars(Transferred)

Spec == Init /\ [][Next]_vars /\ Fairness

-----------------------------------------------------------------------------
TypeOK ==
    /\ fn \in Functions
    /\ opt \in BOOLEAN
    /\ state \in {"idle", "flight", "prompted", "done"}
    /\ sent \in Seq(AllFunctions \cup
                    {"preview_v1", "preview_v3", "download_v1", "download_v3",
                     "thumbnail_v1", "thumbnail_v3", "summary", "alias", "hierarchy"})
    /\ transfer \in Transfer \cup {NoTransfer}
    /\ calls \in Seq([err : ClientError \cup {NoError}, value : {"no", "empty", "full"}])

\* The application's callback runs exactly once, when the flow is over, and not
\* while a request or a prompt is outstanding.  It holds for a callback that
\* throws because invoke_callback keeps the exception from the catch clause of
\* prepare_callback, which would invoke the continuation again.
CallbackOnce == Len(calls) = IF state = "done" THEN 1 ELSE 0

\* The application is told of success exactly when the last request of the flow
\* succeeded: no network error, a 2xx status and a body that is a Response
\* (delete_ does not read the body); earlier failures that were answered by a
\* fallback do not show, later ones do.
NoSilentFailure ==
    state = "done" =>
      \A i \in DOMAIN calls :
        calls[i].err = NoError <=>
          /\ transfer.err_code = 0
          /\ transfer.status \in 200 .. 299
          /\ fn = "delete" \/ transfer.body.response # "no"

\* A further request is made only on what the server answered, never after a
\* transfer that failed on the way.  preview_url, download, get_thumbnail and
\* get_summary, the last for both of its ways to the hierarchy, fall back on a 400
\* or a 404 of the newer endpoint; the hierarchy of a resolved alias is asked
\* only for the room id in that answer.
FallbackJustified ==
    [][ state = "flight" /\ Len(sent') > Len(sent)
          => /\ transfer'.err_code = 0
             /\ IF endpoint = "alias" THEN transfer'.body.response = "full"
                                      ELSE transfer'.status \in {400, 404} ]_vars

\* No flow of fallbacks asks the same endpoint twice, so each of them is finite:
\* get_thumbnail enters download, which has a fallback of its own.
EndpointOnce ==
    fn \notin UIAFunctions =>
      \A i, j \in DOMAIN sent : sent[i] = sent[j] => i = j

\* client.hpp on get_thumbnail: "If the thumbnail isn't found and `try_download`
\* is `true` it will try to use the `/download` endpoint": the application never
\* gets the 404 of a thumbnail endpoint.
ThumbnailDownloadTried ==
    state = "done" /\ fn = "get_thumbnail" /\ opt
      => ~ /\ endpoint \in {"thumbnail_v1", "thumbnail_v3"}
           /\ transfer.err_code = 0
           /\ transfer.status = 404

\* Every call ends with the application's callback, or waits for the application
\* to complete an authentication stage.
CallbackEventually ==
    state = "flight" ~> (state = "done" \/ (state = "prompted" /\ fn \in UIAFunctions))

\* errors.hpp documents status_code as "Status code of the associated http
\* response.": one that is set is the status of the response.
StatusTrusted ==
    \A i \in DOMAIN calls :
      calls[i].err # NoError /\ calls[i].err.status_code # 0
        => transfer.err_code = 0 /\ calls[i].err.status_code = transfer.status

\* client.hpp on UIAPrompt: "The callback for when a new UIA stage needs to be
\* completed": a prompt means that the server described a stage.
PromptOnlyForStage == state = "prompted" => transfer.body.error = "flows"

-----------------------------------------------------------------------------
(* The inductive invariant behind the properties above.                     *)

\* How far along the fallbacks of its function an endpoint is.
rank(e) ==
    CASE e \in {"preview_v3", "thumbnail_v3", "alias"} -> 1
      [] e \in {"download_v1", "hierarchy"} -> 2
      [] e = "download_v3" -> 3
      [] OTHER -> 0

\* Fallbacks only go forward, whatever function entered them: get_thumbnail
\* enters download at download_v1.
FallbacksForward ==
    fn \notin UIAFunctions =>
      \A i, j \in DOMAIN sent : i < j => rank(sent[i]) < rank(sent[j])

FlowInv ==
    /\ TypeOK
    /\ state = "idle" <=> sent = <<>>
    /\ state = "prompted" => fn \in UIAFunctions
    /\ CallbackOnce
    /\ NoSilentFailure
    /\ FallbacksForward
    /\ ThumbnailDownloadTried
=============================================================================
