-------------------------- MODULE RequestFlowProofs --------------------------
(***************************************************************************)
(* One call of an API function, for every set of status codes and network   *)
(* errors and every number of authentication stages: the callback runs once, *)
(* tells the truth about the last transfer, and fallbacks end.              *)
(***************************************************************************)
EXTENDS RequestFlow, TLAPS

\* An error that is set is not the empty optional.
LEMMA ErrorIsSet == \A e \in ClientError : e # NoError
<1> SUFFICES ASSUME NEW e \in ClientError, e = NoError PROVE FALSE
  OBVIOUS
<1>1. DOMAIN e = {"error_code", "status_code", "matrix_error", "parse_error"}
  BY DEF ClientError
<1>2. DOMAIN e = {"none"}
  BY DEF NoError
<1> QED
  BY <1>1, <1>2

\* The success test of prepare_callback.
LEMMA SuccessRange ==
    ASSUME NEW s \in Nat PROVE is_success(s) <=> s \in 200 .. 299
BY DEF is_success

\* What prepare_callback reports of a transfer: no error exactly for a 2xx answer
\* that was read; a status only for a transfer that brought one; and always the
\* status of one that is not 2xx.
LEMMA ClientErrorFacts ==
    ASSUME NEW t \in Transfer
    PROVE  /\ client_error(t) \in ClientError \cup {NoError}
           /\ client_error(t) = NoError <=>
                /\ t.err_code = 0
                /\ t.status \in 200 .. 299
                /\ t.body.response # "no"
           /\ client_error(t) # NoError /\ client_error(t).status_code # 0
                => t.err_code = 0 /\ client_error(t).status_code = t.status
           /\ t.err_code = 0 /\ t.status \notin 200 .. 299
                => client_error(t).status_code = t.status
<1> USE HttpResultAssumption
<1>1. /\ t.err_code \in Nat /\ t.status \in Nat /\ t.body \in Body
      /\ is_success(t.status) <=> t.status \in 200 .. 299
  BY SuccessRange DEF Transfer
<1>2. CleanError \in ClientError
  BY DEF CleanError, ClientError
<1>3. CASE t.err_code # 0
  <2>1. client_error(t) = [CleanError EXCEPT !.error_code = t.err_code]
    BY <1>3 DEF client_error
  <2>2. client_error(t) \in ClientError /\ client_error(t).status_code = 0
    BY <1>1, <2>1 DEF CleanError, ClientError
  <2> QED
    BY <1>3, <2>2, ErrorIsSet
<1>4. CASE t.err_code = 0 /\ ~ is_success(t.status)
  <2>1. client_error(t) = status_error(t)
    BY <1>4 DEF client_error
  <2>2. status_error(t) \in ClientError /\ status_error(t).status_code = t.status
    BY <1>1 DEF status_error, CleanError, ClientError, CURLE_ABORTED_BY_CALLBACK, Body
  <2> QED
    BY <1>1, <1>4, <2>1, <2>2, ErrorIsSet
<1>5. CASE t.err_code = 0 /\ is_success(t.status) /\ t.body.response # "no"
  <2>1. client_error(t) = NoError
    BY <1>5 DEF client_error
  <2> QED
    BY <1>1, <1>5, <2>1
<1>6. CASE t.err_code = 0 /\ is_success(t.status) /\ t.body.response = "no"
  <2>1. client_error(t) = [CleanError EXCEPT !.parse_error = TRUE]
    BY <1>6 DEF client_error
  <2>2. client_error(t) \in ClientError /\ client_error(t).status_code = 0
    BY <2>1 DEF CleanError, ClientError
  <2> QED
    BY <1>1, <1>6, <2>2, ErrorIsSet
<1> QED
  BY <1>3, <1>4, <1>5, <1>6

\* invoke_callback lets no std::exception through, so prepare_callback's catch
\* clause never invokes the continuation a second time.
LEMMA InvokedOnce ==
    ASSUME NEW t \in Transfer, NEW throws \in Throws
    PROVE  prepare_callback(t, throws)
             = <<[err |-> client_error(t), value |-> response_data(t)]>>
BY DEF prepare_callback, invoke_callback, Throws

\* delete_ reports no error exactly for a 2xx status, whatever the members it
\* leaves uninitialised hold.
LEMMA DeleteErrorFacts ==
    ASSUME NEW t \in Transfer, NEW e \in delete_errors(t)
    PROVE  /\ e \in ClientError \cup {NoError}
           /\ e = NoError <=> t.err_code = 0 /\ t.status \in 200 .. 299
<1> USE HttpResultAssumption
<1>1. /\ t.err_code \in Nat /\ t.status \in Nat /\ t.body \in Body
      /\ is_success(t.status) <=> t.status \in 200 .. 299
  BY SuccessRange DEF Transfer
<1>2. CASE t.err_code # 0
  <2>1. PICK i \in Indeterminate :
          e = [CleanError EXCEPT !.error_code = t.err_code, !.status_code = i]
    BY <1>2 DEF delete_errors
  <2>2. e \in ClientError
    BY <1>1, <2>1 DEF CleanError, ClientError
  <2> QED
    BY <1>2, <2>2, ErrorIsSet
<1>3. CASE t.err_code = 0 /\ ~ is_success(t.status)
  <2>1. PICK i \in Indeterminate :
          e = [CleanError EXCEPT !.error_code = i, !.status_code = t.status,
                                 !.matrix_error = t.body.error,
                                 !.parse_error = t.body.error = "no"]
    BY <1>3 DEF delete_errors
  <2>2. e \in ClientError
    BY <1>1, <2>1 DEF CleanError, ClientError, Body
  <2> QED
    BY <1>1, <1>3, <2>2, ErrorIsSet
<1>4. CASE t.err_code = 0 /\ is_success(t.status)
  BY <1>1, <1>4 DEF delete_errors
<1> QED
  BY <1>2, <1>3, <1>4

-----------------------------------------------------------------------------
(* What the continuations may do with an invocation.                        *)

Endpoint == AllFunctions \cup
    {"preview_v1", "preview_v3", "download_v1", "download_v3",
     "thumbnail_v1", "thumbnail_v3", "summary", "alias", "hierarchy"}

Invocation == [err : ClientError \cup {NoError}, value : {"no", "empty", "full"}]

\* A continuation runs the callback, prompts or asks an endpoint.  It asks only
\* endpoints further along; all but the hierarchy only for a 400 or a 404.  It
\* prompts only in a function that takes a UIA handler.  In get_thumbnail with
\* try_download the callback is never run for the 404 of a thumbnail.
LEMMA ContinuationFacts ==
    ASSUME NEW i \in Invocation
    PROVE  LET then == continuation(i)
           IN  /\ then.do \in {"callback", "prompt", "ask"}
               /\ then.do = "prompt" => fn \in UIAFunctions
               /\ then.do = "ask" =>
                    /\ then.endpoint \in Endpoint
                    /\ rank(endpoint) < rank(then.endpoint)
                    /\ IF endpoint = "alias" THEN i.value = "full" ELSE failed(i, {400, 404})
                    /\ fn \notin UIAFunctions
               /\ then.do = "callback" /\ fn = "get_thumbnail" /\ opt
                    => ~ (endpoint \in {"thumbnail_v1", "thumbnail_v3"} /\ failed(i, {404}))
<1> DEFINE Good(then) ==
      /\ then.do \in {"callback", "prompt", "ask"}
      /\ then.do # "prompt"
      /\ then.do = "ask" =>
           /\ then.endpoint \in Endpoint
           /\ rank(endpoint) < rank(then.endpoint)
           /\ IF endpoint = "alias" THEN i.value = "full" ELSE failed(i, {400, 404})
<1>1. Good(Callback) /\ Callback.do = "callback" /\ Prompt.do = "prompt"
  BY DEF Callback, Prompt
<1>2. failed(i, {404}) => failed(i, {400, 404})
  BY DEF failed
<1>3. ASSUME NEW e \in Endpoint, rank(endpoint) < rank(e), 
             IF endpoint = "alias" THEN i.value = "full" ELSE failed(i, {400, 404})
      PROVE  Good(Ask(e)) /\ Ask(e).do = "ask"
  BY <1>3 DEF Ask
<1>4. \A e \in Endpoint : rank(e) =
        IF e \in {"preview_v3", "thumbnail_v3", "alias"} THEN 1
        ELSE IF e \in {"download_v1", "hierarchy"} THEN 2
        ELSE IF e = "download_v3" THEN 3 ELSE 0
  BY DEF rank, Endpoint
<1>5. {"preview_v1", "preview_v3", "download_v1", "download_v3", "thumbnail_v1",
       "thumbnail_v3", "summary", "alias", "hierarchy"} \subseteq Endpoint
  BY DEF Endpoint
<1> HIDE DEF Good
<1>6. Good(preview_url(i))
  <2>1. CASE endpoint = "preview_v1" /\ failed(i, {400, 404})
    <3>1. preview_url(i) = Ask("preview_v3")
      BY <2>1 DEF preview_url
    <3> QED
      BY <2>1, <3>1, <1>3, <1>4, <1>5
  <2> QED
    BY <1>1, <2>1 DEF preview_url
<1>7. Good(download(i))
  <2>1. CASE endpoint = "download_v1" /\ failed(i, {400, 404})
    <3>1. download(i) = Ask("download_v3")
      BY <2>1 DEF download
    <3> QED
      BY <2>1, <3>1, <1>3, <1>4, <1>5
  <2> QED
    BY <1>1, <2>1 DEF download
<1>8. /\ Good(get_thumbnail(i))
      /\ opt /\ endpoint \in {"thumbnail_v1", "thumbnail_v3"} /\ failed(i, {404})
           => get_thumbnail(i).do # "callback"
  <2> DEFINE found == endpoint \in {"thumbnail_v1", "thumbnail_v3"} /\ opt /\ failed(i, {404})
             old == endpoint = "thumbnail_v1" /\ failed(i, {400, 404}) /\ ~ (opt /\ failed(i, {404}))
             in_download == endpoint \in {"download_v1", "download_v3"}
  <2>1. CASE found
    <3>1. get_thumbnail(i) = Ask("download_v1")
      BY <2>1 DEF get_thumbnail
    <3> QED
      BY <2>1, <3>1, <1>2, <1>3, <1>4, <1>5
  <2>2. CASE old
    <3>1. get_thumbnail(i) = Ask("thumbnail_v3")
      BY <2>2 DEF get_thumbnail
    <3> QED
      BY <2>2, <3>1, <1>3, <1>4, <1>5
  <2>3. CASE in_download
    <3>1. get_thumbnail(i) = download(i)
      BY <2>3 DEF get_thumbnail
    <3> QED
      BY <2>3, <3>1, <1>7
  <2>4. CASE ~ found /\ ~ old /\ ~ in_download
    <3>1. get_thumbnail(i) = Callback
      BY <2>4 DEF get_thumbnail
    <3> QED
      BY <2>4, <3>1, <1>1
  <2> QED
    BY <2>1, <2>2, <2>3, <2>4
<1>9. Good(get_summary(i))
  <2> DEFINE aliased == endpoint = "summary" /\ failed(i, {400, 404}) /\ opt
             plain == endpoint = "summary" /\ failed(i, {400, 404}) /\ ~ opt
             resolved == endpoint = "alias" /\ i.value = "full"
  <2>1. CASE aliased
    <3>1. get_summary(i) = Ask("alias")
      BY <2>1 DEF get_summary
    <3> QED
      BY <2>1, <3>1, <1>3, <1>4, <1>5
  <2>2. CASE plain
    <3>1. get_summary(i) = Ask("hierarchy")
      BY <2>2 DEF get_summary
    <3> QED
      BY <2>2, <3>1, <1>3, <1>4, <1>5
  <2>3. CASE resolved
    <3>1. get_summary(i) = Ask("hierarchy")
      BY <2>3 DEF get_summary
    <3> QED
      BY <2>3, <3>1, <1>3, <1>4, <1>5
  <2>4. CASE ~ aliased /\ ~ plain /\ ~ resolved
    <3>1. get_summary(i) = Callback
      BY <2>4 DEF get_summary
    <3> QED
      BY <3>1, <1>1
  <2> QED
    BY <2>1, <2>2, <2>3, <2>4
<1>10. registration(i) \in {Prompt, Callback} /\ uia_post(i) \in {Prompt, Callback}
  BY DEF registration, uia_post
<1>11. CASE fn \in UIAFunctions
  <2>1. continuation(i) \in {Prompt, Callback}
    BY <1>10, <1>11 DEF continuation, UIAFunctions
  <2> QED
    BY <1>1, <1>11, <2>1 DEF UIAFunctions
<1>12. CASE fn = "get_thumbnail"
  <2>1. continuation(i) = get_thumbnail(i)
    BY <1>12 DEF continuation
  <2> QED
    BY <1>8, <1>12, <2>1 DEF Good, UIAFunctions
<1>13. CASE fn \notin UIAFunctions /\ fn # "get_thumbnail"
  <2>1. continuation(i) \in {preview_url(i), download(i), get_summary(i), Callback}
    BY <1>13 DEF continuation, UIAFunctions
  <2> QED
    BY <1>1, <1>6, <1>7, <1>9, <1>13, <2>1 DEF Good
<1> QED
  BY <1>11, <1>12, <1>13

-----------------------------------------------------------------------------
(* The steps.                                                               *)

\* What a Complete step hands on: one invocation, and what it knows of the
\* transfer.
LEMMA InvocationFacts ==
    ASSUME NEW t \in Transfer, NEW throws \in Throws,
           NEW i, i = [err |-> client_error(t), value |-> response_data(t)]
    PROVE  /\ prepare_callback(t, throws) = <<i>>
           /\ i \in Invocation
           /\ handed(i) \in Invocation /\ handed(i).err = i.err
           /\ \A codes \in SUBSET (Nat \ {0}) :
                failed(i, codes) => t.err_code = 0 /\ t.status \in codes
           /\ t.err_code = 0 /\ t.status = 404 => failed(i, {404})
           /\ i.value = "full" => t.err_code = 0 /\ t.body.response = "full"
<1>1. prepare_callback(t, throws) = <<i>>
  BY InvokedOnce
<1>2. i \in Invocation
  BY ClientErrorFacts DEF Invocation, response_data, NoValue, Transfer, Body
<1>3. handed(i) \in Invocation /\ handed(i).err = i.err
  BY <1>2 DEF handed, Invocation, NoValue
<1>4. \A codes \in SUBSET (Nat \ {0}) :
        failed(i, codes) => t.err_code = 0 /\ t.status \in codes
  BY ClientErrorFacts DEF failed
<1>5. t.err_code = 0 /\ t.status = 404 => failed(i, {404})
  BY ClientErrorFacts DEF failed
<1>6. i.value = "full" => t.err_code = 0 /\ t.body.response = "full"
  BY DEF response_data, NoValue
<1> QED
  BY <1>1, <1>2, <1>3, <1>4, <1>5, <1>6

\* The endpoint a request goes to is a name of TypeOK's, and the first one has
\* nothing before it.
LEMMA FirstEndpointType == fn \in Functions => FirstEndpoint(fn) \in Endpoint
BY FunctionsAssumption DEF FirstEndpoint, Endpoint, AllFunctions

\* In the initial state nothing was requested and nobody was called.
LEMMA FlowInit == Init => FlowInv
<1> SUFFICES ASSUME Init PROVE FlowInv
  OBVIOUS
<1>1. opt \in BOOLEAN
  <2>1. CASE fn \in {"get_thumbnail", "get_summary"}
    BY <2>1 DEF Init
  <2>2. CASE fn \notin {"get_thumbnail", "get_summary"}
    BY <2>2 DEF Init
  <2> QED
    BY <2>1, <2>2
<1>2. TypeOK
  BY <1>1 DEF Init, TypeOK
<1>3. FallbacksForward
  BY DEF Init, FallbacksForward
<1> QED
  BY <1>2, <1>3 DEF Init, FlowInv, CallbackOnce, NoSilentFailure, ThumbnailDownloadTried

\* Every step of a flow keeps the invariant.
LEMMA FlowNext == FlowInv /\ [Next]_vars => FlowInv'
<1> SUFFICES ASSUME FlowInv, [Next]_vars PROVE FlowInv'
  OBVIOUS
<1> USE DEF FlowInv
<1>1. sent \in Seq(Endpoint) /\ calls \in Seq(Invocation)
  BY DEF TypeOK, Endpoint, Invocation
<1>2. CASE Call
  <2>1. /\ state = "idle" /\ state' = "flight" /\ sent' = <<FirstEndpoint(fn)>>
        /\ UNCHANGED <<fn, opt, transfer, calls>>
    BY <1>2 DEF Call
  <2>2. TypeOK'
    BY <2>1, FirstEndpointType DEF TypeOK, Endpoint
  <2>3. FallbacksForward'
    BY <2>1 DEF FallbacksForward
  <2> QED
    BY <2>1, <2>2, <2>3 DEF CallbackOnce, NoSilentFailure, ThumbnailDownloadTried
<1>3. ASSUME NEW t \in Transfer, NEW throws \in Throws, Complete(t, throws)
      PROVE  FlowInv'
  <2> DEFINE i == [err |-> client_error(t), value |-> response_data(t)]
             then == continuation(i)
  <2>1. /\ prepare_callback(t, throws) = <<i>> /\ i \in Invocation
        /\ handed(i) \in Invocation /\ handed(i).err = i.err
        /\ t.err_code = 0 /\ t.status = 404 => failed(i, {404})
    BY InvocationFacts
  <2>2. /\ then.do \in {"callback", "prompt", "ask"}
        /\ then.do = "prompt" => fn \in UIAFunctions
        /\ then.do = "ask" => /\ then.endpoint \in Endpoint
                              /\ rank(endpoint) < rank(then.endpoint)
                              /\ fn \notin UIAFunctions
        /\ then.do = "callback" /\ fn = "get_thumbnail" /\ opt
             => ~ (endpoint \in {"thumbnail_v1", "thumbnail_v3"} /\ failed(i, {404}))
    BY <2>1, ContinuationFacts
  <2>3. /\ state = "flight" /\ fn # "delete" /\ transfer' = t
        /\ UNCHANGED <<fn, opt>>
        /\ \/ /\ then.do = "callback" /\ state' = "done"
              /\ calls' = calls \o [k \in DOMAIN <<i>> |-> handed(<<i>>[k])]
              /\ UNCHANGED sent
           \/ then.do = "prompt" /\ state' = "prompted" /\ UNCHANGED <<sent, calls>>
           \/ /\ then.do = "ask" /\ sent' = Append(sent, then.endpoint)
              /\ UNCHANGED <<state, calls>>
    BY <1>3, <2>1 DEF Complete
  <2>4. calls = <<>> /\ sent # <<>> /\ Len(sent) \in Nat \ {0}
    BY <1>1, <2>3 DEF CallbackOnce
  <2>5. i.err = NoError <=> /\ t.err_code = 0
                            /\ t.status \in 200 .. 299
                            /\ t.body.response # "no"
    BY ClientErrorFacts
  <2> HIDE DEF i, then
  <2>6. CASE then.do = "callback"
    <3>1. calls' = <<handed(i)>> /\ state' = "done" /\ UNCHANGED sent
      BY <2>3, <2>4, <2>6
    <3>2. TypeOK'
      BY <2>1, <2>3, <3>1 DEF TypeOK, Invocation
    <3>3. CallbackOnce' /\ NoSilentFailure'
      BY <2>1, <2>3, <2>5, <3>1 DEF CallbackOnce, NoSilentFailure
    <3>4. FallbacksForward'
      BY <2>3, <3>1 DEF FallbacksForward
    <3>5. ThumbnailDownloadTried'
      BY <2>1, <2>2, <2>3, <2>6, <3>1 DEF ThumbnailDownloadTried, endpoint
    <3> QED
      BY <2>3, <2>4, <3>1, <3>2, <3>3, <3>4, <3>5
  <2>7. CASE then.do = "prompt"
    <3>1. state' = "prompted" /\ UNCHANGED <<sent, calls>>
      BY <2>3, <2>7
    <3>2. TypeOK'
      BY <2>3, <3>1 DEF TypeOK
    <3> QED
      BY <2>2, <2>3, <2>4, <2>7, <3>1, <3>2
      DEF CallbackOnce, NoSilentFailure, FallbacksForward, ThumbnailDownloadTried
  <2>8. CASE then.do = "ask"
    <3>1. sent' = Append(sent, then.endpoint) /\ UNCHANGED <<state, calls>>
      BY <2>3, <2>8
    <3>2. TypeOK'
      BY <1>1, <2>2, <2>3, <2>8, <3>1 DEF TypeOK, Endpoint
    <3>3. FallbacksForward'
      <4> SUFFICES ASSUME fn \notin UIAFunctions,
                          NEW j \in DOMAIN sent', NEW k \in DOMAIN sent', j < k
                   PROVE  rank(sent'[j]) < rank(sent'[k])
        BY <2>3 DEF FallbacksForward
      <4>1. DOMAIN sent' = 1 .. Len(sent) + 1 /\ DOMAIN sent = 1 .. Len(sent)
        BY <1>1, <2>4, <3>1, <2>2, <2>8
      <4>2. \A m \in DOMAIN sent : sent'[m] = sent[m]
        BY <1>1, <2>2, <2>8, <3>1
      <4>3. sent'[Len(sent) + 1] = then.endpoint
        BY <1>1, <2>2, <2>8, <3>1
      <4>4. \A m \in DOMAIN sent : rank(sent[m]) \in Int
        BY DEF rank
      <4>5. CASE k \in DOMAIN sent
        BY <2>4, <4>1, <4>2, <4>5 DEF FallbacksForward
      <4>6. CASE k = Len(sent) + 1
        <5>1. rank(sent[j]) <= rank(endpoint)
          BY <2>4, <4>1, <4>4, <4>6 DEF FallbacksForward, endpoint
        <5>2. rank(endpoint) \in Int /\ rank(then.endpoint) \in Int
          BY DEF rank
        <5> QED
          BY <2>2, <2>4, <2>8, <4>1, <4>2, <4>3, <4>4, <4>6, <5>1, <5>2
      <4> QED
        BY <2>4, <4>1, <4>5, <4>6
    <3> QED
      BY <2>3, <2>4, <3>1, <3>2, <3>3, <1>1
      DEF CallbackOnce, NoSilentFailure, ThumbnailDownloadTried
  <2> QED
    BY <2>2, <2>6, <2>7, <2>8
<1>4. ASSUME NEW t \in Transfer, CompleteDelete(t)
      PROVE  FlowInv'
  <2>1. PICK e \in delete_errors(t) : calls' = Append(calls, [err |-> e, value |-> NoValue])
    BY <1>4 DEF CompleteDelete
  <2>2. /\ state = "flight" /\ fn = "delete" /\ transfer' = t /\ state' = "done"
        /\ UNCHANGED <<fn, opt, sent>>
    BY <1>4 DEF CompleteDelete
  <2>3. /\ e \in ClientError \cup {NoError}
        /\ e = NoError <=> t.err_code = 0 /\ t.status \in 200 .. 299
    BY DeleteErrorFacts
  <2>4. calls' = <<[err |-> e, value |-> NoValue]>>
    BY <1>1, <2>1, <2>2 DEF CallbackOnce
  <2>5. TypeOK'
    BY <2>2, <2>3, <2>4 DEF TypeOK, NoValue
  <2>6. CallbackOnce' /\ NoSilentFailure'
    BY <2>2, <2>3, <2>4 DEF CallbackOnce, NoSilentFailure
  <2> QED
    BY <2>2, <2>5, <2>6 DEF FallbacksForward, ThumbnailDownloadTried
<1>5. CASE next
  <2>1. /\ state = "prompted" /\ state' = "flight" /\ sent' = Append(sent, endpoint)
        /\ UNCHANGED <<fn, opt, transfer, calls>>
    BY <1>5 DEF next
  <2>2. sent # <<>> /\ endpoint \in Endpoint /\ fn \in UIAFunctions
    BY <1>1, <2>1 DEF endpoint
  <2>3. TypeOK'
    BY <1>1, <2>1, <2>2 DEF TypeOK, Endpoint
  <2> QED
    BY <1>1, <2>1, <2>2, <2>3
    DEF CallbackOnce, NoSilentFailure, FallbacksForward, ThumbnailDownloadTried
<1>6. CASE Done \/ UNCHANGED vars
  <2>1. UNCHANGED <<fn, opt, state, sent, transfer, calls>>
    BY <1>6 DEF Done, vars
  <2>2. TypeOK'
    BY <2>1 DEF TypeOK
  <2>3. CallbackOnce' /\ NoSilentFailure'
    BY <2>1 DEF CallbackOnce, NoSilentFailure
  <2>4. FallbacksForward' /\ ThumbnailDownloadTried'
    BY <2>1 DEF FallbacksForward, ThumbnailDownloadTried, endpoint
  <2> QED
    BY <2>1, <2>2, <2>3, <2>4
<1> QED
  BY <1>2, <1>3, <1>4, <1>5, <1>6 DEF Next, Transferred

\* The invariant of a flow holds throughout.
THEOREM FlowInvariant == Spec => []FlowInv
BY FlowInit, FlowNext, PTL DEF Spec

-----------------------------------------------------------------------------
\* The state of a flow has its type.
THEOREM FlowTypeCorrect == Spec => []TypeOK
<1>1. FlowInv => TypeOK
  BY DEF FlowInv
<1> QED
  BY <1>1, FlowInvariant, PTL

\* The application's callback runs exactly once per call, when the flow is over,
\* although it may throw and although a flow may make several requests.
THEOREM CallbackRunsOnce == Spec => []CallbackOnce
<1>1. FlowInv => CallbackOnce
  BY DEF FlowInv
<1> QED
  BY <1>1, FlowInvariant, PTL

\* Success is reported exactly when the last request of the flow succeeded.
THEOREM FailureIsReported == Spec => []NoSilentFailure
<1>1. FlowInv => NoSilentFailure
  BY DEF FlowInv
<1> QED
  BY <1>1, FlowInvariant, PTL

\* A flow of fallbacks asks no endpoint twice: ranks rise along it.
THEOREM FallbacksEnd == Spec => []EndpointOnce
<1>1. FlowInv => EndpointOnce
  <2> SUFFICES ASSUME FlowInv, fn \notin UIAFunctions,
                      NEW i \in DOMAIN sent, NEW j \in DOMAIN sent, sent[i] = sent[j]
               PROVE  i = j
    BY DEF EndpointOnce
  <2>1. i \in Int /\ j \in Int
    BY DEF FlowInv, TypeOK
  <2>2. rank(sent[i]) \in Int
    BY DEF rank
  <2> QED
    BY <2>1, <2>2 DEF FlowInv, FallbacksForward
<1> QED
  BY <1>1, FlowInvariant, PTL

\* With try_download, get_thumbnail never hands on the 404 of a thumbnail.
THEOREM DownloadIsTried == Spec => []ThumbnailDownloadTried
<1>1. FlowInv => ThumbnailDownloadTried
  BY DEF FlowInv
<1> QED
  BY <1>1, FlowInvariant, PTL

\* A step that asks a further endpoint was justified by what the server sent: a
\* 400 or a 404, or the room id of an alias.
THEOREM FallbacksAreJustified == Spec => FallbackJustified
<1> DEFINE Justified == /\ transfer'.err_code = 0
                        /\ IF endpoint = "alias" THEN transfer'.body.response = "full"
                                                 ELSE transfer'.status \in {400, 404}
           A == state = "flight" /\ Len(sent') > Len(sent) => Justified
<1>1. FlowInv /\ [Next]_vars => [A]_vars
  <2> SUFFICES ASSUME FlowInv, Next, state = "flight", Len(sent') > Len(sent)
               PROVE  Justified
    BY DEF vars
  <2>1. sent \in Seq(Endpoint) /\ Len(sent) \in Nat
    BY DEF FlowInv, TypeOK, Endpoint
  <2>2. PICK t \in Transfer, throws \in Throws : Complete(t, throws)
    BY <2>1 DEF Next, Call, next, Done, vars, Transferred, CompleteDelete
  <2> DEFINE i == [err |-> client_error(t), value |-> response_data(t)]
             then == continuation(i)
  <2>3. /\ prepare_callback(t, throws) = <<i>> /\ i \in Invocation
        /\ \A codes \in SUBSET (Nat \ {0}) :
             failed(i, codes) => t.err_code = 0 /\ t.status \in codes
        /\ i.value = "full" => t.err_code = 0 /\ t.body.response = "full"
    BY InvocationFacts
  <2>4. transfer' = t /\ then.do = "ask"
    BY <2>1, <2>2, <2>3 DEF Complete
  <2>5. IF endpoint = "alias" THEN i.value = "full" ELSE failed(i, {400, 404})
    BY <2>3, <2>4, ContinuationFacts
  <2> HIDE DEF i, then
  <2> QED
    BY <2>3, <2>4, <2>5
<1> QED
  BY <1>1, FlowInvariant, PTL DEF Spec, FallbackJustified
=============================================================================
