---------------------------- MODULE ClientSession ----------------------------
(***************************************************************************)
(* The session state of mtx::http::Client and the requests that read and    *)
(* change it.  Two threads work on the same Client object, which has no     *)
(* lock: the application's, which calls the Client's methods, and coeurl's  *)
(* event loop, which runs the callbacks.  Reading or assigning one member   *)
(* is atomic, and no more than that: a request reads the user, the server   *)
(* and the token in steps of their own (the compiler chooses the order of   *)
(* the last two), and a callback assigns one member after the other.        *)
(*                                                                          *)
(* A transfer's outcome is reduced to what the callbacks distinguish:       *)
(*   "ok"       no error (HttpResult's NoError)                             *)
(*   "notoken"  no error, a login response with an empty access token       *)
(*   "denied"   an error with status 401                                    *)
(*   "missing"  an error with status 404 or 400                             *)
(*   "error"    any other error, of the server, the network or an abort     *)
(* The address of a server (protocol_, server_ and port_) is one value, and  *)
(* next_batch_token_, which only the application reads and writes, is left   *)
(* out.  The application's own clear() is one step: what a request can see   *)
(* between its statements, it also sees when clear() falls between its reads.*)
(***************************************************************************)
CONSTANTS
    Req,          \* identities of the calls of the API (a bound on their number)
    User, Host, Token,
    Stored,       \* tokens the application kept from an earlier run
    Empty,        \* the empty string
    SerialAuth    \* does the application keep to one session change at a time?

ASSUME ClientSessionAssumption ==
    /\ Empty \notin User \cup Host \cup Token \cup Req
    /\ Stored \subseteq Token
    /\ SerialAuth \in BOOLEAN

VARIABLES
    server_, user_id_, device_id_, access_token_,   \* the members of Client
    req,                    \* the requests
    loop,                   \* what the event loop is executing, for which request
    life,                   \* "open", "closing" (inside close()), "closed"
    granted,                \* servers: whom and where a token was issued
    revoked,                \* servers: tokens that were logged out
    loggedOut               \* tokens whose logout was reported to the application

session == <<user_id_, device_id_, access_token_>>
client == <<server_, user_id_, device_id_, access_token_>>
servers == <<granted, revoked>>
vars == <<client, req, loop, life, servers, loggedOut>>

Kinds == {"none", "login", "registration", "logout", "api", "media", "media_v3"}
AuthKinds == {"login", "registration", "logout"}
GrantKinds == {"login", "registration"}
\* A request that has not read everything it needs: nothing, the server, or the
\* token (or needs no token).
Building == {"building", "have_url", "have_header"}
Outcomes == {"none", "ok", "notoken", "denied", "missing", "error"}

\* A request: its progress, the user it names (in the body of a login, in the
\* path of the user's own resources), the host it goes to, the token of its
\* Authorization header, its outcome and the token of a login response.
Request == [st : {"free", "sent", "answered", "prompted", "done"} \cup Building,
            kind : Kinds, user : User \cup {Empty}, host : Host \cup {Empty},
            auth : Token \cup {Empty}, outcome : Outcomes, token : Token \cup {Empty}]

Grant == [user : User, host : Host]
NoGrant == [user |-> Empty, host |-> Empty]

FreeRequest == [st |-> "free", kind |-> "none", user |-> Empty, host |-> Empty,
                auth |-> Empty, outcome |-> "none", token |-> Empty]

\* The places inside a callback: the assignments of login and registration, the
\* assignments of clear(), the submission of a fallback request, and the
\* application's own callback at the end.
Assigning == {"user", "device", "token"}
Clearing == {"clear_device", "clear_token", "clear_server"}
Places == {"idle", "submit", "callback"} \cup Assigning \cup Clearing
Idle == [at |-> "idle", r |-> Empty]

Pends(kinds) == \E r \in Req : req[r].kind \in kinds /\ req[r].st \notin {"free", "done"}
InFlight == \E r \in Req : req[r].st \in {"sent", "answered"} \cup Building

\* The application's thread is not inside a call.
AppIdle == life = "open" /\ \A r \in Req : req[r].st \in Building => loop.r = r

\* The discipline of an application that changes its session in one place.
Quiet == SerialAuth => ~ Pends(AuthKinds)

-----------------------------------------------------------------------------
Init ==
    /\ server_ \in Host \cup {Empty}
    /\ user_id_ = Empty /\ device_id_ = Empty
    /\ access_token_ = Empty
    /\ req = [r \in Req |-> FreeRequest]
    /\ loop = Idle
    /\ life = "open"
    /\ granted \in [Token -> Grant \cup {NoGrant}]
    /\ \A t \in Token : granted[t] # NoGrant <=> t \in Stored
    /\ revoked = {}
    /\ loggedOut = {}

-----------------------------------------------------------------------------
(* The application's thread.                                                *)

set_server(h) ==
    /\ AppIdle
    /\ SerialAuth => access_token_ = Empty /\ ~ InFlight
    /\ server_' = h
    /\ UNCHANGED <<session, req, loop, life, servers, loggedOut>>

\* set_server, set_user, set_device_id and set_access_token with what was stored
\* of a session the application did not log out of, before it makes requests.
restore(t) ==
    /\ AppIdle /\ ~ InFlight /\ Quiet
    /\ access_token_ = Empty /\ t \in Stored \ loggedOut
    /\ server_' = granted[t].host
    /\ user_id_' = granted[t].user /\ device_id_' = t /\ access_token_' = t
    /\ UNCHANGED <<req, loop, life, servers, loggedOut>>

\* clear(), called by the application.  user_id_ keeps its value.
clear ==
    /\ AppIdle /\ Quiet
    /\ device_id_' = Empty /\ access_token_' = Empty /\ server_' = Empty
    /\ UNCHANGED <<user_id_, req, loop, life, servers, loggedOut>>

\* A call of the API begins; the path of its url names the user.
begun(kind, user, st) ==
    [st |-> st, kind |-> kind, user |-> user, host |-> Empty,
     auth |-> Empty, outcome |-> "none", token |-> Empty]

\* Requests without an Authorization header: requires_auth is false.
login(r, u) ==
    /\ AppIdle /\ req[r].st = "free" /\ Quiet
    /\ SerialAuth => access_token_ = Empty
    /\ req' = [req EXCEPT ![r] = begun("login", u, "have_header")]
    /\ UNCHANGED <<client, loop, life, servers, loggedOut>>

registration(r, u) ==
    /\ AppIdle /\ req[r].st = "free" /\ Quiet
    /\ SerialAuth => access_token_ = Empty
    /\ req' = [req EXCEPT ![r] = begun("registration", u, "have_header")]
    /\ UNCHANGED <<client, loop, life, servers, loggedOut>>

\* UIAHandler::next after a prompt of registration: the cached request is posted
\* again, to the server the Client has now.
next(r) ==
    /\ AppIdle /\ req[r].st = "prompted"
    /\ req' = [req EXCEPT ![r] = begun(req[r].kind, req[r].user, "have_header")]
    /\ UNCHANGED <<client, loop, life, servers, loggedOut>>

logout(r) ==
    /\ AppIdle /\ req[r].st = "free" /\ Quiet
    /\ req' = [req EXCEPT ![r] = begun("logout", Empty, "building")]
    /\ UNCHANGED <<client, loop, life, servers, loggedOut>>

\* Any other call.  "api" stands for the requests whose path names the user
\* (account data, filters, tags, typing, profile), "media" for the others and for
\* the functions that fall back to an older endpoint.
call(r, kind) ==
    /\ AppIdle /\ req[r].st = "free"
    /\ SerialAuth /\ kind = "api" => ~ Pends(GrantKinds)
    /\ req' = [req EXCEPT ![r] = begun(kind, IF kind = "api" THEN user_id_ ELSE Empty, "building")]
    /\ UNCHANGED <<client, loop, life, servers, loggedOut>>

\* get, put and post: the two arguments that read the Client, in either order;
\* after the second the request is submitted.  A fallback request is submitted
\* by the event loop, which is then done with the callback.
endpoint_to_url(r) ==
    /\ req[r].st \in {"building", "have_header"}
    /\ req' = [req EXCEPT ![r].host = server_,
                          ![r].st = IF @ = "building" THEN "have_url" ELSE "sent"]
    /\ loop' = IF loop.r = r /\ req'[r].st = "sent" THEN Idle ELSE loop
    /\ UNCHANGED <<client, life, servers, loggedOut>>

prepare_headers(r) ==
    /\ req[r].st \in {"building", "have_url"}
    /\ req' = [req EXCEPT ![r].auth = access_token_,
                          ![r].st = IF @ = "building" THEN "have_header" ELSE "sent"]
    /\ loop' = IF loop.r = r /\ req'[r].st = "sent" THEN Idle ELSE loop
    /\ UNCHANGED <<client, life, servers, loggedOut>>

\* What becomes of a request when its transfer ends.
answered(r, outcome, token) ==
    [st |-> "answered", kind |-> req[r].kind, user |-> req[r].user, host |-> req[r].host,
     auth |-> req[r].auth, outcome |-> outcome, token |-> token]

\* A request whose transfer has not reached its callback is aborted.
aborted(r) ==
    IF req[r].st \in {"sent", "answered"} /\ loop.r # r
      THEN answered(r, "error", Empty)
      ELSE req[r]

\* shutdown(): "Abort all active pending requests."
shutdown ==
    /\ AppIdle /\ InFlight
    /\ req' = [r \in Req |-> aborted(r)]
    /\ UNCHANGED <<client, loop, life, servers, loggedOut>>

\* close(force): the application waits for the event loop, which with force
\* first aborts the pending requests.
close(force) ==
    /\ AppIdle
    /\ life' = "closing"
    /\ req' = [r \in Req |-> IF force THEN aborted(r) ELSE req[r]]
    /\ UNCHANGED <<client, loop, servers, loggedOut>>

\* close() returns when the loop has nothing left to do.
closed ==
    /\ life = "closing" /\ ~ InFlight /\ loop = Idle
    /\ life' = "closed"
    /\ UNCHANGED <<client, req, loop, servers, loggedOut>>

-----------------------------------------------------------------------------
(* The homeservers and the network (not in this repository).                *)

valid(r) == req[r].auth # Empty /\ granted[req[r].auth].host = req[r].host
              /\ req[r].auth \notin revoked

answer(r, outcome, token) == req' = [req EXCEPT ![r] = answered(r, outcome, token)]

\* A login or a registration succeeds: a new token and device.
grant(r, t) ==
    /\ req[r].st = "sent" /\ req[r].kind \in GrantKinds
    /\ req[r].host # Empty /\ granted[t] = NoGrant
    /\ granted' = [granted EXCEPT ![t] = [user |-> req[r].user, host |-> req[r].host]]
    /\ answer(r, "ok", t)
    /\ UNCHANGED <<client, loop, life, revoked, loggedOut>>

\* A logout ends the session of the token it carries.
revoke(r) ==
    /\ req[r].st = "sent" /\ req[r].kind = "logout" /\ valid(r)
    /\ revoked' = revoked \cup {req[r].auth}
    /\ answer(r, "ok", Empty)
    /\ UNCHANGED <<client, loop, life, granted, loggedOut>>

\* Any other answer.
respond(r, outcome) ==
    /\ req[r].st = "sent"
    /\ \/ outcome = "ok" /\ req[r].kind \in {"api", "media", "media_v3"} /\ valid(r)
       \/ outcome = "notoken" /\ req[r].kind \in GrantKinds
       \/ outcome = "denied" /\ req[r].kind = "registration"
       \/ outcome = "missing" /\ req[r].kind = "media"
       \/ outcome = "error"
    /\ answer(r, outcome, Empty)
    /\ UNCHANGED <<client, loop, life, servers, loggedOut>>

\* The connection fails, before or after the server acted on the request.
lose(r) ==
    /\ req[r].st \in {"sent", "answered"} /\ loop.r # r /\ req[r].outcome # "error"
    /\ answer(r, "error", Empty)
    /\ UNCHANGED <<client, loop, life, servers, loggedOut>>

-----------------------------------------------------------------------------
(* The event loop's thread.                                                 *)

ready(r) == loop = Idle /\ req[r].st = "answered"

\* registration's callback on a 401 runs the prompt.
prompts(kind, outcome) == kind = "registration" /\ outcome = "denied"

prompt(r) ==
    /\ ready(r) /\ prompts(req[r].kind, req[r].outcome)
    /\ req' = [req EXCEPT ![r].st = "prompted"]
    /\ UNCHANGED <<client, loop, life, servers, loggedOut>>

\* The fallback of a media function on a 404 or 400 is a new request, submitted
\* by the callback.
falls_back(kind, outcome) == kind = "media" /\ outcome = "missing"

\* Mutated forms: the header of the first request is repeated; the endpoint of
\* the first request is asked again.
fallback_same_header(r) ==
    [begun("media_v3", Empty, "have_header") EXCEPT !.auth = req[r].auth]
fallback_same_endpoint(r) == begun("media", Empty, "building")

fallback_request(r) == begun("media_v3", Empty, "building")

fall_back(r) ==
    /\ ready(r) /\ falls_back(req[r].kind, req[r].outcome)
    /\ req' = [req EXCEPT ![r] = fallback_request(r)]
    /\ loop' = [at |-> "submit", r |-> r]
    /\ UNCHANGED <<client, life, servers, loggedOut>>

\* Mutated forms: logout's callback clears whatever the outcome was; login's
\* callback does not assign user_id_.
first_clear_always(kind, outcome) ==
    CASE kind = "logout" -> "clear_device"
      [] kind \in GrantKinds /\ outcome = "ok" -> "user"
      [] OTHER -> "callback"
first_without_user(kind, outcome) ==
    CASE kind = "logout" /\ outcome = "ok" -> "clear_device"
      [] kind \in GrantKinds /\ outcome = "ok" -> "device"
      [] OTHER -> "callback"

\* The first statement of a callback: `if (!err && resp.access_token.size())`
\* and `if (!err)`, or else the application's callback at once.
first(kind, outcome) ==
    CASE kind = "logout" /\ outcome = "ok" -> "clear_device"
      [] kind \in GrantKinds /\ outcome = "ok" -> "user"
      [] OTHER -> "callback"

\* Mutated form: login and registration report to the application only when they
\* succeeded.
reports_success_only(kind, outcome) ==
    ~ falls_back(kind, outcome) /\ (kind \in GrantKinds => outcome = "ok")

\* Does the callback of the transfer go on to the application's callback?
reports(kind, outcome) == ~ prompts(kind, outcome) /\ ~ falls_back(kind, outcome)

deliver(r) ==
    /\ ready(r) /\ reports(req[r].kind, req[r].outcome)
    /\ loop' = [at |-> first(req[r].kind, req[r].outcome), r |-> r]
    /\ UNCHANGED <<client, req, life, servers, loggedOut>>

\* Mutated form: login's callback assigns access_token_ before device_id_.
after_token_early(place) ==
    CASE place = "user" -> "token"
      [] place = "token" -> "device"
      [] place = "clear_device" -> "clear_token"
      [] place = "clear_token" -> "clear_server"
      [] OTHER -> "callback"

\* Mutated form: clear() empties server_ before access_token_.
after_server_early(place) ==
    CASE place = "user" -> "device"
      [] place = "device" -> "token"
      [] place = "clear_device" -> "clear_server"
      [] place = "clear_server" -> "clear_token"
      [] OTHER -> "callback"

\* The statement after each statement of the callbacks.
after(place) ==
    CASE place = "user" -> "device"
      [] place = "device" -> "token"
      [] place = "clear_device" -> "clear_token"
      [] place = "clear_token" -> "clear_server"
      [] OTHER -> "callback"

proceed == loop' = [loop EXCEPT !.at = after(loop.at)]

\* _this->user_id_ = resp.user_id, and the two assignments that follow it.
assign_user ==
    /\ loop.at = "user" /\ proceed
    /\ user_id_' = req[loop.r].user
    /\ UNCHANGED <<server_, device_id_, access_token_, req, life,
                   servers, loggedOut>>

assign_device ==
    /\ loop.at = "device" /\ proceed
    /\ device_id_' = req[loop.r].token
    /\ UNCHANGED <<server_, user_id_, access_token_, req, life,
                   servers, loggedOut>>

assign_token ==
    /\ loop.at = "token" /\ proceed
    /\ access_token_' = req[loop.r].token
    /\ UNCHANGED <<server_, user_id_, device_id_, req, life,
                   servers, loggedOut>>

\* clear(), statement by statement, in logout's callback.
clear_device ==
    /\ loop.at = "clear_device" /\ proceed
    /\ device_id_' = Empty
    /\ UNCHANGED <<server_, user_id_, access_token_, req, life,
                   servers, loggedOut>>

\* Mutated form: clear() leaves the token.
clear_token_bug ==
    /\ loop.at = "clear_token" /\ proceed
    /\ UNCHANGED <<client, req, life, servers, loggedOut>>

clear_token ==
    /\ loop.at = "clear_token" /\ proceed
    /\ access_token_' = Empty
    /\ UNCHANGED <<server_, user_id_, device_id_, req, life,
                   servers, loggedOut>>

clear_server ==
    /\ loop.at = "clear_server" /\ proceed
    /\ server_' = Empty
    /\ UNCHANGED <<session, req, life, servers, loggedOut>>

\* Mutated form: the loop does not leave the callback of a request it dropped.
callback_bug ==
    /\ loop.at = "callback"
    /\ req' = [req EXCEPT ![loop.r] = [FreeRequest EXCEPT !.st = "done"]]
    /\ UNCHANGED <<client, loop, life, servers, loggedOut>>

\* The application's callback; after it the request is gone.
callback ==
    /\ loop.at = "callback"
    /\ req' = [req EXCEPT ![loop.r] = [FreeRequest EXCEPT !.st = "done"]]
    /\ loop' = Idle
    /\ loggedOut' = IF req[loop.r].kind = "logout" /\ req[loop.r].outcome = "ok"
                      THEN loggedOut \cup ({req[loop.r].auth} \ {Empty}) ELSE loggedOut
    /\ UNCHANGED <<client, life, servers>>

-----------------------------------------------------------------------------
Application ==
    \/ \E h \in Host : set_server(h)
    \/ \E t \in Token : restore(t)
    \/ clear
    \/ \E r \in Req : \/ \E u \in User : login(r, u) \/ registration(r, u)
                     \/ next(r)
                     \/ logout(r)
                     \/ \E kind \in {"api", "media"} : call(r, kind)
    \/ shutdown
    \/ \E force \in BOOLEAN : close(force)

Network ==
    \E r \in Req : \/ \E t \in Token : grant(r, t)
                 \/ revoke(r)
                 \/ \E outcome \in Outcomes : respond(r, outcome)
                 \/ lose(r)

Callbacks == \E r \in Req : prompt(r) \/ fall_back(r) \/ deliver(r)

\* Of the application's thread, or of the event loop's for a fallback.
Reads == \E r \in Req : endpoint_to_url(r) \/ prepare_headers(r)

Statements ==
    \/ assign_user \/ assign_device \/ assign_token
    \/ clear_device \/ clear_token \/ clear_server
    \/ callback

EventLoop == Callbacks \/ Statements \/ closed

Next == Application \/ Reads \/ Network \/ EventLoop

\* Every transfer ends (coeurl reports an answer or an error, at the latest its
\* timeout), both threads run, and the event loop runs every callback that is
\* ready.
Fairness ==
    /\ WF_vars(EventLoop) /\ WF_vars(Reads)
    /\ \A r \in Req : /\ WF_vars(req[r].st = "sent" /\ (lose(r) \/ \E outcome \in Outcomes : respond(r, outcome)))
                      /\ SF_vars(prompt(r) \/ fall_back(r) \/ deliver(r))

Spec == Init /\ [][Next]_vars

FairSpec == Spec /\ Fairness

-----------------------------------------------------------------------------
TypeOK ==
    /\ server_ \in Host \cup {Empty}
    /\ user_id_ \in User \cup {Empty} /\ device_id_ \in Token \cup {Empty}
    /\ access_token_ \in Token \cup {Empty}
    /\ req \in [Req -> Request]
    /\ \A r \in Req : req[r].kind \in GrantKinds => req[r].user \in User
    /\ loop \in [at : Places, r : Req \cup {Empty}]
    /\ loop.at # "idle" =>
         loop.r \in Req /\ req[loop.r].st \in (IF loop.at = "submit" THEN Building ELSE {"answered"})
    /\ life \in {"open", "closing", "closed"}
    /\ granted \in [Token -> Grant \cup {NoGrant}]
    /\ revoked \subseteq Token /\ loggedOut \subseteq Token

\* Once the application was told that a logout succeeded, no request, whoever
\* submits it (a call, a fallback in a callback), is given the token that was
\* logged out, in whatever order logins, logouts and other calls overlap: the
\* token is cleared before logout's callback runs, and no late login response
\* can bring it back.
NoStaleToken ==
    [][ \A r \in Req :
          \/ req'[r].auth # req[r].auth
          \/ req[r].st \notin Building /\ req'[r].st \in Building
          => req'[r].auth \notin loggedOut ]_vars

\* The same of the token the Client holds, which is what access_token() shows.
NoStaleSession == access_token_ \notin loggedOut

\* A thread that sees a token in access_token() sees the user and the device of
\* the same login, although they are assigned in three steps (unless the client
\* is inside clear()).  This is what lets tests/e2ee.cpp wait for a login with
\* "while (alice->access_token().empty())".
SessionPublished ==
    access_token_ # Empty /\ loop.at \notin Clearing
      => user_id_ = granted[access_token_].user /\ device_id_ = access_token_

\* A token is sent only to the host that issued it (or to no host, when clear()
\* came between the two reads), in a request on behalf of the user it was issued
\* to: the header, the url and the user in the path are read one by one from
\* members that the callbacks of other requests change.
RequestsCoherent ==
    \A r \in Req : req[r].auth # Empty /\ req[r].st \notin Building
                    => /\ req[r].host \in {granted[req[r].auth].host, Empty}
                       /\ req[r].kind = "api" => req[r].user = granted[req[r].auth].user

\* client.cpp in logout: "Clear the now invalid access token when logout is
\* successful": the token that logout's callback clears is one the server made
\* invalid.
ClearsInvalidToken ==
    [][ loop.at = "clear_token" /\ loop'.at # "clear_token" /\ access_token_ # Empty
          => access_token_ \in revoked ]_vars

\* The inductive invariant behind NoStaleSession and NoStaleToken.  A response
\* that still holds a token no callback has assigned is pending; its token is
\* granted, is nobody else's, and was never held, sent or logged out.
Pending(r) ==
    /\ req[r].kind \in GrantKinds /\ req[r].st = "answered" /\ req[r].outcome = "ok"
    /\ ~ (loop.r = r /\ loop.at = "callback")

Issued == {t \in Token : granted[t] # NoGrant}

HeldInv == access_token_ # Empty => access_token_ \in Issued \ loggedOut

HistoryInv ==
    /\ Stored \subseteq Issued
    /\ loggedOut \subseteq Issued
    /\ \A r \in Req : req[r].auth # Empty => req[r].auth \in Issued

PendingInv ==
    \A r \in Req : Pending(r) =>
      /\ req[r].token \in Issued \ (Stored \cup loggedOut \cup {access_token_})
      /\ \A q \in Req : req[q].auth # req[r].token
      /\ \A q \in Req \ {r} : Pending(q) => req[q].token # req[r].token

LoopInv ==
    /\ loop.at \in Assigning => /\ req[loop.r].kind \in GrantKinds
                                /\ req[loop.r].outcome = "ok"
    /\ loop.at \in Clearing => /\ req[loop.r].kind = "logout"
                               /\ req[loop.r].outcome = "ok"
    /\ loop.at = "idle" => loop.r = Empty
    /\ \/ loop.at = "clear_server"
       \/ /\ loop.at = "callback"
          /\ req[loop.r].kind = "logout" /\ req[loop.r].outcome = "ok"
       => access_token_ = Empty

TokenInv == TypeOK /\ HeldInv /\ HistoryInv /\ PendingInv /\ LoopInv

\* The inductive invariant of an application that keeps to SerialAuth.
\* At most one request of the API is about to change the session.
ChangesSession(r) == req[r].kind \in AuthKinds

OneChange == \A q, r \in Req : ChangesSession(q) /\ ChangesSession(r) => q = r

\* Until a login's token is assigned the Client has none, and it stays with the
\* server that the login goes to; what the callback is about to assign, and has
\* assigned so far, is what the server granted.
LoginInv ==
    /\ \A r \in Req : req[r].kind \in GrantKinds =>
         /\ access_token_ = Empty \/ (loop.r = r /\ loop.at = "callback")
         /\ req[r].st \notin {"building", "have_url"}
         /\ req[r].st \in {"sent", "answered"} => req[r].host = server_
         /\ req[r].st = "answered" /\ req[r].outcome = "ok" =>
              /\ req[r].token \in Token
              /\ granted[req[r].token] = [user |-> req[r].user, host |-> req[r].host]
    /\ loop.at \in {"device", "token"} => user_id_ = req[loop.r].user
    /\ loop.at = "token" => device_id_ = req[loop.r].token

\* A logout carries the token the Client holds, until the callback clears it; a
\* successful one made it invalid.
LogoutInv ==
    \A r \in Req : req[r].kind = "logout" =>
      /\ \/ req[r].st \in {"building", "have_url"}
         \/ loop.r = r /\ loop.at \in {"clear_server", "callback"}
         \/ req[r].auth = access_token_
      /\ req[r].st = "answered" /\ req[r].outcome = "ok" => req[r].auth \in revoked

\* The parts of the session a Client holds belong together, except that clear()
\* empties the device first.
SessionInv ==
    access_token_ # Empty =>
      /\ server_ = granted[access_token_].host
      /\ user_id_ = granted[access_token_].user
      /\ device_id_ = access_token_ \/ loop.at = "clear_token"

\* What a request has read so far is either what the Client still has or what
\* clear() made empty; nothing takes its place before the request is complete.
ReadsInv ==
    \A r \in Req :
      /\ req[r].st \in Building =>
           /\ req[r].host # Empty => server_ \in {req[r].host, Empty}
           /\ req[r].auth # Empty => server_ \in {granted[req[r].auth].host, Empty}
      /\ req[r].kind = "api" =>
           /\ req[r].st \in Building =>
                req[r].user = user_id_ /\ \A q \in Req : req[q].kind \notin GrantKinds
           /\ req[r].auth # Empty => req[r].user = granted[req[r].auth].user
      /\ loop.at = "submit" /\ loop.r = r => req[r].kind = "media_v3"

\* A request that does not exist has no kind; only a registration has a prompt.
FreeInv ==
    \A r \in Req : /\ req[r].st \in {"free", "done"} => req[r].kind = "none"
                   /\ req[r].st = "prompted" => req[r].kind = "registration"

SerialInv ==
    /\ TokenInv /\ FreeInv /\ OneChange
    /\ LoginInv /\ LogoutInv /\ SessionInv /\ ReadsInv /\ RequestsCoherent

\* Every submitted request reaches its callback or its prompt.
RequestsComplete ==
    \A r \in Req : req[r].st = "sent" ~> req[r].st \in {"done", "prompted"}

\* close() returns, with or without force, although callbacks may still submit
\* fallback requests while it waits.
CloseReturns == life = "closing" ~> life = "closed"

\* The session the Client presents, for module Session.
NoSession == Empty
held ==
    IF access_token_ = Empty THEN NoSession
    ELSE [token |-> access_token_, user |-> user_id_, host |-> server_]
grants ==
    {[token |-> t, user |-> granted[t].user, host |-> granted[t].host] :
       t \in {u \in Token : granted[u] # NoGrant}}

Abstract == INSTANCE Session WITH ended <- revoked

\* A Client used with one session change at a time shows whole sessions only: a
\* login's three assignments and clear()'s appear as one step each.
ImplementsSession == Abstract!Spec
=============================================================================
