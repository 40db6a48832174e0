------------------------- MODULE ClientSessionProofs -------------------------
(***************************************************************************)
(* Proofs about ClientSession, for every set of requests, users, hosts and  *)
(* tokens.  With or without the application's discipline SerialAuth: the    *)
(* types, and that a token that was logged out is never used again.  With   *)
(* it: what an application gains by the discipline.                         *)
(***************************************************************************)
EXTENDS ClientSession, TLAPS

-----------------------------------------------------------------------------
(* Types.                                                                   *)

\* What the beginning of a call puts in place of a request is a request.
LEMMA BegunType ==
    ASSUME NEW kind \in Kinds, NEW user \in User \cup {Empty}, NEW st \in Building
    PROVE  /\ begun(kind, user, st) \in Request
           /\ begun(kind, user, st).kind = kind
           /\ begun(kind, user, st).user = user
           /\ begun(kind, user, st).st = st
  BY DEF begun, Request, Outcomes

\* Replacing one request, unless the event loop is working on it, keeps the
\* types.
LEMMA ReplaceType ==
    ASSUME TypeOK, NEW r \in Req, NEW x \in Request,
           req' = [req EXCEPT ![r] = x],
           x.kind \in GrantKinds => x.user \in User,
           req[r].st \in {"free", "prompted"},
           UNCHANGED <<client, loop, life, servers, loggedOut>>
    PROVE  TypeOK'
  <1>1. /\ req' \in [Req -> Request]
        /\ \A q \in Req : req'[q].kind \in GrantKinds => req'[q].user \in User
    BY DEF TypeOK
  <1>2. loop.at # "idle" => loop.r \in Req /\ loop.r # r /\ req'[loop.r] = req[loop.r]
    BY DEF TypeOK, Building
  <1> QED
    BY <1>1, <1>2 DEF TypeOK, client, servers

\* A request whose transfer ended is a request.
LEMMA AnswerType ==
    ASSUME TypeOK, NEW r \in Req, NEW outcome \in Outcomes, NEW t \in Token \cup {Empty}
    PROVE  answered(r, outcome, t) \in Request
  BY DEF TypeOK, Request, answered

\* A Client that was just constructed has its type.
LEMMA TypeInit == Init => TypeOK
  <1> SUFFICES ASSUME Init PROVE TypeOK
    OBVIOUS
  <1>1. FreeRequest \in Request
    BY DEF FreeRequest, Request, Kinds, Outcomes
  <1>2. req \in [Req -> Request]
    BY <1>1 DEF Init
  <1>3. \A r \in Req : req[r].kind \notin GrantKinds
    BY DEF Init, FreeRequest, GrantKinds
  <1> QED
    BY <1>2, <1>3 DEF Init, TypeOK, Idle, Places

\* The calls of the application's thread keep the types.
LEMMA TypeApplication == ASSUME TypeOK, Application PROVE TypeOK'
  <1>1. ASSUME NEW h \in Host, set_server(h) PROVE TypeOK'
    BY <1>1 DEF TypeOK, set_server, session, servers
  <1>2. ASSUME NEW t \in Token, restore(t) PROVE TypeOK'
    <2>1. granted[t].host \in Host \cup {Empty} /\ granted[t].user \in User \cup {Empty}
      BY DEF TypeOK, Grant, NoGrant
    <2> QED BY <1>2, <2>1 DEF TypeOK, restore, servers
  <1>3. ASSUME clear PROVE TypeOK'
    BY <1>3 DEF TypeOK, clear, servers
  <1>4. ASSUME NEW r \in Req, NEW u \in User, login(r, u) PROVE TypeOK'
    <2> DEFINE x == begun("login", u, "have_header")
    <2>1. x \in Request /\ (x.kind \in GrantKinds => x.user \in User)
      BY BegunType DEF Building, Kinds, GrantKinds
    <2> QED BY <1>4, <2>1, ReplaceType DEF login, TypeOK
  <1>5. ASSUME NEW r \in Req, NEW u \in User, registration(r, u) PROVE TypeOK'
    <2> DEFINE x == begun("registration", u, "have_header")
    <2>1. x \in Request /\ (x.kind \in GrantKinds => x.user \in User)
      BY BegunType DEF Building, Kinds, GrantKinds
    <2> QED BY <1>5, <2>1, ReplaceType DEF registration, TypeOK
  <1>6. ASSUME NEW r \in Req, next(r) PROVE TypeOK'
    <2> DEFINE x == begun(req[r].kind, req[r].user, "have_header")
    <2>1. x \in Request /\ (x.kind \in GrantKinds => x.user \in User)
      BY BegunType DEF Building, Kinds, GrantKinds, TypeOK, Request
    <2> QED BY <1>6, <2>1, ReplaceType DEF next, TypeOK
  <1>7. ASSUME NEW r \in Req, logout(r) PROVE TypeOK'
    <2> DEFINE x == begun("logout", Empty, "building")
    <2>1. x \in Request /\ (x.kind \in GrantKinds => x.user \in User)
      BY BegunType DEF Building, Kinds, GrantKinds, TypeOK
    <2> QED BY <1>7, <2>1, ReplaceType DEF logout, TypeOK
  <1>8. ASSUME NEW r \in Req, NEW kind \in {"api", "media"}, call(r, kind) PROVE TypeOK'
    <2> DEFINE x == begun(kind, IF kind = "api" THEN user_id_ ELSE Empty, "building")
    <2>1. x \in Request /\ (x.kind \in GrantKinds => x.user \in User)
      BY BegunType DEF Building, Kinds, GrantKinds, TypeOK
    <2> QED BY <1>8, <2>1, ReplaceType DEF call, TypeOK
  <1>9. \A r \in Req : /\ aborted(r) \in Request
                       /\ aborted(r).kind = req[r].kind /\ aborted(r).user = req[r].user
                       /\ loop.r = r => aborted(r) = req[r]
    BY AnswerType DEF TypeOK, aborted, answered, Outcomes
  <1>10. ASSUME shutdown PROVE TypeOK'
    BY <1>9, <1>10 DEF TypeOK, shutdown, client, servers
  <1>11. ASSUME NEW force \in BOOLEAN, close(force) PROVE TypeOK'
    BY <1>9, <1>11 DEF TypeOK, close, client, servers
  <1> QED
    BY <1>1, <1>2, <1>3, <1>4, <1>5, <1>6, <1>7, <1>8, <1>10, <1>11 DEF Application

\* The two reads of a request, on either thread.
LEMMA TypeReads == ASSUME TypeOK, Reads PROVE TypeOK'
  <1>1. PICK r \in Req : endpoint_to_url(r) \/ prepare_headers(r)
    BY DEF Reads
  <1>2. /\ req' \in [Req -> Request]
        /\ \A q \in Req : req'[q].kind = req[q].kind /\ req'[q].user = req[q].user
        /\ \A q \in Req \ {r} : req'[q] = req[q]
        /\ req[r].st \in Building /\ req'[r].st \in Building \cup {"sent"}
    <2>1. CASE endpoint_to_url(r)
      BY <2>1 DEF TypeOK, endpoint_to_url, Request, Building
    <2>2. CASE prepare_headers(r)
      BY <2>2 DEF TypeOK, prepare_headers, Request, Building
    <2> QED BY <1>1, <2>1, <2>2
  <1>3. /\ loop' = IF loop.r = r /\ req'[r].st = "sent" THEN Idle ELSE loop
        /\ UNCHANGED <<client, life, servers, loggedOut>>
    BY <1>1 DEF endpoint_to_url, prepare_headers
  <1>4. loop' \in [at : Places, r : Req \cup {Empty}]
    BY <1>3 DEF TypeOK, Idle, Places
  <1>5. loop'.at # "idle" =>
          /\ loop'.r \in Req
          /\ req'[loop'.r].st \in (IF loop'.at = "submit" THEN Building ELSE {"answered"})
    BY <1>2, <1>3 DEF TypeOK, Idle, Building
  <1> QED
    BY <1>2, <1>3, <1>4, <1>5 DEF TypeOK, client, servers

\* What servers and the network do keeps the types.
LEMMA TypeNetwork == ASSUME TypeOK, Network PROVE TypeOK'
  <1>0. ASSUME NEW r \in Req, NEW outcome \in Outcomes, NEW t \in Token \cup {Empty},
               req[r].st \in {"sent", "answered"}, answer(r, outcome, t)
        PROVE  /\ req' \in [Req -> Request]
               /\ \A q \in Req : req'[q].kind \in GrantKinds => req'[q].user \in User
               /\ loop.at # "idle" =>
                    /\ loop.r \in Req
                    /\ req'[loop.r].st \in (IF loop.at = "submit" THEN Building ELSE {"answered"})
    <2>1. /\ req' \in [Req -> Request]
          /\ \A q \in Req : req'[q].kind \in GrantKinds => req'[q].user \in User
          /\ req'[r].st = "answered"
          /\ \A q \in Req \ {r} : req'[q] = req[q]
      BY <1>0, AnswerType DEF TypeOK, answer, answered
    <2>2. req[r].st \notin Building
      BY <1>0 DEF Building
    <2> QED
      BY <1>0, <2>1, <2>2 DEF TypeOK
  <1>1. ASSUME NEW r \in Req, NEW t \in Token, grant(r, t) PROVE TypeOK'
    <2>1. [user |-> req[r].user, host |-> req[r].host] \in Grant \cup {NoGrant}
      BY <1>1 DEF TypeOK, grant, Grant, NoGrant, Request
    <2>2. granted' \in [Token -> Grant \cup {NoGrant}]
      BY <1>1, <2>1 DEF TypeOK, grant
    <2> QED BY <1>0, <1>1, <2>2 DEF TypeOK, grant, client, Outcomes
  <1>2. ASSUME NEW r \in Req, revoke(r) PROVE TypeOK'
    <2>1. req[r].auth \in Token
      BY <1>2 DEF TypeOK, revoke, valid, Request
    <2> QED BY <1>0, <1>2, <2>1 DEF TypeOK, revoke, client, Outcomes
  <1>3. ASSUME NEW r \in Req, NEW outcome \in Outcomes, respond(r, outcome) PROVE TypeOK'
    BY <1>0, <1>3 DEF TypeOK, respond, client, servers
  <1>4. ASSUME NEW r \in Req, lose(r) PROVE TypeOK'
    BY <1>0, <1>4 DEF TypeOK, lose, client, servers, Outcomes
  <1> QED
    BY <1>1, <1>2, <1>3, <1>4 DEF Network

\* The statements of callbacks, run by the event loop, keep the types.
LEMMA TypeEventLoop == ASSUME TypeOK, EventLoop PROVE TypeOK'
  <1>1. ASSUME NEW r \in Req, prompt(r) PROVE TypeOK'
    BY <1>1 DEF TypeOK, prompt, ready, Idle, Request, client, servers
  <1>2. ASSUME NEW r \in Req, fall_back(r) PROVE TypeOK'
    <2> DEFINE x == begun("media_v3", Empty, "building")
    <2>1. x \in Request /\ x.kind \notin GrantKinds /\ x.st \in Building
      BY BegunType DEF Building, Kinds, GrantKinds
    <2>2. req' = [req EXCEPT ![r] = x] /\ loop' = [at |-> "submit", r |-> r]
      BY <1>2 DEF fall_back, fallback_request
    <2>3. /\ req' \in [Req -> Request]
          /\ \A q \in Req : req'[q].kind \in GrantKinds => req'[q].user \in User
          /\ req'[r].st \in Building
      BY <2>1, <2>2 DEF TypeOK
    <2> HIDE DEF x
    <2> QED
      BY <1>2, <2>2, <2>3 DEF TypeOK, fall_back, Places, client, servers
  <1>3. ASSUME NEW r \in Req, deliver(r) PROVE TypeOK'
    BY <1>3 DEF TypeOK, deliver, ready, first, Places, Assigning, Clearing, client, servers
  <1>4. \A place : after(place) \in Places \ {"idle", "submit"}
    BY DEF after, Places, Assigning, Clearing
  <1>5. ASSUME proceed, loop.at \notin {"idle", "submit"}
        PROVE  /\ loop' \in [at : Places, r : Req \cup {Empty}]
               /\ loop'.r = loop.r /\ loop'.at # "submit"
    BY <1>4, <1>5 DEF TypeOK, proceed
  <1>6. ASSUME loop.at # "idle"
        PROVE  /\ req[loop.r].user \in User \cup {Empty}
               /\ req[loop.r].token \in Token \cup {Empty}
    BY <1>6 DEF TypeOK, Request
  <1>7. ASSUME assign_user \/ assign_device \/ assign_token PROVE TypeOK'
    BY <1>5, <1>6, <1>7
    DEF TypeOK, assign_user, assign_device, assign_token, servers
  <1>8. ASSUME clear_device \/ clear_token \/ clear_server PROVE TypeOK'
    BY <1>5, <1>8
    DEF TypeOK, clear_device, clear_token, clear_server, session, servers
  <1>9. ASSUME callback PROVE TypeOK'
    <2> DEFINE x == [FreeRequest EXCEPT !.st = "done"]
    <2>1. x \in Request /\ x.kind \notin GrantKinds
      BY DEF FreeRequest, Request, Kinds, Outcomes, GrantKinds
    <2>2. loop.r \in Req
      BY <1>9 DEF TypeOK, callback
    <2>3. /\ req' \in [Req -> Request]
          /\ \A q \in Req : req'[q].kind \in GrantKinds => req'[q].user \in User
      BY <1>9, <2>1, <2>2 DEF TypeOK, callback
    <2>4. loggedOut' \subseteq Token
      BY <1>9, <2>2 DEF TypeOK, callback, Request
    <2> QED
      BY <1>9, <2>3, <2>4 DEF TypeOK, callback, Idle, Places, client, servers
  <1>10. ASSUME closed PROVE TypeOK'
    BY <1>10 DEF TypeOK, closed, client, servers
  <1> QED
    BY <1>1, <1>2, <1>3, <1>7, <1>8, <1>9, <1>10
    DEF EventLoop, Callbacks, Statements

\* Every step keeps the types.
LEMMA TypeNext == TypeOK /\ [Next]_vars => TypeOK'
  <1> SUFFICES ASSUME TypeOK, [Next]_vars PROVE TypeOK'
    OBVIOUS
  <1>1. CASE UNCHANGED vars
    BY <1>1 DEF TypeOK, vars, client, servers
  <1> QED
    BY <1>1, TypeApplication, TypeReads, TypeNetwork, TypeEventLoop DEF Next

\* The members of Client, the requests and the event loop's position keep their
\* types; in particular the loop never works on a request that is not waiting
\* for its callback.
THEOREM TypeCorrect == Spec => []TypeOK
  BY TypeInit, TypeNext, PTL DEF Spec

-----------------------------------------------------------------------------
(* A token that was logged out is not used again.                           *)

USE ClientSessionAssumption DEF Issued

TokenOnly == HeldInv /\ HistoryInv /\ PendingInv /\ LoopInv

\* A Client that was just constructed has no token to speak of.
LEMMA TokenInit == Init => TokenInv
  <1> SUFFICES ASSUME Init PROVE TokenInv
    OBVIOUS
  <1>1. TypeOK
    BY TypeInit
  <1>2. \A r \in Req : req[r].st = "free" /\ req[r].auth = Empty
    BY DEF Init, FreeRequest
  <1>3. HeldInv /\ HistoryInv
    BY <1>2 DEF Init, HeldInv, HistoryInv
  <1>4. PendingInv
    BY <1>2 DEF PendingInv, Pending
  <1>5. LoopInv
    BY DEF Init, LoopInv, Idle, Assigning, Clearing
  <1> QED
    BY <1>1, <1>3, <1>4, <1>5 DEF TokenInv

\* A call begins, in the application or as a fallback: the request that takes the
\* place of r carries no token yet and no response.
LEMMA TokenBegin ==
    ASSUME TokenInv, NEW r \in Req, NEW kind, NEW user, NEW st \in Building,
           req' = [req EXCEPT ![r] = begun(kind, user, st)],
           \/ req[r].st \in {"free", "prompted"} /\ UNCHANGED loop
           \/ loop = Idle /\ loop' = [at |-> "submit", r |-> r],
           UNCHANGED <<client, granted, loggedOut>>
    PROVE  TokenOnly'
  <1> USE DEF TokenInv
  <1>1. /\ req'[r].st \in Building /\ req'[r].auth = Empty
        /\ \A q \in Req \ {r} : req'[q] = req[q]
    BY DEF TypeOK, begun
  <1>2. \A q \in Req : Pending(q)' => q # r /\ Pending(q) /\ req'[q] = req[q]
    BY <1>1 DEF Pending, Building, Idle
  <1>3. HeldInv'
    BY DEF HeldInv, client
  <1>4. HistoryInv'
    BY <1>1 DEF HistoryInv
  <1>5. PendingInv'
    <2>1. \A q \in Req : Pending(q) => req[q].token # Empty
      BY DEF PendingInv
    <2> QED
      BY <1>1, <1>2, <2>1 DEF PendingInv, client
  <1>6. LoopInv'
    <2>1. CASE req[r].st \in {"free", "prompted"} /\ UNCHANGED loop
      <3>1. loop.at # "idle" => loop.r # r /\ req'[loop.r] = req[loop.r]
        BY <1>1, <2>1 DEF TypeOK, Building
      <3> QED
        BY <2>1, <3>1 DEF LoopInv, Assigning, Clearing, client
    <2>2. CASE loop' = [at |-> "submit", r |-> r]
      BY <2>2 DEF LoopInv, Assigning, Clearing
    <2> QED
      BY <2>1, <2>2
  <1> QED
    BY <1>3, <1>4, <1>5, <1>6 DEF TokenOnly

\* A request reads the server, or the token that is held.
LEMMA TokenReads == ASSUME TokenInv, Reads PROVE TokenOnly'
  <1> USE DEF TokenInv
  <1>1. PICK r \in Req : endpoint_to_url(r) \/ prepare_headers(r)
    BY DEF Reads
  <1>2. /\ req'[r].auth \in {req[r].auth, access_token_}
        /\ \A q \in Req \ {r} : req'[q] = req[q]
        /\ req[r].st \in Building /\ req'[r].st # "answered"
    <2>1. CASE endpoint_to_url(r)
      BY <2>1 DEF TypeOK, endpoint_to_url, Request, Building
    <2>2. CASE prepare_headers(r)
      BY <2>2 DEF TypeOK, prepare_headers, Request, Building
    <2> QED BY <1>1, <2>1, <2>2
  <1>3. /\ loop' = IF loop.r = r /\ req'[r].st = "sent" THEN Idle ELSE loop
        /\ UNCHANGED <<client, granted, loggedOut>>
    BY <1>1 DEF endpoint_to_url, prepare_headers, servers
  <1>4. loop.at # "idle" => loop.r \in Req /\ (loop.r = r => loop.at = "submit")
    BY <1>2 DEF TypeOK, Building
  <1>5. \A q \in Req : Pending(q)' => q # r /\ Pending(q) /\ req'[q] = req[q]
    BY <1>2, <1>3, <1>4 DEF Pending, Idle
  <1>6. HeldInv'
    BY <1>3 DEF HeldInv, client
  <1>7. HistoryInv'
    BY <1>2, <1>3 DEF HistoryInv, HeldInv, client
  <1>8. PendingInv'
    BY <1>2, <1>3, <1>5 DEF PendingInv, client
  <1>9. LoopInv'
    <2>1. CASE loop' = Idle
      BY <2>1 DEF LoopInv, Idle, Assigning, Clearing
    <2>2. CASE loop' = loop
      <3>1. loop.at \notin {"idle", "submit"} => req'[loop.r] = req[loop.r]
        BY <1>2, <1>4
      <3> QED
        BY <1>3, <2>2, <3>1 DEF LoopInv, Assigning, Clearing, client
    <2> QED
      BY <1>3, <2>1, <2>2
  <1> QED
    BY <1>6, <1>7, <1>8, <1>9 DEF TokenOnly

\* Requests end, or are taken off the network, without a token of their own: no
\* request becomes pending, and the one the event loop works on stays.
LEMMA TokenEnds ==
    ASSUME TokenInv,
           \A q \in Req : req'[q].auth \in {Empty, req[q].auth},
           \A q \in Req : req'[q] = req[q] \/ (loop.r # q /\ req'[q].outcome # "ok"),
           UNCHANGED <<client, loop, granted, loggedOut>>
    PROVE  TokenOnly'
  <1> USE DEF TokenInv
  <1>1. \A q \in Req : Pending(q)' => Pending(q) /\ req'[q] = req[q]
    BY DEF Pending
  <1>2. HeldInv' /\ HistoryInv'
    BY DEF HeldInv, HistoryInv, client
  <1>3. PendingInv'
    <2> SUFFICES ASSUME NEW r \in Req, Pending(r)'
                 PROVE  /\ req'[r].token \in Issued' \ (Stored \cup loggedOut' \cup {access_token_'})
                        /\ \A q \in Req : req'[q].auth # req'[r].token
                        /\ \A q \in Req \ {r} : Pending(q)' => req'[q].token # req'[r].token
      BY DEF PendingInv
    <2>1. Pending(r) /\ req'[r] = req[r]
      BY <1>1
    <2>2. req[r].token # Empty
      BY <2>1 DEF PendingInv
    <2> QED
      BY <1>1, <2>1, <2>2 DEF PendingInv, client
  <1>4. LoopInv'
    <2>1. loop.at # "idle" => loop.r \in Req /\ req'[loop.r] = req[loop.r]
      BY DEF TypeOK
    <2> QED
      BY <2>1 DEF LoopInv, Assigning, Clearing, client
  <1> QED
    BY <1>2, <1>3, <1>4 DEF TokenOnly

\* The calls of the application's thread bring back no token that was logged out.
LEMMA TokenApplication == ASSUME TokenInv, Application PROVE TokenOnly'
  <1> USE DEF TokenInv
  <1>1. ASSUME NEW h \in Host, set_server(h) PROVE TokenOnly'
    BY <1>1 DEF set_server, session, servers, TokenOnly, HeldInv, HistoryInv,
                PendingInv, Pending, LoopInv
  <1>2. ASSUME NEW t \in Token, restore(t) PROVE TokenOnly'
    <2>1. \A r \in Req : req[r].st \notin {"answered"} \cup Building
      BY <1>2 DEF restore, InFlight
    <2>2. loop.at = "idle"
      BY <2>1 DEF TypeOK
    <2>3. HeldInv' /\ HistoryInv'
      BY <1>2 DEF restore, HeldInv, HistoryInv, servers
    <2>4. PendingInv'
      BY <1>2, <2>1 DEF restore, PendingInv, Pending
    <2>5. LoopInv'
      BY <1>2, <2>2 DEF restore, LoopInv, Assigning, Clearing
    <2> QED BY <2>3, <2>4, <2>5 DEF TokenOnly
  <1>3. ASSUME clear PROVE TokenOnly'
    <2>1. HeldInv' /\ HistoryInv' /\ LoopInv'
      BY <1>3 DEF clear, servers, HeldInv, HistoryInv, LoopInv
    <2>2. PendingInv'
      BY <1>3 DEF clear, servers, PendingInv, Pending
    <2> QED BY <2>1, <2>2 DEF TokenOnly
  <1>4. ASSUME NEW r \in Req, NEW u \in User, login(r, u) \/ registration(r, u)
        PROVE  TokenOnly'
    BY <1>4, TokenBegin DEF login, registration, servers, Building
  <1>5. ASSUME NEW r \in Req, next(r) PROVE TokenOnly'
    BY <1>5, TokenBegin DEF next, servers, Building
  <1>6. ASSUME NEW r \in Req, logout(r) PROVE TokenOnly'
    BY <1>6, TokenBegin DEF logout, servers, Building
  <1>7. ASSUME NEW r \in Req, NEW kind \in {"api", "media"}, call(r, kind) PROVE TokenOnly'
    BY <1>7, TokenBegin DEF call, servers, Building
  <1>8. \A r \in Req : /\ aborted(r).auth = req[r].auth
                       /\ aborted(r) = req[r] \/ (loop.r # r /\ aborted(r).outcome # "ok")
    BY DEF aborted, answered
  <1>9. ASSUME shutdown PROVE TokenOnly'
    BY <1>8, <1>9, TokenEnds DEF shutdown, servers
  <1>10. ASSUME NEW force \in BOOLEAN, close(force) PROVE TokenOnly'
    BY <1>8, <1>10, TokenEnds DEF close, servers
  <1> QED
    BY <1>1, <1>2, <1>3, <1>4, <1>5, <1>6, <1>7, <1>9, <1>10 DEF Application

\* A server grants only tokens nobody had.
LEMMA TokenNetwork == ASSUME TokenInv, Network PROVE TokenOnly'
  <1> USE DEF TokenInv
  <1>0. ASSUME NEW r \in Req, NEW outcome, NEW t, answer(r, outcome, t)
        PROVE  /\ req'[r] = answered(r, outcome, t)
               /\ \A q \in Req \ {r} : req'[q] = req[q]
               /\ \A q \in Req : req'[q].auth = req[q].auth
    BY <1>0 DEF TypeOK, answer, answered
  <1>1. ASSUME NEW r \in Req, req[r].st = "sent" PROVE loop.r # r
    BY <1>1 DEF TypeOK, LoopInv, Building
  <1>2. ASSUME NEW r \in Req, NEW t \in Token, grant(r, t) PROVE TokenOnly'
    <2>1. /\ req'[r] = answered(r, "ok", t)
          /\ \A q \in Req \ {r} : req'[q] = req[q]
          /\ \A q \in Req : req'[q].auth = req[q].auth
      BY <1>0, <1>2 DEF grant
    <2>2. t \notin Issued /\ Issued' = Issued \cup {t}
      <3>1. req[r].host # Empty /\ granted[t] = NoGrant
        BY <1>2 DEF grant
      <3>2. granted' = [granted EXCEPT ![t] = [user |-> req[r].user, host |-> req[r].host]]
        BY <1>2 DEF grant
      <3> QED
        BY <3>1, <3>2 DEF TypeOK, NoGrant
    <2>3. HeldInv' /\ HistoryInv'
      BY <1>2, <2>1, <2>2 DEF grant, client, HeldInv, HistoryInv
    <2>4. \A q \in Req \ {r} : Pending(q)' => Pending(q) /\ req'[q] = req[q]
      BY <1>2, <2>1 DEF grant, Pending
    <2>5. req'[r].token = t
      BY <2>1 DEF answered
    <2>6. PendingInv'
      <3>1. t \notin Stored \cup loggedOut \cup {access_token_} /\ t # Empty
        BY <2>2 DEF HistoryInv, HeldInv
      <3>2. \A q \in Req : req[q].auth # t
        BY <2>2, <3>1 DEF HistoryInv
      <3>3. \A q \in Req \ {r} : Pending(q) => req[q].token # t
        BY <2>2 DEF PendingInv
      <3>4. ASSUME NEW q \in Req \ {r}, Pending(q)'
            PROVE  /\ req'[q].token \in Issued' \ (Stored \cup loggedOut' \cup {access_token_'})
                   /\ \A p \in Req : req'[p].auth # req'[q].token
                   /\ \A p \in Req \ {q} : Pending(p)' => req'[p].token # req'[q].token
        BY <1>2, <2>1, <2>2, <2>4, <2>5, <3>3, <3>4 DEF grant, client, PendingInv
      <3>5. /\ req'[r].token \in Issued' \ (Stored \cup loggedOut' \cup {access_token_'})
            /\ \A q \in Req : req'[q].auth # req'[r].token
            /\ \A q \in Req \ {r} : Pending(q)' => req'[q].token # req'[r].token
        BY <1>2, <2>1, <2>2, <2>4, <2>5, <3>1, <3>2, <3>3 DEF grant, client
      <3> QED
        BY <3>4, <3>5 DEF PendingInv
    <2>7. LoopInv'
      <3>1. loop.r # r
        BY <1>1, <1>2 DEF grant
      <3>2. loop.at # "idle" => loop.r \in Req /\ req'[loop.r] = req[loop.r]
        BY <2>1, <3>1 DEF TypeOK
      <3> QED
        BY <1>2, <3>2 DEF grant, client, LoopInv, Assigning, Clearing
    <2> QED BY <2>3, <2>6, <2>7 DEF TokenOnly
  <1>3. ASSUME NEW r \in Req, NEW outcome, answer(r, outcome, Empty),
               req[r].kind \notin GrantKinds \/ outcome # "ok", loop.r # r,
               UNCHANGED <<client, loop, granted, loggedOut>>
        PROVE  TokenOnly'
    <2>1. /\ req'[r] = answered(r, outcome, Empty)
          /\ \A q \in Req \ {r} : req'[q] = req[q]
          /\ \A q \in Req : req'[q].auth = req[q].auth
      BY <1>0, <1>3
    <2>2. \A q \in Req : Pending(q)' => Pending(q) /\ req'[q] = req[q]
      BY <1>3, <2>1 DEF Pending, answered
    <2>3. HeldInv' /\ HistoryInv' /\ PendingInv'
      BY <1>3, <2>1, <2>2 DEF HeldInv, HistoryInv, PendingInv, client
    <2>4. LoopInv'
      <3>1. loop.at # "idle" => loop.r \in Req /\ req'[loop.r] = req[loop.r]
        BY <1>3, <2>1 DEF TypeOK
      <3> QED
        BY <1>3, <3>1 DEF client, LoopInv, Assigning, Clearing
    <2> QED BY <2>3, <2>4 DEF TokenOnly
  <1>4. ASSUME NEW r \in Req, revoke(r) PROVE TokenOnly'
    BY <1>1, <1>3, <1>4 DEF revoke, GrantKinds
  <1>5. ASSUME NEW r \in Req, NEW outcome \in Outcomes, respond(r, outcome) PROVE TokenOnly'
    BY <1>1, <1>3, <1>5 DEF respond, servers, GrantKinds
  <1>6. ASSUME NEW r \in Req, lose(r) PROVE TokenOnly'
    BY <1>3, <1>6 DEF lose, servers
  <1> QED
    BY <1>2, <1>4, <1>5, <1>6 DEF Network

\* A callback assigns only a token that is fresh, and reports a logout only once the
\* token is gone.
LEMMA TokenEventLoop == ASSUME TokenInv, EventLoop PROVE TokenOnly'
  <1> USE DEF TokenInv
  <1>1. ASSUME NEW r \in Req, prompt(r) PROVE TokenOnly'
    <2>1. /\ \A q \in Req : req'[q].auth = req[q].auth
          /\ \A q \in Req : req'[q] = req[q] \/ (loop.r # q /\ req'[q].outcome # "ok")
      BY <1>1 DEF prompt, prompts, ready, Idle, TypeOK, Request
    <2> QED
      BY <1>1, <2>1, TokenEnds DEF prompt, servers
  <1>2. ASSUME NEW r \in Req, fall_back(r) PROVE TokenOnly'
    BY <1>2, TokenBegin DEF fall_back, fallback_request, ready, servers, Building
  <1>3. ASSUME NEW r \in Req, deliver(r) PROVE TokenOnly'
    <2>1. \A q \in Req : Pending(q)' => Pending(q)
      BY <1>3 DEF deliver, ready, Idle, Pending
    <2>2. HeldInv' /\ HistoryInv' /\ PendingInv'
      BY <1>3, <2>1 DEF deliver, client, servers, HeldInv, HistoryInv, PendingInv
    <2>3. LoopInv'
      BY <1>3 DEF deliver, client, LoopInv, first, Assigning, Clearing, GrantKinds
    <2> QED BY <2>2, <2>3 DEF TokenOnly
  <1>4. ASSUME proceed, loop.at # "idle"
        PROVE  loop'.at = after(loop.at) /\ loop'.r = loop.r
    BY <1>4 DEF TypeOK, proceed
  <1>5. ASSUME assign_user \/ assign_device PROVE TokenOnly'
    <2>1. loop'.at \in {"device", "token"} /\ loop'.r = loop.r /\ loop.at \in Assigning
      BY <1>4, <1>5 DEF assign_user, assign_device, after, Assigning
    <2>2. UNCHANGED <<access_token_, req, granted, loggedOut>>
      BY <1>5 DEF assign_user, assign_device, servers
    <2>3. \A q \in Req : Pending(q)' => Pending(q)
      BY <2>1, <2>2 DEF Pending, Assigning
    <2>4. HeldInv' /\ HistoryInv' /\ PendingInv'
      BY <2>2, <2>3 DEF HeldInv, HistoryInv, PendingInv
    <2>5. LoopInv'
      BY <2>1, <2>2 DEF LoopInv, Assigning, Clearing
    <2> QED BY <2>4, <2>5 DEF TokenOnly
  <1>6. ASSUME assign_token PROVE TokenOnly'
    <2>1. loop.at = "token" /\ loop'.at = "callback" /\ loop'.r = loop.r /\ loop.r \in Req
      BY <1>4, <1>6 DEF assign_token, after, TypeOK
    <2>2. access_token_' = req[loop.r].token /\ UNCHANGED <<req, granted, loggedOut>>
      BY <1>6 DEF assign_token, servers
    <2>3. Pending(loop.r) /\ req[loop.r].kind \in GrantKinds
      BY <2>1 DEF Pending, LoopInv, Assigning, TypeOK
    <2>4. \A q \in Req : Pending(q)' => Pending(q) /\ q # loop.r
      BY <2>1, <2>2 DEF Pending
    <2>5. HeldInv' /\ HistoryInv'
      BY <2>1, <2>2, <2>3 DEF HeldInv, HistoryInv, PendingInv
    <2>6. PendingInv'
      BY <2>1, <2>2, <2>3, <2>4 DEF PendingInv
    <2>7. LoopInv'
      BY <2>1, <2>2, <2>3 DEF LoopInv, Assigning, Clearing, GrantKinds
    <2> QED BY <2>5, <2>6, <2>7 DEF TokenOnly
  <1>7. ASSUME clear_device \/ clear_token \/ clear_server PROVE TokenOnly'
    <2>1. /\ loop.at \in Clearing /\ loop'.r = loop.r
          /\ loop'.at = after(loop.at)
          /\ loop'.at \in {"clear_token", "clear_server", "callback"}
      BY <1>4, <1>7 DEF clear_device, clear_token, clear_server, after, Clearing
    <2>2. /\ UNCHANGED <<req, granted, loggedOut>>
          /\ access_token_' \in {Empty, access_token_}
      BY <1>7 DEF clear_device, clear_token, clear_server, servers, session
    <2>3. loop'.at # "clear_token" => access_token_' = Empty
      BY <1>7, <1>4 DEF clear_device, clear_token, clear_server, session, after, LoopInv
    <2>4. req[loop.r].kind = "logout" /\ req[loop.r].outcome = "ok"
      BY <2>1 DEF LoopInv
    <2>5. \A q \in Req : Pending(q)' => Pending(q)
      BY <2>1, <2>2, <2>4 DEF Pending, GrantKinds
    <2>6. HeldInv' /\ HistoryInv' /\ PendingInv'
      BY <2>2, <2>5 DEF HeldInv, HistoryInv, PendingInv
    <2>7. LoopInv'
      BY <2>1, <2>2, <2>3, <2>4 DEF LoopInv, Assigning, Clearing
    <2> QED BY <2>6, <2>7 DEF TokenOnly
  <1>8. ASSUME callback PROVE TokenOnly'
    <2>1. loop.at = "callback" /\ loop' = Idle /\ loop.r \in Req
      BY <1>8 DEF callback, TypeOK
    <2>2. /\ UNCHANGED <<access_token_, granted>>
          /\ loggedOut \subseteq loggedOut'
          /\ loggedOut' \subseteq loggedOut \cup ({req[loop.r].auth} \ {Empty})
          /\ loggedOut' # loggedOut =>
               req[loop.r].kind = "logout" /\ req[loop.r].outcome = "ok"
      BY <1>8 DEF callback, client, servers
    <2>3. /\ req'[loop.r].st = "done" /\ req'[loop.r].auth = Empty
          /\ req'[loop.r].kind = "none"
          /\ \A q \in Req \ {loop.r} : req'[q] = req[q]
      BY <1>8, <2>1 DEF callback, TypeOK, FreeRequest
    <2>4. \A q \in Req : Pending(q)' => Pending(q) /\ req'[q] = req[q]
      BY <2>1, <2>3 DEF Pending
    <2>5. HeldInv' /\ HistoryInv'
      BY <2>1, <2>2, <2>3 DEF HeldInv, HistoryInv, LoopInv
    <2>6. PendingInv'
      BY <2>1, <2>2, <2>3, <2>4 DEF PendingInv
    <2>7. LoopInv'
      BY <2>1 DEF LoopInv, Idle, Assigning, Clearing
    <2> QED BY <2>5, <2>6, <2>7 DEF TokenOnly
  <1>9. ASSUME closed PROVE TokenOnly'
    BY <1>9, TokenEnds DEF closed, servers
  <1> QED
    BY <1>1, <1>2, <1>3, <1>5, <1>6, <1>7, <1>8, <1>9
    DEF EventLoop, Callbacks, Statements

\* The invariant on tokens is inductive.
LEMMA TokenNext == TokenInv /\ [Next]_vars => TokenInv'
  <1> SUFFICES ASSUME TokenInv, [Next]_vars PROVE TokenInv'
    OBVIOUS
  <1>1. TypeOK'
    BY TypeNext DEF TokenInv
  <1>2. CASE UNCHANGED vars
    BY <1>1, <1>2 DEF vars, client, servers, TokenInv, HeldInv, HistoryInv,
                      PendingInv, Pending, LoopInv
  <1>3. CASE Next
    BY <1>1, <1>3, TokenApplication, TokenReads, TokenNetwork, TokenEventLoop
    DEF Next, TokenInv, TokenOnly
  <1> QED
    BY <1>2, <1>3

\* The inductive invariant: tokens in login responses that no callback has
\* handled yet are fresh, and the held token was not logged out.
THEOREM TokenInvariant == Spec => []TokenInv
  BY TokenInit, TokenNext, PTL DEF Spec

\* Whatever overlaps, the Client never holds a token whose logout was reported.
THEOREM StaleSessionNeverHeld == Spec => []NoStaleSession
  <1>1. TokenInv => NoStaleSession
    BY DEF TokenInv, TypeOK, HeldInv, NoStaleSession
  <1> QED
    BY <1>1, TokenInvariant, PTL

\* Whatever overlaps, no request is given a token whose logout was reported, by a
\* call or by a fallback.
THEOREM StaleTokenNeverSent == Spec => NoStaleToken
  <1> DEFINE Fresh ==
        \A r \in Req :
          \/ req'[r].auth # req[r].auth
          \/ req[r].st \notin Building /\ req'[r].st \in Building
          => req'[r].auth \notin loggedOut
  <1>1. TokenInv /\ [Next]_vars => Fresh
    <2> SUFFICES ASSUME TokenInv, [Next]_vars, NEW r \in Req,
                        \/ req'[r].auth # req[r].auth
                        \/ req[r].st \notin Building /\ req'[r].st \in Building
                 PROVE  req'[r].auth \notin loggedOut
      OBVIOUS
    <2> USE DEF TokenInv
    <2>1. Empty \notin loggedOut /\ access_token_ \notin loggedOut
      BY DEF TypeOK, HeldInv
    <2>2. ASSUME NEW q \in Req, NEW kind, NEW user, NEW st,
                 req' = [req EXCEPT ![q] = begun(kind, user, st)]
          PROVE  req'[r].auth \notin loggedOut
      BY <2>1, <2>2 DEF TypeOK, begun
    <2>3. CASE Application
      <3>1. \A q \in Req : /\ aborted(q).auth = req[q].auth
                           /\ aborted(q).st \in Building => req[q].st \in Building
        BY DEF aborted, answered, Building
      <3>2. CASE shutdown \/ \E force \in BOOLEAN : close(force)
        BY <3>1, <3>2 DEF shutdown, close
      <3>3. CASE clear \/ (\E h \in Host : set_server(h)) \/ (\E t \in Token : restore(t))
        BY <3>3 DEF clear, set_server, restore
      <3>4. CASE \E q \in Req : \/ \E u \in User : login(q, u) \/ registration(q, u)
                               \/ next(q)
                               \/ logout(q)
                               \/ \E kind \in {"api", "media"} : call(q, kind)
        BY <2>2, <3>4 DEF login, registration, next, logout, call
      <3> QED
        BY <2>3, <3>2, <3>3, <3>4 DEF Application
    <2>4. CASE Reads
      <3>1. ASSUME NEW q \in Req, endpoint_to_url(q) PROVE FALSE
        BY <3>1 DEF endpoint_to_url, TypeOK, Building
      <3>2. ASSUME NEW q \in Req, prepare_headers(q) PROVE req'[r].auth \notin loggedOut
        BY <2>1, <3>2 DEF prepare_headers, TypeOK, Building
      <3> QED
        BY <2>4, <3>1, <3>2 DEF Reads
    <2>5. CASE Network
      BY <2>5 DEF Network, grant, revoke, respond, lose, answer, answered, TypeOK, Building
    <2>6. CASE EventLoop
      <3>1. ASSUME NEW q \in Req, fall_back(q) PROVE req'[r].auth \notin loggedOut
        BY <2>2, <3>1 DEF fall_back, fallback_request
      <3>2. ASSUME NEW q \in Req, prompt(q) PROVE FALSE
        BY <3>2 DEF prompt, TypeOK, Request, Building
      <3>3. ASSUME callback PROVE req'[r].auth \notin loggedOut
        BY <2>1, <3>3 DEF callback, FreeRequest, TypeOK, Building
      <3>4. ASSUME NEW q \in Req, deliver(q) PROVE FALSE
        BY <3>4 DEF deliver
      <3>5. ASSUME \/ assign_user \/ assign_device \/ assign_token
                   \/ clear_device \/ clear_token \/ clear_server \/ closed
            PROVE  FALSE
        BY <3>5 DEF assign_user, assign_device, assign_token, clear_device,
                    clear_token, clear_server, closed
      <3> QED
        BY <2>6, <3>1, <3>2, <3>3, <3>4, <3>5 DEF EventLoop, Callbacks, Statements
    <2>7. CASE UNCHANGED vars
      BY <2>7 DEF vars
    <2> QED
      BY <2>3, <2>4, <2>5, <2>6, <2>7 DEF Next
  <1> QED
    BY <1>1, TokenInvariant, PTL DEF Spec, NoStaleToken
-----------------------------------------------------------------------------
(***************************************************************************)
(* An application that changes its session in one place (SerialAuth): the   *)
(* session it sees is whole, its requests are coherent, logout clears only  *)
(* a token that is invalid, and the Client implements module Session.       *)
(***************************************************************************)
USE ClientSessionAssumption DEF Issued

SerialOnly ==
    /\ FreeInv /\ OneChange
    /\ LoginInv /\ LogoutInv /\ SessionInv /\ ReadsInv /\ RequestsCoherent

-----------------------------------------------------------------------------
(* What the discipline gives.                                               *)

\* Initially there are no requests and no token.
LEMMA SerialInit == Init => SerialInv
  <1> SUFFICES ASSUME Init PROVE SerialInv
    OBVIOUS
  <1>1. TokenInv
    BY TokenInit
  <1>2. \A r \in Req : /\ req[r].st = "free" /\ req[r].kind = "none"
                       /\ req[r].auth = Empty
    BY DEF Init, FreeRequest
  <1>3. access_token_ = Empty /\ loop.at = "idle"
    BY DEF Init, Idle
  <1>4. FreeInv /\ OneChange /\ RequestsCoherent
    BY <1>2 DEF FreeInv, OneChange, ChangesSession, AuthKinds, RequestsCoherent
  <1>5. LoginInv /\ LogoutInv /\ SessionInv
    BY <1>2, <1>3 DEF LoginInv, LogoutInv, SessionInv, GrantKinds
  <1>6. ReadsInv
    BY <1>2, <1>3 DEF ReadsInv, Building
  <1> QED
    BY <1>1, <1>4, <1>5, <1>6 DEF SerialInv

\* While the application's thread is not inside a call, no request that names the
\* user is incomplete: the event loop only submits fallbacks.
LEMMA NoneIncomplete ==
    ASSUME TokenInv, ReadsInv, AppIdle, NEW r \in Req, req[r].st \in Building
    PROVE  loop.r = r /\ loop.at = "submit" /\ req[r].kind = "media_v3"
  <1>1. loop.r = r
    BY DEF AppIdle
  <1>2. loop.at # "idle"
    BY <1>1 DEF TokenInv, LoopInv
  <1>3. loop.at = "submit"
    BY <1>1, <1>2 DEF TokenInv, TypeOK, Building
  <1> QED
    BY <1>1, <1>3 DEF ReadsInv

\* An application that waits for one change before it begins another finds no
\* request that changes the session.
LEMMA QuietMeans ==
    ASSUME SerialAuth, Quiet, FreeInv
    PROVE  \A r \in Req : ~ ChangesSession(r)
  <1>1. \A r \in Req : req[r].kind \in AuthKinds => req[r].st \notin {"free", "done"}
    BY DEF FreeInv, AuthKinds
  <1> QED
    BY <1>1 DEF Quiet, Pends, ChangesSession

\* The application begins a call: r carries no token and has read nothing yet.
LEMMA SerialBegin ==
    ASSUME SerialInv, NEW r \in Req, NEW kind \in Kinds \ {"none"}, NEW user,
           NEW st \in Building,
           req' = [req EXCEPT ![r] = begun(kind, user, st)],
           req[r].st \in {"free", "prompted"},
           UNCHANGED <<client, loop, servers>>,
           kind \in AuthKinds => \A q \in Req \ {r} : ~ ChangesSession(q),
           kind \in GrantKinds =>
             /\ access_token_ = Empty /\ st = "have_header"
             /\ \A q \in Req : req[q].st \in Building => req[q].kind # "api",
           kind = "logout" => st = "building",
           kind = "api" => user = user_id_ /\ \A q \in Req : req[q].kind \notin GrantKinds
    PROVE  SerialOnly'
  <1> USE DEF SerialInv, TokenInv
  <1>1. /\ req'[r].st = st /\ req'[r].kind = kind /\ req'[r].user = user
        /\ req'[r].auth = Empty /\ req'[r].host = Empty
        /\ \A q \in Req \ {r} : req'[q] = req[q]
    BY DEF TypeOK, begun
  <1>2. loop.at # "idle" => loop.r \in Req /\ loop.r # r /\ req'[loop.r] = req[loop.r]
    BY <1>1 DEF TypeOK, Building
  <1>3. st \notin {"free", "done", "sent", "answered", "prompted"}
    BY DEF Building
  <1>4. FreeInv'
    BY <1>1, <1>3 DEF FreeInv
  <1>5. OneChange'
    BY <1>1 DEF OneChange, ChangesSession
  <1>6. LoginInv'
    <2>1. ASSUME NEW q \in Req, req'[q].kind \in GrantKinds
          PROVE  /\ access_token_ = Empty \/ (loop.r = q /\ loop.at = "callback")
                 /\ req'[q].st \notin {"building", "have_url"}
                 /\ req'[q].st \in {"sent", "answered"} => req'[q].host = server_
                 /\ req'[q].st = "answered" /\ req'[q].outcome = "ok" =>
                      /\ req'[q].token \in Token
                      /\ granted[req'[q].token] = [user |-> req'[q].user, host |-> req'[q].host]
      BY <1>1, <1>3, <2>1 DEF LoginInv
    <2>2. /\ loop.at \in {"device", "token"} => user_id_ = req'[loop.r].user
          /\ loop.at = "token" => device_id_ = req'[loop.r].token
      BY <1>2 DEF LoginInv
    <2> QED
      BY <2>1, <2>2 DEF LoginInv, client, servers
  <1>7. LogoutInv'
    BY <1>1, <1>3 DEF LogoutInv, client, servers
  <1>8. SessionInv'
    BY DEF SessionInv, client, servers
  <1>9. ReadsInv'
    <2>1. ASSUME NEW q \in Req, req'[q].st \in Building
          PROVE  /\ req'[q].host # Empty => server_ \in {req'[q].host, Empty}
                 /\ req'[q].auth # Empty => server_ \in {granted[req'[q].auth].host, Empty}
      BY <1>1, <2>1 DEF ReadsInv
    <2>2. ASSUME NEW q \in Req, req'[q].kind = "api"
          PROVE  /\ req'[q].st \in Building =>
                      req'[q].user = user_id_ /\ \A p \in Req : req'[p].kind \notin GrantKinds
                 /\ req'[q].auth # Empty => req'[q].user = granted[req'[q].auth].user
      BY <1>1, <2>2 DEF ReadsInv, GrantKinds
    <2>3. ASSUME NEW q \in Req, loop.at = "submit" /\ loop.r = q
          PROVE  req'[q].kind = "media_v3"
      BY <1>2, <2>3 DEF ReadsInv
    <2> QED
      BY <2>1, <2>2, <2>3 DEF ReadsInv, client, servers
  <1>10. RequestsCoherent'
    BY <1>1, <1>3 DEF RequestsCoherent, servers
  <1> QED
    BY <1>4, <1>5, <1>6, <1>7, <1>8, <1>9, <1>10 DEF SerialOnly

\* Requests end without a session: an abort, a lost connection, an answer that
\* grants nothing, a prompt.
LEMMA SerialEnds ==
    ASSUME SerialInv, UNCHANGED <<client, loop, granted>>, revoked \subseteq revoked',
           DOMAIN req' = Req,
           \A q \in Req : \/ req'[q] = req[q]
                          \/ /\ loop.r # q /\ req[q].st \in {"sent", "answered"}
                             /\ req'[q].st \in {"answered", "prompted"}
                             /\ req'[q].st = "prompted" => req[q].kind = "registration"
                             /\ req'[q].kind = req[q].kind /\ req'[q].user = req[q].user
                             /\ req'[q].host = req[q].host /\ req'[q].auth = req[q].auth
                             /\ req[q].kind \in GrantKinds => req'[q].outcome # "ok"
                             /\ req[q].kind = "logout" /\ req'[q].outcome = "ok"
                                  => req[q].auth \in revoked'
    PROVE  SerialOnly'
  <1> USE DEF SerialInv, TokenInv
  <1>1. \A q \in Req : /\ req'[q].kind = req[q].kind /\ req'[q].user = req[q].user
                       /\ req'[q].host = req[q].host /\ req'[q].auth = req[q].auth
                       /\ req'[q].st = req[q].st \/ req[q].st \notin Building \cup {"free", "done"}
                       /\ req'[q].st = req[q].st \/ req'[q].st \in {"answered", "prompted"}
                       /\ req'[q].st \in Building <=> req[q].st \in Building
    BY DEF Building
  <1>2. loop.at # "idle" => loop.r \in Req /\ req'[loop.r] = req[loop.r]
    BY DEF TypeOK
  <1>3. FreeInv' /\ OneChange'
    BY <1>1 DEF FreeInv, OneChange, ChangesSession
  <1>4. LoginInv'
    <2>1. ASSUME NEW q \in Req, req'[q].kind \in GrantKinds
          PROVE  /\ access_token_ = Empty \/ (loop.r = q /\ loop.at = "callback")
                 /\ req'[q].st \notin {"building", "have_url"}
                 /\ req'[q].st \in {"sent", "answered"} => req'[q].host = server_
                 /\ req'[q].st = "answered" /\ req'[q].outcome = "ok" =>
                      /\ req'[q].token \in Token
                      /\ granted[req'[q].token] = [user |-> req'[q].user, host |-> req'[q].host]
      BY <1>1, <2>1 DEF LoginInv
    <2> QED
      BY <1>2, <2>1 DEF LoginInv, client
  <1>5. LogoutInv'
    <2> SUFFICES ASSUME NEW q \in Req, req'[q].kind = "logout"
                 PROVE  /\ \/ req'[q].st \in {"building", "have_url"}
                           \/ loop.r = q /\ loop.at \in {"clear_server", "callback"}
                           \/ req'[q].auth = access_token_
                        /\ req'[q].st = "answered" /\ req'[q].outcome = "ok" =>
                             req'[q].auth \in revoked'
      BY DEF LogoutInv, client
    <2>1. req[q].st \in {"building", "have_url"} => req'[q].st = req[q].st
      BY <1>1 DEF Building
    <2> QED
      BY <1>1, <2>1 DEF LogoutInv
  <1>6. SessionInv'
    BY DEF SessionInv, client
  <1>7. ReadsInv'
    BY <1>1 DEF ReadsInv, client
  <1>8. RequestsCoherent'
    BY <1>1 DEF RequestsCoherent
  <1> QED
    BY <1>3, <1>4, <1>5, <1>6, <1>7, <1>8 DEF SerialOnly

-----------------------------------------------------------------------------
(* The steps.                                                               *)

\* What an issued token was granted for is whole.
LEMMA IssuedGrant ==
    ASSUME TypeOK, NEW t \in Issued
    PROVE  /\ granted[t].user \in User /\ granted[t].host \in Host
           /\ granted[t].host # Empty
  BY DEF TypeOK, Grant, NoGrant

\* The application's thread.
LEMMA SerialApplication ==
    ASSUME SerialAuth, SerialInv, Application
    PROVE  SerialOnly'
  <1> USE DEF SerialInv, TokenInv
  <1>1. ASSUME ~ InFlight PROVE \A q \in Req : req[q].st \notin Building \cup {"sent", "answered"}
    BY <1>1 DEF InFlight
  <1>2. ASSUME NEW h \in Host, set_server(h) PROVE SerialOnly'
    <2>1. access_token_ = Empty /\ ~ InFlight
      BY <1>2 DEF set_server
    <2>2. /\ UNCHANGED <<user_id_, device_id_, access_token_, req, loop, granted, revoked>>
      BY <1>2 DEF set_server, session, servers
    <2>3. FreeInv' /\ OneChange' /\ LogoutInv' /\ RequestsCoherent'
      BY <2>2 DEF FreeInv, OneChange, ChangesSession, LogoutInv, RequestsCoherent
    <2>4. LoginInv'
      BY <1>1, <2>1, <2>2 DEF LoginInv
    <2>5. SessionInv'
      BY <2>1, <2>2 DEF SessionInv
    <2>6. ReadsInv'
      BY <1>1, <2>1, <2>2 DEF ReadsInv
    <2> QED
      BY <2>3, <2>4, <2>5, <2>6 DEF SerialOnly
  <1>3. ASSUME NEW t \in Token, restore(t) PROVE SerialOnly'
    <2>1. /\ ~ InFlight /\ t \in Stored
          /\ \A q \in Req : ~ ChangesSession(q)
      BY <1>3, QuietMeans DEF restore
    <2>2. /\ server_' = granted[t].host /\ user_id_' = granted[t].user
          /\ device_id_' = t /\ access_token_' = t
          /\ UNCHANGED <<req, loop, granted, revoked>>
      BY <1>3 DEF restore, servers
    <2>3. FreeInv' /\ OneChange' /\ RequestsCoherent'
      BY <2>2 DEF FreeInv, OneChange, ChangesSession, RequestsCoherent
    <2>4. \A q \in Req : req[q].kind \notin GrantKinds /\ req[q].kind # "logout"
      BY <2>1 DEF ChangesSession, AuthKinds, GrantKinds
    <2>5. loop.at \notin Assigning
      BY <2>4 DEF LoopInv, TypeOK, Assigning
    <2>6. LoginInv' /\ LogoutInv'
      BY <2>2, <2>4, <2>5 DEF LoginInv, LogoutInv, Assigning
    <2>7. SessionInv'
      BY <2>2 DEF SessionInv
    <2>8. ReadsInv'
      BY <1>1, <2>1, <2>2 DEF ReadsInv
    <2> QED
      BY <2>3, <2>6, <2>7, <2>8 DEF SerialOnly
  <1>4. ASSUME clear PROVE SerialOnly'
    <2>1. \A q \in Req : ~ ChangesSession(q)
      BY <1>4, QuietMeans DEF clear
    <2>2. /\ device_id_' = Empty /\ access_token_' = Empty /\ server_' = Empty
          /\ UNCHANGED <<user_id_, req, loop, granted, revoked>>
      BY <1>4 DEF clear, servers
    <2>3. FreeInv' /\ OneChange' /\ RequestsCoherent'
      BY <2>2 DEF FreeInv, OneChange, ChangesSession, RequestsCoherent
    <2>4. \A q \in Req : req[q].kind \notin GrantKinds /\ req[q].kind # "logout"
      BY <2>1 DEF ChangesSession, AuthKinds, GrantKinds
    <2>5. loop.at \notin Assigning
      BY <2>4 DEF LoopInv, TypeOK, Assigning
    <2>6. LoginInv' /\ LogoutInv'
      BY <2>2, <2>4, <2>5 DEF LoginInv, LogoutInv, Assigning
    <2>7. SessionInv' /\ ReadsInv'
      BY <2>2 DEF SessionInv, ReadsInv
    <2> QED
      BY <2>3, <2>6, <2>7 DEF SerialOnly
  <1>5. ASSUME AppIdle, NEW q \in Req, req[q].st \in Building PROVE req[q].kind # "api"
    BY <1>5, NoneIncomplete
  <1>6. ASSUME NEW r \in Req, NEW u \in User, login(r, u) PROVE SerialOnly'
    <2>1. \A q \in Req : ~ ChangesSession(q)
      BY <1>6, QuietMeans DEF login
    <2>2. "login" \in Kinds \ {"none"} /\ "have_header" \in Building
      BY DEF Kinds, Building
    <2> QED
      BY <1>5, <1>6, <2>1, <2>2, SerialBegin DEF login
  <1>7. ASSUME NEW r \in Req, NEW u \in User, registration(r, u) PROVE SerialOnly'
    <2>1. \A q \in Req : ~ ChangesSession(q)
      BY <1>7, QuietMeans DEF registration
    <2>2. "registration" \in Kinds \ {"none"} /\ "have_header" \in Building
      BY DEF Kinds, Building
    <2> QED
      BY <1>5, <1>7, <2>1, <2>2, SerialBegin DEF registration
  <1>8. ASSUME NEW r \in Req, next(r) PROVE SerialOnly'
    <2>1. req[r].kind = "registration" /\ AppIdle /\ req[r].st = "prompted"
      BY <1>8 DEF next, FreeInv
    <2>2. loop.r # r
      BY <2>1 DEF TypeOK, LoopInv, Building
    <2>3. access_token_ = Empty
      BY <2>1, <2>2 DEF LoginInv, GrantKinds
    <2>4. \A q \in Req \ {r} : ~ ChangesSession(q)
      BY <2>1 DEF OneChange, ChangesSession, AuthKinds
    <2>5. /\ req' = [req EXCEPT ![r] = begun("registration", req[r].user, "have_header")]
          /\ UNCHANGED <<client, loop, servers>>
      BY <1>8, <2>1 DEF next
    <2>6. "registration" \in Kinds \ {"none"} /\ "have_header" \in Building
      BY DEF Kinds, Building
    <2> QED
      BY <1>5, <2>1, <2>3, <2>4, <2>5, <2>6, SerialBegin
  <1>9. ASSUME NEW r \in Req, logout(r) PROVE SerialOnly'
    <2>1. \A q \in Req : ~ ChangesSession(q)
      BY <1>9, QuietMeans DEF logout
    <2> QED
      BY <1>9, <2>1, SerialBegin DEF logout, Kinds, Building, GrantKinds
  <1>10. ASSUME NEW r \in Req, NEW kind \in {"api", "media"}, call(r, kind) PROVE SerialOnly'
    <2>1. ASSUME kind = "api" PROVE \A q \in Req : req[q].kind \notin GrantKinds
      BY <1>10, <2>1 DEF call, Pends, FreeInv, GrantKinds
    <2> QED
      BY <1>10, <2>1, SerialBegin DEF call, Kinds, Building, GrantKinds, AuthKinds
  <1>11. \A q \in Req : \/ aborted(q) = req[q]
                        \/ /\ loop.r # q /\ req[q].st \in {"sent", "answered"}
                           /\ aborted(q).st = "answered" /\ aborted(q).outcome = "error"
                           /\ aborted(q).kind = req[q].kind /\ aborted(q).user = req[q].user
                           /\ aborted(q).host = req[q].host /\ aborted(q).auth = req[q].auth
    BY DEF aborted, answered
  <1>12. ASSUME shutdown PROVE SerialOnly'
    <2>1. /\ \A q \in Req : req'[q] = aborted(q)
          /\ DOMAIN req' = Req
          /\ UNCHANGED <<client, loop, granted, revoked>>
      BY <1>12 DEF shutdown, servers
    <2> QED
      BY <1>11, <2>1, SerialEnds
  <1>13. ASSUME NEW force \in BOOLEAN, close(force) PROVE SerialOnly'
    <2>1. /\ \A q \in Req : req'[q] = aborted(q) \/ req'[q] = req[q]
          /\ DOMAIN req' = Req
          /\ UNCHANGED <<client, loop, granted, revoked>>
      BY <1>13 DEF close, servers
    <2> QED
      BY <1>11, <2>1, SerialEnds
  <1> QED
    BY <1>2, <1>3, <1>4, <1>6, <1>7, <1>8, <1>9, <1>10, <1>12, <1>13 DEF Application

\* A request reads the server or the token.  What it had read before is still
\* true of the Client or was cleared, so the two belong together.
LEMMA SerialReads == ASSUME SerialInv, Reads PROVE SerialOnly'
  <1> USE DEF SerialInv, TokenInv
  <1>1. PICK r \in Req : endpoint_to_url(r) \/ prepare_headers(r)
    BY DEF Reads
  <1>2. /\ req'[r].kind = req[r].kind /\ req'[r].user = req[r].user
        /\ \A q \in Req \ {r} : req'[q] = req[q]
        /\ req[r].st \in Building /\ req'[r].st \in Building \cup {"sent"}
        /\ req'[r].st # "building"
    <2>1. CASE endpoint_to_url(r)
      BY <2>1 DEF TypeOK, endpoint_to_url, Request, Building
    <2>2. CASE prepare_headers(r)
      BY <2>2 DEF TypeOK, prepare_headers, Request, Building
    <2> QED BY <1>1, <2>1, <2>2
  <1>3. /\ loop' = IF loop.r = r /\ req'[r].st = "sent" THEN Idle ELSE loop
        /\ UNCHANGED <<client, granted, revoked>>
    BY <1>1 DEF endpoint_to_url, prepare_headers, servers
  <1>4. \/ /\ req'[r].host = server_ /\ req'[r].auth = req[r].auth
           /\ req[r].st \in {"building", "have_header"}
           /\ req[r].st = "building" => req'[r].st = "have_url"
           /\ req[r].st = "have_header" => req'[r].st = "sent"
        \/ /\ req'[r].host = req[r].host /\ req'[r].auth = access_token_
           /\ req[r].st \in {"building", "have_url"}
           /\ req[r].st = "building" => req'[r].st = "have_header"
           /\ req[r].st = "have_url" => req'[r].st = "sent"
    <2>1. CASE endpoint_to_url(r)
      BY <2>1 DEF TypeOK, endpoint_to_url, Request
    <2>2. CASE prepare_headers(r)
      BY <2>2 DEF TypeOK, prepare_headers, Request
    <2> QED BY <1>1, <2>1, <2>2
  <1>5. loop.at # "idle" => loop.r \in Req /\ (loop.r = r => loop.at = "submit")
    BY <1>2 DEF TypeOK, Building
  <1>6. loop' = loop \/ (loop' = Idle /\ loop.r = r /\ loop.at = "submit")
    <2>1. loop.r = r => loop.at # "idle"
      BY DEF LoopInv
    <2> QED
      BY <1>3, <1>5, <2>1
  <1>7. FreeInv' /\ OneChange'
    BY <1>2 DEF FreeInv, OneChange, ChangesSession, Building
  <1>8. LoginInv'
    <2>1. ASSUME NEW q \in Req, req'[q].kind \in GrantKinds
          PROVE  /\ access_token_ = Empty \/ (loop'.r = q /\ loop'.at = "callback")
                 /\ req'[q].st \notin {"building", "have_url"}
                 /\ req'[q].st \in {"sent", "answered"} => req'[q].host = server_
                 /\ req'[q].st = "answered" /\ req'[q].outcome = "ok" =>
                      /\ req'[q].token \in Token
                      /\ granted[req'[q].token] = [user |-> req'[q].user, host |-> req'[q].host]
      <3>1. access_token_ = Empty \/ (loop'.r = q /\ loop'.at = "callback")
        BY <1>2, <1>5, <1>6, <2>1 DEF LoginInv
      <3>2. CASE q # r
        BY <1>2, <2>1, <3>1, <3>2 DEF LoginInv
      <3>3. CASE q = r
        BY <1>2, <1>4, <2>1, <3>1, <3>3 DEF LoginInv, Building
      <3> QED BY <3>2, <3>3
    <2>2. /\ loop'.at \in {"device", "token"} => user_id_ = req'[loop'.r].user
          /\ loop'.at = "token" => device_id_ = req'[loop'.r].token
      BY <1>2, <1>5, <1>6 DEF LoginInv, Idle
    <2> QED
      BY <1>3, <2>1, <2>2 DEF LoginInv, client
  <1>9. LogoutInv'
    <2> SUFFICES ASSUME NEW q \in Req, req'[q].kind = "logout"
                 PROVE  /\ \/ req'[q].st \in {"building", "have_url"}
                           \/ loop'.r = q /\ loop'.at \in {"clear_server", "callback"}
                           \/ req'[q].auth = access_token_
                        /\ req'[q].st = "answered" /\ req'[q].outcome = "ok" =>
                             req'[q].auth \in revoked
      BY <1>3 DEF LogoutInv, client
    <2>1. CASE q # r
      BY <1>2, <1>6, <2>1 DEF LogoutInv
    <2>2. CASE q = r
      BY <1>2, <1>4, <1>5, <2>2 DEF LogoutInv, LoopInv, Building
    <2> QED BY <2>1, <2>2
  <1>10. SessionInv'
    BY <1>3, <1>6 DEF SessionInv, client
  <1>11. ASSUME access_token_ # Empty
         PROVE  /\ server_ = granted[access_token_].host
                /\ user_id_ = granted[access_token_].user
                /\ server_ # Empty
    <2>1. access_token_ \in Issued
      BY <1>11 DEF HeldInv
    <2> QED BY <1>11, <2>1, IssuedGrant DEF SessionInv
  <1>12. ReadsInv'
    <2>1. ASSUME NEW q \in Req, req'[q].st \in Building
          PROVE  /\ req'[q].host # Empty => server_ \in {req'[q].host, Empty}
                 /\ req'[q].auth # Empty => server_ \in {granted[req'[q].auth].host, Empty}
      BY <1>2, <1>4, <1>11, <2>1 DEF ReadsInv
    <2>2. ASSUME NEW q \in Req, req'[q].kind = "api"
          PROVE  /\ req'[q].st \in Building =>
                      req'[q].user = user_id_ /\ \A p \in Req : req'[p].kind \notin GrantKinds
                 /\ req'[q].auth # Empty => req'[q].user = granted[req'[q].auth].user
      BY <1>2, <1>4, <1>11, <2>2 DEF ReadsInv
    <2>3. ASSUME NEW q \in Req, loop'.at = "submit" /\ loop'.r = q
          PROVE  req'[q].kind = "media_v3"
      BY <1>2, <1>6, <2>3 DEF ReadsInv, Idle
    <2> QED
      BY <1>3, <2>1, <2>2, <2>3 DEF ReadsInv, client
  <1>13. RequestsCoherent'
    <2> SUFFICES ASSUME NEW q \in Req, req'[q].auth # Empty, req'[q].st \notin Building
                 PROVE  /\ req'[q].host \in {granted[req'[q].auth].host, Empty}
                        /\ req'[q].kind = "api" => req'[q].user = granted[req'[q].auth].user
      BY <1>3 DEF RequestsCoherent
    <2>1. CASE q # r
      BY <1>2, <2>1 DEF RequestsCoherent
    <2>2. CASE q = r
      BY <1>2, <1>4, <1>11, <2>2 DEF ReadsInv
    <2> QED BY <2>1, <2>2
  <1> QED
    BY <1>7, <1>8, <1>9, <1>10, <1>12, <1>13 DEF SerialOnly

\* The homeservers and the network.
LEMMA SerialNetwork == ASSUME SerialInv, Network PROVE SerialOnly'
  <1> USE DEF SerialInv, TokenInv
  <1>0. ASSUME NEW r \in Req, NEW outcome, NEW t, answer(r, outcome, t)
        PROVE  /\ req'[r] = answered(r, outcome, t)
               /\ \A q \in Req \ {r} : req'[q] = req[q]
               /\ DOMAIN req' = Req
    BY <1>0 DEF TypeOK, answer
  <1>1. ASSUME NEW r \in Req, req[r].st = "sent" PROVE loop.r # r
    BY <1>1 DEF TypeOK, LoopInv, Building
  <1>2. ASSUME NEW r \in Req, NEW t \in Token, grant(r, t) PROVE SerialOnly'
    <2>1. /\ req'[r] = answered(r, "ok", t)
          /\ \A q \in Req \ {r} : req'[q] = req[q]
      BY <1>0, <1>2 DEF grant
    <2>2. /\ req'[r].st = "answered" /\ req'[r].kind = req[r].kind
          /\ req'[r].user = req[r].user /\ req'[r].host = req[r].host
          /\ req'[r].auth = req[r].auth /\ req'[r].token = t
      BY <2>1 DEF answered
    <2>3. /\ req[r].st = "sent" /\ req[r].kind \in GrantKinds /\ loop.r # r
          /\ UNCHANGED <<client, loop, revoked>>
      BY <1>1, <1>2 DEF grant
    <2>4. /\ granted'[t] = [user |-> req[r].user, host |-> req[r].host]
          /\ t \notin Issued
          /\ \A u \in Issued : granted'[u] = granted[u]
      BY <1>2 DEF grant, TypeOK
    <2>5. loop.at # "idle" => loop.r \in Req /\ req'[loop.r] = req[loop.r]
      BY <2>1, <2>3 DEF TypeOK
    <2>6. FreeInv' /\ OneChange'
      BY <2>1, <2>2, <2>3 DEF FreeInv, OneChange, ChangesSession
    <2>7. LoginInv'
      <3>1. \A q \in Req \ {r} : req'[q].kind \notin GrantKinds
        BY <2>1, <2>3 DEF OneChange, ChangesSession, GrantKinds, AuthKinds
      <3>2. /\ access_token_ = Empty
            /\ req[r].host = server_
        BY <2>3 DEF LoginInv
      <3>3. ASSUME NEW q \in Req, req'[q].kind \in GrantKinds
            PROVE  /\ access_token_ = Empty
                   /\ req'[q].st \notin {"building", "have_url"}
                   /\ req'[q].host = server_
                   /\ req'[q].token \in Token
                   /\ granted'[req'[q].token] = [user |-> req'[q].user, host |-> req'[q].host]
        BY <2>2, <2>4, <3>1, <3>2, <3>3
      <3>4. /\ loop.at \in {"device", "token"} => user_id_ = req'[loop.r].user
            /\ loop.at = "token" => device_id_ = req'[loop.r].token
        BY <2>5 DEF LoginInv
      <3> QED
        BY <2>3, <3>3, <3>4 DEF LoginInv, client
    <2>8. LogoutInv'
      BY <2>1, <2>2, <2>3 DEF LogoutInv, client, GrantKinds
    <2>9. SessionInv'
      BY <2>3, <2>4 DEF SessionInv, HeldInv, client
    <2>10. \A q \in Req : req[q].auth # Empty => granted'[req[q].auth] = granted[req[q].auth]
      BY <2>4 DEF HistoryInv
    <2>11. \A q \in Req : /\ req'[q].kind = req[q].kind /\ req'[q].user = req[q].user
                          /\ req'[q].host = req[q].host /\ req'[q].auth = req[q].auth
                          /\ req'[q].st \in Building <=> req[q].st \in Building
      BY <2>1, <2>2, <2>3 DEF Building
    <2>12. ReadsInv'
      BY <2>3, <2>10, <2>11 DEF ReadsInv, client
    <2>13. RequestsCoherent'
      BY <2>10, <2>11 DEF RequestsCoherent
    <2> QED
      BY <2>6, <2>7, <2>8, <2>9, <2>12, <2>13 DEF SerialOnly
  <1>3. ASSUME NEW r \in Req, NEW outcome, answer(r, outcome, Empty),
               req[r].kind \in GrantKinds => outcome # "ok",
               req[r].kind = "logout" /\ outcome = "ok" => req[r].auth \in revoked',
               loop.r # r, req[r].st \in {"sent", "answered"},
               UNCHANGED <<client, loop, granted>>, revoked \subseteq revoked'
        PROVE  SerialOnly'
    <2>1. /\ req'[r] = answered(r, outcome, Empty)
          /\ \A q \in Req \ {r} : req'[q] = req[q]
          /\ DOMAIN req' = Req
      BY <1>0, <1>3
    <2>2. /\ req'[r].st = "answered" /\ req'[r].kind = req[r].kind
          /\ req'[r].user = req[r].user /\ req'[r].host = req[r].host
          /\ req'[r].auth = req[r].auth /\ req'[r].outcome = outcome
      BY <2>1 DEF answered
    <2> QED
      BY <1>3, <2>1, <2>2, SerialEnds
  <1>4. ASSUME NEW r \in Req, revoke(r) PROVE SerialOnly'
    BY <1>1, <1>3, <1>4 DEF revoke, GrantKinds
  <1>5. ASSUME NEW r \in Req, NEW outcome \in Outcomes, respond(r, outcome) PROVE SerialOnly'
    BY <1>1, <1>3, <1>5 DEF respond, servers, GrantKinds
  <1>6. ASSUME NEW r \in Req, lose(r) PROVE SerialOnly'
    BY <1>3, <1>6 DEF lose, servers
  <1> QED
    BY <1>2, <1>4, <1>5, <1>6 DEF Network

\* The event loop begins a callback, or the fallback that a callback submits.
LEMMA SerialCallbacks == ASSUME SerialInv, Callbacks PROVE SerialOnly'
  <1> USE DEF SerialInv, TokenInv
  <1>1. ASSUME NEW r \in Req, prompt(r) PROVE SerialOnly'
    <2>1. /\ req[r].st = "answered" /\ loop.r # r
          /\ req[r].kind = "registration" /\ req[r].outcome = "denied"
          /\ UNCHANGED <<client, loop, granted, revoked>>
      BY <1>1 DEF prompt, ready, prompts, Idle, servers
    <2>2. /\ DOMAIN req' = Req
          /\ \A q \in Req \ {r} : req'[q] = req[q]
          /\ req'[r].st = "prompted" /\ req'[r].kind = req[r].kind
          /\ req'[r].user = req[r].user /\ req'[r].host = req[r].host
          /\ req'[r].auth = req[r].auth /\ req'[r].outcome = req[r].outcome
      BY <1>1 DEF prompt, TypeOK, Request
    <2> QED
      BY <2>1, <2>2, SerialEnds
  <1>2. ASSUME NEW r \in Req, fall_back(r) PROVE SerialOnly'
    <2>1. /\ req[r].st = "answered" /\ req[r].kind = "media" /\ loop = Idle
          /\ loop' = [at |-> "submit", r |-> r]
          /\ UNCHANGED <<client, granted, revoked>>
      BY <1>2 DEF fall_back, ready, falls_back, servers
    <2>2. /\ \A q \in Req \ {r} : req'[q] = req[q]
          /\ req'[r].st = "building" /\ req'[r].kind = "media_v3"
          /\ req'[r].host = Empty /\ req'[r].auth = Empty
      BY <1>2 DEF fall_back, fallback_request, begun, TypeOK
    <2>3. loop.at = "idle" /\ loop.r = Empty
      BY <2>1 DEF Idle
    <2>4. FreeInv' /\ OneChange'
      BY <2>1, <2>2 DEF FreeInv, OneChange, ChangesSession, AuthKinds
    <2>5. LoginInv'
      BY <2>1, <2>2, <2>3 DEF LoginInv, GrantKinds, client
    <2>6. LogoutInv'
      BY <2>1, <2>2, <2>3 DEF LogoutInv, client
    <2>7. SessionInv'
      BY <2>1, <2>3 DEF SessionInv, client
    <2>8. ReadsInv'
      BY <2>1, <2>2, <2>3 DEF ReadsInv, GrantKinds, client
    <2>9. RequestsCoherent'
      BY <2>1, <2>2 DEF RequestsCoherent
    <2> QED
      BY <2>4, <2>5, <2>6, <2>7, <2>8, <2>9 DEF SerialOnly
  <1>3. ASSUME NEW r \in Req, deliver(r) PROVE SerialOnly'
    <2>1. /\ loop.at = "idle" /\ loop.r = Empty
          /\ loop'.at \in {"clear_device", "user", "callback"}
          /\ UNCHANGED <<client, req, granted, revoked>>
      BY <1>3 DEF deliver, ready, first, Idle, servers
    <2>2. FreeInv' /\ OneChange' /\ RequestsCoherent'
      BY <2>1 DEF FreeInv, OneChange, ChangesSession, RequestsCoherent
    <2>3. LoginInv'
      BY <2>1 DEF LoginInv, client
    <2>4. LogoutInv'
      BY <2>1 DEF LogoutInv, client
    <2>5. SessionInv' /\ ReadsInv'
      BY <2>1 DEF SessionInv, ReadsInv, client
    <2> QED
      BY <2>2, <2>3, <2>4, <2>5 DEF SerialOnly
  <1> QED
    BY <1>1, <1>2, <1>3 DEF Callbacks

\* The statements of login's and registration's callback: the token comes last,
\* when the user and the device are those of the response, and the server is
\* still the one that granted it.
LEMMA SerialAssigns ==
    ASSUME SerialInv, assign_user \/ assign_device \/ assign_token
    PROVE  SerialOnly'
  <1> USE DEF SerialInv, TokenInv
  <1> DEFINE r == loop.r
  <1>1. /\ loop.at \in Assigning /\ r \in Req
        /\ req[r].kind \in GrantKinds /\ req[r].outcome = "ok"
        /\ req[r].st = "answered"
    BY DEF assign_user, assign_device, assign_token, LoopInv, TypeOK, Assigning
  <1>2. /\ loop'.at = after(loop.at) /\ loop'.r = r
        /\ UNCHANGED <<server_, req, granted, revoked>>
    BY DEF assign_user, assign_device, assign_token, proceed, TypeOK, servers
  <1>3. /\ access_token_ = Empty /\ req[r].host = server_
        /\ req[r].token \in Token
        /\ granted[req[r].token] = [user |-> req[r].user, host |-> req[r].host]
    BY <1>1 DEF LoginInv, Assigning
  <1>4. \A q \in Req \ {r} : ~ ChangesSession(q)
    BY <1>1 DEF OneChange, ChangesSession, GrantKinds, AuthKinds
  <1>5. \A q \in Req : req[q].kind \in GrantKinds => q = r
    BY <1>4 DEF ChangesSession, GrantKinds, AuthKinds
  <1>6. \A q \in Req : req[q].kind # "logout"
    BY <1>1, <1>4 DEF ChangesSession, GrantKinds, AuthKinds
  <1> HIDE DEF r
  <1>7. FreeInv' /\ OneChange' /\ RequestsCoherent' /\ LogoutInv'
    BY <1>2, <1>6 DEF FreeInv, OneChange, ChangesSession, RequestsCoherent, LogoutInv
  <1>8. ReadsInv'
    <2>1. \A q \in Req : req[q].kind = "api" => req[q].st \notin Building
      BY <1>1 DEF ReadsInv
    <2>2. loop'.at # "submit"
      BY <1>2 DEF after
    <2> QED
      BY <1>2, <2>1, <2>2 DEF ReadsInv
  <1>9. CASE assign_user
    <2>1. /\ user_id_' = req[r].user /\ access_token_' = Empty /\ loop'.at = "device"
      BY <1>2, <1>3, <1>9 DEF assign_user, after, r
    <2>2. LoginInv'
      BY <1>1, <1>2, <1>3, <1>5, <2>1 DEF LoginInv
    <2>3. SessionInv'
      BY <2>1 DEF SessionInv
    <2> QED
      BY <1>7, <1>8, <2>2, <2>3 DEF SerialOnly
  <1>10. CASE assign_device
    <2>1. /\ user_id_' = req[r].user /\ access_token_' = Empty /\ loop'.at = "token"
          /\ device_id_' = req[r].token
      BY <1>2, <1>3, <1>10 DEF assign_device, after, r, LoginInv
    <2>2. LoginInv'
      BY <1>1, <1>2, <1>3, <1>5, <2>1 DEF LoginInv
    <2>3. SessionInv'
      BY <2>1 DEF SessionInv
    <2> QED
      BY <1>7, <1>8, <2>2, <2>3 DEF SerialOnly
  <1>11. CASE assign_token
    <2>1. /\ user_id_' = req[r].user /\ access_token_' = req[r].token
          /\ loop'.at = "callback" /\ device_id_' = req[r].token
      BY <1>2, <1>3, <1>11 DEF assign_token, after, r, LoginInv
    <2>2. LoginInv'
      BY <1>1, <1>2, <1>3, <1>5, <2>1 DEF LoginInv
    <2>3. SessionInv'
      BY <1>2, <1>3, <2>1 DEF SessionInv
    <2> QED
      BY <1>7, <1>8, <2>2, <2>3 DEF SerialOnly
  <1> QED
    BY <1>9, <1>10, <1>11

\* The statements of clear() in logout's callback: the token goes before the
\* server does.
LEMMA SerialClears ==
    ASSUME SerialInv, clear_device \/ clear_token \/ clear_server
    PROVE  SerialOnly'
  <1> USE DEF SerialInv, TokenInv
  <1>1. /\ loop.at \in Clearing /\ loop.r \in Req
        /\ req[loop.r].kind = "logout" /\ req[loop.r].outcome = "ok"
        /\ req[loop.r].st = "answered"
    BY DEF clear_device, clear_token, clear_server, LoopInv, TypeOK, Clearing
  <1>2. /\ loop'.at = after(loop.at) /\ loop'.r = loop.r
        /\ UNCHANGED <<user_id_, req, granted, revoked>>
    BY DEF clear_device, clear_token, clear_server, proceed, TypeOK, servers, session
  <1>3. /\ loop.at = "clear_device" => /\ device_id_' = Empty /\ loop'.at = "clear_token"
                                       /\ UNCHANGED <<server_, access_token_>>
        /\ loop.at = "clear_token" => /\ access_token_' = Empty /\ loop'.at = "clear_server"
                                      /\ UNCHANGED server_
        /\ loop.at = "clear_server" => /\ access_token_' = Empty /\ loop'.at = "callback"
                                       /\ server_' = Empty
    BY <1>2 DEF clear_device, clear_token, clear_server, after, session, LoopInv
  <1>4. \A q \in Req \ {loop.r} : ~ ChangesSession(q)
    BY <1>1 DEF OneChange, ChangesSession, AuthKinds
  <1>5. \A q \in Req : /\ req[q].kind \notin GrantKinds
                       /\ req[q].kind = "logout" => q = loop.r
    BY <1>1, <1>4 DEF ChangesSession, GrantKinds, AuthKinds
  <1>6. FreeInv' /\ OneChange' /\ RequestsCoherent'
    BY <1>2 DEF FreeInv, OneChange, ChangesSession, RequestsCoherent
  <1>7. LoginInv'
    BY <1>1, <1>2, <1>3, <1>5 DEF LoginInv, Clearing
  <1>8. LogoutInv'
    BY <1>1, <1>2, <1>3, <1>5 DEF LogoutInv, Clearing
  <1>9. SessionInv'
    BY <1>1, <1>2, <1>3 DEF SessionInv, Clearing
  <1>10. ReadsInv'
    <2>1. server_' \in {server_, Empty} /\ loop'.at # "submit"
      BY <1>1, <1>3 DEF Clearing
    <2> QED
      BY <1>2, <2>1 DEF ReadsInv
  <1> QED
    BY <1>6, <1>7, <1>8, <1>9, <1>10 DEF SerialOnly

\* The application's callback ends the request.
LEMMA SerialCallback == ASSUME SerialInv, callback PROVE SerialOnly'
  <1> USE DEF SerialInv, TokenInv
  <1>1. /\ loop.at = "callback" /\ loop.r \in Req /\ loop' = Idle
        /\ UNCHANGED <<client, granted, revoked>>
    BY DEF callback, TypeOK, servers
  <1>2. /\ req'[loop.r].st = "done" /\ req'[loop.r].kind = "none" /\ req'[loop.r].auth = Empty
        /\ \A q \in Req \ {loop.r} : req'[q] = req[q]
    BY <1>1 DEF callback, TypeOK, FreeRequest
  <1>3. loop'.at = "idle"
    BY <1>1 DEF Idle
  <1>4. FreeInv' /\ OneChange' /\ RequestsCoherent'
    BY <1>1, <1>2 DEF FreeInv, OneChange, ChangesSession, AuthKinds, RequestsCoherent
  <1>5. LoginInv' /\ LogoutInv'
    BY <1>1, <1>2, <1>3 DEF LoginInv, LogoutInv, GrantKinds, client
  <1>6. SessionInv'
    BY <1>1 DEF SessionInv, client
  <1>7. ReadsInv'
    BY <1>1, <1>2, <1>3 DEF ReadsInv, GrantKinds, Building, client
  <1> QED
    BY <1>4, <1>5, <1>6, <1>7 DEF SerialOnly

\* Every step of an application that keeps to the discipline.
LEMMA SerialNext ==
    ASSUME SerialAuth
    PROVE  SerialInv /\ [Next]_vars => SerialInv'
  <1> SUFFICES ASSUME SerialInv, [Next]_vars PROVE SerialInv'
    OBVIOUS
  <1>1. TokenInv'
    BY TokenNext DEF SerialInv
  <1>2. CASE UNCHANGED vars
    BY <1>1, <1>2 DEF vars, client, servers, SerialInv, FreeInv, OneChange, ChangesSession,
                      LoginInv, LogoutInv, SessionInv, ReadsInv, RequestsCoherent
  <1>3. CASE closed
    BY <1>1, <1>3 DEF closed, client, servers, SerialInv, FreeInv, OneChange, ChangesSession,
                      LoginInv, LogoutInv, SessionInv, ReadsInv, RequestsCoherent
  <1>4. CASE Next /\ ~ closed
    <2>1. SerialOnly'
      BY <1>4, SerialApplication, SerialReads, SerialNetwork, SerialCallbacks, SerialAssigns,
         SerialClears, SerialCallback
      DEF Next, EventLoop, Statements
    <2> QED
      BY <1>1, <2>1 DEF SerialInv, SerialOnly
  <1> QED
    BY <1>2, <1>3, <1>4

\* The inductive invariant of an application that changes its session in one
\* place: one change at a time, and what was read so far stays true or is cleared.
THEOREM SerialInvariant == ASSUME SerialAuth PROVE Spec => []SerialInv
  <1>1. SerialInv /\ [Next]_vars => SerialInv'
    BY SerialNext
  <1> QED
    BY <1>1, SerialInit, PTL DEF Spec

\* Whoever sees a token in access_token() sees the user and the device of the
\* same login, although the callback of login assigns them in three steps.
THEOREM SessionIsPublished == ASSUME SerialAuth PROVE Spec => []SessionPublished
  <1>1. SerialInv => SessionPublished
    BY DEF SerialInv, SessionInv, SessionPublished, Clearing
  <1> QED
    BY <1>1, SerialInvariant, PTL

\* A token goes only to the host that issued it, for the user it was issued to,
\* although the header, the url and the user are read one by one.
THEOREM RequestsAreCoherent == ASSUME SerialAuth PROVE Spec => []RequestsCoherent
  <1>1. SerialInv => RequestsCoherent
    BY DEF SerialInv
  <1> QED
    BY <1>1, SerialInvariant, PTL

\* The token that logout's callback clears is one the server made invalid.
THEOREM LogoutClearsInvalid == ASSUME SerialAuth PROVE Spec => ClearsInvalidToken
  <1>1. ASSUME SerialInv, loop.at = "clear_token", access_token_ # Empty
        PROVE  access_token_ \in revoked
    <2>1. /\ loop.r \in Req /\ req[loop.r].kind = "logout"
          /\ req[loop.r].outcome = "ok" /\ req[loop.r].st = "answered"
      BY <1>1 DEF SerialInv, TokenInv, TypeOK, LoopInv, Clearing
    <2> QED
      BY <1>1, <2>1 DEF SerialInv, LogoutInv
  <1>2. SerialInv /\ [Next]_vars =>
          (loop.at = "clear_token" /\ loop'.at # "clear_token" /\ access_token_ # Empty
             => access_token_ \in revoked)
    BY <1>1
  <1> QED
    BY <1>2, SerialInvariant, PTL DEF Spec, ClearsInvalidToken

-----------------------------------------------------------------------------
(* The Client implements module Session.                                    *)

\* A session as the servers granted it.
SessionOf(t) == [token |-> t, user |-> granted[t].user, host |-> granted[t].host]

\* Every issued token stands for a session, which grants holds.
LEMMA SessionsGranted ==
    ASSUME TypeOK
    PROVE  /\ grants = {SessionOf(t) : t \in Issued}
           /\ \A t \in Issued : SessionOf(t) \in Abstract!Sessions /\ SessionOf(t) \in grants
           /\ grants \subseteq Abstract!Sessions
  <1>1. grants = {SessionOf(t) : t \in Issued}
    BY DEF grants, SessionOf
  <1>2. \A t \in Issued : SessionOf(t) \in Abstract!Sessions
    BY IssuedGrant DEF Abstract!Sessions, SessionOf
  <1> QED
    BY <1>1, <1>2

\* A Client without a token shows no session.
LEMMA RefinementInit == Init => Abstract!Init
  <1> SUFFICES ASSUME Init PROVE Abstract!Init
    OBVIOUS
  <1>1. TypeOK
    BY TypeInit
  <1> QED
    BY <1>1, SessionsGranted DEF Init, Abstract!Init, held, NoSession

\* A step that leaves the token, the servers' records and, when there is a token,
\* the rest of the session alone is a stuttering step of Session.
LEMMA SessionStutters ==
    ASSUME UNCHANGED <<access_token_, granted, revoked>>,
           access_token_ # Empty => UNCHANGED <<user_id_, server_>>
    PROVE  UNCHANGED <<held, grants, revoked>>
  <1>1. UNCHANGED held
    BY DEF held
  <1>2. UNCHANGED grants
    BY DEF grants
  <1> QED
    BY <1>1, <1>2

\* A step that only takes the token away ends the session at once.
LEMMA SessionDrops ==
    ASSUME access_token_' = Empty, UNCHANGED <<granted, revoked>>
    PROVE  [Abstract!Next]_<<held, grants, revoked>>
  <1>1. held' = NoSession /\ UNCHANGED grants
    BY DEF held, NoSession, grants
  <1>2. CASE held = NoSession
    BY <1>1, <1>2 DEF NoSession
  <1>3. CASE held # NoSession
    BY <1>1, <1>3 DEF Abstract!Next, Abstract!Drop
  <1> QED
    BY <1>2, <1>3

\* A step that assigns the token of an issued session, when the user and the
\* server are those it was issued with, begins the session at once.
LEMMA SessionBegins ==
    ASSUME TypeOK, access_token_ = Empty, access_token_' \in Issued,
           user_id_' = granted[access_token_'].user,
           server_' = granted[access_token_'].host,
           UNCHANGED <<granted, revoked>>
    PROVE  [Abstract!Next]_<<held, grants, revoked>>
  <1> DEFINE s == SessionOf(access_token_')
  <1>1. s \in Abstract!Sessions /\ s \in grants
    BY SessionsGranted
  <1>2. held = NoSession /\ UNCHANGED grants
    BY DEF held, NoSession, grants
  <1>3. held' = s
    BY DEF held, SessionOf
  <1>4. Abstract!Begin(s)
    BY <1>1, <1>2, <1>3 DEF Abstract!Begin, NoSession
  <1> QED
    BY <1>1, <1>4 DEF Abstract!Next

\* Every step of the detailed specification is one of Session's or stutters.
LEMMA RefinementNext ==
    ASSUME SerialAuth, SerialInv, SerialInv', Next
    PROVE  [Abstract!Next]_<<held, grants, revoked>>
  <1> USE DEF SerialInv, TokenInv
  <1>1. CASE Application
    <2>1. ASSUME NEW t \in Token, restore(t) PROVE [Abstract!Next]_<<held, grants, revoked>>
      BY <2>1, SessionBegins DEF restore, servers, HistoryInv
    <2>2. ASSUME clear PROVE [Abstract!Next]_<<held, grants, revoked>>
      BY <2>2, SessionDrops DEF clear, servers
    <2>3. ASSUME NEW h \in Host, set_server(h) PROVE UNCHANGED <<held, grants, revoked>>
      BY <2>3, SessionStutters DEF set_server, session, servers
    <2>4. ASSUME \/ \E r \in Req : \/ \E u \in User : login(r, u) \/ registration(r, u)
                                  \/ next(r)
                                  \/ logout(r)
                                  \/ \E kind \in {"api", "media"} : call(r, kind)
                 \/ shutdown
                 \/ \E force \in BOOLEAN : close(force)
          PROVE  UNCHANGED <<held, grants, revoked>>
      BY <2>4, SessionStutters
      DEF login, registration, next, logout, call, shutdown, close, client, servers
    <2> QED
      BY <1>1, <2>1, <2>2, <2>3, <2>4 DEF Application
  <1>2. CASE Reads
    BY <1>2, SessionStutters DEF Reads, endpoint_to_url, prepare_headers, client, servers
  <1>3. CASE Network
    <2>1. ASSUME NEW r \in Req, NEW t \in Token, grant(r, t)
          PROVE  [Abstract!Next]_<<held, grants, revoked>>
      <3>1. /\ granted[t] = NoGrant /\ req[r].host # Empty
            /\ granted' = [granted EXCEPT ![t] = [user |-> req[r].user, host |-> req[r].host]]
            /\ UNCHANGED <<client, revoked>>
        BY <2>1 DEF grant
      <3> DEFINE s == [token |-> t, user |-> req[r].user, host |-> req[r].host]
      <3>2. s \in Abstract!Sessions
        BY <2>1 DEF grant, TypeOK, Request, Abstract!Sessions
      <3>3. t \notin Issued /\ Issued' = Issued \cup {t}
        BY <3>1 DEF TypeOK, NoGrant
      <3>4. /\ \A u \in Issued : SessionOf(u)' = SessionOf(u)
            /\ SessionOf(t)' = s
        BY <3>1, <3>3 DEF TypeOK, SessionOf
      <3>5. grants = {SessionOf(u) : u \in Issued} /\ grants' = {SessionOf(u)' : u \in Issued'}
        BY DEF grants, SessionOf
      <3>6. grants' = grants \cup {s}
        BY <3>3, <3>4, <3>5
      <3>7. \A g \in grants : g.token # s.token
        BY <3>3, <3>5 DEF SessionOf
      <3>8. UNCHANGED held
        BY <3>1 DEF held, client
      <3>9. Abstract!Grant(s)
        BY <3>1, <3>6, <3>7, <3>8 DEF Abstract!Grant
      <3> QED
        BY <3>2, <3>9 DEF Abstract!Next
    <2>2. ASSUME NEW r \in Req, revoke(r) PROVE [Abstract!Next]_<<held, grants, revoked>>
      <3> DEFINE s == SessionOf(req[r].auth)
      <3>1. req[r].auth \in Issued
        BY <2>2 DEF revoke, valid, HistoryInv
      <3>2. s \in Abstract!Sessions /\ s \in grants /\ s.token = req[r].auth
        BY <3>1, SessionsGranted DEF SessionOf
      <3>3. UNCHANGED held /\ UNCHANGED grants
        BY <2>2 DEF revoke, held, grants, client
      <3>4. Abstract!End(s)
        BY <2>2, <3>2, <3>3 DEF revoke, Abstract!End
      <3> QED
        BY <3>2, <3>4 DEF Abstract!Next
    <2>3. ASSUME NEW r \in Req, lose(r) \/ \E outcome \in Outcomes : respond(r, outcome)
          PROVE  UNCHANGED <<held, grants, revoked>>
      BY <2>3, SessionStutters DEF respond, lose, client, servers
    <2> QED
      BY <1>3, <2>1, <2>2, <2>3 DEF Network
  <1>4. CASE EventLoop
    <2>1. ASSUME Callbacks \/ callback \/ closed
          PROVE  UNCHANGED <<held, grants, revoked>>
      BY <2>1, SessionStutters
      DEF Callbacks, prompt, fall_back, deliver, callback, closed, client, servers
    <2>2. ASSUME loop.at \in Assigning
          PROVE  access_token_ = Empty
      <3>1. loop.r \in Req /\ req[loop.r].kind \in GrantKinds
        BY <2>2 DEF TypeOK, LoopInv, Assigning
      <3> QED BY <2>2, <3>1 DEF LoginInv, Assigning
    <2>3. ASSUME assign_user \/ assign_device PROVE UNCHANGED <<held, grants, revoked>>
      BY <2>2, <2>3, SessionStutters DEF assign_user, assign_device, Assigning, servers
    <2>4. ASSUME assign_token PROVE [Abstract!Next]_<<held, grants, revoked>>
      <3>1. access_token_ = Empty /\ UNCHANGED <<granted, revoked>>
        BY <2>2, <2>4 DEF assign_token, Assigning, servers
      <3>2. access_token_' \in Issued
        <4>1. loop.r \in Req /\ Pending(loop.r)
          BY <2>4 DEF assign_token, TypeOK, LoopInv, Assigning, Pending
        <4> QED BY <2>4, <4>1 DEF assign_token, PendingInv
      <3>3. /\ user_id_' = granted[access_token_'].user
            /\ server_' = granted[access_token_'].host
        BY <3>1, <3>2 DEF SessionInv, TypeOK
      <3> QED
        BY <3>1, <3>2, <3>3, SessionBegins
    <2>5. ASSUME clear_device PROVE UNCHANGED <<held, grants, revoked>>
      BY <2>5, SessionStutters DEF clear_device, servers
    <2>6. ASSUME clear_token PROVE [Abstract!Next]_<<held, grants, revoked>>
      BY <2>6, SessionDrops DEF clear_token, servers
    <2>7. ASSUME clear_server PROVE UNCHANGED <<held, grants, revoked>>
      BY <2>7, SessionStutters DEF clear_server, LoopInv, session, servers
    <2> QED
      BY <1>4, <2>1, <2>3, <2>4, <2>5, <2>6, <2>7 DEF EventLoop, Statements
  <1> QED
    BY <1>1, <1>2, <1>3, <1>4 DEF Next

\* A Client used with one session change at a time implements Session: every
\* state shows no session or one that a server granted as a whole, although the
\* callbacks assign and clear the members one by one.
THEOREM SessionRefinement == ASSUME SerialAuth PROVE Spec => ImplementsSession
  <1>1. SerialInv /\ [Next]_vars => SerialInv'
    BY SerialNext
  <1>2. SerialInv /\ SerialInv' /\ [Next]_vars => [Abstract!Next]_<<held, grants, revoked>>
    <2>1. CASE UNCHANGED vars
      BY <2>1 DEF vars, client, servers, held, grants
    <2> QED
      BY <2>1, RefinementNext
  <1> QED
    BY <1>1, <1>2, SerialInit, RefinementInit, PTL DEF Spec, ImplementsSession, Abstract!Spec
=============================================================================
