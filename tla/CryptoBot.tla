----------------------------- MODULE CryptoBot -----------------------------
(***************************************************************************)
(* examples/crypto_bot.cpp: a bot that answers the messages of an           *)
(* encrypted room.  It composes what the library offers: the sync loop,     *)
(* to-device messages, megolm sessions, device lists and claimed keys, and  *)
(* storage that is written when the bot is told to stop.                    *)
(*                                                                          *)
(* The bot's callbacks run one at a time on the client's loop thread; the   *)
(* requests they start are answered later and in any order.  A sync         *)
(* response is handled item by item, for the signal handler that saves and  *)
(* stops the bot runs beside it and a crash may come at any point.  An      *)
(* exception that leaves a callback is swallowed by the client.             *)
(*                                                                          *)
(* The homeserver keeps one stream per device and room: what it has for the *)
(* bot in the order it came, to-device messages among the events of one     *)
(* room the bot has joined.  A sync token is a position in it.              *)
(***************************************************************************)
EXTENDS Megolm, Sequences, FiniteSets, SequencesExt

CONSTANTS Users, Devices, Owner,  \* the room's members; whose a device is
          BotDevice,              \* the bot's own device
          MaxPuts,                \* bounds: what others put into the stream,
          MaxErrors,              \* failed requests,
          MaxRuns                 \* and starts of the bot

ASSUME CryptoBotAssumption ==
  /\ IsFiniteSet(Users) /\ Owner \in [Devices -> Users] /\ BotDevice \in Devices
  /\ MaxPuts \in Nat /\ MaxErrors \in Nat /\ MaxRuns \in Nat

VARIABLES stream,      \* server: what there is for the bot
          peer,        \* each device's own megolm session
          keys,        \* the room keys of its own sessions the bot gave to devices
          sync,        \* the loop: its state and the since of its request
          todo,        \* the positions left of the response that is being handled
          next_batch,  \* Client::next_batch_token
          born,        \* where the stream was when the bot's device was made
          storage,     \* Storage
          requests,    \* the bot's other requests under way
          run,         \* what this run of the bot has read and answered
          sent,        \* history: all messages the bot encrypted
          db,          \* db.json
          ended        \* history: runs, errors, puts, and whether work was lost

server == <<stream, peer, keys>>
vars == <<server, sync, todo, next_batch, born, storage, requests, run, sent, db, ended>>

Bot == Owner[BotDevice]
Live == {"login", "initial", "normal", "handling"}

\* Items of the stream.
Member(u)      == [kind |-> "member", user |-> u]
\* A message: its ciphertext, and whether what that says has a content.body.
Encrypted(u, c, body) == [kind |-> "encrypted", sender |-> u, ciphertext |-> c, body |-> body]
\* A room key in an olm message: type 0 opens an olm session, type 1 goes on in one.
RoomKey(key, type) == [kind |-> "room_key", key |-> key, type |-> type]
Junk           == [kind |-> "junk"]    \* no olm message: parsing throws
Broken         == [kind |-> "broken"]  \* an olm message of type 0 that does not decrypt
ToDevice == {"room_key", "junk", "broken"}

NoSession == [id |-> <<>>, index |-> 0]
EmptyStorage == [devices |-> [u \in {} |-> {}], members |-> {}, olm_outbound_sessions |-> {},
                 inbound_group_sessions |-> {}, outbound_group_session |-> NoSession]
Fresh == [read |-> {}, answered |-> <<>>]
-----------------------------------------------------------------------------
(* What handling an item does, on a record of what it may change.           *)
State == [storage |-> storage, requests |-> requests, run |-> run, sent |-> sent]

add_member(st, u)   == [st EXCEPT !.storage.members = @ \cup {u}]
get_device_keys(st, u) == [st EXCEPT !.requests = @ \cup {[kind |-> "query", user |-> u]}]

inbound_group(st, id) == {s \in st.storage.inbound_group_sessions : s.id = id}

\* Mutant: the session is kept as it was before the message.
send_without_ratchet(st, at) ==
  LET s == st.storage.outbound_group_session
  IN  [st EXCEPT !.requests = @ \cup {[kind |-> "send", ciphertext |-> ciphertext(s)]},
                 !.sent = Append(@, [id |-> s.id, index |-> s.index]),
                 !.run.answered = Append(@, at)]
\* send_group_message, the reply to what is at a position of the stream.
send_group_message(st, at) ==
  LET s == st.storage.outbound_group_session
  IN  [st EXCEPT !.requests = @ \cup {[kind |-> "send", ciphertext |-> ciphertext(s)]},
                 !.storage.outbound_group_session = encrypted(s),
                 !.sent = Append(@, [id |-> s.id, index |-> s.index]),
                 !.run.answered = Append(@, at)]

known_devices(st) == UNION {st.storage.devices[u] : u \in st.storage.members \cap DOMAIN st.storage.devices}

\* Mutant: the key is taken from the session after the message.
share_after_message(st, at) ==
  LET s == init_outbound_group_session(<<BotDevice, Len(st.sent) + 1>>)
      made == send_group_message([st EXCEPT !.storage.outbound_group_session = s], at)
  IN  IF st.storage.members = {} THEN st
      ELSE [made EXCEPT !.requests = @ \cup
              {[kind |-> "claim", device |-> d, key |-> session_key(made.storage.outbound_group_session)] :
                 d \in known_devices(st) \ st.storage.olm_outbound_sessions}]
\* create_outbound_megolm_session.  For a device that has an olm session the
\* body of the to-device request is not what the server accepts: the key is not
\* sent.  The message follows before any of the claims is answered.
create_outbound_megolm_session(st, at) ==
  LET s == init_outbound_group_session(<<BotDevice, Len(st.sent) + 1>>)
      claims == {[kind |-> "claim", device |-> d, key |-> session_key(s)] :
                   d \in known_devices(st) \ st.storage.olm_outbound_sessions}
  IN  IF st.storage.members = {} THEN st
      ELSE send_group_message([st EXCEPT !.storage.outbound_group_session = s,
                                         !.requests = @ \cup claims], at)

send_encrypted_reply(st, at) ==
  IF st.storage.outbound_group_session # NoSession THEN send_group_message(st, at)
                                                   ELSE create_outbound_megolm_session(st, at)

\* decrypt_olm_message: only messages of type 0 are opened; the first key of a
\* session is kept.
decrypt_olm_message(st, e) ==
  IF e.type # 0 \/ inbound_group(st, e.key.id) # {} THEN st
  ELSE [st EXCEPT !.storage.inbound_group_sessions = @ \cup {init_inbound_group_session(e.key)}]

\* A message of the room, for which there is a session that decrypts it.
handle_encrypted(st, at) ==
  LET read == [st EXCEPT !.run.read = @ \cup {at}]
  IN  IF stream[at].sender = Bot THEN read ELSE send_encrypted_reply(read, at)

\* What handle_to_device_msgs (which catches parse errors, but nothing that olm
\* sessions throw) and the loop over the room's events make of an item.
handled(st, at) ==
  LET e == stream[at]
  IN  CASE e.kind = "room_key" -> decrypt_olm_message(st, e)
        [] e.kind = "member"   -> add_member(get_device_keys(st, e.user), e.user)
        [] e.kind = "encrypted" /\ inbound_group(st, e.ciphertext.id) # {} -> handle_encrypted(st, at)
        [] OTHER -> st
\* What throws: an olm message or a room message that does not decrypt, and one
\* that does but has no content.body, which the bot reads from every message.
throws(st, at) ==
  LET e == stream[at]
  IN  \/ e.kind = "broken"
      \/ /\ e.kind = "encrypted"
         /\ \E s \in inbound_group(st, e.ciphertext.id) : decrypts(s, e.ciphertext) => ~e.body
-----------------------------------------------------------------------------
(* The sync loop.                                                           *)
to_device(i) == stream[i].kind \in ToDevice

\* What a response has: a new device gets no older to-device messages.
\* Invitations and the upload of further one-time keys are left out (see OlmAccount).
items(from, to) == {i \in from + 1 .. to : to_device(i) => i > born}

\* Mutant: the events of the rooms first.
rooms_first(i, j) ==
  \/ ~to_device(i) /\ to_device(j)
  \/ (to_device(i) <=> to_device(j)) /\ i < j
\* The order in which parse_messages goes through a response: to-device messages
\* before the rooms, each of the two as they came.
parse_messages(i, j) ==
  \/ to_device(i) /\ ~to_device(j)
  \/ (to_device(i) <=> to_device(j)) /\ i < j

login_cb(ok) ==
  /\ sync.state = "login"
  /\ ok \/ ended.errors < MaxErrors
  /\ sync' = [state |-> IF ok THEN "initial" ELSE "idle", since |-> 0]
  /\ ended' = IF ok THEN ended ELSE [ended EXCEPT !.errors = @ + 1]
  /\ UNCHANGED <<server, todo, next_batch, born, storage, requests, run, sent, db>>

\* A response, with everything there is by then.
sync_response ==
  /\ sync.state = "initial" \/ (sync.state = "normal" /\ Len(stream) > sync.since)
  /\ todo' = items(sync.since, Len(stream))
  /\ sync' = [state |-> "handling", since |-> Len(stream)]
  /\ UNCHANGED <<server, next_batch, born, storage, requests, run, sent, db, ended>>

\* One item of it; an exception ends the handler, and with it the loop.
handle_item ==
  /\ sync.state = "handling"
  /\ \E at \in todo :
       /\ \A i \in todo \ {at} : parse_messages(at, i)
       /\ IF throws(State, at)
          THEN /\ sync' = [sync EXCEPT !.state = "stopped"] /\ todo' = {}
               /\ UNCHANGED <<storage, requests, run, sent, ended>>
          ELSE LET st == handled(State, at)
               IN  /\ storage' = st.storage /\ requests' = st.requests
                   /\ run' = st.run /\ sent' = st.sent
                   /\ todo' = todo \ {at} /\ UNCHANGED sync
                   /\ ended' = [ended EXCEPT !.unsaved = @ \/ st.sent # sent]
  /\ UNCHANGED <<server, next_batch, born, db>>

\* Mutant: the token is not kept.
forget_token == UNCHANGED next_batch
\* The end of both handlers.
set_next_batch_token == next_batch' = sync.since
sync_on ==
  /\ sync.state = "handling" /\ todo = {}
  /\ set_next_batch_token
  /\ sync' = [sync EXCEPT !.state = "normal"]
  /\ UNCHANGED <<server, todo, born, storage, requests, run, sent, db, ended>>

\* Mutant: the status of a response whose body does not parse is kept.
status_of_body == {200, 500}
\* The status_code of an error: that of a response other than 2xx, and otherwise
\* 0, after a network error and also for a 200 whose body does not parse.
status_code == {0, 500}
\* The error path of the handlers.  The initial one asks for everything again,
\* unless the status was 200; the other goes on from the client's token.
sync_again(status) ==
  sync' = IF sync.state = "normal" THEN [sync EXCEPT !.since = next_batch]
          ELSE IF status = 200 THEN [sync EXCEPT !.state = "stopped"] ELSE sync
sync_error ==
  /\ sync.state \in {"initial", "normal"} /\ ended.errors < MaxErrors
  /\ \E status \in status_code : sync_again(status)
  /\ ended' = [ended EXCEPT !.errors = @ + 1]
  /\ UNCHANGED <<server, todo, next_batch, born, storage, requests, run, sent, db>>
-----------------------------------------------------------------------------
(* The other requests.                                                      *)
Running == sync.state # "down"
LoopFree == sync.state \notin {"down", "handling"}
Done(r) == requests' = requests \ {r}

\* An answer that is an error, or a claim that brings no key, has no effect.
request_fails(r) ==
  /\ LoopFree /\ r \in requests /\ Done(r) /\ ended.errors < MaxErrors
  /\ ended' = [ended EXCEPT !.errors = @ + 1]
  /\ UNCHANGED <<server, sync, todo, next_batch, born, storage, run, sent, db>>

\* save_device_keys: a user's first list is kept for good, here always a full one.
save_device_keys(r) ==
  LET lists == storage.devices
  IN  /\ LoopFree /\ r \in requests /\ r.kind = "query" /\ Done(r)
      /\ storage' = [storage EXCEPT !.devices =
                       [u \in DOMAIN lists \cup {r.user} |->
                          IF u \in DOMAIN lists THEN lists[u] ELSE {d \in Devices : Owner[d] = u}]]
      /\ UNCHANGED <<server, sync, todo, next_batch, born, run, sent, db, ended>>

\* The claim's callback: an olm session, and the key on its way, which is only
\* followed where it leads back to the bot.
claimed(r) ==
  /\ LoopFree /\ r \in requests /\ r.kind = "claim"
  /\ storage' = [storage EXCEPT !.olm_outbound_sessions = @ \cup {r.device}]
  /\ requests' = (requests \ {r}) \cup {q \in {[r EXCEPT !.kind = "to_device"]} : r.device = BotDevice}
  /\ keys' = keys \cup {r.key}
  /\ UNCHANGED <<stream, peer, sync, todo, next_batch, born, run, sent, db, ended>>

\* The server takes what the bot sends, and gives it back to the bot.
delivered(r) ==
  /\ LoopFree /\ r \in requests /\ r.kind \in {"to_device", "send"} /\ Done(r)
  /\ stream' = Append(stream, IF r.kind = "send" THEN Encrypted(Bot, r.ciphertext, TRUE)
                                                   ELSE RoomKey(r.key, 0))
  /\ UNCHANGED <<peer, keys, sync, todo, next_batch, born, storage, run, sent, db, ended>>
-----------------------------------------------------------------------------
(* Stopping and starting.                                                   *)

\* shutdown_handler saves, and then stops the client.
save == /\ Running /\ ended.runs < MaxRuns
        /\ db # storage
        /\ db' = storage
        /\ ended' = [ended EXCEPT !.unsaved = FALSE]
        /\ UNCHANGED <<server, sync, todo, next_batch, born, storage, requests, run, sent>>

\* The process ends: after shutdown_handler, or by a crash.
stop == /\ Running /\ ended.runs < MaxRuns
        /\ sync' = [state |-> "down", since |-> 0]
        /\ requests' = {} /\ storage' = EmptyStorage /\ run' = Fresh
        /\ todo' = {} /\ next_batch' = 0
        /\ ended' = [ended EXCEPT !.lost = @ \/ ended.unsaved, !.unsaved = FALSE]
        /\ UNCHANGED <<server, born, sent, db>>

\* main: Storage::load, and a login, which makes a new device for the server.
start == /\ sync.state = "down"
         /\ sync' = [state |-> "login", since |-> 0]
         /\ born' = Len(stream)
         /\ storage' = db
         /\ ended' = [ended EXCEPT !.runs = @ + 1]
         /\ UNCHANGED <<server, todo, next_batch, requests, run, sent, db>>
-----------------------------------------------------------------------------
(* Other users.                                                             *)
Others == Devices \ {BotDevice}
\* Not while a response is handled: that would only come to the same later.
Puts(item) == /\ ended.puts < MaxPuts /\ sync.state # "handling"
              /\ stream' = Append(stream, item) /\ ended' = [ended EXCEPT !.puts = @ + 1]
              /\ UNCHANGED <<keys, sync, todo, next_batch, born, storage, requests, run, sent, db>>
\* At most one item of the stream is bad.
AllGood == \A i \in DOMAIN stream : \/ stream[i].kind \in {"member", "room_key"}
                                    \/ /\ stream[i].kind = "encrypted"
                                       /\ stream[i].body /\ ~stream[i].ciphertext.damaged
shares(d) == \E type \in {0, 1} : Puts(RoomKey(session_key(peer[d]), type)) /\ UNCHANGED peer
says(d) == /\ \E body \in BOOLEAN : /\ body \/ AllGood
                                    /\ Puts(Encrypted(Owner[d], ciphertext(peer[d]), body))
           /\ peer' = [peer EXCEPT ![d] = encrypted(@)]
damages(d) == /\ AllGood
              /\ Puts(Encrypted(Owner[d], [ciphertext(peer[d]) EXCEPT !.damaged = TRUE], TRUE))
              /\ UNCHANGED peer
confuses == AllGood /\ \E item \in {Junk, Broken} : Puts(item) /\ UNCHANGED peer
-----------------------------------------------------------------------------
\* The members' events come first.
Init == /\ keys = {}
        /\ stream = [i \in 1 .. Cardinality(Users) |-> Member(SetToSeq(Users)[i])]
        /\ peer = [d \in Others |-> init_outbound_group_session(<<d, 0>>)]
        /\ sync = [state |-> "login", since |-> 0] /\ todo = {} /\ next_batch = 0 /\ born = 0
        /\ storage = EmptyStorage /\ db = EmptyStorage
        /\ requests = {} /\ run = Fresh /\ sent = <<>>
        /\ ended = [runs |-> 1, errors |-> 0, puts |-> 0, unsaved |-> FALSE, lost |-> FALSE]

Next == \/ \E ok \in BOOLEAN : login_cb(ok)
        \/ sync_response \/ handle_item \/ sync_on \/ sync_error
        \/ \E r \in requests : request_fails(r) \/ save_device_keys(r) \/ claimed(r) \/ delivered(r)
        \/ save \/ stop \/ start
        \/ \E d \in Others : shares(d) \/ says(d) \/ damages(d)
        \/ confuses

\* The client answers every request in the end, and handlers come to an end.
Spec == Init /\ [][Next]_vars /\ WF_vars(login_cb(TRUE))
             /\ WF_vars(sync_response) /\ WF_vars(handle_item \/ sync_on)
-----------------------------------------------------------------------------
Positions == 1 .. next_batch
IsMessage(i) == stream[i].kind = "encrypted"
\* The bot opens olm messages of type 0 only.
KeyOf(k, i) == /\ stream[k].kind = "room_key" /\ stream[k].type = 0
               /\ stream[k].key.id = stream[i].ciphertext.id

\* A message sent after its room key came, in an olm message of type 0, is read,
\* however sync responses cut the stream, whatever comes between them and whatever
\* errors there are: to-device messages are handled before the rooms of the same
\* response.
ReadsWhatItCan ==
  \A i \in Positions : \A k \in born + 1 .. i - 1 :
    IsMessage(i) /\ KeyOf(k, i) => i \in run.read

\* No message is answered twice in a run, and the bot never answers itself:
\* neither errors nor the echo of its own messages make it repeat itself.
AnswersOnce ==
  /\ \A i, j \in DOMAIN run.answered : run.answered[i] = run.answered[j] => i = j
  /\ \A i \in DOMAIN run.answered : stream[run.answered[i]].sender # Bot

\* A room key the bot hands out opens every message of its session, also those
\* encrypted before the key was sent, and those sent after a restart.
KeyOpensSession ==
  \A k \in keys : \A i \in DOMAIN sent :
    sent[i].id = k.id => decrypts(init_inbound_group_session(k),
                                      [id |-> sent[i].id, index |-> sent[i].index, damaged |-> FALSE])

\* Storage that was saved after the last message is enough to go on: no index of
\* a session encrypts two messages, unless the bot went down without saving.
IndexOnce ==
  ended.lost \/ \A i, j \in DOMAIN sent : sent[i] = sent[j] => i = j

\* Something in the stream whose handling throws.
Unhandled ==
  \E i \in DOMAIN stream :
    \/ stream[i].kind = "broken"
    \/ IsMessage(i) /\ \E s \in storage.inbound_group_sessions :
                          /\ s.id = stream[i].ciphertext.id
                          /\ decrypts(s, stream[i].ciphertext) => ~stream[i].body

\* The bot gets to everything in the stream: errors do not stop the loop, not even
\* a first response that cannot be parsed; only messages that do not decrypt or have
\* no body do (the exception leaves sync_handler before it asks for the next).
SyncProgress ==
  sync.state \in Live
    ~> (next_batch = Len(stream) \/ sync.state \in {"idle", "down"} \/ Unhandled)
-----------------------------------------------------------------------------
(* The inductive invariant behind the four invariants above.                *)
Id == (Devices \X Nat) \cup {<<>>}
Session == [id : Id, index : Nat]
Ciphertext == [id : Id, index : Nat, damaged : BOOLEAN]
Item == [kind : {"member"}, user : Users] \cup [kind : {"junk", "broken"}]
          \cup [kind : {"encrypted"}, sender : Users, ciphertext : Ciphertext, body : BOOLEAN]
          \cup [kind : {"room_key"}, key : Session, type : {0, 1}]
Request == [kind : {"query"}, user : Users] \cup [kind : {"send"}, ciphertext : Ciphertext]
             \cup [kind : {"claim", "to_device"}, device : Devices, key : Session]
Storage == [devices : UNION {[S -> SUBSET Devices] : S \in SUBSET Users},
            members : SUBSET Users, olm_outbound_sessions : SUBSET Devices,
            inbound_group_sessions : SUBSET [id : Id, first : Nat],
            outbound_group_session : Session]

TypeOK ==
  /\ stream \in Seq(Item) /\ peer \in [Others -> Session] /\ keys \subseteq Session
  /\ sync \in [state : Live \cup {"idle", "stopped", "down"}, since : 0 .. Len(stream)]
  /\ next_batch \in Nat /\ born \in Nat
  /\ todo \subseteq next_batch + 1 .. sync.since
  /\ storage \in Storage /\ db \in Storage /\ requests \subseteq Request
  /\ run \in [read : SUBSET Nat, answered : Seq(Nat)] /\ sent \in Seq(Session)
  /\ ended \in [runs : Nat, errors : Nat, puts : Nat, unsaved : BOOLEAN, lost : BOOLEAN]

\* Keys leave the bot as they were before the session's first message.
KeysFromStart ==
  /\ \A k \in keys : k.index = 0
  /\ \A r \in requests : r.kind = "claim" => r.key.index = 0

\* The session is past every message it encrypted.
Past(s) == \A i \in DOMAIN sent : sent[i].id = s.id => sent[i].index < s.index
OwnIds == {BotDevice} \X (1 .. Len(sent))
\* What was saved must be past them as well, unless messages followed.
SentInv ==
  /\ \A i \in DOMAIN sent : sent[i].id \in OwnIds
  /\ \A st \in {storage, db} :
       st.outbound_group_session = NoSession \/ st.outbound_group_session.id \in OwnIds
  /\ IndexOnce
  /\ ended.lost \/ Past(storage.outbound_group_session)
  /\ ended.lost \/ ended.unsaved \/ Past(db.outbound_group_session)
  /\ sync.state = "down" => ~ended.unsaved

\* Between two responses the loop's since is the client's token.
TokenInv ==
  /\ next_batch <= sync.since
  /\ sync.state \in {"down", "login"} => sync.since = 0
  /\ sync.state \in {"initial", "normal"} => sync.since = next_batch
  /\ sync.state # "handling" => todo = {}

AnswerInv ==
  /\ AnswersOnce
  /\ \A i \in DOMAIN run.answered : run.answered[i] \in (1 .. sync.since) \ todo

\* The bot has been through position i in this run.
Covered(i) == i <= next_batch \/ (sync.state = "handling" /\ i <= sync.since /\ i \notin todo)
ReadInv ==
  /\ \A k \in born + 1 .. Len(stream) : Covered(k) /\ stream[k].kind = "room_key" /\ stream[k].type = 0
       => \E s \in storage.inbound_group_sessions : s.id = stream[k].key.id
  /\ \A i \in 1 .. Len(stream) : \A k \in born + 1 .. i - 1 :
       Covered(i) /\ IsMessage(i) /\ KeyOf(k, i) => i \in run.read

BotInv == TypeOK /\ KeysFromStart /\ SentInv /\ TokenInv /\ AnswerInv /\ ReadInv
=============================================================================
