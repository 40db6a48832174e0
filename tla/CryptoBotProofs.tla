--------------------------- MODULE CryptoBotProofs ---------------------------
(***************************************************************************)
(* The bot of examples/crypto_bot.cpp, for any number of users, devices,     *)
(* messages, errors and restarts.                                           *)
(***************************************************************************)
EXTENDS CryptoBot, FiniteSetTheorems, TLAPS

Run == [read : SUBSET Nat, answered : Seq(Nat)]
States == [storage : Storage, requests : SUBSET Request, run : Run, sent : Seq(Session)]

-----------------------------------------------------------------------------
(* What handling an item does.                                              *)

\* The initial state and the small values have their types.
LEMMA Types ==
  /\ NoSession \in Session /\ EmptyStorage \in Storage /\ Fresh \in Run
  /\ \A n \in Nat : <<BotDevice, n>> \in Id
  /\ Bot \in Users
<1>1. NoSession \in Session
  BY DEF NoSession, Session, Id
<1>2. EmptyStorage \in Storage
  <2>1. [u \in {} |-> {}] \in [{} -> SUBSET Devices]
    OBVIOUS
  <2>2. [u \in {} |-> {}] \in UNION {[S -> SUBSET Devices] : S \in SUBSET Users}
    BY <2>1
  <2> QED
    BY <1>1, <2>2 DEF EmptyStorage, Storage
<1>3. Fresh \in Run
  BY DEF Fresh, Run
<1> QED
  BY <1>1, <1>2, <1>3, CryptoBotAssumption DEF Id, Bot

\* Replacing the session leaves the rest of the storage alone.
LEMMA SetSession ==
  ASSUME NEW x \in Storage, NEW s \in Session,
         NEW y, y = [x EXCEPT !.outbound_group_session = s]
  PROVE  /\ y \in Storage /\ y.outbound_group_session = s
         /\ y.devices = x.devices /\ y.members = x.members
         /\ y.olm_outbound_sessions = x.olm_outbound_sessions
         /\ y.inbound_group_sessions = x.inbound_group_sessions
BY DEF Storage

\* A state with other values in some of its members.
LEMMA SetState ==
  ASSUME NEW st \in States, NEW x \in Storage, NEW r \in SUBSET Request, NEW n \in Run
  PROVE  /\ [st EXCEPT !.storage = x, !.requests = r]
              = [storage |-> x, requests |-> r, run |-> st.run, sent |-> st.sent]
         /\ [st EXCEPT !.run = n]
              = [storage |-> st.storage, requests |-> st.requests, run |-> n, sent |-> st.sent]
         /\ [storage |-> x, requests |-> r, run |-> n, sent |-> st.sent] \in States
<1>1. st.storage \in Storage /\ st.requests \in SUBSET Request /\ st.run \in Run /\ st.sent \in Seq(Session)
  BY DEF States
<1>2. [st EXCEPT !.storage = x, !.requests = r]
        = [storage |-> x, requests |-> r, run |-> st.run, sent |-> st.sent]
  <2> DEFINE y == [st EXCEPT !.storage = x]
  <2>1. y = [storage |-> x, requests |-> st.requests, run |-> st.run, sent |-> st.sent]
    BY <1>1 DEF States
  <2>2. [st EXCEPT !.storage = x, !.requests = r] = [y EXCEPT !.requests = r]
    OBVIOUS
  <2> HIDE DEF y
  <2>3. [y EXCEPT !.requests = r]
          = [storage |-> x, requests |-> r, run |-> st.run, sent |-> st.sent]
    BY <2>1
  <2> QED
    BY <2>2, <2>3
<1>3. [st EXCEPT !.run = n]
        = [storage |-> st.storage, requests |-> st.requests, run |-> n, sent |-> st.sent]
  BY <1>1 DEF States
<1> QED
  BY <1>1, <1>2, <1>3 DEF States

\* send_group_message: one more message of the session at hand, and the session
\* one step further.
LEMMA SendFacts ==
  ASSUME NEW st \in States, NEW at \in Nat, NEW t, t = send_group_message(st, at)
  PROVE  LET s == st.storage.outbound_group_session
         IN  /\ t \in States
             /\ t.storage = [st.storage EXCEPT !.outbound_group_session = [id |-> s.id, index |-> s.index + 1]]
             /\ t.requests = st.requests \cup {[kind |-> "send", ciphertext |-> ciphertext(s)]}
             /\ t.sent = Append(st.sent, s)
             /\ t.run = [st.run EXCEPT !.answered = Append(@, at)]
<1> DEFINE s == st.storage.outbound_group_session
<1>1. /\ s \in Session /\ s.id \in Id /\ s.index \in Nat
      /\ s = [id |-> s.id, index |-> s.index]
      /\ encrypted(s) = [id |-> s.id, index |-> s.index + 1]
  BY DEF States, Storage, Session, encrypted
<1>2. ciphertext(s) \in Ciphertext
  BY <1>1 DEF ciphertext, Ciphertext
<1>3. t = [storage |-> [st.storage EXCEPT !.outbound_group_session = encrypted(s)],
           requests |-> st.requests \cup {[kind |-> "send", ciphertext |-> ciphertext(s)]},
           run |-> [st.run EXCEPT !.answered = Append(@, at)],
           sent |-> Append(st.sent, [id |-> s.id, index |-> s.index])]
  BY DEF send_group_message, States
<1>4. [kind |-> "send", ciphertext |-> ciphertext(s)] \in Request
  BY <1>2 DEF Request
<1>5. [st.storage EXCEPT !.outbound_group_session = encrypted(s)] \in Storage
  <2>1. st.storage \in Storage /\ encrypted(s) \in Session
    BY <1>1 DEF States, Session
  <2> QED
    BY <2>1, SetSession
<1>6. [st.run EXCEPT !.answered = Append(@, at)] \in Run
  <2>1. st.run \in Run /\ Append(st.run.answered, at) \in Seq(Nat)
    BY DEF States, Run
  <2> QED
    BY <2>1 DEF Run
<1>7. Append(st.sent, [id |-> s.id, index |-> s.index]) \in Seq(Session)
  BY <1>1 DEF States
<1>8. st.requests \cup {[kind |-> "send", ciphertext |-> ciphertext(s)]} \in SUBSET Request
  BY <1>4 DEF States
<1> HIDE DEF s
<1>9. t \in States
  BY <1>3, <1>5, <1>6, <1>7, <1>8 DEF States
<1> QED
  BY <1>1, <1>3, <1>9 DEF s

\* A reply is one message: of the session there is, or the first one of a session
\* with an id no message has yet, whose key is on its way.
Replied(st, t, at) ==
  \E s \in Session :
    /\ t.sent = Append(st.sent, s)
    /\ t.storage.outbound_group_session = [id |-> s.id, index |-> s.index + 1]
    /\ \/ s = st.storage.outbound_group_session /\ s # NoSession
       \/ s = [id |-> <<BotDevice, Len(st.sent) + 1>>, index |-> 0]
    /\ t.run.answered = Append(st.run.answered, at)

\* What no reply touches, and the keys it hands on.
Extends(st, t) ==
  /\ t \in States
  /\ st.storage.inbound_group_sessions \subseteq t.storage.inbound_group_sessions
  /\ st.run.read \subseteq t.run.read
  /\ \A r \in t.requests \ st.requests : r.kind = "claim" => r.key.index = 0

\* Nothing was sent.
Silent(st, t) ==
  /\ t.sent = st.sent
  /\ t.storage.outbound_group_session = st.storage.outbound_group_session
  /\ t.run.answered = st.run.answered

\* What send_group_message changes, for each of the replies it may be called for.
LEMMA SendReplies ==
  ASSUME NEW st \in States, NEW at \in Nat, st.storage.outbound_group_session # NoSession,
         NEW t, t = send_group_message(st, at)
  PROVE  Extends(st, t) /\ Replied(st, t, at)
<1> DEFINE s == st.storage.outbound_group_session
<1>1. /\ t \in States
      /\ t.storage = [st.storage EXCEPT !.outbound_group_session = [id |-> s.id, index |-> s.index + 1]]
      /\ t.requests = st.requests \cup {[kind |-> "send", ciphertext |-> ciphertext(s)]}
      /\ t.sent = Append(st.sent, s)
      /\ t.run = [st.run EXCEPT !.answered = Append(@, at)]
  BY SendFacts
<1>2. s \in Session /\ st.storage \in Storage /\ [id |-> s.id, index |-> s.index + 1] \in Session
  BY DEF States, Storage, Session
<1>3. /\ t.storage.outbound_group_session = [id |-> s.id, index |-> s.index + 1]
      /\ t.storage.inbound_group_sessions = st.storage.inbound_group_sessions
  BY <1>1, <1>2, SetSession
<1>4. t.run.answered = Append(st.run.answered, at) /\ t.run.read = st.run.read
  BY <1>1 DEF States, Run
<1> HIDE DEF s
<1>5. Extends(st, t)
  BY <1>1, <1>3, <1>4 DEF Extends
<1>6. Replied(st, t, at)
  BY <1>1, <1>2, <1>3, <1>4 DEF Replied, s
<1> QED
  BY <1>5, <1>6

\* What create_outbound_megolm_session changes when the bot has no session.
LEMMA CreateReplies ==
  ASSUME NEW st \in States, NEW at \in Nat,
         NEW t, t = create_outbound_megolm_session(st, at)
  PROVE  Extends(st, t) /\ (Silent(st, t) \/ Replied(st, t, at))
<1> DEFINE s == init_outbound_group_session(<<BotDevice, Len(st.sent) + 1>>)
           claims == {[kind |-> "claim", device |-> d, key |-> session_key(s)] :
                        d \in known_devices(st) \ st.storage.olm_outbound_sessions}
           u == [st EXCEPT !.storage.outbound_group_session = s, !.requests = @ \cup claims]
<1>1. CASE st.storage.members = {}
  <2>1. t = st
    BY <1>1 DEF create_outbound_megolm_session
  <2> QED
    BY <2>1 DEF Extends, Silent
<1>2. CASE st.storage.members # {}
  <2>1. t = send_group_message(u, at)
    BY <1>2 DEF create_outbound_megolm_session
  <2>2. /\ s = [id |-> <<BotDevice, Len(st.sent) + 1>>, index |-> 0]
        /\ Len(st.sent) + 1 \in Nat
    BY DEF init_outbound_group_session, States
  <2>3. s \in Session /\ s.index = 0 /\ s # NoSession
    <3>1. <<BotDevice, Len(st.sent) + 1>> \in Id /\ <<BotDevice, Len(st.sent) + 1>> # <<>>
      BY <2>2, Types
    <3> QED
      BY <2>2, <3>1 DEF Session, NoSession
  <2>4. session_key(s) \in Session /\ session_key(s).index = 0
    BY <2>3 DEF session_key, Session
  <2>5. known_devices(st) \subseteq Devices
    <3>1. PICK S \in SUBSET Users : st.storage.devices \in [S -> SUBSET Devices]
      BY DEF States, Storage
    <3> QED
      BY <3>1 DEF known_devices
  <2> HIDE DEF s
  <2>6. claims \subseteq Request /\ \A r \in claims : r.key.index = 0
    BY <2>4, <2>5 DEF Request
  <2>7. /\ u.storage = [st.storage EXCEPT !.outbound_group_session = s]
        /\ u.requests = st.requests \cup claims /\ u.run = st.run /\ u.sent = st.sent
        /\ u = [storage |-> u.storage, requests |-> u.requests, run |-> u.run, sent |-> u.sent]
    <3> HIDE DEF claims
    <3> DEFINE x == [st.storage EXCEPT !.outbound_group_session = s]
    <3>1. x \in Storage /\ st.requests \cup claims \in SUBSET Request /\ st.run \in Run
      BY <2>3, <2>6, SetSession DEF States
    <3>2. u = [st EXCEPT !.storage = x, !.requests = st.requests \cup claims]
      OBVIOUS
    <3> HIDE DEF u, x
    <3>3. u = [storage |-> x, requests |-> st.requests \cup claims, run |-> st.run, sent |-> st.sent]
      BY <3>1, <3>2, SetState
    <3> QED
      BY <3>3 DEF x
  <2> HIDE DEF claims, u
  <2>8. /\ u.storage \in Storage /\ u.storage.outbound_group_session = s
        /\ u.storage.inbound_group_sessions = st.storage.inbound_group_sessions
    BY <2>3, <2>7, SetSession DEF States
  <2>9. u \in States
    <3>1. st.requests \cup claims \in SUBSET Request /\ st.run \in Run /\ st.sent \in Seq(Session)
      BY <2>6 DEF States
    <3> QED
      BY <2>7, <2>8, <3>1 DEF States
  <2>10. Extends(u, t) /\ Replied(u, t, at)
    BY <2>1, <2>3, <2>8, <2>9, SendReplies
  <2>11. Extends(st, t)
    BY <2>6, <2>7, <2>8, <2>10 DEF Extends
  <2>12. Replied(st, t, at)
    BY <2>2, <2>7, <2>8, <2>10 DEF Replied
  <2> QED
    BY <2>11, <2>12
<1> QED
  BY <1>1, <1>2

\* What handling the item at a position does to the bot's state.
LEMMA HandledFacts ==
  ASSUME TypeOK, NEW at \in 1 .. Len(stream), NEW t, t = handled(State, at)
  PROVE  /\ State \in States /\ Extends(State, t)
         /\ \/ Silent(State, t)
            \/ Replied(State, t, at) /\ IsMessage(at) /\ stream[at].sender # Bot
         /\ stream[at].kind = "room_key" /\ stream[at].type = 0
              => \E s \in t.storage.inbound_group_sessions : s.id = stream[at].key.id
         /\ IsMessage(at) /\ (\E s \in storage.inbound_group_sessions : s.id = stream[at].ciphertext.id)
              => at \in t.run.read
<1> DEFINE e == stream[at]
<1>1. /\ State \in States /\ State.storage = storage /\ State.requests = requests
      /\ State.run = run /\ State.sent = sent
  BY DEF State, States, TypeOK, Run
<1>2. e \in Item /\ at \in Nat
  BY DEF TypeOK
<1> DEFINE st == State
<1> HIDE DEF e
<1>3. CASE e.kind = "room_key"
  <2>1. t = decrypt_olm_message(st, e)
    BY <1>3 DEF handled, e
  <2>2. e.key \in Session
    BY <1>2, <1>3 DEF Item
  <2>3. CASE e.type # 0 \/ inbound_group(st, e.key.id) # {}
    <3>1. t = st
      BY <2>1, <2>3 DEF decrypt_olm_message
    <3> QED
      BY <1>1, <1>3, <2>3, <3>1 DEF Extends, Silent, inbound_group, e, IsMessage
  <2>4. CASE e.type = 0 /\ inbound_group(st, e.key.id) = {}
    <3> DEFINE s == init_inbound_group_session(e.key)
               x == storage.inbound_group_sessions \cup {s}
    <3>1. s \in [id : Id, first : Nat] /\ s.id = e.key.id
      BY <2>2 DEF init_inbound_group_session, Session
    <3>2. t = [st EXCEPT !.storage.inbound_group_sessions = @ \cup {s}]
      BY <2>1, <2>4 DEF decrypt_olm_message
    <3> HIDE DEF s
    <3>3. /\ t.storage = [storage EXCEPT !.inbound_group_sessions = x]
          /\ t.requests = requests /\ t.run = run /\ t.sent = sent
          /\ t = [storage |-> t.storage, requests |-> t.requests, run |-> t.run, sent |-> t.sent]
      BY <1>1, <3>2 DEF States
    <3>4. /\ t.storage \in Storage /\ t.storage.inbound_group_sessions = x
          /\ t.storage.outbound_group_session = storage.outbound_group_session
      <4>1. storage \in Storage /\ x \in SUBSET [id : Id, first : Nat]
        BY <3>1 DEF TypeOK, Storage
      <4> HIDE DEF x
      <4> QED
        BY <3>3, <4>1 DEF Storage
    <3>5. t \in States
      BY <1>1, <3>3, <3>4 DEF States
    <3> QED
      BY <1>1, <1>3, <3>1, <3>3, <3>4, <3>5 DEF Extends, Silent, e, IsMessage
  <2> QED
    BY <2>3, <2>4
<1>4. CASE e.kind = "member"
  <2> DEFINE q == [kind |-> "query", user |-> e.user]
             x == storage.members \cup {e.user}
  <2>1. t = add_member(get_device_keys(st, e.user), e.user)
    BY <1>4 DEF handled, e
  <2>2. e.user \in Users /\ q \in Request /\ q.kind = "query"
    BY <1>2, <1>4 DEF Item, Request
  <2>3. t = [[st EXCEPT !.requests = @ \cup {q}] EXCEPT !.storage.members = @ \cup {e.user}]
    BY <2>1 DEF add_member, get_device_keys
  <2> HIDE DEF q
  <2>4. /\ t.storage = [storage EXCEPT !.members = x]
        /\ t.requests = requests \cup {q} /\ t.run = run /\ t.sent = sent
        /\ t = [storage |-> t.storage, requests |-> t.requests, run |-> t.run, sent |-> t.sent]
    BY <1>1, <2>3 DEF States
  <2>5. /\ t.storage \in Storage
        /\ t.storage.inbound_group_sessions = storage.inbound_group_sessions
        /\ t.storage.outbound_group_session = storage.outbound_group_session
    <3>1. storage \in Storage /\ x \in SUBSET Users
      BY <2>2 DEF TypeOK, Storage
    <3> HIDE DEF x
    <3> QED
      BY <2>4, <3>1 DEF Storage
  <2>6. t \in States
    <3>1. requests \cup {q} \in SUBSET Request /\ run \in Run /\ sent \in Seq(Session)
      BY <2>2 DEF TypeOK, Run
    <3> QED
      BY <2>4, <2>5, <3>1 DEF States
  <2> QED
    BY <1>1, <1>4, <2>2, <2>4, <2>5, <2>6 DEF Extends, Silent, e, IsMessage
<1>5. CASE e.kind = "encrypted" /\ inbound_group(st, e.ciphertext.id) # {}
  <2> DEFINE u == [st EXCEPT !.run.read = @ \cup {at}]
  <2>1. t = handle_encrypted(st, at)
    BY <1>5 DEF handled, e
  <2>2. /\ u.run = [run EXCEPT !.read = @ \cup {at}]
        /\ u.storage = storage /\ u.requests = requests /\ u.sent = sent
        /\ u = [storage |-> u.storage, requests |-> u.requests, run |-> u.run, sent |-> u.sent]
    <3> DEFINE n == [run EXCEPT !.read = @ \cup {at}]
    <3>1. n \in Run
      <4>1. run \in Run /\ run.read \cup {at} \in SUBSET Nat
        BY <1>2 DEF TypeOK, Run
      <4> QED
        BY <4>1 DEF Run
    <3>2. u = [st EXCEPT !.run = n]
      BY <1>1
    <3> HIDE DEF u, n, st
    <3>3. u = [storage |-> st.storage, requests |-> st.requests, run |-> n, sent |-> st.sent]
      BY <1>1, <3>1, <3>2, SetState DEF st, States
    <3> QED
      BY <1>1, <3>3 DEF n, st
  <2> HIDE DEF u
  <2>3. u.run \in Run /\ u.run.read = run.read \cup {at} /\ u.run.answered = run.answered
    <3>1. run \in Run /\ run.read \cup {at} \in SUBSET Nat
      BY <1>2 DEF TypeOK, Run
    <3> QED
      BY <2>2, <3>1 DEF Run
  <2>4. u \in States
    BY <1>1, <2>2, <2>3 DEF States
  <2>5. CASE e.sender = Bot
    <3>1. t = u
      BY <2>1, <2>5 DEF handle_encrypted, e, u
    <3> QED
      BY <1>1, <1>5, <2>2, <2>3, <2>4, <3>1 DEF Extends, Silent, e, IsMessage
  <2>6. CASE e.sender # Bot
    <3>1. t = send_encrypted_reply(u, at)
      BY <2>1, <2>6 DEF handle_encrypted, e, u
    <3>2. Extends(u, t) /\ (Silent(u, t) \/ Replied(u, t, at))
      <4>1. CASE u.storage.outbound_group_session # NoSession
        BY <1>2, <2>4, <3>1, <4>1, SendReplies DEF send_encrypted_reply
      <4>2. CASE u.storage.outbound_group_session = NoSession
        BY <1>2, <2>4, <3>1, <4>2, CreateReplies DEF send_encrypted_reply
      <4> QED
        BY <4>1, <4>2
    <3>3. Extends(st, t) /\ at \in t.run.read
      BY <1>1, <2>2, <2>3, <3>2 DEF Extends
    <3>4. Silent(st, t) \/ Replied(st, t, at)
      <4>1. CASE Silent(u, t)
        BY <1>1, <2>2, <2>3, <4>1 DEF Silent
      <4>2. CASE Replied(u, t, at)
        BY <1>1, <2>2, <2>3, <4>2 DEF Replied
      <4> QED
        BY <3>2, <4>1, <4>2
    <3> QED
      BY <1>1, <1>5, <2>6, <3>3, <3>4 DEF e, IsMessage
  <2> QED
    BY <2>5, <2>6
<1>6. CASE /\ e.kind \notin {"room_key", "member"}
           /\ ~ (e.kind = "encrypted" /\ inbound_group(st, e.ciphertext.id) # {})
  <2>1. t = st
    BY <1>6 DEF handled, e
  <2> QED
    BY <1>1, <1>6, <2>1 DEF Extends, Silent, inbound_group, e, IsMessage
<1> QED
  BY <1>3, <1>4, <1>5, <1>6

-----------------------------------------------------------------------------
(* Facts several steps need.                                                *)

Tally == [runs : Nat, errors : Nat, puts : Nat, unsaved : BOOLEAN, lost : BOOLEAN]

\* What a request of a kind carries.
LEMMA RequestFacts ==
  ASSUME NEW r \in Request
  PROVE  /\ r.kind = "query" => r.user \in Users
         /\ r.kind = "send" => r.ciphertext \in Ciphertext
         /\ r.kind \in {"claim", "to_device"} => r.device \in Devices /\ r.key \in Session
         /\ r.kind = "claim" => /\ [r EXCEPT !.kind = "to_device"] \in Request
                                /\ [r EXCEPT !.kind = "to_device"].kind = "to_device"
<1>1. CASE r \in [kind : {"query"}, user : Users]
  BY <1>1
<1>2. CASE r \in [kind : {"send"}, ciphertext : Ciphertext]
  BY <1>2
<1>3. CASE r \in [kind : {"claim", "to_device"}, device : Devices, key : Session]
  <2>1. /\ [r EXCEPT !.kind = "to_device"] \in [kind : {"claim", "to_device"}, device : Devices, key : Session]
        /\ [r EXCEPT !.kind = "to_device"].kind = "to_device"
    BY <1>3
  <2> QED
    BY <1>3, <2>1 DEF Request
<1> QED
  BY <1>1, <1>2, <1>3 DEF Request

\* Counting leaves the flags alone.
LEMMA TallyFacts ==
  ASSUME NEW e \in Tally
  PROVE  /\ \A x \in {[e EXCEPT !.errors = @ + 1], [e EXCEPT !.puts = @ + 1], [e EXCEPT !.runs = @ + 1]} :
              x \in Tally /\ x.unsaved = e.unsaved /\ x.lost = e.lost
         /\ [e EXCEPT !.unsaved = FALSE] \in Tally
         /\ [e EXCEPT !.unsaved = FALSE].lost = e.lost /\ ~[e EXCEPT !.unsaved = FALSE].unsaved
<1>1. [e EXCEPT !.errors = @ + 1] \in Tally /\ [e EXCEPT !.puts = @ + 1] \in Tally /\ [e EXCEPT !.runs = @ + 1] \in Tally
  BY DEF Tally
<1>2. [e EXCEPT !.unsaved = FALSE] \in Tally
  BY DEF Tally
<1> QED
  BY <1>1, <1>2 DEF Tally

\* The positions of a stream keep what they hold when it grows, and so do the
\* parts of the invariant that are about them.
LEMMA StreamGrows ==
  ASSUME TypeOK, TokenInv, AnswerInv, ReadInv, NEW item \in Item,
         stream' = Append(stream, item), sync.state # "handling",
         UNCHANGED <<sync, todo, next_batch, born, run>>,
         storage'.inbound_group_sessions = storage.inbound_group_sessions
  PROVE  /\ stream' \in Seq(Item) /\ sync' \in [state : Live \cup {"idle", "stopped", "down"}, since : 0 .. Len(stream')]
         /\ TokenInv' /\ AnswerInv' /\ ReadInv'
<1>1. /\ stream \in Seq(Item) /\ stream' \in Seq(Item) /\ Len(stream') = Len(stream) + 1
      /\ \A i \in 1 .. Len(stream) : stream'[i] = stream[i]
      /\ Len(stream) \in Nat
  BY DEF TypeOK
<1>2. /\ sync.since \in 0 .. Len(stream) /\ next_batch \in Nat /\ next_batch <= sync.since
      /\ born \in Nat
  BY DEF TypeOK, TokenInv
<1>3. sync' \in [state : Live \cup {"idle", "stopped", "down"}, since : 0 .. Len(stream')]
  BY <1>1, <1>2 DEF TypeOK
<1>4. TokenInv'
  BY DEF TokenInv
<1>5. AnswerInv'
  <2>1. \A i \in DOMAIN run.answered : run.answered[i] \in (1 .. sync.since) \ todo
    BY DEF AnswerInv
  <2>2. \A i \in DOMAIN run.answered : stream'[run.answered[i]] = stream[run.answered[i]]
    BY <1>1, <1>2, <2>1
  <2> QED
    BY <2>1, <2>2 DEF AnswerInv, AnswersOnce, Bot
<1>6. ReadInv'
  <2>1. \A i \in 1 .. Len(stream') : Covered(i)' => Covered(i) /\ i \in 1 .. Len(stream)
    BY <1>1, <1>2 DEF Covered
  <2>2. ASSUME NEW k \in born' + 1 .. Len(stream'), Covered(k)', stream'[k].kind = "room_key", stream'[k].type = 0
        PROVE  \E s \in storage'.inbound_group_sessions : s.id = stream'[k].key.id
    BY <1>1, <1>2, <2>1, <2>2 DEF ReadInv
  <2>3. ASSUME NEW i \in 1 .. Len(stream'), NEW k \in born' + 1 .. i - 1,
               Covered(i)', IsMessage(i)', KeyOf(k, i)'
        PROVE  i \in run'.read
    <3>1. Covered(i) /\ i \in 1 .. Len(stream) /\ k \in 1 .. Len(stream)
      BY <1>1, <1>2, <2>1, <2>3
    <3>2. IsMessage(i) /\ KeyOf(k, i)
      BY <1>1, <2>3, <3>1 DEF IsMessage, KeyOf
    <3> QED
      BY <3>1, <3>2 DEF ReadInv
  <2> QED
    BY <2>2, <2>3 DEF ReadInv
<1> QED
  BY <1>1, <1>3, <1>4, <1>5, <1>6

\* SentInv is kept by a step that sends nothing and leaves the sessions alone.
LEMMA SentKept ==
  ASSUME SentInv, UNCHANGED sent, ended'.lost = ended.lost, ended'.unsaved = ended.unsaved,
         storage'.outbound_group_session = storage.outbound_group_session,
         db'.outbound_group_session = db.outbound_group_session,
         sync'.state = "down" => sync.state = "down"
  PROVE  SentInv'
<1>1. OwnIds' = OwnIds
  BY DEF OwnIds
<1>2. IndexOnce'
  BY DEF SentInv, IndexOnce
<1>3. /\ Past(storage.outbound_group_session)' <=> Past(storage.outbound_group_session)
      /\ Past(db.outbound_group_session)' <=> Past(db.outbound_group_session)
  BY DEF Past
<1> QED
  BY <1>1, <1>2, <1>3 DEF SentInv

\* ReadInv and AnswerInv are kept by a step of the other requests.
LEMMA ReadKept ==
  ASSUME AnswerInv, ReadInv, UNCHANGED <<stream, sync, todo, next_batch, born, run>>,
         storage'.inbound_group_sessions = storage.inbound_group_sessions
  PROVE  AnswerInv' /\ ReadInv'
<1>1. AnswerInv'
  BY DEF AnswerInv, AnswersOnce
<1>2. ReadInv'
  BY DEF ReadInv, Covered, IsMessage, KeyOf
<1> QED
  BY <1>1, <1>2

-----------------------------------------------------------------------------
(* The invariant.                                                           *)

\* The stream starts with the members' events.
LEMMA BotInit == Init => BotInv
<1> SUFFICES ASSUME Init PROVE BotInv
  OBVIOUS
<1>1. Cardinality(Users) \in Nat /\ \A i \in 1 .. Cardinality(Users) : SetToSeq(Users)[i] \in Users
  <2>1. \E f \in [1 .. Cardinality(Users) -> Users] : IsInjective(f)
    BY FS_CardinalityType, CryptoBotAssumption
    DEF ExistsBijection, Bijection, Injection, Surjection, IsInjective
  <2>2. SetToSeq(Users) \in [1 .. Cardinality(Users) -> Users]
    BY <2>1 DEF SetToSeq
  <2> QED
    BY <2>2, FS_CardinalityType, CryptoBotAssumption
<1>2. stream \in Seq(Item) /\ Len(stream) \in Nat
  <2>1. \A u \in Users : Member(u) \in Item
    BY DEF Member, Item
  <2>2. stream \in [1 .. Cardinality(Users) -> Item]
    BY <1>1, <2>1 DEF Init
  <2> QED
    BY <1>1, <2>2
<1>3. peer \in [Others -> Session]
  BY DEF Init, Others, init_outbound_group_session, Session, Id
<1>4. /\ sync = [state |-> "login", since |-> 0] /\ todo = {} /\ next_batch = 0 /\ born = 0
      /\ storage = EmptyStorage /\ db = EmptyStorage /\ requests = {} /\ run = Fresh
      /\ sent = <<>> /\ keys = {}
      /\ ended = [runs |-> 1, errors |-> 0, puts |-> 0, unsaved |-> FALSE, lost |-> FALSE]
  BY DEF Init
<1>5. TypeOK
  <2>1. sync \in [state : Live \cup {"idle", "stopped", "down"}, since : 0 .. Len(stream)]
    BY <1>2, <1>4 DEF Live
  <2>2. ended \in Tally
    BY <1>4 DEF Tally
  <2>3. storage \in Storage /\ db \in Storage /\ run \in Run
    BY <1>4, Types
  <2> QED
    BY <1>2, <1>3, <1>4, <2>1, <2>2, <2>3 DEF TypeOK, Run, Tally
<1>6. KeysFromStart
  BY <1>4 DEF KeysFromStart
<1>7. SentInv
  <2>1. storage.outbound_group_session = NoSession /\ db.outbound_group_session = NoSession
    BY <1>4 DEF EmptyStorage
  <2>2. IndexOnce /\ Past(NoSession)
    BY <1>4 DEF IndexOnce, Past
  <2>3. \A i \in DOMAIN sent : sent[i].id \in OwnIds
    BY <1>4
  <2>4. ~ended.unsaved
    BY <1>4
  <2> QED
    BY <2>1, <2>2, <2>3, <2>4 DEF SentInv
<1>8. TokenInv
  BY <1>4 DEF TokenInv
<1>9. run.answered = <<>>
  BY <1>4 DEF Fresh
<1>10. AnswerInv
  BY <1>9 DEF AnswerInv, AnswersOnce
<1>11. ReadInv
  BY <1>2, <1>4 DEF ReadInv, Covered
<1> QED
  BY <1>5, <1>6, <1>7, <1>8, <1>10, <1>11 DEF BotInv

\* handle_item: the one step that reads and answers.
LEMMA HandleItemInv == BotInv /\ handle_item => BotInv'
<1> SUFFICES ASSUME BotInv, handle_item PROVE BotInv'
  OBVIOUS
<1> USE DEF BotInv
<1>1. PICK at \in todo :
        /\ \A i \in todo \ {at} : parse_messages(at, i)
        /\ IF throws(State, at)
           THEN /\ sync' = [sync EXCEPT !.state = "stopped"] /\ todo' = {}
                /\ UNCHANGED <<storage, requests, run, sent, ended>>
           ELSE LET st == handled(State, at)
                IN  /\ storage' = st.storage /\ requests' = st.requests
                    /\ run' = st.run /\ sent' = st.sent
                    /\ todo' = todo \ {at} /\ UNCHANGED sync
                    /\ ended' = [ended EXCEPT !.unsaved = @ \/ st.sent # sent]
  BY DEF handle_item
<1>2. sync.state = "handling" /\ UNCHANGED <<stream, peer, keys, next_batch, born, db>>
  BY DEF handle_item, server
<1>3. /\ Len(stream) \in Nat /\ sync.since \in 0 .. Len(stream) /\ next_batch \in Nat /\ born \in Nat
      /\ at \in 1 .. Len(stream) /\ next_batch < at /\ at <= sync.since
  BY <1>1 DEF TypeOK
<1>4. CASE throws(State, at)
  <2>1. /\ sync' = [sync EXCEPT !.state = "stopped"] /\ todo' = {}
        /\ UNCHANGED <<storage, requests, run, sent, ended>>
    BY <1>1, <1>4
  <2>2. /\ sync' \in [state : Live \cup {"idle", "stopped", "down"}, since : 0 .. Len(stream)]
        /\ sync'.state = "stopped" /\ sync'.since = sync.since
    BY <2>1 DEF TypeOK
  <2>3. TypeOK'
    BY <1>2, <2>1, <2>2 DEF TypeOK
  <2>4. KeysFromStart'
    BY <1>2, <2>1 DEF KeysFromStart
  <2>5. SentInv'
    BY <1>2, <2>1, <2>2, SentKept
  <2>6. TokenInv'
    BY <1>2, <2>1, <2>2 DEF TokenInv
  <2>7. AnswerInv'
    BY <1>2, <2>1, <2>2 DEF AnswerInv, AnswersOnce
  <2>8. ReadInv'
    BY <1>2, <2>1, <2>2 DEF ReadInv, Covered, IsMessage, KeyOf
  <2> QED
    BY <2>3, <2>4, <2>5, <2>6, <2>7, <2>8
<1>5. CASE ~throws(State, at)
  <2> DEFINE st == handled(State, at)
  <2>1. /\ storage' = st.storage /\ requests' = st.requests /\ run' = st.run /\ sent' = st.sent
        /\ todo' = todo \ {at} /\ UNCHANGED sync
        /\ ended' = [ended EXCEPT !.unsaved = @ \/ st.sent # sent]
    BY <1>1, <1>5
  <2>2. /\ State \in States /\ Extends(State, st)
        /\ \/ Silent(State, st)
           \/ Replied(State, st, at) /\ IsMessage(at) /\ stream[at].sender # Bot
        /\ stream[at].kind = "room_key" /\ stream[at].type = 0
             => \E s \in st.storage.inbound_group_sessions : s.id = stream[at].key.id
        /\ IsMessage(at) /\ (\E s \in storage.inbound_group_sessions : s.id = stream[at].ciphertext.id)
             => at \in st.run.read
    BY <1>3, HandledFacts
  <2> HIDE DEF st
  <2>3. /\ State.storage = storage /\ State.requests = requests
        /\ State.run = run /\ State.sent = sent
    BY DEF State
  <2>4. /\ storage' \in Storage /\ requests' \subseteq Request /\ run' \in Run /\ sent' \in Seq(Session)
        /\ storage.inbound_group_sessions \subseteq storage'.inbound_group_sessions
        /\ run.read \subseteq run'.read
        /\ \A r \in requests' \ requests : r.kind = "claim" => r.key.index = 0
    BY <2>1, <2>2, <2>3 DEF Extends, States
  <2>5. \/ /\ UNCHANGED sent /\ storage'.outbound_group_session = storage.outbound_group_session
           /\ run'.answered = run.answered
        \/ /\ Replied(State, st, at) /\ IsMessage(at) /\ stream[at].sender # Bot
    BY <2>1, <2>2, <2>3 DEF Silent
  <2>6. /\ ended' \in Tally /\ ended'.lost = ended.lost
        /\ ended'.unsaved <=> (ended.unsaved \/ sent' # sent)
    <3>1. ended \in Tally
      BY DEF TypeOK, Tally
    <3> QED
      BY <2>1, <3>1 DEF Tally
  <2>7. TypeOK'
    <3>1. todo' \subseteq next_batch' + 1 .. sync'.since
      BY <1>2, <2>1 DEF TypeOK
    <3> QED
      BY <1>2, <2>1, <2>4, <2>6, <3>1 DEF TypeOK, Run, Tally
  <2>8. KeysFromStart'
    BY <1>2, <2>4 DEF KeysFromStart
  <2>9. TokenInv'
    BY <1>2, <2>1 DEF TokenInv
  <2>10. ReadInv'
    <3>1. \A i \in 1 .. Len(stream) : Covered(i)' => Covered(i) \/ i = at
      BY <1>2, <2>1 DEF Covered
    <3>2. ASSUME NEW k \in born' + 1 .. Len(stream'), Covered(k)', stream'[k].kind = "room_key", stream'[k].type = 0
          PROVE  \E s \in storage'.inbound_group_sessions : s.id = stream'[k].key.id
      <4>1. k \in born + 1 .. Len(stream) /\ k \in 1 .. Len(stream)
        BY <1>2, <1>3, <3>2
      <4>2. CASE k = at
        BY <1>2, <2>1, <2>2, <3>2, <4>2
      <4>3. CASE Covered(k)
        BY <1>2, <2>4, <3>2, <4>1, <4>3 DEF ReadInv
      <4> QED
        BY <3>1, <3>2, <4>1, <4>2, <4>3
    <3>3. ASSUME NEW i \in 1 .. Len(stream'), NEW k \in born' + 1 .. i - 1,
                 Covered(i)', IsMessage(i)', KeyOf(k, i)'
          PROVE  i \in run'.read
      <4>1. /\ i \in 1 .. Len(stream) /\ k \in born + 1 .. i - 1 /\ k \in born + 1 .. Len(stream)
            /\ k \in Nat /\ i \in Nat /\ k < i
            /\ IsMessage(i) /\ KeyOf(k, i)
        BY <1>2, <1>3, <3>3 DEF IsMessage, KeyOf
      <4>2. CASE Covered(i)
        BY <2>4, <4>1, <4>2 DEF ReadInv
      <4>3. CASE i = at
        <5>1. ~to_device(at) /\ to_device(k)
          BY <4>1, <4>3 DEF IsMessage, KeyOf, to_device, ToDevice
        <5>2. k \notin todo
          BY <1>1, <4>1, <4>3, <5>1 DEF parse_messages
        <5>3. Covered(k)
          BY <1>2, <1>3, <4>1, <4>3, <5>2 DEF Covered
        <5>4. \E s \in storage.inbound_group_sessions : s.id = stream[at].ciphertext.id
          BY <4>1, <4>3, <5>3 DEF ReadInv, KeyOf
        <5> QED
          BY <2>1, <2>2, <4>1, <4>3, <5>4
      <4> QED
        BY <3>1, <3>3, <4>1, <4>2, <4>3
    <3> QED
      BY <3>2, <3>3 DEF ReadInv
  <2>11. CASE /\ UNCHANGED sent /\ storage'.outbound_group_session = storage.outbound_group_session
              /\ run'.answered = run.answered
    <3>1. ended'.unsaved = ended.unsaved
      BY <2>6, <2>11 DEF TypeOK, Tally
    <3>2. SentInv'
      BY <1>2, <2>1, <2>6, <2>11, <3>1, SentKept
    <3>3. AnswerInv'
      BY <1>2, <2>1, <2>11 DEF AnswerInv, AnswersOnce
    <3> QED
      BY <2>7, <2>8, <2>9, <2>10, <3>2, <3>3
  <2>12. CASE Replied(State, st, at) /\ IsMessage(at) /\ stream[at].sender # Bot
    <3>1. PICK s \in Session :
            /\ sent' = Append(sent, s)
            /\ storage'.outbound_group_session = [id |-> s.id, index |-> s.index + 1]
            /\ \/ s = storage.outbound_group_session /\ s # NoSession
               \/ s = [id |-> <<BotDevice, Len(sent) + 1>>, index |-> 0]
            /\ run'.answered = Append(run.answered, at)
      BY <2>1, <2>3, <2>12 DEF Replied
    <3>2. /\ sent \in Seq(Session) /\ Len(sent) \in Nat /\ Len(sent') = Len(sent) + 1
          /\ DOMAIN sent = 1 .. Len(sent) /\ DOMAIN sent' = 1 .. Len(sent) + 1
          /\ \A i \in 1 .. Len(sent) : sent'[i] = sent[i]
          /\ sent'[Len(sent) + 1] = s
          /\ s.index \in Nat
      BY <3>1 DEF TypeOK, Session
    <3>3. sent' # sent /\ ended'.unsaved
      BY <2>6, <3>2
    <3>4. OwnIds \subseteq OwnIds' /\ s.id \in OwnIds'
      <4>1. OwnIds \subseteq OwnIds' /\ <<BotDevice, Len(sent) + 1>> \in OwnIds'
        BY <3>2 DEF OwnIds
      <4>2. CASE s = storage.outbound_group_session /\ s # NoSession
        <5>1. storage.outbound_group_session = NoSession \/ storage.outbound_group_session.id \in OwnIds
          BY DEF SentInv
        <5> QED
          BY <4>1, <4>2, <5>1
      <4>3. CASE s = [id |-> <<BotDevice, Len(sent) + 1>>, index |-> 0]
        BY <4>1, <4>3
      <4> QED
        BY <3>1, <4>2, <4>3
    <3>5. ended.lost \/ \A i \in DOMAIN sent : sent[i].id = s.id => sent[i].index < s.index
      <4>1. CASE s = storage.outbound_group_session
        BY <4>1 DEF SentInv, Past
      <4>2. CASE s = [id |-> <<BotDevice, Len(sent) + 1>>, index |-> 0]
        <5>1. <<BotDevice, Len(sent) + 1>> \notin OwnIds
          BY <3>2 DEF OwnIds
        <5> QED
          BY <4>2, <5>1 DEF SentInv
      <4> QED
        BY <3>1, <4>1, <4>2
    <3>6. \A i \in DOMAIN sent : sent[i] \in Session /\ sent[i].index \in Nat
      <4>1. \A i \in DOMAIN sent : sent[i] \in Session
        BY <3>2
      <4>2. \A x \in Session : x.index \in Nat
        BY DEF Session
      <4> QED
        BY <4>1, <4>2
    <3>7. SentInv'
      <4>1. \A i \in DOMAIN sent' : sent'[i].id \in OwnIds'
        BY <3>2, <3>4 DEF SentInv
      <4>2. storage'.outbound_group_session.id \in OwnIds'
        BY <3>1, <3>4
      <4>3. db'.outbound_group_session = NoSession \/ db'.outbound_group_session.id \in OwnIds'
        BY <1>2, <3>4 DEF SentInv
      <4>4. IndexOnce'
        <5> SUFFICES ASSUME ~ended.lost, NEW i \in DOMAIN sent', NEW j \in DOMAIN sent',
                            sent'[i] = sent'[j], i # j
                     PROVE  FALSE
          BY <2>6 DEF IndexOnce
        <5>1. CASE i \in DOMAIN sent /\ j \in DOMAIN sent
          BY <3>2, <5>1 DEF SentInv, IndexOnce
        <5>2. CASE i \in DOMAIN sent /\ j = Len(sent) + 1
          BY <3>2, <3>5, <3>6, <5>2
        <5>3. CASE j \in DOMAIN sent /\ i = Len(sent) + 1
          BY <3>2, <3>5, <3>6, <5>3
        <5> QED
          BY <3>2, <5>1, <5>2, <5>3
      <4>5. ended'.lost \/ Past(storage.outbound_group_session)'
        <5> SUFFICES ASSUME ~ended.lost, NEW i \in DOMAIN sent', sent'[i].id = s.id
                     PROVE  sent'[i].index < s.index + 1
          BY <2>6, <3>1 DEF Past
        <5>1. CASE i \in DOMAIN sent
          BY <3>2, <3>5, <3>6, <5>1
        <5>2. CASE i = Len(sent) + 1
          BY <3>2, <5>2
        <5> QED
          BY <3>2, <5>1, <5>2
      <4>6. sync'.state # "down"
        BY <1>2, <2>1
      <4> QED
        BY <3>3, <4>1, <4>2, <4>3, <4>4, <4>5, <4>6 DEF SentInv
    <3>8. AnswerInv'
      <4> DEFINE n == Len(run.answered)
      <4>1. /\ n \in Nat /\ DOMAIN run.answered = 1 .. n /\ DOMAIN run'.answered = 1 .. n + 1
            /\ \A i \in 1 .. n : run'.answered[i] = run.answered[i]
            /\ run'.answered[n + 1] = at
        BY <1>3, <3>1 DEF TypeOK
      <4>2. \A i \in 1 .. n : run.answered[i] \in (1 .. sync.since) \ todo /\ run.answered[i] # at
        BY <1>1, <4>1 DEF AnswerInv
      <4> HIDE DEF n
      <4>3. \A i \in DOMAIN run'.answered : run'.answered[i] \in (1 .. sync'.since) \ todo'
        <5>1. at \in (1 .. sync.since) \ todo'
          BY <1>3, <2>1
        <5>2. \A i \in 1 .. n : run'.answered[i] \in (1 .. sync.since) \ todo'
          BY <2>1, <4>1, <4>2
        <5>3. \A i \in 1 .. n + 1 : i \in 1 .. n \/ i = n + 1
          BY <4>1
        <5> QED
          BY <2>1, <4>1, <5>1, <5>2, <5>3
      <4>4. \A i \in DOMAIN run'.answered : stream'[run'.answered[i]].sender # Bot
        BY <1>2, <2>12, <4>1 DEF AnswerInv, AnswersOnce
      <4>5. \A i, j \in DOMAIN run'.answered : run'.answered[i] = run'.answered[j] => i = j
        BY <4>1, <4>2 DEF AnswerInv, AnswersOnce
      <4> QED
        BY <4>3, <4>4, <4>5 DEF AnswerInv, AnswersOnce, Bot
    <3> QED
      BY <2>7, <2>8, <2>9, <2>10, <3>7, <3>8
  <2> QED
    BY <2>5, <2>11, <2>12
<1> QED
  BY <1>4, <1>5

\* Every step of the bot, the server and the others keeps the invariant.
LEMMA BotNext == BotInv /\ [Next]_vars => BotInv'
<1> SUFFICES ASSUME BotInv, [Next]_vars PROVE BotInv'
  OBVIOUS
<1> USE DEF BotInv
<1>t. /\ stream \in Seq(Item) /\ Len(stream) \in Nat /\ next_batch \in Nat /\ born \in Nat
      /\ sync.since \in 0 .. Len(stream) /\ next_batch <= sync.since
      /\ sync \in [state : Live \cup {"idle", "stopped", "down"}, since : 0 .. Len(stream)]
      /\ ended \in Tally /\ storage \in Storage /\ db \in Storage /\ run \in Run
  BY DEF TypeOK, TokenInv, Run, Tally
<1>1. ASSUME NEW ok \in BOOLEAN, login_cb(ok)
      PROVE  BotInv'
  <2>1. /\ sync.state = "login" /\ sync' = [state |-> IF ok THEN "initial" ELSE "idle", since |-> 0]
        /\ ended' = ended \/ ended' = [ended EXCEPT !.errors = @ + 1]
        /\ UNCHANGED <<stream, peer, keys, todo, next_batch, born, storage, requests, run, sent, db>>
    BY <1>1 DEF login_cb, server
  <2>2. ended' \in Tally /\ ended'.unsaved = ended.unsaved /\ ended'.lost = ended.lost
    BY <1>t, <2>1, TallyFacts
  <2>3. sync'.since = 0 /\ sync.since = 0 /\ next_batch = 0 /\ todo = {} /\ sync'.state \in {"initial", "idle"}
    BY <1>t, <2>1 DEF TokenInv
  <2>4. TypeOK'
    <3>1. sync' \in [state : Live \cup {"idle", "stopped", "down"}, since : 0 .. Len(stream)]
      BY <1>t, <2>1 DEF Live
    <3> QED
      BY <2>1, <2>2, <2>3, <3>1 DEF TypeOK, Tally
  <2>5. KeysFromStart' /\ TokenInv'
    BY <2>1, <2>3 DEF KeysFromStart, TokenInv
  <2>6. SentInv'
    BY <2>1, <2>2, <2>3, SentKept
  <2>7. AnswerInv'
    BY <2>1, <2>3 DEF AnswerInv, AnswersOnce
  <2>8. ReadInv'
    BY <1>t, <2>1, <2>3 DEF ReadInv, Covered
  <2> QED
    BY <2>4, <2>5, <2>6, <2>7, <2>8
<1>2. CASE sync_response
  <2>1. /\ sync.state \in {"initial", "normal"}
        /\ todo' = items(sync.since, Len(stream))
        /\ sync' = [state |-> "handling", since |-> Len(stream)]
        /\ UNCHANGED <<stream, peer, keys, next_batch, born, storage, requests, run, sent, db, ended>>
    BY <1>2 DEF sync_response, server
  <2>2. sync.since = next_batch /\ sync'.state = "handling" /\ sync'.since = Len(stream)
    BY <2>1 DEF TokenInv
  <2>3. /\ todo' \subseteq next_batch + 1 .. Len(stream)
        /\ \A i \in next_batch + 1 .. Len(stream) : i \notin todo' => to_device(i) /\ i <= born
    BY <1>t, <2>1, <2>2 DEF items
  <2>4. TypeOK'
    <3>1. sync' \in [state : Live \cup {"idle", "stopped", "down"}, since : 0 .. Len(stream)]
      BY <1>t, <2>1 DEF Live
    <3> QED
      BY <2>1, <2>2, <2>3, <3>1 DEF TypeOK
  <2>5. KeysFromStart' /\ TokenInv'
    BY <1>t, <2>1, <2>2 DEF KeysFromStart, TokenInv
  <2>6. SentInv'
    BY <2>1, <2>2, SentKept
  <2>7. AnswerInv'
    <3>1. \A i \in DOMAIN run.answered : run.answered[i] \in (1 .. Len(stream)) \ todo'
      BY <1>t, <2>2, <2>3 DEF AnswerInv
    <3> QED
      BY <2>1, <2>2, <3>1 DEF AnswerInv, AnswersOnce
  <2>8. ReadInv'
    <3>1. \A i \in 1 .. Len(stream) : Covered(i)' => Covered(i) \/ (to_device(i) /\ i <= born)
      BY <1>t, <2>1, <2>2, <2>3 DEF Covered
    <3>2. ASSUME NEW k \in born + 1 .. Len(stream), Covered(k)', stream[k].kind = "room_key", stream[k].type = 0
          PROVE  \E s \in storage.inbound_group_sessions : s.id = stream[k].key.id
      BY <1>t, <3>1, <3>2 DEF ReadInv
    <3>3. ASSUME NEW i \in 1 .. Len(stream), NEW k \in born + 1 .. i - 1,
                 Covered(i)', IsMessage(i), KeyOf(k, i)
          PROVE  i \in run.read
      <4>1. ~to_device(i)
        BY <3>3 DEF IsMessage, to_device, ToDevice
      <4> QED
        BY <3>1, <3>3, <4>1 DEF ReadInv
    <3> QED
      BY <2>1, <3>2, <3>3 DEF ReadInv, IsMessage, KeyOf
  <2> QED
    BY <2>4, <2>5, <2>6, <2>7, <2>8
<1>3. CASE handle_item
  BY <1>3, HandleItemInv
<1>4. CASE sync_on
  <2>1. /\ sync.state = "handling" /\ todo = {} /\ next_batch' = sync.since
        /\ sync' = [sync EXCEPT !.state = "normal"]
        /\ UNCHANGED <<stream, peer, keys, todo, born, storage, requests, run, sent, db, ended>>
    BY <1>4 DEF sync_on, set_next_batch_token, server
  <2>2. /\ sync'.state = "normal" /\ sync'.since = sync.since
        /\ sync' \in [state : Live \cup {"idle", "stopped", "down"}, since : 0 .. Len(stream)]
    BY <1>t, <2>1 DEF Live
  <2>3. TypeOK'
    BY <1>t, <2>1, <2>2 DEF TypeOK
  <2>4. KeysFromStart' /\ TokenInv'
    BY <1>t, <2>1, <2>2 DEF KeysFromStart, TokenInv
  <2>5. SentInv'
    BY <2>1, <2>2, SentKept
  <2>6. AnswerInv'
    BY <2>1, <2>2 DEF AnswerInv, AnswersOnce
  <2>7. ReadInv'
    <3>1. \A i \in 1 .. Len(stream) : Covered(i)' => Covered(i)
      BY <1>t, <2>1, <2>2 DEF Covered
    <3>2. \A k \in born + 1 .. Len(stream) : k \in 1 .. Len(stream)
      BY <1>t
    <3> QED
      BY <2>1, <3>1, <3>2 DEF ReadInv, IsMessage, KeyOf
  <2> QED
    BY <2>3, <2>4, <2>5, <2>6, <2>7
<1>5. CASE sync_error
  <2>1. /\ sync.state \in {"initial", "normal"}
        /\ \/ sync.state = "normal" /\ sync' = [sync EXCEPT !.since = next_batch]
           \/ sync' = [sync EXCEPT !.state = "stopped"]
           \/ sync' = sync
        /\ ended' = [ended EXCEPT !.errors = @ + 1]
        /\ UNCHANGED <<stream, peer, keys, todo, next_batch, born, storage, requests, run, sent, db>>
    BY <1>5 DEF sync_error, sync_again, server
  <2>2. ended' \in Tally /\ ended'.unsaved = ended.unsaved /\ ended'.lost = ended.lost
    BY <1>t, <2>1, TallyFacts
  <2>3. sync.since = next_batch /\ todo = {}
    BY <2>1 DEF TokenInv
  <2>4. /\ sync'.since = sync.since /\ sync'.state \in {"initial", "normal", "stopped"}
        /\ sync' \in [state : Live \cup {"idle", "stopped", "down"}, since : 0 .. Len(stream)]
    BY <1>t, <2>1, <2>3
  <2>5. TypeOK'
    BY <2>1, <2>2, <2>3, <2>4 DEF TypeOK, Tally
  <2>6. KeysFromStart' /\ TokenInv'
    BY <1>t, <2>1, <2>3, <2>4 DEF KeysFromStart, TokenInv
  <2>7. SentInv'
    BY <2>1, <2>2, <2>4, SentKept
  <2>8. AnswerInv'
    BY <2>1, <2>4 DEF AnswerInv, AnswersOnce
  <2>9. ReadInv'
    BY <2>1, <2>4 DEF ReadInv, Covered, IsMessage, KeyOf
  <2> QED
    BY <2>5, <2>6, <2>7, <2>8, <2>9
<1>6. ASSUME NEW r \in requests, request_fails(r)
      PROVE  BotInv'
  <2>1. /\ requests' = requests \ {r} /\ ended' = [ended EXCEPT !.errors = @ + 1]
        /\ UNCHANGED <<stream, peer, keys, sync, todo, next_batch, born, storage, run, sent, db>>
    BY <1>6 DEF request_fails, Done, server
  <2>2. ended' \in Tally /\ ended'.unsaved = ended.unsaved /\ ended'.lost = ended.lost
    BY <1>t, <2>1, TallyFacts
  <2>3. TypeOK'
    BY <2>1, <2>2 DEF TypeOK, Tally
  <2>4. KeysFromStart' /\ TokenInv'
    BY <2>1 DEF KeysFromStart, TokenInv
  <2>5. SentInv' /\ AnswerInv' /\ ReadInv'
    BY <2>1, <2>2, SentKept, ReadKept
  <2> QED
    BY <2>3, <2>4, <2>5
<1>7. ASSUME NEW r \in requests, save_device_keys(r)
      PROVE  BotInv'
  <2> DEFINE lists == storage.devices
             new == [u \in DOMAIN lists \cup {r.user} |->
                       IF u \in DOMAIN lists THEN lists[u] ELSE {d \in Devices : Owner[d] = u}]
  <2>1. /\ r.kind = "query" /\ requests' = requests \ {r}
        /\ storage' = [storage EXCEPT !.devices = new]
        /\ UNCHANGED <<stream, peer, keys, sync, todo, next_batch, born, run, sent, db, ended>>
    BY <1>7 DEF save_device_keys, Done, server
  <2>2. new \in UNION {[S -> SUBSET Devices] : S \in SUBSET Users}
    <3>1. r.user \in Users
      BY <2>1, RequestFacts DEF TypeOK
    <3>2. PICK S \in SUBSET Users : lists \in [S -> SUBSET Devices]
      BY <1>t DEF Storage
    <3>3. new \in [S \cup {r.user} -> SUBSET Devices]
      BY <3>2
    <3>4. S \cup {r.user} \in SUBSET Users
      BY <3>1, <3>2
    <3> HIDE DEF new
    <3> QED
      BY <3>3, <3>4
  <2> HIDE DEF new
  <2>3. /\ storage' \in Storage
        /\ storage'.inbound_group_sessions = storage.inbound_group_sessions
        /\ storage'.outbound_group_session = storage.outbound_group_session
    BY <1>t, <2>1, <2>2 DEF Storage
  <2>4. TypeOK'
    BY <2>1, <2>3 DEF TypeOK
  <2>5. KeysFromStart' /\ TokenInv'
    BY <2>1 DEF KeysFromStart, TokenInv
  <2>6. SentInv' /\ AnswerInv' /\ ReadInv'
    BY <2>1, <2>3, SentKept, ReadKept
  <2> QED
    BY <2>4, <2>5, <2>6
<1>8. ASSUME NEW r \in requests, claimed(r)
      PROVE  BotInv'
  <2> DEFINE q == [r EXCEPT !.kind = "to_device"]
             new == storage.olm_outbound_sessions \cup {r.device}
  <2>1. /\ r.kind = "claim" /\ requests' \subseteq requests \cup {q}
        /\ storage' = [storage EXCEPT !.olm_outbound_sessions = new]
        /\ keys' = keys \cup {r.key}
        /\ UNCHANGED <<stream, peer, sync, todo, next_batch, born, run, sent, db, ended>>
    BY <1>8 DEF claimed
  <2>2. /\ q \in Request /\ q.kind = "to_device" /\ r.device \in Devices /\ r.key \in Session
        /\ new \in SUBSET Devices
    BY <1>t, <2>1, RequestFacts DEF TypeOK, Storage
  <2> HIDE DEF q, new
  <2>3. /\ storage' \in Storage
        /\ storage'.inbound_group_sessions = storage.inbound_group_sessions
        /\ storage'.outbound_group_session = storage.outbound_group_session
    BY <1>t, <2>1, <2>2 DEF Storage
  <2>4. TypeOK'
    BY <2>1, <2>2, <2>3 DEF TypeOK
  <2>5. KeysFromStart' /\ TokenInv'
    BY <2>1, <2>2 DEF KeysFromStart, TokenInv
  <2>6. SentInv' /\ AnswerInv' /\ ReadInv'
    BY <2>1, <2>3, SentKept, ReadKept
  <2> QED
    BY <2>4, <2>5, <2>6
<1>9. ASSUME NEW r \in requests, delivered(r)
      PROVE  BotInv'
  <2> DEFINE item == IF r.kind = "send" THEN Encrypted(Bot, r.ciphertext, TRUE) ELSE RoomKey(r.key, 0)
  <2>1. /\ r.kind \in {"to_device", "send"} /\ requests' = requests \ {r}
        /\ stream' = Append(stream, item) /\ sync.state # "handling"
        /\ UNCHANGED <<peer, keys, sync, todo, next_batch, born, storage, run, sent, db, ended>>
    BY <1>9 DEF delivered, Done, LoopFree
  <2>2. item \in Item
    <3>1. r \in Request
      BY DEF TypeOK
    <3>2. CASE r.kind = "send"
      BY <3>1, <3>2, RequestFacts, Types DEF Item, Encrypted
    <3>3. CASE r.kind = "to_device"
      BY <3>1, <3>3, RequestFacts DEF Item, RoomKey
    <3> QED
      BY <2>1, <3>2, <3>3
  <2> HIDE DEF item
  <2>3. /\ stream' \in Seq(Item) /\ sync' \in [state : Live \cup {"idle", "stopped", "down"}, since : 0 .. Len(stream')]
        /\ TokenInv' /\ AnswerInv' /\ ReadInv'
    BY <2>1, <2>2, StreamGrows
  <2>4. TypeOK'
    BY <2>1, <2>3 DEF TypeOK
  <2>5. KeysFromStart'
    BY <2>1 DEF KeysFromStart
  <2>6. SentInv'
    BY <2>1, SentKept
  <2> QED
    BY <2>3, <2>4, <2>5, <2>6
<1>10. CASE save
  <2>1. /\ db' = storage /\ ended' = [ended EXCEPT !.unsaved = FALSE]
        /\ UNCHANGED <<stream, peer, keys, sync, todo, next_batch, born, storage, requests, run, sent>>
    BY <1>10 DEF save, server
  <2>2. ended' \in Tally /\ ended'.lost = ended.lost /\ ~ended'.unsaved
    BY <1>t, <2>1, TallyFacts
  <2>3. TypeOK'
    BY <2>1, <2>2 DEF TypeOK, Tally
  <2>4. KeysFromStart' /\ TokenInv'
    BY <2>1 DEF KeysFromStart, TokenInv
  <2>5. AnswerInv' /\ ReadInv'
    BY <2>1, ReadKept
  <2>6. SentInv'
    <3>1. OwnIds' = OwnIds /\ (IndexOnce <=> IndexOnce')
      BY <2>1, <2>2 DEF OwnIds, IndexOnce
    <3>2. /\ Past(storage.outbound_group_session)' <=> Past(storage.outbound_group_session)
          /\ Past(db.outbound_group_session)' <=> Past(storage.outbound_group_session)
      BY <2>1 DEF Past
    <3> QED
      BY <2>1, <2>2, <3>1, <3>2 DEF SentInv
  <2> QED
    BY <2>3, <2>4, <2>5, <2>6
<1>11. CASE stop
  <2>1. /\ sync' = [state |-> "down", since |-> 0] /\ requests' = {} /\ storage' = EmptyStorage
        /\ run' = Fresh /\ todo' = {} /\ next_batch' = 0
        /\ ended' = [ended EXCEPT !.lost = @ \/ ended.unsaved, !.unsaved = FALSE]
        /\ UNCHANGED <<stream, peer, keys, born, sent, db>>
    BY <1>11 DEF stop, server
  <2>2. ended' \in Tally /\ (ended'.lost <=> (ended.lost \/ ended.unsaved)) /\ ~ended'.unsaved
    BY <1>t, <2>1 DEF Tally
  <2>3. sync' \in [state : Live \cup {"idle", "stopped", "down"}, since : 0 .. Len(stream)]
    BY <1>t, <2>1
  <2>4. TypeOK'
    BY <2>1, <2>2, <2>3, Types DEF TypeOK, Tally, Run
  <2>5. KeysFromStart' /\ TokenInv'
    BY <2>1 DEF KeysFromStart, TokenInv
  <2>6. SentInv'
    <3>1. OwnIds' = OwnIds
      BY <2>1 DEF OwnIds
    <3>2. storage'.outbound_group_session = NoSession /\ NoSession.id = <<>>
      BY <2>1 DEF EmptyStorage, NoSession
    <3>3. \A i \in DOMAIN sent : sent[i].id # <<>>
      <4>1. \A x \in OwnIds : x # <<>>
        BY DEF OwnIds
      <4> QED
        BY <4>1 DEF SentInv
    <3>4. Past(storage.outbound_group_session)'
      BY <2>1, <3>2, <3>3 DEF Past
    <3>5. Past(db.outbound_group_session)' <=> Past(db.outbound_group_session)
      BY <2>1 DEF Past
    <3>6. IndexOnce'
      BY <2>1, <2>2 DEF SentInv, IndexOnce
    <3> QED
      BY <2>1, <2>2, <3>1, <3>2, <3>4, <3>5, <3>6 DEF SentInv
  <2>7. run'.answered = <<>>
    BY <2>1 DEF Fresh
  <2>8. AnswerInv'
    BY <2>7 DEF AnswerInv, AnswersOnce
  <2>9. ReadInv'
    BY <1>t, <2>1 DEF ReadInv, Covered
  <2> QED
    BY <2>4, <2>5, <2>6, <2>8, <2>9
<1>12. CASE start
  <2>1. /\ sync.state = "down" /\ sync' = [state |-> "login", since |-> 0]
        /\ born' = Len(stream) /\ storage' = db /\ ended' = [ended EXCEPT !.runs = @ + 1]
        /\ UNCHANGED <<stream, peer, keys, todo, next_batch, requests, run, sent, db>>
    BY <1>12 DEF start, server
  <2>2. ended' \in Tally /\ ended'.unsaved = ended.unsaved /\ ended'.lost = ended.lost
    BY <1>t, <2>1, TallyFacts
  <2>3. sync.since = 0 /\ next_batch = 0 /\ todo = {} /\ ~ended.unsaved
    BY <1>t, <2>1 DEF TokenInv, SentInv
  <2>4. sync' \in [state : Live \cup {"idle", "stopped", "down"}, since : 0 .. Len(stream)]
    BY <1>t, <2>1 DEF Live
  <2>5. TypeOK'
    BY <1>t, <2>1, <2>2, <2>3, <2>4 DEF TypeOK, Tally
  <2>6. KeysFromStart' /\ TokenInv'
    BY <2>1, <2>3 DEF KeysFromStart, TokenInv
  <2>7. SentInv'
    <3>1. OwnIds' = OwnIds
      BY <2>1 DEF OwnIds
    <3>2. /\ Past(storage.outbound_group_session)' <=> Past(db.outbound_group_session)
          /\ Past(db.outbound_group_session)' <=> Past(db.outbound_group_session)
      BY <2>1 DEF Past
    <3>3. IndexOnce'
      BY <2>1, <2>2 DEF SentInv, IndexOnce
    <3> QED
      BY <2>1, <2>2, <2>3, <3>1, <3>2, <3>3 DEF SentInv
  <2>8. AnswerInv'
    BY <2>1, <2>3 DEF AnswerInv, AnswersOnce
  <2>9. ReadInv'
    BY <1>t, <2>1, <2>3 DEF ReadInv, Covered
  <2> QED
    BY <2>5, <2>6, <2>7, <2>8, <2>9
<1>13. ASSUME NEW item \in Item, Puts(item), peer' \in [Others -> Session]
       PROVE  BotInv'
  <2>1. /\ stream' = Append(stream, item) /\ sync.state # "handling"
        /\ ended' = [ended EXCEPT !.puts = @ + 1]
        /\ UNCHANGED <<keys, sync, todo, next_batch, born, storage, requests, run, sent, db>>
    BY <1>13 DEF Puts
  <2>2. ended' \in Tally /\ ended'.unsaved = ended.unsaved /\ ended'.lost = ended.lost
    BY <1>t, <2>1, TallyFacts
  <2>3. /\ stream' \in Seq(Item) /\ sync' \in [state : Live \cup {"idle", "stopped", "down"}, since : 0 .. Len(stream')]
        /\ TokenInv' /\ AnswerInv' /\ ReadInv'
    BY <2>1, StreamGrows
  <2>4. TypeOK'
    BY <1>13, <2>1, <2>2, <2>3 DEF TypeOK, Tally
  <2>5. KeysFromStart'
    BY <2>1 DEF KeysFromStart
  <2>6. SentInv'
    BY <2>1, <2>2, SentKept
  <2> QED
    BY <2>3, <2>4, <2>5, <2>6
<1>14. ASSUME NEW d \in Others, shares(d) \/ says(d) \/ damages(d)
       PROVE  BotInv'
  <2>1. /\ peer \in [Others -> Session] /\ peer[d] \in Session /\ Owner[d] \in Users
    BY CryptoBotAssumption DEF TypeOK, Others
  <2>2. CASE shares(d)
    <3>1. PICK type \in {0, 1} : Puts(RoomKey(session_key(peer[d]), type)) /\ UNCHANGED peer
      BY <2>2 DEF shares
    <3>2. RoomKey(session_key(peer[d]), type) \in Item
      BY <2>1, <3>1 DEF session_key, RoomKey, Item, Session
    <3> QED
      BY <1>13, <2>1, <3>1, <3>2
  <2>3. CASE says(d)
    <3>0. PICK body \in BOOLEAN : /\ Puts(Encrypted(Owner[d], ciphertext(peer[d]), body))
                                  /\ peer' = [peer EXCEPT ![d] = encrypted(peer[d])]
      BY <2>3 DEF says
    <3>1. Encrypted(Owner[d], ciphertext(peer[d]), body) \in Item
      <4>1. ciphertext(peer[d]) \in Ciphertext
        BY <2>1 DEF ciphertext, Ciphertext, Session
      <4> QED
        BY <2>1, <4>1 DEF Encrypted, Item
    <3>2. encrypted(peer[d]) \in Session
      BY <2>1 DEF encrypted, Session
    <3>3. peer' \in [Others -> Session]
      BY <2>1, <3>0, <3>2
    <3> QED
      BY <1>13, <3>0, <3>1, <3>3
  <2>4. CASE damages(d)
    <3>1. Encrypted(Owner[d], [ciphertext(peer[d]) EXCEPT !.damaged = TRUE], TRUE) \in Item
      <4>1. [ciphertext(peer[d]) EXCEPT !.damaged = TRUE] \in Ciphertext
        BY <2>1 DEF ciphertext, Ciphertext, Session
      <4> QED
        BY <2>1, <4>1 DEF Encrypted, Item
    <3> QED
      BY <1>13, <2>1, <2>4, <3>1 DEF damages
  <2> QED
    BY <1>14, <2>2, <2>3, <2>4
<1>15. CASE confuses
  <2>1. Junk \in Item /\ Broken \in Item /\ peer \in [Others -> Session]
    BY DEF Junk, Broken, Item, TypeOK
  <2> QED
    BY <1>13, <1>15, <2>1 DEF confuses
<1>16. CASE UNCHANGED vars
  <2>1. UNCHANGED <<stream, peer, keys, sync, todo, next_batch, born, storage, requests, run, sent, db, ended>>
    BY <1>16 DEF vars, server
  <2>2. TypeOK'
    BY <2>1 DEF TypeOK
  <2>3. KeysFromStart' /\ TokenInv'
    BY <2>1 DEF KeysFromStart, TokenInv
  <2>4. SentInv' /\ AnswerInv' /\ ReadInv'
    BY <2>1, SentKept, ReadKept
  <2> QED
    BY <2>2, <2>3, <2>4
<1> QED
  BY <1>1, <1>2, <1>3, <1>4, <1>5, <1>6, <1>7, <1>8, <1>9, <1>10, <1>11, <1>12, <1>14, <1>15, <1>16
  DEF Next

-----------------------------------------------------------------------------
\* The invariant holds throughout.
THEOREM BotInvariant == Spec => []BotInv
BY BotInit, BotNext, PTL DEF Spec

\* A message whose room key came before it is read, wherever sync responses cut
\* the stream and whatever requests fail.
THEOREM BotReads == Spec => []ReadsWhatItCan
<1>1. BotInv => ReadsWhatItCan
  <2> SUFFICES ASSUME BotInv, NEW i \in Positions, NEW k \in born + 1 .. i - 1, IsMessage(i), KeyOf(k, i)
               PROVE  i \in run.read
    BY DEF ReadsWhatItCan
  <2>1. i \in 1 .. Len(stream) /\ Covered(i)
    BY DEF BotInv, TypeOK, TokenInv, Covered, Positions
  <2> QED
    BY <2>1 DEF BotInv, ReadInv
<1> QED
  BY <1>1, BotInvariant, PTL

\* No message is answered twice in a run, and none of the bot's own.
THEOREM BotAnswersOnce == Spec => []AnswersOnce
<1>1. BotInv => AnswersOnce
  BY DEF BotInv, AnswerInv
<1> QED
  BY <1>1, BotInvariant, PTL

\* A room key the bot hands out opens every message of its session.
THEOREM KeysOpenSessions == Spec => []KeyOpensSession
<1>1. BotInv => KeyOpensSession
  <2> SUFFICES ASSUME BotInv, NEW k \in keys, NEW i \in DOMAIN sent, sent[i].id = k.id
               PROVE  decrypts(init_inbound_group_session(k),
                               [id |-> sent[i].id, index |-> sent[i].index, damaged |-> FALSE])
    BY DEF KeyOpensSession
  <2>1. k.index = 0
    BY DEF BotInv, KeysFromStart
  <2>2. sent[i] \in Session
    BY DEF BotInv, TypeOK
  <2>3. sent[i].index \in Nat
    BY <2>2 DEF Session
  <2> QED
    BY <2>1, <2>3 DEF decrypts, init_inbound_group_session
<1> QED
  BY <1>1, BotInvariant, PTL

\* No index of a session encrypts two messages unless the bot went down with
\* messages it had not saved.
THEOREM IndicesUsedOnce == Spec => []IndexOnce
<1>1. BotInv => IndexOnce
  BY DEF BotInv, SentInv
<1> QED
  BY <1>1, BotInvariant, PTL
=============================================================================
