----------------------------- MODULE OlmAccount -----------------------------
(***************************************************************************)
(* The one-time keys and fallback keys of mtx::crypto::OlmClient: generated *)
(* by the account, uploaded with /keys/upload, claimed by other devices and *)
(* used up by the inbound sessions their messages open.                     *)
(*                                                                          *)
(* A key stands for its public half and is numbered in the order the keys   *)
(* were made, which is also the order of libolm's lists.  libolm, the       *)
(* homeserver and the devices that claim keys are not in this repository;   *)
(* they are modelled from how OlmClient uses them.  The application is any: *)
(* it generates keys and uploads them when it likes, as                     *)
(* examples/crypto_bot.cpp does for every sync response with too few keys,  *)
(* with further uploads under way, and saves when it likes.                 *)
(***************************************************************************)
EXTENDS Integers, FiniteSets

CONSTANTS
    MaxKeys,          \* a bound on the keys made
    MaxGenerate,      \* the most keys generated at once (a bound)
    MaxOneTimeKeys,   \* how many one-time keys a libolm account has room for
    MaxUploads,       \* a bound on the calls of upload_keys
    Message           \* the messages of other devices, one per claimed key

ASSUME OlmAccountAssumption ==
    /\ MaxKeys \in Nat /\ MaxGenerate \in Nat /\ MaxUploads \in Nat
    /\ MaxOneTimeKeys \in Nat \ {0}

VARIABLES
    account,          \* account_, the olm account
    opened,           \* how many inbound sessions each message has opened
    saved,            \* what was last saved: the account and the sessions
    upload,           \* the requests to /keys/upload
    store,            \* server: the one-time keys it can still hand out
    served_fallback,  \* server: the fallback key (0: none)
    accepted,         \* server: every key it was ever sent
    message,          \* the key each message was encrypted for (0: none yet)
    made,             \* history: the number of keys made so far
    fallbacks,        \* history: those that are fallback keys
    hurried,          \* history: those made while an upload was under way
    early,            \* history: the fallback keys made while the one before
                      \*   did not count as published
    forgotten         \* history: those made after the last save before a restart

server == <<store, served_fallback, accepted>>
history == <<made, fallbacks, hurried, early, forgotten>>
vars == <<account, opened, saved, upload, server, message, history>>

Key == 1 .. MaxKeys
NoKey == 0

\* The calls of upload_keys, in their order.
Request == 1 .. MaxUploads

Account == [one_time_keys : SUBSET Key, unpublished : SUBSET Key,
            current : Key \cup {NoKey}, previous : Key \cup {NoKey},
            current_published : BOOLEAN]

\* A request before and after it is under way.
NotSent == [st |-> "new", keys |-> {}, fallback |-> NoKey]
Over == [st |-> "over", keys |-> {}, fallback |-> NoKey]

-----------------------------------------------------------------------------
(* libolm's account (not in this repository).                               *)

\* The newest keys there is room for.
newest(keys) == {k \in keys : Cardinality({j \in keys : j > k}) < MaxOneTimeKeys}

olm_account_generate_one_time_keys(a, new) ==
    LET keep == newest(a.one_time_keys \cup new)
    IN  [a EXCEPT !.one_time_keys = keep, !.unpublished = (@ \cup new) \cap keep]

olm_account_generate_fallback_key(a, k) ==
    [a EXCEPT !.previous = a.current, !.current = k, !.current_published = FALSE]

\* The keys an inbound session can be created with.
known(a) == a.one_time_keys \cup ({a.current, a.previous} \ {NoKey})

\* Mutated form: a key that was never marked as published stays in that list.
olm_remove_one_time_keys_bug(a, k) == [a EXCEPT !.one_time_keys = @ \ {k}]

\* A fallback key stays in the account.
olm_remove_one_time_keys(a, k) ==
    [a EXCEPT !.one_time_keys = @ \ {k}, !.unpublished = @ \ {k}]

-----------------------------------------------------------------------------
(* OlmClient.                                                               *)

create_new_account ==
    [one_time_keys |-> {}, unpublished |-> {}, current |-> NoKey, previous |-> NoKey,
     current_published |-> FALSE]

\* n one-time keys and, with generate_fallback, a fallback key after them.
generate(a, n, generate_fallback) ==
    LET b == olm_account_generate_one_time_keys(a, made + 1 .. made + n)
    IN  IF generate_fallback THEN olm_account_generate_fallback_key(b, made + n + 1) ELSE b

\* Keys that were generated and not marked as published.
one_time_keys(a) == a.unpublished

unpublished_fallback_keys(a) == IF a.current_published THEN NoKey ELSE a.current

\* It may carry no key at all.
create_upload_keys_request(a) ==
    [st |-> "sent", keys |-> one_time_keys(a), fallback |-> unpublished_fallback_keys(a)]

mark_keys_as_published(a) == [a EXCEPT !.unpublished = {}, !.current_published = TRUE]

forget_old(a) == [a EXCEPT !.previous = NoKey]

-----------------------------------------------------------------------------
Init ==
    /\ account = create_new_account
    /\ opened = [m \in Message |-> 0]
    /\ saved = [account |-> account, opened |-> opened, made |-> 0]
    /\ upload = [r \in Request |-> NotSent]
    /\ store = {} /\ served_fallback = NoKey /\ accepted = {}
    /\ message = [m \in Message |-> NoKey]
    /\ made = 0 /\ fallbacks = {} /\ hurried = {} /\ early = {} /\ forgotten = {}

UnderWay == {r \in Request : upload[r].st \in {"sent", "stored"}}

generate_one_time_keys(n, generate_fallback) ==
    /\ n > 0 \/ generate_fallback
    /\ made' = made + n + (IF generate_fallback THEN 1 ELSE 0)
    /\ made' <= MaxKeys
    /\ account' = generate(account, n, generate_fallback)
    /\ fallbacks' = fallbacks \cup (IF generate_fallback THEN {made'} ELSE {})
    /\ hurried' = hurried \cup (IF UnderWay # {} THEN made + 1 .. made' ELSE {})
    /\ early' = early \cup (IF generate_fallback /\ account.current # NoKey
                                /\ ~ account.current_published
                              THEN {made'} ELSE {})
    /\ UNCHANGED <<opened, saved, upload, server, message, forgotten>>

\* Mutated form: the sessions are stored, the account is not.
save_bug ==
    /\ saved' = [account |-> saved.account, opened |-> opened, made |-> made]
    /\ saved' # saved
    /\ UNCHANGED <<account, opened, upload, server, message, history>>

\* The application stores the sessions and the account, which save pickles.
save ==
    /\ saved' = [account |-> account, opened |-> opened, made |-> made]
    /\ saved' # saved
    /\ UNCHANGED <<account, opened, upload, server, message, history>>

upload_keys(r) ==
    /\ upload[r].st = "new" /\ \A q \in Request : q < r => upload[q].st # "new"
    /\ upload' = [upload EXCEPT ![r] = create_upload_keys_request(account)]
    /\ UNCHANGED <<account, opened, saved, server, message, history>>

\* Mutated form: an error does not keep keys_uploaded_cb from marking the keys.
keys_uploaded_cb_bug(r, ok) ==
    /\ upload[r].st \in (IF ok THEN {"stored"} ELSE {"sent", "stored"})
    /\ upload' = [upload EXCEPT ![r] = Over]
    /\ account' = mark_keys_as_published(account)
    /\ UNCHANGED <<opened, saved, server, message, history>>

\* An answer arrives; with ok FALSE it is an error, or lost although the server
\* acted on the request.
keys_uploaded_cb(r, ok) ==
    /\ upload[r].st \in (IF ok THEN {"stored"} ELSE {"sent", "stored"})
    /\ upload' = [upload EXCEPT ![r] = Over]
    /\ account' = IF ok THEN mark_keys_as_published(account) ELSE account
    /\ UNCHANGED <<opened, saved, server, message, history>>

\* client.hpp: "Call this when you are sure the old key is no longer in use,
\* i.e. 5 minutes after publishing a new one."
forget_old_fallback_key ==
    /\ account.current_published /\ account.previous # NoKey
    /\ account' = forget_old(account)
    /\ UNCHANGED <<opened, saved, upload, server, message, history>>

\* Mutated form: the key is not removed from the account.
create_inbound_session_bug(m) ==
    /\ message[m] \in known(account)
    /\ opened[m] < 2
    /\ opened' = [opened EXCEPT ![m] = @ + 1]
    /\ UNCHANGED <<account, saved, upload, server, message, history>>

\* create_inbound_session and create_inbound_session_from on a message, which
\* may be delivered again; they throw when the key is not known.
create_inbound_session(m) ==
    /\ message[m] \in known(account)
    /\ opened[m] < 2
    /\ opened' = [opened EXCEPT ![m] = @ + 1]
    /\ account' = olm_remove_one_time_keys(account, message[m])
    /\ UNCHANGED <<saved, upload, server, message, history>>

\* The application stops, its requests end with it, and it starts again with
\* what it had saved.
load ==
    /\ saved # [account |-> account, opened |-> opened, made |-> made] \/ UnderWay # {}
    /\ account' = saved.account
    /\ opened' = saved.opened
    /\ upload' = [r \in Request |-> IF r \in UnderWay THEN Over ELSE upload[r]]
    /\ forgotten' = forgotten \cup (saved.made + 1 .. made)
    /\ UNCHANGED <<saved, server, message, made, fallbacks, hurried, early>>

-----------------------------------------------------------------------------
(* The homeserver and the other devices (not in this repository).           *)

\* The server stores the keys of a request, those it already handed out
\* included: it keeps no list of them.  Requests overtake each other.
store_keys(r) ==
    /\ upload[r].st = "sent"
    /\ upload' = [upload EXCEPT ![r].st = "stored"]
    /\ store' = store \cup upload[r].keys
    /\ served_fallback' = IF upload[r].fallback = NoKey THEN served_fallback
                                                       ELSE upload[r].fallback
    /\ accepted' = accepted \cup upload[r].keys \cup ({upload[r].fallback} \ {NoKey})
    /\ UNCHANGED <<account, opened, saved, message, history>>

\* A device claims a key and encrypts a message for it: a one-time key, or the
\* fallback key when there is none left.
claim(m, k) ==
    /\ message[m] = NoKey
    /\ k \in (IF store # {} THEN store ELSE {served_fallback} \ {NoKey})
    /\ message' = [message EXCEPT ![m] = k]
    /\ store' = store \ {k}
    /\ UNCHANGED <<account, opened, saved, upload, served_fallback, accepted, history>>

-----------------------------------------------------------------------------
Next ==
    \/ \E n \in 0 .. MaxGenerate, generate_fallback \in BOOLEAN :
         generate_one_time_keys(n, generate_fallback)
    \/ save \/ load \/ forget_old_fallback_key
    \/ \E r \in Request : upload_keys(r) \/ store_keys(r)
                           \/ \E ok \in BOOLEAN : keys_uploaded_cb(r, ok)
    \/ \E m \in Message : create_inbound_session(m) \/ \E k \in Key : claim(m, k)

Spec == Init /\ [][Next]_vars

-----------------------------------------------------------------------------
TypeOK ==
    /\ account \in Account /\ account.unpublished \subseteq account.one_time_keys
    /\ opened \in [Message -> 0 .. 2]
    /\ saved \in [account : Account, opened : [Message -> 0 .. 2], made : 0 .. MaxKeys]
    /\ saved.account.unpublished \subseteq saved.account.one_time_keys
    /\ upload \in [Request -> [st : {"new", "sent", "stored", "over"}, keys : SUBSET Key,
                                fallback : Key \cup {NoKey}]]
    /\ store \subseteq Key /\ accepted \subseteq Key
    /\ served_fallback \in Key \cup {NoKey}
    /\ message \in [Message -> Key \cup {NoKey}]
    /\ made \in 0 .. MaxKeys
    /\ fallbacks \subseteq Key /\ hurried \subseteq Key
    /\ early \subseteq Key /\ forgotten \subseteq Key

\* At most one inbound session was opened with a key that is not a fallback key.
UsedOnce(o) ==
    \A m, n \in Message :
      o[m] > 0 /\ o[n] > 0 /\ message[m] = message[n] /\ message[m] \notin fallbacks
        => m = n /\ o[m] = 1

\* A one-time key opens one inbound session, whatever is delivered: the same
\* message twice, or two messages for a key that was handed out twice because
\* the answer to an upload was lost and the keys were uploaded again.  It rests
\* on create_inbound_session removing the key in the same call.
OneTimeUse == UsedOnce(opened)

\* The keys an account counts as published were sent to the server, those apart
\* that were made while a request was under way.
ReachedServer(a) ==
    /\ a.one_time_keys \ a.unpublished \subseteq accepted \cup hurried
    /\ a.current # NoKey /\ a.current_published => a.current \in accepted \cup hurried

\* mark_keys_as_published marks whatever the account holds, not what the answered
\* request carried.  A key that counts as published did reach the server, through
\* uploads that fail, answers that are lost or overtake each other and restarts;
\* the one exception is a key made while a request was under way, which that
\* request's answer marks although no request carried it.
PublishedReachedServer == ReachedServer(account)

\* The keys of the account that knows the first n, those of earlier runs that
\* were never saved left out.
Own(n) == (1 .. n) \ forgotten

\* A one-time key k is held, was used, or had to make room: libolm drops a key
\* for as many newer ones as there is room for.
Accounted(k, a, o, n) ==
    \/ k \in a.one_time_keys
    \/ \E m \in Message : message[m] = k /\ o[m] > 0
    \/ Cardinality({j \in Own(n) \ fallbacks : j > k}) >= MaxOneTimeKeys

\* A message for a one-time key the server hands out or has handed out can be
\* read: the private half is lost only by being used, to MaxOneTimeKeys newer
\* keys, or, if it was not saved by then, in a restart.  No upload, answer or
\* restart loses a key that was saved, and none of the newest is dropped.
ServedKeysKept ==
    \A k \in ((store \cup {message[m] : m \in Message}) \cap Own(made)) \ fallbacks :
      Accounted(k, account, opened, made)

\* A newer fallback key that was made in haste.
Overtaken(k) == \E f \in fallbacks \cap (hurried \cup early) : f > k

\* The fallback key the server hands out can open a session: the account keeps
\* two of them, and the older one is forgotten only after the newer one was
\* marked as published.  That fails a key that was not saved before a restart,
\* and one followed by a key made while an upload was under way, whose answer
\* marks the new key and which may reach the server after it, or made while the
\* one before did not count as published.
FallbackUsable ==
    served_fallback \in Own(made)
      => served_fallback \in {account.current, account.previous} \/ Overtaken(served_fallback)

-----------------------------------------------------------------------------
(* The inductive invariants behind these properties.  They hold of what was *)
(* saved as well, since load brings that back.                              *)

\* A used key is gone from the account.
UsedGone(a, o, n) ==
    /\ \A m \in Message : o[m] > 0 /\ message[m] \notin fallbacks
                           => message[m] \notin a.one_time_keys
    /\ \A m \in Message : message[m] = NoKey => o[m] = 0
    /\ a.one_time_keys \subseteq Own(n) \ fallbacks
    /\ {a.current, a.previous} \subseteq (Own(n) \cap fallbacks) \cup {NoKey}

\* No key is in use that was not made.
MadeBefore ==
    /\ store \cup fallbacks \cup hurried \cup early \cup forgotten \cup accepted \subseteq 1 .. made
    /\ served_fallback \in fallbacks \cup {NoKey}
    /\ \A m \in Message : message[m] \in 0 .. made
    /\ \A r \in Request : upload[r].keys \subseteq 1 .. made
                            /\ upload[r].fallback \in fallbacks \cup {NoKey}
    /\ saved.made <= made

OneTimeInv ==
    /\ TypeOK
    /\ UsedOnce(opened) /\ UsedOnce(saved.opened)
    /\ UsedGone(account, opened, made) /\ UsedGone(saved.account, saved.opened, saved.made)
    /\ MadeBefore

\* While a request is under way, what it does not carry was made in haste.
UploadInv ==
    \A r \in UnderWay :
      /\ account.unpublished \subseteq upload[r].keys \cup hurried
      /\ unpublished_fallback_keys(account) \in {NoKey, upload[r].fallback} \cup hurried
      /\ upload[r].st = "stored" => upload[r].keys \subseteq accepted
                                    /\ {upload[r].fallback} \ {NoKey} \subseteq accepted

PublishedInv == ReachedServer(account) /\ ReachedServer(saved.account)

KeptInv ==
    /\ \A k \in Own(made) \ fallbacks : Accounted(k, account, opened, made)
    /\ \A k \in Own(saved.made) \ fallbacks :
         Accounted(k, saved.account, saved.opened, saved.made)

\* The current fallback key is the last one the account knows of.
Last(a, n) ==
    /\ \A f \in Own(n) \cap fallbacks : f <= a.current
    /\ a.previous # NoKey => a.previous < a.current

\* Once the current fallback key counts as published the server hands out no
\* other, which is why the previous one may be forgotten then.
Usable(a, n) ==
    served_fallback \in Own(n) =>
      \/ Overtaken(served_fallback)
      \/ served_fallback = a.current
      \/ served_fallback = a.previous /\ ~ a.current_published

\* A request carries the current fallback key, or a newer one was made while it
\* was under way; the one that was stored is the one the server hands out.
Carried ==
    \A r \in UnderWay : upload[r].fallback # NoKey =>
      /\ upload[r].fallback \in Own(made)
      /\ \/ upload[r].fallback = account.current
         \/ upload[r].fallback < account.current /\ account.current \in hurried
      /\ upload[r].st = "stored" /\ upload[r].fallback = account.current
           => served_fallback = account.current \/ account.current \in hurried

UsableInv ==
    /\ Last(account, made) /\ Last(saved.account, saved.made)
    /\ Usable(account, made) /\ Usable(saved.account, saved.made)
    /\ Carried
=============================================================================
