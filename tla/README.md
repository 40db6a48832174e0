# A TLA+ model of mtxclient

mtxclient is a C++ client library for the Matrix protocol. Its own logic is in
`lib/` and `include/`: an HTTP client on top of coeurl, an end-to-end encryption
client on top of libolm and OpenSSL, and the conversions between JSON and the
structs of the protocol. The modules here model the parts of it where order,
failure and shared state matter, TLC checks them on small instances, and TLAPS
proves the most important properties for every size.

## The system's parts

| Part | State | Operations | Hard because |
|---|---|---|---|
| `http::Client`, results of a transfer | none | `prepare_callback`, `delete_` | three sources of error, application callbacks that throw |
| `http::Client`, flows of requests | captured in lambdas | fallbacks to older endpoints, `UIAHandler` | chains of callbacks; a later request fails |
| `http::Client`, session | `server_`, `user_id_`, `device_id_`, `access_token_` | `login`, `registration`, `logout`, `clear`, setters, `shutdown`, `close` | two threads, no lock; replies in any order |
| `OlmClient`, account | the olm account | generate, upload, mark, forget, save, load | answers get lost; restarts; other devices act meanwhile |
| `OlmClient`, olm and megolm sessions | the sessions, with a message index each | create, encrypt, decrypt, export, import | repeated and reordered messages |
| SAS, cross-signing, secret storage, key backup | keys | sign, verify, derive, encrypt | many error paths that must not accept |
| Push rules | the compiled rule set | construct, `evaluate` | order of rules, globs, events that are relations |
| Events and responses | none | `from_json`, `to_json`, dispatch on the type | every struct is written by hand twice, every table of types six times; redaction, unknown and malformed events |
| Relations, power levels | none | parse, write, look up | defaults and legacy forms |
| Encodings | none | base64, base58, url encoding | edges: empty input, leading zeros |
| Sync loop (the examples) | `next_batch_token_`, the bot's `Storage` | `sync` and its handlers, replies, device lists, claims | retries, answers in any order, exceptions, crashes |

How they interact: the application's thread calls the Client, which submits a
request to coeurl; coeurl's event loop runs on a thread of its own and calls the
type-erased callback of `prepare_callback` (or the lambda in `delete_`), which
turns the transfer into a `Response` and a `RequestErr` and calls the
continuation: the application's callback, a lambda that first updates the session
(`login`, `registration`, `logout`), one that submits another request (fallbacks)
or one that asks the application for an authentication stage (UIA). The
application connects the two clients: it takes the keys of `OlmClient` and passes
them to `upload_keys`, and passes to-device messages of a sync to `OlmClient`.

What makes each part correct, and is checked here: a call ends with exactly one
callback, which tells the truth about the last request (`RequestFlow`); the
session the application sees is one that a server granted as a whole, a token
goes only to the server and is used only for the user it was issued for, and
never again after its logout was reported (`ClientSession`); a one-time key opens
one session, and a key the server hands out can be used (`OlmAccount`); what the
library writes it reads back as the same, and all its parsers agree on what an
event is (`EventCodec`); notifications are those the rules prescribe
(`PushRules`); an application built on all of it reads every message it has a key
for, once, and keeps going (`CryptoBot`); and what leaves the process comes back
unchanged or is refused (`Secrets`).

## Modules

* `HttpResult` translates `prepare_callback` and `delete_`: operators from a
  transfer (curl code, status, body reduced to what it parses as) to the
  invocations of the callback. The indeterminate members of `delete_`'s
  uninitialised `ClientError` are a set of possible results.
* `RequestFlow` extends it: one call of an API function, with one continuation
  per function that has its own. `sent` is the list of endpoints asked,
  `calls` the invocations of the application's callback.
  `RequestFlowMC` gives the constants, `RequestFlowProofs` the proofs.
* `ClientSession` is the session state and the requests, on two threads. A
  request reads the user when it begins, then `server_` (`endpoint_to_url`) and
  `access_token_` (`prepare_headers`), the arguments of one function call, in
  either order; a callback assigns one member per step. `loop` is the statement
  the event loop is at.
* `Session` is the abstract specification: an application holds no session or
  one that was granted as a whole, and it begins and ends at once.
  `ClientSession` maps `held` to the token, user and host the Client shows while
  it has a token.
* `ClientSessionMC` gives the instances, `ClientSessionProofs` the proofs: first of
  what holds with any overlap, then of what an application gains that changes its
  session in one place, the refinement of `Session` among it.
* `OlmAccount` is the account with the server and the other devices around it;
  `OlmAccountMC` and `OlmAccountProofs` as above.
* `JsonCodec` is how the structs are converted. The library uses a handful of
  idioms of nlohmann::json to read a field (`at`, `value`, `contains`, `is_null`,
  a type test, its own `safe_get`) and to write one (always, if not empty, if it
  has a value, if its value has a name, or only beside another member). A struct is a
  record of fields with their idioms, and `from_json` and `to_json` are written once.
* `EventContents`, `MessageContents` and `KeyContents` are those records: 109
  structs, from the envelopes of events to the calls of VoIP.
* `Relations` is `common::Relations`: parsing (with the library's own list, legacy
  replies and edits), writing, and the look-ups.
* `Collections` is the dispatch on the event's type: the parsers of the lists in
  `responses/common.cpp` and the one of cached events in `collections.cpp`. Each has
  its own tables, transcribed from its own switch, so that a type missing in one of
  them shows.
* `EventCodec` puts these together: a document arrives or a struct is filled in, is
  stored, and is loaded after a restart. `EventCodecProofs` has the theorems about
  the dispatch, about relations and about the structs, with the first and last place
  of a list from `Extrema`.
* `PushRules` is `pushrules.cpp`: the rules as JSON, the compiled evaluator, the
  actions of the Client that fetch, put and toggle rules, and an application that
  makes rules of its own. `Prescribed` is the abstract specification, what the rules
  say directly. `PushRulesProofs` proves that
  the evaluator does it.
* `Megolm` is a group session reduced to its index; `CryptoBot` composes it with the
  sync loop, the bot's storage, its requests and the server's stream
  (`examples/crypto_bot.cpp`, the only complete application in the repository), and
  `CryptoBotProofs` has its theorems.
* `Encodings` holds base64, base58, recovery keys, byte order and the codes of a
  verification with their reference definitions; `Secrets` the secret storage,
  exports, the key backup, attachments and signatures, each made, damaged in at most
  one place, and opened. Ciphers, hashes and signatures are symbols in it that are
  equal only if everything that went into them is; the mac of libolm's pk encryption
  is one that tells shared secrets apart, and no more. `SecretsProofs` has its theorems.
* `Extrema` has what several proofs need of natural numbers: least and greatest
  elements, and induction up to a place of a list.

Operators behind a comment `Mutant:` or `Mutated form:`, and those named `..._bug`, `first_...`,
`after_...`, `fallback_same_...` and `reports_success_only`, are mutated forms of the
definition they precede: plausible mistakes in that code, each of which violates a
property of the module. `PROJECT.json` pairs them, and maps every definition to the
lines it models.

### Abstractions

Paths, query strings and bodies are left out except for what the continuations
look at. In `ClientSession` protocol, server name and port are one address, and
the device is identified with the token (a server grants them together).
`next_batch_token_` is left out, since only the application reads and writes it.
Reading or assigning one `std::string` member is atomic in the model. In C++ a
concurrent read and write of one is a data race; the model assumes that it yields
the old or the new value, and looks for what goes wrong even then.

In `JsonCodec` a value is absent, null, of another type, right outside but wrong
inside, empty, set, or a name nobody knows: that is what the readers tell apart.
`PushRules` keeps texts as short sequences of characters, since globs and words are
about them. In `CryptoBot` the two-second sleep before the first message is not
trusted: claims may be answered later. What the bot's other devices and the rest of
the room do with its keys is not followed. A sync response is the set `todo` of
stream positions it carries, and `parse_messages(i, j)` says which of two of them is
handled first: to-device messages before the rooms, each in the order of the stream.

A list from which the code leaves elements out (the rules it compiles, the relations
it writes) is a function on the places that stay: what matters is which elements
there are and in which order, and look-ups ask for the least or the greatest place.

libolm and the homeservers are not part of the repository. They are modelled from
how the code uses them, as far as the code depends on them: a server may answer
anything at any time, a login grants a token nobody had, a logout ends exactly
the token it carries; the account keeps the newest one-time keys. A
key stands for its public half, so keys made after a restart are new ones.

## What is checked

| Run | Shows | Distinct states |
|---|---|---|
| `request_flow` | all functions, all outcomes: `CallbackOnce`, `NoSilentFailure`, `EndpointOnce`, `ThumbnailDownloadTried`, `FallbackJustified`, `CallbackEventually` | 4,502 |
| `session_serial` | with one session change at a time: `SessionPublished`, `RequestsCoherent`, `ClearsInvalidToken`, and the refinement `ImplementsSession` | 296,508 |
| `session_free` | with any overlap: `NoStaleSession`, `NoStaleToken`, `RequestsComplete`, `CloseReturns` | 68,333 |
| `olm_account` | `OneTimeUse`, `PublishedReachedServer`, `ServedKeysKept`, `FallbackUsable` | 665,065 |
| `event_codec` | `Reloads`, `KeepsMeaning`, `KeepsRelations`, `OthersSee`, `KeepsAlternative`, `ListsAgree` | 108,017 |
| `push_rules` | `FollowsRules`, `KeepsRules`, `MentionsDecide` | 25,898 |
| `crypto_bot` | `ReadsWhatItCan`, `AnswersOnce`, `KeyOpensSession`, `IndexOnce`, `SyncProgress` | 506,202 |
| `secrets` | `KeyUnlocks`, `SecretsKept`, `ExportKept`, `SignaturesVerify`, `CodesAgree` | 6,715 |
| `flow_delete` | violated: `StatusTrusted` | |
| `flow_registration` | violated: `PromptOnlyForStage` | |
| `session_logout` | violated: `ClearsInvalidToken` without the discipline | |
| `push_glob` | violated: `GlobsMatch` | |

The four violated properties state what a comment of the code promises:

* `delete_` leaves its `ClientError` uninitialised, so after a network error the
  status code handed to the callback is arbitrary (`client.cpp:99`).
* `registration` runs the prompt for every 401, also for one that describes no
  stage, and then its callback never hears of the error (`client.cpp:1081`). The
  other three functions check the flows.
* `logout`'s callback clears the session the Client has when the reply arrives.
  If the application logged in again meanwhile, the new, valid token is lost
  (`client.cpp:294`).
* The globs of push rules are quoted first and then replaced without the backslash
  that quoting put before them, so that `*` matches dots only
  (`pushrules.cpp:454`).

### What the passing properties leave out

Some properties hold only with exceptions. Each is a fact about the code, named in
the module where the property is:

* `Reloads` (`Unreadable`): an `EventExpiry` with every member empty is written as
  null, which its `from_json` refuses; a `KeyRequest` that an application gave
  `RequestAction::Unknown` is written without the `action` that `from_json` asks for
  (`encrypted.cpp:230`, 188); a redacted event of an unknown type is written without
  a type.
* `KeepsMeaning` (`kept`): members that do not survive because of another one, each
  with its condition: the url beside an encrypted file, the description of a thumbnail
  without an unencrypted one, what belongs to a space link without `via`, what calls
  have from version 1 on, the body of a key request that is none; and a few values
  that are not written as they are, such as an empty list of hidden events or a format
  of its own.
* `KeepsRelations`: the reply of a received edit is lost, because the code fills the
  wrong variable (`events/common.cpp:318`); and of an edit whose new content claims to
  be an edit too, one of the two is written (`EditOfEdit`).
* `ListsAgree`: an unknown type is state in the state list and a message in the
  timeline; a verification request is read alone but not kept by a timeline;
  invitations need no ids and leave out encryption and image packs.
* `FollowsRules`: fields that are no text match any pattern; globs are the subject of
  `push_glob`; a number of members that is not written as `pushrules.hpp:48` says is
  read as 0; of two rules for one room or one sender, which no server keeps
  (`UniqueIds`), the evaluator keeps the last. A pattern without globs stands for a
  whole field, or for whole words of the body, as in the Matrix specification and in
  `tests/pushrules.cpp` (`EventMatches`). The comment at `pushrules.hpp:41` still says
  that such a pattern has asterisks around it; neither code nor tests do that, so the
  reference does not either, and the comment is out of date.
* `KeepsRules`: `include_fallback` is not written. `coalesce` is written as null and
  comes back as `notify`, which is what a server without it makes of it.
* `PublishedReachedServer`: a key made while an upload was under way (`hurried`) is
  marked by that upload's answer although no request carried it, which is what happens
  to `crypto_bot` when two sync responses in a row find too few keys.
* `ServedKeysKept`: not for keys that were unsaved when the application restarted, and
  not for those that had to make room for as many newer ones as libolm has room for.
* `FallbackUsable`: likewise not for an unsaved key, and not once a newer one was made
  while an upload was under way or before the one before it counted as published
  (`Overtaken`): then the older key may be forgotten although the server has it.
* `ReadsWhatItCan`: the bot opens olm messages of type 0 only, so a room key in a
  later message of an olm session is not among those it has.
* `IndexOnce`: not after a run that ended with unsaved messages, since the bot saves
  only when told to stop. Nothing in the bot prevents the second use of an index then;
  the property says that this is the only way to it.
* `SyncProgress`: an exception that leaves `parse_messages` ends the loop: for an olm
  or room message that does not decrypt (`Unhandled`), an olm message that names a
  used key included, and for a message without `content.body`. A response that does
  not parse does not: the status code of that error stays 0, and the handler asks
  again.
* `SecretsKept`: the iv is covered by no mac. Of a room key in the backup nothing is
  promised when its ciphertext was changed: the code hands libolm's mac on and nothing
  in the repository shows that it covers the ciphertext. `SignaturesVerify`: a device
  that signs a field the struct does not know does not verify, and one without a
  signature makes the check throw. `CodesAgree`: zero bytes alone gain a byte in
  base58. `ExportKept` states that a file with CR LF line ends, and the output of
  `encrypt_exported_sessions` without the lines around it, are refused.

Noted while reading, and not the subject of a run, since a unit test of one call
decides each: `invite_allowed` returns false for a server on the allow list
(`invite_permissions.cpp:90`); the constructor of `SAS` passes a buffer of zeros as
randomness (`crypto/client.cpp:557`); `Client`'s constructor overrides a port in the
server's name (`client.cpp:36`), and `set_server` narrows one to 16 bits (187); the
file name of a download loses its last character (833); `unpickle` destroys the
string it is given (`crypto/client.hpp:146`); the `etag` of a backup version gains
quotes with every round trip (`responses/crypto.cpp:139`); `parse_relations` catches a
type that nothing throws (`events/common.cpp:330`).

### Bounds

`request_flow` explores one call: flows do not share state. `MaxNext = 2` lets
the application complete two stages, the least for which a prompt follows a
prompt. The statuses are one or two of every class the code compares with, 300
and 0 included; the network errors one.

`session_serial` has three requests, two users, two hosts and two tokens, one of
them from an earlier run: the least for a logout, a login elsewhere as somebody
else, and an unrelated request across both. A request is used once, so the bound
is on their number. `session_free` has no discipline and therefore more
interleavings; it has two requests, one user and one host, which its properties
do not distinguish. The theorems below cover every number for the two safety
properties.

`olm_account` has three key ids, two keys per call, two uploads and room for two keys
in the account, so that evictions happen, a key can be made while an upload is under
way, uploads overtake each other, two fallback keys can exist and both messages can
name the same key. A message opens at most two sessions (the second would already be
the error).

`event_codec` takes every struct by itself, with every document that departs in at
most two fields from a full or from a minimal one: conversions look at one field, or
at one field if another is there. Messages have up to two relations of two events,
received or filled in, the least for an edit that is also a reply.

`push_rules` has rule sets with rules in up to two kinds, two in the first and the
last, every condition, and for each the inputs that tell it apart. Two kinds are
enough for an order to show. Member counts come with every prefix, with none and with
some that are no number. `Own` is the rules an application makes, `coalesce` among
their actions.

`crypto_bot` has one other user with one device, two items put into the stream by
others besides the bot's own echoes, two errors and three runs of the bot: a key and
its message, with an error, a save and a crash anywhere between.

`secrets` has byte strings of up to three bytes, a whole group of base64 and every
remainder, from the edges of both alphabets; keys of two bytes, one of them zeros;
and exports of up to two room keys with salts, blocks and digests of two bytes.

Deadlock is not checked in `session_*`, `olm_account`, `event_codec`, `crypto_bot` and
`secrets`: an application may stop once its requests are used up and the Client is
closed, its ids are used, its document is loaded, or nobody writes any more.

### Discipline of the application

The library leaves some order to its user. `SerialAuth` states it for the
session: one session change (`login`, `registration`, `logout`, `clear`, a
restored session) at a time, `set_server` only without a session and without
requests under way, and no call that names the user while a login is pending.
`session_free` drops all of it. `OlmAccount` assumes nothing of the kind: the
application generates, uploads and saves when it likes, as `examples/crypto_bot.cpp`
does, which saves on SIGINT and may start an upload for every sync response. What goes
wrong then is named in the properties by the history variables `hurried`, `early` and
`forgotten`. `save` stores sessions and account together; an application that writes
them apart and crashes in between is not modelled, and requests end with the process
that made them.

### Fairness

`RequestFlow` assumes that every transfer ends: coeurl sets a connection timeout
and reports every error. `ClientSession` assumes in addition that both threads
run (weak fairness of the reads and of the event loop's statements) and that the
event loop does not pass over a ready callback for ever (strong fairness per
request, since the loop may be busy with another request in between; coeurl
handles finished transfers in the order of libcurl's message queue). Nothing is
assumed of the application, nor that a server ever grants anything.

`CryptoBot` assumes that the login in the end succeeds or the bot gives up, that the
server answers a sync once there is something to say, and that handlers run to their
end; errors are finitely many (`MaxErrors`). Nothing is assumed of the bot's other
requests, of other users, or that the bot is ever stopped or started.

## What is proved

For every set of requests, users, hosts and tokens, and with or without
`SerialAuth` (`ClientSessionProofs`):

* `TypeCorrect`: the types, in particular that the event loop only works on a
  request that waits for its callback or that it is itself submitting.
* `StaleSessionNeverHeld` and `StaleTokenNeverSent`: after a logout was reported
  to the application, its token is neither held nor given to a request.
  `access_token_ \notin loggedOut` is not inductive: a login response that no
  callback has handled may hold a token that comes back later. `TokenInv`
  adds that such a token is granted, is nobody else's, and was never held, sent,
  stored or logged out (`PendingInv`), that every token sent, held or logged out
  was granted (`HistoryInv`), and that `access_token_` is empty from
  `clear_token` until logout's callback has run (`LoopInv`), which is when the
  token enters `loggedOut`. There `restore` needs that nothing is in flight, and
  that the application does not restore a session it was told is logged out.

For every number of keys and messages and every size of the account
(`OlmAccountProofs`):

* `OneTimeKeysUsedOnce`: a one-time key opens one inbound session. The invariant
  `OneTimeInv` must hold of the account and of the saved copy alike, since `load`
  brings the copy back: a key used in one is gone from it (`UsedGone`), and each
  holds only keys made by then and not lost in a restart (`Own`, which leaves out
  `forgotten`), since a key that is made later is a new one.
* `PublishedKeysReachServer`, `ServedKeysAreKept` and `FallbackIsUsable`: none of
  the three invariants is inductive, for two reasons. `load` replaces the account by
  the saved copy, so `PublishedInv`, `KeptInv` and `UsableInv` say the same of both,
  each with the keys it knows. And `mark_keys_as_published` marks whatever is
  unpublished when the answer arrives, so `UploadInv` says of every request under way
  that the unpublished keys it does not carry were made in haste. For the fallback key
  `Last` says that the current one is the newest the account knows, `Usable` that the
  previous one is the server's only while the current one does not count as published,
  and `Carried` which key a request, and after it was stored the server, has.

For every set of functions, statuses and network errors and any number of
authentication stages (`RequestFlowProofs`):

* `CallbackRunsOnce`, `FailureIsReported` and `DownloadIsTried`: by cases over the
  states of a flow and, for each, over what the continuation does with each class of
  results. The three invariants together (`FlowInv`) are inductive once an idle
  flow is known to have sent nothing and a prompt to belong to a function with
  authentication stages.
* `FallbacksEnd`: that no endpoint is asked twice needs an order of the endpoints,
  `rank`; `FallbacksForward` says that each request of a flow of fallbacks has a
  higher rank than the one before.
* `FallbacksAreJustified`: the action property, from `FlowInv`, by cases over the
  continuations that ask again, get_summary's two ways to the hierarchy among them.

For every number of users, messages, errors and runs (`CryptoBotProofs`), with the
invariant `BotInv`:

* `BotReads`: `Covered(i)` is "the bot went through position i in this run": it is
  below the stored token, or in the response being handled and no longer in `todo`.
  `ReadInv` says that the keys at covered positions are in the storage and that the
  messages at covered positions with an earlier key were read. The step that handles
  a message needs that its key, being earlier in the stream and a to-device message,
  was covered before, in this response or in an older one; this is the order of
  `parse_messages`. `TokenInv` ties the loop's `since` to the client's token.
* `BotAnswersOnce`: what was answered is covered (`AnswerInv`).
* `KeysOpenSessions`: keys that left the bot, or wait for a claim, have index 0
  (`KeysFromStart`).
* `IndicesUsedOnce`: the session is past every message it encrypted, and so is the
  saved one unless something was sent after the last save (`SentInv`).

For every number of requests, users, hosts and tokens, under `SerialAuth`
(`ClientSessionProofs`, second part), with the invariant `SerialInv`, which includes
`TokenInv`:

* `SessionIsPublished`: at most one request is about to change the session
  (`OneChange`); before the callback of a login assigns the token there is none, and
  what it assigned so far is what the server granted (`LoginInv`).
* `RequestsAreCoherent`: what a request has read so far is what the Client still
  has, or `clear()` emptied it, and nothing takes its place before the request is
  complete (`ReadsInv`, `SessionInv`).
* `LogoutClearsInvalid`: a logout carries the token the Client holds until its
  callback clears it (`LogoutInv`).
* `SessionRefinement`: `ClientSession` implements `Session`. Of the steps of a
  callback, the assignment of the token is the abstract begin, `clear_token` the
  abstract end, and the others are stutters.

For every ruleset and event over the model's conditions (`PushRulesProofs`):

* `RulesInvariant`: the evaluator is the one compiled from the rules held, and rules
  held have the actions of the library, whatever the server has.
* `RulesAreKept`: without `include_fallback`, a ruleset that is written and read comes
  back but for its actions, which are as `AsFetched` says (`RuleBack`, `ContentBack`,
  `IdsBack`). Compiled, the two have the same rules with such actions (`CompiledBack`),
  so the same rule matches first (`EvaluateBack`).
* `MentionsAreDecisive`: compiled for a server with mentions, a rule by name does
  not match an event with mentions, and removing rules that do not match leaves the
  first match in its place.
* `RulesAreFollowed`: the evaluator returns what `Prescribed` says. The evaluator
  compiles away the rules that are disabled, not understood or superseded by
  mentions, asks the flattened event, and takes kind after kind; the reference reads
  the rules and the event. Condition by condition both say the same (globs set aside,
  which the property leaves out; of member counts `CountRead` says which prefix is
  found and `ComparedAlike` that it compares as prescribed), a compiled list has the
  same first match, and the first match over the kinds is the one over all rules. Rules of a room or a sender
  are looked up by id: that ids are unique in their kind (`UniqueIds`), that no room
  or user has the id of a rule by name (`IdsAssumption`), and that an event has one
  body (`InputsAssumption`) is needed here.

For every document, and for relations in lists of any length (`EventCodecProofs`):

* `CodecInvariant`: where a document that is read again comes from.
* `WrittenIsRead` and `MeaningIsKept`: a struct is `Sound` when each of its fields,
  by the idioms it is read and written with, takes back what it wrote, and comes back
  as `kept` says, which for most fields is as it was. A lemma for each pair of idioms that occurs says so of a
  field (`SteadyFields`, `NonEmptyFields`, `OptionalFields`, ...), also for fields
  that are written only beside another or only without it, and all 109 structs are shown to be made of such fields only (`EventStructs`,
  `MessageStructs`, `KeyStructs`). `StructKept` then needs nothing of the document a
  struct was read from but that it is one.
* `AlternativesAreKept` and `ParsersAgree`: by cases over the tables of types, which
  each parser has of its own, with a lemma for each parser on what it makes of a type.
* `OthersSeeRelations` and `RelationsAreKept`: lemmas on the last relation of a
  type that `add_relations` collects and the first one a look-up returns; a list that
  the library wrote comes back with the same first relations, and a message
  without one has one of few shapes, each of which is followed through writing and
  reading.

For all keys and passwords, any number of room keys and every length of salt, iv and
digest (`SecretsProofs`):

* `Provenance`: the inductive invariant `SecretsInv`. What is stored was made by the
  library from what `made` records and changed in one place at most, and the result
  was computed from it. The properties speak about the result alone and are not
  inductive.
* `StorageOpensForItsKey`: the check value of a key is one of no other key. For a
  recovery key that was typed right, that it is read as its key is an assumption
  (`RecoveryAssumption`), since base58 is a recursion over the digits.
* `WhatIsStoredComesBack` and `SignaturesAreTrusted`: by cases over what was changed;
  the mac, the hash or the signature is then one of something else, or there is none.
* `ExportIsWhole`: the text of an export is read place by place, so the lemmas on
  `unpack_key_file` and `base642bin` are inductions over the places (`UpTo` of
  `Extrema`), and so is that the function by which `unpack_key_file` is defined
  exists. Unpacking two texts one after the other is unpacking both
  (`UnpackConcat`), which gives back the bytes between the lines (`ArmorOpens`) and
  shows that with CR LF the first character left is a return, at which decoding
  stops. After any change only parts of the export are left (`DamagedText`). A digest
  that is accepted is then the one of the export (`DigestTells`): the password and
  all bytes before it are those it was made with, and so is the text.

The assumptions are those of the modules, and TLC evaluates them on every run.
`ClientSessionAssumption`: the empty string is no user, host, token or request, and
stored tokens are tokens. `OlmAccountAssumption`: the bounds are natural numbers, and libolm has room for one
key at least.
`HttpResultAssumption`, `FunctionsAssumption` and `MaxNextAssumption`: statuses and
codes are numbers, an uninitialised one may be 0, the functions are functions of the Client. `CryptoBotAssumption`:
the users are finitely many, every device has one, and the bounds are natural
numbers.
`PushRulesAssumption`: the rulesets of the server and of the application are rulesets;
`IdsAssumption` and `InputsAssumption` as above, the latter also that numbers of
members are numbers. `EventCodecAssumption`: `MaxRelations` is a natural
number. `PasswordsAssumption`: no password stands for "none". `LengthsAssumption`: the
lengths in an export are natural numbers and the digest is not empty.
`RecoveryAssumption`: a recovery key that was typed right, in groups or not, is read
as the key it was made of. `SerialAuth` is a hypothesis of the theorems that
need it.

Only model-checked:

* Liveness (`CallbackEventually`, `RequestsComplete`, `CloseReturns`,
  `SyncProgress`), which the prover does not handle.
* `CodesAgree`, and with it the round trip of recovery keys: base64 and base58 fold
  over their input, and what a fold computes for every input needs an induction that
  takes an operator as a parameter, which the provers cannot instantiate. The codes of
  a verification are checked with it.

## Plan

Every module of the plan is written, and every safety property of a passing run but
`CodesAgree` has a theorem. What could follow is an induction over the groups of four
characters of base64, along the lines of `UnpackSteps`, with `decoded_groups` as a
function on the places of its input.

## What is not modelled

* Requests, and the responses that are only read: conversions one way, of which no
  second side is in the repository. `BackupVersion`, whose text grows with each
  round trip, and url encoding, `set_server`'s parsing and `Content-Disposition`:
  slicing of strings without state.
* The key exchange of a verification and `calculate_mac`: libolm's, and a
  concatenation of the caller's arguments. Who compares the macs is an application
  that the repository does not have.
* Levels given as strings in power levels, identifiers and logging.
* The ciphers, the ratchets and the network are external.

`PROJECT.json` lists every part with its status, and the hazards that no property
covers with the reason.
