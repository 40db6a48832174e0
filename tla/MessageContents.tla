-------------------------- MODULE MessageContents --------------------------
(***************************************************************************)
(* The contents of room messages, encrypted and to-device events, key      *)
(* verification and calls, field by field (see JsonCodec).                 *)
(***************************************************************************)
EXTENDS JsonCodec

\* Room messages.  The format is not kept: it is written as the one known
\* format whenever there is a formatted_body.  A media message with an encrypted
\* file has no url.
Format == Needs(Enum(F("contains", "constant"), "odd"), {"formatted_body"})
Text == Bare([body |-> At, msgtype |-> MsgType, format |-> Format, formatted_body |-> HasSet,
              relations |-> Relates, mentions |-> Mentions])
Emote == Bare([body |-> At, msgtype |-> MsgType, format |-> Format, formatted_body |-> HasSet,
               relations |-> Relates, mentions |-> Mentions])
Notice == Bare([body |-> At, msgtype |-> MsgType, format |-> Format, formatted_body |-> HasSet,
                relations |-> Relates, mentions |-> Mentions])
ElementEffect == Bare([body |-> At, msgtype |-> F("dispatch", "always"), format |-> Format,
                       formatted_body |-> HasSet, relations |-> Relates,
                       mentions |-> Mentions])
\* Mutant: the url is read but not written.
UrlForgotten == F("contains", "never")
Url == Unless(Has, {"file"})
File_ == Opt(Many(Has))
Audio == Bare([body |-> At, msgtype |-> MsgType, url |-> Url, info |-> Loose(Has),
               file |-> File_, relations |-> Relates, mentions |-> Mentions])
Video == Bare([body |-> At, msgtype |-> MsgType, url |-> Url, info |-> Loose(Has),
               file |-> File_, relations |-> Relates, mentions |-> Mentions])
File == Bare([body |-> At, msgtype |-> MsgType, url |-> Url, filename |-> HasSet,
              info |-> Loose(Has), file |-> File_, relations |-> Relates,
              mentions |-> Mentions])
Image == Bare([body |-> Val, msgtype |-> MsgType, url |-> Unless(Val, {"file"}),
               info |-> Loose(Has), file |-> File_, relations |-> Relates,
               mentions |-> Mentions])
StickerImage == Bare([body |-> Val, url |-> Unless(Val, {"file"}), info |-> Loose(Has),
                      file |-> File_, relations |-> Relates, mentions |-> Mentions])
\* The mentions of a location are neither read nor written.
Location == Bare([body |-> At, msgtype |-> MsgType, geo_uri |-> Has, info |-> Loose(Has),
                  relations |-> Relates])
\* A message of another type keeps the rest of its content as it was.
UnknownMessage == Bare([body |-> At, msgtype |-> F("dispatch", "always"), rest |-> Raw(HasSet),
                        relations |-> Relates, mentions |-> Mentions])
Reaction == Object([relations |-> Relates])
Redaction == Bare([reason |-> NonNull])

\* Encrypted events and keys.
OlmCipherContent == Bare([body |-> At, type |-> At])
OlmEncrypted == Bare([algorithm |-> Init_(F("unread", "always"), "set"), sender_key |-> At,
                      ciphertext |-> Many(At)])
Encrypted == Bare([algorithm |-> At, ciphertext |-> At, session_id |-> At, device_id |-> ValSet,
                   sender_key |-> ValSet, relations |-> Relates])
Dummy == Object(<<>>)
RoomKey == Bare([algorithm |-> At, room_id |-> At, session_id |-> At, session_key |-> At])
ForwardedRoomKey == Bare([algorithm |-> At, room_id |-> At, session_id |-> At,
                          session_key |-> At, sender_key |-> At,
                          sender_claimed_ed25519_key |-> At,
                          forwarding_curve25519_key_chain |-> Many(At)])
\* An unknown action leaves the member at its first enumerator, Request ("set"),
\* without the body a request has.  RequestAction::Unknown, which an application
\* can fill in, is written as no action at all.
KeyRequest == Object([request_id |-> At, requesting_device_id |-> At,
                      action |-> Enum(F("at", "named"), "set"),
                      room_id |-> Only(At, {"action"}), session_id |-> Only(At, {"action"}),
                      sender_key |-> Only(ValSet, {"action"}),
                      algorithm |-> Only(F("at", "constant"), {"action"})])
SecretRequest == Bare([action |-> Init_(Enum(F("value", "known"), "odd"), "odd"),
                       name |-> ValSet, request_id |-> Val, requesting_device_id |-> Val])
SecretSend == Bare([request_id |-> Val, secret |-> Val])

\* Key verification.
Transaction == Opt(Has)
Methods == Many(Enum(At, "odd"))
KeyVerificationRequest == Bare([body |-> Opt(Has), from_device |-> At, methods |-> Methods,
                                msgtype |-> [Opt(Has) EXCEPT !.write = "tag"],
                                timestamp |-> Opt(Has), to |-> Opt(Has),
                                transaction_id |-> Transaction])
KeyVerificationStart == Bare([from_device |-> At, transaction_id |-> Transaction,
                              method |-> Enum(At, "odd"), next_method |-> Opt(Has),
                              key_agreement_protocols |-> Many(At), hashes |-> Many(At),
                              message_authentication_codes |-> Many(At),
                              short_authentication_string |-> Methods, relations |-> Relates])
KeyVerificationReady == Bare([transaction_id |-> Transaction, methods |-> Methods,
                              from_device |-> At, relations |-> Relates])
KeyVerificationDone == Bare([transaction_id |-> Transaction, relations |-> Relates])
KeyVerificationAccept == Bare([transaction_id |-> Transaction, key_agreement_protocol |-> At,
                               hash |-> At, message_authentication_code |-> At,
                               short_authentication_string |-> Methods, commitment |-> At,
                               method |-> Init_(Enum(Val, "odd"), "set"),
                               relations |-> Relates])
KeyVerificationCancel == Bare([transaction_id |-> Transaction, reason |-> Val, code |-> Val,
                               relations |-> Relates])
KeyVerificationKey == Bare([transaction_id |-> Transaction, key |-> At, relations |-> Relates])
KeyVerificationMac == Bare([transaction_id |-> Transaction, mac |-> Many(At), keys |-> At,
                            relations |-> Relates])

\* Calls.  The empty version is version 0, which a number of any value means
\* and which has no party_id.
Party == Only(At, {"version"})
RTCSessionDescriptionInit == Bare([sdp |-> At, type |-> Enum(At, "empty")])
\* Mutant: an empty party_id is not written.
CallInviteUnnamed ==
  Bare([call_id |-> At, offer |-> Many(At), version |-> At, lifetime |-> At,
        party_id |-> [Party EXCEPT !.write = "nonempty"], invitee |-> Only(Has, {"version"})])
CallInvite == Bare([call_id |-> At, offer |-> Many(At), version |-> At, lifetime |-> At,
                    party_id |-> Party, invitee |-> Only(Has, {"version"})])
Candidate == Bare([sdpMid |-> Has, sdpMLineIndex |-> Has, candidate |-> Has])
CallCandidates == Bare([call_id |-> At, candidates |-> Many(At), version |-> At,
                        party_id |-> Party])
CallAnswer == Bare([call_id |-> At, answer |-> Many(At), version |-> At, party_id |-> Party])
CallHangUp == Bare([call_id |-> At, version |-> At, party_id |-> Party,
                    reason |-> Name(HasSet, "set")])
CallSelectAnswer == Bare([call_id |-> At, version |-> At, party_id |-> At,
                          selected_party_id |-> At])
CallReject == Bare([call_id |-> At, version |-> At, party_id |-> At])
CallNegotiate == Bare([call_id |-> At, party_id |-> At, lifetime |-> At,
                       description |-> Many(At)])

MessageSchemas ==
  [Text |-> Text, Emote |-> Emote, Notice |-> Notice, ElementEffect |-> ElementEffect,
   Audio |-> Audio, Video |-> Video, File |-> File, Image |-> Image,
   StickerImage |-> StickerImage, Location |-> Location, UnknownMessage |-> UnknownMessage,
   Reaction |-> Reaction, Redaction |-> Redaction, OlmCipherContent |-> OlmCipherContent,
   OlmEncrypted |-> OlmEncrypted, Encrypted |-> Encrypted, Dummy |-> Dummy,
   RoomKey |-> RoomKey, ForwardedRoomKey |-> ForwardedRoomKey, KeyRequest |-> KeyRequest,
   SecretRequest |-> SecretRequest, SecretSend |-> SecretSend,
   KeyVerificationRequest |-> KeyVerificationRequest,
   KeyVerificationStart |-> KeyVerificationStart, KeyVerificationReady |-> KeyVerificationReady,
   KeyVerificationDone |-> KeyVerificationDone, KeyVerificationAccept |-> KeyVerificationAccept,
   KeyVerificationCancel |-> KeyVerificationCancel, KeyVerificationKey |-> KeyVerificationKey,
   KeyVerificationMac |-> KeyVerificationMac,
   RTCSessionDescriptionInit |-> RTCSessionDescriptionInit, CallInvite |-> CallInvite,
   Candidate |-> Candidate, CallCandidates |-> CallCandidates, CallAnswer |-> CallAnswer,
   CallHangUp |-> CallHangUp, CallSelectAnswer |-> CallSelectAnswer, CallReject |-> CallReject,
   CallNegotiate |-> CallNegotiate]
=============================================================================
