---------------------------- MODULE Collections ----------------------------
(***************************************************************************)
(* Which alternative of an event variant a JSON event becomes.  A sync     *)
(* response holds events in lists, each with a parser of its own that      *)
(* knows the types of that list by heart and skips an event it cannot      *)
(* read; a single event (and one from a cache) is read by from_json of     *)
(* TimelineEvents.  The contents themselves are the business of            *)
(* EventContents and MessageContents: here a content is good or bad.       *)
(***************************************************************************)

\* enum EventType.
DataTypes ==
  {"Direct", "IgnoredUsers", "Tag", "FullyRead", "PushRules", "NhekoHiddenEvents",
   "NhekoEventExpiry", "NhekoInvitePermissions", "ImagePackRooms", "ImagePackInAccountData",
   "Typing", "Receipt"}
KnownTypes ==
  DataTypes \cup
  {"KeyVerificationCancel", "KeyVerificationRequest", "KeyVerificationStart",
   "KeyVerificationAccept", "KeyVerificationKey", "KeyVerificationMac", "KeyVerificationReady",
   "KeyVerificationDone", "Reaction", "RoomKey", "ForwardedRoomKey", "RoomKeyRequest",
   "RoomAliases", "RoomAvatar", "RoomCanonicalAlias", "RoomCreate", "RoomEncrypted",
   "RoomEncryption", "RoomGuestAccess", "RoomHistoryVisibility", "RoomJoinRules", "RoomMember",
   "RoomMessage", "RoomName", "RoomPowerLevels", "RoomTopic", "RoomRedaction",
   "RoomPinnedEvents", "RoomTombstone", "RoomServerAcl", "Sticker", "Presence", "Widget",
   "VectorWidget", "PolicyRuleUser", "PolicyRuleRoom", "PolicyRuleServer", "SpaceChild",
   "SpaceParent", "CallInvite", "CallCandidates", "CallAnswer", "CallHangUp",
   "CallSelectAnswer", "CallReject", "CallNegotiate", "SecretRequest", "SecretSend",
   "ImagePackInRoom", "Dummy"}

\* A name on the wire: that of a known type, one the library does not know, or
\* none at all.
Custom    == "org.example.custom"
NoName    == ""
TypeNames == KnownTypes \cup {Custom, NoName}
getEventType(name) == IF name \in KnownTypes THEN name ELSE "Unsupported"
to_string(type)    == IF type = "Unsupported" THEN NoName ELSE type

\* The types of messages; Invalid: no msgtype, or one that is no string.
MsgTypes == {"Audio", "ElementEffect", "Emote", "File", "Image", "Location", "Notice", "Text",
             "Video", "KeyVerificationRequest", "Unknown", "Invalid"}

\* An event on the wire.  content: null, some other value that is no object, an
\* object its struct accepts, or one it rejects (account data and ephemeral
\* events hand any value to their struct).  algorithm: of an encrypted event;
\* complete: there is an event_id and an origin_server_ts, and what a redaction
\* redacts; sender: there is one, and it is not empty.
Wire(name, msgtype, algorithm, content, state_key, redacted, complete, sender) ==
  [name |-> name, msgtype |-> msgtype, algorithm |-> algorithm, content |-> content,
   state_key |-> state_key, redacted |-> redacted, complete |-> complete, sender |-> sender]
WireContents == {"null", "other", "good", "bad"}
PlainTypes == TypeNames \ (DataTypes \cup {"RoomMessage", "RoomEncrypted"})
PlainWires ==
  [name : PlainTypes, msgtype : {"Invalid"}, algorithm : {"megolm"}, content : WireContents,
   state_key : BOOLEAN, redacted : BOOLEAN, complete : BOOLEAN, sender : BOOLEAN]
DataWires ==
  [name : DataTypes, msgtype : {"Invalid"}, algorithm : {"megolm"}, content : {"good", "bad"},
   state_key : {FALSE}, redacted : {FALSE}, complete : {FALSE},
   sender : {FALSE}]
MessageWires ==
  [name : {"RoomMessage"}, msgtype : MsgTypes, algorithm : {"megolm"}, content : WireContents,
   state_key : {FALSE}, redacted : BOOLEAN, complete : BOOLEAN, sender : {TRUE}]
EncryptedWires ==
  [name : {"RoomEncrypted"}, msgtype : {"Invalid"}, algorithm : {"olm", "megolm", "none"},
   content : WireContents, state_key : {FALSE}, redacted : BOOLEAN, complete : BOOLEAN,
   sender : BOOLEAN]
WireSet == PlainWires \cup DataWires \cup MessageWires \cup EncryptedWires
getMessageType(e) ==
  IF e.content = "null" THEN "Redacted" ELSE IF e.content = "other" THEN "Invalid" ELSE e.msgtype

\* An event in memory: the alternative, the name of an unknown type, and what
\* of the rest the alternative keeps.
Parsed(envelope, content, e) ==
  [envelope |-> envelope, content |-> content,
   name |-> IF content = "Unknown" THEN e.name ELSE to_string(getEventType(e.name)),
   filled |-> content # "Unknown" \/ e.content \in {"good", "bad"}, redacted |-> e.redacted]
Unfilled(envelope, content) ==
  [envelope |-> envelope, content |-> content, name |-> NoName, filled |-> FALSE, redacted |-> FALSE]
Skipped == Unfilled("none", "none")
\* The constructor from JSON, which throws for a content its struct rejects and
\* for what the envelope lacks: every envelope of a room asks for an id and a
\* timestamp, state also for its key, an invitation only for the key, a message
\* to a device only for its sender.
Open == {"Unknown", "Redacted"}
construct(envelope, content, e) ==
  IF \/ envelope \in {"Room", "State", "Encrypted", "Redaction"} /\ ~e.complete
     \/ envelope \in {"State", "Stripped"} /\ ~e.state_key
     \/ envelope = "Device" /\ ~e.sender
     \/ content \notin Open /\ e.content = "bad"
  THEN Skipped ELSE Parsed(envelope, content, e)
-----------------------------------------------------------------------------
\* The timeline of a sync response: the cases of its switch, by the event they
\* construct.
timeline_state ==
  {"RoomAliases", "RoomAvatar", "RoomCanonicalAlias", "RoomCreate", "RoomEncryption",
   "RoomGuestAccess", "RoomHistoryVisibility", "RoomJoinRules", "RoomMember", "RoomName",
   "RoomPowerLevels", "RoomTombstone", "RoomServerAcl", "RoomTopic", "Widget", "VectorWidget",
   "PolicyRuleUser", "PolicyRuleRoom", "PolicyRuleServer", "SpaceChild", "SpaceParent",
   "ImagePackInRoom", "RoomPinnedEvents"}
timeline_room ==
  {"Reaction", "KeyVerificationStart", "KeyVerificationAccept", "KeyVerificationDone",
   "KeyVerificationReady", "KeyVerificationKey", "KeyVerificationMac", "KeyVerificationCancel",
   "Sticker", "CallInvite", "CallCandidates", "CallAnswer", "CallHangUp", "CallSelectAnswer",
   "CallReject", "CallNegotiate"}
timeline_messages ==
  {"Audio", "ElementEffect", "Emote", "File", "Image", "Location", "Notice", "Text", "Video",
   "KeyVerificationRequest"}

timeline_switch(e) ==
  LET type == getEventType(e.name)
      msg  == getMessageType(e)
  IN  CASE type \in timeline_state  -> <<"State", type>>
        [] type \in timeline_room   -> <<"Room", type>>
        [] type = "RoomEncrypted"   -> <<"Encrypted", type>>
        [] type = "RoomRedaction"   -> <<"Redaction", type>>
        [] type = "Unsupported"     -> <<"Room", "Unknown">>
        [] type = "RoomMessage" /\ msg \in timeline_messages -> <<"Room", msg>>
        [] type = "RoomMessage" /\ msg = "Unknown"  -> <<"Room", "UnknownMessage">>
        [] type = "RoomMessage" /\ msg = "Redacted" -> <<"Room", "Unknown">>
        [] OTHER                    -> <<>>

parse_timeline_events(e) ==
  LET alt == IF e.redacted THEN <<IF e.state_key THEN "State" ELSE "Room", "Redacted">>
             ELSE timeline_switch(e)
  IN  IF e.name = NoName \/ alt = <<>> THEN Skipped ELSE construct(alt[1], alt[2], e)

\* The switch of from_json of a single event.
single_state ==
  {"RoomAliases", "RoomAvatar", "RoomCanonicalAlias", "RoomCreate", "RoomEncryption",
   "RoomGuestAccess", "RoomHistoryVisibility", "RoomJoinRules", "RoomMember", "RoomName",
   "RoomPowerLevels", "RoomTombstone", "RoomServerAcl", "RoomTopic", "Widget", "VectorWidget",
   "RoomPinnedEvents", "PolicyRuleUser", "PolicyRuleRoom", "PolicyRuleServer", "SpaceChild",
   "SpaceParent", "ImagePackInRoom"}
single_room ==
  {"Reaction", "KeyVerificationCancel", "KeyVerificationRequest", "KeyVerificationReady",
   "KeyVerificationStart", "KeyVerificationDone", "KeyVerificationKey", "KeyVerificationMac",
   "KeyVerificationAccept", "Sticker", "CallInvite", "CallCandidates", "CallAnswer",
   "CallHangUp", "CallSelectAnswer", "CallReject", "CallNegotiate"}
\* Mutant: a new type of message was added to the timeline's switch only.
single_messages_before_effects ==
  {"Audio", "Emote", "File", "Image", "Location", "Notice", "Text", "Video", "KeyVerificationRequest"}
single_messages ==
  {"Audio", "ElementEffect", "Emote", "File", "Image", "Location", "Notice", "Text", "Video",
   "KeyVerificationRequest"}

single_switch(e) ==
  LET type == getEventType(e.name)
      msg  == getMessageType(e)
  IN  CASE type \in single_state    -> <<"State", type>>
        [] type \in single_room     -> <<"Room", type>>
        [] type = "RoomEncrypted"   -> <<"Encrypted", type>>
        [] type = "RoomRedaction"   -> <<"Redaction", type>>
        [] type = "Unsupported"     -> <<"Room", "Unknown">>
        [] type = "RoomMessage" /\ msg \in single_messages -> <<"Room", msg>>
        [] type = "RoomMessage" /\ msg = "Unknown"  -> <<"Room", "UnknownMessage">>
        [] type = "RoomMessage" /\ msg = "Redacted" -> <<"Room", "Unknown">>
        [] OTHER                    -> <<>>

\* An event whose type is no timeline type leaves the variant at its first
\* alternative, without any content; one that cannot be read becomes Unknown.
\* The type is looked up before the try block.
Default == Unfilled("State", "RoomAliases")
TimelineEvents_from_json(e) ==
  LET alt == IF e.redacted THEN <<IF e.state_key THEN "State" ELSE "Room", "Redacted">>
             ELSE single_switch(e)
      read == construct(alt[1], alt[2], e)
  IN  IF e.name = NoName THEN Skipped
      ELSE IF alt = <<>> THEN Default
      ELSE IF read # Skipped THEN read ELSE construct("Room", "Unknown", e)

\* The state of a room.
state_list ==
  {"RoomAliases", "RoomAvatar", "RoomCanonicalAlias", "RoomCreate", "RoomEncryption",
   "RoomGuestAccess", "RoomHistoryVisibility", "RoomJoinRules", "RoomMember", "RoomName",
   "RoomPowerLevels", "RoomTombstone", "RoomServerAcl", "RoomTopic", "Widget", "VectorWidget",
   "PolicyRuleUser", "PolicyRuleRoom", "PolicyRuleServer", "SpaceChild", "SpaceParent",
   "ImagePackInRoom", "RoomPinnedEvents"}
parse_state_events(e) ==
  LET type == getEventType(e.name)
  IN  IF e.name = NoName THEN Skipped
      ELSE IF e.redacted THEN construct("State", "Redacted", e)
      ELSE IF type \in state_list THEN construct("State", type, e)
      ELSE IF type = "Unsupported" THEN construct("State", "Unknown", e)
      ELSE Skipped

\* The state an invitation shows.
stripped_list ==
  {"RoomAliases", "RoomAvatar", "RoomCanonicalAlias", "RoomCreate", "RoomGuestAccess",
   "RoomHistoryVisibility", "RoomJoinRules", "RoomMember", "RoomName", "RoomPowerLevels",
   "RoomTombstone", "RoomServerAcl", "RoomTopic", "Widget", "VectorWidget", "PolicyRuleUser",
   "PolicyRuleRoom", "PolicyRuleServer", "SpaceChild", "SpaceParent", "RoomPinnedEvents"}
parse_stripped_events(e) ==
  LET type == getEventType(e.name)
  IN  IF e.name = NoName THEN Skipped
      ELSE IF type \in stripped_list THEN construct("Stripped", type, e)
      ELSE IF type = "Unsupported" THEN construct("Stripped", "Unknown", e)
      ELSE Skipped

\* Messages to a device.
device_list ==
  {"Dummy", "RoomKey", "ForwardedRoomKey", "RoomKeyRequest", "KeyVerificationCancel",
   "KeyVerificationRequest", "KeyVerificationStart", "KeyVerificationAccept",
   "KeyVerificationKey", "KeyVerificationMac", "KeyVerificationReady", "KeyVerificationDone",
   "SecretSend", "SecretRequest"}
parse_device_events(e) ==
  LET type == getEventType(e.name)
      encrypted == IF e.content \in {"null", "other"} \/ e.algorithm = "none" THEN Skipped
                   ELSE construct("Device", IF e.algorithm = "olm" THEN "OlmEncrypted" ELSE "Encrypted", e)
  IN  IF e.name = NoName THEN Skipped
      ELSE IF type = "RoomEncrypted" THEN encrypted
      ELSE IF type \in device_list THEN construct("Device", type, e)
      ELSE IF type = "Unsupported" THEN construct("Device", "Unknown", e)
      ELSE Skipped

\* Account data and ephemeral events have an envelope without ids, and a
\* content that has to be read whatever it is.
ephemeral(content, e) ==
  IF content \notin Open /\ e.content = "bad" THEN Skipped ELSE Parsed("Ephemeral", content, e)
account_data_list ==
  {"Direct", "IgnoredUsers", "Tag", "FullyRead", "PushRules", "NhekoHiddenEvents",
   "NhekoEventExpiry", "NhekoInvitePermissions", "ImagePackRooms", "ImagePackInAccountData"}
parse_room_account_data_events(e) ==
  LET type == getEventType(e.name)
  IN  IF e.name = NoName THEN Skipped
      ELSE IF type \in account_data_list THEN ephemeral(type, e)
      ELSE IF type = "Unsupported" THEN ephemeral("Unknown", e)
      ELSE Skipped
ephemeral_list == {"Typing", "Receipt"}
parse_ephemeral_events(e) ==
  LET type == getEventType(e.name)
  IN  IF e.name = NoName THEN Skipped
      ELSE IF type \in ephemeral_list THEN ephemeral(type, e)
      ELSE IF type = "Unsupported" THEN ephemeral("Unknown", e)
      ELSE Skipped

\* Mutant: the unsigned data is not written.
event_without_unsigned(p) ==
  Wire(p.name, "Invalid", "megolm", "good", p.envelope = "State", FALSE, TRUE, TRUE)

\* to_json of an alternative.  The content of a redacted event is not written,
\* the type of any event but an unknown one is the name of its enumerator, and
\* a content that was left at its default is written like any other.  Whether the
\* sender is empty makes no difference to the reader of a single event.
event_to_json(p) ==
  Wire(p.name,
       IF p.name = "RoomMessage" /\ p.content \notin Open
       THEN IF p.content = "UnknownMessage" THEN "Unknown" ELSE p.content ELSE "Invalid",
       "megolm",
       IF p.content = "Redacted" \/ (p.content = "Unknown" /\ ~p.filled) THEN "null" ELSE "good",
       p.envelope \in {"State", "Stripped"}, p.redacted, TRUE, TRUE)
=============================================================================
