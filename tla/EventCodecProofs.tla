-------------------------- MODULE EventCodecProofs --------------------------
(***************************************************************************)
(* Proofs about EventCodec: timeline events come back as the alternative   *)
(* they were, the parsers of the lists agree, messages keep their          *)
(* relations, for lists of any length and whatever events they relate to,  *)
(* and every struct reads what it wrote and keeps its members.             *)
(***************************************************************************)
EXTENDS EventCodec, Extrema

USE EventCodecAssumption

-----------------------------------------------------------------------------
(* Where documents and events come from.                                   *)

\* A document that arrives, or nothing yet.
LEMMA CodecInit == Init => CodecInv
  <1> SUFFICES ASSUME Init PROVE CodecInv
    OBVIOUS
  <1>1. RelatedMessage # TimelineEvent /\ RelatedMessage \in Special /\ TimelineEvent \in Special
    BY DEF RelatedMessage, TimelineEvent, Special
  <1>2. phase \in {"received", "blank"}
    BY DEF Init
  <1>3. schema = TimelineEvent => doc \in WireSet /\ phase = "received"
    BY <1>1 DEF Init
  <1>4. schema = RelatedMessage /\ phase = "received" => doc \in ContentSet(RelationLists)
    BY <1>1 DEF Init
  <1>5. TimelineInv /\ MessageInv
    BY <1>2, <1>3, <1>4 DEF TimelineInv, MessageInv
  <1>6. schema \notin Special => schema \in Names /\ (phase = "received" => doc \in Documents(SchemaOf(schema)))
    BY <1>1 DEF Init
  <1>7. /\ phase # "held" /\ phase # "loaded" /\ phase # "lost"
        /\ ~ (phase \in {"stored", "restarted", "loaded", "lost"})
    BY <1>2
  <1>8. StructInv
    BY <1>6, <1>7 DEF StructInv
  <1> QED
    BY <1>5, <1>8 DEF CodecInv

\* A message with relations is never refused.
LEMMA ReadRelated ==
    ASSUME NEW held, NEW dropped, Read(held, dropped), schema = RelatedMessage
    PROVE  event' = message_from_json(doc) /\ phase' = held
  BY DEF Read, Hold, Special

\* Events of a timeline have parsers of their own.
LEMMA ReadTimeline ==
    ASSUME NEW held, NEW dropped, Read(held, dropped)
    PROVE  schema # TimelineEvent
  BY DEF Read, Special, RelatedMessage, TimelineEvent

\* Any other struct is read field by field.
LEMMA ReadStruct ==
    ASSUME NEW held, NEW dropped, Read(held, dropped), schema \notin Special
    PROVE  LET e == from_json(SchemaOf(schema), doc)
           IN  \/ rejected(e) /\ event' = Nothing /\ phase' = dropped
               \/ ~ rejected(e) /\ event' = e /\ phase' = held
  BY DEF Read, Hold, Special, RelatedMessage

\* Such a struct knows where it comes from too.
LEMMA StructNext == StructInv /\ [Next]_vars => StructInv'
  <1> SUFFICES ASSUME StructInv, [Next]_vars, schema \notin Special PROVE StructInv'
    <2>1. [Next]_vars => schema' = schema
      <3>1. Parse \/ Compose \/ Store \/ Restart \/ Load \/ UNCHANGED vars => schema' = schema
        BY DEF Parse, Compose, Store, Restart, Load, vars
      <3> QED BY <3>1 DEF Next
    <2> QED BY <2>1 DEF StructInv
  <1>0. RelatedMessage \in Special /\ TimelineEvent \in Special
    BY DEF Special
  <1> DEFINE S == SchemaOf(schema)
             E == from_json(S, doc)
  <1>a. schema \in Names
    BY DEF StructInv
  <1>1. CASE Parse
    <2>1. \/ rejected(E) /\ event' = Nothing /\ phase' = "rejected"
          \/ ~ rejected(E) /\ event' = E /\ phase' = "held"
      BY <1>0, <1>1, ReadStruct DEF Parse
    <2>2. doc \in Documents(S) /\ UNCHANGED <<schema, doc, original>>
      BY <1>1 DEF Parse, StructInv
    <2> HIDE DEF S
    <2>3. phase' = "held" => ~ rejected(event') /\ \E d \in Documents(S) : event' = from_json(S, d)
      BY <2>1, <2>2
    <2> QED
      BY <1>a, <2>1, <2>2, <2>3 DEF StructInv, StructSource, S
  <1>2. CASE Compose
    <2>1. event' \in Structs(S) /\ phase' = "held" /\ UNCHANGED <<schema, doc, original>>
      BY <1>0, <1>2 DEF Compose
    <2> QED
      BY <1>a, <2>1 DEF StructInv, StructSource
  <1>3. CASE Store
    <2>1. /\ ~ unwritable(S, event) /\ doc' = to_json(S, event) /\ phase = "held"
          /\ phase' = "stored" /\ original' = event /\ UNCHANGED <<schema, event>>
      BY <1>0, <1>3 DEF Store
    <2>2. StructSource(event)
      BY <2>1 DEF StructInv
    <2> QED
      BY <1>a, <2>1, <2>2 DEF StructInv, StructSource
  <1>4. CASE Restart
    BY <1>4 DEF Restart, StructInv, StructSource
  <1>5. CASE Load
    <2>1. \/ rejected(E) /\ event' = Nothing /\ phase' = "lost"
          \/ ~ rejected(E) /\ event' = E /\ phase' = "loaded"
      BY <1>0, <1>5, ReadStruct DEF Load
    <2>2. phase = "restarted" /\ UNCHANGED <<schema, doc, original>>
      BY <1>5 DEF Load
    <2>3. StructSource(original) /\ ~ unwritable(S, original) /\ doc = to_json(S, original)
      BY <2>2 DEF StructInv
    <2> QED
      BY <1>a, <2>1, <2>2, <2>3 DEF StructInv, StructSource
  <1>6. CASE UNCHANGED vars
    BY <1>6 DEF vars, StructInv, StructSource
  <1> QED
    BY <1>1, <1>2, <1>3, <1>4, <1>5, <1>6 DEF Next

\* Each step of the life of an event hands on where it comes from.
LEMMA CodecNext == CodecInv /\ [Next]_vars => CodecInv'
  <1> SUFFICES ASSUME CodecInv, [Next]_vars PROVE CodecInv'
    OBVIOUS
  <1> USE DEF CodecInv
  <1>s. StructInv'
    BY StructNext
  <1> SUFFICES TimelineInv' /\ MessageInv'
    BY <1>s
  <1> HIDE DEF CodecInv
  <1>t. TimelineInv /\ MessageInv
    BY DEF CodecInv
  <1>0. RelatedMessage # TimelineEvent /\ RelatedMessage \in Special /\ TimelineEvent \in Special
    BY DEF RelatedMessage, TimelineEvent, Special
  <1>1. CASE Parse
    <2>1. TimelineInv'
      <3> SUFFICES ASSUME schema = TimelineEvent PROVE TimelineInv'
        BY <1>t, <1>1 DEF TimelineInv, Parse
      <3>1. LET e == parse_timeline_events(doc) IN Hold(e, e = Skipped, "held", "rejected")
        BY <1>t, <1>1, ReadTimeline DEF Parse
      <3>2. doc \in WireSet
        BY <1>t, <1>1 DEF Parse, TimelineInv
      <3> QED
        BY <3>1, <3>2 DEF Hold, TimelineInv, TimelineSource
    <2>2. MessageInv'
      <3> SUFFICES ASSUME schema = RelatedMessage PROVE MessageInv'
        BY <1>t, <1>1 DEF MessageInv, Parse
      <3>1. event' = message_from_json(doc) /\ phase' = "held"
        BY <1>t, <1>0, <1>1, ReadRelated DEF Parse
      <3>2. doc \in ContentSet(RelationLists)
        BY <1>t, <1>1 DEF Parse, MessageInv
      <3> QED
        BY <3>1, <3>2 DEF MessageInv, MessageSource
    <2> QED BY <2>1, <2>2
  <1>2. CASE Compose
    <2>1. TimelineInv'
      BY <1>t, <1>2 DEF Compose, TimelineInv
    <2>2. MessageInv'
      BY <1>t, <1>2 DEF Compose, MessageInv, MessageSource
    <2> QED BY <2>1, <2>2
  <1>3. CASE Store
    <2>1. TimelineInv'
      BY <1>t, <1>0, <1>3 DEF Store, TimelineInv, TimelineSource
    <2>2. MessageInv'
      BY <1>t, <1>0, <1>3 DEF Store, MessageInv, MessageSource
    <2> QED BY <2>1, <2>2
  <1>4. CASE Restart
    BY <1>t, <1>4 DEF Restart, TimelineInv, MessageInv, TimelineSource, MessageSource
  <1>5. CASE Load
    <2>1. TimelineInv'
      <3> SUFFICES ASSUME schema = TimelineEvent PROVE TimelineInv'
        BY <1>t, <1>5 DEF TimelineInv, Load
      <3>1. LET e == TimelineEvents_from_json(doc) IN Hold(e, e = Skipped, "loaded", "lost")
        BY <1>t, <1>5, ReadTimeline DEF Load
      <3> QED
        BY <1>t, <1>5, <3>1 DEF Load, Hold, TimelineInv, TimelineSource
    <2>2. MessageInv'
      <3> SUFFICES ASSUME schema = RelatedMessage PROVE MessageInv'
        BY <1>t, <1>5 DEF MessageInv, Load
      <3>1. event' = message_from_json(doc) /\ phase' = "loaded"
        BY <1>t, <1>0, <1>5, ReadRelated DEF Load
      <3> QED
        BY <1>t, <1>5, <3>1 DEF Load, MessageInv, MessageSource
    <2> QED BY <2>1, <2>2
  <1>6. CASE UNCHANGED vars
    BY <1>t, <1>6 DEF vars, TimelineInv, MessageInv, TimelineSource, MessageSource
  <1> QED
    BY <1>t, <1>1, <1>2, <1>3, <1>4, <1>5, <1>6 DEF Next

\* Every document that is read again was written from an event that arrived or
\* that the application put together.
THEOREM CodecInvariant == Spec => []CodecInv
  BY CodecInit, CodecNext, PTL DEF Spec

-----------------------------------------------------------------------------
(* The parsers of the lists.                                               *)

\* What every event on the wire has.
LEMMA WireFacts ==
    ASSUME NEW e \in WireSet
    PROVE  /\ e.name \in TypeNames /\ e.msgtype \in MsgTypes /\ e.content \in WireContents
           /\ e.state_key \in BOOLEAN /\ e.redacted \in BOOLEAN /\ e.complete \in BOOLEAN
           /\ e.sender \in BOOLEAN
           /\ e.name \in DataTypes => ~ e.redacted
           /\ e.algorithm # "none" \/ e.name = "RoomEncrypted"
  <1>1. "RoomMessage" \notin DataTypes /\ "RoomEncrypted" \notin DataTypes
    BY DEF DataTypes
  <1>2. DataTypes \subseteq TypeNames /\ "RoomMessage" \in TypeNames /\ "RoomEncrypted" \in TypeNames
    BY DEF TypeNames, KnownTypes, DataTypes
  <1>3. "Invalid" \in MsgTypes
    BY DEF MsgTypes
  <1>4. PlainTypes \subseteq TypeNames /\ PlainTypes \cap DataTypes = {}
    BY DEF PlainTypes
  <1>5. CASE e \in PlainWires
    BY <1>3, <1>4, <1>5 DEF PlainWires
  <1>6. CASE e \in DataWires
    BY <1>2, <1>3, <1>6 DEF DataWires, WireContents
  <1>7. CASE e \in MessageWires
    BY <1>1, <1>2, <1>7 DEF MessageWires
  <1>8. CASE e \in EncryptedWires
    BY <1>1, <1>2, <1>3, <1>8 DEF EncryptedWires
  <1> QED
    BY <1>5, <1>6, <1>7, <1>8 DEF WireSet

\* The tables of the switches, compared entry by entry: state is the same in the
\* timeline, alone and in the state list, and an invitation leaves out two types; alone
\* there is one type more of messages; and between them the lists have every type there
\* is, but for a presence.
LEMMA SameTables ==
    /\ single_state = timeline_state /\ state_list = timeline_state
    /\ stripped_list = state_list \ {"RoomEncryption", "ImagePackInRoom"}
    /\ single_room = timeline_room \cup {"KeyVerificationRequest"}
    /\ single_messages = timeline_messages
    /\ timeline_messages = MsgTypes \ {"Unknown", "Invalid"}
    /\ DataTypes = account_data_list \cup ephemeral_list
    /\ KnownTypes = timeline_state \cup timeline_room \cup device_list \cup DataTypes \cup
                      {"RoomMessage", "RoomEncrypted", "RoomRedaction", "Presence"}
  <1>1. single_state = timeline_state
    BY DEF single_state, timeline_state
  <1>2. state_list = timeline_state
    BY DEF state_list, timeline_state
  <1>3. stripped_list = state_list \ {"RoomEncryption", "ImagePackInRoom"}
    BY DEF stripped_list, state_list
  <1>4. single_room = timeline_room \cup {"KeyVerificationRequest"}
    BY DEF single_room, timeline_room
  <1>5. single_messages = timeline_messages /\ timeline_messages = MsgTypes \ {"Unknown", "Invalid"}
    BY DEF single_messages, timeline_messages, MsgTypes
  <1>6. DataTypes = account_data_list \cup ephemeral_list
    BY DEF DataTypes, account_data_list, ephemeral_list
  <1>7. KnownTypes = timeline_state \cup timeline_room \cup device_list \cup DataTypes \cup
                       {"RoomMessage", "RoomEncrypted", "RoomRedaction", "Presence"}
    BY DEF KnownTypes, timeline_state, timeline_room, device_list, DataTypes
  <1> QED
    BY <1>1, <1>2, <1>3, <1>4, <1>5, <1>6, <1>7

\* The types of a timeline belong to one case each, and none is called like what
\* stands for no type, for an unknown or for a redacted one.
LEMMA TypeFacts ==
    /\ timeline_state \cap timeline_room = {}
    /\ \A t \in {"RoomMessage", "RoomEncrypted", "RoomRedaction", "Unsupported",
                 "KeyVerificationRequest", "Unknown", "Redacted", "UnknownMessage", NoName, Custom} :
         t \notin timeline_state \cup timeline_room
    /\ {"RoomMessage", "RoomEncrypted", "RoomRedaction", "Presence"} \subseteq KnownTypes
    /\ timeline_state \subseteq KnownTypes /\ timeline_room \subseteq KnownTypes
    /\ "Unsupported" \notin KnownTypes /\ NoName \notin KnownTypes /\ Custom \notin KnownTypes
    /\ "Unknown" \notin KnownTypes /\ "Redacted" \notin KnownTypes
    /\ "UnknownMessage" \notin KnownTypes /\ "KeyVerificationRequest" \in KnownTypes
  <1>1. timeline_state \cap timeline_room = {}
    BY DEF timeline_state, timeline_room
  <1>2. \A t \in {"RoomMessage", "RoomEncrypted", "RoomRedaction", "Unsupported",
                  "KeyVerificationRequest", "Unknown", "Redacted", "UnknownMessage", NoName, Custom} :
          t \notin timeline_state \cup timeline_room
    <2>1. \A t \in {"RoomMessage", "RoomEncrypted", "RoomRedaction", "Unsupported",
                   "KeyVerificationRequest", "Unknown", "Redacted", "UnknownMessage", NoName, Custom} :
            t \notin timeline_state
      BY DEF timeline_state, NoName, Custom
    <2>2. \A t \in {"RoomMessage", "RoomEncrypted", "RoomRedaction", "Unsupported",
                   "KeyVerificationRequest", "Unknown", "Redacted", "UnknownMessage", NoName, Custom} :
            t \notin timeline_room
      BY DEF timeline_room, NoName, Custom
    <2> QED BY <2>1, <2>2
  <1>3. /\ {"RoomMessage", "RoomEncrypted", "RoomRedaction", "Presence"} \subseteq KnownTypes
        /\ timeline_state \subseteq KnownTypes /\ timeline_room \subseteq KnownTypes
    BY SameTables
  <1>4. /\ "Unsupported" \notin KnownTypes /\ NoName \notin KnownTypes /\ Custom \notin KnownTypes
        /\ "Unknown" \notin KnownTypes /\ "Redacted" \notin KnownTypes
        /\ "UnknownMessage" \notin KnownTypes /\ "KeyVerificationRequest" \in KnownTypes
    BY DEF KnownTypes, DataTypes, NoName, Custom
  <1> QED
    BY <1>1, <1>2, <1>3, <1>4

\* An event that was read is not what stands for none.
LEMMA ParsedNotSkipped ==
    ASSUME NEW envelope, envelope # "none", NEW content, NEW e
    PROVE  Parsed(envelope, content, e) # Skipped
  BY DEF Parsed, Skipped, Unfilled

\* The switch of the timeline, case by case.
LEMMA Alternatives ==
    ASSUME NEW e
    PROVE  /\ getEventType(e.name) \in timeline_state =>
                timeline_switch(e) = <<"State", getEventType(e.name)>>
           /\ getEventType(e.name) \in timeline_room =>
                timeline_switch(e) = <<"Room", getEventType(e.name)>>
           /\ getEventType(e.name) = "RoomEncrypted" =>
                timeline_switch(e) = <<"Encrypted", "RoomEncrypted">>
           /\ getEventType(e.name) = "RoomRedaction" =>
                timeline_switch(e) = <<"Redaction", "RoomRedaction">>
           /\ getEventType(e.name) = "Unsupported" =>
                timeline_switch(e) = <<"Room", "Unknown">>
           /\ getEventType(e.name) = "RoomMessage" /\ getMessageType(e) \in MsgTypes \cup {"Redacted"} =>
                LET msg == getMessageType(e) IN
                timeline_switch(e) =
                  IF msg = "Redacted" THEN <<"Room", "Unknown">>
                  ELSE IF msg = "Unknown" THEN <<"Room", "UnknownMessage">>
                  ELSE IF msg = "Invalid" THEN <<>> ELSE <<"Room", msg>>
           /\ getEventType(e.name) \notin timeline_state \cup timeline_room \cup
                {"RoomEncrypted", "RoomRedaction", "Unsupported", "RoomMessage"} =>
                timeline_switch(e) = <<>>
  <1>1. "Redacted" \notin MsgTypes
    BY DEF MsgTypes
  <1> QED
    BY <1>1, TypeFacts, SameTables DEF timeline_switch

\* The two switches have the same cases but for a verification request that is no
\* message.
LEMMA SwitchesAgree ==
    ASSUME NEW e, getEventType(e.name) # "KeyVerificationRequest"
    PROVE  single_switch(e) = timeline_switch(e)
  BY SameTables DEF single_switch, timeline_switch

\* What to_json writes for an event in memory.
LEMMA Written ==
    ASSUME NEW p, NEW w, w = event_to_json(p)
    PROVE  /\ w.name = p.name
           /\ p.content = "Redacted" \/ (p.content = "Unknown" /\ ~ p.filled) => w.content = "null"
           /\ ~ (p.content = "Redacted" \/ (p.content = "Unknown" /\ ~ p.filled)) => w.content = "good"
           /\ w.msgtype = (IF p.name = "RoomMessage" /\ p.content \notin Open
                           THEN IF p.content = "UnknownMessage" THEN "Unknown" ELSE p.content
                           ELSE "Invalid")
           /\ w.state_key <=> p.envelope \in {"State", "Stripped"}
           /\ w.redacted = p.redacted
           /\ w.complete
  BY DEF event_to_json, Wire

\* A single event of a timeline type with all its fields is read as the alternative
\* of that type.
LEMMA Fetched ==
    ASSUME NEW w, NEW env, NEW content, env # "none",
           ~ w.redacted, w.complete, env \in {"State", "Stripped"} => w.state_key,
           w.content # "bad", w.name # NoName, w.name # "KeyVerificationRequest",
           timeline_switch(w) = <<env, content>>,
           env # "Device"
    PROVE  TimelineEvents_from_json(w) = Parsed(env, content, w)
  <1>1. construct(env, content, w) = Parsed(env, content, w)
    BY DEF construct
  <1>2. Parsed(env, content, w) # Skipped
    BY ParsedNotSkipped
  <1>3. single_switch(w) = <<env, content>>
    <2>1. getEventType(w.name) # "KeyVerificationRequest"
      BY DEF getEventType
    <2> QED BY <2>1, SwitchesAgree
  <1> QED
    BY <1>1, <1>2, <1>3 DEF TimelineEvents_from_json

\* A timeline event that is written and read alone is the same, or its type is
\* lost with its content and it is refused.
LEMMA TimelineReload ==
    ASSUME NEW e \in WireSet, NEW p, p = parse_timeline_events(e), p # Skipped,
           NEW w, w = event_to_json(p)
    PROVE  \/ TimelineEvents_from_json(w) = p
           \/ /\ TimelineEvents_from_json(w) = Skipped
              /\ p.content = "Redacted" /\ p.name = NoName
  <1> DEFINE type == getEventType(e.name)
  <1>0. /\ e.name \in TypeNames /\ e.msgtype \in MsgTypes /\ e.content \in WireContents
        /\ e.state_key \in BOOLEAN /\ e.redacted \in BOOLEAN
    BY WireFacts
  <1>1. e.name # NoName /\ (type = e.name \/ type = "Unsupported")
    BY DEF parse_timeline_events, getEventType
  <1>2. CASE e.redacted
    <2> DEFINE env == IF e.state_key THEN "State" ELSE "Room"
    <2>1. p = Parsed(env, "Redacted", e)
      BY <1>2 DEF parse_timeline_events, construct
    <2>2. p = [envelope |-> env, content |-> "Redacted", name |-> to_string(type),
               filled |-> TRUE, redacted |-> e.redacted]
      BY <2>1 DEF Parsed
    <2>3. /\ p.envelope = env /\ p.content = "Redacted" /\ p.name = to_string(type)
          /\ p.redacted = e.redacted
      BY <2>2
    <2>4. /\ w.name = to_string(type) /\ w.content = "null" /\ (w.state_key <=> env = "State")
          /\ w.redacted = e.redacted /\ w.complete
      BY <2>3, Written
    <2>5. CASE to_string(type) = NoName
      BY <2>3, <2>4, <2>5 DEF TimelineEvents_from_json
    <2>6. CASE to_string(type) # NoName
      <3>1. type \in KnownTypes /\ to_string(type) = type /\ getEventType(w.name) = type
        BY <1>1, <2>4, <2>6, TypeFacts DEF to_string, getEventType
      <3>2. (IF w.state_key THEN "State" ELSE "Room") = env
        BY <2>4
      <3>3. construct(env, "Redacted", w) = Parsed(env, "Redacted", w)
        BY <2>4 DEF construct, Open
      <3>4. Parsed(env, "Redacted", w) = p
        BY <2>2, <2>4, <3>1 DEF Parsed
      <3> HIDE DEF env
      <3> QED
        BY <1>2, <2>4, <2>6, <3>2, <3>3, <3>4 DEF TimelineEvents_from_json
    <2> QED BY <2>5, <2>6
  <1>3. ASSUME ~ e.redacted, NEW env, NEW content, timeline_switch(e) = <<env, content>>,
               env \in {"State", "Room", "Encrypted", "Redaction"}
        PROVE  /\ p = Parsed(env, content, e)
               /\ p.envelope = env /\ p.content = content
               /\ p.name = (IF content = "Unknown" THEN e.name ELSE to_string(type))
               /\ p.filled <=> content # "Unknown" \/ e.content \in {"good", "bad"}
               /\ ~ p.redacted
    <2>1. p = construct(env, content, e)
      BY <1>3 DEF parse_timeline_events
    <2>2. p = Parsed(env, content, e)
      BY <2>1 DEF construct
    <2>3. p.envelope = env /\ p.content = content
      BY <2>2 DEF Parsed
    <2>4. p.name = (IF content = "Unknown" THEN e.name ELSE to_string(type))
      BY <2>2 DEF Parsed
    <2>5. p.filled = (content # "Unknown" \/ e.content \in {"good", "bad"})
      BY <2>2 DEF Parsed
    <2>6. p.redacted = e.redacted
      BY <2>2 DEF Parsed
    <2> QED
      BY <1>3, <2>2, <2>3, <2>4, <2>5, <2>6
  <1>4. ASSUME ~ e.redacted, type \in KnownTypes, NEW env \in {"State", "Room", "Encrypted", "Redaction"},
               timeline_switch(e) = <<env, type>>, type \notin {"RoomMessage", "KeyVerificationRequest"},
               \A x : getEventType(x.name) = type => timeline_switch(x) = <<env, type>>
        PROVE  TimelineEvents_from_json(w) = p
    <2>1. type # "Unknown" /\ type # "Redacted" /\ to_string(type) = type /\ type # NoName
      BY <1>4, TypeFacts DEF to_string
    <2>2. /\ p = Parsed(env, type, e) /\ p.envelope = env /\ p.content = type
          /\ p.name = type /\ ~ p.redacted
      BY <1>3, <1>4, <2>1
    <2>3. /\ w.name = type /\ w.content = "good" /\ (w.state_key <=> env = "State")
          /\ ~ w.redacted /\ w.redacted = p.redacted /\ w.complete
      BY <1>4, <2>1, <2>2, Written
    <2>4. getEventType(w.name) = type
      BY <1>4, <2>3 DEF getEventType
    <2>5. timeline_switch(w) = <<env, type>>
      BY <1>4, <2>4
    <2>6. TimelineEvents_from_json(w) = Parsed(env, type, w)
      <3> HIDE DEF type
      <3> QED BY <1>4, <2>1, <2>3, <2>5, Fetched
    <2>7. p.redacted = e.redacted
      BY <2>2 DEF Parsed
    <2>8. Parsed(env, type, w) = Parsed(env, type, e)
      BY <2>1, <2>3, <2>4, <2>7 DEF Parsed
    <2> QED BY <2>2, <2>6, <2>8
  <1>9. getMessageType(e) \in MsgTypes \cup {"Redacted"}
    BY <1>0 DEF getMessageType, MsgTypes
  <1>5. CASE ~ e.redacted /\ type \in timeline_state \cup timeline_room \cup {"RoomEncrypted", "RoomRedaction"}
    BY <1>4, <1>5, Alternatives, TypeFacts
  <1>6. CASE ~ e.redacted /\ type = "Unsupported"
    <2>1. /\ p = Parsed("Room", "Unknown", e) /\ p.envelope = "Room" /\ p.content = "Unknown"
          /\ p.name = e.name /\ ~ p.redacted /\ (p.filled <=> e.content \in {"good", "bad"})
      BY <1>3, <1>6, Alternatives
    <2>2. w.name = e.name /\ ~ w.state_key /\ ~ w.redacted /\ w.complete
      BY <2>1, Written
    <2>3. w.content \in {"null", "good"} /\ (w.content = "good" <=> e.content \in {"good", "bad"})
      BY <2>1, Written
    <2>4. getEventType(w.name) = "Unsupported" /\ w.name # "KeyVerificationRequest"
      BY <1>6, <2>2, TypeFacts DEF getEventType
    <2>5. TimelineEvents_from_json(w) = Parsed("Room", "Unknown", w)
      BY <1>1, <2>2, <2>3, <2>4, Alternatives, Fetched
    <2>6. w.redacted = e.redacted
      BY <2>1, Written DEF Parsed
    <2>7. w.content \in {"good", "bad"} <=> e.content \in {"good", "bad"}
      BY <2>3
    <2>8. Parsed("Room", "Unknown", w) = Parsed("Room", "Unknown", e)
      BY <2>2, <2>6, <2>7 DEF Parsed
    <2> QED BY <2>1, <2>5, <2>8
  <1>7. CASE ~ e.redacted /\ type = "RoomMessage"
    <2> DEFINE msg == getMessageType(e)
    <2>1. e.name = "RoomMessage" /\ to_string(type) = "RoomMessage"
      BY <1>1, <1>7 DEF to_string
    <2>2. getEventType("RoomMessage") = "RoomMessage"
      BY TypeFacts DEF getEventType
    <2>3. CASE msg = "Redacted"
      <3>1. e.content = "null"
        BY <1>0, <2>3 DEF getMessageType, MsgTypes
      <3>2. timeline_switch(e) = <<"Room", "Unknown">>
        BY <1>7, <1>9, <2>3, Alternatives
      <3>3. /\ p = Parsed("Room", "Unknown", e) /\ p.envelope = "Room" /\ p.content = "Unknown"
            /\ p.name = "RoomMessage" /\ ~ p.redacted /\ ~ p.filled
        BY <1>3, <1>7, <2>1, <3>1, <3>2
      <3>4. /\ w.name = "RoomMessage" /\ w.content = "null" /\ ~ w.state_key
            /\ ~ w.redacted /\ w.complete
        BY <3>3, Written
      <3>5. timeline_switch(w) = <<"Room", "Unknown">>
        BY <2>2, <3>4, Alternatives DEF getMessageType
      <3>6. TimelineEvents_from_json(w) = Parsed("Room", "Unknown", w)
        BY <3>4, <3>5, Fetched DEF NoName
      <3>7. w.redacted = e.redacted
        BY <3>3, Written DEF Parsed
      <3>8. Parsed("Room", "Unknown", w) = Parsed("Room", "Unknown", e)
        BY <2>1, <3>1, <3>4, <3>7 DEF Parsed
      <3> QED BY <3>3, <3>6, <3>8
    <2>4. CASE msg \notin {"Redacted", "Invalid"}
      <3> DEFINE content == IF msg = "Unknown" THEN "UnknownMessage" ELSE msg
      <3>1. msg \in MsgTypes \ {"Redacted", "Invalid"} /\ content \notin {"Unknown", "Redacted", "none"}
        BY <1>0, <2>4 DEF getMessageType, MsgTypes
      <3>2. timeline_switch(e) = <<"Room", content>>
        BY <1>7, <1>9, <2>4, Alternatives
      <3>3. /\ p = Parsed("Room", content, e) /\ p.envelope = "Room" /\ p.content = content
            /\ p.name = "RoomMessage" /\ ~ p.redacted
        BY <1>3, <1>7, <2>1, <3>1, <3>2
      <3>4. /\ w.name = "RoomMessage" /\ w.content = "good" /\ ~ w.state_key
            /\ ~ w.redacted /\ w.complete
        BY <3>1, <3>3, Written
      <3>5. w.msgtype = msg
        BY <3>1, <3>3, Written DEF MsgTypes, Open
      <3>6. getMessageType(w) = msg
        BY <3>4, <3>5 DEF getMessageType
      <3>7. timeline_switch(w) = <<"Room", content>>
        BY <1>9, <2>2, <2>4, <3>4, <3>6, Alternatives
      <3>8. w.redacted = e.redacted
        BY <3>3, Written DEF Parsed
      <3> HIDE DEF content, msg
      <3>9. TimelineEvents_from_json(w) = Parsed("Room", content, w)
        BY <3>4, <3>7, Fetched DEF NoName
      <3>10. Parsed("Room", content, w) = Parsed("Room", content, e)
        BY <2>1, <3>1, <3>4, <3>8 DEF Parsed
      <3> QED BY <3>3, <3>9, <3>10
    <2>5. CASE msg = "Invalid"
      BY <1>7, <1>9, <2>5, Alternatives DEF parse_timeline_events
    <2> QED BY <2>3, <2>4, <2>5
  <1>8. CASE /\ ~ e.redacted
             /\ type \notin timeline_state \cup timeline_room \cup
                  {"RoomEncrypted", "RoomRedaction", "Unsupported", "RoomMessage"}
    BY <1>8, Alternatives DEF parse_timeline_events
  <1> QED
    BY <1>2, <1>5, <1>6, <1>7, <1>8

\* A cached event comes back as the alternative it was: the same struct, type and
\* unknown content, redacted or not.
THEOREM AlternativesAreKept == Spec => []KeepsAlternative
  <1>1. CodecInv => KeepsAlternative
    BY TimelineReload DEF CodecInv, TimelineInv, TimelineSource, KeepsAlternative
  <1> QED
    BY <1>1, CodecInvariant, PTL

\* An event that has what its envelope asks for is not skipped by its constructor.
LEMMA Constructed ==
    ASSUME NEW e, NEW env, NEW content, env # "none", e.content # "bad",
           env \in {"Room", "State", "Encrypted", "Redaction"} => e.complete,
           env \in {"State", "Stripped"} => e.state_key, env = "Device" => e.sender
    PROVE  construct(env, content, e) # Skipped
  BY ParsedNotSkipped DEF construct

\* What a timeline keeps is the same alternative when it is fetched alone.
LEMMA LineAgrees ==
    ASSUME NEW e \in WireSet, parse_timeline_events(e) # Skipped
    PROVE  TimelineEvents_from_json(e) = parse_timeline_events(e)
  <1>1. CASE e.redacted
    BY <1>1 DEF parse_timeline_events, TimelineEvents_from_json
  <1>2. CASE ~ e.redacted
    <2>1. timeline_switch(e) # <<>>
      BY <1>2 DEF parse_timeline_events
    <2>2. getEventType(e.name) # "KeyVerificationRequest"
      BY <2>1, TypeFacts, Alternatives
    <2>3. single_switch(e) = timeline_switch(e)
      BY <2>2, SwitchesAgree
    <2> QED
      BY <1>2, <2>3 DEF parse_timeline_events, TimelineEvents_from_json
  <1> QED BY <1>1, <1>2

\* What is read alone with a struct of its own is kept by a timeline.
LEMMA SingleAgrees ==
    ASSUME NEW e \in WireSet, e.name # "KeyVerificationRequest",
           TimelineEvents_from_json(e).filled, TimelineEvents_from_json(e).content # "Unknown"
    PROVE  parse_timeline_events(e) = TimelineEvents_from_json(e)
  <1> DEFINE alt == IF e.redacted THEN <<IF e.state_key THEN "State" ELSE "Room", "Redacted">>
                    ELSE timeline_switch(e)
             read == construct(alt[1], alt[2], e)
  <1>1. getEventType(e.name) # "KeyVerificationRequest"
    BY DEF getEventType
  <1>2. single_switch(e) = timeline_switch(e)
    BY <1>1, SwitchesAgree
  <1>3. /\ ~ Skipped.filled /\ ~ Default.filled
        /\ \A w : Parsed("Room", "Unknown", w).content = "Unknown"
    BY DEF Skipped, Default, Unfilled, Parsed
  <1>4. construct("Room", "Unknown", e) # TimelineEvents_from_json(e)
    BY <1>3 DEF construct
  <1>5. /\ e.name = NoName => TimelineEvents_from_json(e) = Skipped
        /\ e.name # NoName /\ alt = <<>> => TimelineEvents_from_json(e) = Default
        /\ e.name # NoName /\ alt # <<>> =>
             TimelineEvents_from_json(e) = IF read # Skipped THEN read ELSE construct("Room", "Unknown", e)
    BY <1>2 DEF TimelineEvents_from_json
  <1>6. /\ e.name = NoName \/ alt = <<>> => parse_timeline_events(e) = Skipped
        /\ e.name # NoName /\ alt # <<>> => parse_timeline_events(e) = read
    BY DEF parse_timeline_events
  <1> HIDE DEF alt, read
  <1> QED
    BY <1>3, <1>4, <1>5, <1>6

\* State is the same in the state list as in the timeline.
LEMMA StateAgrees ==
    ASSUME NEW e \in WireSet, parse_state_events(e) # Skipped, e.name # Custom
    PROVE  parse_timeline_events(e) = parse_state_events(e)
  <1>0. e.name \in TypeNames /\ e.state_key \in BOOLEAN /\ e.redacted \in BOOLEAN
    BY WireFacts
  <1>1. e.name # NoName
    BY DEF parse_state_events
  <1>2. CASE e.redacted
    <2>1. parse_state_events(e) = construct("State", "Redacted", e)
      BY <1>1, <1>2 DEF parse_state_events
    <2>2. e.state_key
      BY <2>1 DEF construct
    <2> QED
      BY <1>1, <1>2, <2>1, <2>2 DEF parse_timeline_events
  <1>3. CASE ~ e.redacted
    <2>1. getEventType(e.name) \in state_list
      BY <1>0, <1>1, <1>3, TypeFacts DEF parse_state_events, getEventType, TypeNames
    <2>2. parse_state_events(e) = construct("State", getEventType(e.name), e)
      BY <1>1, <1>3, <2>1 DEF parse_state_events
    <2>3. timeline_switch(e) = <<"State", getEventType(e.name)>>
      BY <2>1, SameTables, Alternatives
    <2> QED
      BY <1>1, <1>3, <2>2, <2>3 DEF parse_timeline_events
  <1> QED BY <1>2, <1>3

\* What a timeline keeps as state is the same in the state list.
LEMMA LineState ==
    ASSUME NEW e \in WireSet, parse_timeline_events(e).envelope = "State"
    PROVE  parse_state_events(e) = parse_timeline_events(e)
  <1> DEFINE type == getEventType(e.name)
  <1>1. /\ Skipped.envelope # "State"
        /\ \A env, content : Parsed(env, content, e).envelope = env
    BY DEF Skipped, Unfilled, Parsed
  <1>2. \A env, content : construct(env, content, e).envelope = "State" => env = "State"
    BY <1>1 DEF construct
  <1>3. e.name # NoName
    BY <1>1 DEF parse_timeline_events
  <1>4. CASE e.redacted
    <2>1. e.state_key
      BY <1>2, <1>3, <1>4 DEF parse_timeline_events
    <2> QED
      BY <1>3, <1>4, <2>1 DEF parse_timeline_events, parse_state_events
  <1>5. CASE ~ e.redacted
    <2>1. timeline_switch(e) # <<>> /\ timeline_switch(e)[1] = "State"
      BY <1>1, <1>2, <1>3, <1>5 DEF parse_timeline_events
    <2>2. type \in timeline_state
      BY <2>1 DEF timeline_switch
    <2>3. timeline_switch(e) = <<"State", type>>
      BY <2>2, Alternatives
    <2>4. type \in state_list
      BY <2>2, SameTables
    <2> QED
      BY <1>3, <1>5, <2>3, <2>4 DEF parse_timeline_events, parse_state_events
  <1> QED BY <1>4, <1>5

\* State is the same in an invitation as in the state list, if it has its ids.
LEMMA StrippedAgrees ==
    ASSUME NEW e \in WireSet, parse_stripped_events(e) # Skipped, ~ e.redacted, e.complete
    PROVE  parse_state_events(e) = [parse_stripped_events(e) EXCEPT !.envelope = "State"]
  <1> DEFINE type == getEventType(e.name)
             content == IF type \in stripped_list THEN type ELSE "Unknown"
  <1>1. e.name # NoName
    BY DEF parse_stripped_events
  <1>2. type \in stripped_list \/ (type = "Unsupported" /\ type \notin state_list)
    BY TypeFacts, SameTables DEF parse_stripped_events
  <1>3. /\ parse_stripped_events(e) = construct("Stripped", content, e)
        /\ parse_state_events(e) = construct("State", content, e)
    BY <1>1, <1>2, SameTables DEF parse_stripped_events, parse_state_events
  <1>4. /\ parse_stripped_events(e) = Parsed("Stripped", content, e)
        /\ parse_state_events(e) = Parsed("State", content, e)
    BY <1>3 DEF construct
  <1> HIDE DEF content
  <1> QED
    BY <1>4 DEF Parsed

\* What a state list holds an invitation shows, but for two types.
LEMMA StateStripped ==
    ASSUME NEW e \in WireSet, parse_state_events(e) # Skipped, ~ e.redacted,
           e.name \notin {"RoomEncryption", "ImagePackInRoom"}
    PROVE  parse_stripped_events(e) # Skipped
  <1> DEFINE type == getEventType(e.name)
             content == IF type \in state_list THEN type ELSE "Unknown"
  <1>1. e.name # NoName
    BY DEF parse_state_events
  <1>2. type \in state_list \/ (type = "Unsupported" /\ type \notin state_list)
    BY TypeFacts, SameTables DEF parse_state_events
  <1>3. type \notin {"RoomEncryption", "ImagePackInRoom"}
    BY DEF getEventType
  <1>4. /\ parse_stripped_events(e) = construct("Stripped", content, e)
        /\ parse_state_events(e) = construct("State", content, e)
    BY <1>1, <1>2, <1>3, SameTables DEF parse_stripped_events, parse_state_events
  <1>5. parse_stripped_events(e) = Parsed("Stripped", content, e)
    BY <1>4 DEF construct
  <1> HIDE DEF content
  <1> QED
    BY <1>5, ParsedNotSkipped

\* Every well-formed event with a name has a list.
LEMMA SomeListHolds ==
    ASSUME NEW e \in WireSet, WellFormed(e)
    PROVE  \/ parse_timeline_events(e) # Skipped
           \/ parse_device_events(e) # Skipped
           \/ parse_ephemeral_events(e) # Skipped
           \/ parse_room_account_data_events(e) # Skipped
  <1> DEFINE type == getEventType(e.name)
  <1>0. /\ e.name \in TypeNames /\ e.state_key \in BOOLEAN /\ e.redacted \in BOOLEAN
        /\ e.msgtype \in MsgTypes
    BY WireFacts
  <1>1. /\ e.content = "good" /\ e.name # NoName /\ e.name # "Presence"
        /\ e.name \notin DataTypes => e.sender /\ (e.complete \/ e.name \in device_list)
        /\ e.name \in state_list => e.state_key
        /\ e.name = "RoomMessage" => getMessageType(e) # "Invalid"
    BY DEF WellFormed
  <1>2. type = e.name \/ (type = "Unsupported" /\ e.name = Custom)
    BY <1>0, <1>1 DEF getEventType, TypeNames
  <1>3. CASE type \in device_list
    <2>1. construct("Device", type, e) # Skipped
      <3>1. e.name = type /\ e.name \notin DataTypes
        BY <1>2, <1>3 DEF device_list, DataTypes
      <3> QED BY <1>1, <3>1, Constructed
    <2>2. type # "RoomEncrypted"
      BY <1>3 DEF device_list
    <2> QED
      BY <1>1, <1>3, <2>1, <2>2 DEF parse_device_events
  <1>4. ASSUME NEW content PROVE ephemeral(content, e) # Skipped
    BY <1>1, ParsedNotSkipped DEF ephemeral
  <1>5. CASE type \in account_data_list
    BY <1>1, <1>4, <1>5 DEF parse_room_account_data_events
  <1>6. CASE type \in ephemeral_list
    BY <1>1, <1>4, <1>6 DEF parse_ephemeral_events
  <1>7. CASE type \notin device_list \cup DataTypes
    <2>1. e.complete
      <3>1. CASE e.name = type
        BY <1>1, <1>7, <3>1
      <3>2. CASE e.name = Custom
        BY <1>1, <3>2 DEF Custom, DataTypes, device_list
      <3> QED BY <1>2, <3>1, <3>2
    <2>2. ASSUME NEW env \in {"State", "Room", "Encrypted", "Redaction"}, NEW content,
                 env = "State" => e.state_key, ~ e.redacted, timeline_switch(e) = <<env, content>>
          PROVE  parse_timeline_events(e) # Skipped
      <3>1. construct(env, content, e) # Skipped
        BY <1>1, <2>1, <2>2, Constructed
      <3> QED
        BY <1>1, <2>2, <3>1 DEF parse_timeline_events
    <2>3. CASE e.redacted
      <3> DEFINE env == IF e.state_key THEN "State" ELSE "Room"
      <3>1. construct(env, "Redacted", e) # Skipped
        BY <1>1, <2>1, Constructed
      <3> HIDE DEF env
      <3>2. parse_timeline_events(e) = construct(env, "Redacted", e)
        BY <1>1, <2>3 DEF parse_timeline_events, env
      <3> QED
        BY <3>1, <3>2
    <2>4. CASE ~ e.redacted /\ type \in timeline_state
      <3>1. e.state_key
        BY <1>1, <1>2, <2>4, SameTables, TypeFacts
      <3> QED BY <2>2, <2>4, <3>1, Alternatives
    <2>5. CASE ~ e.redacted /\ type \in timeline_room
      BY <2>2, <2>5, Alternatives
    <2>6. CASE ~ e.redacted /\ type \in {"RoomEncrypted", "RoomRedaction", "Unsupported"}
      BY <2>2, <2>6, Alternatives
    <2>7. CASE ~ e.redacted /\ type = "RoomMessage"
      <3>1. e.name = "RoomMessage"
        BY <2>7 DEF getEventType
      <3>2. getMessageType(e) \in (MsgTypes \ {"Invalid"}) \cup {"Redacted"}
        BY <1>0, <1>1, <3>1 DEF getMessageType
      <3>3. \E content : timeline_switch(e) = <<"Room", content>>
        BY <2>7, <3>2, Alternatives
      <3> QED
        BY <2>2, <2>7, <3>3
    <2>8. type \in timeline_state \cup timeline_room \cup
                   {"RoomEncrypted", "RoomRedaction", "Unsupported", "RoomMessage"}
      <3>1. type \in KnownTypes \/ type = "Unsupported"
        BY DEF getEventType
      <3>2. type # "Presence"
        BY <1>1, <1>2
      <3> HIDE DEF type
      <3> QED
        BY <1>7, <3>1, <3>2, SameTables
    <2> HIDE DEF type
    <2> QED
      BY <1>0, <2>3, <2>4, <2>5, <2>6, <2>7, <2>8
  <1> QED
    BY <1>3, <1>5, <1>6, <1>7, SameTables

\* The parsers of the lists, each with a table of its own, agree with each other and
\* between them hold every well-formed event.
THEOREM ParsersAgree == Spec => []ListsAgree
  <1>1. CodecInv => ListsAgree
    <2> SUFFICES ASSUME CodecInv, schema = TimelineEvent, phase = "received" PROVE ListsAgree
      BY DEF ListsAgree
    <2>1. doc \in WireSet
      BY DEF CodecInv, TimelineInv
    <2> QED
      BY <2>1, LineAgrees, SingleAgrees, StateAgrees, LineState, StrippedAgrees, StateStripped,
         SomeListHolds DEF ListsAgree
  <1> QED
    BY <1>1, CodecInvariant, PTL

-----------------------------------------------------------------------------
(* Relations: what is written, what is read of it, and what a message      *)
(* answers.                                                                *)

Edit(r)    == last_of(r.relations, {"replace"})
Reply(r)   == last_of(r.relations, {"in_reply_to"})
NotEdit(r) == last_of(r.relations, RelationTypes \ {"replace", "in_reply_to"})
Plain(r) ==
  IF NotEdit(r) = {} /\ Reply(r) = {} THEN {}
  ELSE {RelatesTo(IF NotEdit(r) # {} THEN The(NotEdit(r)) ELSE NoRelation,
                  {x.event_id : x \in Reply(r)},
                  \E x \in Reply(r), y \in NotEdit(r) : x.is_fallback /\ y.rel_type = "thread")}
WrittenRelates(r) == IF Edit(r) # {} THEN {RelatesTo(The(Edit(r)), {}, FALSE)} ELSE Plain(r)
WrittenNew(o) ==
  IF Edit(o.rels) = {} THEN {}
  ELSE {NewContent(IF NotEdit(o.rels) # {} THEN Plain(o.rels) ELSE {}, o.body)}
WrittenList(r) ==
  IF r.synthesized \/ DOMAIN supported(r.relations) = {} THEN {} ELSE {supported(r.relations)}
Sent(o, list) ==
  Content(list, WrittenRelates(o.rels), WrittenNew(o),
          IF Edit(o.rels) # {} THEN o.body + 1 ELSE o.body)
ReadRels(list, relates, new) ==
  IF list # {} THEN [relations |-> The(list), synthesized |-> FALSE]
  ELSE IF relates # {} THEN [relations |-> parse_relates_to(The(relates), new), synthesized |-> TRUE]
  ELSE [relations |-> <<>>, synthesized |-> FALSE]

\* The element of a value that is there.
LEMMA TheOne == ASSUME NEW x PROVE The({x}) = x
  BY DEF The

\* The relation a message answers with is the first of its type.
LEMMA FirstMatching ==
    ASSUME NEW r, NEW t, DOMAIN r.relations \subseteq Nat, NEW i \in DOMAIN r.relations,
           r.relations[i].rel_type = t,
           \A j \in DOMAIN r.relations : r.relations[j].rel_type = t => i <= j
    PROVE  first_matching(r, t) = {r.relations[i].event_id}
  <1> DEFINE I == {j \in DOMAIN r.relations : r.relations[j].rel_type = t}
             k == CHOOSE k \in I : \A j \in I : k <= j
  <1>1. i \in I /\ (\A j \in I : i <= j)
    OBVIOUS
  <1>2. k \in I /\ (\A j \in I : k <= j)
    BY <1>1
  <1>3. k = i
    <2>1. k \in Nat /\ i \in Nat
      BY <1>2
    <2>2. k <= i /\ i <= k
      BY <1>1, <1>2
    <2> HIDE DEF k
    <2> QED
      BY <2>1, <2>2
  <1>4. I # {}
    BY <1>1
  <1>5. first_matching(r, t) = {r.relations[k].event_id}
    BY <1>4 DEF first_matching
  <1> QED
    BY <1>3, <1>5

\* A message without a relation of a type answers with none.
LEMMA NoneMatching ==
    ASSUME NEW r, NEW t, \A j \in DOMAIN r.relations : r.relations[j].rel_type # t
    PROVE  first_matching(r, t) = {}
  BY DEF first_matching

\* A message answers with a relation of a type exactly when it has one.
LEMMA SomeMatching ==
    ASSUME NEW r, NEW t
    PROVE  first_matching(r, t) # {} <=> \E j \in DOMAIN r.relations : r.relations[j].rel_type = t
  BY DEF first_matching

\* The relation add_relations collects is one of the types, and there is one when
\* the message has one.
LEMMA LastOf ==
    ASSUME NEW rels, NEW types, NEW n \in Nat, DOMAIN rels = 1 .. n
    PROVE  \/ /\ last_of(rels, types) = {}
              /\ \A j \in DOMAIN rels : rels[j].rel_type \notin types
           \/ \E i \in DOMAIN rels : rels[i].rel_type \in types /\ last_of(rels, types) = {rels[i]}
  <1> DEFINE I == {i \in DOMAIN rels : rels[i].rel_type \in types}
             k == CHOOSE i \in I : \A j \in I : j <= i
  <1>1. CASE I = {}
    BY <1>1 DEF last_of
  <1>2. CASE I # {}
    <2>1. I \in SUBSET (0 .. n)
      OBVIOUS
    <2>2. \E i \in I : \A j \in I : j <= i
      BY <1>2, <2>1, GreatestExists
    <2>3. k \in I
      BY <2>2
    <2>4. last_of(rels, types) = {rels[k]}
      BY <1>2 DEF last_of
    <2> QED
      BY <2>3, <2>4
  <1> QED BY <1>1, <1>2

\* Whether there is a last relation of a type, without regard to the order.
LEMMA SomeLast ==
    ASSUME NEW rels, NEW types
    PROVE  last_of(rels, types) # {} <=> \E j \in DOMAIN rels : rels[j].rel_type \in types
  BY DEF last_of

\* What to_json writes for a message.
LEMMA WrittenMessage ==
    ASSUME NEW o
    PROVE  message_to_json(o) = Sent(o, WrittenList(o.rels))
  <1> DEFINE r == o.rels
             a == add_relations(r)
             c == [a EXCEPT !.body = o.body]
             new == IF Edit(r) # {} /\ NotEdit(r) # {} THEN {NewContent(Plain(r), 0)} ELSE {}
             relates == IF c.new = {} THEN {} ELSE The(c.new).relates
  <1>1. a = Content(WrittenList(r), WrittenRelates(r), new, 0)
    BY DEF add_relations, WrittenList, WrittenRelates, Plain, Edit, Reply, NotEdit
  <1>2. c = Content(WrittenList(r), WrittenRelates(r), new, o.body)
    <2> HIDE DEF a, new, r
    <2> QED BY <1>1 DEF Content
  <1>3. replaces(r) # {} <=> Edit(r) # {}
    BY SomeMatching, SomeLast DEF replaces, Edit
  <1>4. message_to_json(o) =
          IF replaces(r) = {} THEN c
          ELSE Content(c.list, c.relates, {NewContent(relates, o.body)}, o.body + 1)
    BY DEF message_to_json
  <1>5. CASE Edit(r) = {}
    BY <1>2, <1>3, <1>4, <1>5 DEF WrittenNew, Sent
  <1>6. CASE Edit(r) # {}
    <2>1. c.new = new
      BY <1>2 DEF Content
    <2>2. relates = IF NotEdit(r) # {} THEN Plain(r) ELSE {}
      <3>1. CASE NotEdit(r) = {}
        BY <1>6, <2>1, <3>1
      <3>2. CASE NotEdit(r) # {}
        <4>1. c.new = {NewContent(Plain(r), 0)}
          BY <1>6, <2>1, <3>2
        <4>2. The(c.new) = NewContent(Plain(r), 0)
          BY <4>1, TheOne
        <4> QED
          BY <3>2, <4>1, <4>2 DEF NewContent
      <3> QED BY <3>1, <3>2
    <2>3. WrittenNew(o) = {NewContent(relates, o.body)}
      BY <1>6, <2>2 DEF WrittenNew
    <2>4. c.list = WrittenList(r) /\ c.relates = WrittenRelates(r)
      BY <1>2 DEF Content
    <2> HIDE DEF relates, c, r
    <2> QED
      BY <1>3, <1>4, <1>6, <2>3, <2>4 DEF r, Sent
  <1> QED BY <1>5, <1>6

\* What is read of it, by a client that knows the list or by one that does not.
LEMMA ReadMessage ==
    ASSUME NEW o, NEW list
    PROVE  /\ message_from_json(Sent(o, list)).body = o.body
           /\ message_from_json(Sent(o, list)).rels =
                ReadRels(list, WrittenRelates(o.rels), WrittenNew(o))
  <1>a. PICK body : body = IF Edit(o.rels) # {} THEN o.body + 1 ELSE o.body
    OBVIOUS
  <1>b. PICK d : d = Sent(o, list) /\ d = Content(list, WrittenRelates(o.rels), WrittenNew(o), body)
    BY <1>a DEF Sent
  <1> DEFINE relates == WrittenRelates(o.rels)
             new == WrittenNew(o)
             content == edited_content(d)
  <1>1. d.list = list /\ d.relates = relates /\ d.new = new /\ d.body = body
    BY <1>b DEF Content
  <1>2. content.list = list /\ content.relates = relates /\ content.new = new /\ content.body = o.body
    <2>1. CASE Edit(o.rels) = {}
      <3>1. new = {}
        BY <2>1 DEF WrittenNew
      <3>2. content = d
        BY <1>1, <3>1 DEF edited_content
      <3> QED
        BY <1>a, <1>1, <2>1, <3>2
    <2>2. CASE Edit(o.rels) # {}
      <3>1. relates # {}
        BY <2>2 DEF WrittenRelates
      <3>2. PICK x : new = {NewContent(x, o.body)}
        BY <2>2 DEF WrittenNew
      <3>a. The(new) = NewContent(x, o.body)
        BY <3>2, TheOne
      <3>3. The(new).body = o.body
        BY <3>a DEF NewContent
      <3>4. content = [d EXCEPT !.body = o.body, !.relates = relates]
        BY <1>1, <3>1, <3>2, <3>3 DEF edited_content
      <3> HIDE DEF relates, new, content
      <3> QED
        BY <1>b, <3>4 DEF Content, relates, new
    <2> QED BY <2>1, <2>2
  <1>3. message_from_json(d) = [rels |-> parse_relations(content), body |-> content.body]
    BY DEF message_from_json
  <1> HIDE DEF relates, new, content
  <1> QED
    BY <1>b, <1>2, <1>3 DEF parse_relations, ReadRels, relates, new

\* The relations that m.relates_to and m.new_content amount to.
LEMMA ParseRelates ==
    ASSUME NEW rt, NEW new
    PROVE  /\ rt.reply = {} /\ (rt.rel.rel_type # "replace" \/ new = {} \/ The(new).relates = {}) =>
                parse_relates_to(rt, new) = <<rt.rel>>
           /\ rt.reply = {} /\ rt.rel.rel_type = "replace" /\ new # {} /\ The(new).relates # {} =>
                parse_relates_to(rt, new) =
                  <<rt.rel, IF The(The(new).relates).reply # {} THEN NoRelation
                            ELSE The(The(new).relates).rel>>
           /\ rt.reply # {} =>
                \E b : /\ b.rel_type = "in_reply_to" /\ b.event_id = The(rt.reply)
                       /\ parse_relates_to(rt, new) =
                            IF rt.rel.rel_type = "thread" /\ rt.rel.event_id # NoId
                            THEN <<rt.rel, b>> ELSE <<b>>
  <1> DEFINE fallback == rt.rel.rel_type = "thread" /\ rt.rel.event_id # NoId /\ rt.falling
             b == [Relation("in_reply_to", The(rt.reply), FALSE) EXCEPT !.is_fallback = fallback]
  <1>1. b.rel_type = "in_reply_to" /\ b.event_id = The(rt.reply)
    <2> HIDE DEF fallback
    <2> QED BY DEF Relation
  <1>2. ASSUME rt.reply # {}
        PROVE  parse_relates_to(rt, new) =
                 IF rt.rel.rel_type = "thread" /\ rt.rel.event_id # NoId
                 THEN <<rt.rel, b>> ELSE <<b>>
    BY <1>2 DEF parse_relates_to
  <1>3. rt.reply = {} /\ (rt.rel.rel_type # "replace" \/ new = {} \/ The(new).relates = {}) =>
          parse_relates_to(rt, new) = <<rt.rel>>
    BY DEF parse_relates_to
  <1>4. rt.reply = {} /\ rt.rel.rel_type = "replace" /\ new # {} /\ The(new).relates # {} =>
          parse_relates_to(rt, new) =
            <<rt.rel, IF The(The(new).relates).reply # {} THEN NoRelation
                      ELSE The(The(new).relates).rel>>
    BY DEF parse_relates_to
  <1> HIDE DEF b
  <1> QED BY <1>1, <1>2, <1>3, <1>4

\* What a message with one relation answers.
LEMMA OneFirst ==
    ASSUME NEW r, DOMAIN r.relations = 1 .. 1, NEW t
    PROVE  first_matching(r, t) =
             IF r.relations[1].rel_type = t THEN {r.relations[1].event_id} ELSE {}
  <1>1. CASE r.relations[1].rel_type = t
    <2>1. first_matching(r, t) = {r.relations[1].event_id}
      BY <1>1, FirstMatching
    <2> QED BY <1>1, <2>1
  <1>2. CASE r.relations[1].rel_type # t
    BY <1>2, NoneMatching
  <1> QED BY <1>1, <1>2

\* What a message with two relations answers.
LEMMA TwoFirst ==
    ASSUME NEW r, DOMAIN r.relations = 1 .. 2, NEW t
    PROVE  first_matching(r, t) = IF r.relations[1].rel_type = t THEN {r.relations[1].event_id}
                                  ELSE IF r.relations[2].rel_type = t THEN {r.relations[2].event_id}
                                  ELSE {}
  <1>1. CASE r.relations[1].rel_type = t
    <2>1. first_matching(r, t) = {r.relations[1].event_id}
      BY <1>1, FirstMatching
    <2> QED BY <1>1, <2>1
  <1>2. CASE r.relations[1].rel_type # t /\ r.relations[2].rel_type = t
    <2>1. \A j \in DOMAIN r.relations : r.relations[j].rel_type = t => 2 <= j
      BY <1>2
    <2>2. first_matching(r, t) = {r.relations[2].event_id}
      BY <1>2, <2>1, FirstMatching
    <2> QED BY <1>2, <2>2
  <1>3. CASE r.relations[1].rel_type # t /\ r.relations[2].rel_type # t
    BY <1>3, NoneMatching
  <1> QED BY <1>1, <1>2, <1>3

\* What add_relations collects of one relation.
LEMMA OneLast ==
    ASSUME NEW L, DOMAIN L = 1 .. 1, NEW types
    PROVE  last_of(L, types) = IF L[1].rel_type \in types THEN {L[1]} ELSE {}
  <1>1. \/ /\ last_of(L, types) = {}
           /\ \A j \in DOMAIN L : L[j].rel_type \notin types
        \/ \E i \in DOMAIN L : L[i].rel_type \in types /\ last_of(L, types) = {L[i]}
    BY LastOf
  <1> QED BY <1>1

\* What add_relations collects of two relations.
LEMMA TwoLast ==
    ASSUME NEW L, DOMAIN L = 1 .. 2, NEW types
    PROVE  \/ /\ last_of(L, types) = {}
              /\ L[1].rel_type \notin types /\ L[2].rel_type \notin types
           \/ L[1].rel_type \in types /\ last_of(L, types) = {L[1]}
           \/ L[2].rel_type \in types /\ last_of(L, types) = {L[2]}
  <1>1. \/ /\ last_of(L, types) = {}
           /\ \A j \in DOMAIN L : L[j].rel_type \notin types
        \/ \E i \in DOMAIN L : L[i].rel_type \in types /\ last_of(L, types) = {L[i]}
    BY LastOf
  <1> QED BY <1>1

\* A client that only knows m.relates_to sees the edit or the last reply.
LEMMA Seen ==
    ASSUME NEW o, NEW n \in Nat, DOMAIN o.rels.relations = 1 .. n, NEW seen, seen = message_from_json(Sent(o, {})).rels
    PROVE  /\ Edit(o.rels) # {} => replaces(seen) = {x.event_id : x \in Edit(o.rels)}
           /\ Edit(o.rels) = {} => reply_to(seen) = {x.event_id : x \in Reply(o.rels)}
  <1> DEFINE r == o.rels
             rt == The(WrittenRelates(r))
  <1>a. seen = ReadRels({}, WrittenRelates(r), WrittenNew(o))
    BY ReadMessage
  <1>0. WrittenRelates(r) # {} => seen.relations = parse_relates_to(rt, WrittenNew(o))
    BY <1>a DEF ReadRels
  <1>1. CASE Edit(r) # {}
    <2>1. PICK x : Edit(r) = {x} /\ x.rel_type = "replace"
      BY <1>1, LastOf DEF Edit
    <2>2. rt = RelatesTo(x, {}, FALSE) /\ WrittenRelates(r) # {}
      BY <2>1, TheOne DEF WrittenRelates
    <2>3. rt.reply = {} /\ rt.rel = x
      BY <2>2 DEF RelatesTo
    <2>4. \/ seen.relations = <<x>>
          \/ \E b : seen.relations = <<x, b>>
      <3> DEFINE new == WrittenNew(o)
      <3> HIDE DEF rt, r, new
      <3>1. CASE new = {} \/ The(new).relates = {}
        <4>1. parse_relates_to(rt, new) = <<rt.rel>>
          BY <2>3, <3>1, ParseRelates
        <4> QED BY <1>0, <2>2, <2>3, <4>1 DEF new
      <3>2. CASE new # {} /\ The(new).relates # {}
        <4>1. \E b : parse_relates_to(rt, new) = <<rt.rel, b>>
          BY <2>1, <2>3, <3>2, ParseRelates
        <4> QED BY <1>0, <2>2, <2>3, <4>1 DEF new
      <3> QED BY <3>1, <3>2
    <2>5. replaces(seen) = {x.event_id}
      <3>1. CASE seen.relations = <<x>>
        <4>1. first_matching(seen, "replace") = IF x.rel_type = "replace" THEN {x.event_id} ELSE {}
          <5>1. DOMAIN seen.relations = 1 .. 1 /\ seen.relations[1] = x
            BY <3>1
          <5> QED BY <5>1, OneFirst
        <4> QED BY <2>1, <4>1 DEF replaces
      <3>2. ASSUME NEW b, seen.relations = <<x, b>> PROVE replaces(seen) = {x.event_id}
        <4>1. first_matching(seen, "replace") =
                IF x.rel_type = "replace" THEN {x.event_id}
                ELSE IF b.rel_type = "replace" THEN {b.event_id} ELSE {}
          <5>1. DOMAIN seen.relations = 1 .. 2 /\ seen.relations[1] = x /\ seen.relations[2] = b
            BY <3>2
          <5> QED BY <5>1, TwoFirst
        <4> QED BY <2>1, <4>1 DEF replaces
      <3> QED BY <2>4, <3>1, <3>2
    <2> QED BY <1>1, <2>1, <2>5
  <1>2. CASE Edit(r) = {}
    <2>1. WrittenRelates(r) = Plain(r)
      BY <1>2 DEF WrittenRelates
    <2>2. CASE Reply(r) = {} /\ NotEdit(r) = {}
      <3>1. seen = [relations |-> <<>>, synthesized |-> FALSE]
        BY <1>a, <2>1, <2>2 DEF Plain, ReadRels
      <3>2. reply_to(seen) = {}
        BY <3>1, NoneMatching DEF reply_to
      <3> QED BY <1>2, <2>2, <3>2
    <2>3. CASE Reply(r) = {} /\ NotEdit(r) # {}
      <3>1. PICK x : NotEdit(r) = {x} /\ x.rel_type # "replace" /\ x.rel_type # "in_reply_to"
        BY <2>3, LastOf DEF NotEdit
      <3>2. PICK f : Plain(r) = {RelatesTo(x, {}, f)}
        BY <2>3, <3>1, TheOne DEF Plain
      <3>a. rt = RelatesTo(x, {}, f) /\ WrittenRelates(r) # {}
        BY <2>1, <3>2, TheOne
      <3>3. rt.reply = {} /\ rt.rel = x /\ WrittenRelates(r) # {}
        BY <3>a DEF RelatesTo
      <3>4. seen.relations = <<x>>
        <4> HIDE DEF rt
        <4> QED BY <1>0, <3>1, <3>3, ParseRelates
      <3>5. reply_to(seen) = {}
        <4>1. DOMAIN seen.relations = 1 .. 1 /\ seen.relations[1] = x
          BY <3>4
        <4> QED BY <3>1, <4>1, OneFirst DEF reply_to
      <3> QED BY <1>2, <2>3, <3>5
    <2>4. CASE Reply(r) # {}
      <3>1. PICK x : Reply(r) = {x} /\ x.rel_type = "in_reply_to"
        BY <2>4, LastOf DEF Reply
      <3>2. {y.event_id : y \in Reply(r)} = {x.event_id}
        BY <3>1
      <3>3. PICK rel, f : Plain(r) = {RelatesTo(rel, {x.event_id}, f)}
        BY <2>4, <3>2 DEF Plain
      <3>a. rt = RelatesTo(rel, {x.event_id}, f) /\ WrittenRelates(r) # {}
        BY <2>1, <3>3, TheOne
      <3>4. rt.reply = {x.event_id} /\ WrittenRelates(r) # {}
        BY <3>a DEF RelatesTo
      <3>b. The(rt.reply) = x.event_id
        BY <3>4, TheOne
      <3> DEFINE new == WrittenNew(o)
      <3> HIDE DEF rt, r, new
      <3>5. PICK b : /\ b.rel_type = "in_reply_to" /\ b.event_id = The(rt.reply)
                     /\ parse_relates_to(rt, new) =
                          IF rt.rel.rel_type = "thread" /\ rt.rel.event_id # NoId
                          THEN <<rt.rel, b>> ELSE <<b>>
        BY <3>4, ParseRelates
      <3>c. seen.relations = parse_relates_to(rt, new)
        BY <1>0, <3>4 DEF new
      <3>6. reply_to(seen) = {x.event_id}
        <4>1. CASE rt.rel.rel_type = "thread" /\ rt.rel.event_id # NoId
          <5>1. seen.relations = <<rt.rel, b>>
            BY <3>5, <3>c, <4>1
          <5>2. first_matching(seen, "in_reply_to") =
                  IF rt.rel.rel_type = "in_reply_to" THEN {rt.rel.event_id}
                  ELSE IF b.rel_type = "in_reply_to" THEN {b.event_id} ELSE {}
            <6>1. /\ DOMAIN seen.relations = 1 .. 2
                  /\ seen.relations[1] = rt.rel /\ seen.relations[2] = b
              BY <5>1
            <6> QED BY <6>1, TwoFirst
          <5> QED BY <3>b, <3>5, <4>1, <5>2 DEF reply_to
        <4>2. CASE ~ (rt.rel.rel_type = "thread" /\ rt.rel.event_id # NoId)
          <5>1. seen.relations = <<b>>
            BY <3>5, <3>c, <4>2
          <5>2. first_matching(seen, "in_reply_to") =
                  IF b.rel_type = "in_reply_to" THEN {b.event_id} ELSE {}
            <6>1. DOMAIN seen.relations = 1 .. 1 /\ seen.relations[1] = b
              BY <5>1
            <6> QED BY <6>1, OneFirst
          <5> QED BY <3>b, <3>5, <5>2 DEF reply_to
        <4> QED BY <4>1, <4>2
      <3> QED BY <1>2, <3>2, <3>6 DEF r
    <2> QED BY <2>2, <2>3, <2>4
  <1> QED BY <1>1, <1>2

\* The lists that m.relates_to and m.new_content amount to: one relation, a reply
\* in a thread, or an edit and what the edited message relates to.
Shaped(L) ==
  /\ \A i \in DOMAIN L : L[i].rel_type \in RelationTypes
  /\ \/ DOMAIN L = 1 .. 1
     \/ /\ DOMAIN L = 1 .. 2
        /\ L[1].rel_type = "thread" /\ L[1].event_id # NoId /\ L[2].rel_type = "in_reply_to"
     \/ DOMAIN L = 1 .. 2 /\ L[1].rel_type = "replace"

\* Nothing but these lists is made up for a message that came without one.
LEMMA ParseShape ==
    ASSUME NEW rt \in RelatesToSet(BOOLEAN), NEW new,
           new = {} \/ \E n \in NewContentSet : new = {n}
    PROVE  Shaped(parse_relates_to(rt, new))
  <1> DEFINE L == parse_relates_to(rt, new)
  <1>1. \A x \in RelationSet : x.rel_type \in RelationTypes
    BY DEF RelationSet, NoRelation, Relation, RelationTypes
  <1>2. rt.rel \in RelationSet /\ "in_reply_to" \in RelationTypes /\ NoRelation \in RelationSet
    BY DEF RelatesToSet, RelationTypes, RelationSet
  <1>3. CASE rt.reply # {}
    <2>1. PICK b : /\ b.rel_type = "in_reply_to" /\ b.event_id = The(rt.reply)
                   /\ L = IF rt.rel.rel_type = "thread" /\ rt.rel.event_id # NoId
                          THEN <<rt.rel, b>> ELSE <<b>>
      BY <1>3, ParseRelates
    <2>2. CASE rt.rel.rel_type = "thread" /\ rt.rel.event_id # NoId
      <3>1. DOMAIN L = 1 .. 2 /\ L[1] = rt.rel /\ L[2] = b
        BY <2>1, <2>2
      <3> HIDE DEF L
      <3> QED BY <1>1, <1>2, <2>1, <2>2, <3>1 DEF Shaped, L
    <2>3. CASE ~ (rt.rel.rel_type = "thread" /\ rt.rel.event_id # NoId)
      <3>1. DOMAIN L = 1 .. 1 /\ L[1] = b
        BY <2>1, <2>3
      <3> QED BY <1>2, <2>1, <3>1 DEF Shaped
    <2> QED BY <2>2, <2>3
  <1>4. CASE rt.reply = {} /\ (rt.rel.rel_type # "replace" \/ new = {} \/ The(new).relates = {})
    <2>1. L = <<rt.rel>>
      BY <1>4, ParseRelates
    <2>2. DOMAIN L = 1 .. 1 /\ L[1] = rt.rel
      BY <2>1
    <2> QED BY <1>1, <1>2, <2>2 DEF Shaped
  <1>5. CASE rt.reply = {} /\ rt.rel.rel_type = "replace" /\ new # {} /\ The(new).relates # {}
    <2>1. PICK n \in NewContentSet : new = {n}
      BY <1>5
    <2>2. The(new) = n
      BY <2>1, TheOne
    <2>3. PICK x \in RelatesToSet({FALSE}) : n.relates = {x}
      BY <1>5, <2>1, <2>2 DEF NewContentSet, Maybe
    <2>4. The(The(new).relates) = x
      BY <2>2, <2>3, TheOne
    <2>5. x.rel \in RelationSet
      BY <2>3 DEF RelatesToSet
    <2> DEFINE b == IF x.reply # {} THEN NoRelation ELSE x.rel
    <2>6. b \in RelationSet
      BY <1>2, <2>5
    <2>7. L = <<rt.rel, b>>
      BY <1>5, <2>4, ParseRelates
    <2> HIDE DEF b
    <2>8. DOMAIN L = 1 .. 2 /\ L[1] = rt.rel /\ L[2] = b
      BY <2>7
    <2> HIDE DEF L
    <2> QED BY <1>1, <1>2, <1>5, <2>6, <2>8 DEF Shaped, L
  <1> QED BY <1>3, <1>4, <1>5

\* The relations of a message are a list, and one made up for a message that came
\* without it is one of those above.
WellShaped(r) ==
  /\ \E n \in Nat : DOMAIN r.relations = 1 .. n
  /\ \A i \in DOMAIN r.relations : r.relations[i].rel_type \in RelationTypes
  /\ r.synthesized \in BOOLEAN
  /\ r.synthesized => Shaped(r.relations)

\* Every message an application has in its hands is like that.
LEMMA MessageShape ==
    ASSUME NEW o, MessageSource(o)
    PROVE  WellShaped(o.rels)
  <1>1. ASSUME NEW l \in RelationLists
        PROVE  /\ \E n \in Nat : DOMAIN l = 1 .. n
               /\ \A i \in DOMAIN l : l[i].rel_type \in RelationTypes
    <2>1. PICK n \in 0 .. MaxRelations : l \in [1 .. n -> RelationSet]
      BY DEF RelationLists
    <2>2. \A x \in RelationSet : x.rel_type \in RelationTypes
      BY DEF RelationSet, NoRelation, Relation, RelationTypes
    <2> QED BY <2>1, <2>2
  <1>2. ASSUME NEW l \in RelationLists, o.rels = [relations |-> l, synthesized |-> FALSE]
        PROVE  WellShaped(o.rels)
    <2>1. o.rels.relations = l /\ ~ o.rels.synthesized /\ o.rels.synthesized \in BOOLEAN
      BY <1>2
    <2> QED BY <1>1, <2>1 DEF WellShaped
  <1>3. CASE o \in MessageSet(RelationLists)
    <2>1. PICK l \in RelationLists : o = [rels |-> [relations |-> l, synthesized |-> FALSE], body |-> 0]
      BY <1>3 DEF MessageSet
    <2>2. o.rels = [relations |-> l, synthesized |-> FALSE]
      BY <2>1
    <2> QED BY <1>2, <2>2
  <1>4. ASSUME NEW d \in ContentSet(RelationLists), o = message_from_json(d)
        PROVE  WellShaped(o.rels)
    <2> DEFINE c == edited_content(d)
    <2>1. o.rels = parse_relations(c)
      BY <1>4 DEF message_from_json
    <2>2. CASE \E l \in RelationLists : d.list = {l} /\ d.new = {}
      <3>1. PICK l \in RelationLists : d.list = {l} /\ d.new = {}
        BY <2>2
      <3>2. c.list = {l}
        BY <3>1 DEF edited_content
      <3>3. o.rels = [relations |-> l, synthesized |-> FALSE]
        BY <2>1, <3>2, TheOne DEF parse_relations
      <3> QED BY <1>2, <3>3
    <2>3. CASE /\ d \in [list : {{}}, relates : Maybe(RelatesToSet(BOOLEAN)),
                         new : Maybe(NewContentSet), body : {0, 1}]
      <3>1. /\ c.list = {} /\ c.new = d.new
            /\ c.relates = d.relates \/ (d.new # {} /\ c.relates = The(d.new).relates)
        BY <2>3 DEF edited_content
      <3>2. d.new = {} \/ \E n \in NewContentSet : d.new = {n}
        BY <2>3 DEF Maybe
      <3>3. d.relates = {} \/ \E x \in RelatesToSet(BOOLEAN) : d.relates = {x}
        BY <2>3 DEF Maybe
      <3>4. ASSUME NEW n \in NewContentSet, d.new = {n}
            PROVE  \/ The(d.new).relates = {}
                   \/ \E x \in RelatesToSet(BOOLEAN) : The(d.new).relates = {x}
        <4>1. The(d.new) = n
          BY <3>4, TheOne
        <4>2. n.relates = {} \/ \E x \in RelatesToSet({FALSE}) : n.relates = {x}
          BY DEF NewContentSet, Maybe
        <4>3. RelatesToSet({FALSE}) \subseteq RelatesToSet(BOOLEAN)
          BY DEF RelatesToSet
        <4> QED BY <4>1, <4>2, <4>3
      <3>5. c.relates = {} \/ \E x \in RelatesToSet(BOOLEAN) : c.relates = {x}
        BY <3>1, <3>2, <3>3, <3>4
      <3> HIDE DEF c
      <3>6. CASE c.relates = {}
        <4>1. o.rels = [relations |-> <<>>, synthesized |-> FALSE]
          BY <2>1, <3>1, <3>6 DEF parse_relations
        <4>2. o.rels.relations = <<>> /\ ~ o.rels.synthesized /\ o.rels.synthesized \in BOOLEAN
          BY <4>1
        <4>3. DOMAIN o.rels.relations = 1 .. 0
          BY <4>2
        <4> QED BY <4>2, <4>3 DEF WellShaped
      <3>7. ASSUME NEW x \in RelatesToSet(BOOLEAN), c.relates = {x}
            PROVE  WellShaped(o.rels)
        <4>1. o.rels = [relations |-> parse_relates_to(x, c.new), synthesized |-> TRUE]
          BY <2>1, <3>1, <3>7, TheOne DEF parse_relations
        <4>2. o.rels.relations = parse_relates_to(x, c.new) /\ o.rels.synthesized \in BOOLEAN
          BY <4>1
        <4>3. Shaped(o.rels.relations)
          BY <3>1, <3>2, <4>2, ParseShape
        <4> QED BY <4>2, <4>3 DEF WellShaped, Shaped
      <3> QED BY <3>5, <3>6, <3>7
    <2>4. {{n} : n \in NewContentSet} \subseteq Maybe(NewContentSet) /\ {} \in Maybe(NewContentSet)
      BY DEF Maybe
    <2> HIDE DEF c
    <2> QED BY <2>2, <2>3, <2>4 DEF ContentSet
  <1> QED BY <1>3, <1>4 DEF MessageSource

\* The other relation is written whatever else there is: under m.relates_to, or with
\* an edit under m.new_content.
LEMMA OtherWritten ==
    ASSUME NEW o, NEW n \in Nat, DOMAIN o.rels.relations = 1 .. n, NEW x \in NotEdit(o.rels)
    PROVE  /\ Edit(o.rels) # {} => The(The(WrittenNew(o)).relates).rel = x
           /\ Edit(o.rels) = {} => The(WrittenRelates(o.rels)).rel = x
  <1>1. NotEdit(o.rels) = {x}
    BY LastOf DEF NotEdit
  <1>2. PICK reply, f : Plain(o.rels) = {RelatesTo(x, reply, f)}
    BY <1>1, TheOne DEF Plain
  <1>3. The(Plain(o.rels)).rel = x
    <2>1. The(Plain(o.rels)) = RelatesTo(x, reply, f)
      BY ONLY <1>2, TheOne
    <2>2. RelatesTo(x, reply, f).rel = x
      BY ONLY DEF RelatesTo
    <2> QED BY <2>1, <2>2
  <1>4. CASE Edit(o.rels) # {}
    <2>1. The(WrittenNew(o)) = NewContent(Plain(o.rels), o.body)
      BY <1>1, <1>4, TheOne DEF WrittenNew
    <2> QED BY <1>3, <1>4, <2>1 DEF NewContent
  <1>5. CASE Edit(o.rels) = {}
    BY <1>3, <1>5 DEF WrittenRelates
  <1> QED BY <1>4, <1>5

\* Clients that only know m.relates_to see the edit of a message that is one, with the
\* other relation of what it says, and otherwise its last reply and its last other
\* relation.
THEOREM OthersSeeRelations == Spec => []OthersSee
  <1>1. CodecInv => OthersSee
    <2> SUFFICES ASSUME CodecInv, phase = "loaded", schema = RelatedMessage PROVE OthersSee
      BY DEF OthersSee
    <2> DEFINE o == original
               d == [doc EXCEPT !.list = {}]
               seen == message_from_json(d).rels
    <2>1. MessageSource(o) /\ doc = message_to_json(o)
      BY DEF CodecInv, MessageInv
    <2>2. PICK n \in Nat : DOMAIN o.rels.relations = 1 .. n
      BY <2>1, MessageShape DEF WellShaped
    <2>3. doc = Sent(o, WrittenList(o.rels))
      BY <2>1, WrittenMessage
    <2> HIDE DEF o
    <2>a. doc.relates = WrittenRelates(o.rels) /\ doc.new = WrittenNew(o)
      BY <2>3 DEF Sent, Content
    <2>4. d = Sent(o, {})
      BY <2>3 DEF Sent, Content
    <2> HIDE DEF d
    <2>5. /\ Edit(o.rels) # {} => replaces(seen) = {x.event_id : x \in Edit(o.rels)}
          /\ Edit(o.rels) = {} => reply_to(seen) = {x.event_id : x \in Reply(o.rels)}
      BY <2>2, <2>4, Seen
    <2>6. {x.event_id : x \in Edit(o.rels)} # {} <=> Edit(o.rels) # {}
      OBVIOUS
    <2>7. \A x \in NotEdit(o.rels) :
            /\ Edit(o.rels) # {} => The(The(doc.new).relates).rel = x
            /\ Edit(o.rels) = {} => The(doc.relates).rel = x
      BY <2>2, <2>a, OtherWritten
    <2> QED
      BY <2>5, <2>6, <2>7 DEF OthersSee, o, d, Edit, Reply, NotEdit
  <1> QED
    BY <1>1, CodecInvariant, PTL

\* The relations an application can ask a message for.
AnswerTypes == RelationTypes \ {"unsupported"}

\* A message that is written with its list answers alike when it is read again.
LEMMA ListedAlike ==
    ASSUME NEW r, NEW n \in Nat, DOMAIN r.relations = 1 .. n, NEW s,
           s.relations = supported(r.relations), NEW t \in AnswerTypes
    PROVE  first_matching(s, t) = first_matching(r, t)
  <1> DEFINE L == r.relations
             I == {i \in DOMAIN L : L[i].rel_type = t}
  <1>0. t # "unsupported"
    BY DEF AnswerTypes
  <1>1. /\ DOMAIN s.relations = {j \in DOMAIN L : L[j].rel_type # "unsupported"}
        /\ \A i \in DOMAIN s.relations : s.relations[i] = L[i]
    BY DEF supported
  <1>2. CASE I = {}
    <2>1. first_matching(r, t) = {}
      BY <1>2, NoneMatching
    <2>2. first_matching(s, t) = {}
      BY <1>1, <1>2, NoneMatching
    <2> QED BY <2>1, <2>2
  <1>3. CASE I # {}
    <2>1. PICK i \in I : \A j \in I : i <= j
      <3>1. I \in SUBSET Nat
        OBVIOUS
      <3> HIDE DEF I
      <3> QED BY <1>3, <3>1, LeastExists
    <2>2. first_matching(r, t) = {L[i].event_id}
      BY <2>1, FirstMatching
    <2>3. i \in DOMAIN s.relations /\ DOMAIN s.relations \subseteq Nat /\ s.relations[i] = L[i]
      BY <1>0, <1>1, <2>1
    <2>4. \A j \in DOMAIN s.relations : s.relations[j].rel_type = t => i <= j
      BY <1>1, <2>1
    <2>5. first_matching(s, t) = {s.relations[i].event_id}
      BY <2>1, <2>3, <2>4, FirstMatching
    <2> QED BY <2>2, <2>3, <2>5
  <1> QED BY <1>2, <1>3

\* What is read of a message that is written without its list.
Reread(o) == ReadRels({}, WrittenRelates(o.rels), WrittenNew(o))
Single(S) == S = {The(S)}

\* What is read of a message without edit or reply.
LEMMA PlainRead ==
    ASSUME NEW o, Edit(o.rels) = {}, Reply(o.rels) = {}, Single(NotEdit(o.rels)),
           The(NotEdit(o.rels)).rel_type \notin {"replace", "in_reply_to"}
    PROVE  /\ DOMAIN Reread(o).relations = 1 .. 1
           /\ Reread(o).relations[1] = The(NotEdit(o.rels))
  <1>0. PICK x : /\ x = The(NotEdit(o.rels)) /\ NotEdit(o.rels) = {x}
                 /\ x.rel_type \notin {"replace", "in_reply_to"}
    BY DEF Single
  <1>1. PICK f : WrittenRelates(o.rels) = {RelatesTo(x, {}, f)}
    BY <1>0, TheOne DEF WrittenRelates, Plain
  <1> DEFINE rt == RelatesTo(x, {}, f)
  <1>2. rt.reply = {} /\ rt.rel = x
    BY DEF RelatesTo
  <1>3. The(WrittenRelates(o.rels)) = rt
    BY <1>1, TheOne
  <1> HIDE DEF rt
  <1>4. parse_relates_to(rt, WrittenNew(o)) = <<x>>
    BY <1>0, <1>2, ParseRelates
  <1>5. Reread(o) = [relations |-> <<x>>, synthesized |-> TRUE]
    BY <1>1, <1>3, <1>4 DEF Reread, ReadRels
  <1>6. Reread(o).relations = <<x>>
    BY <1>5
  <1>7. DOMAIN Reread(o).relations = 1 .. 1 /\ Reread(o).relations[1] = x
    BY <1>6
  <1> QED BY <1>0, <1>7

\* What is read of a reply without edit.
LEMMA ReplyRead ==
    ASSUME NEW o, Edit(o.rels) = {}, Single(Reply(o.rels)),
           NEW rel, rel = IF NotEdit(o.rels) # {} THEN The(NotEdit(o.rels)) ELSE NoRelation
    PROVE  /\ rel.rel_type = "thread" /\ rel.event_id # NoId =>
                /\ DOMAIN Reread(o).relations = 1 .. 2 /\ Reread(o).relations[1] = rel
                /\ Reread(o).relations[2].rel_type = "in_reply_to"
                /\ Reread(o).relations[2].event_id = The(Reply(o.rels)).event_id
           /\ ~ (rel.rel_type = "thread" /\ rel.event_id # NoId) =>
                /\ DOMAIN Reread(o).relations = 1 .. 1
                /\ Reread(o).relations[1].rel_type = "in_reply_to"
                /\ Reread(o).relations[1].event_id = The(Reply(o.rels)).event_id
  <1>a. PICK x : x = The(Reply(o.rels)) /\ Reply(o.rels) = {x}
    BY DEF Single
  <1>b. PICK s : s = Reread(o)
    OBVIOUS
  <1>0. {z.event_id : z \in Reply(o.rels)} = {x.event_id}
    BY <1>a
  <1>1. PICK f : WrittenRelates(o.rels) = {RelatesTo(rel, {x.event_id}, f)}
    BY <1>a, <1>0 DEF WrittenRelates, Plain
  <1> DEFINE rt == RelatesTo(rel, {x.event_id}, f)
  <1>2. rt.reply = {x.event_id} /\ rt.rel = rel
    BY DEF RelatesTo
  <1>3. The(WrittenRelates(o.rels)) = rt
    BY <1>1, TheOne
  <1>4. The(rt.reply) = x.event_id
    BY <1>2, TheOne
  <1> HIDE DEF rt
  <1>5. PICK b : /\ b.rel_type = "in_reply_to" /\ b.event_id = The(rt.reply)
                 /\ parse_relates_to(rt, WrittenNew(o)) =
                      IF rt.rel.rel_type = "thread" /\ rt.rel.event_id # NoId
                      THEN <<rt.rel, b>> ELSE <<b>>
    BY <1>2, ParseRelates
  <1>6. s = [relations |-> parse_relates_to(rt, WrittenNew(o)), synthesized |-> TRUE]
    BY <1>b, <1>1, <1>3 DEF Reread, ReadRels
  <1>7. s.relations = parse_relates_to(rt, WrittenNew(o))
    BY <1>6
  <1>8. CASE rel.rel_type = "thread" /\ rel.event_id # NoId
    <2>1. s.relations = <<rel, b>>
      BY <1>2, <1>5, <1>7, <1>8
    <2>2. DOMAIN s.relations = 1 .. 2 /\ s.relations[1] = rel /\ s.relations[2] = b
      BY <2>1
    <2> QED BY <1>a, <1>b, <1>4, <1>5, <1>8, <2>2
  <1>9. CASE ~ (rel.rel_type = "thread" /\ rel.event_id # NoId)
    <2>1. s.relations = <<b>>
      BY <1>2, <1>5, <1>7, <1>9
    <2>2. DOMAIN s.relations = 1 .. 1 /\ s.relations[1] = b
      BY <2>1
    <2> QED BY <1>a, <1>b, <1>4, <1>5, <1>9, <2>2
  <1> QED BY <1>8, <1>9

\* What is read of an edit.
LEMMA EditRead ==
    ASSUME NEW o, Single(Edit(o.rels)), The(Edit(o.rels)).rel_type = "replace"
    PROVE  /\ NotEdit(o.rels) = {} =>
                DOMAIN Reread(o).relations = 1 .. 1 /\ Reread(o).relations[1] = The(Edit(o.rels))
           /\ Single(NotEdit(o.rels)) /\ Reply(o.rels) = {} =>
                /\ DOMAIN Reread(o).relations = 1 .. 2
                /\ Reread(o).relations[1] = The(Edit(o.rels))
                /\ Reread(o).relations[2] = The(NotEdit(o.rels))
  <1>a. PICK x : x = The(Edit(o.rels)) /\ Edit(o.rels) = {x} /\ x.rel_type = "replace"
    BY DEF Single
  <1>b. PICK s : s = Reread(o)
    OBVIOUS
  <1>c. PICK y : y = The(NotEdit(o.rels))
    OBVIOUS
  <1> DEFINE rt == RelatesTo(x, {}, FALSE)
             new == WrittenNew(o)
  <1>1. WrittenRelates(o.rels) = {rt}
    BY <1>a, TheOne DEF WrittenRelates
  <1>2. The(WrittenRelates(o.rels)) = rt /\ WrittenRelates(o.rels) # {}
    BY <1>1, TheOne
  <1>3. rt.reply = {} /\ rt.rel = x
    BY DEF RelatesTo
  <1> HIDE DEF rt
  <1>4. s = [relations |-> parse_relates_to(rt, new), synthesized |-> TRUE]
    BY <1>b, <1>2 DEF Reread, ReadRels
  <1>5. s.relations = parse_relates_to(rt, new)
    BY <1>4
  <1>6. ASSUME NotEdit(o.rels) = {} PROVE s.relations = <<x>>
    <2>1. new = {NewContent({}, o.body)}
      BY <1>a, <1>6 DEF WrittenNew
    <2>2. The(new) = NewContent({}, o.body)
      BY <2>1, TheOne
    <2>3. The(new).relates = {}
      BY <2>2 DEF NewContent
    <2> HIDE DEF new
    <2> QED BY <1>3, <1>5, <2>3, ParseRelates
  <1>7. ASSUME NotEdit(o.rels) = {y}, Reply(o.rels) = {} PROVE s.relations = <<x, y>>
    <2>1. PICK f : Plain(o.rels) = {RelatesTo(y, {}, f)}
      BY <1>7, TheOne DEF Plain
    <2> DEFINE rn == RelatesTo(y, {}, f)
    <2>2. new = {NewContent({rn}, o.body)}
      BY <1>a, <1>7, <2>1 DEF WrittenNew
    <2>3. The(new) = NewContent({rn}, o.body)
      BY <2>2, TheOne
    <2>4. The(new).relates = {rn}
      BY <2>3 DEF NewContent
    <2>5. The(The(new).relates) = rn
      BY <2>4, TheOne
    <2>6. rn.reply = {} /\ rn.rel = y
      BY DEF RelatesTo
    <2> HIDE DEF new, rn
    <2>7. parse_relates_to(rt, new) = <<rt.rel, IF The(The(new).relates).reply # {} THEN NoRelation
                                                ELSE The(The(new).relates).rel>>
      <3>1. new # {} /\ The(new).relates # {}
        BY <2>2, <2>4
      <3>2. rt.reply = {} /\ rt.rel.rel_type = "replace"
        BY <1>a, <1>3
      <3> QED BY <3>1, <3>2, ParseRelates
    <2> QED BY <1>3, <1>5, <2>5, <2>6, <2>7
  <1>8. s.relations = <<x>> => DOMAIN s.relations = 1 .. 1 /\ s.relations[1] = x
    OBVIOUS
  <1>9. s.relations = <<x, y>> => DOMAIN s.relations = 1 .. 2 /\ s.relations[1] = x /\ s.relations[2] = y
    OBVIOUS
  <1> QED BY <1>a, <1>b, <1>c, <1>6, <1>7, <1>8, <1>9 DEF Single

\* A message with the list it came with or was given: nothing is lost.
LEMMA GivenAlike ==
    ASSUME NEW o, WellShaped(o.rels), ~ o.rels.synthesized, NEW s,
           s = ReadRels(WrittenList(o.rels), WrittenRelates(o.rels), WrittenNew(o)),
           NEW t \in AnswerTypes
    PROVE  first_matching(s, t) = first_matching(o.rels, t)
  <1> DEFINE r == o.rels
  <1>1. PICK n \in Nat : DOMAIN r.relations = 1 .. n
    BY DEF WellShaped
  <1>2. CASE DOMAIN supported(r.relations) # {}
    <2>1. WrittenList(r) = {supported(r.relations)}
      BY <1>2 DEF WrittenList
    <2>2. s = [relations |-> supported(r.relations), synthesized |-> FALSE]
      BY <2>1, TheOne DEF ReadRels
    <2>3. s.relations = supported(r.relations)
      BY <2>2
    <2> QED BY <1>1, <2>3, ListedAlike
  <1>3. CASE DOMAIN supported(r.relations) = {}
    <2>1. \A i \in DOMAIN r.relations : r.relations[i].rel_type = "unsupported"
      BY <1>3 DEF supported
    <2>2. WrittenList(r) = {}
      BY <1>3 DEF WrittenList
    <2>3. Edit(r) = {} /\ Reply(r) = {}
      BY <2>1, SomeLast DEF Edit, Reply
    <2>4. t # "unsupported"
      BY DEF AnswerTypes
    <2>5. first_matching(r, t) = {}
      BY <2>1, <2>4, NoneMatching
    <2>6. CASE NotEdit(r) = {}
      <3>1. WrittenRelates(r) = {}
        BY <2>3, <2>6 DEF WrittenRelates, Plain
      <3>2. s = [relations |-> <<>>, synthesized |-> FALSE]
        BY <2>2, <3>1 DEF ReadRels
      <3>3. DOMAIN s.relations = {}
        BY <3>2
      <3> QED BY <2>5, <3>3, NoneMatching
    <2>7. CASE NotEdit(r) # {}
      <3>1. PICK x : NotEdit(r) = {x} /\ x.rel_type = "unsupported"
        BY <1>1, <2>1, <2>7, LastOf DEF NotEdit
      <3>2. s = Reread(o)
        BY <2>2 DEF Reread
      <3>3. DOMAIN s.relations = 1 .. 1 /\ s.relations[1] = x
        BY <2>3, <3>1, <3>2, TheOne, PlainRead DEF Single
      <3> QED BY <2>4, <2>5, <3>1, <3>3, NoneMatching
    <2> QED BY <2>6, <2>7
  <1> QED BY <1>2, <1>3

\* A message whose relations were made up when it was read: one relation.
LEMMA SingleAlike ==
    ASSUME NEW o, DOMAIN o.rels.relations = 1 .. 1,
           o.rels.relations[1].rel_type \in RelationTypes, NEW t
    PROVE  first_matching(Reread(o), t) = first_matching(o.rels, t)
  <1> DEFINE L == o.rels.relations
  <1>0. PICK a : L[1] = a
    OBVIOUS
  <1>1. \A types : last_of(L, types) = IF a.rel_type \in types THEN {a} ELSE {}
    BY <1>0, OneLast
  <1>2. first_matching(o.rels, t) = IF a.rel_type = t THEN {a.event_id} ELSE {}
    BY <1>0, OneFirst
  <1>3. ASSUME DOMAIN Reread(o).relations = 1 .. 1, Reread(o).relations[1].rel_type = a.rel_type,
               Reread(o).relations[1].event_id = a.event_id
        PROVE  first_matching(Reread(o), t) = first_matching(o.rels, t)
    BY <1>2, <1>3, OneFirst
  <1>4. CASE a.rel_type = "replace"
    <2>1. Edit(o.rels) = {a} /\ NotEdit(o.rels) = {}
      BY <1>1, <1>4 DEF Edit, NotEdit
    <2>2. The({a}) = a
      BY TheOne
    <2>3. DOMAIN Reread(o).relations = 1 .. 1 /\ Reread(o).relations[1] = a
      BY <1>4, <2>1, <2>2, EditRead DEF Single
    <2> QED BY <1>3, <2>3
  <1>5. CASE a.rel_type = "in_reply_to"
    <2>1. Edit(o.rels) = {} /\ NotEdit(o.rels) = {} /\ Reply(o.rels) = {a}
      BY <1>1, <1>5 DEF Edit, NotEdit, Reply
    <2>2. PICK rel : rel = NoRelation
      OBVIOUS
    <2>3. rel = IF NotEdit(o.rels) # {} THEN The(NotEdit(o.rels)) ELSE NoRelation
      BY <2>1, <2>2
    <2>4. rel.rel_type # "thread"
      BY <2>2 DEF NoRelation, Relation
    <2>5. /\ DOMAIN Reread(o).relations = 1 .. 1
          /\ Reread(o).relations[1].rel_type = "in_reply_to" /\ Reread(o).relations[1].event_id = a.event_id
      BY <2>1, <2>3, <2>4, TheOne, ReplyRead DEF Single
    <2> QED BY <1>3, <1>5, <2>5
  <1>6. CASE a.rel_type \notin {"replace", "in_reply_to"}
    <2>1. Edit(o.rels) = {} /\ NotEdit(o.rels) = {a} /\ Reply(o.rels) = {}
      BY <1>0, <1>1, <1>6 DEF Edit, NotEdit, Reply
    <2>2. The({a}) = a
      BY TheOne
    <2>3. DOMAIN Reread(o).relations = 1 .. 1 /\ Reread(o).relations[1] = a
      BY <1>6, <2>1, <2>2, PlainRead DEF Single
    <2> QED BY <1>3, <2>3
  <1> QED BY <1>4, <1>5, <1>6

\* A reply in a thread.
LEMMA ThreadAlike ==
    ASSUME NEW o, DOMAIN o.rels.relations = 1 .. 2, o.rels.relations[1].rel_type = "thread",
           o.rels.relations[1].event_id # NoId, o.rels.relations[2].rel_type = "in_reply_to",
           NEW t
    PROVE  first_matching(Reread(o), t) = first_matching(o.rels, t)
  <1> DEFINE L == o.rels.relations
  <1>0. PICK y, x : L[1] = y /\ L[2] = x
    OBVIOUS
  <1>1. /\ last_of(L, {"replace"}) = {}
        /\ last_of(L, {"in_reply_to"}) = {x}
    BY <1>0, TwoLast
  <1>2. last_of(L, RelationTypes \ {"replace", "in_reply_to"}) = {y}
    BY <1>0, TwoLast DEF RelationTypes
  <1>3. Edit(o.rels) = {} /\ Reply(o.rels) = {x} /\ NotEdit(o.rels) = {y}
    BY <1>1, <1>2 DEF Edit, Reply, NotEdit
  <1>4. y = IF NotEdit(o.rels) # {} THEN The(NotEdit(o.rels)) ELSE NoRelation
    BY <1>3, TheOne
  <1>5. y.rel_type = "thread" /\ y.event_id # NoId
    BY <1>0
  <1>6. /\ DOMAIN Reread(o).relations = 1 .. 2 /\ Reread(o).relations[1] = y
        /\ Reread(o).relations[2].rel_type = "in_reply_to" /\ Reread(o).relations[2].event_id = x.event_id
    <2>1. Single(Reply(o.rels)) /\ The(Reply(o.rels)) = x
      BY <1>3, TheOne DEF Single
    <2> QED BY <1>3, <1>4, <1>5, <2>1, ReplyRead
  <1>7. first_matching(Reread(o), t) = IF y.rel_type = t THEN {y.event_id}
                               ELSE IF "in_reply_to" = t THEN {x.event_id} ELSE {}
    BY <1>6, TwoFirst
  <1>8. first_matching(o.rels, t) = IF y.rel_type = t THEN {y.event_id}
                                    ELSE IF x.rel_type = t THEN {x.event_id} ELSE {}
    BY <1>0, TwoFirst
  <1> QED BY <1>0, <1>7, <1>8

\* An edit and what the edited message relates to: alike, unless that is a reply,
\* which is lost, or an edit again, of which one is left.
LEMMA EditAlike ==
    ASSUME NEW o, DOMAIN o.rels.relations = 1 .. 2, o.rels.relations[1].rel_type = "replace",
           o.rels.relations[2].rel_type \in RelationTypes, NEW t
    PROVE  \/ first_matching(Reread(o), t) = first_matching(o.rels, t)
           \/ /\ o.rels.relations[2].rel_type = "in_reply_to" /\ t = "in_reply_to"
              /\ first_matching(Reread(o), t) = {}
           \/ o.rels.relations[2].rel_type = "replace" /\ t = "replace"
  <1> DEFINE L == o.rels.relations
  <1>a. PICK x, y : L[1] = x /\ L[2] = y
    OBVIOUS
  <1>b. ASSUME NEW types
        PROVE  \/ /\ last_of(L, types) = {}
                  /\ x.rel_type \notin types /\ y.rel_type \notin types
               \/ x.rel_type \in types /\ last_of(L, types) = {x}
               \/ y.rel_type \in types /\ last_of(L, types) = {y}
    BY <1>a, TwoLast
  <1>0. first_matching(o.rels, t) = IF x.rel_type = t THEN {x.event_id}
                                    ELSE IF y.rel_type = t THEN {y.event_id} ELSE {}
    BY <1>a, TwoFirst
  <1>1. CASE y.rel_type = "replace"
    <2>1. PICK z : Edit(o.rels) = {z} /\ z.rel_type = "replace"
      BY <1>1, <1>a, <1>b DEF Edit
    <2>2. NotEdit(o.rels) = {}
      BY <1>1, <1>a, <1>b DEF NotEdit
    <2>3. DOMAIN Reread(o).relations = 1 .. 1 /\ Reread(o).relations[1] = z
      BY <2>1, <2>2, TheOne, EditRead DEF Single
    <2>4. first_matching(Reread(o), t) = IF z.rel_type = t THEN {z.event_id} ELSE {}
      BY <2>3, OneFirst
    <2> QED BY <1>a, <1>0, <1>1, <2>1, <2>4
  <1>2. CASE y.rel_type = "in_reply_to"
    <2>1. Edit(o.rels) = {x}
      BY <1>2, <1>a, <1>b DEF Edit
    <2>2. NotEdit(o.rels) = {}
      BY <1>2, <1>a, <1>b DEF NotEdit
    <2>3. DOMAIN Reread(o).relations = 1 .. 1 /\ Reread(o).relations[1] = x
      <3>1. Single(Edit(o.rels)) /\ The(Edit(o.rels)) = x
        BY <2>1, TheOne DEF Single
      <3>2. x.rel_type = "replace"
        BY <1>a
      <3> QED BY <2>2, <3>1, <3>2, EditRead
    <2>4. first_matching(Reread(o), t) = IF x.rel_type = t THEN {x.event_id} ELSE {}
      BY <2>3, OneFirst
    <2> QED BY <1>a, <1>0, <1>2, <2>4
  <1>3. CASE y.rel_type \notin {"replace", "in_reply_to"}
    <2>1. Edit(o.rels) = {x}
      BY <1>3, <1>a, <1>b DEF Edit
    <2>2. NotEdit(o.rels) = {y}
      BY <1>3, <1>a, <1>b DEF NotEdit
    <2>3. Reply(o.rels) = {}
      BY <1>3, <1>a, <1>b DEF Reply
    <2>4. x.rel_type = "replace"
      BY <1>a
    <2>5. DOMAIN Reread(o).relations = 1 .. 2 /\ Reread(o).relations[1] = x /\ Reread(o).relations[2] = y
      BY <2>1, <2>2, <2>3, <2>4, TheOne, EditRead DEF Single
    <2>6. first_matching(Reread(o), t) = IF x.rel_type = t THEN {x.event_id}
                                 ELSE IF y.rel_type = t THEN {y.event_id} ELSE {}
      BY <2>5, TwoFirst
    <2> QED BY <1>0, <2>6
  <1> QED BY <1>1, <1>2, <1>3

\* A message that is stored and read again keeps its text, and all it answers but
\* one of two edits and the reply of a received edit.
LEMMA MessageReload ==
    ASSUME NEW o, WellShaped(o.rels), NEW e, e = message_from_json(message_to_json(o))
    PROVE  /\ e.body = o.body
           /\ \/ \A t \in AnswerTypes : first_matching(e.rels, t) = first_matching(o.rels, t)
              \/ /\ o.rels.synthesized
                 /\ \A i \in DOMAIN o.rels.relations : o.rels.relations[i].rel_type = "replace"
                 /\ \A t \in AnswerTypes \ {"replace"} :
                      first_matching(e.rels, t) = first_matching(o.rels, t)
              \/ /\ o.rels.synthesized
                 /\ first_matching(o.rels, "replace") # {}
                 /\ first_matching(o.rels, "in_reply_to") # {}
                 /\ first_matching(e.rels, "in_reply_to") = {}
                 /\ \A t \in AnswerTypes \ {"in_reply_to"} :
                      first_matching(e.rels, t) = first_matching(o.rels, t)
  <1> DEFINE L == o.rels.relations
  <1>4. e.body = o.body /\ e.rels = ReadRels(WrittenList(o.rels), WrittenRelates(o.rels), WrittenNew(o))
    BY WrittenMessage, ReadMessage
  <1>5. CASE ~ o.rels.synthesized
    <2>1. \A t \in AnswerTypes : first_matching(e.rels, t) = first_matching(o.rels, t)
      BY <1>4, <1>5, GivenAlike
    <2> QED BY <1>4, <2>1
  <1>6. CASE o.rels.synthesized
    <2>1. WrittenList(o.rels) = {}
      BY <1>6 DEF WrittenList
    <2>2. e.rels = Reread(o)
      BY <1>4, <2>1 DEF Reread
    <2>3. Shaped(L)
      BY <1>6 DEF WellShaped
    <2>4. CASE DOMAIN L = 1 .. 1
      <3>1. L[1].rel_type \in RelationTypes
        BY <2>3, <2>4 DEF Shaped
      <3>2. \A t : first_matching(Reread(o), t) = first_matching(o.rels, t)
        BY <2>4, <3>1, SingleAlike
      <3> QED BY <1>4, <2>2, <3>2
    <2>5. CASE /\ DOMAIN L = 1 .. 2 /\ L[1].rel_type = "thread" /\ L[1].event_id # NoId
               /\ L[2].rel_type = "in_reply_to"
      <3>1. \A t : first_matching(Reread(o), t) = first_matching(o.rels, t)
        BY <2>5, ThreadAlike
      <3> QED BY <1>4, <2>2, <3>1
    <2>6. CASE DOMAIN L = 1 .. 2 /\ L[1].rel_type = "replace"
      <3>1. L[2].rel_type \in RelationTypes
        BY <2>3, <2>6 DEF Shaped
      <3>2. ASSUME NEW t
            PROVE  \/ first_matching(Reread(o), t) = first_matching(o.rels, t)
                   \/ /\ L[2].rel_type = "in_reply_to" /\ t = "in_reply_to"
                      /\ first_matching(Reread(o), t) = {}
                   \/ L[2].rel_type = "replace" /\ t = "replace"
        BY <2>6, <3>1, EditAlike
      <3>3. CASE L[2].rel_type \notin {"in_reply_to", "replace"}
        <4>1. \A t \in AnswerTypes : first_matching(e.rels, t) = first_matching(o.rels, t)
          BY <2>2, <3>2, <3>3
        <4> QED BY <1>4, <4>1
      <3>4. CASE L[2].rel_type = "replace"
        <4>1. \A i \in DOMAIN L : L[i].rel_type = "replace"
          BY <2>6, <3>4
        <4>2. \A t \in AnswerTypes \ {"replace"} : first_matching(e.rels, t) = first_matching(o.rels, t)
          BY <2>2, <3>2, <3>4
        <4> QED BY <1>4, <1>6, <4>1, <4>2
      <3>5. CASE L[2].rel_type = "in_reply_to"
        <4>1. first_matching(o.rels, "replace") # {} /\ first_matching(o.rels, "in_reply_to") # {}
          BY <2>6, <3>5, SomeMatching
        <4>2. \A t \in AnswerTypes \ {"in_reply_to"} :
                first_matching(e.rels, t) = first_matching(o.rels, t)
          BY <2>2, <3>2, <3>5
        <4>3. \/ first_matching(e.rels, "in_reply_to") = first_matching(o.rels, "in_reply_to")
              \/ first_matching(e.rels, "in_reply_to") = {}
          BY <2>2, <3>2, <3>5
        <4>4. CASE first_matching(e.rels, "in_reply_to") = {}
          BY <1>4, <1>6, <4>1, <4>2, <4>4
        <4>5. CASE first_matching(e.rels, "in_reply_to") = first_matching(o.rels, "in_reply_to")
          <5>1. \A t \in AnswerTypes : first_matching(e.rels, t) = first_matching(o.rels, t)
            BY <4>2, <4>5
          <5> QED BY <1>4, <5>1
        <4> QED BY <4>3, <4>4, <4>5
      <3> QED BY <3>3, <3>4, <3>5
    <2> QED BY <2>3, <2>4, <2>5, <2>6 DEF Shaped
  <1> QED BY <1>5, <1>6

\* A message keeps its relations and its text: after being stored and read again
\* it answers like the one that was stored, but for one of two edits and for the
\* reply of a received edit.
THEOREM RelationsAreKept == Spec => []KeepsRelations
  <1>1. CodecInv => KeepsRelations
    <2> SUFFICES ASSUME CodecInv, phase = "loaded", schema = RelatedMessage PROVE KeepsRelations
      BY DEF KeepsRelations
    <2> DEFINE o == original
               e == event
               Same(t) == first_matching(e.rels, t) = first_matching(o.rels, t)
    <2>1. MessageSource(o) /\ e = message_from_json(message_to_json(o))
      BY DEF CodecInv, MessageInv
    <2>2. WellShaped(o.rels)
      BY <2>1, MessageShape
    <2>3. /\ e.body = o.body
          /\ \/ \A t \in AnswerTypes : Same(t)
             \/ /\ o.rels.synthesized
                /\ \A i \in DOMAIN o.rels.relations : o.rels.relations[i].rel_type = "replace"
                /\ \A t \in AnswerTypes \ {"replace"} : Same(t)
             \/ /\ o.rels.synthesized
                /\ first_matching(o.rels, "replace") # {}
                /\ first_matching(o.rels, "in_reply_to") # {}
                /\ first_matching(e.rels, "in_reply_to") = {}
                /\ \A t \in AnswerTypes \ {"in_reply_to"} : Same(t)
      BY <2>1, <2>2, MessageReload
    <2>4. AnswerTypes = {"annotation", "reference", "replace", "in_reply_to", "thread"}
      BY DEF AnswerTypes, RelationTypes
    <2>5. CASE \A t \in AnswerTypes : Same(t)
      <3>1. Answers(e) = Answers(o)
        BY <2>3, <2>4, <2>5 DEF Answers, reply_to, replaces, references, thread, annotates
      <3> QED BY <3>1 DEF KeepsRelations
    <2>6. CASE /\ o.rels.synthesized
               /\ \A i \in DOMAIN o.rels.relations : o.rels.relations[i].rel_type = "replace"
               /\ \A t \in AnswerTypes \ {"replace"} : Same(t)
      <3>1. EditOfEdit
        BY <2>6 DEF EditOfEdit
      <3>2. /\ reply_to(e.rels) = reply_to(o.rels) /\ references(e.rels) = references(o.rels)
            /\ thread(e.rels) = thread(o.rels) /\ annotates(e.rels) = annotates(o.rels)
        BY <2>4, <2>6 DEF reply_to, references, thread, annotates
      <3>3. Answers(e) = [Answers(o) EXCEPT !.replaces = replaces(e.rels)]
        BY <2>3, <3>2 DEF Answers
      <3> QED BY <3>1, <3>3 DEF KeepsRelations
    <2>7. CASE /\ o.rels.synthesized
               /\ first_matching(o.rels, "replace") # {}
               /\ first_matching(o.rels, "in_reply_to") # {}
               /\ first_matching(e.rels, "in_reply_to") = {}
               /\ \A t \in AnswerTypes \ {"in_reply_to"} : Same(t)
      <3>1. ReplyOfEditLost
        BY <2>7 DEF ReplyOfEditLost, replaces, reply_to
      <3>2. /\ replaces(e.rels) = replaces(o.rels) /\ references(e.rels) = references(o.rels)
            /\ thread(e.rels) = thread(o.rels) /\ annotates(e.rels) = annotates(o.rels)
            /\ reply_to(e.rels) = {}
        BY <2>4, <2>7 DEF reply_to, replaces, references, thread, annotates
      <3>3. Answers(e) = [Answers(o) EXCEPT !.reply_to = {}]
        BY <2>3, <3>2 DEF Answers
      <3> QED BY <3>1, <3>3 DEF KeepsRelations
    <2> QED BY <2>3, <2>5, <2>6, <2>7
  <1> QED
    BY <1>1, CodecInvariant, PTL
-----------------------------------------------------------------------------
(* Structs that are read and written field by field.                       *)

\* from_json of a field of an object.
again(f, c) == read_field(f, [kind |-> "object", at |-> c])
\* The values a member may have: filled in or read.
Held(f) == members(f) \cup ({again(f, c) : c \in inputs(f)} \ {Throws})
\* What to_json makes of a member, and what may stand in its place.
Rewritten(f, v) == IF ~writes(f, v) THEN "absent"
                   ELSE IF f.write \in {"constant", "tag"} THEN "set" ELSE v
WrittenAs(f, v) == {Rewritten(f, v)} \cup
                 IF f.only = {} /\ (f.needs # {} \/ f.unless # {}) THEN {"absent"} ELSE {}
\* A field that can be read again and keeps all values but the lost ones.
Durable(f, lost) ==
  /\ f.read \in DOMAIN Ignores /\ f.init # Throws
  /\ \A v \in Held(f) : \/ f.write = "known" /\ v = "odd"
                        \/ \A c \in WrittenAs(f, v) : /\ again(f, c) # Throws
                                                      /\ again(f, c) = v \/ v \in lost

\* The members that do not keep all their values, and the action of a key request,
\* which keeps the ones that have a name.
LossyMembers ==
  ({"Text", "Emote", "Notice", "ElementEffect"} \X {"format"})
  \cup ({"Audio", "Video", "File", "Image", "StickerImage"} \X {"url"})
  \cup ({"ImageInfo", "FileInfo", "VideoInfo", "LocationInfo"} \X {"thumbnail_info"})
  \cup ({"Parent", "Child"} \X {"canonical", "suggested", "order", "via"})
  \cup ({"CallInvite", "CallCandidates", "CallAnswer", "CallHangUp"} \X {"party_id", "invitee"})
  \cup ({"KeyRequest"} \X {"room_id", "session_id", "sender_key", "algorithm"})
  \cup ({"OlmEncrypted", "ExportedSession"} \X {"algorithm"})
  \cup {<<"HiddenEvents", "hidden_event_types">>, <<"Create", "room_version">>,
        <<"JoinAllowance", "room_id">>, <<"KeyVerificationRequest", "msgtype">>}
Lost(name, n) == IF <<name, n>> \in LossyMembers THEN {"empty", "set", "odd"} ELSE {}
Action == Enum(F("at", "named"), "set")
IsAction(name, n) == name = "KeyRequest" /\ n = "action"

\* A field that is there whatever happens, one that decides about others, and one
\* that does not mind whether the content is an object.
Anchor(f) == /\ f.write \in {"always", "constant", "known"} /\ "absent" \notin Held(f)
             /\ f.only = {} /\ f.needs = {} /\ f.unless = {}
Switch(f) == /\ f.read = "at" /\ f.write \in {"always", "named"} /\ f.shape = "scalar"
             /\ f.only = {} /\ f.needs = {} /\ f.unless = {}
Strict(f) == f.read \in {"at", "value", "dispatch"}

\* A struct all of whose fields are durable, and which to_json does not turn into
\* null where from_json needs an object.  An expiry is the exception.
Sound(name, s) ==
  /\ \A n \in DOMAIN s.fields :
       /\ \/ Durable(s.fields[n], Lost(name, n))
          \/ IsAction(name, n) /\ s.fields[n] = Action
       /\ \/ s.fields[n].only = {}
          \/ /\ s.fields[n].init \in members(s.fields[n]) /\ s.fields[n].unless = {}
             /\ <<name, n>> \in LossyMembers
             /\ \E o \in DOMAIN s.fields : /\ s.fields[n].only = {o} /\ s.fields[n].needs = {o}
                                           /\ Switch(s.fields[o])
  /\ \/ s.start # "null"
     \/ \E n \in DOMAIN s.fields : Anchor(s.fields[n])
     \/ \A n \in DOMAIN s.fields : ~ Strict(s.fields[n])
     \/ name = "EventExpiry" /\ \E n \in DOMAIN s.fields : Strict(s.fields[n]) /\ s.fields[n].only = {}

\* The values of documents that arrive.
LEMMA DocumentValues ==
    ASSUME NEW s, NEW d \in Documents(s)
    PROVE  DOMAIN d.at = DOMAIN s.fields /\ \A n \in DOMAIN s.fields : d.at[n] \in inputs(s.fields[n])
  <1> DEFINE in(n) == inputs(s.fields[n]) \ (IF s.start = "whole" THEN {"absent"} ELSE {})
             full  == [n \in DOMAIN s.fields |-> "set"]
             least == [n \in DOMAIN s.fields |->
                         IF s.fields[n].read \in {"at", "dispatch"} \/ s.start = "whole"
                         THEN "set" ELSE "absent"]
             Good(a) == DOMAIN a = DOMAIN s.fields /\ \A n \in DOMAIN s.fields : a[n] \in inputs(s.fields[n])
  <1>1. \A f : "set" \in inputs(f) /\ (f.read # "dispatch" => "absent" \in inputs(f))
    BY DEF inputs
  <1>2. Good(full) /\ Good(least)
    BY <1>1
  <1>3. DOMAIN full = DOMAIN s.fields /\ DOMAIN least = DOMAIN s.fields
    OBVIOUS
  <1>4. d.at \in Near({full, least}, in) \/ d.at = full
    BY DEF Documents
  <1> HIDE DEF full, least
  <1>5. ASSUME NEW a \in Near({full, least}, in) PROVE Good(a)
    <2>1. PICK b \in {full, least} :
            IF DOMAIN b = {} THEN a = b
            ELSE \E x, y \in DOMAIN b : \E v \in in(x), w \in in(y) : a = [b EXCEPT ![x] = v, ![y] = w]
      BY <1>5 DEF Near
    <2>2. Good(b) /\ DOMAIN b = DOMAIN s.fields
      BY <1>2, <1>3
    <2>3. CASE DOMAIN b = {}
      BY <2>1, <2>2, <2>3
    <2>4. CASE DOMAIN b # {}
      <3>1. PICK x \in DOMAIN b, y \in DOMAIN b :
              \E v \in in(x), w \in in(y) : a = [b EXCEPT ![x] = v, ![y] = w]
        BY <2>1, <2>4
      <3>2. PICK v \in in(x), w \in in(y) : a = [b EXCEPT ![x] = v, ![y] = w]
        BY <3>1
      <3>3. v \in inputs(s.fields[x]) /\ w \in inputs(s.fields[y])
        OBVIOUS
      <3> HIDE DEF in
      <3>4. DOMAIN a = DOMAIN b /\ \A n \in DOMAIN b : a[n] = IF n = y THEN w ELSE IF n = x THEN v ELSE b[n]
        BY <3>2
      <3> QED
        BY <2>2, <3>3, <3>4
    <2> QED BY <2>3, <2>4
  <1> HIDE DEF Good
  <1>6. Good(d.at)
    BY <1>2, <1>4, <1>5
  <1> QED
    BY <1>6 DEF Good

\* The values of structs an application puts together.
LEMMA StructValues ==
    ASSUME NEW s, NEW e \in Structs(s)
    PROVE  /\ DOMAIN e = DOMAIN s.fields
           /\ \A n \in DOMAIN s.fields : e[n] \in members(s.fields[n])
  <1> DEFINE in(n) == members(s.fields[n])
             full  == [n \in DOMAIN s.fields |-> "set"]
             least == [n \in DOMAIN s.fields |->
                         IF s.fields[n].read = "dispatch" \/ s.fields[n].shape = "given"
                         THEN "set" ELSE s.fields[n].init]
             Good(a) == DOMAIN a = DOMAIN s.fields /\ \A n \in DOMAIN s.fields : a[n] \in members(s.fields[n])
  <1>1. \A f : /\ "set" \in members(f)
               /\ ~ (f.read = "dispatch" \/ f.shape = "given") => f.init \in members(f)
    BY DEF members
  <1>2. Good(full) /\ Good(least)
    BY <1>1
  <1>3. DOMAIN full = DOMAIN s.fields /\ DOMAIN least = DOMAIN s.fields
    OBVIOUS
  <1>4. e \in Near({full, least}, in)
    BY DEF Structs
  <1> HIDE DEF full, least
  <1>5. ASSUME NEW a \in Near({full, least}, in) PROVE Good(a)
    <2>1. PICK b \in {full, least} :
            IF DOMAIN b = {} THEN a = b
            ELSE \E x, y \in DOMAIN b : \E v \in in(x), w \in in(y) : a = [b EXCEPT ![x] = v, ![y] = w]
      BY <1>5 DEF Near
    <2>2. Good(b) /\ DOMAIN b = DOMAIN s.fields
      BY <1>2, <1>3
    <2>3. CASE DOMAIN b = {}
      BY <2>1, <2>2, <2>3
    <2>4. CASE DOMAIN b # {}
      <3>1. PICK x \in DOMAIN b, y \in DOMAIN b :
              \E v \in in(x), w \in in(y) : a = [b EXCEPT ![x] = v, ![y] = w]
        BY <2>1, <2>4
      <3>2. PICK v \in in(x), w \in in(y) : a = [b EXCEPT ![x] = v, ![y] = w]
        BY <3>1
      <3>3. v \in members(s.fields[x]) /\ w \in members(s.fields[y])
        OBVIOUS
      <3> HIDE DEF in
      <3>4. DOMAIN a = DOMAIN b /\ \A n \in DOMAIN b : a[n] = IF n = y THEN w ELSE IF n = x THEN v ELSE b[n]
        BY <3>2
      <3> QED
        BY <2>2, <3>3, <3>4
    <2> QED BY <2>3, <2>4
  <1> HIDE DEF Good
  <1>6. Good(e)
    BY <1>4, <1>5
  <1> QED
    BY <1>6 DEF Good

\* A field that is missing stays as it began, where it may be missing.
LEMMA AbsentIgnored ==
    ASSUME NEW f, f.read \in DOMAIN Ignores, ~ Strict(f)
    PROVE  again(f, "absent") = f.init
  <1>1. \A r \in DOMAIN Ignores : r \notin {"at", "value", "dispatch"} => "absent" \in Ignores[r]
    BY DEF Ignores
  <1> QED BY <1>1 DEF again, read_field, Strict

\* A field that is no object's is as it began, or refused.
LEMMA NoObject ==
    ASSUME NEW f, f.read \in DOMAIN Ignores, NEW k, NEW c
    PROVE  LET v == read_field(f, [kind |-> k, at |-> c])
           IN  /\ k # "object" => v = IF Strict(f) THEN Throws ELSE f.init
               /\ k = "object" => v = again(f, c)
  <1>1. DOMAIN Ignores = {"at", "value", "contains", "nonnull", "typed", "filled", "safe", "dispatch", "unread"}
    BY DEF Ignores
  <1>2. \A r \in DOMAIN Ignores : r \notin {"at", "value", "dispatch"} => "absent" \in Ignores[r]
    BY DEF Ignores
  <1>3. CASE k # "object"
    <2>1. CASE Strict(f)
      BY <1>3, <2>1 DEF read_field, Strict
    <2>2. CASE ~ Strict(f)
      <3>1. "absent" \in Ignores[f.read]
        BY <1>2, <2>2 DEF Strict
      <3> QED
        BY <1>3, <2>2, <3>1 DEF read_field, Strict
    <2> QED BY <2>1, <2>2
  <1>4. CASE k = "object"
    BY <1>4 DEF again
  <1> QED BY <1>3, <1>4

\* A switch is written as set when it is set.
LEMMA SwitchWritten ==
    ASSUME NEW f, Switch(f)
    PROVE  \A v : (Rewritten(f, v) = "set") = (v = "set") /\ present(f, v) = (v = "set")
  BY DEF Switch, Rewritten, writes, present

\* What holds of a struct wherever it comes from.
Filled(s, e) == DOMAIN e = DOMAIN s.fields /\ \A n \in DOMAIN s.fields : e[n] \in Held(s.fields[n])

\* A document that is not refused fills the struct.
LEMMA ReadFills ==
    ASSUME NEW name, NEW s, Sound(name, s), NEW d \in Documents(s),
           NEW e, e = from_json(s, d), ~ rejected(e)
    PROVE  Filled(s, e)
  <1> DEFINE f(n) == s.fields[n]
             wanted(n) == \A o \in f(n).only : d.at[o] = "set"
             read(n) == read_field(f(n), [kind |-> d.kind, at |-> d.at[n]])
  <1>1. /\ DOMAIN e = DOMAIN s.fields
        /\ \A n \in DOMAIN s.fields : e[n] = IF wanted(n) THEN read(n) ELSE f(n).init
    BY DEF from_json
  <1>2. \A n \in DOMAIN s.fields : d.at[n] \in inputs(f(n))
    BY DocumentValues
  <1>3. \A n \in DOMAIN s.fields : e[n] # Throws
    BY <1>1 DEF rejected
  <1>4. \A n \in DOMAIN s.fields : f(n).read \in DOMAIN Ignores
    <2>1. Action.read \in DOMAIN Ignores
      BY DEF Action, Enum, F, Ignores
    <2> QED BY <2>1 DEF Sound, Durable
  <1>5. ASSUME NEW n \in DOMAIN s.fields
        PROVE  /\ d.kind # "object" => read(n) = IF Strict(f(n)) THEN Throws ELSE f(n).init
               /\ d.kind = "object" => read(n) = again(f(n), d.at[n])
    BY <1>4, NoObject
  <1> HIDE DEF f, wanted, read
  <1>6. ASSUME NEW n \in DOMAIN s.fields PROVE e[n] \in Held(f(n))
    <2>1. CASE ~ wanted(n)
      <3>1. f(n).init \in members(f(n))
        BY <2>1 DEF Sound, f, wanted
      <3> QED BY <1>1, <2>1, <3>1 DEF Held
    <2>2. CASE wanted(n) /\ d.kind = "object"
      BY <1>1, <1>2, <1>3, <1>5, <2>2 DEF Held
    <2>3. CASE wanted(n) /\ d.kind # "object"
      <3>1. ~ Strict(f(n)) /\ e[n] = f(n).init
        BY <1>1, <1>3, <1>5, <2>3
      <3>2. again(f(n), "absent") = f(n).init
        BY <1>4, <3>1, AbsentIgnored DEF f
      <3>3. "absent" \in inputs(f(n))
        BY <3>1 DEF inputs, Strict
      <3> QED BY <1>3, <3>1, <3>2, <3>3 DEF Held
    <2> QED BY <2>1, <2>2, <2>3
  <1> QED
    BY <1>1, <1>6 DEF Filled, f

\* So does a struct that an application puts together.
LEMMA ComposedFills ==
    ASSUME NEW s, NEW e \in Structs(s)
    PROVE  Filled(s, e)
  BY StructValues DEF Filled, Held

\* What to_json leaves of one field, and what from_json makes of it.
Allowed(s, o, n) ==
  /\ s.fields[n].needs # {} => \E x \in s.fields[n].needs : present(s.fields[x], o[x])
  /\ \A x \in s.fields[n].unless : o[x] = "unset"
outcome(s, o, n) ==
  LET f == s.fields[n]
  IN  IF Allowed(s, o, n) THEN again(f, Rewritten(f, o[n]))
      ELSE IF f.only = {} THEN again(f, "absent") ELSE f.init

\* A member of a struct that was written and read again has that value.
LEMMA FieldOutcome ==
    ASSUME NEW name, NEW s, Sound(name, s), NEW o, Filled(s, o),
           NEW n \in DOMAIN s.fields, NEW d, d = to_json(s, o), NEW e, e = from_json(s, d),
           d.kind = "object" \/ ~ Strict(s.fields[n])
    PROVE  e[n] = outcome(s, o, n)
  <1> DEFINE f(m) == s.fields[m]
             allowed(m) == Allowed(s, o, m)
             wanted(m) == \A x \in f(m).only : d.at[x] = "set"
             read(m) == read_field(f(m), [kind |-> d.kind, at |-> d.at[m]])
  <1>1. \A m \in DOMAIN s.fields : d.at[m] = IF allowed(m) THEN Rewritten(f(m), o[m]) ELSE "absent"
    BY DEF to_json, Rewritten, Allowed
  <1>2. (\E m \in DOMAIN s.fields : d.at[m] # "absent") => d.kind = "object"
    BY DEF to_json
  <1>3. \A m \in DOMAIN s.fields : e[m] = IF wanted(m) THEN read(m) ELSE f(m).init
    BY DEF from_json
  <1>4. f(n).read \in DOMAIN Ignores
    <2>1. Action.read \in DOMAIN Ignores
      BY DEF Action, Enum, F, Ignores
    <2> QED BY <2>1 DEF Sound, Durable
  <1>5. read(n) = again(f(n), d.at[n])
    <2>1. CASE d.kind = "object"
      BY <2>1, <1>4, NoObject
    <2>2. CASE d.kind # "object"
      <3>1. d.at[n] = "absent"
        BY <1>2, <2>2
      <3>2. read(n) = f(n).init
        BY <1>4, <2>2, NoObject
      <3>3. again(f(n), "absent") = f(n).init
        BY <1>4, <2>2, AbsentIgnored
      <3> QED BY <3>1, <3>2, <3>3
    <2> QED BY <2>1, <2>2
  <1>6. CASE f(n).only = {}
    <2>1. e[n] = again(f(n), d.at[n])
      BY <1>3, <1>5, <1>6
    <2> QED
      BY <1>1, <1>6, <2>1 DEF outcome
  <1>7. CASE f(n).only # {}
    <2>1. PICK x \in DOMAIN s.fields : /\ f(n).only = {x} /\ f(n).needs = {x}
                                       /\ f(n).unless = {} /\ Switch(f(x))
      BY <1>7 DEF Sound
    <2>2. d.at[x] = Rewritten(f(x), o[x])
      <3>1. allowed(x)
        BY <2>1 DEF Switch, Allowed
      <3> HIDE DEF allowed, f
      <3> QED BY <1>1, <3>1
    <2>3. /\ (Rewritten(f(x), o[x]) = "set") = (o[x] = "set")
          /\ present(f(x), o[x]) = (o[x] = "set")
      BY <2>1, SwitchWritten
    <2>4. wanted(n) <=> o[x] = "set"
      BY <2>1, <2>2, <2>3
    <2>5. allowed(n) <=> o[x] = "set"
      BY <2>1, <2>3 DEF Allowed
    <2> HIDE DEF wanted, read
    <2> QED
      BY <1>1, <1>3, <1>5, <1>7, <2>4, <2>5 DEF outcome
  <1> QED BY <1>6, <1>7

\* The action of a key request is kept if it has a name.
LEMMA ActionKept ==
    /\ Action.only = {} /\ Action.needs = {} /\ Action.unless = {}
    /\ \A v \in Held(Action) : v = "odd" \/ (v # Throws /\ again(Action, Rewritten(Action, v)) = v)
  BY DEF Action, Enum, F, Held, members, inputs, again, read_field, get, Ignores, Rewritten, writes,
         Throws, None

\* It is the one the member had, but for the members that may lose theirs.
LEMMA FieldKept ==
    ASSUME NEW name, NEW s, Sound(name, s), NEW o, Filled(s, o), ~ unwritable(s, o),
           NEW n \in DOMAIN s.fields, ~ (IsAction(name, n) /\ o[n] = "odd")
    PROVE  /\ outcome(s, o, n) # Throws
           /\ outcome(s, o, n) = o[n] \/ <<name, n>> \in LossyMembers
  <1> DEFINE f == s.fields[n]
  <1>1. o[n] \in Held(f) /\ ~ (f.write = "known" /\ o[n] = "odd")
    BY DEF Filled, unwritable
  <1>2. CASE Durable(f, Lost(name, n))
    <2>1. \A c \in WrittenAs(f, o[n]) :
            again(f, c) # Throws /\ (again(f, c) = o[n] \/ o[n] \in Lost(name, n))
      BY <1>1, <1>2 DEF Durable
    <2>2. f.init # Throws
      BY <1>2 DEF Durable
    <2>3. f.only # {} => <<name, n>> \in LossyMembers
      BY DEF Sound
    <2>4. o[n] \in Lost(name, n) => <<name, n>> \in LossyMembers
      BY DEF Lost
    <2>5. Rewritten(f, o[n]) \in WrittenAs(f, o[n])
      BY DEF WrittenAs
    <2>6. f.only = {} /\ ~ Allowed(s, o, n) => "absent" \in WrittenAs(f, o[n])
      BY DEF WrittenAs, Allowed
    <2> HIDE DEF f
    <2> QED
      BY <2>1, <2>2, <2>3, <2>4, <2>5, <2>6 DEF outcome, f
  <1>3. CASE IsAction(name, n) /\ f = Action
    <2>1. Allowed(s, o, n)
      BY <1>3, ActionKept DEF Allowed
    <2> QED
      BY <1>1, <1>3, <2>1, ActionKept DEF outcome
  <1> QED BY <1>2, <1>3 DEF Sound

\* A sound struct that was written can be read again, unless nothing of an expiry or
\* no action of a key request was, and its members have the values above.
LEMMA StructKept ==
    ASSUME NEW name, NEW s, Sound(name, s), NEW o, Filled(s, o), ~ unwritable(s, o),
           NEW d, d = to_json(s, o), NEW e, e = from_json(s, d)
    PROVE  /\ rejected(e) => \/ name = "EventExpiry" /\ \A n \in DOMAIN s.fields : d.at[n] = "absent"
                             \/ \E n \in DOMAIN s.fields : IsAction(name, n) /\ o[n] = "odd"
           /\ rejected(e) \/ \A n \in DOMAIN s.fields :
                /\ e[n] = outcome(s, o, n)
                /\ \/ e[n] = o[n] \/ <<name, n>> \in LossyMembers
                   \/ IsAction(name, n) /\ o[n] = "odd"
  <1>1. DOMAIN e = DOMAIN s.fields
    BY DEF from_json
  <1>2. CASE \A n \in DOMAIN s.fields : d.kind = "object" \/ ~ Strict(s.fields[n])
    <2>1. \A n \in DOMAIN s.fields : e[n] = outcome(s, o, n)
      BY <1>2, FieldOutcome
    <2>2. \A n \in DOMAIN s.fields : \/ IsAction(name, n) /\ o[n] = "odd"
                                     \/ /\ e[n] # Throws
                                        /\ e[n] = o[n] \/ <<name, n>> \in LossyMembers
      BY <2>1, FieldKept
    <2> QED
      BY <1>1, <2>1, <2>2 DEF rejected
  <1>3. CASE \E n \in DOMAIN s.fields : d.kind # "object" /\ Strict(s.fields[n])
    <2>1. /\ d.kind # "object" /\ s.start = "null"
          /\ \A n \in DOMAIN s.fields : d.at[n] = "absent"
      BY <1>3 DEF to_json
    <2>2. ~ \E n \in DOMAIN s.fields : Anchor(s.fields[n])
      <3> SUFFICES ASSUME NEW n \in DOMAIN s.fields, Anchor(s.fields[n]) PROVE FALSE
        OBVIOUS
      <3>1. o[n] # "absent" /\ writes(s.fields[n], o[n])
        BY DEF Anchor, Filled, writes
      <3>2. d.at[n] \in {"set", o[n]}
        BY <3>1 DEF to_json, Anchor
      <3> QED BY <2>1, <3>1, <3>2
    <2>3. PICK n \in DOMAIN s.fields : /\ name = "EventExpiry"
                                       /\ Strict(s.fields[n]) /\ s.fields[n].only = {}
      BY <1>3, <2>1, <2>2 DEF Sound
    <2>4. e[n] = read_field(s.fields[n], [kind |-> d.kind, at |-> d.at[n]])
      BY <2>3 DEF from_json
    <2>5. e[n] = Throws
      BY <2>1, <2>3, <2>4 DEF read_field, Strict
    <2> QED
      BY <1>1, <2>1, <2>3, <2>5 DEF rejected
  <1> QED
    BY <1>2, <1>3

-----------------------------------------------------------------------------
(* The fields of the library's structs.                                    *)

\* Fields that are always written, those written unless they are empty, and
\* optional ones.
Common(f) ==
  /\ f.shape \in {"scalar", "many", "loose", "elements", "scan"}
  /\ f.odd \in {None, "empty", "set", "odd"}
  /\ f.only # {} \/ (f.needs = {} /\ f.unless = {})
Lenient == {"value", "contains", "nonnull", "typed", "safe"}
Always(f) ==
  Common(f) /\ f.write = "always" /\ f.read \in Lenient \cup {"at"} /\ f.init \in {"empty", "set"}
NonEmpty(f) ==
  Common(f) /\ f.write = "nonempty" /\ f.read \in Lenient /\ f.init = "empty"
Optional(f) ==
  Common(f) /\ f.write = "has_value" /\ f.read \in Lenient \ {"value"} /\ f.init = "unset"

\* The values of a common field.
LEMMA HeldValues ==
    ASSUME NEW f, f.shape \in {"scalar", "many", "loose", "elements", "scan"},
           f.odd \in {None, "empty", "set", "odd"}, f.read \in Lenient \cup {"at"}
    PROVE  /\ Held(f) \subseteq {"empty", "set", f.init}
                                \cup (IF f.odd = "odd" \/ f.write = "named" THEN {"odd"} ELSE {})
           /\ again(f, "empty") = "empty" /\ again(f, "set") = "set"
           /\ f.odd = "odd" => again(f, "odd") = "odd"
           /\ f.read # "at" => again(f, "absent") = f.init
           /\ f.read \in DOMAIN Ignores
  <1> USE DEF Lenient
  <1>1. /\ again(f, "empty") = "empty" /\ again(f, "set") = "set"
        /\ again(f, "odd") = f.odd
        /\ again(f, "absent") \in {f.init, Throws}
        /\ again(f, "null") \in {f.init, Throws, "empty"}
        /\ again(f, "wrong") \in {f.init, Throws, "empty"}
        /\ again(f, "bad") \in {f.init, Throws, "empty"}
    BY DEF again, read_field, get, Ignores, Throws, None
  <1>2. f.read # "at" => again(f, "absent") = f.init
    BY DEF again, read_field, Ignores, Throws
  <1>3. inputs(f) \subseteq {"absent", "null", "wrong", "bad", "empty", "set"}
                            \cup (IF f.odd # None THEN {"odd"} ELSE {})
    BY DEF inputs
  <1>4. members(f) \subseteq {"empty", "set", f.init}
                             \cup (IF f.odd = "odd" \/ f.write = "named" THEN {"odd"} ELSE {})
    BY DEF members
  <1>5. ASSUME NEW c \in inputs(f), again(f, c) # Throws
        PROVE  again(f, c) \in {"empty", "set", f.init} \cup (IF f.odd = "odd" THEN {"odd"} ELSE {})
    BY <1>1, <1>3, <1>5
  <1>6. f.read \in DOMAIN Ignores
    BY DEF Ignores
  <1> QED BY <1>1, <1>2, <1>4, <1>5, <1>6 DEF Held

\* A field that keeps all its values; one that is also always there.
Free(f) == f.only = {} /\ \A lost : Durable(f, lost)
Steady(f) == Free(f) /\ Anchor(f)

\* Common fields keep their values.
LEMMA CommonDurable ==
    ASSUME NEW f, Always(f) \/ NonEmpty(f) \/ Optional(f), NEW lost
    PROVE  Durable(f, lost)
  <1> USE DEF Common, Lenient, Durable, WrittenAs, Rewritten, writes, Throws
  <1>1. CASE Always(f)
    BY <1>1, HeldValues DEF Always
  <1>2. CASE NonEmpty(f)
    BY <1>2, HeldValues DEF NonEmpty
  <1>3. CASE Optional(f)
    BY <1>3, HeldValues DEF Optional
  <1> QED BY <1>1, <1>2, <1>3

\* And those that are always written are always there.
LEMMA AlwaysThere == ASSUME NEW f, Always(f), f.only = {} PROVE Steady(f)
  <1>1. "absent" \notin Held(f)
    BY HeldValues DEF Always, Common
  <1> QED
    BY <1>1, CommonDurable DEF Steady, Free, Anchor, Always, Common

\* The fields that are always written.
LEMMA SteadyFields ==
    /\ Steady(At) /\ Steady(Many(At)) /\ Steady(Loose(At)) /\ Steady(Id(At))
    /\ Steady(Val) /\ Steady(Many(Val)) /\ Steady(Id(Val))
    /\ Steady(Has) /\ Steady(Many(Has)) /\ Steady(Loose(Has)) /\ Steady(Safe) /\ Steady(NonNull)
  <1> USE DEF Always, Common, Lenient, At, Val, Has, Safe, NonNull, Many, Loose, Id, F, None
  <1>1. /\ Always(At) /\ Always(Many(At)) /\ Always(Loose(At)) /\ Always(Id(At))
        /\ Always(Val) /\ Always(Many(Val)) /\ Always(Id(Val))
        /\ Always(Has) /\ Always(Many(Has)) /\ Always(Loose(Has)) /\ Always(Safe) /\ Always(NonNull)
    OBVIOUS
  <1>2. /\ At.only = {} /\ Many(At).only = {} /\ Loose(At).only = {} /\ Id(At).only = {}
        /\ Val.only = {} /\ Many(Val).only = {} /\ Id(Val).only = {}
        /\ Has.only = {} /\ Many(Has).only = {} /\ Loose(Has).only = {} /\ Safe.only = {}
        /\ NonNull.only = {}
    OBVIOUS
  <1> HIDE DEF Always, Common, Lenient, At, Val, Has, Safe, NonNull, Many, Loose, Id, F, None
  <1> QED BY <1>1, <1>2, AlwaysThere

\* Those that begin with a value of their own, and enumerations.
LEMMA SteadyEnums ==
    /\ Steady(Init_(Has, "set")) /\ Steady(Init_(Val, "set"))
    /\ Steady(Enum(Val, "empty")) /\ Steady(Enum(At, "empty"))
    /\ Steady(Enum(At, "odd")) /\ Steady(Methods) /\ Steady(Init_(Enum(Val, "odd"), "set"))
  <1> USE DEF Always, Common, Lenient, At, Val, Has, Many, Init_, Enum, Methods, F, None
  <1>1. /\ Always(Init_(Has, "set")) /\ Always(Init_(Val, "set"))
        /\ Always(Enum(Val, "empty")) /\ Always(Enum(At, "empty"))
        /\ Always(Enum(At, "odd")) /\ Always(Methods) /\ Always(Init_(Enum(Val, "odd"), "set"))
    OBVIOUS
  <1>2. /\ Init_(Has, "set").only = {} /\ Init_(Val, "set").only = {}
        /\ Enum(Val, "empty").only = {} /\ Enum(At, "empty").only = {}
        /\ Enum(At, "odd").only = {} /\ Methods.only = {} /\ Init_(Enum(Val, "odd"), "set").only = {}
    OBVIOUS
  <1> HIDE DEF Always, Common, Lenient, At, Val, Has, Many, Init_, Enum, Methods, F, None
  <1> QED BY <1>1, <1>2, AlwaysThere

\* A field that keeps its values and does not ask for an object.
Quiet(f) == Free(f) /\ ~ Strict(f)

\* The fields that are written unless they are empty.
LEMMA NonEmptyFields ==
    /\ Quiet(HasSet) /\ Quiet(Many(HasSet)) /\ Quiet(Id(HasSet)) /\ Quiet(Loose(HasSet))
    /\ Quiet(SafeSet) /\ Quiet(F("nonnull", "nonempty")) /\ Quiet(F("typed", "nonempty"))
    /\ Quiet(Many(F("typed", "nonempty"))) /\ Quiet(Scan(HasSet)) /\ Quiet(Scan(F("typed", "nonempty")))
    /\ Quiet(Enum(Loose(HasSet), "empty"))
    /\ Free(ValSet) /\ Free(Many(ValSet)) /\ Free(Enum(ValSet, "empty"))
  <1> USE DEF NonEmpty, Common, Lenient, HasSet, SafeSet, ValSet, Many, Id, Loose, Scan, Enum, F, None, Strict
  <1>1. /\ NonEmpty(HasSet) /\ NonEmpty(Many(HasSet)) /\ NonEmpty(Id(HasSet)) /\ NonEmpty(Loose(HasSet))
        /\ NonEmpty(SafeSet) /\ NonEmpty(F("nonnull", "nonempty")) /\ NonEmpty(F("typed", "nonempty"))
        /\ NonEmpty(Many(F("typed", "nonempty"))) /\ NonEmpty(Scan(HasSet))
        /\ NonEmpty(Scan(F("typed", "nonempty"))) /\ NonEmpty(Enum(Loose(HasSet), "empty"))
        /\ NonEmpty(ValSet) /\ NonEmpty(Many(ValSet)) /\ NonEmpty(Enum(ValSet, "empty"))
    OBVIOUS
  <1>2. /\ HasSet.only = {} /\ Many(HasSet).only = {} /\ Id(HasSet).only = {} /\ Loose(HasSet).only = {}
        /\ SafeSet.only = {} /\ F("nonnull", "nonempty").only = {} /\ F("typed", "nonempty").only = {}
        /\ Many(F("typed", "nonempty")).only = {} /\ Scan(HasSet).only = {}
        /\ Scan(F("typed", "nonempty")).only = {} /\ Enum(Loose(HasSet), "empty").only = {}
        /\ ValSet.only = {} /\ Many(ValSet).only = {} /\ Enum(ValSet, "empty").only = {}
    OBVIOUS
  <1>3. /\ ~ Strict(HasSet) /\ ~ Strict(Many(HasSet)) /\ ~ Strict(Id(HasSet)) /\ ~ Strict(Loose(HasSet))
        /\ ~ Strict(SafeSet) /\ ~ Strict(F("nonnull", "nonempty")) /\ ~ Strict(F("typed", "nonempty"))
        /\ ~ Strict(Many(F("typed", "nonempty"))) /\ ~ Strict(Scan(HasSet))
        /\ ~ Strict(Scan(F("typed", "nonempty"))) /\ ~ Strict(Enum(Loose(HasSet), "empty"))
    OBVIOUS
  <1> HIDE DEF NonEmpty, Common, Lenient, HasSet, SafeSet, ValSet, Many, Id, Loose, Scan, Enum, F, None, Strict
  <1> QED BY <1>1, <1>2, <1>3, CommonDurable DEF Free, Quiet

\* The optional fields.
LEMMA OptionalFields ==
    /\ Quiet(Opt(Has)) /\ Quiet(Opt(Many(Has))) /\ Quiet(Opt(Loose(Has))) /\ Quiet(Opt(Scan(Has)))
    /\ Quiet(Opt(F("typed", "has_value"))) /\ Quiet(Transaction) /\ Quiet(File_) /\ Quiet(Mentions)
  <1> USE DEF Optional, Common, Lenient, Has, Many, Loose, Scan, Opt, Transaction, File_, Mentions, F, None,
              Strict
  <1>1. /\ Optional(Opt(Has)) /\ Optional(Opt(Many(Has))) /\ Optional(Opt(Loose(Has)))
        /\ Optional(Opt(Scan(Has))) /\ Optional(Opt(F("typed", "has_value"))) /\ Optional(Transaction)
        /\ Optional(File_) /\ Optional(Mentions)
    OBVIOUS
  <1>2. /\ Opt(Has).only = {} /\ Opt(Many(Has)).only = {} /\ Opt(Loose(Has)).only = {}
        /\ Opt(Scan(Has)).only = {} /\ Opt(F("typed", "has_value")).only = {} /\ Transaction.only = {}
        /\ File_.only = {} /\ Mentions.only = {}
    OBVIOUS
  <1>3. /\ ~ Strict(Opt(Has)) /\ ~ Strict(Opt(Many(Has))) /\ ~ Strict(Opt(Loose(Has)))
        /\ ~ Strict(Opt(Scan(Has))) /\ ~ Strict(Opt(F("typed", "has_value"))) /\ ~ Strict(Transaction)
        /\ ~ Strict(File_) /\ ~ Strict(Mentions)
    OBVIOUS
  <1> HIDE DEF Optional, Common, Lenient, Has, Many, Loose, Scan, Opt, Transaction, File_, Mentions, F, None,
              Strict
  <1> QED BY <1>1, <1>2, <1>3, CommonDurable DEF Free, Quiet

\* The fields with readers, writers or types of their own, which also keep their
\* values: relations, what chose the struct, names, keys of objects and the
\* contents that are kept as they are.
LEMMA OtherFields ==
    /\ Quiet(Relates) /\ Quiet(Name(HasSet, "set")) /\ Quiet(Raw(HasSet)) /\ Free(Raw(At))
    /\ Steady(MsgType) /\ Steady(F("dispatch", "always")) /\ Steady(Given(At)) /\ Steady(Keys(Has))
    /\ Free(Init_(Enum(F("value", "known"), "odd"), "odd"))
  <1> USE DEF Durable, Held, WrittenAs, Rewritten, again, members, inputs, read_field, get, Ignores, writes,
              Throws, None, F, Free, Quiet, Steady, Anchor, Strict
  <1>1. Quiet(Relates) /\ Quiet(Name(HasSet, "set"))
    BY DEF Relates, Name, HasSet
  <1>2. Quiet(Raw(HasSet)) /\ Free(Raw(At))
    BY DEF Raw, HasSet, At
  <1>3. Steady(MsgType) /\ Steady(F("dispatch", "always"))
    BY DEF MsgType
  <1>4. Steady(Given(At)) /\ Steady(Keys(Has))
    BY DEF Given, Keys, At, Has
  <1>5. Free(Init_(Enum(F("value", "known"), "odd"), "odd"))
    BY DEF Init_, Enum
  <1> QED BY <1>1, <1>2, <1>3, <1>4, <1>5

\* The order of a space's child.
Order == Needs(Init_(Enum(F("typed", "named"), "unset"), "unset"), {"via"})

\* A field that loses the values of lost, and no others.
Loses(f, lost) == f.only = {} /\ Durable(f, lost)

\* The fields that lose values: not written beside or without another field, in
\* one form only, or never read.
LEMMA LossyFields ==
    /\ Loses(Format, {"empty", "set", "odd"}) /\ Loses(Url, {"set"}) /\ Loses(Unless(Val, {"file"}), {"set"})
    /\ Loses(Thumbnail, {"set"}) /\ ~ Strict(Thumbnail)
    /\ Loses(Needs(Loose(Has), {"thumbnail_url", "thumbnail_file"}), {"set"})
    /\ ~ Strict(Needs(Loose(Has), {"thumbnail_url", "thumbnail_file"}))
    /\ Loses(Needs(Val, {"type"}), {"set"}) /\ Loses(Needs(F("typed", "nonempty"), {"via"}), {"set"})
    /\ Loses(Needs(ValSet, {"via"}), {"set"})
    /\ Loses(Order, {"empty", "set", "odd"})
    /\ Loses(Via, {"empty"}) /\ Loses(Init_(HasSet, "set"), {"empty"})
    /\ Loses(Init_(Enum(Elements(HasSet), "odd"), "unset"), {"empty"})
    /\ ~ Strict(Init_(Enum(Elements(HasSet), "odd"), "unset"))
    /\ Loses(Init_(F("unread", "always"), "set"), {"empty"})
    /\ Loses([Opt(Has) EXCEPT !.write = "tag"], {"empty"})
  <1> USE DEF Durable, Held, WrittenAs, Rewritten, again, members, inputs, read_field, get, Ignores, writes,
              Throws, None, F, Loses, Strict
  <1>1. Loses(Format, {"empty", "set", "odd"})
    BY DEF Format, Needs, Enum
  <1>2. Loses(Url, {"set"}) /\ Loses(Unless(Val, {"file"}), {"set"})
    BY DEF Url, Unless, Has, Val
  <1>3. Loses(Thumbnail, {"set"}) /\ ~ Strict(Thumbnail)
    BY DEF Thumbnail, Needs, Loose, Has
  <1>4. /\ Loses(Needs(Loose(Has), {"thumbnail_url", "thumbnail_file"}), {"set"})
        /\ ~ Strict(Needs(Loose(Has), {"thumbnail_url", "thumbnail_file"}))
    BY DEF Needs, Loose, Has
  <1>5. /\ Loses(Needs(Val, {"type"}), {"set"}) /\ Loses(Needs(F("typed", "nonempty"), {"via"}), {"set"})
        /\ Loses(Needs(ValSet, {"via"}), {"set"})
    BY DEF Needs, Val, ValSet
  <1>6. Loses(Order, {"empty", "set", "odd"})
    BY DEF Order, Needs, Enum, Init_
  <1>7. Loses(Via, {"empty"}) /\ Loses(Init_(HasSet, "set"), {"empty"})
    BY DEF Via, Init_, Many, HasSet
  <1>8. /\ Loses(Init_(Enum(Elements(HasSet), "odd"), "unset"), {"empty"})
        /\ ~ Strict(Init_(Enum(Elements(HasSet), "odd"), "unset"))
    BY DEF Init_, Enum, Elements, HasSet
  <1>9. Loses(Init_(F("unread", "always"), "set"), {"empty"})
    BY DEF Init_
  <1>10. Loses([Opt(Has) EXCEPT !.write = "tag"], {"empty"})
    BY DEF Opt, Has
  <1> QED BY <1>1, <1>2, <1>3, <1>4, <1>5, <1>6, <1>7, <1>8, <1>9, <1>10

\* A field that is read and written only if another one is set.
Follows(f, o, lost) == /\ f.only = {o} /\ f.needs = {o} /\ f.unless = {}
                       /\ f.init \in members(f) /\ Durable(f, lost)

\* The body of a key request and what calls of version 1 have.
LEMMA FollowingFields ==
    /\ Follows(Only(At, {"action"}), "action", {}) /\ Follows(Only(ValSet, {"action"}), "action", {})
    /\ Follows(Only(F("at", "constant"), {"action"}), "action", {"empty"})
    /\ Follows(Party, "version", {}) /\ Follows(Only(Has, {"version"}), "version", {})
    /\ Switch(Action) /\ Switch(At)
  <1> USE DEF Durable, Held, WrittenAs, Rewritten, again, members, inputs, read_field, get, Ignores, writes,
              Throws, None, F, Follows, Only
  <1>1. Follows(Only(At, {"action"}), "action", {}) /\ Follows(Only(ValSet, {"action"}), "action", {})
    BY DEF At, ValSet
  <1>2. Follows(Only(F("at", "constant"), {"action"}), "action", {"empty"})
    OBVIOUS
  <1>3. Follows(Party, "version", {}) /\ Follows(Only(Has, {"version"}), "version", {})
    BY DEF At, Has, Party
  <1>4. Switch(Action) /\ Switch(At)
    BY DEF Switch, Action, Enum, At
  <1> QED BY <1>1, <1>2, <1>3, <1>4

\* More values may be lost.
LEMMA MoreLost == ASSUME NEW f, NEW A, NEW B, A \subseteq B, Durable(f, A) PROVE Durable(f, B)
  BY DEF Durable

\* The members that follow another one may lose what they have.
Follower(name, n) == Lost(name, n) = {"empty", "set", "odd"} /\ <<name, n>> \in LossyMembers
\* Each of them may lose any value but that of a member that was not set.
LEMMA FollowersLost ==
    /\ Follower("CallInvite", "party_id")
    /\ Follower("CallInvite", "invitee")
    /\ Follower("CallCandidates", "party_id")
    /\ Follower("CallAnswer", "party_id")
    /\ Follower("CallHangUp", "party_id")
    /\ Follower("KeyRequest", "room_id")
    /\ Follower("KeyRequest", "session_id")
    /\ Follower("KeyRequest", "sender_key")
    /\ Follower("KeyRequest", "algorithm")
  BY DEF Follower, Lost, LossyMembers

\* A field read by value() asks for an object.
LEMMA ValStrict == Strict(ValSet)
  BY DEF Strict, ValSet, F

\* A field that keeps its values, but for the lossy ones.
Keeps(name, n, f) == Free(f) \/ \E lost \in SUBSET Lost(name, n) : Loses(f, lost)

\* A struct of such fields is sound if it is written as an object, has a field that
\* is always there, or none that asks for an object.
LEMMA FieldsSound ==
    ASSUME NEW name, NEW s, \A n \in DOMAIN s.fields : Keeps(name, n, s.fields[n]),
           \/ s.start # "null"
           \/ \E n \in DOMAIN s.fields : Steady(s.fields[n])
           \/ \A n \in DOMAIN s.fields : ~ Strict(s.fields[n])
    PROVE  Sound(name, s)
  BY MoreLost DEF Keeps, Loses, Free, Steady, Sound

\* The lossy fields of the structs, one by one.
LEMMA LossyKept ==
    /\ Keeps("ImageInfo", "thumbnail_info", Thumbnail)
    /\ Keeps("FileInfo", "thumbnail_info", Thumbnail)
    /\ Keeps("VideoInfo", "thumbnail_info", Thumbnail)
    /\ Keeps("LocationInfo", "thumbnail_info", Needs(Loose(Has), {"thumbnail_url", "thumbnail_file"}))
    /\ Keeps("Create", "room_version", Init_(HasSet, "set"))
    /\ Keeps("JoinAllowance", "room_id", Needs(Val, {"type"}))
    /\ Keeps("Parent", "canonical", Needs(F("typed", "nonempty"), {"via"}))
    /\ Keeps("Parent", "via", Via)
    /\ Keeps("Child", "via", Via)
    /\ Keeps("Child", "suggested", Needs(ValSet, {"via"}))
    /\ Keeps("Child", "order", Order)
    /\ Keeps("HiddenEvents", "hidden_event_types", Init_(Enum(Elements(HasSet), "odd"), "unset"))
    /\ Keeps("Text", "format", Format)
    /\ Keeps("Emote", "format", Format)
    /\ Keeps("Notice", "format", Format)
    /\ Keeps("ElementEffect", "format", Format)
    /\ Keeps("Audio", "url", Url)
    /\ Keeps("Video", "url", Url)
    /\ Keeps("File", "url", Url)
    /\ Keeps("Image", "url", Unless(Val, {"file"}))
    /\ Keeps("StickerImage", "url", Unless(Val, {"file"}))
    /\ Keeps("OlmEncrypted", "algorithm", Init_(F("unread", "always"), "set"))
    /\ Keeps("KeyVerificationRequest", "msgtype", [Opt(Has) EXCEPT !.write = "tag"])
    /\ Keeps("ExportedSession", "algorithm", Init_(F("unread", "always"), "set"))
  BY LossyFields DEF Keeps, Lost, LossyMembers

\* The others keep everything.
LEMMA FreeKept == \A name, n, f : Free(f) => Keeps(name, n, f)
  BY DEF Keeps

\* The contents of state events, account data and ephemeral events are sound.
LEMMA EventStructs == \A n \in DOMAIN EventSchemas : Sound(n, EventSchemas[n])
  <1> USE DEF Bare, Object, Whole, Steady, Quiet
  <1>1. Sound("UnsignedData", UnsignedData)
    BY FieldsSound, FreeKept, NonEmptyFields, OptionalFields DEF UnsignedData
  <1>2. Sound("Event", Event)
    BY FieldsSound, FreeKept, SteadyFields, OtherFields DEF Event
  <1>3. Sound("DeviceEvent", DeviceEvent)
    BY FieldsSound, FreeKept, SteadyFields, OtherFields DEF DeviceEvent
  <1>4. Sound("StrippedEvent", StrippedEvent)
    BY FieldsSound, FreeKept, SteadyFields, OtherFields DEF StrippedEvent
  <1>5. Sound("RoomEvent", RoomEvent)
    BY FieldsSound, FreeKept, SteadyFields, NonEmptyFields, OtherFields DEF RoomEvent
  <1>6. Sound("StateEvent", StateEvent)
    BY FieldsSound, FreeKept, SteadyFields, NonEmptyFields, OtherFields DEF StateEvent
  <1>7. Sound("RedactionEvent", RedactionEvent)
    BY FieldsSound, FreeKept, SteadyFields, NonEmptyFields, OtherFields DEF RedactionEvent
  <1>8. Sound("EphemeralEvent", EphemeralEvent)
    BY FieldsSound, FreeKept, SteadyFields, NonEmptyFields, OtherFields DEF EphemeralEvent
  <1>9. Sound("UnsignedDeviceInfo", UnsignedDeviceInfo)
    BY FieldsSound, FreeKept, NonEmptyFields DEF UnsignedDeviceInfo
  <1>10. Sound("DeviceKeys", DeviceKeys)
    BY FieldsSound, FreeKept, SteadyFields, NonEmptyFields DEF DeviceKeys
  <1>11. Sound("CrossSigningKeys", CrossSigningKeys)
    BY FieldsSound, FreeKept, SteadyFields DEF CrossSigningKeys
  <1>12. Sound("JWK", JWK)
    BY FieldsSound, FreeKept, SteadyFields DEF JWK
  <1>13. Sound("EncryptedFile", EncryptedFile)
    BY FieldsSound, FreeKept, SteadyFields DEF EncryptedFile
  <1>14. Sound("ThumbnailInfo", ThumbnailInfo)
    BY FieldsSound, FreeKept, SteadyFields DEF ThumbnailInfo
  <1>15. Sound("ImageInfo", ImageInfo)
    BY FieldsSound, FreeKept, LossyKept, SteadyFields, NonEmptyFields, OptionalFields DEF ImageInfo
  <1>16. Sound("FileInfo", FileInfo)
    BY FieldsSound, FreeKept, LossyKept, SteadyFields, NonEmptyFields, OptionalFields DEF FileInfo
  <1>17. Sound("AudioInfo", AudioInfo)
    BY FieldsSound, FreeKept, SteadyFields DEF AudioInfo
  <1>18. Sound("VideoInfo", VideoInfo)
    BY FieldsSound, FreeKept, LossyKept, SteadyFields, NonEmptyFields, OptionalFields DEF VideoInfo
  <1>19. Sound("LocationInfo", LocationInfo)
    BY FieldsSound, FreeKept, LossyKept, NonEmptyFields, OptionalFields, LossyFields DEF LocationInfo
  <1>20. Sound("Mentions", MentionsInfo)
    BY FieldsSound, FreeKept, NonEmptyFields DEF MentionsInfo
  <1>21. Sound("Aliases", Aliases)
    BY FieldsSound, FreeKept, SteadyFields DEF Aliases
  <1>22. Sound("Avatar", Avatar)
    BY FieldsSound, FreeKept, SteadyFields DEF Avatar
  <1>23. Sound("CanonicalAlias", CanonicalAlias)
    BY FieldsSound, FreeKept, NonEmptyFields DEF CanonicalAlias
  <1>24. Sound("PreviousRoom", PreviousRoom)
    BY FieldsSound, FreeKept, SteadyFields, NonEmptyFields DEF PreviousRoom
  <1>25. Sound("Create", Create)
    BY FieldsSound, FreeKept, LossyKept, SteadyEnums, NonEmptyFields, OptionalFields DEF Create
  <1>26. Sound("Encryption", Encryption)
    BY FieldsSound, FreeKept, SteadyFields, SteadyEnums DEF Encryption
  <1>27. Sound("GuestAccess", GuestAccess)
    BY FieldsSound, FreeKept, SteadyEnums DEF GuestAccess
  <1>28. Sound("HistoryVisibility", HistoryVisibility)
    BY FieldsSound, FreeKept, SteadyEnums DEF HistoryVisibility
  <1>29. Sound("JoinAllowance", JoinAllowance)
    BY FieldsSound, FreeKept, LossyKept, NonEmptyFields DEF JoinAllowance
  <1>30. Sound("JoinRules", JoinRules)
    BY FieldsSound, FreeKept, SteadyEnums, NonEmptyFields DEF JoinRules
  <1>31. Sound("Member", Member)
    BY FieldsSound, FreeKept, SteadyFields, SteadyEnums, NonEmptyFields DEF Member
  <1>32. Sound("Name", Name_)
    BY FieldsSound, FreeKept, SteadyFields DEF Name_
  <1>33. Sound("PinnedEvents", PinnedEvents)
    BY FieldsSound, FreeKept, SteadyFields DEF PinnedEvents
  <1>34. Sound("PowerLevels", PowerLevels)
    BY FieldsSound, FreeKept, SteadyFields, SteadyEnums, NonEmptyFields DEF PowerLevels
  <1>35. Sound("Rule", Rule)
    BY FieldsSound, FreeKept, SteadyFields DEF Rule
  <1>36. Sound("ServerAcl", ServerAcl)
    BY FieldsSound, FreeKept, SteadyFields, SteadyEnums DEF ServerAcl
  <1>37. Sound("Parent", Parent)
    BY FieldsSound, FreeKept, LossyKept DEF Parent
  <1>38. Sound("Child", Child)
    BY FieldsSound, FreeKept, LossyKept DEF Child, Order
  <1>39. Sound("Tombstone", Tombstone)
    BY FieldsSound, FreeKept, SteadyFields DEF Tombstone
  <1>40. Sound("Topic", Topic)
    BY FieldsSound, FreeKept, SteadyFields DEF Topic
  <1>41. Sound("Widget", Widget)
    BY FieldsSound, FreeKept, SteadyFields, SteadyEnums, NonEmptyFields DEF Widget
  <1>42. Sound("Direct", Direct)
    BY FieldsSound, FreeKept, SteadyFields DEF Direct
  <1>43. Sound("FullyRead", FullyRead)
    BY FieldsSound, FreeKept, SteadyFields DEF FullyRead
  <1>44. Sound("IgnoredUsers", IgnoredUsers)
    BY FieldsSound, FreeKept, OtherFields DEF IgnoredUsers
  <1>45. Sound("Presence", Presence)
    BY FieldsSound, FreeKept, SteadyEnums, NonEmptyFields DEF Presence
  <1>46. Sound("Receipt", Receipt)
    BY FieldsSound, FreeKept, NonEmptyFields DEF Receipt
  <1>47. Sound("Tag", Tag)
    BY FieldsSound, FreeKept, OptionalFields DEF Tag
  <1>48. Sound("Tags", Tags)
    BY FieldsSound, FreeKept, SteadyFields DEF Tags
  <1>49. Sound("Typing", Typing)
    BY FieldsSound, FreeKept, SteadyFields DEF Typing
  <1>50. Sound("EventExpiry", EventExpiry)
    BY NonEmptyFields, ValStrict DEF EventExpiry, Sound, Free
  <1>51. Sound("HiddenEvents", HiddenEvents)
    BY FieldsSound, FreeKept, LossyKept, LossyFields DEF HiddenEvents
  <1>52. Sound("InvitePermissions", InvitePermissions)
    BY FieldsSound, FreeKept, SteadyEnums, NonEmptyFields DEF InvitePermissions
  <1>53. Sound("PackImage", PackImage)
    BY FieldsSound, FreeKept, SteadyFields, NonEmptyFields, OptionalFields DEF PackImage
  <1>54. Sound("PackDescription", PackDescription)
    BY FieldsSound, FreeKept, NonEmptyFields DEF PackDescription
  <1>55. Sound("ImagePack", ImagePack)
    BY FieldsSound, FreeKept, SteadyFields, OptionalFields DEF ImagePack
  <1>56. Sound("ImagePackRooms", ImagePackRooms)
    BY FieldsSound, FreeKept, OtherFields DEF ImagePackRooms
  <1>57. Sound("AesHmacSha2EncryptedData", AesHmacSha2EncryptedData)
    BY FieldsSound, FreeKept, SteadyFields DEF AesHmacSha2EncryptedData
  <1>58. Sound("Secret", Secret)
    BY FieldsSound, FreeKept, SteadyFields DEF Secret
  <1>59. Sound("PBKDF2", PBKDF2)
    BY FieldsSound, FreeKept, SteadyFields, SteadyEnums DEF PBKDF2
  <1>60. Sound("AesHmacSha2KeyDescription", AesHmacSha2KeyDescription)
    BY FieldsSound, FreeKept, SteadyFields, NonEmptyFields, OptionalFields DEF AesHmacSha2KeyDescription
  <1>61. Sound("Unknown", Unknown)
    BY FieldsSound, FreeKept, OtherFields DEF Unknown
  <1> QED
    BY <1>1, <1>2, <1>3, <1>4, <1>5, <1>6, <1>7, <1>8, <1>9, <1>10, <1>11, <1>12, <1>13, <1>14,
       <1>15, <1>16, <1>17, <1>18, <1>19, <1>20, <1>21, <1>22, <1>23, <1>24, <1>25, <1>26,
       <1>27, <1>28, <1>29, <1>30, <1>31, <1>32, <1>33, <1>34, <1>35, <1>36, <1>37, <1>38,
       <1>39, <1>40, <1>41, <1>42, <1>43, <1>44, <1>45, <1>46, <1>47, <1>48, <1>49, <1>50,
       <1>51, <1>52, <1>53, <1>54, <1>55, <1>56, <1>57, <1>58, <1>59, <1>60, <1>61
       DEF EventSchemas

\* So are those of messages, keys, verification and calls.
LEMMA MessageStructs == \A n \in DOMAIN MessageSchemas : Sound(n, MessageSchemas[n])
  <1> USE DEF Bare, Object, Whole, Steady, Quiet
  <1>1. Sound("Text", Text)
    BY FieldsSound, FreeKept, LossyKept, SteadyFields, NonEmptyFields, OptionalFields, OtherFields DEF Text
  <1>2. Sound("Emote", Emote)
    BY FieldsSound, FreeKept, LossyKept, SteadyFields, NonEmptyFields, OptionalFields, OtherFields DEF Emote
  <1>3. Sound("Notice", Notice)
    BY FieldsSound, FreeKept, LossyKept, SteadyFields, NonEmptyFields, OptionalFields, OtherFields DEF Notice
  <1>4. Sound("ElementEffect", ElementEffect)
    BY FieldsSound, FreeKept, LossyKept, SteadyFields, NonEmptyFields, OptionalFields, OtherFields DEF ElementEffect
  <1>5. Sound("Audio", Audio)
    BY FieldsSound, FreeKept, LossyKept, SteadyFields, OptionalFields, OtherFields DEF Audio
  <1>6. Sound("Video", Video)
    BY FieldsSound, FreeKept, LossyKept, SteadyFields, OptionalFields, OtherFields DEF Video
  <1>7. Sound("File", File)
    BY FieldsSound, FreeKept, LossyKept, SteadyFields, NonEmptyFields, OptionalFields, OtherFields DEF File
  <1>8. Sound("Image", Image)
    BY FieldsSound, FreeKept, LossyKept, SteadyFields, OptionalFields, OtherFields DEF Image
  <1>9. Sound("StickerImage", StickerImage)
    BY FieldsSound, FreeKept, LossyKept, SteadyFields, OptionalFields, OtherFields DEF StickerImage
  <1>10. Sound("Location", Location)
    BY FieldsSound, FreeKept, SteadyFields, OtherFields DEF Location
  <1>11. Sound("UnknownMessage", UnknownMessage)
    BY FieldsSound, FreeKept, SteadyFields, OptionalFields, OtherFields DEF UnknownMessage
  <1>12. Sound("Reaction", Reaction)
    BY FieldsSound, FreeKept, OtherFields DEF Reaction
  <1>13. Sound("Redaction", Redaction)
    BY FieldsSound, FreeKept, SteadyFields DEF Redaction
  <1>14. Sound("OlmCipherContent", OlmCipherContent)
    BY FieldsSound, FreeKept, SteadyFields DEF OlmCipherContent
  <1>15. Sound("OlmEncrypted", OlmEncrypted)
    BY FieldsSound, FreeKept, LossyKept, SteadyFields DEF OlmEncrypted
  <1>16. Sound("Encrypted", Encrypted)
    BY FieldsSound, FreeKept, SteadyFields, NonEmptyFields, OtherFields DEF Encrypted
  <1>17. Sound("Dummy", Dummy)
    BY FieldsSound, FreeKept DEF Dummy
  <1>18. Sound("RoomKey", RoomKey)
    BY FieldsSound, FreeKept, SteadyFields DEF RoomKey
  <1>19. Sound("ForwardedRoomKey", ForwardedRoomKey)
    BY FieldsSound, FreeKept, SteadyFields DEF ForwardedRoomKey
  <1>20. Sound("KeyRequest", KeyRequest)
    <2>1. /\ KeyRequest.start = "object"
          /\ DOMAIN KeyRequest.fields = {"request_id", "requesting_device_id", "action", "room_id",
                                         "session_id", "sender_key", "algorithm"}
          /\ KeyRequest.fields["request_id"] = At /\ KeyRequest.fields["requesting_device_id"] = At
          /\ KeyRequest.fields["action"] = Action
          /\ KeyRequest.fields["room_id"] = Only(At, {"action"})
          /\ KeyRequest.fields["session_id"] = Only(At, {"action"})
          /\ KeyRequest.fields["sender_key"] = Only(ValSet, {"action"})
          /\ KeyRequest.fields["algorithm"] = Only(F("at", "constant"), {"action"})
      BY DEF KeyRequest, Action
    <2>2. Free(At) /\ IsAction("KeyRequest", "action") /\ Action.only = {}
      BY SteadyFields, ActionKept DEF IsAction
    <2>3. \A n \in {"room_id", "session_id", "sender_key", "algorithm"} :
            \E lost \in SUBSET Lost("KeyRequest", n) : Follows(KeyRequest.fields[n], "action", lost)
      BY <2>1, FollowingFields, FollowersLost DEF Follower
    <2>4. \A n \in {"room_id", "session_id", "sender_key", "algorithm"} :
            <<"KeyRequest", n>> \in LossyMembers
      BY FollowersLost DEF Follower
    <2> QED
      BY <2>1, <2>2, <2>3, <2>4, FollowingFields, MoreLost DEF Sound, Free, Follows
  <1>21. Sound("SecretRequest", SecretRequest)
    BY FieldsSound, FreeKept, SteadyFields, NonEmptyFields, OtherFields DEF SecretRequest
  <1>22. Sound("SecretSend", SecretSend)
    BY FieldsSound, FreeKept, SteadyFields DEF SecretSend
  <1>23. Sound("KeyVerificationRequest", KeyVerificationRequest)
    BY FieldsSound, FreeKept, LossyKept, SteadyFields, SteadyEnums, OptionalFields DEF KeyVerificationRequest
  <1>24. Sound("KeyVerificationStart", KeyVerificationStart)
    BY FieldsSound, FreeKept, SteadyFields, SteadyEnums, OptionalFields, OtherFields DEF KeyVerificationStart
  <1>25. Sound("KeyVerificationReady", KeyVerificationReady)
    BY FieldsSound, FreeKept, SteadyFields, SteadyEnums, OptionalFields, OtherFields DEF KeyVerificationReady
  <1>26. Sound("KeyVerificationDone", KeyVerificationDone)
    BY FieldsSound, FreeKept, OptionalFields, OtherFields DEF KeyVerificationDone
  <1>27. Sound("KeyVerificationAccept", KeyVerificationAccept)
    BY FieldsSound, FreeKept, SteadyFields, SteadyEnums, OptionalFields, OtherFields DEF KeyVerificationAccept
  <1>28. Sound("KeyVerificationCancel", KeyVerificationCancel)
    BY FieldsSound, FreeKept, SteadyFields, OptionalFields, OtherFields DEF KeyVerificationCancel
  <1>29. Sound("KeyVerificationKey", KeyVerificationKey)
    BY FieldsSound, FreeKept, SteadyFields, OptionalFields, OtherFields DEF KeyVerificationKey
  <1>30. Sound("KeyVerificationMac", KeyVerificationMac)
    BY FieldsSound, FreeKept, SteadyFields, OptionalFields, OtherFields DEF KeyVerificationMac
  <1>31. Sound("RTCSessionDescriptionInit", RTCSessionDescriptionInit)
    BY FieldsSound, FreeKept, SteadyFields, SteadyEnums DEF RTCSessionDescriptionInit
  <1>32. Sound("CallInvite", CallInvite)
    BY SteadyFields, FollowingFields, FollowersLost, MoreLost DEF CallInvite, Sound, Free, Follows, Follower
  <1>33. Sound("Candidate", Candidate)
    BY FieldsSound, FreeKept, SteadyFields DEF Candidate
  <1>34. Sound("CallCandidates", CallCandidates)
    BY SteadyFields, FollowingFields, FollowersLost, MoreLost DEF CallCandidates, Sound, Free, Follows, Follower
  <1>35. Sound("CallAnswer", CallAnswer)
    BY SteadyFields, FollowingFields, FollowersLost, MoreLost DEF CallAnswer, Sound, Free, Follows, Follower
  <1>36. Sound("CallHangUp", CallHangUp)
    BY SteadyFields, OtherFields, FollowingFields, FollowersLost, MoreLost
       DEF CallHangUp, Sound, Free, Follows, Follower
  <1>37. Sound("CallSelectAnswer", CallSelectAnswer)
    BY FieldsSound, FreeKept, SteadyFields DEF CallSelectAnswer
  <1>38. Sound("CallReject", CallReject)
    BY FieldsSound, FreeKept, SteadyFields DEF CallReject
  <1>39. Sound("CallNegotiate", CallNegotiate)
    BY FieldsSound, FreeKept, SteadyFields DEF CallNegotiate
  <1> QED
    BY <1>1, <1>2, <1>3, <1>4, <1>5, <1>6, <1>7, <1>8, <1>9, <1>10, <1>11, <1>12, <1>13, <1>14,
       <1>15, <1>16, <1>17, <1>18, <1>19, <1>20, <1>21, <1>22, <1>23, <1>24, <1>25, <1>26,
       <1>27, <1>28, <1>29, <1>30, <1>31, <1>32, <1>33, <1>34, <1>35, <1>36, <1>37, <1>38,
       <1>39
       DEF MessageSchemas

\* And the structs in which keys leave the process.
LEMMA KeyStructs == \A n \in DOMAIN KeySchemas : Sound(n, KeySchemas[n])
  <1> USE DEF Bare, Object, Whole, Steady, Quiet
  <1>1. Sound("ExportedSession", ExportedSession)
    BY FieldsSound, FreeKept, LossyKept, SteadyFields DEF ExportedSession
  <1>2. Sound("IdentityKeys", IdentityKeys)
    BY FieldsSound, FreeKept, SteadyFields DEF IdentityKeys
  <1>3. Sound("OneTimeKeys", OneTimeKeys)
    BY FieldsSound, FreeKept, SteadyFields DEF OneTimeKeys
  <1>4. Sound("QueryKeys", QueryKeys)
    BY FieldsSound, FreeKept, SteadyFields, NonEmptyFields DEF QueryKeys
  <1>5. Sound("EncryptedSessionData", EncryptedSessionData)
    BY FieldsSound, FreeKept, SteadyFields DEF EncryptedSessionData
  <1>6. Sound("SessionBackup", SessionBackup)
    BY FieldsSound, FreeKept, SteadyFields DEF SessionBackup
  <1>7. Sound("RoomKeysBackup", RoomKeysBackup)
    BY FieldsSound, FreeKept, SteadyFields DEF RoomKeysBackup
  <1>8. Sound("KeysBackup", KeysBackup)
    BY FieldsSound, FreeKept, SteadyFields DEF KeysBackup
  <1>9. Sound("SessionData", SessionData)
    BY FieldsSound, FreeKept, SteadyFields DEF SessionData
  <1> QED
    BY <1>1, <1>2, <1>3, <1>4, <1>5, <1>6, <1>7, <1>8, <1>9
       DEF KeySchemas

\* Every struct of the library is sound.
LEMMA StructsSound == \A n \in Names : Sound(n, SchemaOf(n))
  BY EventStructs, MessageStructs, KeyStructs DEF Names, SchemaOf

\* The structs that have such a member, or are one of the unreadable ones.
LEMMA LossySchemas ==
    /\ SchemaOf("ImageInfo") = ImageInfo
    /\ SchemaOf("FileInfo") = FileInfo
    /\ SchemaOf("VideoInfo") = VideoInfo
    /\ SchemaOf("LocationInfo") = LocationInfo
    /\ SchemaOf("Create") = Create
    /\ SchemaOf("JoinAllowance") = JoinAllowance
    /\ SchemaOf("Parent") = Parent
    /\ SchemaOf("Child") = Child
    /\ SchemaOf("EventExpiry") = EventExpiry
    /\ SchemaOf("HiddenEvents") = HiddenEvents
    /\ SchemaOf("Text") = Text
    /\ SchemaOf("Emote") = Emote
    /\ SchemaOf("Notice") = Notice
    /\ SchemaOf("ElementEffect") = ElementEffect
    /\ SchemaOf("Audio") = Audio
    /\ SchemaOf("Video") = Video
    /\ SchemaOf("File") = File
    /\ SchemaOf("Image") = Image
    /\ SchemaOf("StickerImage") = StickerImage
    /\ SchemaOf("OlmEncrypted") = OlmEncrypted
    /\ SchemaOf("KeyRequest") = KeyRequest
    /\ SchemaOf("KeyVerificationRequest") = KeyVerificationRequest
    /\ SchemaOf("CallInvite") = CallInvite
    /\ SchemaOf("CallCandidates") = CallCandidates
    /\ SchemaOf("CallAnswer") = CallAnswer
    /\ SchemaOf("CallHangUp") = CallHangUp
    /\ SchemaOf("ExportedSession") = ExportedSession
  <1>1. \A n \in DOMAIN EventSchemas : SchemaOf(n) = EventSchemas[n]
    BY DEF SchemaOf
  <1>2. \A n \in DOMAIN MessageSchemas : n \in DOMAIN EventSchemas \/ SchemaOf(n) = MessageSchemas[n]
    BY DEF SchemaOf
  <1>3. \A n \in DOMAIN KeySchemas :
          n \in DOMAIN EventSchemas \cup DOMAIN MessageSchemas \/ SchemaOf(n) = KeySchemas[n]
    BY DEF SchemaOf
  <1>4. /\ SchemaOf("ImageInfo") = ImageInfo
        /\ SchemaOf("FileInfo") = FileInfo
        /\ SchemaOf("VideoInfo") = VideoInfo
        /\ SchemaOf("LocationInfo") = LocationInfo
        /\ SchemaOf("Create") = Create
        /\ SchemaOf("JoinAllowance") = JoinAllowance
        /\ SchemaOf("Parent") = Parent
        /\ SchemaOf("Child") = Child
        /\ SchemaOf("EventExpiry") = EventExpiry
        /\ SchemaOf("HiddenEvents") = HiddenEvents
    BY <1>1 DEF EventSchemas
  <1>5. /\ SchemaOf("Text") = Text
        /\ SchemaOf("Emote") = Emote
        /\ SchemaOf("Notice") = Notice
        /\ SchemaOf("ElementEffect") = ElementEffect
        /\ SchemaOf("Audio") = Audio
        /\ SchemaOf("Video") = Video
        /\ SchemaOf("File") = File
        /\ SchemaOf("Image") = Image
        /\ SchemaOf("StickerImage") = StickerImage
        /\ SchemaOf("OlmEncrypted") = OlmEncrypted
        /\ SchemaOf("KeyRequest") = KeyRequest
        /\ SchemaOf("KeyVerificationRequest") = KeyVerificationRequest
        /\ SchemaOf("CallInvite") = CallInvite
        /\ SchemaOf("CallCandidates") = CallCandidates
        /\ SchemaOf("CallAnswer") = CallAnswer
        /\ SchemaOf("CallHangUp") = CallHangUp
    BY <1>2 DEF EventSchemas, MessageSchemas
  <1>6. /\ SchemaOf("ExportedSession") = ExportedSession
    BY <1>3 DEF EventSchemas, MessageSchemas, KeySchemas
  <1> QED BY <1>4, <1>5, <1>6

\* Wherever the stored struct came from, it can be read again, or is one of the
\* unreadable ones, and its members have the values FieldOutcome says.
LEMMA StoredKept ==
    ASSUME CodecInv, schema \notin Special, phase \in {"loaded", "lost"}
    PROVE  LET S == SchemaOf(schema)
               e == from_json(S, doc)
           IN  /\ Filled(S, original) /\ DOMAIN e = DOMAIN S.fields
               /\ rejected(e) => Unreadable
               /\ rejected(e) \/ \A n \in DOMAIN S.fields :
                    /\ e[n] = outcome(S, original, n)
                    /\ e[n] = original[n] \/ <<schema, n>> \in LossyMembers
  <1> DEFINE S == SchemaOf(schema)
  <1>1. /\ schema \in Names /\ StructSource(original) /\ ~ unwritable(S, original)
        /\ doc = to_json(S, original)
    BY DEF CodecInv, StructInv
  <1>2. Sound(schema, S)
    BY <1>1, StructsSound
  <1>3. Filled(S, original)
    <2>1. CASE original \in Structs(S)
      BY <2>1, ComposedFills
    <2>2. CASE ~ rejected(original) /\ \E d \in Documents(S) : original = from_json(S, d)
      BY <1>2, <2>2, ReadFills
    <2> QED BY <1>1, <2>1, <2>2 DEF StructSource
  <1>4. S = KeyRequest \/ schema # "KeyRequest"
    BY LossySchemas DEF S
  <1>5. S = EventExpiry \/ schema # "EventExpiry"
    BY LossySchemas DEF S
  <1> HIDE DEF S
  <1>6. PICK e : e = from_json(S, doc)
    OBVIOUS
  <1>7. DOMAIN e = DOMAIN S.fields
    BY <1>6 DEF from_json
  <1>8. /\ rejected(e) => \/ schema = "EventExpiry" /\ \A n \in DOMAIN S.fields : doc.at[n] = "absent"
                          \/ \E n \in DOMAIN S.fields : IsAction(schema, n) /\ original[n] = "odd"
        /\ rejected(e) \/ \A n \in DOMAIN S.fields :
             /\ e[n] = outcome(S, original, n)
             /\ \/ e[n] = original[n] \/ <<schema, n>> \in LossyMembers
                \/ IsAction(schema, n) /\ original[n] = "odd"
    BY <1>1, <1>2, <1>3, <1>6, StructKept
  <1>9. ASSUME NEW n \in DOMAIN S.fields, IsAction(schema, n), original[n] = "odd", ~ rejected(e)
        PROVE  FALSE
    <2>1. S.fields[n] = Action
      BY <1>4, <1>9 DEF IsAction, KeyRequest, Object, Action
    <2>2. Allowed(S, original, n)
      BY <2>1, ActionKept DEF Allowed
    <2>3. e[n] = again(Action, Rewritten(Action, "odd"))
      BY <1>8, <1>9, <2>1, <2>2 DEF outcome
    <2>4. again(Action, Rewritten(Action, "odd")) = Throws
      BY DEF Action, Enum, F, again, read_field, Rewritten, writes, Ignores, Throws
    <2> QED BY <1>7, <1>9, <2>3, <2>4 DEF rejected
  <1>10. ASSUME schema = "EventExpiry", \A n \in DOMAIN S.fields : doc.at[n] = "absent"
         PROVE  \A n \in DOMAIN original : original[n] = "empty"
    <2> SUFFICES ASSUME NEW n \in DOMAIN S.fields PROVE original[n] = "empty"
      BY <1>3 DEF Filled
    <2>1. S.fields[n] = ValSet
      BY <1>5, <1>10 DEF EventExpiry, Bare
    <2>2. original[n] \in Held(ValSet)
      BY <1>3, <2>1 DEF Filled
    <2>3. original[n] \in {"empty", "set"}
      BY <2>2 DEF Held, ValSet, F, members, inputs, again, read_field, get, Ignores, Throws, None
    <2>4. doc.at[n] = Rewritten(ValSet, original[n])
      <3>1. Allowed(S, original, n)
        BY <2>1 DEF Allowed, ValSet, F
      <3> QED BY <1>1, <2>1, <3>1 DEF to_json, Rewritten, Allowed
    <2> QED BY <1>10, <2>3, <2>4 DEF Rewritten, writes, ValSet, F
  <1>11. rejected(e) => Unreadable
    BY <1>8, <1>10 DEF Unreadable, IsAction
  <1>12. rejected(e) \/ \A n \in DOMAIN S.fields :
           /\ e[n] = outcome(S, original, n)
           /\ e[n] = original[n] \/ <<schema, n>> \in LossyMembers
    BY <1>8, <1>9
  <1> QED BY <1>3, <1>6, <1>7, <1>11, <1>12 DEF S

\* What the library wrote itself it can read: no document of to_json makes the
\* matching from_json throw, but for an expiry with every member empty, a key
\* request with an unknown action and a redacted event of an unknown type.
THEOREM WrittenIsRead == Spec => []Reloads
  <1>1. CodecInv => Reloads
    <2> SUFFICES ASSUME CodecInv, phase = "lost" PROVE Unreadable
      BY DEF Reloads
    <2>1. CASE schema = TimelineEvent
      <3>1. /\ TimelineSource(original) /\ doc = event_to_json(original)
            /\ TimelineEvents_from_json(doc) = Skipped
        BY <2>1 DEF CodecInv, TimelineInv
      <3> QED BY <2>1, <3>1, TimelineReload DEF TimelineSource, Unreadable
    <2>2. CASE schema = RelatedMessage
      BY <2>2 DEF CodecInv, MessageInv
    <2>3. CASE schema \notin Special
      <3>1. rejected(from_json(SchemaOf(schema), doc))
        BY <2>3 DEF CodecInv, StructInv
      <3> QED BY <2>3, <3>1, StoredKept
    <2> QED BY <2>1, <2>2, <2>3 DEF Special
  <1> QED
    BY <1>1, CodecInvariant, PTL

\* A field that is written beside another one, or not, and is missing otherwise.
Beside(f, needs, unless, missing) ==
  f.only = {} /\ f.needs = needs /\ f.unless = unless /\ again(f, "absent") = missing
\* What a member has after it was written and read.
reread(f, v) == again(f, Rewritten(f, v))
Rereads(f) == \A v \in Held(f) : reread(f, v) = v

\* The outcomes of such fields, and of those that follow another one.
LEMMA NeedsOutcome ==
    ASSUME NEW s, NEW o, NEW n, NEW x, NEW v, Beside(s.fields[n], {x}, {}, v),
           s.fields[x].write # "has_value"
    PROVE  outcome(s, o, n) = IF o[x] = "set" THEN reread(s.fields[n], o[n]) ELSE v
  <1>1. Allowed(s, o, n) <=> o[x] = "set"
    BY DEF Allowed, Beside, present
  <1> QED BY <1>1 DEF outcome, Beside, reread

\* A member that is written only without another one.
LEMMA UnlessOutcome ==
    ASSUME NEW s, NEW o, NEW n, NEW x, NEW v, Beside(s.fields[n], {}, {x}, v)
    PROVE  outcome(s, o, n) = IF o[x] = "unset" THEN reread(s.fields[n], o[n]) ELSE v
  <1>1. Allowed(s, o, n) <=> o[x] = "unset"
    BY DEF Allowed, Beside
  <1> QED BY <1>1 DEF outcome, Beside, reread

\* A member that is written whatever the others are.
LEMMA AloneOutcome ==
    ASSUME NEW s, NEW o, NEW n, NEW v, Beside(s.fields[n], {}, {}, v)
    PROVE  outcome(s, o, n) = reread(s.fields[n], o[n])
  <1>1. Allowed(s, o, n)
    BY DEF Allowed, Beside
  <1> QED BY <1>1 DEF outcome, reread

\* A member that is written and read only if another one is set.
LEMMA FollowOutcome ==
    ASSUME NEW s, NEW o, NEW n, NEW x, NEW lost, Follows(s.fields[n], x, lost), Switch(s.fields[x]),
           s.fields[n].init = "empty"
    PROVE  outcome(s, o, n) = IF o[x] = "set" THEN reread(s.fields[n], o[n]) ELSE "empty"
  <1>1. present(s.fields[x], o[x]) <=> o[x] = "set"
    BY SwitchWritten
  <1>2. Allowed(s, o, n) <=> o[x] = "set"
    BY <1>1 DEF Allowed, Follows
  <1> QED BY <1>2 DEF outcome, Follows, reread

\* The fields that lose values, once more: what is left of them.
LocationThumbnail == Needs(Loose(Has), {"thumbnail_url", "thumbnail_file"})
Canonical == Needs(F("typed", "nonempty"), {"via"})
Suggested == Needs(ValSet, {"via"})
HiddenTypes == Init_(Enum(Elements(HasSet), "odd"), "unset")
Tagged == [Opt(Has) EXCEPT !.write = "tag"]
\* The forms of the members that are written beside another one or without it.
LEMMA BesideFields ==
    /\ Beside(Format, {"formatted_body"}, {}, "empty") /\ \A v : reread(Format, v) = "set"
    /\ Beside(Url, {}, {"file"}, "empty") /\ Rereads(Url)
    /\ Beside(Unless(Val, {"file"}), {}, {"file"}, "empty") /\ Rereads(Unless(Val, {"file"}))
    /\ Beside(Thumbnail, {"thumbnail_url"}, {}, "empty") /\ Rereads(Thumbnail)
    /\ Beside(LocationThumbnail, {"thumbnail_url", "thumbnail_file"}, {}, "empty")
    /\ Rereads(LocationThumbnail)
    /\ Beside(Needs(Val, {"type"}), {"type"}, {}, "empty") /\ Rereads(Needs(Val, {"type"}))
    /\ Beside(Canonical, {"via"}, {}, "empty") /\ Rereads(Canonical)
    /\ Beside(Suggested, {"via"}, {}, "empty") /\ Rereads(Suggested)
  <1> USE DEF Beside, Rereads, reread, Held, Rewritten, again, members, inputs, read_field, get, Ignores,
              writes, Throws, None, F
  <1>1. Beside(Format, {"formatted_body"}, {}, "empty") /\ \A v : reread(Format, v) = "set"
    BY DEF Format, Needs, Enum
  <1>2. /\ Beside(Url, {}, {"file"}, "empty") /\ Rereads(Url)
        /\ Beside(Unless(Val, {"file"}), {}, {"file"}, "empty") /\ Rereads(Unless(Val, {"file"}))
    BY DEF Url, Unless, Has, Val
  <1>3. Beside(Thumbnail, {"thumbnail_url"}, {}, "empty") /\ Rereads(Thumbnail)
    BY DEF Thumbnail, Needs, Loose, Has
  <1>4. /\ Beside(LocationThumbnail, {"thumbnail_url", "thumbnail_file"}, {}, "empty")
        /\ Rereads(LocationThumbnail)
    BY DEF LocationThumbnail, Needs, Loose, Has
  <1>5. Beside(Needs(Val, {"type"}), {"type"}, {}, "empty") /\ Rereads(Needs(Val, {"type"}))
    BY DEF Needs, Val
  <1>6. Beside(Canonical, {"via"}, {}, "empty") /\ Rereads(Canonical)
    BY DEF Canonical, Needs
  <1>7. Beside(Suggested, {"via"}, {}, "empty") /\ Rereads(Suggested)
    BY DEF Suggested, Needs, ValSet
  <1> QED BY <1>1, <1>2, <1>3, <1>4, <1>5, <1>6, <1>7

\* The forms of the members that are not written as they are.
LEMMA FormFields ==
    /\ Beside(Order, {"via"}, {}, "unset")
    /\ \A v \in Held(Order) : reread(Order, v) = IF v = "odd" THEN "unset" ELSE v
    /\ Beside(Via, {}, {}, "unset")
    /\ \A v \in Held(Via) : v # "odd" /\ reread(Via, v) = IF v = "set" THEN v ELSE "unset"
    /\ Beside(HiddenTypes, {}, {}, "unset")
    /\ \A v \in Held(HiddenTypes) : reread(HiddenTypes, v) = IF v = "empty" THEN "unset" ELSE v
    /\ Beside(Init_(HasSet, "set"), {}, {}, "set")
    /\ \A v \in Held(Init_(HasSet, "set")) : reread(Init_(HasSet, "set"), v) = "set" /\ v \in {"empty", "set"}
    /\ Beside(Init_(F("unread", "always"), "set"), {}, {}, "set")
    /\ \A v \in Held(Init_(F("unread", "always"), "set")) :
         reread(Init_(F("unread", "always"), "set"), v) = "set"
    /\ Beside(Tagged, {}, {}, "unset")
    /\ \A v \in Held(Tagged) : reread(Tagged, v) = IF v = "unset" THEN v ELSE "set"
  <1> USE DEF Beside, Rereads, reread, Held, Rewritten, again, members, inputs, read_field, get, Ignores,
              writes, Throws, None, F
  <1>1. /\ Beside(Order, {"via"}, {}, "unset")
        /\ \A v \in Held(Order) : reread(Order, v) = IF v = "odd" THEN "unset" ELSE v
    BY DEF Order, Needs, Enum, Init_
  <1>2. /\ Beside(Via, {}, {}, "unset")
        /\ \A v \in Held(Via) : v # "odd" /\ reread(Via, v) = IF v = "set" THEN v ELSE "unset"
    BY DEF Via, Init_, Many
  <1>3. /\ Beside(HiddenTypes, {}, {}, "unset")
        /\ \A v \in Held(HiddenTypes) : reread(HiddenTypes, v) = IF v = "empty" THEN "unset" ELSE v
    BY DEF HiddenTypes, Init_, Enum, Elements, HasSet
  <1>4. /\ Beside(Init_(HasSet, "set"), {}, {}, "set")
        /\ \A v \in Held(Init_(HasSet, "set")) :
             reread(Init_(HasSet, "set"), v) = "set" /\ v \in {"empty", "set"}
    BY DEF Init_, HasSet
  <1>5. /\ Beside(Init_(F("unread", "always"), "set"), {}, {}, "set")
        /\ \A v \in Held(Init_(F("unread", "always"), "set")) :
         reread(Init_(F("unread", "always"), "set"), v) = "set"
    BY DEF Init_
  <1>6. /\ Beside(Tagged, {}, {}, "unset")
        /\ \A v \in Held(Tagged) : reread(Tagged, v) = IF v = "unset" THEN v ELSE "set"
    BY DEF Tagged, Opt, Has
  <1> QED BY <1>1, <1>2, <1>3, <1>4, <1>5, <1>6

\* The forms of the members that follow another one.
LEMMA FollowerFields ==
    /\ \A x : Rereads(Only(At, {x})) /\ Rereads(Only(ValSet, {x})) /\ Rereads(Only(Has, {x}))
    /\ \A x, v : reread(Only(F("at", "constant"), {x}), v) = "set"
    /\ \A x : /\ Only(At, {x}).init = "empty" /\ Only(ValSet, {x}).init = "empty"
              /\ Only(Has, {x}).init = "empty" /\ Only(F("at", "constant"), {x}).init = "empty"
  BY DEF Rereads, reread, Held, Rewritten, again, members, inputs, read_field, get, Ignores,
         writes, Throws, None, F, Only, At, ValSet, Has

\* Fields that others are written beside need to be set for it.
LEMMA PlainFields ==
    /\ HasSet.write # "has_value" /\ Via.write # "has_value" /\ Enum(ValSet, "empty").write # "has_value"
    /\ Opt(Many(Has)).write = "has_value"
  BY DEF HasSet, Via, ValSet, Enum, Init_, Many, Opt, F

\* What calls of version 1 have, and the body of a key request.
LEMMA FollowsAgain ==
    /\ Follows(Only(At, {"version"}), "version", {}) /\ Follows(Only(Has, {"version"}), "version", {})
    /\ Follows(Only(At, {"action"}), "action", {}) /\ Follows(Only(ValSet, {"action"}), "action", {})
    /\ Follows(Only(F("at", "constant"), {"action"}), "action", {"empty"})
  BY FollowingFields DEF Party

\* Each of these members has, when it is read again, the value kept says.
LEMMA LossyOutcome ==
    ASSUME NEW name, NEW n, <<name, n>> \in LossyMembers, NEW o, Filled(SchemaOf(name), o),
           n \in DOMAIN SchemaOf(name).fields
    PROVE  outcome(SchemaOf(name), o, n) = kept(name, n, o)
  <1> DEFINE S == SchemaOf(name)
  <1>0. o[n] \in Held(S.fields[n])
    BY DEF Filled
  <1>1. CASE n = "format" /\ name \in {"Text", "Emote", "Notice", "ElementEffect"}
    <2>1. S.fields[n] = Format /\ S.fields["formatted_body"] = HasSet
      BY <1>1, LossySchemas DEF Text, Emote, Notice, ElementEffect, Bare
    <2> HIDE DEF S
    <2>2. reread(S.fields[n], o[n]) = "set"
      BY <1>0, <2>1, BesideFields
    <2>3. Beside(S.fields[n], {"formatted_body"}, {}, "empty")
      BY <2>1, BesideFields
    <2>4. S.fields["formatted_body"].write # "has_value"
      BY <2>1, PlainFields
    <2>5. outcome(S, o, n) = IF o["formatted_body"] = "set" THEN reread(S.fields[n], o[n]) ELSE "empty"
      BY <2>3, <2>4, NeedsOutcome
    <2> QED BY <1>1, <2>2, <2>5 DEF kept, S
  <1>2. CASE n = "url" /\ name \in {"Audio", "Video", "File"}
    <2>1. S.fields[n] = Url
      BY <1>2, LossySchemas DEF Audio, Video, File, Bare
    <2> HIDE DEF S
    <2>2. reread(S.fields[n], o[n]) = o[n]
      BY <1>0, <2>1, BesideFields DEF Rereads
    <2>3. Beside(S.fields[n], {}, {"file"}, "empty")
      BY <2>1, BesideFields
    <2>4. outcome(S, o, n) = IF o["file"] = "unset" THEN reread(S.fields[n], o[n]) ELSE "empty"
      BY <2>3, UnlessOutcome
    <2> QED BY <1>2, <2>2, <2>4 DEF kept, S
  <1>3. CASE n = "url" /\ name \in {"Image", "StickerImage"}
    <2>1. S.fields[n] = Unless(Val, {"file"})
      BY <1>3, LossySchemas DEF Image, StickerImage, Bare
    <2> HIDE DEF S
    <2>2. reread(S.fields[n], o[n]) = o[n]
      BY <1>0, <2>1, BesideFields DEF Rereads
    <2>3. Beside(S.fields[n], {}, {"file"}, "empty")
      BY <2>1, BesideFields
    <2>4. outcome(S, o, n) = IF o["file"] = "unset" THEN reread(S.fields[n], o[n]) ELSE "empty"
      BY <2>3, UnlessOutcome
    <2> QED BY <1>3, <2>2, <2>4 DEF kept, S
  <1>4. CASE n = "thumbnail_info" /\ name \in {"ImageInfo", "FileInfo", "VideoInfo"}
    <2>1. S.fields[n] = Thumbnail /\ S.fields["thumbnail_url"] = HasSet
      BY <1>4, LossySchemas DEF ImageInfo, FileInfo, VideoInfo, Bare
    <2> HIDE DEF S
    <2>2. reread(S.fields[n], o[n]) = o[n]
      BY <1>0, <2>1, BesideFields DEF Rereads
    <2>3. Beside(S.fields[n], {"thumbnail_url"}, {}, "empty")
      BY <2>1, BesideFields
    <2>4. S.fields["thumbnail_url"].write # "has_value"
      BY <2>1, PlainFields
    <2>5. outcome(S, o, n) = IF o["thumbnail_url"] = "set" THEN reread(S.fields[n], o[n]) ELSE "empty"
      BY <2>3, <2>4, NeedsOutcome
    <2> QED BY <1>4, <2>2, <2>5 DEF kept, S
  <1>5. CASE n = "room_id" /\ name = "JoinAllowance"
    <2>1. S.fields[n] = Needs(Val, {"type"}) /\ S.fields["type"] = Enum(ValSet, "empty")
      BY <1>5, LossySchemas DEF JoinAllowance, Object
    <2> HIDE DEF S
    <2>2. reread(S.fields[n], o[n]) = o[n]
      BY <1>0, <2>1, BesideFields DEF Rereads
    <2>3. Beside(S.fields[n], {"type"}, {}, "empty")
      BY <2>1, BesideFields
    <2>4. S.fields["type"].write # "has_value"
      BY <2>1, PlainFields
    <2>5. outcome(S, o, n) = IF o["type"] = "set" THEN reread(S.fields[n], o[n]) ELSE "empty"
      BY <2>3, <2>4, NeedsOutcome
    <2> QED BY <1>5, <2>2, <2>5 DEF kept, S
  <1>6. CASE n = "canonical" /\ name = "Parent"
    <2>1. S.fields[n] = Canonical /\ S.fields["via"] = Via
      BY <1>6, LossySchemas DEF Parent, Object, Canonical
    <2> HIDE DEF S
    <2>2. reread(S.fields[n], o[n]) = o[n]
      BY <1>0, <2>1, BesideFields DEF Rereads
    <2>3. Beside(S.fields[n], {"via"}, {}, "empty")
      BY <2>1, BesideFields
    <2>4. S.fields["via"].write # "has_value"
      BY <2>1, PlainFields
    <2>5. outcome(S, o, n) = IF o["via"] = "set" THEN reread(S.fields[n], o[n]) ELSE "empty"
      BY <2>3, <2>4, NeedsOutcome
    <2> QED BY <1>6, <2>2, <2>5 DEF kept, S
  <1>7. CASE n = "suggested" /\ name = "Child"
    <2>1. S.fields[n] = Suggested /\ S.fields["via"] = Via
      BY <1>7, LossySchemas DEF Child, Object, Suggested
    <2> HIDE DEF S
    <2>2. reread(S.fields[n], o[n]) = o[n]
      BY <1>0, <2>1, BesideFields DEF Rereads
    <2>3. Beside(S.fields[n], {"via"}, {}, "empty")
      BY <2>1, BesideFields
    <2>4. S.fields["via"].write # "has_value"
      BY <2>1, PlainFields
    <2>5. outcome(S, o, n) = IF o["via"] = "set" THEN reread(S.fields[n], o[n]) ELSE "empty"
      BY <2>3, <2>4, NeedsOutcome
    <2> QED BY <1>7, <2>2, <2>5 DEF kept, S
  <1>8. CASE n = "order" /\ name = "Child"
    <2>1. S.fields[n] = Order /\ S.fields["via"] = Via
      BY <1>8, LossySchemas DEF Child, Object, Order
    <2> HIDE DEF S
    <2>2. reread(S.fields[n], o[n]) = IF o[n] = "odd" THEN "unset" ELSE o[n]
      BY <1>0, <2>1, FormFields
    <2>3. Beside(S.fields[n], {"via"}, {}, "unset")
      BY <2>1, FormFields
    <2>4. S.fields["via"].write # "has_value"
      BY <2>1, PlainFields
    <2>5. outcome(S, o, n) = IF o["via"] = "set" THEN reread(S.fields[n], o[n]) ELSE "unset"
      BY <2>3, <2>4, NeedsOutcome
    <2> QED BY <1>8, <2>2, <2>5 DEF kept, S
  <1>9. CASE n = "via" /\ name \in {"Parent", "Child"}
    <2>1. S.fields[n] = Via
      BY <1>9, LossySchemas DEF Parent, Child, Object
    <2> HIDE DEF S
    <2>2. reread(S.fields[n], o[n]) = IF o[n] = "set" THEN o[n] ELSE "unset"
      BY <1>0, <2>1, FormFields
    <2>3. Beside(S.fields[n], {}, {}, "unset")
      BY <2>1, FormFields
    <2>4. outcome(S, o, n) = reread(S.fields[n], o[n])
      BY <2>3, AloneOutcome
    <2>5. o[n] # "odd"
      BY <1>0, <2>1, FormFields
    <2> QED BY <1>9, <2>2, <2>4, <2>5 DEF kept, S
  <1>10. CASE n = "hidden_event_types" /\ name = "HiddenEvents"
    <2>1. S.fields[n] = HiddenTypes
      BY <1>10, LossySchemas DEF HiddenEvents, HiddenTypes, Bare
    <2> HIDE DEF S
    <2>2. reread(S.fields[n], o[n]) = IF o[n] = "empty" THEN "unset" ELSE o[n]
      BY <1>0, <2>1, FormFields
    <2>3. Beside(S.fields[n], {}, {}, "unset")
      BY <2>1, FormFields
    <2>4. outcome(S, o, n) = reread(S.fields[n], o[n])
      BY <2>3, AloneOutcome
    <2> QED BY <1>10, <2>2, <2>4 DEF kept, S
  <1>11. CASE n = "room_version" /\ name = "Create"
    <2>1. S.fields[n] = Init_(HasSet, "set")
      BY <1>11, LossySchemas DEF Create, Bare
    <2> HIDE DEF S
    <2>2. reread(S.fields[n], o[n]) = "set"
      BY <1>0, <2>1, FormFields
    <2>3. Beside(S.fields[n], {}, {}, "set")
      BY <2>1, FormFields
    <2>4. outcome(S, o, n) = reread(S.fields[n], o[n])
      BY <2>3, AloneOutcome
    <2>5. o[n] \in {"empty", "set"}
      BY <1>0, <2>1, FormFields
    <2> QED BY <1>11, <2>2, <2>4, <2>5 DEF kept, S
  <1>12. CASE n = "algorithm" /\ name \in {"OlmEncrypted", "ExportedSession"}
    <2>1. S.fields[n] = Init_(F("unread", "always"), "set")
      BY <1>12, LossySchemas DEF OlmEncrypted, ExportedSession, Bare
    <2> HIDE DEF S
    <2>2. reread(S.fields[n], o[n]) = "set"
      BY <1>0, <2>1, FormFields
    <2>3. Beside(S.fields[n], {}, {}, "set")
      BY <2>1, FormFields
    <2>4. outcome(S, o, n) = reread(S.fields[n], o[n])
      BY <2>3, AloneOutcome
    <2> QED BY <1>12, <2>2, <2>4 DEF kept, S
  <1>13. CASE n = "msgtype" /\ name = "KeyVerificationRequest"
    <2>1. S.fields[n] = Tagged
      BY <1>13, LossySchemas DEF KeyVerificationRequest, Tagged, Bare
    <2> HIDE DEF S
    <2>2. reread(S.fields[n], o[n]) = IF o[n] = "unset" THEN o[n] ELSE "set"
      BY <1>0, <2>1, FormFields
    <2>3. Beside(S.fields[n], {}, {}, "unset")
      BY <2>1, FormFields
    <2>4. outcome(S, o, n) = reread(S.fields[n], o[n])
      BY <2>3, AloneOutcome
    <2> QED BY <1>13, <2>2, <2>4 DEF kept, S
  <1>14. CASE n = "party_id" /\ name \in {"CallInvite", "CallCandidates", "CallAnswer", "CallHangUp"}
    <2>1. S.fields[n] = Only(At, {"version"}) /\ S.fields["version"] = At
      BY <1>14, LossySchemas DEF CallInvite, CallCandidates, CallAnswer, CallHangUp, Party, Bare
    <2> HIDE DEF S
    <2>2. reread(S.fields[n], o[n]) = o[n]
      BY <1>0, <2>1, FollowerFields DEF Rereads
    <2>3. Follows(S.fields[n], "version", {}) /\ Switch(S.fields["version"]) /\ S.fields[n].init = "empty"
      BY <2>1, FollowsAgain, FollowingFields, FollowerFields
    <2>4. outcome(S, o, n) = IF o["version"] = "set" THEN reread(S.fields[n], o[n]) ELSE "empty"
      BY <2>3, FollowOutcome
    <2> QED BY <1>14, <2>2, <2>4 DEF kept, S
  <1>15. CASE n = "invitee" /\ name = "CallInvite"
    <2>1. S.fields[n] = Only(Has, {"version"}) /\ S.fields["version"] = At
      BY <1>15, LossySchemas DEF CallInvite, Bare
    <2> HIDE DEF S
    <2>2. reread(S.fields[n], o[n]) = o[n]
      BY <1>0, <2>1, FollowerFields DEF Rereads
    <2>3. Follows(S.fields[n], "version", {}) /\ Switch(S.fields["version"]) /\ S.fields[n].init = "empty"
      BY <2>1, FollowsAgain, FollowingFields, FollowerFields
    <2>4. outcome(S, o, n) = IF o["version"] = "set" THEN reread(S.fields[n], o[n]) ELSE "empty"
      BY <2>3, FollowOutcome
    <2> QED BY <1>15, <2>2, <2>4 DEF kept, S
  <1>16. CASE n \in {"room_id", "session_id"} /\ name = "KeyRequest"
    <2>1. S.fields[n] = Only(At, {"action"}) /\ S.fields["action"] = Action
      BY <1>16, LossySchemas DEF KeyRequest, Object, Action
    <2> HIDE DEF S
    <2>2. reread(S.fields[n], o[n]) = o[n]
      BY <1>0, <2>1, FollowerFields DEF Rereads
    <2>3. Follows(S.fields[n], "action", {}) /\ Switch(S.fields["action"]) /\ S.fields[n].init = "empty"
      BY <2>1, FollowsAgain, FollowingFields, FollowerFields
    <2>4. outcome(S, o, n) = IF o["action"] = "set" THEN reread(S.fields[n], o[n]) ELSE "empty"
      BY <2>3, FollowOutcome
    <2> QED BY <1>16, <2>2, <2>4 DEF kept, S
  <1>17. CASE n = "sender_key" /\ name = "KeyRequest"
    <2>1. S.fields[n] = Only(ValSet, {"action"}) /\ S.fields["action"] = Action
      BY <1>17, LossySchemas DEF KeyRequest, Object, Action
    <2> HIDE DEF S
    <2>2. reread(S.fields[n], o[n]) = o[n]
      BY <1>0, <2>1, FollowerFields DEF Rereads
    <2>3. Follows(S.fields[n], "action", {}) /\ Switch(S.fields["action"]) /\ S.fields[n].init = "empty"
      BY <2>1, FollowsAgain, FollowingFields, FollowerFields
    <2>4. outcome(S, o, n) = IF o["action"] = "set" THEN reread(S.fields[n], o[n]) ELSE "empty"
      BY <2>3, FollowOutcome
    <2> QED BY <1>17, <2>2, <2>4 DEF kept, S
  <1>18. CASE n = "algorithm" /\ name = "KeyRequest"
    <2>1. S.fields[n] = Only(F("at", "constant"), {"action"}) /\ S.fields["action"] = Action
      BY <1>18, LossySchemas DEF KeyRequest, Object, Action
    <2> HIDE DEF S
    <2>2. reread(S.fields[n], o[n]) = "set"
      BY <1>0, <2>1, FollowerFields
    <2>3. Follows(S.fields[n], "action", {"empty"}) /\ Switch(S.fields["action"]) /\ S.fields[n].init = "empty"
      BY <2>1, FollowsAgain, FollowingFields, FollowerFields
    <2>4. outcome(S, o, n) = IF o["action"] = "set" THEN reread(S.fields[n], o[n]) ELSE "empty"
      BY <2>3, FollowOutcome
    <2> QED BY <1>18, <2>2, <2>4 DEF kept, S
  <1>19. CASE n = "thumbnail_info" /\ name = "LocationInfo"
    <2>1. /\ S.fields[n] = LocationThumbnail /\ S.fields["thumbnail_url"] = HasSet
          /\ S.fields["thumbnail_file"] = Opt(Many(Has))
      BY <1>19, LossySchemas DEF LocationInfo, Bare, LocationThumbnail
    <2> HIDE DEF S
    <2>2. Allowed(S, o, n) <=> o["thumbnail_url"] = "set" \/ o["thumbnail_file"] # "unset"
      BY <2>1, BesideFields, PlainFields DEF Allowed, present, Beside
    <2>3. outcome(S, o, n) = IF o["thumbnail_url"] = "set" \/ o["thumbnail_file"] # "unset" THEN o[n] ELSE "empty"
      BY <1>0, <2>1, <2>2, BesideFields DEF outcome, Beside, Rereads, reread
    <2> QED BY <1>19, <2>3 DEF kept, S
  <1>20. name = "Parent" => n \notin {"suggested", "order"}
    BY LossySchemas DEF Parent, Object
  <1>21. name = "Child" => n # "canonical"
    BY LossySchemas DEF Child, Object
  <1>22. name \in {"CallCandidates", "CallAnswer", "CallHangUp"} => n # "invitee"
    BY LossySchemas DEF CallCandidates, CallAnswer, CallHangUp, Bare
  <1> HIDE DEF S
  <1> QED
    BY <1>1, <1>2, <1>3, <1>4, <1>5, <1>6, <1>7, <1>8, <1>9, <1>10, <1>11, <1>12, <1>13, <1>14, <1>15, <1>16, <1>17, <1>18, <1>19, <1>20, <1>21, <1>22
       DEF LossyMembers, S

\* The other members keep their values.
LEMMA OtherKept ==
    ASSUME NEW name, NEW n, <<name, n>> \notin LossyMembers, NEW o
    PROVE  kept(name, n, o) = o[n]
  BY DEF kept, LossyMembers

\* An event survives being stored and read again: for all 109 structs and every
\* document or struct they begin with, each member is what it was, or what kept
\* says of a member that others decide about.
THEOREM MeaningIsKept == Spec => []KeepsMeaning
  <1>1. CodecInv => KeepsMeaning
    <2> SUFFICES ASSUME CodecInv, phase = "loaded", schema \notin Special,
                        NEW n \in DOMAIN event
                 PROVE  event[n] = kept(schema, n, original)
      BY DEF KeepsMeaning
    <2>1. event = from_json(SchemaOf(schema), doc) /\ ~ rejected(event)
      BY DEF CodecInv, StructInv
    <2>2. /\ Filled(SchemaOf(schema), original) /\ n \in DOMAIN SchemaOf(schema).fields
          /\ event[n] = outcome(SchemaOf(schema), original, n)
          /\ event[n] = original[n] \/ <<schema, n>> \in LossyMembers
      BY <2>1, StoredKept
    <2> QED
      BY <2>2, LossyOutcome, OtherKept
  <1> QED
    BY <1>1, CodecInvariant, PTL
=============================================================================
