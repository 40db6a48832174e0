----------------------------- MODULE EventCodec -----------------------------
(***************************************************************************)
(* The life of an event in an application: it arrives as JSON or is put    *)
(* together as a struct, is kept or sent as JSON, and is read again after  *)
(* a restart or by another client.  One struct of the library at a time,   *)
(* with every document that departs from a full or from a minimal one in   *)
(* at most two fields.                                                     *)
(***************************************************************************)
EXTENDS EventContents, MessageContents, KeyContents, Relations, Collections

CONSTANT MaxRelations  \* relations of one message
ASSUME EventCodecAssumption == MaxRelations \in Nat

VARIABLES schema,   \* the struct, a name
          doc,      \* the document that arrived or that to_json wrote
          event,    \* the struct in memory
          phase,
          original  \* history: the event that was stored

vars == <<schema, doc, event, phase, original>>

Nothing == <<>>
\* A message with its relations has conversions of its own.
RelatedMessage == "message with relations"
\* An event of a timeline, of any type.
TimelineEvent == "timeline event"
Special == {RelatedMessage, TimelineEvent}
Names == DOMAIN EventSchemas \cup DOMAIN MessageSchemas \cup DOMAIN KeySchemas
SchemaOf(n) == IF n \in DOMAIN EventSchemas THEN EventSchemas[n]
               ELSE IF n \in DOMAIN MessageSchemas THEN MessageSchemas[n] ELSE KeySchemas[n]

\* Functions that differ from a base in at most two places.
Near(bases, values(_)) ==
  UNION {LET D == DOMAIN b IN
         IF D = {} THEN {b}
         ELSE UNION {{[b EXCEPT ![x] = v, ![y] = w] : v \in values(x), w \in values(y)} :
                     x \in D, y \in D} : b \in bases}

Documents(s) ==
  LET in(n) == inputs(s.fields[n]) \ (IF s.start = "whole" THEN {"absent"} ELSE {})
      full  == [n \in DOMAIN s.fields |-> "set"]
      least == [n \in DOMAIN s.fields |->
                  IF s.fields[n].read \in {"at", "dispatch"} \/ s.start = "whole"
                  THEN "set" ELSE "absent"]
      fields == Near({full, least}, in)
  IN  [kind : {"object"}, at : fields]
      \cup IF s.start = "whole" THEN {} ELSE [kind : {"null", "other"}, at : {full}]

\* Structs an application puts together.
Structs(s) ==
  LET full  == [n \in DOMAIN s.fields |-> "set"]
      least == [n \in DOMAIN s.fields |->
                  IF s.fields[n].read = "dispatch" \/ s.fields[n].shape = "given"
                  THEN "set" ELSE s.fields[n].init]
      in(n) == members(s.fields[n])
  IN  Near({full, least}, in)

RelationLists == UNION {[1 .. n -> RelationSet] : n \in 0 .. MaxRelations}

Init == /\ \/ /\ schema \in Names \ Special
              /\ \/ doc \in Documents(SchemaOf(schema)) /\ phase = "received"
                 \/ doc = Nothing /\ phase = "blank"
           \/ /\ schema = RelatedMessage
              /\ \/ doc \in ContentSet(RelationLists) /\ phase = "received"
                 \/ doc = Nothing /\ phase = "blank"
           \/ schema = TimelineEvent /\ doc \in WireSet /\ phase = "received"
        /\ event = Nothing /\ original = Nothing

\* from_json, which holds the struct or drops the document.
Hold(e, fails, held, dropped) ==
  IF fails THEN event' = Nothing /\ phase' = dropped ELSE event' = e /\ phase' = held
Read(held, dropped) ==
  \/ /\ schema = RelatedMessage
     /\ Hold(message_from_json(doc), FALSE, held, dropped)
  \/ /\ schema \notin Special
     /\ LET e == from_json(SchemaOf(schema), doc) IN Hold(e, rejected(e), held, dropped)

\* from_json of a document that arrived.
Parse == /\ phase = "received"
         /\ \/ Read("held", "rejected")
            \/ /\ schema = TimelineEvent
               /\ LET e == parse_timeline_events(doc) IN Hold(e, e = Skipped, "held", "rejected")
         /\ UNCHANGED <<schema, doc, original>>

\* The application fills in a struct of its own.
Compose == /\ phase = "blank"
           /\ event' \in IF schema = RelatedMessage THEN MessageSet(RelationLists)
                         ELSE Structs(SchemaOf(schema))
           /\ phase' = "held"
           /\ UNCHANGED <<schema, doc, original>>

\* to_json, into a cache or a request.
Store == /\ phase = "held"
         /\ \/ schema = RelatedMessage /\ doc' = message_to_json(event)
            \/ schema = TimelineEvent /\ doc' = event_to_json(event)
            \/ /\ schema \notin Special
               /\ ~unwritable(SchemaOf(schema), event)
               /\ doc' = to_json(SchemaOf(schema), event)
         /\ phase' = "stored"
         /\ original' = event
         /\ UNCHANGED <<schema, event>>

\* The application ends, or the document reaches another client.
Restart == /\ phase = "stored"
           /\ event' = Nothing
           /\ phase' = "restarted"
           /\ UNCHANGED <<schema, doc, original>>

\* from_json of what to_json wrote.
Load == /\ phase = "restarted"
        /\ \/ Read("loaded", "lost")
           \/ /\ schema = TimelineEvent
              /\ LET e == TimelineEvents_from_json(doc) IN Hold(e, e = Skipped, "loaded", "lost")
        /\ UNCHANGED <<schema, doc, original>>

Next == Parse \/ Compose \/ Store \/ Restart \/ Load

Spec == Init /\ [][Next]_vars
-----------------------------------------------------------------------------
\* The inductive invariant: where the document and the event in memory come from.
TimelineSource(e) == e # Skipped /\ \E d \in WireSet : e = parse_timeline_events(d)
MessageSource(e) ==
  \/ e \in MessageSet(RelationLists)
  \/ \E d \in ContentSet(RelationLists) : e = message_from_json(d)

StructSource(e) ==
  \/ e \in Structs(SchemaOf(schema))
  \/ ~rejected(e) /\ \E d \in Documents(SchemaOf(schema)) : e = from_json(SchemaOf(schema), d)

TimelineInv ==
  schema = TimelineEvent =>
    /\ phase = "received" => doc \in WireSet
    /\ phase # "blank"
    /\ phase = "held" => TimelineSource(event)
    /\ phase \in {"stored", "restarted", "loaded", "lost"} =>
         TimelineSource(original) /\ doc = event_to_json(original)
    /\ phase = "loaded" => event # Skipped /\ event = TimelineEvents_from_json(doc)
    /\ phase = "lost" => TimelineEvents_from_json(doc) = Skipped

MessageInv ==
  schema = RelatedMessage =>
    /\ phase = "received" => doc \in ContentSet(RelationLists)
    /\ phase = "held" => MessageSource(event)
    /\ phase \in {"stored", "restarted", "loaded", "lost"} =>
         MessageSource(original) /\ doc = message_to_json(original)
    /\ phase = "loaded" => event = message_from_json(doc)
    /\ phase # "lost"

StructInv ==
  schema \notin Special =>
    /\ schema \in Names
    /\ phase = "received" => doc \in Documents(SchemaOf(schema))
    /\ phase = "held" => StructSource(event)
    /\ phase \in {"stored", "restarted", "loaded", "lost"} =>
         /\ StructSource(original) /\ ~unwritable(SchemaOf(schema), original)
         /\ doc = to_json(SchemaOf(schema), original)
    /\ phase = "loaded" => event = from_json(SchemaOf(schema), doc) /\ ~rejected(event)
    /\ phase = "lost" => rejected(from_json(SchemaOf(schema), doc))

CodecInv == TimelineInv /\ MessageInv /\ StructInv
-----------------------------------------------------------------------------
\* The value member n of a struct has when what was written of o is read again.  It is
\* the one it had, except where another member, or the lack of one, decides.
kept(name, n, o) ==
  CASE \* Written as the one known format, beside a formatted_body.
       n = "format" /\ name \in {"Text", "Emote", "Notice", "ElementEffect"} ->
         IF o.formatted_body = "set" THEN "set" ELSE "empty"
       \* Not written beside an encrypted file, or without a thumbnail.
    [] n = "url" /\ name \in {"Audio", "Video", "File", "Image", "StickerImage"} /\ o.file # "unset" ->
         "empty"
    [] n = "thumbnail_info" /\ name \in {"ImageInfo", "FileInfo", "VideoInfo"}
       /\ o.thumbnail_url # "set" -> "empty"
    [] n = "thumbnail_info" /\ name = "LocationInfo"
       /\ o.thumbnail_url # "set" /\ o.thumbnail_file = "unset" -> "empty"
       \* A space link without via is written empty; an invalid order is not written.
    [] n \in {"canonical", "suggested"} /\ name \in {"Parent", "Child"} /\ o.via # "set" -> "empty"
    [] n \in {"via", "order"} /\ name \in {"Parent", "Child"} /\ (o.via # "set" \/ o[n] = "odd") -> "unset"
       \* An empty list reads as not configured, an empty version as version 1.
    [] n = "hidden_event_types" /\ name = "HiddenEvents" /\ o[n] = "empty" -> "unset"
    [] n = "room_version" /\ name = "Create" /\ o[n] = "empty" -> "set"
       \* The room of an allowance of an unknown type, the body of a key request that
       \* is none, and what calls have from version 1 on.
    [] n = "room_id" /\ name = "JoinAllowance" /\ o.type # "set" -> "empty"
    [] n \in {"room_id", "session_id", "sender_key", "algorithm"} /\ name = "KeyRequest"
       /\ o.action # "set" -> "empty"
    [] n \in {"party_id", "invitee"} /\ name \in {"CallInvite", "CallCandidates", "CallAnswer", "CallHangUp"}
       /\ o.version # "set" -> "empty"
       \* The only values there are: the algorithms of olm and megolm, the msgtype.
    [] n = "algorithm" /\ name \in {"OlmEncrypted", "ExportedSession"} -> "set"
    [] n = "algorithm" /\ name = "KeyRequest" /\ o.action = "set" -> "set"
    [] n = "msgtype" /\ name = "KeyVerificationRequest" /\ o[n] # "unset" -> "set"
    [] OTHER -> o[n]

\* An expiry that sets nothing is written as null, which its from_json refuses, a
\* key request that an application gave RequestAction::Unknown without the action
\* that is read, and a redacted event of an unknown type without its type.
Unreadable ==
  \/ schema = "EventExpiry" /\ \A n \in DOMAIN original : original[n] = "empty"
  \/ schema = "KeyRequest" /\ original.action = "odd"
  \/ /\ schema = TimelineEvent
     /\ original.content = "Redacted" /\ original.name = NoName

\* What the library wrote itself it can read: no document of to_json makes the
\* matching from_json throw, whatever was received or filled in before, but for the
\* three above.
Reloads == phase = "lost" => Unreadable

\* An event survives being stored and read again: member by member it is the
\* event that was stored, up to what kept says of a member beside the others.
KeepsMeaning ==
  phase = "loaded" /\ schema \notin Special =>
    \A n \in DOMAIN event : event[n] = kept(schema, n, original)

\* add_relations puts a reply under m.new_content only together with another
\* relation, and only the list of this library, which it does not write for
\* relations that came without one, would still hold it.
ReplyOfEditLost ==
  /\ original.rels.synthesized
  /\ replaces(original.rels) # {} /\ reply_to(original.rels) # {}

\* An edit whose new content claims to be an edit too, of which only one fits.
EditOfEdit ==
  /\ original.rels.synthesized
  /\ \A i \in DOMAIN original.rels.relations : original.rels.relations[i].rel_type = "replace"

\* A message keeps its relations and its text: after being stored and read again
\* it answers like the one that was stored, but for the reply of a received edit.
\* An edit does not collect asterisks.
KeepsRelations ==
  phase = "loaded" /\ schema = RelatedMessage =>
    \/ Answers(event) = Answers(original)
    \/ /\ EditOfEdit
       /\ Answers(event) = [Answers(original) EXCEPT !.replaces = replaces(event.rels)]
    \/ /\ ReplyOfEditLost
       /\ Answers(event) = [Answers(original) EXCEPT !.reply_to = {}]

\* A cached event comes back as the alternative it was: the same struct, type and
\* unknown content, redacted or not.
KeepsAlternative == phase = "loaded" /\ schema = TimelineEvent => event = original

\* An event that has what the envelope of its list asks for.
WellFormed(e) ==
  /\ e.content = "good" /\ e.name \notin {NoName, "Presence"}
  /\ e.name \in DataTypes \/ (e.sender /\ (e.complete \/ e.name \in device_list))
  /\ e.name \in state_list => e.state_key
  /\ e.name = "RoomMessage" => getMessageType(e) # "Invalid"

\* The parsers of the lists, each with a switch of its own, agree.  What a timeline
\* keeps is the same alternative when it is fetched alone, and what is read alone
\* with its own struct is kept by a timeline, but for a verification request that
\* is no message.  State is the same in the state list as in the timeline, unless
\* the type is unknown, and in an invitation as in the state list, except that an
\* invitation needs no ids and leaves out two types.  Every well-formed event with
\* a name, but a presence, has a list that holds it.
ListsAgree ==
  schema = TimelineEvent /\ phase = "received" =>
    LET line == parse_timeline_events(doc)
        single == TimelineEvents_from_json(doc)
        state == parse_state_events(doc)
        stripped == parse_stripped_events(doc)
    IN  /\ line # Skipped => single = line
        /\ single.filled /\ single.content # "Unknown" /\ doc.name # "KeyVerificationRequest" =>
             line = single
        /\ state # Skipped /\ doc.name # Custom => line = state
        /\ line.envelope = "State" => state = line
        /\ stripped # Skipped /\ doc.complete /\ ~doc.redacted =>
             state = [stripped EXCEPT !.envelope = "State"]
        /\ state # Skipped /\ ~doc.redacted /\ doc.name \notin {"RoomEncryption", "ImagePackInRoom"} =>
             stripped # Skipped
        /\ WellFormed(doc) =>
             \E p \in {line, state, parse_device_events(doc), parse_ephemeral_events(doc),
                       parse_room_account_data_events(doc)} : p # Skipped

\* Clients that only know m.relates_to see the edit of a message that is one, and
\* under m.new_content the last other relation of what it says; of any other message
\* they see the last reply, and m.relates_to names its last other relation: the
\* thread, the reference or the annotation.
OthersSee ==
  phase = "loaded" /\ schema = RelatedMessage =>
    LET seen == message_from_json([doc EXCEPT !.list = {}]).rels
        last(types) == last_of(original.rels.relations, types)
        ids(types) == {x.event_id : x \in last(types)}
        other == last(RelationTypes \ {"replace", "in_reply_to"})
    IN  IF ids({"replace"}) # {}
        THEN /\ replaces(seen) = ids({"replace"})
             /\ \A x \in other : The(The(doc.new).relates).rel = x
        ELSE /\ reply_to(seen) = ids({"in_reply_to"})
             /\ \A x \in other : The(doc.relates).rel = x
=============================================================================
