--------------------------- MODULE EventContents ---------------------------
(***************************************************************************)
(* The contents of state events, account data, ephemeral events, policy    *)
(* rules, spaces and image packs, and the structs nested in them: for each *)
(* its from_json and to_json as a record of fields (see JsonCodec).        *)
(* "empty" of an enumeration is the enumerator its parser falls back to.   *)
(***************************************************************************)
EXTENDS JsonCodec

\* Envelopes.  Content that is no object becomes a default content, except in
\* ephemeral events and account data; names are limited to 255 bytes.
Id(f) == Many(f)
UnsignedData == Bare([age |-> HasSet, transaction_id |-> HasSet, prev_sender |-> HasSet,
                      replaces_state |-> HasSet, redacted_by |-> HasSet,
                      redacted_because |-> Opt(Many(Has))])
Event == Bare([content |-> Loose(At), type |-> Given(At), sender |-> Id(Val)])
DeviceEvent == Bare([content |-> Loose(At), type |-> Given(At), sender |-> Given(At)])
StrippedEvent == Bare([content |-> Loose(At), type |-> Given(At), sender |-> Id(Val),
                       state_key |-> Id(At)])
RoomEvent == Bare([content |-> Loose(At), type |-> Given(At), sender |-> Id(Val),
                   event_id |-> Id(At), origin_server_ts |-> At, room_id |-> Id(HasSet),
                   unsigned |-> Loose(Has)])
StateEvent == Bare([content |-> Loose(At), type |-> Given(At), sender |-> Id(Val),
                    event_id |-> Id(At), origin_server_ts |-> At, room_id |-> Id(HasSet),
                    unsigned |-> Loose(Has), state_key |-> Id(At)])
RedactionEvent == Bare([content |-> Loose(At), type |-> Given(At), sender |-> Id(Val),
                        event_id |-> Id(At), origin_server_ts |-> At, room_id |-> Id(HasSet),
                        unsigned |-> Loose(Has), redacts |-> At])
EphemeralEvent == Bare([content |-> Many(At), type |-> Given(At), room_id |-> Id(HasSet)])

\* Keys and encrypted files.
UnsignedDeviceInfo == Bare([device_display_name |-> HasSet])
DeviceKeys == Bare([user_id |-> At, device_id |-> At, algorithms |-> Many(At),
                    keys |-> Many(At), signatures |-> Many(Has), unsigned |-> Loose(HasSet)])
CrossSigningKeys == Bare([user_id |-> At, usage |-> Many(At), keys |-> Many(At),
                          signatures |-> Many(Has)])
JWK == Bare([kty |-> At, key_ops |-> Many(At), alg |-> At, k |-> At, ext |-> At])
EncryptedFile == Bare([url |-> At, key |-> Many(At), iv |-> At, hashes |-> Many(At), v |-> At])

\* What a media message says about its file.  The thumbnail's description is
\* written only beside a thumbnail_url, in LocationInfo beside a file as well.
ThumbnailInfo == Bare([h |-> Safe, w |-> Safe, size |-> Safe, mimetype |-> Has])
Thumbnail == Needs(Loose(Has), {"thumbnail_url"})
ImageInfo == Bare([h |-> Safe, w |-> Safe, size |-> Safe, mimetype |-> Has,
                   thumbnail_url |-> HasSet, thumbnail_info |-> Thumbnail,
                   thumbnail_file |-> Opt(Many(Has)), blurhash |-> HasSet])
FileInfo == Bare([size |-> Safe, mimetype |-> Has, thumbnail_url |-> HasSet,
                  thumbnail_info |-> Thumbnail, thumbnail_file |-> Opt(Many(Has))])
AudioInfo == Bare([size |-> Safe, duration |-> Safe, mimetype |-> Has])
VideoInfo == Bare([h |-> Safe, w |-> Safe, size |-> Safe, duration |-> Safe, mimetype |-> Has,
                   thumbnail_url |-> HasSet, thumbnail_info |-> Thumbnail,
                   thumbnail_file |-> Opt(Many(Has)), blurhash |-> HasSet])
LocationInfo == Bare([thumbnail_url |-> HasSet, thumbnail_file |-> Opt(Many(Has)),
                      thumbnail_info |-> Needs(Loose(Has), {"thumbnail_url", "thumbnail_file"})])
MentionsInfo == Object([room |-> ValSet, user_ids |-> Many(ValSet)])

\* State events.
Aliases == Bare([aliases |-> Many(Val)])
Avatar == Bare([info |-> Loose(Has), url |-> NonNull])
CanonicalAlias == Object([alias |-> F("nonnull", "nonempty"),
                          alt_aliases |-> Many(F("typed", "nonempty"))])
PreviousRoom == Bare([room_id |-> At, event_id |-> ValSet])
Create == Bare([type |-> Opt(F("typed", "has_value")), m_federate |-> Init_(Has, "set"),
                room_version |-> Init_(HasSet, "set"), predecessor |-> Opt(Many(Has)),
                additional_creators |-> Many(HasSet)])
Encryption == Bare([algorithm |-> At, rotation_period_ms |-> Init_(Has, "set"),
                    rotation_period_msgs |-> Init_(Has, "set")])
GuestAccess == Bare([guest_access |-> Enum(Val, "empty")])
HistoryVisibility == Bare([history_visibility |-> Enum(Val, "empty")])
JoinAllowance == Object([type |-> Enum(ValSet, "empty"), room_id |-> Needs(Val, {"type"})])
JoinRules == Bare([join_rule |-> Enum(Val, "empty"), allow |-> Many(HasSet)])
Member == Bare([membership |-> Enum(At, "empty"), displayname |-> NonNull,
                avatar_url |-> NonNull, is_direct |-> Has, reason |-> F("typed", "nonempty"),
                join_authorised_via_users_server |-> HasSet])
Name_ == Bare([name |-> NonNull])
PinnedEvents == Bare([pinned |-> Many(Val)])
PowerLevels == Bare([ban |-> Init_(Has, "set"), invite |-> Init_(Has, "set"),
                     kick |-> Init_(Has, "set"), redact |-> Init_(Has, "set"),
                     state_default |-> Init_(Has, "set"), events_default |-> Has,
                     users_default |-> Has, events |-> Many(HasSet), users |-> Many(HasSet),
                     notifications |-> Many(HasSet)])
Rule == Object([entity |-> Val, recommendation |-> Val, reason |-> Val])
ServerAcl == Bare([allow |-> Many(Val), deny |-> Many(Val),
                   allow_ip_literals |-> Init_(Val, "set")])
Via == Init_(Many(F("filled", "nonempty")), "unset")
Parent == Object([canonical |-> Needs(F("typed", "nonempty"), {"via"}), via |-> Via])
Child == Object([via |-> Via, suggested |-> Needs(ValSet, {"via"}),
                 order |-> Needs(Init_(Enum(F("typed", "named"), "unset"), "unset"), {"via"})])
Tombstone == Bare([body |-> Val, replacement_room |-> Val])
Topic == Bare([topic |-> NonNull])
Widget == Bare([waitForIframeLoad |-> Init_(Val, "set"), type |-> Val, url |-> Val,
                name |-> ValSet, id |-> Val, creatorUserId |-> Val, data |-> Many(ValSet)])

\* Account data and ephemeral events.
Direct == Whole(Many(At))
FullyRead == Bare([event_id |-> At])
IgnoredUsers == Bare([ignored_users |-> Keys(Has)])
Presence == Bare([avatar_url |-> ValSet, displayname |-> ValSet, last_active_ago |-> ValSet,
                  presence |-> Enum(Val, "empty"), currently_active |-> ValSet,
                  status_msg |-> SafeSet])
Receipt == Whole(Enum(Loose(HasSet), "empty"))
Tag == Object([order |-> Opt(F("typed", "has_value"))])
Tags == Bare([tags |-> At])
Typing == Bare([user_ids |-> Many(At)])

\* Extensions.
EventExpiry == Bare([exclude_state_events |-> ValSet, expire_after_ms |-> ValSet,
                     protect_latest |-> ValSet, keep_only_latest |-> ValSet])
HiddenEvents == Bare([hidden_event_types |-> Init_(Enum(Elements(HasSet), "odd"), "unset")])
InvitePermissions == Bare([default |-> Init_(Has, "set"), server |-> Many(HasSet),
                           room |-> Many(HasSet), user |-> Many(HasSet)])
PackImage == Bare([url |-> At, body |-> SafeSet, info |-> Opt(Loose(Has)), usage |-> Scan(HasSet)])
PackDescription == Bare([avatar_url |-> SafeSet, display_name |-> SafeSet,
                         attribution |-> SafeSet, usage |-> Scan(F("typed", "nonempty"))])
ImagePack == Bare([pack |-> Opt(Scan(Has)), images |-> Many(Has)])
ImagePackRooms == Bare([rooms |-> Keys(Has)])

\* Secret storage.
AesHmacSha2EncryptedData == Bare([iv |-> At, ciphertext |-> At, mac |-> At])
Secret == Bare([encrypted |-> Many(At)])
PBKDF2 == Bare([algorithm |-> At, salt |-> At, iterations |-> At, bits |-> Init_(Val, "set")])
AesHmacSha2KeyDescription ==
  Bare([name |-> Val, algorithm |-> At, passphrase |-> Opt(Many(Has)), iv |-> ValSet,
        mac |-> ValSet, signatures |-> Many(HasSet)])

\* An event whose type the library does not know keeps its content as text.
Unknown == Whole(Raw(At))

EventSchemas ==
  [UnsignedData |-> UnsignedData, Event |-> Event, DeviceEvent |-> DeviceEvent,
   StrippedEvent |-> StrippedEvent, RoomEvent |-> RoomEvent, StateEvent |-> StateEvent,
   RedactionEvent |-> RedactionEvent, EphemeralEvent |-> EphemeralEvent,
   UnsignedDeviceInfo |-> UnsignedDeviceInfo, DeviceKeys |-> DeviceKeys,
   CrossSigningKeys |-> CrossSigningKeys, JWK |-> JWK, EncryptedFile |-> EncryptedFile,
   ThumbnailInfo |-> ThumbnailInfo, ImageInfo |-> ImageInfo, FileInfo |-> FileInfo,
   AudioInfo |-> AudioInfo, VideoInfo |-> VideoInfo, LocationInfo |-> LocationInfo,
   Mentions |-> MentionsInfo, Aliases |-> Aliases, Avatar |-> Avatar,
   CanonicalAlias |-> CanonicalAlias, PreviousRoom |-> PreviousRoom, Create |-> Create,
   Encryption |-> Encryption, GuestAccess |-> GuestAccess,
   HistoryVisibility |-> HistoryVisibility, JoinAllowance |-> JoinAllowance,
   JoinRules |-> JoinRules, Member |-> Member, Name |-> Name_, PinnedEvents |-> PinnedEvents,
   PowerLevels |-> PowerLevels, Rule |-> Rule, ServerAcl |-> ServerAcl, Parent |-> Parent,
   Child |-> Child, Tombstone |-> Tombstone, Topic |-> Topic, Widget |-> Widget,
   Direct |-> Direct, FullyRead |-> FullyRead, IgnoredUsers |-> IgnoredUsers,
   Presence |-> Presence, Receipt |-> Receipt, Tag |-> Tag, Tags |-> Tags, Typing |-> Typing,
   EventExpiry |-> EventExpiry, HiddenEvents |-> HiddenEvents,
   InvitePermissions |-> InvitePermissions, PackImage |-> PackImage,
   PackDescription |-> PackDescription, ImagePack |-> ImagePack,
   ImagePackRooms |-> ImagePackRooms, AesHmacSha2EncryptedData |-> AesHmacSha2EncryptedData,
   Secret |-> Secret, PBKDF2 |-> PBKDF2,
   AesHmacSha2KeyDescription |-> AesHmacSha2KeyDescription, Unknown |-> Unknown]
=============================================================================
