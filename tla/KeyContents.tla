---------------------------- MODULE KeyContents ----------------------------
(***************************************************************************)
(* The structs in which keys leave the process: exported room keys, the    *)
(* online key backup, and the answer to /keys/query, which applications    *)
(* cache.  See JsonCodec.  The version of a backup is left out: its etag   *)
(* is a text of JSON, which values without their text do not tell apart.   *)
(***************************************************************************)
EXTENDS JsonCodec

\* The algorithm is written and never read; there is only one.
ExportedSession ==
  Bare([sender_claimed_keys |-> Many(Has), forwarding_curve25519_key_chain |-> Many(Has),
        algorithm |-> Init_(F("unread", "always"), "set"), room_id |-> At, sender_key |-> At,
        session_id |-> At, session_key |-> At])
IdentityKeys == Bare([ed25519 |-> At, curve25519 |-> At])
OneTimeKeys == Bare([curve25519 |-> Many(At)])

QueryKeys == Bare([failures |-> Many(HasSet), device_keys |-> Many(Has), master_keys |-> Many(Has),
                   user_signing_keys |-> Many(Has), self_signing_keys |-> Many(Has)])

EncryptedSessionData == Bare([ephemeral |-> At, ciphertext |-> At, mac |-> At])
SessionBackup == Bare([first_message_index |-> At, forwarded_count |-> At, is_verified |-> At,
                       session_data |-> Many(At)])
RoomKeysBackup == Bare([sessions |-> Many(At)])
KeysBackup == Bare([rooms |-> Many(At)])
SessionData ==
  Bare([algorithm |-> At, forwarding_curve25519_key_chain |-> Many(At), sender_key |-> At,
        sender_claimed_keys |-> Many(Val), session_key |-> At])

KeySchemas ==
  [ExportedSession |-> ExportedSession, IdentityKeys |-> IdentityKeys,
   OneTimeKeys |-> OneTimeKeys, QueryKeys |-> QueryKeys,
   EncryptedSessionData |-> EncryptedSessionData, SessionBackup |-> SessionBackup,
   RoomKeysBackup |-> RoomKeysBackup, KeysBackup |-> KeysBackup, SessionData |-> SessionData]
=============================================================================
