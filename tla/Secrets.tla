------------------------------ MODULE Secrets ------------------------------
(***************************************************************************)
(* What an account keeps outside the process and has to get back: secrets  *)
(* in the secret storage of the server and the key that unlocks them, an   *)
(* export and a backup of room keys, attachments, signed keys, and bytes   *)
(* written as text.  Each is made, may be changed on its way, and is       *)
(* opened again, by this or by another device.                             *)
(*                                                                         *)
(* Ciphers, hashes, key derivation and signatures are OpenSSL's and        *)
(* libolm's; here they are symbols that are equal only if all that went    *)
(* into them is.                                                           *)
(***************************************************************************)
EXTENDS Encodings, FiniteSets

CONSTANTS Samples,      \* byte strings that are written as text
          CodeSamples,  \* and the bytes of codes, six of them
          Keys,         \* keys of the secret storage, byte strings
          Passwords,    \* what a user may type, bytes
          SaltBytes, BlockBytes, DigestBytes,  \* lengths in an export
          MaxSessions

ASSUME LengthsAssumption ==
  SaltBytes \in Nat /\ BlockBytes \in Nat /\ DigestBytes \in Nat \ {0} /\ MaxSessions \in Nat

VARIABLES subject,  \* what this is about
          phase,    \* new, made, opened
          made,     \* history: what it was made from
          stored,   \* what there is of it outside
          damage,   \* history: what happened to it there
          result    \* what opening it gave

vars == <<subject, phase, made, stored, damage, result>>

Nothing == <<>>
Intact  == <<"intact">>
Throws  == <<"throws">>
Garbage == <<"garbage">>
Changed(x) == <<"changed", x>>
-----------------------------------------------------------------------------
(* The symbols.                                                             *)
PBKDF2_HMAC_SHA_512(pass, salt) == <<pass, salt>>
HKDF_SHA256(key, info) == [aes |-> <<"aes", key, info>>, mac |-> <<"mac", key, info>>]
HMAC_SHA256(key, data) == <<"hmac", key, data>>
AES_CTR_256_Encrypt(plain, key, iv) == <<"ciphertext", key, iv, plain>>
AES_CTR_256_Decrypt(c, key, iv) ==
  IF c[1] = "ciphertext" /\ c[2] = key /\ c[3] = iv THEN c[4] ELSE Garbage
sha256(data) == <<"sha256", data>>
-----------------------------------------------------------------------------
(* Secret storage.                                                          *)
NoPassword == 0
ASSUME PasswordsAssumption == NoPassword \notin Passwords
Salt == 200
\* What a key is checked with: the mac of 32 zero bytes.
key_check(key, iv) ==
  LET keys == HKDF_SHA256(key, "") IN HMAC_SHA256(keys.mac, AES_CTR_256_Encrypt("zeros", keys.aes, iv))

create_ssss_key(password, random) ==
  LET key == IF password = NoPassword THEN random ELSE PBKDF2_HMAC_SHA_512(password, Salt)
  IN  [key |-> key,
       description |-> [passphrase |-> IF password = NoPassword THEN {}
                                       ELSE {[algorithm |-> "m.pbkdf2", salt |-> Salt]},
                        iv |-> "iv", mac |-> key_check(key, "iv")]]

\* Mutant: a key is taken without a look at the description.
verified_unchecked(key, d) == {key}
\* A key that was given is looked at with the iv and the mac of the description: a
\* set of at most one key, none if the check fails.
verified(key, d) == {k \in {key} : key_check(k, d.iv) = d.mac}

key_from_passphrase(password, d) ==
  IF \A p \in d.passphrase : p.algorithm # "m.pbkdf2" THEN Throws
  ELSE <<"key", UNION {verified(PBKDF2_HMAC_SHA_512(password, p.salt), d) : p \in d.passphrase}>>
key_from_recoverykey(text, d) ==
  <<"key", UNION {verified(key, d) : key \in key_in(text)}>>

encrypt(secret, key, name) ==
  LET keys == HKDF_SHA256(key, name)
      ciphertext == AES_CTR_256_Encrypt(secret, keys.aes, "iv")
  IN  [iv |-> "iv", ciphertext |-> ciphertext, mac |-> HMAC_SHA256(keys.mac, ciphertext)]

\* Mutant: the mac is not looked at.
decrypt_unchecked(data, key, name) ==
  AES_CTR_256_Decrypt(data.ciphertext, HKDF_SHA256(key, name).aes, data.iv)
\* The empty string when the mac is wrong.  The mac does not cover the iv.
decrypt(data, key, name) ==
  LET keys == HKDF_SHA256(key, name)
  IN  IF HMAC_SHA256(keys.mac, data.ciphertext) # data.mac THEN Nothing
      ELSE AES_CTR_256_Decrypt(data.ciphertext, keys.aes, data.iv)

Secret == <<"secret">>
\* What the server keeps: the description of the key and, under its name, the secret.
uploaded(setup) ==
  [description |-> setup.description, name |-> "name", data |-> encrypt(Secret, setup.key, "name")]
StoreSecret ==
  /\ subject = "secret" /\ phase = "new"
  /\ \E password \in Passwords \cup {NoPassword}, random \in Keys :
       LET setup == create_ssss_key(password, random)
       IN  made' = [key |-> setup.key, password |-> password] /\ stored' = uploaded(setup)
  /\ phase' = "made" /\ UNCHANGED <<subject, damage, result>>

SecretDamages ==
  LET where == {"data.iv", "data.ciphertext", "data.mac", "name", "iv", "mac", "salt", "algorithm", "passphrase"}
  IN  {<<w>> : w \in where}
damaged_secret(s, d) ==
  CASE d[1] = "data.iv"         -> [s EXCEPT !.data.iv = "other"]
    [] d[1] = "data.ciphertext" -> [s EXCEPT !.data.ciphertext = Changed(@)]
    [] d[1] = "data.mac"        -> [s EXCEPT !.data.mac = Changed(@)]
    [] d[1] = "name"            -> [s EXCEPT !.name = "other"]
    [] d[1] = "iv"              -> [s EXCEPT !.description.iv = "other"]
    [] d[1] = "mac"             -> [s EXCEPT !.description.mac = Changed(@)]
    [] d[1] = "salt"            -> [s EXCEPT !.description.passphrase = {[p EXCEPT !.salt = @ + 1] : p \in @}]
    [] d[1] = "algorithm"       -> [s EXCEPT !.description.passphrase = {[p EXCEPT !.algorithm = "other"] : p \in @}]
    [] d[1] = "passphrase"      -> [s EXCEPT !.description.passphrase = {}]

\* How a recovery key may be typed: as it was shown, in groups, with a character
\* too few or with one mistaken for another.
grouped(text, i) == SubSeq(text, 1, i) \o <<Space>> \o SubSeq(text, i + 1, Len(text))
mistaken(text, i, c) == [text EXCEPT ![i] = c]
typed(text) ==
  {<<"right", text>>}
  \cup {<<"right", grouped(text, i)>> : i \in 0 .. Len(text)}
  \cup {<<"wrong", RemoveAt(text, i)>> : i \in 1 .. Len(text)}
  \cup {<<"wrong", mistaken(text, i, c)>> : i \in 1 .. Len(text), c \in {57, Foreign, Invalid}}

Right(text) == {t[2] : t \in {x \in typed(text) : x[1] = "right"}}
\* A recovery key that was typed right is read as the key it was made of.
ASSUME RecoveryAssumption ==
  \A key \in Keys \cup {PBKDF2_HMAC_SHA_512(p, Salt) : p \in Passwords} :
    \A text \in Right(key_to_recoverykey(key)) : key_in(text) = {key}

\* What somebody who tries a gets: the key, if any, and the secret decrypted with it.
unlocked(a) ==
  LET found == IF a[1] = "password" THEN key_from_passphrase(a[2], stored.description)
                                    ELSE key_from_recoverykey(a[2], stored.description)
  IN  [found |-> found, way |-> a[1],
       right |-> IF a[1] = "password" THEN a[2] = made.password
                 ELSE a[2] \in Right(key_to_recoverykey(made.key)),
       secrets |-> IF found = Throws THEN {}
                   ELSE {decrypt(stored.data, k, stored.name) : k \in found[2]}]
Attempts == {<<"password", p>> : p \in Passwords} \cup typed(key_to_recoverykey(made.key))
Unlock ==
  /\ subject = "secret" /\ phase = "made"
  /\ \E a \in Attempts : result' = unlocked(a)
  /\ phase' = "opened" /\ UNCHANGED <<subject, made, stored, damage>>
-----------------------------------------------------------------------------
(* Exports of room keys: a sequence of bytes, which the application writes  *)
(* as base64 between two lines.  Every element is a tuple with its kind.    *)
Byte(n)  == <<"byte", n>>
Number(b) == IF b[1] = "byte" THEN b[2] ELSE 0
Session(n) == <<"session", n>>
Plain(n) == <<<<"[">>>> \o [i \in 1 .. n |-> Session(i)] \o <<<<"]">>>>
Rounds == 100000
digest(key, data) == [i \in 1 .. DigestBytes |-> <<"digest", key, data, i>>]

encrypt_exported_sessions(n, pass) ==
  LET salt == [i \in 1 .. SaltBytes |-> Byte(i)]
      iv == [i \in 1 .. BlockBytes |-> Byte(100 + i)]
      rounds == uint32_to_uint8(Rounds)
      key == <<pass, salt, Rounds>>
      text == Plain(n)
      output == <<Byte(1)>> \o salt \o iv \o [i \in 1 .. 4 |-> Byte(rounds[i])]
                \o [i \in DOMAIN text |-> AES_CTR_256_Encrypt(text[i], key, <<iv, i>>)]
  IN  output \o digest(key, output)

\* Mutant: one byte of JSON more is asked for.
min_size_more == 1 + SaltBytes + BlockBytes + 4 + DigestBytes + 3
min_size == 1 + SaltBytes + BlockBytes + 4 + DigestBytes + 2

unpack_key_file(text) ==
  LET unpacked[i \in 0 .. Len(text)] ==
        IF i = 0 THEN <<>>
        ELSE IF text[i][1] \in {"header", "trailer", "newline"} THEN unpacked[i - 1]
        ELSE Append(unpacked[i - 1], text[i])
  IN  unpacked[Len(text)]
\* decode_base64 stops at the first character that is none of base64's.
base642bin(text) ==
  LET foreign == {i \in DOMAIN text : text[i][1] \in {"return", "raw"}}
  IN  SubSeq(text, 1, CHOOSE n \in 0 .. Len(text) : /\ \A i \in 1 .. n : i \notin foreign
                                                    /\ n < Len(text) => n + 1 \in foreign)

decrypt_exported_sessions(data, pass) ==
  LET b == base642bin(unpack_key_file(data))
      salt_end == 1 + SaltBytes
      iv_end == salt_end + BlockBytes
      json_end == Len(b) - DigestBytes
      salt == SubSeq(b, 2, salt_end)
      iv == SubSeq(b, salt_end + 1, iv_end)
      rounds == [i \in 1 .. 4 |-> Number(b[iv_end + i])]
      json == SubSeq(b, iv_end + 5, json_end)
      key == <<pass, salt, uint8_to_uint32(rounds)>>
  IN  IF Len(b) < min_size \/ b[1] # Byte(1) THEN Throws
      ELSE IF digest(key, SubSeq(b, 1, json_end)) # SubSeq(b, json_end + 1, Len(b)) THEN Throws
      ELSE [i \in DOMAIN json |-> AES_CTR_256_Decrypt(json[i], key, <<iv, i>>)]

\* What an application has to do with the bytes, here in two lines.
armor(b, newline) ==
  LET half == Len(b) \div 2
  IN  <<<<"header">>>> \o newline \o SubSeq(b, 1, half) \o newline
      \o SubSeq(b, half + 1, Len(b)) \o newline \o <<<<"trailer">>>>

exported(n, pass) == armor(encrypt_exported_sessions(n, pass), <<<<"newline">>>>)
ExportSessions ==
  /\ subject = "export" /\ phase = "new"
  /\ \E n \in 0 .. MaxSessions, pass \in Passwords :
       /\ made' = [sessions |-> n, password |-> pass]
       /\ stored' = exported(n, pass)
  /\ phase' = "made" /\ UNCHANGED <<subject, damage, result>>

ExportDamages(s) ==
  {<<"crlf">>, <<"raw">>} \cup {<<"drop", i>> : i \in DOMAIN s} \cup {<<"change", i>> : i \in {j \in DOMAIN s : s[j][1] \notin {"header", "trailer"}}}
damaged_export(s, d) ==
  CASE d[1] = "crlf"   -> armor(base642bin(unpack_key_file(s)), <<<<"return">>, <<"newline">>>>)
    [] d[1] = "raw"    -> [i \in DOMAIN s |-> <<"raw", s[i]>>]
    [] d[1] = "drop"   -> RemoveAt(s, d[2])
    [] d[1] = "change" -> [s EXCEPT ![d[2]] = Byte(99)]

imported(pass) == [right |-> pass = made.password, text |-> decrypt_exported_sessions(stored, pass)]
ImportSessions ==
  /\ subject = "export" /\ phase = "made"
  /\ \E pass \in Passwords : result' = imported(pass)
  /\ phase' = "opened" /\ UNCHANGED <<subject, made, stored, damage>>
-----------------------------------------------------------------------------
(* Attachments.                                                             *)
Attachment == <<"attachment">>
encrypt_file(plain) ==
  LET c == AES_CTR_256_Encrypt(plain, "key", "iv")
  IN  [ciphertext |-> c,
       info |-> [v |-> "v2", kty |-> "oct", alg |-> "A256CTR", k |-> "key", iv |-> "iv",
                 sha256 |-> sha256(c)]]
decrypt_file(c, info) ==
  IF \/ info.v # "v2" \/ info.kty # "oct" \/ info.alg # "A256CTR"
     \/ sha256(c) # info.sha256
  THEN Throws ELSE AES_CTR_256_Decrypt(c, info.k, info.iv)

EncryptFile ==
  /\ subject = "file" /\ phase = "new"
  /\ made' = Attachment /\ stored' = encrypt_file(Attachment)
  /\ phase' = "made" /\ UNCHANGED <<subject, damage, result>>
FileDamages == {<<w>> : w \in {"v", "kty", "alg", "k", "iv", "sha256", "ciphertext"}}
damaged_file(s, d) ==
  IF d[1] = "ciphertext" THEN [s EXCEPT !.ciphertext = Changed(@)]
  ELSE IF d[1] = "sha256" THEN [s EXCEPT !.info.sha256 = Changed(@)]
  ELSE [s EXCEPT !.info[d[1]] = "other"]
DecryptFile ==
  /\ subject = "file" /\ phase = "made"
  /\ result' = decrypt_file(stored.ciphertext, stored.info)
  /\ phase' = "opened" /\ UNCHANGED <<subject, made, stored, damage>>
-----------------------------------------------------------------------------
(* Room keys in the online backup, encrypted to the key of create_online_key_backup. *)
(* The mac is the one libolm's pk encryption makes and checks: all that is assumed  *)
(* of it is that it tells one shared secret from another.  Whether it covers the    *)
(* ciphertext is libolm's affair, and the code here adds nothing of its own.        *)
CURVE25519_public_key_from_private(key) == <<"public", key>>
pk_mac(shared) == <<"pk_mac", shared>>
CURVE25519_AES_SHA2_Encrypt(plain, public) ==
  LET shared == <<public, "ephemeral">>
      c == AES_CTR_256_Encrypt(plain, shared, "iv")
  IN  [ephemeral |-> "ephemeral", ciphertext |-> c, mac |-> pk_mac(shared)]
CURVE25519_AES_SHA2_Decrypt(c, key, ephemeral, mac) ==
  LET shared == <<CURVE25519_public_key_from_private(key), ephemeral>>
  IN  IF mac # pk_mac(shared) THEN Throws ELSE AES_CTR_256_Decrypt(c, shared, "iv")
encrypt_session(data, public) == CURVE25519_AES_SHA2_Encrypt(data, public)
\* Garbage stands for whatever the parse makes of it, an exception or a room key.
decrypt_session(data, key) ==
  CURVE25519_AES_SHA2_Decrypt(data.ciphertext, key, data.ephemeral, data.mac)

BackUp ==
  /\ subject = "backup" /\ phase = "new"
  /\ \E key \in Keys :
       /\ made' = key
       /\ stored' = encrypt_session(Session(1), CURVE25519_public_key_from_private(key))
  /\ phase' = "made" /\ UNCHANGED <<subject, damage, result>>
BackupDamages == {<<w>> : w \in {"ephemeral", "ciphertext", "mac"}}
damaged_backup(s, d) ==
  [s EXCEPT ![d[1]] = IF d[1] = "ephemeral" THEN "other" ELSE Changed(@)]
restored(key) == [right |-> key = made, session |-> decrypt_session(stored, key)]
RestoreBackup ==
  /\ subject = "backup" /\ phase = "made"
  /\ \E key \in Keys : result' = restored(key)
  /\ phase' = "opened" /\ UNCHANGED <<subject, made, stored, damage>>
-----------------------------------------------------------------------------
(* Signed keys: of a device, for cross-signing, and of a key backup.        *)
Document(kind, key) ==
  [kind |-> kind, keys |-> {key}, extra |-> {}, unsigned |-> {}, signatures |-> {}]
\* Both signing and verifying leave out unsigned and signatures.
\* Mutant: what is signed includes the signatures there are.
canonical_signed(doc) ==
  [kind |-> doc.kind, keys |-> doc.keys, extra |-> doc.extra, signatures |-> doc.signatures]
canonical(doc) == [kind |-> doc.kind, keys |-> doc.keys, extra |-> doc.extra]
sign(key, doc) == [by |-> key, signature |-> <<key, canonical(doc)>>]
signed(doc, by) == [doc EXCEPT !.signatures = @ \cup {sign(key, doc) : key \in by}]

create_crosssigning_keys ==
  {signed(Document("master", "master"), {"master", "device"}),
   signed(Document("user_signing", "user_signing"), {"user_signing", "master"}),
   signed(Document("self_signing", "self_signing"), {"self_signing", "master"})}
create_upload_keys_request == signed(Document("device", "device"), {"device"})
create_online_key_backup == signed(Document("backup", "public_key"), {"master"})
\* A device of another client, which signs a field this library does not know.
foreign_device == signed([Document("device", "device") EXCEPT !.extra = {"field"}], {"device"})

Documents == create_crosssigning_keys
             \cup {create_upload_keys_request, create_online_key_backup, foreign_device}

ed25519_verify_signature(key, doc, signature) ==
  signature # Nothing /\ signature = <<key, canonical(doc)>>

\* From a DeviceKeys, which has lost the fields it does not know; at() throws
\* what nobody catches when there is no such key or signature.
verify_identity_signature(doc) ==
  LET known == [doc EXCEPT !.extra = {}]
      by == {s \in doc.signatures : s.by = "device"}
  IN  IF "device" \notin doc.keys \/ by = {} THEN Throws
      ELSE <<"verified", \A s \in by : ed25519_verify_signature("device", known, s.signature)>>

Publish ==
  /\ subject = "signature" /\ phase = "new"
  /\ \E doc \in Documents : made' = doc /\ stored' = doc
  /\ phase' = "made" /\ UNCHANGED <<subject, damage, result>>
SignatureDamages == {<<w>> : w \in {"unsigned", "cosigned", "keys", "kind", "stripped", "signature"}}
damaged_document(doc, d) ==
  CASE d[1] = "unsigned"      -> [doc EXCEPT !.unsigned = {"display_name"}]
    [] d[1] = "cosigned"      -> signed(doc, {"other"})
    [] d[1] = "keys"          -> [doc EXCEPT !.keys = @ \cup {"other"}]
    [] d[1] = "kind"          -> [doc EXCEPT !.kind = "other"]
    [] d[1] = "stripped"      -> [doc EXCEPT !.signatures = {}]
    [] d[1] = "signature"     -> [doc EXCEPT !.signatures = {[s EXCEPT !.signature = Nothing] : s \in @}]
checked(doc) ==
  [identity |-> verify_identity_signature(doc),
   bad |-> {s \in doc.signatures : ~ed25519_verify_signature(s.by, doc, s.signature)}]
Verify ==
  /\ subject = "signature" /\ phase = "made"
  /\ result' = checked(stored)
  /\ phase' = "opened" /\ UNCHANGED <<subject, made, stored, damage>>
-----------------------------------------------------------------------------
(* Bytes as text, and as the codes of a verification.                       *)
Codecs == {"bin2base64", "bin2base64_unpadded", "bin2base58"}
encoded(codec, bytes) ==
  IF codec = "bin2base58" THEN encode_base58(bytes) ELSE encode_base64(codec = "bin2base64", bytes)
Encode ==
  /\ subject = "text" /\ phase = "new"
  /\ \E codec \in Codecs, bytes \in Samples :
       made' = [codec |-> codec, bytes |-> bytes] /\ stored' = encoded(codec, bytes)
  /\ phase' = "made" /\ UNCHANGED <<subject, damage, result>>
Decode ==
  /\ subject = "text" /\ phase = "made"
  /\ result' = IF made.codec = "bin2base58" THEN decode_base58(stored) ELSE decode_base64(stored)
  /\ phase' = "opened" /\ UNCHANGED <<subject, made, stored, damage>>
Show ==
  /\ subject = "code" /\ phase = "new"
  /\ \E bytes \in CodeSamples :
       /\ made' = bytes
       /\ result' = [decimal |-> generate_bytes_decimal(bytes), emoji |-> generate_bytes_emoji(bytes)]
  /\ phase' = "opened" /\ UNCHANGED <<subject, stored, damage>>
-----------------------------------------------------------------------------
Damages ==
  CASE subject = "secret"    -> SecretDamages
    [] subject = "export"    -> ExportDamages(stored)
    [] subject = "file"      -> FileDamages
    [] subject = "backup"    -> BackupDamages
    [] subject = "signature" -> SignatureDamages
    [] OTHER                 -> {}
damaged(d) ==
  CASE subject = "secret"    -> damaged_secret(stored, d)
    [] subject = "export"    -> damaged_export(stored, d)
    [] subject = "file"      -> damaged_file(stored, d)
    [] subject = "backup"    -> damaged_backup(stored, d)
    [] subject = "signature" -> damaged_document(stored, d)
\* One thing changes on the server, on the disk or on the way.
Damage ==
  /\ phase = "made" /\ damage = Intact
  /\ \E d \in Damages : damage' = d /\ stored' = damaged(d)
  /\ UNCHANGED <<subject, phase, made, result>>

Init == /\ subject \in {"secret", "export", "file", "backup", "signature", "text", "code"}
        /\ phase = "new" /\ damage = Intact
        /\ made = Nothing /\ stored = Nothing /\ result = Nothing

Next == \/ StoreSecret \/ Unlock \/ ExportSessions \/ ImportSessions \/ EncryptFile \/ DecryptFile
        \/ BackUp \/ RestoreBackup
        \/ Publish \/ Verify \/ Encode \/ Decode \/ Show \/ Damage

Spec == Init /\ [][Next]_vars
-----------------------------------------------------------------------------
Opened(s) == subject = s /\ phase = "opened"

\* The secret storage opens for its passphrase and for its recovery key, in
\* groups or not, and for nothing else: key_from_passphrase and
\* key_from_recoverykey return the key that was made, or none, whatever was typed
\* and whatever became of the key's description.
KeyUnlocks ==
  Opened("secret") =>
    LET spared == IF result.way = "password"
                  THEN {"intact", "data.iv", "data.ciphertext", "data.mac", "name"}
                  ELSE {"intact", "data.iv", "data.ciphertext", "data.mac", "name", "salt",
                        "algorithm", "passphrase"}
    IN  /\ result.found # Throws => result.found[2] \subseteq {made.key}
        /\ result.right /\ damage[1] \in spared => result.found = <<"key", {made.key}>>

\* A secret or an attachment comes back as it was or is refused, by decrypt and
\* decrypt_file; only a change of the iv, or of an attachment's key, which no mac
\* and no hash covers, gives something else.  A room key in the backup comes back
\* with the key of the backup, and decrypt_session throws with another key, another
\* ephemeral key or another mac; of a changed ciphertext it promises nothing.
SecretsKept ==
  /\ Opened("secret") =>
       /\ damage = Intact => result.secrets \subseteq {Secret}
       /\ damage # <<"data.iv">> => result.secrets \subseteq {Secret, Nothing}
  /\ Opened("file") =>
       /\ damage = Intact => result = Attachment
       /\ damage \notin {<<"iv">>, <<"k">>} => result \in {Attachment, Throws}
  /\ Opened("backup") =>
       /\ result.right /\ damage = Intact => result.session = Session(1)
       /\ ~result.right \/ damage \in {<<"ephemeral">>, <<"mac">>} => result.session = Throws

\* An export of room keys is read completely or not at all: with the password,
\* from the bytes as they were exported between the two lines, also when there
\* was no room key to export.
ExportKept ==
  Opened("export") =>
    /\ result.text \in {Plain(made.sessions), Throws}
    /\ result.right /\ damage = Intact => result.text = Plain(made.sessions)
    /\ ~result.right \/ damage[1] \in {"crlf", "raw"} => result.text = Throws

\* What the library signed verifies when it comes back from the server, also with
\* unsigned data and signatures of others added, and not after any other change.
\* Read into a DeviceKeys, a device whose signature covers a field this library
\* does not know does not verify.  Without a signature verify_identity_signature
\* throws what it does not catch: a caller gets neither true nor false.
SignaturesVerify ==
  Opened("signature") =>
    /\ damage[1] \in {"intact", "unsigned", "cosigned"} =>
         /\ result.bad = {}
         /\ made.kind = "device" => result.identity = <<"verified", made.extra = {}>>
    /\ damage[1] \in {"keys", "kind", "signature"} =>
         /\ result.bad = stored.signatures
         /\ result.identity # <<"verified", TRUE>>
    /\ damage[1] = "stripped" => result.identity = Throws

\* Bytes written as text come back, and the text and the codes are what the
\* encodings stand for: the bits cut into sixes or thirteens, or the number in
\* base 58.  Only a base58 text of zero bytes alone has one zero more.
CodesAgree ==
  /\ subject = "text" /\ phase # "new" =>
       IF made.codec # "bin2base58"
       THEN SelectSeq(stored, LAMBDA c : c # Pad) = Base64Of(made.bytes)
       ELSE IsBase58Of(stored, made.bytes) \/ ToSet(made.bytes) = {0}
  /\ Opened("text") =>
       \/ result = made.bytes
       \/ made.codec = "bin2base58" /\ ToSet(made.bytes) = {0} /\ result = Append(made.bytes, 0)
  /\ Opened("code") => result = [decimal |-> DecimalOf(made), emoji |-> EmojiOf(made)]
-----------------------------------------------------------------------------
\* What is there comes from what was made, by at most one change, and what was
\* opened from what is there.
Kept(fresh, changed(_, _), changes) ==
  \/ damage = Intact /\ stored = fresh
  \/ damage \in changes /\ stored = changed(fresh, damage)

SecretInv ==
  subject = "secret" /\ phase # "new" =>
    /\ \E password \in Passwords \cup {NoPassword}, random \in Keys :
         LET setup == create_ssss_key(password, random)
         IN  /\ made = [key |-> setup.key, password |-> password]
             /\ Kept(uploaded(setup), damaged_secret, SecretDamages)
    /\ phase = "opened" => \E a \in Attempts : result = unlocked(a)
ExportInv ==
  subject = "export" /\ phase # "new" =>
    /\ \E n \in 0 .. MaxSessions, pass \in Passwords :
         /\ made = [sessions |-> n, password |-> pass]
         /\ Kept(exported(n, pass), damaged_export, ExportDamages(exported(n, pass)))
    /\ phase = "opened" => \E pass \in Passwords : result = imported(pass)
FileInv ==
  subject = "file" /\ phase # "new" =>
    /\ Kept(encrypt_file(Attachment), damaged_file, FileDamages)
    /\ phase = "opened" => result = decrypt_file(stored.ciphertext, stored.info)
BackupInv ==
  subject = "backup" /\ phase # "new" =>
    /\ \E key \in Keys :
         /\ made = key
         /\ Kept(encrypt_session(Session(1), CURVE25519_public_key_from_private(key)),
                 damaged_backup, BackupDamages)
    /\ phase = "opened" => \E key \in Keys : result = restored(key)
SignatureInv ==
  subject = "signature" /\ phase # "new" =>
    /\ made \in Documents /\ Kept(made, damaged_document, SignatureDamages)
    /\ phase = "opened" => result = checked(stored)
SecretsInv ==
  /\ phase = "new" => damage = Intact
  /\ SecretInv /\ ExportInv /\ FileInv /\ BackupInv /\ SignatureInv
=============================================================================
