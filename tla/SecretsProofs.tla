--------------------------- MODULE SecretsProofs ---------------------------
(***************************************************************************)
(* What is kept outside the process opens for its key and for nothing else *)
(* and comes back as it was, or is refused.                                *)
(*                                                                         *)
(* The invariant SecretsInv is where things come from: what is stored was  *)
(* made by the library and changed at one place at most, and the result    *)
(* was computed from that.  It is inductive.  The rest are facts about the *)
(* operations, one change at a time.                                       *)
(*                                                                         *)
(* An export is the longest of them.  Its text is read place by place, by  *)
(* induction over the places (UpTo of Extrema): a line end is dropped, a   *)
(* foreign character stops the reading, and all that is left are parts of  *)
(* the export.  So a digest that is accepted is the one made with the      *)
(* password over all the bytes before it, and these are then unchanged.    *)
(***************************************************************************)
EXTENDS Secrets, Extrema, SequenceTheorems, TLAPS

\* Where things come from holds at first: nothing was made, nothing was changed.
LEMMA NothingMade == Init => SecretsInv
  BY DEF Init, SecretsInv, SecretInv, ExportInv, FileInv, BackupInv, SignatureInv

\* Storing and opening a secret (create_ssss_key and encrypt, key_from_passphrase
\* or key_from_recoverykey and decrypt) keeps where it comes from.
LEMMA SecretStep ==
    ASSUME SecretsInv, StoreSecret \/ Unlock
    PROVE  SecretInv'
  <1> USE DEF SecretsInv
  <1>1. CASE StoreSecret
    BY <1>1 DEF StoreSecret, SecretInv, Kept
  <1>2. CASE Unlock
    <2>1. /\ UNCHANGED <<subject, made, stored, damage>>
          /\ subject = "secret" /\ phase = "made" /\ phase' = "opened"
      BY <1>2 DEF Unlock
    <2>2. PICK a \in Attempts : result' = unlocked(a)
      BY <1>2 DEF Unlock
    <2>3. a \in Attempts' /\ result' = unlocked(a)'
      BY <2>1, <2>2 DEF Attempts, unlocked
    <2>4. PICK password \in Passwords \cup {NoPassword}, random \in Keys :
            /\ made = [key |-> create_ssss_key(password, random).key, password |-> password]
            /\ Kept(uploaded(create_ssss_key(password, random)), damaged_secret, SecretDamages)
      BY <2>1 DEF SecretInv
    <2>5. Kept(uploaded(create_ssss_key(password, random)), damaged_secret, SecretDamages)'
      BY <2>1, <2>4 DEF Kept
    <2> QED
      BY <2>1, <2>3, <2>4, <2>5 DEF SecretInv
  <1> QED
    BY <1>1, <1>2

\* The same for an export: encrypt_exported_sessions and decrypt_exported_sessions.
LEMMA ExportStep ==
    ASSUME SecretsInv, ExportSessions \/ ImportSessions
    PROVE  ExportInv'
  <1> USE DEF SecretsInv
  <1>1. CASE ExportSessions
    BY <1>1 DEF ExportSessions, ExportInv, Kept
  <1>2. CASE ImportSessions
    <2>1. /\ UNCHANGED <<subject, made, stored, damage>>
          /\ subject = "export" /\ phase = "made" /\ phase' = "opened"
      BY <1>2 DEF ImportSessions
    <2>2. PICK p \in Passwords : result' = imported(p)
      BY <1>2 DEF ImportSessions
    <2>3. result' = imported(p)'
      BY <2>1, <2>2 DEF imported
    <2>4. PICK n \in 0 .. MaxSessions, pass \in Passwords :
            /\ made = [sessions |-> n, password |-> pass]
            /\ Kept(exported(n, pass), damaged_export, ExportDamages(exported(n, pass)))
      BY <2>1 DEF ExportInv
    <2>5. Kept(exported(n, pass), damaged_export, ExportDamages(exported(n, pass)))'
      BY <2>1, <2>4 DEF Kept
    <2> QED
      BY <2>1, <2>3, <2>4, <2>5 DEF ExportInv
  <1> QED
    BY <1>1, <1>2

\* The same for an attachment: encrypt_file and decrypt_file.
LEMMA FileStep ==
    ASSUME SecretsInv, EncryptFile \/ DecryptFile
    PROVE  FileInv'
  BY DEF SecretsInv, EncryptFile, DecryptFile, FileInv, Kept

\* The same for a room key in the backup: encrypt_session and decrypt_session.
LEMMA BackupStep ==
    ASSUME SecretsInv, BackUp \/ RestoreBackup
    PROVE  BackupInv'
  BY DEF SecretsInv, BackUp, RestoreBackup, BackupInv, Kept, restored

\* The same for a document that was signed, uploaded and is verified.
LEMMA SignatureStep ==
    ASSUME SecretsInv, Publish \/ Verify
    PROVE  SignatureInv'
  BY DEF SecretsInv, Publish, Verify, SignatureInv, Kept

\* A change on the way happens to what was made and before it is opened.
LEMMA DamageStep ==
    ASSUME SecretsInv, Damage
    PROVE  SecretsInv'
  <1> USE DEF SecretsInv
  <1>1. /\ phase = "made" /\ damage = Intact
        /\ UNCHANGED <<subject, phase, made, result>>
    BY DEF Damage
  <1>2. PICK d \in Damages : damage' = d /\ stored' = damaged(d)
    BY DEF Damage
  <1>3. (phase = "new" => damage = Intact)'
    BY <1>1
  <1>4. SecretInv'
    <2>1. SUFFICES ASSUME subject = "secret"
                   PROVE  SecretInv'
      BY <1>1 DEF SecretInv
    <2>2. damage' \in SecretDamages /\ stored' = damaged_secret(stored, damage')
      BY <1>2, <2>1 DEF Damages, damaged
    <2>3. PICK password \in Passwords \cup {NoPassword}, random \in Keys :
            /\ made = [key |-> create_ssss_key(password, random).key, password |-> password]
            /\ Kept(uploaded(create_ssss_key(password, random)), damaged_secret, SecretDamages)
      BY <1>1, <2>1 DEF SecretInv
    <2>4. stored = uploaded(create_ssss_key(password, random))
      <3>1. Intact \notin SecretDamages
        BY DEF Intact, SecretDamages
      <3> QED
        BY <1>1, <2>3, <3>1 DEF Kept
    <2>5. Kept(uploaded(create_ssss_key(password, random)), damaged_secret, SecretDamages)'
      BY <2>2, <2>4 DEF Kept
    <2> QED
      BY <1>1, <2>3, <2>5 DEF SecretInv
  <1>5. FileInv'
    <2>1. SUFFICES ASSUME subject = "file"
                   PROVE  FileInv'
      BY <1>1 DEF FileInv
    <2>2. damage' \in FileDamages /\ stored' = damaged_file(stored, damage')
      BY <1>2, <2>1 DEF Damages, damaged
    <2>3. Intact \notin FileDamages
      BY DEF Intact, FileDamages
    <2>4. stored = encrypt_file(Attachment)
      BY <1>1, <2>1, <2>3 DEF FileInv, Kept
    <2> QED
      BY <1>1, <2>2, <2>4 DEF FileInv, Kept
  <1>6. BackupInv'
    <2>1. SUFFICES ASSUME subject = "backup"
                   PROVE  BackupInv'
      BY <1>1 DEF BackupInv
    <2>2. damage' \in BackupDamages /\ stored' = damaged_backup(stored, damage')
      BY <1>2, <2>1 DEF Damages, damaged
    <2>3. Intact \notin BackupDamages
      BY DEF Intact, BackupDamages
    <2>4. PICK key \in Keys :
            /\ made = key
            /\ stored = encrypt_session(Session(1), CURVE25519_public_key_from_private(key))
      BY <1>1, <2>1, <2>3 DEF BackupInv, Kept
    <2> QED
      BY <1>1, <2>2, <2>4 DEF BackupInv, Kept
  <1>7. SignatureInv'
    <2>1. SUFFICES ASSUME subject = "signature"
                   PROVE  SignatureInv'
      BY <1>1 DEF SignatureInv
    <2>2. damage' \in SignatureDamages /\ stored' = damaged_document(stored, damage')
      BY <1>2, <2>1 DEF Damages, damaged
    <2>3. Intact \notin SignatureDamages
      BY DEF Intact, SignatureDamages
    <2>4. made \in Documents /\ stored = made
      BY <1>1, <2>1, <2>3 DEF SignatureInv, Kept
    <2> QED
      BY <1>1, <2>2, <2>4 DEF SignatureInv, Kept
  <1>8. ExportInv'
    <2>1. SUFFICES ASSUME subject = "export"
                   PROVE  ExportInv'
      BY <1>1 DEF ExportInv
    <2>2. damage' \in ExportDamages(stored) /\ stored' = damaged_export(stored, damage')
      BY <1>2, <2>1 DEF Damages, damaged
    <2>3. PICK n \in 0 .. MaxSessions, pass \in Passwords :
            /\ made = [sessions |-> n, password |-> pass]
            /\ Kept(exported(n, pass), damaged_export, ExportDamages(exported(n, pass)))
      BY <1>1, <2>1 DEF ExportInv
    <2>4. stored = exported(n, pass)
      <3>1. Intact \notin ExportDamages(exported(n, pass))
        BY DEF Intact, ExportDamages
      <3> QED
        BY <1>1, <2>3, <3>1 DEF Kept
    <2>5. Kept(exported(n, pass), damaged_export, ExportDamages(exported(n, pass)))'
      BY <2>2, <2>4 DEF Kept
    <2> QED
      BY <1>1, <2>3, <2>5 DEF ExportInv
  <1> QED
    BY <1>3, <1>4, <1>5, <1>6, <1>7, <1>8

\* Every step keeps where things come from.
LEMMA ComesFrom == SecretsInv /\ [Next]_vars => SecretsInv'
  <1> SUFFICES ASSUME SecretsInv, [Next]_vars
               PROVE  SecretsInv'
    OBVIOUS
  <1> USE DEF SecretsInv
  <1>1. CASE StoreSecret \/ Unlock
    <2>1. SecretInv'
      BY <1>1, SecretStep
    <2>2. subject' = "secret" /\ phase' # "new"
      BY <1>1 DEF StoreSecret, Unlock
    <2> QED
      BY <2>1, <2>2 DEF ExportInv, FileInv, BackupInv, SignatureInv
  <1>2. CASE EncryptFile \/ DecryptFile
    <2>1. FileInv'
      BY <1>2, FileStep
    <2>2. subject' = "file" /\ phase' # "new"
      BY <1>2 DEF EncryptFile, DecryptFile
    <2> QED
      BY <2>1, <2>2 DEF SecretInv, ExportInv, BackupInv, SignatureInv
  <1>3. CASE BackUp \/ RestoreBackup
    <2>1. BackupInv'
      BY <1>3, BackupStep
    <2>2. subject' = "backup" /\ phase' # "new"
      BY <1>3 DEF BackUp, RestoreBackup
    <2> QED
      BY <2>1, <2>2 DEF SecretInv, ExportInv, FileInv, SignatureInv
  <1>4. CASE Publish \/ Verify
    <2>1. SignatureInv'
      BY <1>4, SignatureStep
    <2>2. subject' = "signature" /\ phase' # "new"
      BY <1>4 DEF Publish, Verify
    <2> QED
      BY <2>1, <2>2 DEF SecretInv, ExportInv, FileInv, BackupInv
  <1>5. CASE ExportSessions \/ ImportSessions
    <2>1. ExportInv'
      BY <1>5, ExportStep
    <2>2. subject' = "export" /\ phase' # "new"
      BY <1>5 DEF ExportSessions, ImportSessions
    <2> QED
      BY <2>1, <2>2 DEF SecretInv, FileInv, BackupInv, SignatureInv
  <1>6. CASE Encode \/ Decode \/ Show
    <2>1. subject' \in {"text", "code"} /\ phase' # "new"
      BY <1>6 DEF Encode, Decode, Show
    <2> QED
      BY <2>1 DEF SecretInv, ExportInv, FileInv, BackupInv, SignatureInv
  <1>7. CASE Damage
    BY <1>7, DamageStep
  <1>8. CASE UNCHANGED vars
    <2>1. UNCHANGED <<subject, phase, made, stored, damage, result>>
      BY <1>8 DEF vars
    <2>2. SecretInv'
      BY <2>1 DEF SecretInv, Kept, Attempts, unlocked
    <2>3. ExportInv'
      BY <2>1 DEF ExportInv, Kept, imported
    <2>4. FileInv' /\ BackupInv' /\ SignatureInv'
      BY <2>1 DEF FileInv, BackupInv, SignatureInv, Kept, restored
    <2> QED
      BY <2>1, <2>2, <2>3, <2>4
  <1> QED
    BY <1>1, <1>2, <1>3, <1>4, <1>5, <1>6, <1>7, <1>8 DEF Next

-----------------------------------------------------------------------------
\* The check of a key tells keys and ivs apart: the mac is a symbol of both.
LEMMA CheckTells ==
    ASSUME NEW k, NEW key, NEW iv, NEW other, key_check(k, iv) = key_check(key, other)
    PROVE  k = key /\ iv = other
  BY DEF key_check, HKDF_SHA256, HMAC_SHA256, AES_CTR_256_Encrypt

\* A mac that was changed is the mac of no key.
LEMMA CheckFails ==
    ASSUME NEW k, NEW key, NEW iv, NEW other
    PROVE  key_check(k, iv) # Changed(key_check(key, other))
  BY DEF key_check, HKDF_SHA256, HMAC_SHA256, AES_CTR_256_Encrypt, Changed

\* What a description may look like when the key is tried on it: the mac is the
\* key's or none's, and what is left of the passphrase is that of create_ssss_key,
\* unless it is the passphrase that was changed.
Describes(d, password, key, change) ==
  /\ \/ d.mac = key_check(key, "iv")
     \/ d.mac = Changed(key_check(key, "iv"))
  /\ change \notin {"iv", "mac"} => d.iv = "iv" /\ d.mac = key_check(key, "iv")
  /\ change \notin {"salt", "algorithm", "passphrase"} =>
       d.passphrase = IF password = NoPassword THEN {}
                      ELSE {[algorithm |-> "m.pbkdf2", salt |-> Salt]}

\* What create_ssss_key describes a key with.
LEMMA Described ==
    ASSUME NEW password, NEW random,
           Kept(uploaded(create_ssss_key(password, random)), damaged_secret, SecretDamages)
    PROVE  Describes(stored.description, password, create_ssss_key(password, random).key, damage[1])
  <1> DEFINE setup == create_ssss_key(password, random)
             mac == key_check(setup.key, "iv")
             passphrase == IF password = NoPassword THEN {}
                           ELSE {[algorithm |-> "m.pbkdf2", salt |-> Salt]}
             data == encrypt(Secret, setup.key, "name")
  <1>1. uploaded(setup) = [description |-> [passphrase |-> passphrase, iv |-> "iv", mac |-> mac],
                           name |-> "name", data |-> data]
    BY DEF uploaded, create_ssss_key
  <1> HIDE DEF setup, mac, passphrase, data
  <1>2. Describes(stored.description, password, setup.key, damage[1])
    <2>1. CASE damage = Intact /\ stored = uploaded(setup)
      BY <1>1, <2>1 DEF Describes, Intact, mac, passphrase
    <2>2. CASE damage \in SecretDamages /\ stored = damaged_secret(uploaded(setup), damage)
      <3>1. PICK w \in {"data.iv", "data.ciphertext", "data.mac", "name", "iv", "mac", "salt", "algorithm", "passphrase"} :
              damage = <<w>>
        BY <2>2 DEF SecretDamages
      <3>2. CASE w = "data.iv"
        <4>1. stored = [uploaded(setup) EXCEPT !.data.iv = "other"]
          BY <2>2, <3>1, <3>2 DEF damaged_secret
        <4>2. stored.description = uploaded(setup).description
          BY <1>1, <4>1
        <4> QED
          BY <3>1, <3>2, <1>1, <4>2 DEF Describes, mac, passphrase
      <3>3. CASE w = "data.ciphertext"
        <4>1. stored = [uploaded(setup) EXCEPT !.data.ciphertext = Changed(@)]
          BY <2>2, <3>1, <3>3 DEF damaged_secret
        <4>2. stored.description = uploaded(setup).description
          BY <1>1, <4>1
        <4> QED
          BY <3>1, <3>3, <1>1, <4>2 DEF Describes, mac, passphrase
      <3>4. CASE w = "data.mac"
        <4>1. stored = [uploaded(setup) EXCEPT !.data.mac = Changed(@)]
          BY <2>2, <3>1, <3>4 DEF damaged_secret
        <4>2. stored.description = uploaded(setup).description
          BY <1>1, <4>1
        <4> QED
          BY <3>1, <3>4, <1>1, <4>2 DEF Describes, mac, passphrase
      <3>5. CASE w = "name"
        <4>1. stored = [uploaded(setup) EXCEPT !.name = "other"]
          BY <2>2, <3>1, <3>5 DEF damaged_secret
        <4>2. stored.description = uploaded(setup).description
          BY <1>1, <4>1
        <4> QED
          BY <3>1, <3>5, <1>1, <4>2 DEF Describes, mac, passphrase
      <3>6. CASE w = "iv"
        <4>1. stored = [uploaded(setup) EXCEPT !.description.iv = "other"]
          BY <2>2, <3>1, <3>6 DEF damaged_secret
        <4>2. stored.description = [uploaded(setup).description EXCEPT !.iv = "other"]
          BY <1>1, <4>1
        <4>3. /\ stored.description.passphrase = passphrase
              /\ stored.description.mac = mac
          BY <1>1, <4>2
        <4> QED
          BY <3>1, <3>6, <4>3 DEF Describes, mac, passphrase
      <3>7. CASE w = "mac"
        <4>1. stored = [uploaded(setup) EXCEPT !.description.mac = Changed(@)]
          BY <2>2, <3>1, <3>7 DEF damaged_secret
        <4>2. stored.description = [passphrase |-> passphrase, iv |-> "iv", mac |-> Changed(mac)]
          BY <1>1, <4>1
        <4> QED
          BY <3>1, <3>7, <1>1, <4>2 DEF Describes, mac, passphrase
      <3>8. CASE w = "salt"
        <4>1. stored = [uploaded(setup) EXCEPT !.description.passphrase = {[p EXCEPT !.salt = @ + 1] : p \in @}]
          BY <2>2, <3>1, <3>8 DEF damaged_secret
        <4>2. stored.description.iv = "iv" /\ stored.description.mac = mac
          BY <1>1, <4>1
        <4> QED
          BY <3>1, <3>8, <4>2 DEF Describes, mac
      <3>9. CASE w = "algorithm"
        <4>1. stored = [uploaded(setup) EXCEPT !.description.passphrase = {[p EXCEPT !.algorithm = "other"] : p \in @}]
          BY <2>2, <3>1, <3>9 DEF damaged_secret
        <4>2. stored.description.iv = "iv" /\ stored.description.mac = mac
          BY <1>1, <4>1
        <4> QED
          BY <3>1, <3>9, <4>2 DEF Describes, mac
      <3>10. CASE w = "passphrase"
        <4>1. stored = [uploaded(setup) EXCEPT !.description.passphrase = {}]
          BY <2>2, <3>1, <3>10 DEF damaged_secret
        <4>2. stored.description.iv = "iv" /\ stored.description.mac = mac
          BY <1>1, <4>1
        <4> QED
          BY <3>1, <3>10, <4>2 DEF Describes, mac
      <3> QED
        BY <3>1, <3>2, <3>3, <3>4, <3>5, <3>6, <3>7, <3>8, <3>9, <3>10
    <2> QED
      BY <2>1, <2>2 DEF Kept, setup
  <1> QED
    BY <1>2 DEF setup

\* A key that passes the check is the one the description was made for.
LEMMA VerifiedIsKey ==
    ASSUME NEW d, NEW password, NEW key, NEW change, Describes(d, password, key, change), NEW k
    PROVE  verified(k, d) \subseteq {key}
  BY CheckTells, CheckFails DEF verified, Describes

\* It passes when neither the iv nor the mac was changed.
LEMMA KeyVerified ==
    ASSUME NEW d, NEW password, NEW key, NEW change, Describes(d, password, key, change),
           change \notin {"iv", "mac"}
    PROVE  verified(key, d) = {key}
  BY DEF verified, Describes

\* Neither way to the key returns another one.
LEMMA NoOtherKey ==
    ASSUME NEW d, NEW password, NEW key, NEW change, Describes(d, password, key, change), NEW x
    PROVE  /\ key_from_passphrase(x, d) # Throws => key_from_passphrase(x, d)[2] \subseteq {key}
           /\ key_from_recoverykey(x, d)[2] \subseteq {key}
  BY VerifiedIsKey DEF key_from_passphrase, key_from_recoverykey, Throws

\* The passphrase gives the key when the description still has what it needs.
LEMMA PassphraseOpens ==
    ASSUME NEW d, NEW password, NEW random, NEW change,
           Describes(d, password, create_ssss_key(password, random).key, change),
           password # NoPassword,
           change \notin {"iv", "mac", "salt", "algorithm", "passphrase"}
    PROVE  key_from_passphrase(password, d) = <<"key", {create_ssss_key(password, random).key}>>
  <1> DEFINE key == PBKDF2_HMAC_SHA_512(password, Salt)
  <1>1. create_ssss_key(password, random).key = key
    BY DEF create_ssss_key
  <1>2. d.passphrase = {[algorithm |-> "m.pbkdf2", salt |-> Salt]}
    BY DEF Describes
  <1>3. verified(key, d) = {key}
    BY <1>1, KeyVerified
  <1> HIDE DEF key
  <1>4. UNION {verified(PBKDF2_HMAC_SHA_512(password, p.salt), d) : p \in d.passphrase} = {key}
    BY <1>2, <1>3 DEF key
  <1> QED
    BY <1>1, <1>2, <1>4 DEF key_from_passphrase

\* The recovery key gives the key, in groups or not, also when the passphrase is lost.
LEMMA RecoveryKeyOpens ==
    ASSUME NEW key \in Keys \cup {PBKDF2_HMAC_SHA_512(p, Salt) : p \in Passwords},
           NEW d, NEW password, NEW change, Describes(d, password, key, change),
           change \notin {"iv", "mac"},
           NEW text \in Right(key_to_recoverykey(key))
    PROVE  key_from_recoverykey(text, d) = <<"key", {key}>>
  <1>1. key_in(text) = {key}
    BY RecoveryAssumption
  <1>2. verified(key, d) = {key}
    BY KeyVerified
  <1> QED
    BY <1>1, <1>2 DEF key_from_recoverykey

\* What is typed for a recovery key is not tried as a passphrase.
LEMMA TypedIsNoPassword ==
    ASSUME NEW text, NEW a \in typed(text)
    PROVE  a[1] # "password"
  BY DEF typed

\* The storage opens for its passphrase and its recovery key and for nothing else,
\* wherever things come from.
LEMMA OpensForKey == SecretsInv => KeyUnlocks
  <1> SUFFICES ASSUME SecretsInv, Opened("secret")
               PROVE  KeyUnlocks
    BY DEF KeyUnlocks
  <1>1. subject = "secret" /\ phase = "opened"
    BY DEF Opened
  <1>2. PICK password \in Passwords \cup {NoPassword}, random \in Keys :
          /\ made = [key |-> create_ssss_key(password, random).key, password |-> password]
          /\ Kept(uploaded(create_ssss_key(password, random)), damaged_secret, SecretDamages)
    BY <1>1 DEF SecretsInv, SecretInv
  <1>3. PICK a \in Attempts : result = unlocked(a)
    BY <1>1 DEF SecretsInv, SecretInv
  <1> DEFINE key == create_ssss_key(password, random).key
             d == stored.description
  <1>4. Describes(d, password, key, damage[1])
    BY <1>2, Described
  <1>5. made.key = key /\ made.password = password
    BY <1>2
  <1>6. /\ result.way = a[1]
        /\ result.found = IF a[1] = "password" THEN key_from_passphrase(a[2], d)
                                               ELSE key_from_recoverykey(a[2], d)
        /\ result.right = IF a[1] = "password" THEN a[2] = made.password
                          ELSE a[2] \in Right(key_to_recoverykey(made.key))
    BY <1>3 DEF unlocked
  <1> HIDE DEF key, d
  <1>7. result.found # Throws => result.found[2] \subseteq {made.key}
    BY <1>4, <1>5, <1>6, NoOtherKey
  <1>8. ASSUME result.right, a[1] = "password",
               damage[1] \notin {"iv", "mac", "salt", "algorithm", "passphrase"}
        PROVE  result.found = <<"key", {made.key}>>
    <2>1. a[2] \in Passwords
      <3>1. a \notin typed(key_to_recoverykey(made.key))
        BY <1>8, TypedIsNoPassword
      <3> QED
        BY <1>3, <3>1 DEF Attempts
    <2>2. password = a[2] /\ password # NoPassword
      BY <1>5, <1>6, <1>8, <2>1, PasswordsAssumption
    <2>3. result.found = key_from_passphrase(password, d)
      BY <1>6, <1>8, <2>2
    <2>4. key_from_passphrase(password, d) = <<"key", {key}>>
      <3>1. Describes(d, password, create_ssss_key(password, random).key, damage[1])
        BY <1>4 DEF key
      <3>2. key_from_passphrase(password, d) = <<"key", {create_ssss_key(password, random).key}>>
        <4>1. password # NoPassword /\ damage[1] \notin {"iv", "mac", "salt", "algorithm", "passphrase"}
          BY <1>8, <2>2
        <4> QED
          BY <3>1, <4>1, PassphraseOpens
      <3> QED
        BY <3>2 DEF key
    <2> QED
      BY <1>5, <2>3, <2>4
  <1>9. ASSUME result.right, a[1] # "password", damage[1] \notin {"iv", "mac"}
        PROVE  result.found = <<"key", {made.key}>>
    <2>1. PICK text \in Right(key_to_recoverykey(key)) : text = a[2]
      BY <1>5, <1>6, <1>9
    <2>2. result.found = key_from_recoverykey(text, d)
      BY <1>6, <1>9, <2>1
    <2>3. damage[1] \notin {"iv", "mac"}
      BY <1>9
    <2>4. key \in Keys \cup {PBKDF2_HMAC_SHA_512(p, Salt) : p \in Passwords}
      BY DEF key, create_ssss_key
    <2>5. key_from_recoverykey(text, d) = <<"key", {key}>>
      BY <1>4, <2>3, <2>4, RecoveryKeyOpens
    <2> QED
      BY <1>5, <2>2, <2>5
  <1> QED
    BY <1>6, <1>7, <1>8, <1>9 DEF KeyUnlocks
-----------------------------------------------------------------------------
\* What the key decrypts: the mac is checked over the ciphertext, with keys that are
\* derived from the name, and covers all but the iv.
LEMMA SecretReturns ==
    ASSUME NEW password, NEW random,
           Kept(uploaded(create_ssss_key(password, random)), damaged_secret, SecretDamages)
    PROVE  LET plain == decrypt(stored.data, create_ssss_key(password, random).key, stored.name)
           IN  /\ damage = Intact => plain = Secret
               /\ damage # <<"data.iv">> => plain \in {Secret, Nothing}
  <1> DEFINE setup == create_ssss_key(password, random)
             plain == decrypt(stored.data, setup.key, stored.name)
             aes == HKDF_SHA256(setup.key, "name").aes
             mac == HKDF_SHA256(setup.key, "name").mac
             c == AES_CTR_256_Encrypt(Secret, aes, "iv")
             description == setup.description
  <1> SUFFICES /\ damage = Intact => plain = Secret
               /\ damage # <<"data.iv">> => plain \in {Secret, Nothing}
    OBVIOUS
  <1>1. uploaded(setup) =
          [description |-> description, name |-> "name",
           data |-> [iv |-> "iv", ciphertext |-> c, mac |-> HMAC_SHA256(mac, c)]]
    BY DEF uploaded, encrypt
  <1>2. c[1] = "ciphertext" /\ c[2] = aes /\ c[3] = "iv" /\ c[4] = Secret
    BY DEF AES_CTR_256_Encrypt
  <1>3. Changed(c) # c
    BY DEF Changed, AES_CTR_256_Encrypt
  <1>4. \A x : HMAC_SHA256(mac, x) # Changed(HMAC_SHA256(mac, c))
    BY DEF Changed, HMAC_SHA256
  <1>5. \A x, y : HMAC_SHA256(mac, x) = HMAC_SHA256(mac, y) => x = y
    BY DEF HMAC_SHA256
  <1>6. \A x : HMAC_SHA256(HKDF_SHA256(setup.key, "other").mac, x) # HMAC_SHA256(mac, c)
    BY DEF HMAC_SHA256, HKDF_SHA256
  <1>7. ASSUME stored.name = "name", stored.data = [iv |-> "iv", ciphertext |-> c, mac |-> HMAC_SHA256(mac, c)]
        PROVE  plain = Secret
    BY <1>2, <1>7 DEF decrypt, AES_CTR_256_Decrypt
  <1>8. ASSUME HMAC_SHA256(HKDF_SHA256(setup.key, stored.name).mac, stored.data.ciphertext) # stored.data.mac
        PROVE  plain = Nothing
    BY <1>8 DEF decrypt
  <1>9. CASE damage = Intact /\ stored = uploaded(setup)
    BY <1>1, <1>7, <1>9
  <1>10. CASE damage \in SecretDamages /\ stored = damaged_secret(uploaded(setup), damage)
    <2> HIDE DEF setup, aes, mac, c, description, plain
    <2>1. PICK w \in {"data.iv", "data.ciphertext", "data.mac", "name", "iv", "mac", "salt", "algorithm", "passphrase"} :
            damage = <<w>>
      BY <1>10 DEF SecretDamages
    <2>2. damage # Intact
      BY <2>1 DEF Intact
    <2>3. CASE w = "data.iv"
      BY <2>1, <2>2, <2>3
    <2>4. CASE w = "data.ciphertext"
      <3>1. stored = [uploaded(setup) EXCEPT !.data.ciphertext = Changed(@)]
        BY <1>10, <2>1, <2>4 DEF damaged_secret
      <3>2. /\ stored.name = "name" /\ stored.data.mac = HMAC_SHA256(mac, c)
            /\ stored.data.ciphertext = Changed(c)
        BY <1>1, <3>1
      <3>3. HMAC_SHA256(HKDF_SHA256(setup.key, stored.name).mac, stored.data.ciphertext) # stored.data.mac
        BY <1>3, <1>5, <3>2 DEF mac
      <3>4. plain = Nothing
        BY <1>8, <3>3
      <3> QED
        BY <2>2, <3>4
    <2>5. CASE w = "data.mac"
      <3>1. stored = [uploaded(setup) EXCEPT !.data.mac = Changed(@)]
        BY <1>10, <2>1, <2>5 DEF damaged_secret
      <3>2. stored.name = "name" /\ stored.data.mac = Changed(HMAC_SHA256(mac, c))
        BY <1>1, <3>1
      <3>3. HMAC_SHA256(HKDF_SHA256(setup.key, stored.name).mac, stored.data.ciphertext) # stored.data.mac
        BY <1>4, <3>2 DEF mac
      <3>4. plain = Nothing
        BY <1>8, <3>3
      <3> QED
        BY <2>2, <3>4
    <2>6. CASE w = "name"
      <3>1. stored = [uploaded(setup) EXCEPT !.name = "other"]
        BY <1>10, <2>1, <2>6 DEF damaged_secret
      <3>2. stored.name = "other" /\ stored.data.mac = HMAC_SHA256(mac, c)
        BY <1>1, <3>1
      <3>3. HMAC_SHA256(HKDF_SHA256(setup.key, stored.name).mac, stored.data.ciphertext) # stored.data.mac
        BY <1>6, <3>2
      <3>4. plain = Nothing
        BY <1>8, <3>3
      <3> QED
        BY <2>2, <3>4
    <2>7. CASE w \in {"iv", "mac", "salt", "algorithm", "passphrase"}
      <3>1. stored.name = uploaded(setup).name /\ stored.data = uploaded(setup).data
        BY <1>1, <1>10, <2>1, <2>7 DEF damaged_secret
      <3>2. plain = Secret
        BY <1>1, <1>7, <3>1
      <3> QED
        BY <3>2
    <2> QED
      BY <2>1, <2>3, <2>4, <2>5, <2>6, <2>7
  <1> QED
    BY <1>9, <1>10 DEF Kept

\* decrypt_file gives the attachment back or throws: version, type, algorithm and
\* hash are looked at, the iv and the key are not covered by the hash.
LEMMA FileReturns ==
    ASSUME Kept(encrypt_file(Attachment), damaged_file, FileDamages)
    PROVE  LET plain == decrypt_file(stored.ciphertext, stored.info)
           IN  /\ damage = Intact => plain = Attachment
               /\ damage \notin {<<"iv">>, <<"k">>} => plain \in {Attachment, Throws}
  <1> DEFINE plain == decrypt_file(stored.ciphertext, stored.info)
             c == AES_CTR_256_Encrypt(Attachment, "key", "iv")
  <1>1. encrypt_file(Attachment) =
          [ciphertext |-> c,
           info |-> [v |-> "v2", kty |-> "oct", alg |-> "A256CTR", k |-> "key", iv |-> "iv", sha256 |-> sha256(c)]]
    BY DEF encrypt_file
  <1>2. c[1] = "ciphertext" /\ c[2] = "key" /\ c[3] = "iv" /\ c[4] = Attachment
    BY DEF AES_CTR_256_Encrypt
  <1>3. sha256(Changed(c)) # sha256(c) /\ Changed(sha256(c)) # sha256(c)
    BY DEF sha256, Changed, AES_CTR_256_Encrypt
  <1> HIDE DEF c
  <1>4. CASE damage = Intact /\ stored = encrypt_file(Attachment)
    <2>1. plain = Attachment
      BY <1>1, <1>2, <1>4 DEF decrypt_file, AES_CTR_256_Decrypt
    <2> QED
      BY <2>1
  <1>5. CASE damage \in FileDamages /\ stored = damaged_file(encrypt_file(Attachment), damage)
    <2>1. PICK w \in {"v", "kty", "alg", "k", "iv", "sha256", "ciphertext"} : damage = <<w>>
      BY <1>5 DEF FileDamages
    <2>2. damage # Intact
      BY <2>1 DEF Intact
    <2>3. CASE w \in {"k", "iv"}
      BY <2>1, <2>2, <2>3
    <2>4. CASE w = "ciphertext"
      <3>1. stored = [encrypt_file(Attachment) EXCEPT !.ciphertext = Changed(@)]
        BY <1>5, <2>1, <2>4 DEF damaged_file
      <3>2. stored.ciphertext = Changed(c) /\ stored.info.sha256 = sha256(c)
        BY <1>1, <3>1
      <3>3. plain = Throws
        BY <1>3, <3>2 DEF decrypt_file
      <3> QED
        BY <2>2, <3>3
    <2>5. CASE w = "sha256"
      <3>1. stored = [encrypt_file(Attachment) EXCEPT !.info.sha256 = Changed(@)]
        BY <1>5, <2>1, <2>5 DEF damaged_file
      <3>2. stored.ciphertext = c /\ stored.info.sha256 = Changed(sha256(c))
        BY <1>1, <3>1
      <3>3. plain = Throws
        BY <1>3, <3>2 DEF decrypt_file
      <3> QED
        BY <2>2, <3>3
    <2>6. CASE w \in {"v", "kty", "alg"}
      <3>1. stored = [encrypt_file(Attachment) EXCEPT !.info[w] = "other"]
        BY <1>5, <2>1, <2>6 DEF damaged_file
      <3>2. stored.info.v = "other" \/ stored.info.kty = "other" \/ stored.info.alg = "other"
        BY <1>1, <2>6, <3>1
      <3>3. plain = Throws
        BY <3>2 DEF decrypt_file
      <3> QED
        BY <2>2, <3>3
    <2> QED
      BY <2>1, <2>3, <2>4, <2>5, <2>6
  <1> QED
    BY <1>4, <1>5 DEF Kept

\* decrypt_session gives the room key back with the key of the backup from what was
\* uploaded, and throws with another key, ephemeral key or mac.
LEMMA BackupReturns ==
    ASSUME NEW owner, NEW key,
           Kept(encrypt_session(Session(1), CURVE25519_public_key_from_private(owner)),
                damaged_backup, BackupDamages)
    PROVE  /\ key = owner /\ damage = Intact => decrypt_session(stored, key) = Session(1)
           /\ key # owner \/ damage \in {<<"ephemeral">>, <<"mac">>}
                => decrypt_session(stored, key) = Throws
  <1> DEFINE shared(k, e) == <<CURVE25519_public_key_from_private(k), e>>
             c == AES_CTR_256_Encrypt(Session(1), shared(owner, "ephemeral"), "iv")
             mac == pk_mac(shared(owner, "ephemeral"))
             fresh == encrypt_session(Session(1), CURVE25519_public_key_from_private(owner))
  <1>1. fresh = [ephemeral |-> "ephemeral", ciphertext |-> c, mac |-> mac]
    BY DEF encrypt_session, CURVE25519_AES_SHA2_Encrypt
  <1>2. \A k, e : pk_mac(shared(k, e)) = mac => k = owner /\ e = "ephemeral"
    BY DEF pk_mac, CURVE25519_public_key_from_private
  <1>3. \A k, e : pk_mac(shared(k, e)) # Changed(mac)
    BY DEF pk_mac, Changed
  <1>5. c[1] = "ciphertext" /\ c[2] = shared(owner, "ephemeral") /\ c[3] = "iv" /\ c[4] = Session(1)
    BY DEF AES_CTR_256_Encrypt
  <1>6. decrypt_session(stored, key) =
          IF stored.mac # pk_mac(shared(key, stored.ephemeral)) THEN Throws
          ELSE AES_CTR_256_Decrypt(stored.ciphertext, shared(key, stored.ephemeral), "iv")
    BY DEF decrypt_session, CURVE25519_AES_SHA2_Decrypt
  <1>7. mac = pk_mac(shared(owner, "ephemeral"))
    OBVIOUS
  <1> HIDE DEF shared, c, mac, fresh
  <1>8. CASE damage = Intact /\ stored = fresh
    <2>1. CASE key = owner
      <3>1. decrypt_session(stored, key) = AES_CTR_256_Decrypt(c, shared(owner, "ephemeral"), "iv")
        BY <1>1, <1>6, <1>7, <1>8, <2>1
      <3>2. AES_CTR_256_Decrypt(c, shared(owner, "ephemeral"), "iv") = Session(1)
        BY <1>5 DEF AES_CTR_256_Decrypt
      <3> QED
        BY <1>8, <2>1, <3>1, <3>2 DEF Intact
    <2>2. CASE key # owner
      <3>1. stored.mac # pk_mac(shared(key, stored.ephemeral))
        BY <1>1, <1>2, <1>8, <2>2
      <3> QED
        BY <1>6, <2>2, <3>1
    <2> QED
      BY <2>1, <2>2
  <1>9. CASE damage \in BackupDamages /\ stored = damaged_backup(fresh, damage)
    <2>1. PICK w \in {"ephemeral", "ciphertext", "mac"} : damage = <<w>>
      BY <1>9 DEF BackupDamages
    <2>2. stored = [fresh EXCEPT ![w] = IF w = "ephemeral" THEN "other" ELSE Changed(@)]
      BY <1>9, <2>1 DEF damaged_backup
    <2>3. damage # Intact
      BY <2>1 DEF Intact
    <2>4. key # owner \/ w \in {"ephemeral", "mac"}
            => stored.mac # pk_mac(shared(key, stored.ephemeral))
      <3>1. CASE w = "ephemeral"
        <4>1. stored.mac = mac /\ stored.ephemeral = "other"
          BY <1>1, <2>2, <3>1
        <4> QED
          BY <1>2, <4>1
      <3>2. CASE w = "ciphertext"
        <4>1. stored.mac = mac
          BY <1>1, <2>2, <3>2
        <4> QED
          BY <1>2, <3>2, <4>1
      <3>3. CASE w = "mac"
        <4>1. stored.mac = Changed(mac)
          BY <1>1, <2>2, <3>3
        <4> QED
          BY <1>3, <4>1
      <3> QED
        BY <3>1, <3>2, <3>3
    <2>5. damage \in {<<"ephemeral">>, <<"mac">>} => w \in {"ephemeral", "mac"}
      BY <2>1
    <2> QED
      BY <1>6, <2>3, <2>4, <2>5
  <1> QED
    BY <1>8, <1>9 DEF Kept, fresh

\* Secrets, attachments and room keys come back as they were or not at all, wherever
\* things come from.
LEMMA ComesBack == SecretsInv => SecretsKept
  <1> SUFFICES ASSUME SecretsInv
               PROVE  SecretsKept
    OBVIOUS
  <1>1. ASSUME Opened("secret")
        PROVE  /\ damage = Intact => result.secrets \subseteq {Secret}
               /\ damage # <<"data.iv">> => result.secrets \subseteq {Secret, Nothing}
    <2>1. subject = "secret" /\ phase = "opened"
      BY <1>1 DEF Opened
    <2>2. PICK password \in Passwords \cup {NoPassword}, random \in Keys :
            /\ made = [key |-> create_ssss_key(password, random).key, password |-> password]
            /\ Kept(uploaded(create_ssss_key(password, random)), damaged_secret, SecretDamages)
      BY <2>1 DEF SecretsInv, SecretInv
    <2>3. PICK a \in Attempts : result = unlocked(a)
      BY <2>1 DEF SecretsInv, SecretInv
    <2> DEFINE key == create_ssss_key(password, random).key
               plain == decrypt(stored.data, key, stored.name)
    <2>4. result.secrets = IF result.found = Throws THEN {}
                           ELSE {decrypt(stored.data, k, stored.name) : k \in result.found[2]}
      BY <2>3 DEF unlocked
    <2>5. result.found # Throws => result.found[2] \subseteq {key}
      BY <1>1, <2>2, OpensForKey DEF KeyUnlocks
    <2>6. /\ damage = Intact => plain = Secret
          /\ damage # <<"data.iv">> => plain \in {Secret, Nothing}
      BY <2>2, SecretReturns
    <2> HIDE DEF key
    <2>7. result.secrets \subseteq {plain}
      BY <2>4, <2>5
    <2> HIDE DEF plain
    <2> QED
      BY <2>6, <2>7
  <1>2. ASSUME Opened("file")
        PROVE  /\ damage = Intact => result = Attachment
               /\ damage \notin {<<"iv">>, <<"k">>} => result \in {Attachment, Throws}
    BY <1>2, FileReturns DEF Opened, SecretsInv, FileInv
  <1>3. ASSUME Opened("backup")
        PROVE  /\ result.right /\ damage = Intact => result.session = Session(1)
               /\ ~result.right \/ damage \in {<<"ephemeral">>, <<"mac">>}
                    => result.session = Throws
    <2>1. subject = "backup" /\ phase = "opened"
      BY <1>3 DEF Opened
    <2>2. Kept(encrypt_session(Session(1), CURVE25519_public_key_from_private(made)),
               damaged_backup, BackupDamages)
      BY <2>1 DEF SecretsInv, BackupInv
    <2>3. PICK key \in Keys : result = restored(key)
      BY <2>1 DEF SecretsInv, BackupInv
    <2>4. result.right = (key = made) /\ result.session = decrypt_session(stored, key)
      BY <2>3 DEF restored
    <2>5. /\ key = made /\ damage = Intact => decrypt_session(stored, key) = Session(1)
          /\ key # made \/ damage \in {<<"ephemeral">>, <<"mac">>}
               => decrypt_session(stored, key) = Throws
      BY <2>2, BackupReturns
    <2>6. result.right <=> key = made
      BY <2>4
    <2> QED
      BY <2>4, <2>5, <2>6
  <1> QED
    BY <1>1, <1>2, <1>3 DEF SecretsKept
-----------------------------------------------------------------------------
\* A document with all its fields, of which each signature is one of what is signed.
SignedDocument(doc) ==
  /\ doc = [kind |-> doc.kind, keys |-> doc.keys, extra |-> doc.extra,
            unsigned |-> doc.unsigned, signatures |-> doc.signatures]
  /\ doc.unsigned = {}
  /\ \A s \in doc.signatures : s = [by |-> s.by, signature |-> <<s.by, canonical(doc)>>]
  /\ doc.kind # "other" /\ "other" \notin doc.keys
  /\ doc.kind = "device" => "device" \in doc.keys /\ \E s \in doc.signatures : s.by = "device"

\* What sign puts into a document are signatures of it: they do not cover each other.
LEMMA SigningSigns ==
    ASSUME NEW kind, NEW keys, NEW extra, NEW by,
           kind # "other", "other" \notin keys,
           kind = "device" => "device" \in keys /\ "device" \in by
    PROVE  SignedDocument(signed([kind |-> kind, keys |-> keys, extra |-> extra,
                                  unsigned |-> {}, signatures |-> {}], by))
  <1> DEFINE plain == [kind |-> kind, keys |-> keys, extra |-> extra, unsigned |-> {}, signatures |-> {}]
             doc == signed(plain, by)
             signatures == {sign(key, plain) : key \in by}
  <1>1. doc = [kind |-> kind, keys |-> keys, extra |-> extra, unsigned |-> {}, signatures |-> signatures]
    BY DEF signed
  <1>2. canonical(doc) = canonical(plain)
    BY <1>1 DEF canonical
  <1>3. \A key \in by : sign(key, plain) = [by |-> key, signature |-> <<key, canonical(plain)>>]
    BY DEF sign
  <1> HIDE DEF plain, doc
  <1>4. \A s \in signatures : s = [by |-> s.by, signature |-> <<s.by, canonical(plain)>>]
    BY <1>3
  <1>5. kind = "device" => \E s \in signatures : s.by = "device"
    <2>1. SUFFICES ASSUME "device" \in by
                   PROVE  \E s \in signatures : s.by = "device"
      OBVIOUS
    <2>2. sign("device", plain) \in signatures
      BY <2>1
    <2>3. sign("device", plain).by = "device"
      BY <1>3, <2>1
    <2> QED
      BY <2>2, <2>3
  <1> HIDE DEF signatures
  <1>6. SignedDocument(doc)
    BY <1>1, <1>2, <1>4, <1>5 DEF SignedDocument
  <1> QED
    BY <1>6 DEF doc, plain

\* What this library publishes, and the device of another client, are signed documents.
LEMMA Published ==
    ASSUME NEW doc \in Documents
    PROVE  SignedDocument(doc)
  <1> DEFINE Doc(kind, key, extra, by) ==
               signed([kind |-> kind, keys |-> {key}, extra |-> extra, unsigned |-> {}, signatures |-> {}], by)
  <1>1. \/ doc = Doc("master", "master", {}, {"master", "device"})
        \/ doc = Doc("user_signing", "user_signing", {}, {"user_signing", "master"})
        \/ doc = Doc("self_signing", "self_signing", {}, {"self_signing", "master"})
        \/ doc = Doc("device", "device", {}, {"device"})
        \/ doc = Doc("backup", "public_key", {}, {"master"})
        \/ doc = Doc("device", "device", {"field"}, {"device"})
    <2>1. /\ Document("master", "master") = [kind |-> "master", keys |-> {"master"}, extra |-> {}, unsigned |-> {}, signatures |-> {}]
          /\ Document("user_signing", "user_signing") = [kind |-> "user_signing", keys |-> {"user_signing"}, extra |-> {}, unsigned |-> {}, signatures |-> {}]
          /\ Document("self_signing", "self_signing") = [kind |-> "self_signing", keys |-> {"self_signing"}, extra |-> {}, unsigned |-> {}, signatures |-> {}]
          /\ Document("device", "device") = [kind |-> "device", keys |-> {"device"}, extra |-> {}, unsigned |-> {}, signatures |-> {}]
          /\ Document("backup", "public_key") = [kind |-> "backup", keys |-> {"public_key"}, extra |-> {}, unsigned |-> {}, signatures |-> {}]
      BY DEF Document
    <2>2. [Document("device", "device") EXCEPT !.extra = {"field"}] =
            [kind |-> "device", keys |-> {"device"}, extra |-> {"field"}, unsigned |-> {}, signatures |-> {}]
      BY DEF Document
    <2> QED
      BY <2>1, <2>2 DEF Documents, create_crosssigning_keys, create_upload_keys_request,
                        create_online_key_backup, foreign_device
  <1>2. /\ SignedDocument(Doc("master", "master", {}, {"master", "device"}))
        /\ SignedDocument(Doc("user_signing", "user_signing", {}, {"user_signing", "master"}))
        /\ SignedDocument(Doc("self_signing", "self_signing", {}, {"self_signing", "master"}))
        /\ SignedDocument(Doc("device", "device", {}, {"device"}))
        /\ SignedDocument(Doc("backup", "public_key", {}, {"master"}))
        /\ SignedDocument(Doc("device", "device", {"field"}, {"device"}))
    BY SigningSigns
  <1> HIDE DEF Doc
  <1> QED
    BY <1>1, <1>2

\* The signatures of a document are good as long as what is signed is the same.
LEMMA SameVerifies ==
    ASSUME NEW doc, NEW seen, SignedDocument(doc),
           seen.kind = doc.kind, seen.keys = doc.keys, seen.extra = doc.extra,
           \A s \in seen.signatures : s = [by |-> s.by, signature |-> <<s.by, canonical(doc)>>],
           doc.signatures \subseteq seen.signatures,
           seen = [kind |-> seen.kind, keys |-> seen.keys, extra |-> seen.extra,
                   unsigned |-> seen.unsigned, signatures |-> seen.signatures]
    PROVE  /\ checked(seen).bad = {}
           /\ doc.kind = "device" => checked(seen).identity = <<"verified", doc.extra = {}>>
  <1>1. canonical(seen) = canonical(doc)
    BY DEF canonical
  <1>2. \A s \in seen.signatures : ed25519_verify_signature(s.by, seen, s.signature)
    <2>1. TAKE s \in seen.signatures
    <2>2. s.signature = <<s.by, canonical(seen)>>
      BY <1>1
    <2>3. s.signature # Nothing
      BY <2>2 DEF Nothing
    <2> QED
      BY <2>2, <2>3 DEF ed25519_verify_signature
  <1>3. checked(seen).bad = {}
    BY <1>2 DEF checked
  <1>4. ASSUME doc.kind = "device"
        PROVE  checked(seen).identity = <<"verified", doc.extra = {}>>
    <2> DEFINE known == [seen EXCEPT !.extra = {}]
               by == {s \in seen.signatures : s.by = "device"}
               all == \A s \in by : ed25519_verify_signature("device", known, s.signature)
    <2>1. "device" \in seen.keys /\ by # {}
      BY <1>4 DEF SignedDocument
    <2>2. checked(seen).identity = <<"verified", all>>
      BY <2>1 DEF checked, verify_identity_signature
    <2>3. canonical(known) = [kind |-> doc.kind, keys |-> doc.keys, extra |-> {}]
      BY DEF canonical
    <2>4. canonical(doc) = [kind |-> doc.kind, keys |-> doc.keys, extra |-> doc.extra]
      BY DEF canonical
    <2>5. \A s \in by : s.signature = <<"device", canonical(doc)>>
      OBVIOUS
    <2> HIDE DEF known, by
    <2>6. all <=> doc.extra = {}
      <3>1. ASSUME doc.extra = {} PROVE all
        <4>1. canonical(known) = canonical(doc)
          BY <2>3, <2>4, <3>1
        <4> QED
          BY <2>5, <4>1 DEF ed25519_verify_signature, Nothing
      <3>2. ASSUME all PROVE doc.extra = {}
        <4>1. PICK s \in by : TRUE
          BY <2>1
        <4>2. s.signature = <<"device", canonical(known)>>
          BY <3>2, <4>1 DEF ed25519_verify_signature
        <4>3. canonical(known) = canonical(doc)
          BY <2>5, <4>1, <4>2
        <4> QED
          BY <2>3, <2>4, <4>3
      <3> QED
        BY <3>1, <3>2
    <2>7. all = (doc.extra = {})
      BY <2>6
    <2> QED
      BY <2>2, <2>7
  <1> QED
    BY <1>3, <1>4

\* None of the signatures is good when each is empty or of something else.
LEMMA OtherFails ==
    ASSUME NEW doc, NEW seen,
           seen = [kind |-> seen.kind, keys |-> seen.keys, extra |-> seen.extra,
                   unsigned |-> seen.unsigned, signatures |-> seen.signatures],
           \A s \in seen.signatures :
             \/ s.signature = Nothing
             \/ /\ s.signature = <<s.by, canonical(doc)>>
                /\ seen.kind # doc.kind \/ seen.keys # doc.keys
    PROVE  checked(seen).bad = seen.signatures /\ checked(seen).identity # <<"verified", TRUE>>
  <1> DEFINE known == [seen EXCEPT !.extra = {}]
             by == {s \in seen.signatures : s.by = "device"}
             all == \A s \in by : ed25519_verify_signature("device", known, s.signature)
  <1>1. known.kind = seen.kind /\ known.keys = seen.keys
    OBVIOUS
  <1>2. ASSUME NEW s \in seen.signatures, NEW other, other.kind = seen.kind, other.keys = seen.keys
        PROVE  ~ed25519_verify_signature(s.by, other, s.signature)
    <2>1. CASE s.signature = Nothing
      BY <2>1 DEF ed25519_verify_signature
    <2>2. CASE s.signature = <<s.by, canonical(doc)>> /\ (seen.kind # doc.kind \/ seen.keys # doc.keys)
      <3>1. canonical(other) # canonical(doc)
        BY <1>2, <2>2 DEF canonical
      <3> QED
        BY <2>2, <3>1 DEF ed25519_verify_signature
    <2> QED
      BY <2>1, <2>2
  <1>3. checked(seen).bad = seen.signatures
    BY <1>2 DEF checked
  <1>4. checked(seen).identity = IF "device" \notin seen.keys \/ by = {} THEN Throws ELSE <<"verified", all>>
    BY DEF checked, verify_identity_signature
  <1> HIDE DEF known
  <1>5. by # {} => ~all
    BY <1>1, <1>2
  <1> HIDE DEF by, all
  <1>6. checked(seen).identity # <<"verified", TRUE>>
    <2>1. CASE "device" \notin seen.keys \/ by = {}
      <3>1. checked(seen).identity = Throws
        BY <1>4, <2>1
      <3>2. Throws # <<"verified", TRUE>>
        BY DEF Throws
      <3> QED
        BY <3>1, <3>2
    <2>2. CASE ~("device" \notin seen.keys \/ by = {})
      <3>1. all = FALSE
        BY <1>5, <2>2 DEF all
      <3>2. checked(seen).identity = <<"verified", FALSE>>
        BY <1>4, <2>2, <3>1
      <3> QED
        BY <3>2
    <2> QED
      BY <2>1, <2>2
  <1> QED
    BY <1>3, <1>6

\* The damages of a document, one by one.
LEMMA SignaturesTell == SecretsInv => SignaturesVerify
  <1> SUFFICES ASSUME SecretsInv, Opened("signature")
               PROVE  SignaturesVerify
    BY DEF SignaturesVerify
  <1>1. /\ made \in Documents
        /\ Kept(made, damaged_document, SignatureDamages)
        /\ result = checked(stored)
    BY DEF Opened, SecretsInv, SignatureInv
  <1>2. SignedDocument(made)
    BY <1>1, Published
  <1>3. made = [kind |-> made.kind, keys |-> made.keys, extra |-> made.extra,
                unsigned |-> made.unsigned, signatures |-> made.signatures]
    BY <1>2 DEF SignedDocument
  <1>4. \A s \in made.signatures : s = [by |-> s.by, signature |-> <<s.by, canonical(made)>>]
    BY <1>2 DEF SignedDocument
  <1> DEFINE Good == /\ checked(stored).bad = {}
                     /\ made.kind = "device" => checked(stored).identity = <<"verified", made.extra = {}>>
             Bad == /\ checked(stored).bad = stored.signatures
                    /\ checked(stored).identity # <<"verified", TRUE>>
  <1>5. SUFFICES /\ damage[1] \in {"intact", "unsigned", "cosigned"} => Good
                 /\ damage[1] \in {"keys", "kind", "signature"} => Bad
                 /\ damage[1] = "stripped" => checked(stored).identity = Throws
    BY <1>1 DEF SignaturesVerify
  <1>6. CASE damage = Intact /\ stored = made
    <2>1. Good
      BY <1>2, <1>3, <1>4, <1>6, SameVerifies
    <2>2. damage[1] = "intact"
      BY <1>6 DEF Intact
    <2> QED
      BY <2>1, <2>2
  <1>7. CASE damage \in SignatureDamages /\ stored = damaged_document(made, damage)
    <2>1. PICK w \in {"unsigned", "cosigned", "keys", "kind", "stripped", "signature"} : damage = <<w>>
      BY <1>7 DEF SignatureDamages
    <2>2. damage[1] = w
      BY <2>1
    <2>3. ASSUME w = "unsigned" PROVE Good
      <3>1. stored = [made EXCEPT !.unsigned = {"display_name"}]
        BY <1>7, <2>1, <2>3 DEF damaged_document
      <3>2. /\ stored.kind = made.kind /\ stored.keys = made.keys /\ stored.extra = made.extra
            /\ stored.signatures = made.signatures
            /\ stored = [kind |-> stored.kind, keys |-> stored.keys, extra |-> stored.extra,
                         unsigned |-> stored.unsigned, signatures |-> stored.signatures]
        BY <1>3, <3>1
      <3> QED
        BY <1>2, <1>4, <3>2, SameVerifies
    <2>4. ASSUME w = "cosigned" PROVE Good
      <3>1. stored = [made EXCEPT !.signatures = @ \cup {sign(key, made) : key \in {"other"}}]
        BY <1>7, <2>1, <2>4 DEF damaged_document, signed
      <3>2. /\ stored.kind = made.kind /\ stored.keys = made.keys /\ stored.extra = made.extra
            /\ stored.signatures = made.signatures \cup {sign(key, made) : key \in {"other"}}
            /\ stored = [kind |-> stored.kind, keys |-> stored.keys, extra |-> stored.extra,
                         unsigned |-> stored.unsigned, signatures |-> stored.signatures]
        BY <1>3, <3>1
      <3>3. sign("other", made) = [by |-> "other", signature |-> <<"other", canonical(made)>>]
        BY DEF sign
      <3>4. \A s \in stored.signatures : s = [by |-> s.by, signature |-> <<s.by, canonical(made)>>]
        BY <1>4, <3>2, <3>3
      <3>5. made.signatures \subseteq stored.signatures
        BY <3>2
      <3> QED
        BY <1>2, <3>2, <3>4, <3>5, SameVerifies
    <2>5. ASSUME w = "keys" PROVE Bad
      <3>1. stored = [made EXCEPT !.keys = @ \cup {"other"}]
        BY <1>7, <2>1, <2>5 DEF damaged_document
      <3>2. /\ stored.keys = made.keys \cup {"other"} /\ stored.signatures = made.signatures
            /\ stored = [kind |-> stored.kind, keys |-> stored.keys, extra |-> stored.extra,
                         unsigned |-> stored.unsigned, signatures |-> stored.signatures]
        BY <1>3, <3>1
      <3>3. stored.keys # made.keys
        BY <1>2, <3>2 DEF SignedDocument
      <3>4. \A s \in stored.signatures : s.signature = <<s.by, canonical(made)>>
        BY <1>4, <3>2
      <3> QED
        BY <3>2, <3>3, <3>4, OtherFails
    <2>6. ASSUME w = "kind" PROVE Bad
      <3>1. stored = [made EXCEPT !.kind = "other"]
        BY <1>7, <2>1, <2>6 DEF damaged_document
      <3>2. /\ stored.kind = "other" /\ stored.signatures = made.signatures
            /\ stored = [kind |-> stored.kind, keys |-> stored.keys, extra |-> stored.extra,
                         unsigned |-> stored.unsigned, signatures |-> stored.signatures]
        BY <1>3, <3>1
      <3>3. stored.kind # made.kind
        BY <1>2, <3>2 DEF SignedDocument
      <3>4. \A s \in stored.signatures : s.signature = <<s.by, canonical(made)>>
        BY <1>4, <3>2
      <3> QED
        BY <3>2, <3>3, <3>4, OtherFails
    <2>7. ASSUME w = "signature" PROVE Bad
      <3>1. stored = [made EXCEPT !.signatures = {[s EXCEPT !.signature = Nothing] : s \in @}]
        BY <1>7, <2>1, <2>7 DEF damaged_document
      <3>2. /\ stored.signatures = {[s EXCEPT !.signature = Nothing] : s \in made.signatures}
            /\ stored = [kind |-> stored.kind, keys |-> stored.keys, extra |-> stored.extra,
                         unsigned |-> stored.unsigned, signatures |-> stored.signatures]
        BY <1>3, <3>1
      <3>3. \A s \in stored.signatures : s.signature = Nothing
        BY <1>4, <3>2
      <3> QED
        BY <3>2, <3>3, OtherFails
    <2> HIDE DEF Good, Bad
    <2>8. ASSUME w = "stripped" PROVE checked(stored).identity = Throws
      <3>1. stored = [made EXCEPT !.signatures = {}]
        BY <1>7, <2>1, <2>8 DEF damaged_document
      <3>2. stored.signatures = {}
        BY <1>3, <3>1
      <3>3. verify_identity_signature(stored) = Throws
        BY <3>2 DEF verify_identity_signature
      <3> QED
        BY <3>3 DEF checked
    <2> QED
      BY <2>1, <2>2, <2>3, <2>4, <2>5, <2>6, <2>7, <2>8
  <1> QED
    BY <1>1, <1>6, <1>7 DEF Kept
-----------------------------------------------------------------------------
(* Exports: reading is a loop over the text, here a function on its places. *)
Dropped(c) == c[1] \in {"header", "trailer", "newline"}
Unpacked(text, f, i) ==
  IF i = 0 THEN <<>> ELSE IF Dropped(text[i]) THEN f[i - 1] ELSE Append(f[i - 1], text[i])
Unpacks(text, n, f) == f = [i \in 0 .. n |-> Unpacked(text, f, i)]

\* The function by which unpack_key_file is defined exists, for every text.
LEMMA UnpackExists ==
    ASSUME NEW text, NEW n \in Nat
    PROVE  \E f : Unpacks(text, n, f)
  <1> DEFINE P == {m \in 0 .. n : \E f : Unpacks(text, m, f)}
  <1>1. 0 \in P
    <2>1. Unpacks(text, 0, [i \in 0 .. 0 |-> <<>>])
      BY DEF Unpacks, Unpacked
    <2> QED
      BY <2>1
  <1>2. ASSUME NEW m \in 1 .. n, m - 1 \in P
        PROVE  m \in P
    <2>1. PICK g : Unpacks(text, m - 1, g)
      BY <1>2
    <2> DEFINE f == [i \in 0 .. m |-> IF i < m THEN g[i] ELSE Unpacked(text, g, m)]
    <2>2. \A i \in 0 .. m - 1 : f[i] = g[i] /\ g[i] = Unpacked(text, g, i)
      BY <2>1 DEF Unpacks
    <2>3. f[m] = Unpacked(text, g, m)
      OBVIOUS
    <2>4. f = [i \in 0 .. m |-> f[i]]
      OBVIOUS
    <2> HIDE DEF f
    <2>5. \A i \in 0 .. m : Unpacked(text, g, i) = Unpacked(text, f, i)
      <3>1. TAKE i \in 0 .. m
      <3>2. i # 0 => f[i - 1] = g[i - 1]
        BY <2>2
      <3> QED
        BY <3>2 DEF Unpacked
    <2>6. \A i \in 0 .. m : f[i] = Unpacked(text, f, i)
      BY <2>2, <2>3, <2>5
    <2>7. Unpacks(text, m, f)
      BY <2>4, <2>6 DEF Unpacks
    <2> QED
      BY <2>7
  <1> HIDE DEF P
  <1>3. n \in P
    BY <1>1, <1>2, UpTo
  <1> QED
    BY <1>3 DEF P

\* What unpack_key_file does at each place of the text.
Unpacking(text, n, f) ==
  /\ f[0] = <<>>
  /\ \A i \in 1 .. n : Dropped(text[i]) => f[i] = f[i - 1]
  /\ \A i \in 1 .. n : ~Dropped(text[i]) => f[i] = Append(f[i - 1], text[i])

\* unpack_key_file is that function at the last place.
LEMMA UnpackSteps ==
    ASSUME NEW S, NEW text \in Seq(S)
    PROVE  \E n \in Nat : \E f : /\ n = Len(text)
                                 /\ Unpacking(text, n, f)
                                 /\ unpack_key_file(text) = f[n]
  <1> DEFINE f == CHOOSE g : Unpacks(text, Len(text), g)
  <1>1. Unpacks(text, Len(text), f)
    BY UnpackExists
  <1>2. unpack_key_file(text) = f[Len(text)]
    BY DEF unpack_key_file, Unpacks, Unpacked, Dropped
  <1> HIDE DEF f
  <1>3. \A i \in 0 .. Len(text) : f[i] = Unpacked(text, f, i)
    BY <1>1 DEF Unpacks
  <1>4. f[0] = <<>>
    BY <1>3 DEF Unpacked
  <1>5. ASSUME NEW i \in 1 .. Len(text)
        PROVE  f[i] = IF Dropped(text[i]) THEN f[i - 1] ELSE Append(f[i - 1], text[i])
    <2>1. i \in 0 .. Len(text) /\ i # 0
      OBVIOUS
    <2> QED
      BY <1>3, <2>1 DEF Unpacked
  <1>6. Unpacking(text, Len(text), f)
    BY <1>4, <1>5 DEF Unpacking
  <1> QED
    BY <1>2, <1>6

\* Nothing but characters of the text remains, and no line ends.
LEMMA UnpackedIn ==
    ASSUME NEW S, NEW text \in Seq(S)
    PROVE  unpack_key_file(text) \in Seq({x \in S : ~Dropped(x)})
  <1> DEFINE T == {x \in S : ~Dropped(x)}
  <1>1a. PICK n \in Nat : \E f : n = Len(text) /\ Unpacking(text, n, f) /\ unpack_key_file(text) = f[n]
    BY UnpackSteps
  <1>1. PICK f : n = Len(text) /\ Unpacking(text, n, f) /\ unpack_key_file(text) = f[n]
    BY <1>1a
  <1>2. \A i \in 1 .. n : ~Dropped(text[i]) => text[i] \in T
    BY <1>1
  <1> HIDE DEF T
  <1> DEFINE P == {i \in 0 .. n : f[i] \in Seq(T)}
  <1>3. 0 \in P
    <2>1. f[0] \in Seq(T)
      BY <1>1, EmptySeq DEF Unpacking
    <2> QED
      BY <2>1
  <1>4. ASSUME NEW i \in 1 .. n, i - 1 \in P
        PROVE  i \in P
    <2>1. CASE Dropped(text[i])
      BY <1>1, <1>4, <2>1 DEF Unpacking
    <2>2. CASE ~Dropped(text[i])
      <3>1. text[i] \in T
        BY <1>2, <2>2
      <3>2. f[i] = Append(f[i - 1], text[i])
        BY <1>1, <2>2 DEF Unpacking
      <3>3. f[i - 1] \in Seq(T)
        BY <1>4
      <3>4. f[i] \in Seq(T)
        BY <3>1, <3>2, <3>3
      <3> QED
        BY <3>4
    <2> QED
      BY <2>1, <2>2
  <1> HIDE DEF P
  <1>5. \A i \in 0 .. n : i \in P
    BY <1>3, <1>4, UpTo
  <1>6. n \in P
    BY <1>5
  <1> QED
    BY <1>1, <1>6 DEF P, T

\* Two texts are unpacked one after the other.
LEMMA UnpackConcat ==
    ASSUME NEW S, NEW s \in Seq(S), NEW t \in Seq(S)
    PROVE  unpack_key_file(s \o t) = unpack_key_file(s) \o unpack_key_file(t)
  <1>0. \A a, b \in Seq(S), x \in S : Append(a \o b, x) = a \o Append(b, x)
    <2>1. TAKE a, b \in Seq(S), x \in S
    <2>2. Append(b, x) = b \o <<x>>
      BY AppendIsConcat
    <2>3. a \o b \in Seq(S) /\ <<x>> \in Seq(S)
      OBVIOUS
    <2>4. Append(a \o b, x) = (a \o b) \o <<x>>
      BY <2>3, AppendIsConcat
    <2>5. (a \o b) \o <<x>> = a \o (b \o <<x>>)
      BY <2>3, ConcatAssociative
    <2> QED
      BY <2>2, <2>4, <2>5, Zenon
  <1>1. PICK u \in Seq(S) : u = s \o t
    <2>1. s \o t \in Seq(S)
      OBVIOUS
    <2> QED
      BY <2>1
  <1>2a. PICK l \in Nat : \E f : l = Len(u) /\ Unpacking(u, l, f) /\ unpack_key_file(u) = f[l]
    BY UnpackSteps
  <1>2. PICK f : l = Len(u) /\ Unpacking(u, l, f) /\ unpack_key_file(u) = f[l]
    BY <1>2a
  <1>3a. PICK m \in Nat : \E g : m = Len(s) /\ Unpacking(s, m, g) /\ unpack_key_file(s) = g[m]
    BY UnpackSteps
  <1>3. PICK g : m = Len(s) /\ Unpacking(s, m, g) /\ unpack_key_file(s) = g[m]
    BY <1>3a
  <1>4a. PICK n \in Nat : \E h : n = Len(t) /\ Unpacking(t, n, h) /\ unpack_key_file(t) = h[n]
    BY UnpackSteps
  <1>4. PICK h : n = Len(t) /\ Unpacking(t, n, h) /\ unpack_key_file(t) = h[n]
    BY <1>4a
  <1>5. /\ l = m + n
        /\ \A i \in 1 .. m : u[i] = s[i] /\ s[i] \in S
        /\ \A j \in 1 .. n : u[m + j] = t[j] /\ t[j] \in S
    BY <1>1, <1>2, <1>3, <1>4
  <1> DEFINE A == {i \in 0 .. m : f[i] = g[i] /\ g[i] \in Seq(S)}
             Q(j) == f[m + j] = g[m] \o h[j] /\ h[j] \in Seq(S)
             B == {j \in 0 .. n : Q(j)}
  <1>6. f[m] = g[m] /\ g[m] \in Seq(S)
    <2>1. 0 \in A
      <3>1. f[0] = g[0] /\ g[0] \in Seq(S)
        BY <1>2, <1>3, EmptySeq DEF Unpacking
      <3> QED
        BY <3>1
    <2>2. ASSUME NEW i \in 1 .. m, i - 1 \in A
          PROVE  i \in A
      <3>1. s[i] \in S /\ u[i] = s[i] /\ g[i - 1] \in Seq(S) /\ f[i - 1] = g[i - 1]
        BY <1>5, <2>2
      <3>2. i \in 1 .. l
        BY <1>5
      <3>3. f[i] = g[i] /\ g[i] \in Seq(S)
        <4>1. CASE Dropped(s[i])
          <5>1. f[i] = f[i - 1] /\ g[i] = g[i - 1]
            BY <1>2, <1>3, <3>1, <3>2, <4>1 DEF Unpacking
          <5> QED
            BY <3>1, <5>1
        <4>2. CASE ~Dropped(s[i])
          <5>1. f[i] = Append(f[i - 1], s[i]) /\ g[i] = Append(g[i - 1], s[i])
            BY <1>2, <1>3, <3>1, <3>2, <4>2 DEF Unpacking
          <5>2. Append(g[i - 1], s[i]) \in Seq(S)
            BY <3>1
          <5> QED
            BY <3>1, <5>1, <5>2
        <4> QED
          BY <4>1, <4>2
      <3> QED
        BY <3>3
    <2> HIDE DEF A
    <2>3. \A i \in 0 .. m : i \in A
      BY <2>1, <2>2, UpTo
    <2>4. m \in A
      BY <2>3
    <2> QED
      BY <2>4 DEF A
  <1>7. f[m + n] = g[m] \o h[n]
    <2>1. 0 \in B
      <3>1. h[0] = <<>> /\ h[0] \in Seq(S) /\ m + 0 = m
        BY <1>4, EmptySeq DEF Unpacking
      <3>2. g[m] \o <<>> = g[m]
        BY <1>6, ConcatEmptySeq
      <3>3. f[m] = g[m] \o h[0]
        BY <1>6, <3>1, <3>2
      <3>4. Q(0)
        BY <3>1, <3>3
      <3> HIDE DEF Q
      <3> QED
        BY <3>4
    <2>2. ASSUME NEW j \in 1 .. n, j - 1 \in B
          PROVE  j \in B
      <3>1. PICK k \in 0 .. n : k = j - 1 /\ k \in B
        BY <2>2
      <3>2. t[j] \in S /\ u[m + j] = t[j] /\ h[k] \in Seq(S) /\ f[m + k] = g[m] \o h[k]
        BY <1>5, <3>1
      <3>3. PICK p \in 1 .. l : p = m + j /\ p - 1 = m + k
        BY <1>5, <3>1
      <3>4. f[p] = g[m] \o h[j] /\ h[j] \in Seq(S)
        <4>1. CASE Dropped(t[j])
          <5>1. f[p] = f[p - 1] /\ h[j] = h[k]
            BY <1>2, <1>4, <3>1, <3>2, <3>3, <4>1 DEF Unpacking
          <5> QED
            BY <3>2, <3>3, <5>1
        <4>2. CASE ~Dropped(t[j])
          <5>1. f[p] = Append(f[p - 1], t[j])
            BY <1>2, <3>2, <3>3, <4>2 DEF Unpacking
          <5>2. h[j] = Append(h[k], t[j])
            BY <1>4, <3>1, <4>2 DEF Unpacking
          <5>3. Append(g[m] \o h[k], t[j]) = g[m] \o Append(h[k], t[j])
            BY <1>0, <1>6, <3>2
          <5>4. Append(h[k], t[j]) \in Seq(S)
            BY <3>2
          <5> QED
            BY <3>2, <3>3, <5>1, <5>2, <5>3, <5>4
        <4> QED
          BY <4>1, <4>2
      <3>5. Q(j)
        BY <3>3, <3>4
      <3> HIDE DEF Q
      <3> QED
        BY <3>5
    <2> HIDE DEF B
    <2>3. \A j \in 0 .. n : j \in B
      BY <2>1, <2>2, UpTo
    <2>4. n \in B
      BY <2>3
    <2> QED
      BY <2>4 DEF B
  <1> QED
    BY <1>1, <1>2, <1>3, <1>4, <1>5, <1>7

\* A text without line ends stays what it is.
LEMMA UnpackPlain ==
    ASSUME NEW S, NEW s \in Seq(S), \A i \in 1 .. Len(s) : ~Dropped(s[i])
    PROVE  unpack_key_file(s) = s
  <1>1a. PICK n \in Nat : \E f : n = Len(s) /\ Unpacking(s, n, f) /\ unpack_key_file(s) = f[n]
    BY UnpackSteps
  <1>1. PICK f : n = Len(s) /\ Unpacking(s, n, f) /\ unpack_key_file(s) = f[n]
    BY <1>1a
  <1> DEFINE P == {i \in 0 .. n : f[i] = SubSeq(s, 1, i)}
  <1>2. 0 \in P
    <2>1. f[0] = SubSeq(s, 1, 0)
      BY <1>1, SubSeqEmpty DEF Unpacking
    <2> QED
      BY <2>1
  <1>3. ASSUME NEW i \in 1 .. n, i - 1 \in P
        PROVE  i \in P
    <2>1. f[i] = Append(f[i - 1], s[i]) /\ f[i - 1] = SubSeq(s, 1, i - 1)
      BY <1>1, <1>3 DEF Unpacking
    <2>2. Append(SubSeq(s, 1, i - 1), s[i]) = SubSeq(s, 1, i)
      BY <1>1
    <2>3. f[i] = SubSeq(s, 1, i)
      BY <2>1, <2>2
    <2> QED
      BY <2>3
  <1> HIDE DEF P
  <1>4. \A i \in 0 .. n : i \in P
    BY <1>2, <1>3, UpTo
  <1>5. n \in P
    BY <1>4
  <1>6. SubSeq(s, 1, n) = s
    BY <1>1, SubSeqFull
  <1> QED
    BY <1>1, <1>5, <1>6 DEF P

\* A line end alone is nothing.
LEMMA UnpackDropped ==
    ASSUME NEW x, Dropped(x)
    PROVE  unpack_key_file(<<x>>) = <<>>
  <1>1. PICK s \in Seq({x}) : s = <<x>>
    <2>1. <<x>> \in Seq({x})
      OBVIOUS
    <2> QED
      BY <2>1
  <1>2a. PICK n \in Nat : \E f : n = Len(s) /\ Unpacking(s, n, f) /\ unpack_key_file(s) = f[n]
    BY UnpackSteps
  <1>2. PICK f : n = Len(s) /\ Unpacking(s, n, f) /\ unpack_key_file(s) = f[n]
    BY <1>2a
  <1>3. n = 1 /\ s[1] = x
    BY <1>1, <1>2
  <1>4. f[1] = f[1 - 1] /\ f[0] = <<>>
    BY <1>2, <1>3 DEF Unpacking
  <1> QED
    BY <1>1, <1>2, <1>3, <1>4

\* decode_base64 stops at the first character that is none of base64's.
Stops(c) == c[1] \in {"return", "raw"}
\* What is decoded is a beginning of the text, up to such a character.
LEMMA DecodesUpTo ==
    ASSUME NEW S, NEW text \in Seq(S)
    PROVE  \E n \in 0 .. Len(text) : /\ base642bin(text) = SubSeq(text, 1, n)
                                     /\ \A i \in 1 .. n : ~Stops(text[i])
                                     /\ n < Len(text) => Stops(text[n + 1])
  <1>1. PICK l \in Nat : l = Len(text) /\ DOMAIN text = 1 .. l
    OBVIOUS
  <1> DEFINE foreign == {i \in DOMAIN text : text[i][1] \in {"return", "raw"}}
             Is(n) == (\A i \in 1 .. n : i \notin foreign) /\ (n < l => n + 1 \in foreign)
  <1>2. foreign \in SUBSET Nat /\ \A i \in 1 .. l : i \in foreign <=> Stops(text[i])
    BY <1>1 DEF Stops
  <1>3. base642bin(text) = SubSeq(text, 1, CHOOSE n \in 0 .. l : Is(n))
    BY <1>1 DEF base642bin
  <1>4. foreign \subseteq 1 .. l
    BY <1>1
  <1> HIDE DEF foreign
  <1>5. \E n \in 0 .. l : Is(n)
    <2>1. CASE foreign = {}
      <3>1. Is(l)
        BY <2>1
      <3> QED
        BY <3>1
    <2>2. CASE foreign # {}
      <3>1. PICK k \in foreign : \A j \in foreign : k <= j
        BY <1>2, <2>2, LeastExists
      <3>2. k \in 1 .. l
        BY <1>4, <3>1
      <3>3. Is(k - 1)
        BY <1>4, <3>1, <3>2
      <3> QED
        BY <3>2, <3>3
    <2> QED
      BY <2>1, <2>2
  <1>6. PICK n \in 0 .. l : Is(n) /\ base642bin(text) = SubSeq(text, 1, n)
    BY <1>3, <1>5
  <1>7. /\ \A i \in 1 .. n : ~Stops(text[i])
        /\ n < l => Stops(text[n + 1])
    BY <1>2, <1>6
  <1> QED
    BY <1>1, <1>6, <1>7

\* Of the bytes nothing else is left but characters of the text.
LEMMA DecodedIn ==
    ASSUME NEW S, NEW text \in Seq(S)
    PROVE  base642bin(text) \in Seq(S)
  <1>1. PICK n \in 0 .. Len(text) : base642bin(text) = SubSeq(text, 1, n)
    BY DecodesUpTo
  <1>2. SubSeq(text, 1, n) \in Seq(S)
    OBVIOUS
  <1> QED
    BY <1>1, <1>2

\* Text of which no character stops it is decoded completely.
LEMMA DecodesAll ==
    ASSUME NEW S, NEW text \in Seq(S), \A i \in 1 .. Len(text) : ~Stops(text[i])
    PROVE  base642bin(text) = text
  <1>1. PICK n \in 0 .. Len(text) : /\ base642bin(text) = SubSeq(text, 1, n)
                                    /\ n < Len(text) => Stops(text[n + 1])
    BY DecodesUpTo
  <1>2. n = Len(text)
    BY <1>1
  <1> QED
    BY <1>1, <1>2, SubSeqFull

\* Text that begins with such a character is not decoded at all.
LEMMA DecodesNothing ==
    ASSUME NEW S, NEW text \in Seq(S), Len(text) > 0, Stops(text[1])
    PROVE  base642bin(text) = <<>>
  <1>1. PICK n \in 0 .. Len(text) : /\ base642bin(text) = SubSeq(text, 1, n)
                                    /\ \A i \in 1 .. n : ~Stops(text[i])
    BY DecodesUpTo
  <1>2. n = 0
    BY <1>1
  <1> QED
    BY <1>1, <1>2, SubSeqEmpty
-----------------------------------------------------------------------------
(* The bytes of an export, part by part.                                    *)
SaltOf == [i \in 1 .. SaltBytes |-> Byte(i)]
IvOf == [i \in 1 .. BlockBytes |-> Byte(100 + i)]
KeyOf(pass) == <<pass, SaltOf, Rounds>>
RoundsOf == [i \in 1 .. 4 |-> Byte(uint32_to_uint8(Rounds)[i])]
CipherOf(n, pass) == [i \in DOMAIN Plain(n) |-> AES_CTR_256_Encrypt(Plain(n)[i], KeyOf(pass), <<IvOf, i>>)]
OutputOf(n, pass) == <<Byte(1)>> \o SaltOf \o IvOf \o RoundsOf \o CipherOf(n, pass)
BytesOf(n, pass) == OutputOf(n, pass) \o digest(KeyOf(pass), OutputOf(n, pass))

\* encrypt_exported_sessions makes these parts, one after the other.
LEMMA ExportedBytes ==
    ASSUME NEW n, NEW pass
    PROVE  encrypt_exported_sessions(n, pass) = BytesOf(n, pass)
  BY DEF encrypt_exported_sessions, BytesOf, OutputOf, CipherOf, RoundsOf, KeyOf, IvOf, SaltOf

\* Where the elements of two sequences are when one follows the other.
Joins(c, a, b, l, m) ==
  /\ c = a \o b /\ Len(c) = l + m
  /\ \A j \in 1 .. l : c[j] = a[j]
  /\ \A j \in 1 .. m : c[l + j] = b[j]
\* Concatenation puts them there.
LEMMA ConcatPlaces ==
    ASSUME NEW S, NEW a \in Seq(S), NEW b \in Seq(S), NEW l \in Nat, NEW m \in Nat, Len(a) = l, Len(b) = m
    PROVE  \E c \in Seq(S) : Joins(c, a, b, l, m)
  <1>1. a \o b \in Seq(S) /\ Len(a \o b) = l + m
    OBVIOUS
  <1>2. \A j \in 1 .. l : (a \o b)[j] = a[j]
    OBVIOUS
  <1>3. \A j \in 1 .. m : (a \o b)[l + j] = b[j]
    OBVIOUS
  <1> QED
    BY <1>1, <1>2, <1>3 DEF Joins

\* How long the parts are and where they are.
LEMMA PlainPlaces ==
    ASSUME NEW n \in Nat
    PROVE  /\ DOMAIN Plain(n) = 1 .. n + 2
           /\ Plain(n) = [i \in 1 .. n + 2 |-> Plain(n)[i]]
           /\ \A pass : CipherOf(n, pass) = [i \in 1 .. n + 2 |-> CipherOf(n, pass)[i]]
  <1> DEFINE S == {<<"[">>, <<"]">>} \cup {Session(i) : i \in 1 .. n}
  <1>1. PICK sessions \in Seq(S) : sessions = [i \in 1 .. n |-> Session(i)]
    <2>1. [i \in 1 .. n |-> Session(i)] \in Seq(S)
      <3>1. \A i \in 1 .. n : Session(i) \in S
        OBVIOUS
      <3> HIDE DEF S
      <3> QED
        BY <3>1, IsASeq
    <2> QED
      BY <2>1
  <1>2. Len(sessions) = n
    BY <1>1
  <1>3. <<<<"[">>>> \in Seq(S) /\ <<<<"]">>>> \in Seq(S)
    <2>1. <<"[">> \in S /\ <<"]">> \in S
      OBVIOUS
    <2> HIDE DEF S
    <2> QED
      BY <2>1
  <1> HIDE DEF S
  <1>4. PICK open \in Seq(S), close \in Seq(S) :
          open = <<<<"[">>>> /\ close = <<<<"]">>>> /\ Len(open) = 1 /\ Len(close) = 1
    BY <1>3
  <1>5. Plain(n) = open \o sessions \o close
    BY <1>1, <1>4 DEF Plain
  <1>6. open \o sessions \o close \in Seq(S) /\ Len(open \o sessions \o close) = n + 2
    BY <1>2, <1>4
  <1>7. Plain(n) \in Seq(S) /\ Len(Plain(n)) = n + 2
    BY <1>5, <1>6
  <1>8. DOMAIN Plain(n) = 1 .. n + 2 /\ Plain(n) = [i \in 1 .. n + 2 |-> Plain(n)[i]]
    BY <1>7
  <1>9. \A pass : CipherOf(n, pass) = [i \in 1 .. n + 2 |-> CipherOf(n, pass)[i]]
    BY <1>8 DEF CipherOf
  <1> QED
    BY <1>8, <1>9

\* The bytes of an export are bytes, ciphertext and a digest.
Bytes == {Byte(k) : k \in Nat}
Ciphers(n, pass) == {CipherOf(n, pass)[i] : i \in 1 .. n + 2}
Digests(n, pass) == {digest(KeyOf(pass), OutputOf(n, pass))[i] : i \in 1 .. DigestBytes}
Parts(n, pass) == Bytes \cup Ciphers(n, pass) \cup Digests(n, pass)

\* Where version, salt, iv, rounds and ciphertext are in what is digested.
LEMMA OutputPlaces ==
    ASSUME NEW n \in Nat, NEW pass
    PROVE  LET o == OutputOf(n, pass)
               head == 1 + SaltBytes + BlockBytes + 4
           IN  /\ o \in Seq(Parts(n, pass)) /\ Len(o) = head + (n + 2)
               /\ o[1] = Byte(1)
               /\ \A j \in 1 .. SaltBytes : o[1 + j] = SaltOf[j]
               /\ \A j \in 1 .. BlockBytes : o[1 + SaltBytes + j] = IvOf[j]
               /\ \A j \in 1 .. 4 : o[1 + SaltBytes + BlockBytes + j] = RoundsOf[j]
               /\ \A i \in 1 .. n + 2 : o[head + i] = CipherOf(n, pass)[i]
  <1> DEFINE S == Parts(n, pass)
  <1>1. /\ \A i \in 1 .. SaltBytes : Byte(i) \in S
        /\ \A i \in 1 .. BlockBytes : Byte(100 + i) \in S
        /\ \A i \in 1 .. 4 : Byte(uint32_to_uint8(Rounds)[i]) \in S
        /\ Byte(1) \in S
    <2>1. \A k \in Nat : Byte(k) \in S
      BY DEF Parts, Bytes
    <2>2. \A i \in 1 .. 4 : uint32_to_uint8(Rounds)[i] \in Nat
      BY DEF uint32_to_uint8, Rounds
    <2> HIDE DEF S
    <2> QED
      BY <2>1, <2>2, LengthsAssumption
  <1>2. \A i \in 1 .. n + 2 : CipherOf(n, pass)[i] \in S
    BY DEF Parts, Ciphers
  <1>3. CipherOf(n, pass) = [i \in 1 .. n + 2 |-> CipherOf(n, pass)[i]]
    BY PlainPlaces
  <1> HIDE DEF S
  <1>4. SaltOf \in Seq(S) /\ Len(SaltOf) = SaltBytes
    BY <1>1, LengthsAssumption, IsASeq DEF SaltOf
  <1>5. IvOf \in Seq(S) /\ Len(IvOf) = BlockBytes
    BY <1>1, LengthsAssumption, IsASeq DEF IvOf
  <1>6. RoundsOf \in Seq(S) /\ Len(RoundsOf) = 4
    BY <1>1, IsASeq DEF RoundsOf
  <1>7. CipherOf(n, pass) \in Seq(S) /\ Len(CipherOf(n, pass)) = n + 2
    BY <1>2, <1>3, IsASeq
  <1>8. PICK a \in Seq(S), b \in Seq(S), c \in Seq(S), d \in Seq(S), e \in Seq(S) :
          /\ a = <<Byte(1)>> /\ b = SaltOf /\ c = IvOf /\ d = RoundsOf /\ e = CipherOf(n, pass)
          /\ Len(a) = 1 /\ a[1] = Byte(1)
    <2>1. <<Byte(1)>> \in Seq(S) /\ Len(<<Byte(1)>>) = 1 /\ <<Byte(1)>>[1] = Byte(1)
      BY <1>1
    <2> QED
      BY <1>4, <1>5, <1>6, <1>7, <2>1
  <1>9. OutputOf(n, pass) = a \o b \o c \o d \o e
    BY <1>8 DEF OutputOf
  <1>10. /\ Len(b) = SaltBytes /\ Len(c) = BlockBytes /\ Len(d) = 4 /\ Len(e) = n + 2
    BY <1>4, <1>5, <1>6, <1>7, <1>8
  <1>11. PICK p \in Nat, q \in Nat, r \in Nat :
           p = 1 + SaltBytes /\ q = p + BlockBytes /\ r = q + 4
    BY LengthsAssumption
  <1>12. PICK ab \in Seq(S) : Joins(ab, a, b, 1, SaltBytes)
    BY <1>8, <1>10, LengthsAssumption, ConcatPlaces
  <1>13. ab = a \o b /\ Len(ab) = p /\ (\A j \in 1 .. 1 : ab[j] = a[j]) /\ \A j \in 1 .. SaltBytes : ab[1 + j] = b[j]
    BY <1>11, <1>12 DEF Joins
  <1>14. PICK abc \in Seq(S) : Joins(abc, ab, c, p, BlockBytes)
    BY <1>10, <1>13, LengthsAssumption, ConcatPlaces
  <1>15. abc = ab \o c /\ Len(abc) = q /\ (\A j \in 1 .. p : abc[j] = ab[j]) /\ \A j \in 1 .. BlockBytes : abc[p + j] = c[j]
    BY <1>11, <1>14 DEF Joins
  <1>16. PICK abcd \in Seq(S) : Joins(abcd, abc, d, q, 4)
    BY <1>10, <1>15, ConcatPlaces
  <1>17. abcd = abc \o d /\ Len(abcd) = r /\ (\A j \in 1 .. q : abcd[j] = abc[j]) /\ \A j \in 1 .. 4 : abcd[q + j] = d[j]
    BY <1>11, <1>16 DEF Joins
  <1>18. PICK o \in Seq(S) : Joins(o, abcd, e, r, n + 2)
    <2>1. PICK z \in Nat : z = n + 2
      OBVIOUS
    <2>2. \E o \in Seq(S) : Joins(o, abcd, e, r, z)
      BY <1>10, <1>17, <2>1, ConcatPlaces
    <2> QED
      BY <2>1, <2>2
  <1>19. o = abcd \o e /\ Len(o) = r + (n + 2) /\ (\A j \in 1 .. r : o[j] = abcd[j]) /\ \A j \in 1 .. n + 2 : o[r + j] = e[j]
    BY <1>18 DEF Joins
  <1>20. OutputOf(n, pass) = o
    BY <1>9, <1>13, <1>15, <1>17, <1>19
  <1>21. 1 <= p /\ p <= q /\ q <= r
    BY <1>11, LengthsAssumption
  <1>22. ASSUME NEW j \in 1 .. q PROVE o[j] = abc[j]
    <2>1. j \in 1 .. r
      BY <1>21
    <2> QED
      BY <1>17, <1>19, <2>1
  <1>23. ASSUME NEW j \in 1 .. p PROVE o[j] = ab[j]
    <2>1. j \in 1 .. q
      BY <1>21
    <2> QED
      BY <1>15, <1>22, <2>1
  <1>24. o[1] = Byte(1)
    BY <1>8, <1>13, <1>21, <1>23
  <1>25. ASSUME NEW j \in 1 .. SaltBytes PROVE o[1 + j] = SaltOf[j]
    <2>1. 1 + j \in 1 .. p
      BY <1>11, LengthsAssumption
    <2> QED
      BY <1>8, <1>13, <1>23, <2>1
  <1>26. ASSUME NEW j \in 1 .. BlockBytes PROVE o[1 + SaltBytes + j] = IvOf[j]
    <2>1. PICK k \in 1 .. q : k = p + j /\ k = 1 + SaltBytes + j
      BY <1>11, LengthsAssumption
    <2>2. o[k] = c[j]
      BY <1>15, <1>22, <2>1
    <2> QED
      BY <1>8, <2>1, <2>2
  <1>27. ASSUME NEW j \in 1 .. 4 PROVE o[1 + SaltBytes + BlockBytes + j] = RoundsOf[j]
    <2>1. PICK k \in 1 .. r : k = q + j /\ k = 1 + SaltBytes + BlockBytes + j
      BY <1>11, LengthsAssumption
    <2>2. o[k] = d[j]
      BY <1>17, <1>19, <2>1
    <2> QED
      BY <1>8, <2>1, <2>2
  <1>28. ASSUME NEW i \in 1 .. n + 2 PROVE o[1 + SaltBytes + BlockBytes + 4 + i] = CipherOf(n, pass)[i]
    <2>1. r + i = 1 + SaltBytes + BlockBytes + 4 + i
      BY <1>11, LengthsAssumption
    <2>2. o[r + i] = e[i]
      BY <1>19
    <2> QED
      BY <1>8, <2>1, <2>2
  <1>29. o \in Seq(S) /\ Len(o) = 1 + SaltBytes + BlockBytes + 4 + (n + 2)
    BY <1>11, <1>19, LengthsAssumption
  <1> QED
    BY <1>20, <1>24, <1>25, <1>26, <1>27, <1>28, <1>29 DEF S

\* Of which kind the parts are: the digest is one of the key and the bytes before it.
Genuine(x, n, pass) == x[1] = "digest" => x[2] = KeyOf(pass) /\ x[3] = OutputOf(n, pass)
\* No part is a line end or a foreign character, and every digest is genuine.
LEMMA PartKinds ==
    ASSUME NEW n \in Nat, NEW pass, NEW x \in Parts(n, pass)
    PROVE  ~Dropped(x) /\ ~Stops(x) /\ Genuine(x, n, pass)
  <1>1. CASE x \in Bytes
    BY <1>1 DEF Bytes, Byte, Dropped, Stops, Genuine
  <1>2. CASE x \in Ciphers(n, pass)
    <2>1. PICK i \in 1 .. n + 2 : x = CipherOf(n, pass)[i]
      BY <1>2 DEF Ciphers
    <2>2. x = AES_CTR_256_Encrypt(Plain(n)[i], KeyOf(pass), <<IvOf, i>>)
      BY <2>1, PlainPlaces DEF CipherOf
    <2>3. x[1] = "ciphertext"
      BY <2>2 DEF AES_CTR_256_Encrypt
    <2> QED
      BY <2>3 DEF Dropped, Stops, Genuine
  <1>3. CASE x \in Digests(n, pass)
    <2>1. PICK i \in 1 .. DigestBytes : x = digest(KeyOf(pass), OutputOf(n, pass))[i]
      BY <1>3 DEF Digests
    <2>2. x = <<"digest", KeyOf(pass), OutputOf(n, pass), i>>
      BY <2>1 DEF digest
    <2>3. x[1] = "digest" /\ x[2] = KeyOf(pass) /\ x[3] = OutputOf(n, pass)
      BY <2>2
    <2> QED
      BY <2>3 DEF Dropped, Stops, Genuine
  <1> QED
    BY <1>1, <1>2, <1>3 DEF Parts

\* The digest is at the end of the bytes, after all that it is of.
LEMMA BytesPlaces ==
    ASSUME NEW n \in Nat, NEW pass
    PROVE  LET b == BytesOf(n, pass)
               l == Len(OutputOf(n, pass))
           IN  /\ b \in Seq(Parts(n, pass)) /\ Len(b) = l + DigestBytes
               /\ SubSeq(b, 1, l) = OutputOf(n, pass)
               /\ SubSeq(b, l + 1, Len(b)) = digest(KeyOf(pass), OutputOf(n, pass))
  <1> DEFINE S == Parts(n, pass)
  <1>1. PICK d : d = digest(KeyOf(pass), OutputOf(n, pass))
    OBVIOUS
  <1>2. d \in Seq(S) /\ Len(d) = DigestBytes
    <2>1. \A i \in 1 .. DigestBytes : d[i] \in S
      BY <1>1 DEF Parts, Digests
    <2>2. d = [i \in 1 .. DigestBytes |-> d[i]]
      BY <1>1 DEF digest
    <2> HIDE DEF S
    <2> QED
      BY <2>1, <2>2, LengthsAssumption, IsASeq
  <1>3. PICK o \in Seq(S) : o = OutputOf(n, pass)
    BY OutputPlaces
  <1>4. BytesOf(n, pass) = o \o d
    BY <1>1, <1>3 DEF BytesOf
  <1> HIDE DEF S
  <1>5. o \o d \in Seq(S) /\ Len(o \o d) = Len(o) + DigestBytes
    BY <1>2, LengthsAssumption
  <1>6. SubSeq(o \o d, 1, Len(o)) = o
    BY <1>2, SubSeqOfConcat1, SubSeqFull
  <1>7. SubSeq(o \o d, Len(o) + 1, Len(o \o d)) = d
    BY <1>2
  <1> QED
    BY <1>1, <1>3, <1>4, <1>5, <1>6, <1>7 DEF S

\* The lines between which an application puts the bytes, and line ends.
Marks == {<<"header">>, <<"trailer">>, <<"newline">>, <<"return">>}

\* What may be found in an export: its parts, the lines around them, and, when it
\* was not written as base64, what no decoder takes.
Lines(n, pass) == Parts(n, pass) \cup Marks
Raw(n, pass) == {<<"raw", x>> : x \in Lines(n, pass)}
Found(n, pass) == Lines(n, pass) \cup Raw(n, pass)

\* A digest that is found is the one that was made.
LEMMA FoundIsGenuine ==
    ASSUME NEW n \in Nat, NEW pass, NEW x \in Found(n, pass)
    PROVE  Genuine(x, n, pass)
  <1>1. CASE x \in Parts(n, pass)
    BY <1>1, PartKinds
  <1>2. CASE x \in Marks
    BY <1>2 DEF Marks, Genuine
  <1>3. CASE x \in Raw(n, pass)
    <2>1. x[1] = "raw"
      BY <1>3 DEF Raw
    <2> QED
      BY <2>1 DEF Genuine
  <1> QED
    BY <1>1, <1>2, <1>3 DEF Found, Lines

\* What is left of an export when it was not refused: the digest at its end is
\* the genuine one, so the password is right and all that is before it unchanged.
LEMMA DigestTells ==
    ASSUME NEW n \in Nat, NEW pass,
           NEW data, base642bin(unpack_key_file(data)) \in Seq(Found(n, pass)),
           NEW p, decrypt_exported_sessions(data, p) # Throws
    PROVE  p = pass /\ decrypt_exported_sessions(data, p) = Plain(n)
  <1> DEFINE S == Found(n, pass)
  <1>0. \A x \in S : Genuine(x, n, pass)
    BY FoundIsGenuine
  <1>1. PICK b \in Seq(S) : b = base642bin(unpack_key_file(data))
    OBVIOUS
  <1> HIDE DEF S
  <1> DEFINE json_end == Len(b) - DigestBytes
             salt == SubSeq(b, 2, 1 + SaltBytes)
             iv == SubSeq(b, 1 + SaltBytes + 1, 1 + SaltBytes + BlockBytes)
             rounds == [i \in 1 .. 4 |-> Number(b[1 + SaltBytes + BlockBytes + i])]
             json == SubSeq(b, 1 + SaltBytes + BlockBytes + 5, json_end)
             key == <<p, salt, uint8_to_uint32(rounds)>>
             text == [i \in DOMAIN json |-> AES_CTR_256_Decrypt(json[i], key, <<iv, i>>)]
  <1>2. decrypt_exported_sessions(data, p) =
          IF Len(b) < min_size \/ b[1] # Byte(1) THEN Throws
          ELSE IF digest(key, SubSeq(b, 1, json_end)) # SubSeq(b, json_end + 1, Len(b)) THEN Throws
          ELSE text
    BY <1>1 DEF decrypt_exported_sessions
  <1>3. PICK k : k = key
    OBVIOUS
  <1>4. /\ Len(b) >= min_size
        /\ digest(k, SubSeq(b, 1, json_end)) = SubSeq(b, json_end + 1, Len(b))
        /\ decrypt_exported_sessions(data, p) = text
    <2> HIDE DEF key, text, json_end
    <2>1. Len(b) \in Nat /\ min_size \in Nat
      BY LengthsAssumption DEF min_size
    <2> QED
      BY <1>2, <1>3, <2>1
  <1>5. json_end \in Nat /\ json_end + 1 \in 1 .. Len(b)
    BY <1>4, LengthsAssumption DEF min_size
  <1>6. PICK prefix : prefix = SubSeq(b, 1, json_end)
    OBVIOUS
  <1>7. k = KeyOf(pass) /\ prefix = OutputOf(n, pass)
    <2>1. PICK x \in S : x = b[json_end + 1]
      BY <1>5
    <2>2. digest(k, prefix)[1] = <<"digest", k, prefix, 1>>
      BY LengthsAssumption DEF digest
    <2>3. SubSeq(b, json_end + 1, Len(b))[1] = x
      BY <1>5, <2>1
    <2> HIDE DEF json_end
    <2>4. x = <<"digest", k, prefix, 1>>
      BY <1>4, <1>6, <2>2, <2>3
    <2>5. Genuine(x, n, pass)
      BY <1>0, <2>1
    <2>6. x[1] = "digest" /\ x[2] = k /\ x[3] = prefix
      BY <2>4
    <2> QED
      BY <2>5, <2>6 DEF Genuine
  <1>8. p = pass
    BY <1>3, <1>7 DEF KeyOf
  <1>9. PICK h \in Nat : h = 1 + SaltBytes + BlockBytes + 4
    BY LengthsAssumption
  <1>10. json_end = h + (n + 2)
    <2>1. Len(SubSeq(b, 1, json_end)) = json_end
      BY <1>5
    <2>2. Len(OutputOf(n, pass)) = 1 + SaltBytes + BlockBytes + 4 + (n + 2)
      BY OutputPlaces
    <2> QED
      BY <1>6, <1>7, <1>9, <2>1, <2>2
  <1>11. \A j \in 1 .. h + (n + 2) : b[j] = OutputOf(n, pass)[j]
    <2>1. \A j \in 1 .. json_end : SubSeq(b, 1, json_end)[j] = b[j]
      BY <1>5
    <2> HIDE DEF json_end
    <2> QED
      BY <1>6, <1>7, <1>10, <2>1
  <1>12. iv = IvOf
    <2>1. \A j \in 1 .. BlockBytes : b[1 + SaltBytes + j] = IvOf[j]
      <3>1. TAKE j \in 1 .. BlockBytes
      <3>2. 1 + SaltBytes + j \in 1 .. h + (n + 2)
        BY <1>9, LengthsAssumption
      <3> QED
        BY <1>11, <3>2, OutputPlaces
    <2>2. Len(b) >= 1 + SaltBytes + BlockBytes
      BY <1>5, <1>9, <1>10, LengthsAssumption
    <2>3. iv = [j \in 1 .. BlockBytes |-> b[1 + SaltBytes + j]]
      BY <2>2, LengthsAssumption
    <2>4. IvOf = [j \in 1 .. BlockBytes |-> IvOf[j]]
      BY DEF IvOf
    <2> QED
      BY <2>1, <2>3, <2>4
  <1>13. DOMAIN json = 1 .. n + 2 /\ \A i \in 1 .. n + 2 : json[i] = CipherOf(n, pass)[i]
    <2>1. json = SubSeq(b, h + 1, h + (n + 2))
      <3>1. 1 + SaltBytes + BlockBytes + 5 = h + 1
        BY <1>9, LengthsAssumption
      <3> HIDE DEF json_end
      <3> QED
        BY <1>10, <3>1
    <2>2. h + (n + 2) \in 0 .. Len(b)
      BY <1>5, <1>10
    <2> HIDE DEF json
    <2>3. json = [i \in 1 .. n + 2 |-> b[h + i]]
      BY <2>1, <2>2
    <2>4. \A i \in 1 .. n + 2 : b[h + i] = CipherOf(n, pass)[i]
      <3>1. TAKE i \in 1 .. n + 2
      <3>2. h + i \in 1 .. h + (n + 2)
        OBVIOUS
      <3>3. OutputOf(n, pass)[h + i] = CipherOf(n, pass)[i]
        BY <1>9, OutputPlaces
      <3> QED
        BY <1>11, <3>2, <3>3
    <2> QED
      BY <2>3, <2>4
  <1> HIDE DEF json, iv, key
  <1>14. ASSUME NEW i \in 1 .. n + 2
         PROVE  AES_CTR_256_Decrypt(json[i], key, <<iv, i>>) = Plain(n)[i]
    <2>1. json[i] = AES_CTR_256_Encrypt(Plain(n)[i], KeyOf(pass), <<IvOf, i>>)
      BY <1>13, PlainPlaces DEF CipherOf
    <2>2. key = KeyOf(pass)
      BY <1>3, <1>7
    <2> QED
      BY <1>12, <2>1, <2>2 DEF AES_CTR_256_Encrypt, AES_CTR_256_Decrypt
  <1>15. text = [i \in 1 .. n + 2 |-> Plain(n)[i]]
    BY <1>13, <1>14
  <1> QED
    BY <1>4, <1>8, <1>15, PlainPlaces

\* The bytes as they were made are not refused to who knows the password.
LEMMA BytesOpen ==
    ASSUME NEW n \in Nat, NEW pass, NEW data, base642bin(unpack_key_file(data)) = BytesOf(n, pass)
    PROVE  decrypt_exported_sessions(data, pass) # Throws
  <1> DEFINE o == OutputOf(n, pass)
             S == Parts(n, pass)
  <1>1. PICK b \in Seq(S), l \in Nat :
          /\ b = BytesOf(n, pass) /\ l = Len(o) /\ Len(b) = l + DigestBytes
          /\ SubSeq(b, 1, l) = o
          /\ SubSeq(b, l + 1, Len(b)) = digest(KeyOf(pass), o)
    <2>1. Len(o) \in Nat
      BY OutputPlaces
    <2> QED
      BY <2>1, BytesPlaces
  <1> DEFINE json_end == Len(b) - DigestBytes
             salt == SubSeq(b, 2, 1 + SaltBytes)
             iv == SubSeq(b, 1 + SaltBytes + 1, 1 + SaltBytes + BlockBytes)
             rounds == [i \in 1 .. 4 |-> Number(b[1 + SaltBytes + BlockBytes + i])]
             json == SubSeq(b, 1 + SaltBytes + BlockBytes + 5, json_end)
             key == <<pass, salt, uint8_to_uint32(rounds)>>
             text == [i \in DOMAIN json |-> AES_CTR_256_Decrypt(json[i], key, <<iv, i>>)]
  <1>2. decrypt_exported_sessions(data, pass) =
          IF Len(b) < min_size \/ b[1] # Byte(1) THEN Throws
          ELSE IF digest(key, SubSeq(b, 1, json_end)) # SubSeq(b, json_end + 1, Len(b)) THEN Throws
          ELSE text
    BY <1>1 DEF decrypt_exported_sessions
  <1>3. l = 1 + SaltBytes + BlockBytes + 4 + (n + 2)
    BY <1>1, OutputPlaces
  <1>4. json_end = l
    BY <1>1, LengthsAssumption
  <1>5. \A j \in 1 .. l : b[j] = o[j]
    <2>1. l <= Len(b)
      BY <1>1, LengthsAssumption
    <2>2. \A j \in 1 .. l : SubSeq(b, 1, l)[j] = b[j]
      BY <2>1
    <2> QED
      BY <1>1, <2>2
  <1>6. b[1] = Byte(1)
    <2>1. 1 \in 1 .. l
      BY <1>3, LengthsAssumption
    <2> QED
      BY <1>5, <2>1, OutputPlaces
  <1>7. Len(b) >= min_size /\ Len(b) \in Nat /\ min_size \in Nat
    BY <1>1, <1>3, LengthsAssumption DEF min_size
  <1>8. salt = SaltOf
    <2>1. \A j \in 1 .. SaltBytes : b[1 + j] = SaltOf[j]
      <3>1. TAKE j \in 1 .. SaltBytes
      <3>2. 1 + j \in 1 .. l
        BY <1>3, LengthsAssumption
      <3> QED
        BY <1>5, <3>2, OutputPlaces
    <2>2. Len(b) >= 1 + SaltBytes
      BY <1>1, <1>3, LengthsAssumption
    <2>3. salt = [j \in 1 .. SaltBytes |-> b[1 + j]]
      BY <2>2, LengthsAssumption
    <2>4. SaltOf = [j \in 1 .. SaltBytes |-> SaltOf[j]]
      BY DEF SaltOf
    <2> QED
      BY <2>1, <2>3, <2>4
  <1>9. uint8_to_uint32(rounds) = Rounds
    <2>1. \A j \in 1 .. 4 : rounds[j] = uint32_to_uint8(Rounds)[j]
      <3>1. TAKE j \in 1 .. 4
      <3>2. 1 + SaltBytes + BlockBytes + j \in 1 .. l
        BY <1>3, LengthsAssumption
      <3>3. b[1 + SaltBytes + BlockBytes + j] = RoundsOf[j]
        BY <1>5, <3>2, OutputPlaces
      <3>4. RoundsOf[j] = Byte(uint32_to_uint8(Rounds)[j])
        BY DEF RoundsOf
      <3> QED
        BY <3>3, <3>4 DEF Number, Byte
    <2> HIDE DEF rounds
    <2>2. uint8_to_uint32(rounds) = uint8_to_uint32(uint32_to_uint8(Rounds))
      BY <2>1 DEF uint8_to_uint32
    <2>3. uint32_to_uint8(Rounds) = <<0, 1, 134, 160>>
      BY DEF uint32_to_uint8, Rounds
    <2>4. uint8_to_uint32(<<0, 1, 134, 160>>) = Rounds
      BY DEF uint8_to_uint32, Rounds
    <2> QED
      BY <2>2, <2>3, <2>4
  <1>10. key = KeyOf(pass)
    BY <1>8, <1>9 DEF KeyOf
  <1> HIDE DEF key, rounds, salt
  <1>11. digest(key, SubSeq(b, 1, json_end)) = SubSeq(b, json_end + 1, Len(b))
    BY <1>1, <1>4, <1>10
  <1>12. decrypt_exported_sessions(data, pass) = text
    <2> HIDE DEF text, json_end
    <2> QED
      BY <1>2, <1>6, <1>7, <1>11
  <1>13. 1 \in DOMAIN json /\ 2 \in DOMAIN json
    <2>1. json = SubSeq(b, 1 + SaltBytes + BlockBytes + 5, l) /\ l <= Len(b)
      BY <1>1, <1>4, LengthsAssumption
    <2> HIDE DEF json
    <2> QED
      BY <1>3, <2>1, LengthsAssumption
  <1>14. 2 \in DOMAIN text /\ 2 \notin DOMAIN Throws
    <2> HIDE DEF json
    <2> QED
      BY <1>13 DEF Throws
  <1> HIDE DEF text
  <1> QED
    BY <1>12, <1>14
-----------------------------------------------------------------------------
\* Bytes between the lines are such a text, and not an empty one.
LEMMA ArmoredIn ==
    ASSUME NEW S, Marks \subseteq S, NEW b \in Seq(S), NEW newline \in Seq(S)
    PROVE  armor(b, newline) \in Seq(S) /\ Len(armor(b, newline)) > 0
  <1>1. PICK x \in Seq(S), y \in Seq(S) :
          /\ x = SubSeq(b, 1, Len(b) \div 2)
          /\ y = SubSeq(b, Len(b) \div 2 + 1, Len(b))
    <2>1. SubSeq(b, 1, Len(b) \div 2) \in Seq(S) /\ SubSeq(b, Len(b) \div 2 + 1, Len(b)) \in Seq(S)
      OBVIOUS
    <2> QED
      BY <2>1
  <1>2. PICK h \in Seq(S), t \in Seq(S) : h = <<<<"header">>>> /\ t = <<<<"trailer">>>> /\ Len(h) = 1
    <2>1. <<"header">> \in S /\ <<"trailer">> \in S
      BY DEF Marks
    <2>2. <<<<"header">>>> \in Seq(S) /\ <<<<"trailer">>>> \in Seq(S) /\ Len(<<<<"header">>>>) = 1
      BY <2>1
    <2> QED
      BY <2>2
  <1>3. armor(b, newline) = h \o newline \o x \o newline \o y \o newline \o t
    BY <1>1, <1>2 DEF armor
  <1>5. h \o newline \o x \o newline \o y \o newline \o t \in Seq(S)
    OBVIOUS
  <1>6. Len(h \o newline \o x \o newline \o y \o newline \o t) > 0
    BY <1>2
  <1> QED
    BY <1>3, <1>5, <1>6

\* With line ends as this library takes them out, the bytes are got back.
LEMMA ArmorOpens ==
    ASSUME NEW S, NEW b \in Seq(S), \A x \in S : ~Dropped(x) /\ ~Stops(x)
    PROVE  base642bin(unpack_key_file(armor(b, <<<<"newline">>>>))) = b
  <1> DEFINE T == S \cup Marks
             U(s) == unpack_key_file(s)
  <1>1. PICK m \in Nat, l \in Nat : l = Len(b) /\ m = Len(b) \div 2 /\ m <= l
    OBVIOUS
  <1>2. PICK x \in Seq(S), y \in Seq(S) : x = SubSeq(b, 1, m) /\ y = SubSeq(b, m + 1, Len(b))
    <2>1. SubSeq(b, 1, m) \in Seq(S) /\ SubSeq(b, m + 1, Len(b)) \in Seq(S)
      BY <1>1
    <2> QED
      BY <2>1
  <1>3. x \o y = b
    <2>1. 1 \in 1 .. Len(b) + 1 /\ m \in 1 - 1 .. Len(b) /\ Len(b) \in m .. Len(b)
      BY <1>1
    <2>2. SubSeq(b, 1, m) \o SubSeq(b, m + 1, Len(b)) = SubSeq(b, 1, Len(b))
      BY <2>1, ConcatAdjacentSubSeq
    <2> QED
      BY <1>2, <2>2, SubSeqFull
  <1>4. U(x) = x /\ U(y) = y
    BY UnpackPlain
  <1>5. /\ Dropped(<<"header">>) /\ Dropped(<<"newline">>) /\ Dropped(<<"trailer">>)
        /\ <<"header">> \in T /\ <<"newline">> \in T /\ <<"trailer">> \in T
    BY DEF Dropped, Marks
  <1>6. x \in Seq(T) /\ y \in Seq(T) /\ S \subseteq T
    BY SeqMonotonic
  <1> HIDE DEF T
  <1>7. PICK h \in Seq(T), e \in Seq(T), t \in Seq(T) :
          h = <<<<"header">>>> /\ e = <<<<"newline">>>> /\ t = <<<<"trailer">>>>
    <2>1. <<<<"header">>>> \in Seq(T) /\ <<<<"newline">>>> \in Seq(T) /\ <<<<"trailer">>>> \in Seq(T)
      BY <1>5
    <2> QED
      BY <2>1
  <1>8. U(h) = <<>> /\ U(e) = <<>> /\ U(t) = <<>>
    BY <1>5, <1>7, UnpackDropped
  <1>9. armor(b, <<<<"newline">>>>) = h \o e \o x \o e \o y \o e \o t
    BY <1>1, <1>2, <1>7 DEF armor
  <1>10. \A v, w \in Seq(T) : v \o w \in Seq(T) /\ U(v \o w) = U(v) \o U(w)
    <2>1. TAKE v, w \in Seq(T)
    <2>2. U(v \o w) = U(v) \o U(w)
      BY UnpackConcat
    <2> QED
      BY <2>2
  <1> HIDE DEF U
  <1>11. U(h \o e \o x \o e \o y \o e \o t) = U(h) \o U(e) \o U(x) \o U(e) \o U(y) \o U(e) \o U(t)
    <2>1. PICK h1 \in Seq(T) : h1 = h \o e /\ U(h1) = U(h) \o U(e)
      BY <1>10
    <2>2. PICK h2 \in Seq(T) : h2 = h1 \o x /\ U(h2) = U(h1) \o U(x)
      BY <1>6, <1>10
    <2>3. PICK h3 \in Seq(T) : h3 = h2 \o e /\ U(h3) = U(h2) \o U(e)
      BY <1>10
    <2>4. PICK h4 \in Seq(T) : h4 = h3 \o y /\ U(h4) = U(h3) \o U(y)
      BY <1>6, <1>10
    <2>5. PICK h5 \in Seq(T) : h5 = h4 \o e /\ U(h5) = U(h4) \o U(e)
      BY <1>10
    <2>6. U(h5 \o t) = U(h5) \o U(t)
      BY <1>10
    <2> QED
      BY <2>1, <2>2, <2>3, <2>4, <2>5, <2>6, Zenon
  <1>12. U(h) \o U(e) \o U(x) \o U(e) \o U(y) \o U(e) \o U(t) = x \o y
    <2>1. <<>> \o <<>> = <<>>
      OBVIOUS
    <2>2. <<>> \o x = x /\ x \o <<>> = x /\ (x \o y) \o <<>> = x \o y
      <3>1. x \o y \in Seq(S)
        OBVIOUS
      <3> QED
        BY <3>1, ConcatEmptySeq
    <2> QED
      BY <1>4, <1>8, <2>1, <2>2, Zenon
  <1>13. unpack_key_file(armor(b, <<<<"newline">>>>)) = b
    BY <1>3, <1>9, <1>11, <1>12 DEF U
  <1>14. base642bin(b) = b
    BY DecodesAll
  <1> QED
    BY <1>13, <1>14

\* An export as it is made is the bytes between its lines.
LEMMA ExportText ==
    ASSUME NEW n \in Nat, NEW pass
    PROVE  /\ exported(n, pass) \in Seq(Lines(n, pass)) /\ Len(exported(n, pass)) > 0
           /\ base642bin(unpack_key_file(exported(n, pass))) = BytesOf(n, pass)
  <1> DEFINE P == Parts(n, pass)
             L == Lines(n, pass)
  <1>1. PICK b \in Seq(P) : b = BytesOf(n, pass)
    BY BytesPlaces
  <1>2. exported(n, pass) = armor(b, <<<<"newline">>>>)
    BY <1>1, ExportedBytes DEF exported
  <1>3. \A x \in P : ~Dropped(x) /\ ~Stops(x)
    BY PartKinds
  <1>4. Marks \subseteq L /\ P \subseteq L /\ <<"newline">> \in L
    BY DEF Lines, Marks
  <1> HIDE DEF P, L
  <1>5. base642bin(unpack_key_file(armor(b, <<<<"newline">>>>))) = b
    BY <1>3, ArmorOpens
  <1>6. b \in Seq(L)
    BY <1>4, SeqMonotonic
  <1>7. PICK e \in Seq(L) : e = <<<<"newline">>>>
    <2>1. <<<<"newline">>>> \in Seq(L)
      BY <1>4
    <2> QED
      BY <2>1
  <1>8. armor(b, e) \in Seq(L) /\ Len(armor(b, e)) > 0
    BY <1>4, <1>6, ArmoredIn
  <1> QED
    BY <1>1, <1>2, <1>5, <1>7, <1>8 DEF L

\* A text that begins with a return begins with it whatever follows.
Begins(s) == Len(s) > 0 /\ s[1] = <<"return">>
\* The beginning of a concatenation is that of its first part.
LEMMA StillBegins ==
    ASSUME NEW S, NEW s \in Seq(S), NEW t \in Seq(S), Begins(s)
    PROVE  Begins(s \o t)
  BY DEF Begins

\* With both characters of a line end, as another system writes it, nothing of
\* an export is decoded.
LEMMA CrlfText ==
    ASSUME NEW n \in Nat, NEW pass
    PROVE  LET t == armor(BytesOf(n, pass), <<<<"return">>, <<"newline">>>>)
           IN  t \in Seq(Lines(n, pass)) /\ base642bin(unpack_key_file(t)) = <<>>
  <1> DEFINE P == Parts(n, pass)
             L == Lines(n, pass)
             U(s) == unpack_key_file(s)
  <1>1. PICK b \in Seq(P) : b = BytesOf(n, pass)
    BY BytesPlaces
  <1>2. /\ Marks \subseteq L /\ P \subseteq L
        /\ <<"newline">> \in L /\ <<"return">> \in L /\ <<"header">> \in L /\ <<"trailer">> \in L
    BY DEF Lines, Marks
  <1> HIDE DEF P, L
  <1>3. b \in Seq(L)
    BY <1>2, SeqMonotonic
  <1>4. PICK e \in Seq(L), h \in Seq(L), t \in Seq(L), r \in Seq(L), l \in Seq(L) :
          /\ e = <<<<"return">>, <<"newline">>>> /\ h = <<<<"header">>>> /\ t = <<<<"trailer">>>>
          /\ r = <<<<"return">>>> /\ l = <<<<"newline">>>>
    <2>1. /\ <<<<"return">>, <<"newline">>>> \in Seq(L) /\ <<<<"header">>>> \in Seq(L)
          /\ <<<<"trailer">>>> \in Seq(L) /\ <<<<"return">>>> \in Seq(L) /\ <<<<"newline">>>> \in Seq(L)
      BY <1>2
    <2> QED
      BY <2>1
  <1>5. armor(b, e) \in Seq(L)
    BY <1>2, <1>3, ArmoredIn
  <1>6. PICK x \in Seq(L), y \in Seq(L) :
          /\ x = SubSeq(b, 1, Len(b) \div 2)
          /\ y = SubSeq(b, Len(b) \div 2 + 1, Len(b))
    <2>1. SubSeq(b, 1, Len(b) \div 2) \in Seq(L) /\ SubSeq(b, Len(b) \div 2 + 1, Len(b)) \in Seq(L)
      BY <1>3
    <2> QED
      BY <2>1
  <1>7. armor(b, e) = h \o e \o x \o e \o y \o e \o t
    BY <1>4, <1>6 DEF armor
  <1>8. e = r \o l
    BY <1>4
  <1>9. \A v, z \in Seq(L) : v \o z \in Seq(L) /\ U(v \o z) = U(v) \o U(z)
    <2>1. TAKE v, z \in Seq(L)
    <2>2. U(v \o z) = U(v) \o U(z)
      BY UnpackConcat
    <2> QED
      BY <2>2
  <1>10. U(h) = <<>> /\ U(l) = <<>>
    <2>1. Dropped(<<"header">>) /\ Dropped(<<"newline">>)
      BY DEF Dropped
    <2> QED
      BY <1>4, <2>1, UnpackDropped
  <1>11. U(r) = r
    <2>1. \A i \in 1 .. Len(r) : ~Dropped(r[i])
      BY <1>4 DEF Dropped
    <2> QED
      BY <2>1, UnpackPlain
  <1>12. \A s \in Seq(L) : U(s) \in Seq(L)
    <2>1. TAKE s \in Seq(L)
    <2>2. PICK K : K = {z \in L : ~Dropped(z)}
      OBVIOUS
    <2>3. U(s) \in Seq(K)
      BY <2>2, UnpackedIn
    <2>4. K \subseteq L
      BY <2>2
    <2> HIDE DEF U
    <2> QED
      BY <2>3, <2>4, SeqMonotonic
  <1> HIDE DEF U
  <1>13. Begins(U(h \o e))
    <2>1. U(e) = r
      <3>1. U(e) = U(r) \o U(l)
        BY <1>8, <1>9
      <3>2. r \o <<>> = r
        BY ConcatEmptySeq
      <3> QED
        BY <1>10, <1>11, <3>1, <3>2
    <2>2. U(h \o e) = U(h) \o U(e)
      BY <1>9
    <2>3. <<>> \o r = r
      BY ConcatEmptySeq
    <2>4. Begins(r)
      BY <1>4 DEF Begins
    <2> QED
      BY <1>10, <2>1, <2>2, <2>3, <2>4
  <1>14. \A v, z \in Seq(L) : Begins(U(v)) => v \o z \in Seq(L) /\ Begins(U(v \o z))
    <2>1. TAKE v, z \in Seq(L)
    <2>2. PICK p \in Seq(L), q \in Seq(L) : p = U(v) /\ q = U(z)
      BY <1>12
    <2>3. Begins(p) => Begins(p \o q)
      BY StillBegins
    <2> QED
      BY <1>9, <2>2, <2>3
  <1>15. Begins(U(armor(b, e)))
    <2>1. PICK v1 \in Seq(L) : v1 = h \o e /\ Begins(U(v1))
      BY <1>9, <1>13
    <2>2. PICK v2 \in Seq(L) : v2 = v1 \o x /\ Begins(U(v2))
      BY <1>14, <2>1
    <2>3. PICK v3 \in Seq(L) : v3 = v2 \o e /\ Begins(U(v3))
      BY <1>14, <2>2
    <2>4. PICK v4 \in Seq(L) : v4 = v3 \o y /\ Begins(U(v4))
      BY <1>14, <2>3
    <2>5. PICK v5 \in Seq(L) : v5 = v4 \o e /\ Begins(U(v5))
      BY <1>14, <2>4
    <2>6. Begins(U(v5 \o t))
      BY <1>14, <2>5
    <2> QED
      BY <1>7, <2>1, <2>2, <2>3, <2>4, <2>5, <2>6, Zenon
  <1>16. base642bin(U(armor(b, e))) = <<>>
    <2>1. PICK u \in Seq(L) : u = U(armor(b, e)) /\ Begins(u)
      BY <1>5, <1>12, <1>15
    <2>2. Len(u) > 0 /\ Stops(u[1])
      BY <2>1 DEF Begins, Stops
    <2> QED
      BY <2>1, <2>2, DecodesNothing
  <1>17. armor(b, e) \in Seq(L) /\ base642bin(unpack_key_file(armor(b, e))) = <<>>
    BY <1>5, <1>16 DEF U
  <1> QED
    BY <1>1, <1>4, <1>17 DEF L

\* An export that is not base64 is not decoded at all.
LEMMA RawText ==
    ASSUME NEW n \in Nat, NEW pass
    PROVE  LET s == exported(n, pass)
               t == [i \in DOMAIN s |-> <<"raw", s[i]>>]
           IN  t \in Seq(Raw(n, pass)) /\ base642bin(unpack_key_file(t)) = <<>>
  <1> DEFINE R == Raw(n, pass)
  <1>0. PICK L : L = Lines(n, pass)
    OBVIOUS
  <1>1. PICK s \in Seq(L), m \in Nat : s = exported(n, pass) /\ m = Len(s) /\ m > 0
    <2>1. exported(n, pass) \in Seq(L) /\ Len(exported(n, pass)) > 0
      BY <1>0, ExportText
    <2>2. Len(exported(n, pass)) \in Nat
      BY <2>1
    <2> QED
      BY <2>1, <2>2
  <1>2. PICK t : t = [i \in 1 .. m |-> <<"raw", s[i]>>]
    OBVIOUS
  <1>3. t = [i \in DOMAIN s |-> <<"raw", s[i]>>]
    BY <1>1, <1>2
  <1>4. \A i \in 1 .. m : <<"raw", s[i]>> \in R
    BY <1>0, <1>1 DEF Raw
  <1>5. \A i \in 1 .. m : ~Dropped(t[i]) /\ Stops(t[i])
    <2>1. TAKE i \in 1 .. m
    <2>2. t[i][1] = "raw"
      <3>1. t[i] = <<"raw", s[i]>>
        BY <1>2
      <3> QED
        BY <3>1
    <2> QED
      BY <2>2 DEF Dropped, Stops
  <1> HIDE DEF R
  <1>6. t \in Seq(R) /\ Len(t) = m
    BY <1>2, <1>4, IsASeq
  <1>7. unpack_key_file(t) = t
    BY <1>5, <1>6, UnpackPlain
  <1>8. base642bin(t) = <<>>
    <2>1. Len(t) > 0 /\ Stops(t[1])
      BY <1>1, <1>5, <1>6
    <2> QED
      BY <1>6, <2>1, DecodesNothing
  <1> QED
    BY <1>1, <1>3, <1>6, <1>7, <1>8 DEF R

\* Nothing that was not in an export is found in what became of it.
LEMMA DamagedText ==
    ASSUME NEW n \in Nat, NEW pass, NEW d \in ExportDamages(exported(n, pass))
    PROVE  /\ damaged_export(exported(n, pass), d) \in Seq(Found(n, pass))
           /\ d[1] \in {"crlf", "raw"} => base642bin(unpack_key_file(damaged_export(exported(n, pass), d))) = <<>>
  <1>0. PICK L, F, R : L = Lines(n, pass) /\ F = Found(n, pass) /\ R = Raw(n, pass)
    OBVIOUS
  <1>1. PICK s \in Seq(L) : s = exported(n, pass)
    BY <1>0, ExportText
  <1>2. L \subseteq F /\ R \subseteq F /\ Byte(99) \in L
    BY <1>0 DEF Found, Lines, Parts, Bytes
  <1>3. CASE d = <<"crlf">>
    <2>1. PICK t \in Seq(L) : /\ t = armor(BytesOf(n, pass), <<<<"return">>, <<"newline">>>>)
                              /\ base642bin(unpack_key_file(t)) = <<>>
      BY <1>0, CrlfText
    <2>2. damaged_export(exported(n, pass), d) = t
      <3>1. base642bin(unpack_key_file(exported(n, pass))) = BytesOf(n, pass)
        BY ExportText
      <3> QED
        BY <1>3, <2>1, <3>1 DEF damaged_export
    <2>3. t \in Seq(F)
      BY <1>2, SeqMonotonic
    <2> QED
      BY <1>0, <2>1, <2>2, <2>3
  <1>4. CASE d = <<"raw">>
    <2>1. PICK t \in Seq(R) : /\ t = [i \in DOMAIN exported(n, pass) |-> <<"raw", exported(n, pass)[i]>>]
                              /\ base642bin(unpack_key_file(t)) = <<>>
      BY <1>0, RawText
    <2>2. damaged_export(exported(n, pass), d) = t
      BY <1>4, <2>1 DEF damaged_export
    <2>3. t \in Seq(F)
      BY <1>2, <2>1, SeqMonotonic
    <2> QED
      BY <1>0, <2>1, <2>2, <2>3
  <1>5. ASSUME NEW i \in DOMAIN s, d = <<"drop", i>>
        PROVE  d[1] = "drop" /\ damaged_export(s, d) \in Seq(F)
    <2>1. d[1] = "drop" /\ d[2] = i
      BY <1>5
    <2>2. damaged_export(s, d) = RemoveAt(s, i)
      BY <2>1 DEF damaged_export
    <2>3. PICK x \in Seq(L), y \in Seq(L) : x = SubSeq(s, 1, i - 1) /\ y = SubSeq(s, i + 1, Len(s))
      <3>1. SubSeq(s, 1, i - 1) \in Seq(L) /\ SubSeq(s, i + 1, Len(s)) \in Seq(L)
        OBVIOUS
      <3> QED
        BY <3>1
    <2>4. RemoveAt(s, i) = x \o y
      BY <2>3 DEF RemoveAt
    <2>5. PICK z \in Seq(L) : z = x \o y
      <3>1. x \o y \in Seq(L)
        OBVIOUS
      <3> QED
        BY <3>1
    <2>6. z \in Seq(F)
      BY <1>2, SeqMonotonic
    <2> QED
      BY <2>1, <2>2, <2>4, <2>5, <2>6
  <1>6. ASSUME NEW i \in DOMAIN s, d = <<"change", i>>
        PROVE  d[1] = "change" /\ damaged_export(s, d) \in Seq(F)
    <2>1. d[1] = "change" /\ d[2] = i
      BY <1>6
    <2>2. damaged_export(s, d) = [s EXCEPT ![i] = Byte(99)]
      BY <2>1 DEF damaged_export
    <2>3. PICK z \in Seq(L) : z = [s EXCEPT ![i] = Byte(99)]
      <3>1. [s EXCEPT ![i] = Byte(99)] \in Seq(L)
        BY <1>2
      <3> QED
        BY <3>1
    <2>4. z \in Seq(F)
      BY <1>2, SeqMonotonic
    <2> QED
      BY <2>1, <2>2, <2>3, <2>4
  <1>7. \/ d = <<"crlf">> \/ d = <<"raw">>
        \/ \E i \in DOMAIN s : d = <<"drop", i>> \/ d = <<"change", i>>
    BY <1>1 DEF ExportDamages
  <1> QED
    BY <1>0, <1>1, <1>3, <1>4, <1>5, <1>6, <1>7

\* Too few bytes are refused.
LEMMA NothingIsRefused ==
    ASSUME NEW data, base642bin(unpack_key_file(data)) = <<>>, NEW p
    PROVE  decrypt_exported_sessions(data, p) = Throws
  <1>1. Len(<<>>) < min_size
    BY LengthsAssumption DEF min_size
  <1> QED
    BY <1>1 DEF decrypt_exported_sessions

\* An export is read completely or not at all (decrypt_exported_sessions): its
\* digest is of the key and of all that is before it.
LEMMA ReadWholeOrNot == SecretsInv => ExportKept
  <1> SUFFICES ASSUME SecretsInv, Opened("export")
               PROVE  /\ result.text \in {Plain(made.sessions), Throws}
                      /\ result.right /\ damage = Intact => result.text = Plain(made.sessions)
                      /\ ~result.right \/ damage[1] \in {"crlf", "raw"} => result.text = Throws
    BY DEF ExportKept
  <1>1. PICK n \in 0 .. MaxSessions, pass \in Passwords, p \in Passwords :
          /\ made = [sessions |-> n, password |-> pass]
          /\ Kept(exported(n, pass), damaged_export, ExportDamages(exported(n, pass)))
          /\ result = imported(p)
    BY DEF SecretsInv, ExportInv, Opened
  <1>2. /\ made.sessions = n /\ made.password = pass
        /\ result.text = decrypt_exported_sessions(stored, p)
    BY <1>1 DEF imported
  <1>3. result.right <=> p = pass
    BY <1>1 DEF imported
  <1>4. n \in Nat
    BY LengthsAssumption
  <1>5. PICK F : F = Found(n, pass)
    OBVIOUS
  <1>6. stored \in Seq(F)
    <2>1. CASE damage = Intact /\ stored = exported(n, pass)
      <3>0. PICK L : L = Lines(n, pass)
        OBVIOUS
      <3>1. PICK s \in Seq(L) : s = exported(n, pass)
        BY <1>4, <3>0, ExportText
      <3>2. L \subseteq F
        BY <1>5, <3>0 DEF Found
      <3>3. s \in Seq(F)
        BY <3>2, SeqMonotonic
      <3> QED
        BY <2>1, <3>1, <3>3
    <2>2. CASE damage \in ExportDamages(exported(n, pass)) /\ stored = damaged_export(exported(n, pass), damage)
      BY <1>4, <1>5, <2>2, DamagedText
    <2> QED
      BY <1>1, <2>1, <2>2 DEF Kept
  <1>7. base642bin(unpack_key_file(stored)) \in Seq(F)
    <2>1. PICK K : K = {z \in F : ~Dropped(z)}
      OBVIOUS
    <2>2. PICK u \in Seq(K) : u = unpack_key_file(stored)
      BY <1>6, <2>1, UnpackedIn
    <2>3. base642bin(u) \in Seq(K)
      BY DecodedIn
    <2>4. K \subseteq F
      BY <2>1
    <2> QED
      BY <2>2, <2>3, <2>4, SeqMonotonic
  <1>9. result.text # Throws => p = pass /\ result.text = Plain(n)
    <2>1. base642bin(unpack_key_file(stored)) \in Seq(Found(n, pass))
      BY <1>5, <1>7
    <2>2. decrypt_exported_sessions(stored, p) # Throws
          => p = pass /\ decrypt_exported_sessions(stored, p) = Plain(n)
      BY <1>4, <2>1, DigestTells
    <2> QED
      BY <1>2, <2>2
  <1>10. damage = Intact /\ p = pass => result.text # Throws
    <2>1. SUFFICES ASSUME damage = Intact, p = pass
                   PROVE  decrypt_exported_sessions(stored, p) # Throws
      BY <1>2
    <2>2. stored = exported(n, pass)
      <3>1. Intact \notin ExportDamages(exported(n, pass))
        BY DEF Intact, ExportDamages
      <3> QED
        BY <1>1, <2>1, <3>1 DEF Kept
    <2>3. base642bin(unpack_key_file(stored)) = BytesOf(n, pass)
      BY <1>4, <2>2, ExportText
    <2> QED
      BY <1>4, <2>1, <2>3, BytesOpen
  <1>11. damage[1] \in {"crlf", "raw"} => result.text = Throws
    <2>1. SUFFICES ASSUME damage[1] \in {"crlf", "raw"}
                   PROVE  decrypt_exported_sessions(stored, p) = Throws
      BY <1>2
    <2>2. damage \in ExportDamages(exported(n, pass)) /\ stored = damaged_export(exported(n, pass), damage)
      <3>1. damage # Intact
        BY <2>1 DEF Intact
      <3> QED
        BY <1>1, <3>1 DEF Kept
    <2>3. base642bin(unpack_key_file(stored)) = <<>>
      BY <1>4, <2>1, <2>2, DamagedText
    <2> QED
      BY <2>3, NothingIsRefused
  <1> QED
    BY <1>2, <1>3, <1>9, <1>10, <1>11
-----------------------------------------------------------------------------
\* Where things come from is an invariant of the specification.
THEOREM Provenance == Spec => []SecretsInv
  BY NothingMade, ComesFrom, PTL DEF Spec

\* The secret storage opens for its passphrase and its recovery key and for nothing
\* else, whatever is typed and whatever became of the key's description
\* (key_from_passphrase, key_from_recoverykey), for any keys and passwords.
THEOREM StorageOpensForItsKey == Spec => []KeyUnlocks
  BY Provenance, OpensForKey, PTL

\* Secrets, attachments and room keys in the backup come back as they were or are
\* refused (decrypt, decrypt_file, decrypt_session), unless the iv or an
\* attachment's key was changed.
THEOREM WhatIsStoredComesBack == Spec => []SecretsKept
  BY Provenance, ComesBack, PTL

\* What was signed verifies as long as what is signed is unchanged, and only then
\* (ed25519_verify_signature, verify_identity_signature).
THEOREM SignaturesAreTrusted == Spec => []SignaturesVerify
  BY Provenance, SignaturesTell, PTL

\* An export of room keys is read completely or not at all, whatever one change it
\* went through and whatever password is tried, and completely with the password if
\* it is as it was made (encrypt_exported_sessions, decrypt_exported_sessions,
\* unpack_key_file), for every number of sessions and every length of salt, iv and
\* digest.
THEOREM ExportIsWhole == Spec => []ExportKept
  BY Provenance, ReadWholeOrNot, PTL
=============================================================================
