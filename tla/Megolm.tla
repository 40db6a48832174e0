------------------------------- MODULE Megolm -------------------------------
(***************************************************************************)
(* Megolm group sessions as OlmClient offers them.  An outbound session    *)
(* has an id and the index of its next message.  A session key opens the   *)
(* messages from its own index on, and so does the inbound session made    *)
(* of it.  The ratchet is libolm's; only its index is kept.                *)
(***************************************************************************)
EXTENDS Naturals

init_outbound_group_session(id) == [id |-> id, index |-> 0]
session_id(s) == s.id
session_key(s) == [id |-> s.id, index |-> s.index]
\* encrypt_group_message: the ciphertext, and the session after it.
ciphertext(s) == [id |-> s.id, index |-> s.index, damaged |-> FALSE]
encrypted(s) == [s EXCEPT !.index = @ + 1]

init_inbound_group_session(key) == [id |-> key.id, first |-> key.index]
\* export_session, by default at the first known index, and import_session:
\* an imported session cannot go further back than it was exported at.
export_session(s, at) == [id |-> s.id, index |-> at]
import_session(key) == [id |-> key.id, first |-> key.index]

\* decrypt_group_message throws for another session's message, a damaged one
\* and one from before the first known index.
decrypts(s, c) == s.id = c.id /\ ~c.damaged /\ c.index >= s.first
=============================================================================
