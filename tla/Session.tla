------------------------------- MODULE Session -------------------------------
(***************************************************************************)
(* What an application that changes its session in one place expects of     *)
(* mtx::http::Client: at any moment it either has no session or exactly one *)
(* that some homeserver granted, made of the parts the server granted       *)
(* together; a session starts and ends at once, and one is never exchanged  *)
(* for another without ending first.                                        *)
(***************************************************************************)
CONSTANTS User, Host, Token, NoSession

VARIABLES
    held,         \* the session the client presents to the application
    grants,       \* the sessions that were granted
    ended         \* the tokens that were logged out

Sessions == [token : Token, user : User, host : Host]

Init ==
    /\ held = NoSession
    /\ grants \subseteq Sessions
    /\ ended = {}

\* A homeserver grants a session under a token nobody has.
Grant(s) ==
    /\ \A g \in grants : g.token # s.token
    /\ grants' = grants \cup {s}
    /\ UNCHANGED <<held, ended>>

\* A homeserver ends a session.
End(s) ==
    /\ s \in grants
    /\ ended' = ended \cup {s.token}
    /\ UNCHANGED <<held, grants>>

\* The client takes up a session that was granted.
Begin(s) ==
    /\ held = NoSession
    /\ s \in grants
    /\ held' = s
    /\ UNCHANGED <<grants, ended>>

\* The client drops its session.
Drop ==
    /\ held # NoSession
    /\ held' = NoSession
    /\ UNCHANGED <<grants, ended>>

Next ==
    \/ \E s \in Sessions : Grant(s) \/ End(s) \/ Begin(s)
    \/ Drop

Spec == Init /\ [][Next]_<<held, grants, ended>>
=============================================================================
