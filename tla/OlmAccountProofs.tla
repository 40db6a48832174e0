-------------------------- MODULE OlmAccountProofs --------------------------
(***************************************************************************)
(* The one-time and fallback keys of an account, for every number of keys,  *)
(* uploads and messages and every limit of the account: a one-time key      *)
(* opens at most one session, a published key reached the server, and what  *)
(* the server hands out can still be used, with the exceptions the          *)
(* properties name.                                                         *)
(***************************************************************************)
EXTENDS OlmAccount, FiniteSetTheorems, TLAPS

\* What generate() makes of an account: the one-time keys are the newest of the
\* old and the new ones, and a fallback key displaces the current one.
LEMMA GenerateFacts ==
    ASSUME NEW a \in Account, made \in Nat,
           NEW n \in 0 .. MaxGenerate, NEW f \in BOOLEAN,
           made + n + (IF f THEN 1 ELSE 0) <= MaxKeys
    PROVE  LET b == generate(a, n, f)
               new == made + 1 .. made + n
           IN  /\ b \in Account
               /\ b.one_time_keys = newest(a.one_time_keys \cup new)
               /\ b.unpublished = (a.unpublished \cup new) \cap b.one_time_keys
               /\ IF f THEN /\ b.current = made + n + 1 /\ b.previous = a.current
                            /\ ~ b.current_published
                       ELSE /\ b.current = a.current /\ b.previous = a.previous
                            /\ b.current_published = a.current_published
<1> DEFINE new == made + 1 .. made + n
           keep == newest(a.one_time_keys \cup new)
           c == olm_account_generate_one_time_keys(a, new)
           b == generate(a, n, f)
<1>1. keep \subseteq a.one_time_keys \cup new
  BY DEF newest
<1>2. new \subseteq Key /\ (f => made + n + 1 \in Key)
  BY OlmAccountAssumption DEF Key
<1>3. /\ c.one_time_keys = keep
      /\ c.unpublished = (a.unpublished \cup new) \cap keep
      /\ c.current = a.current /\ c.previous = a.previous
      /\ c.current_published = a.current_published
      /\ c \in Account
  <2> HIDE DEF keep, new
  <2>1. c = [a EXCEPT !.one_time_keys = keep, !.unpublished = (@ \cup new) \cap keep]
    BY DEF olm_account_generate_one_time_keys, keep
  <2> QED
    BY <1>1, <1>2, <2>1 DEF Account
<1>4. b = IF f THEN [c EXCEPT !.previous = c.current, !.current = made + n + 1,
                              !.current_published = FALSE]
               ELSE c
  BY DEF generate, olm_account_generate_fallback_key
<1> HIDE DEF c, b
<1>5. CASE f
  <2> HIDE DEF new, keep
  <2>1. /\ b.one_time_keys = keep
        /\ b.unpublished = (a.unpublished \cup new) \cap keep
        /\ b.current = made + n + 1 /\ b.previous = a.current
        /\ b.current_published = FALSE
        /\ b \in Account
    BY <1>2, <1>3, <1>4, <1>5 DEF Account
  <2> QED
    BY <1>5, <2>1 DEF b, new, keep
<1>6. CASE ~ f
  BY <1>3, <1>4, <1>6 DEF b
<1> QED
  BY <1>5, <1>6

\* A new account has no key, and none was used.
LEMMA InitInv == Init => OneTimeInv
<1> SUFFICES ASSUME Init PROVE OneTimeInv
  OBVIOUS
<1>1. create_new_account \in Account
  BY OlmAccountAssumption DEF create_new_account, Account, Key, NoKey
<1>2. TypeOK
  BY <1>1, OlmAccountAssumption DEF Init, TypeOK, NotSent, Key, NoKey, create_new_account
<1> QED
  BY <1>2, OlmAccountAssumption
  DEF Init, OneTimeInv, UsedOnce, UsedGone, MadeBefore, create_new_account, NotSent, NoKey, Key

\* Generating, uploading, using, saving and restoring keep used keys away.
LEMMA NextInv == OneTimeInv /\ [Next]_vars => OneTimeInv'
<1> SUFFICES ASSUME OneTimeInv, [Next]_vars PROVE OneTimeInv'
  OBVIOUS
<1> USE OlmAccountAssumption
<1>t. /\ made \in 0 .. MaxKeys /\ saved.made \in 0 .. MaxKeys
      /\ account \in Account /\ saved.account \in Account
      /\ account.unpublished \subseteq account.one_time_keys
      /\ account.one_time_keys \subseteq Own(made) \ fallbacks
      /\ {account.current, account.previous} \subseteq (Own(made) \cap fallbacks) \cup {NoKey}
  BY DEF OneTimeInv, TypeOK, UsedGone
<1>1. ASSUME NEW n \in 0 .. MaxGenerate, NEW f \in BOOLEAN, generate_one_time_keys(n, f)
      PROVE  OneTimeInv'
  <2> DEFINE b == generate(account, n, f)
             new == made + 1 .. made + n
  <2>1. /\ made' = made + n + (IF f THEN 1 ELSE 0) /\ made' <= MaxKeys
        /\ account' = b
        /\ fallbacks' = fallbacks \cup (IF f THEN {made'} ELSE {})
        /\ hurried' \subseteq hurried \cup (made + 1 .. made')
        /\ early' \subseteq early \cup (IF f THEN {made'} ELSE {})
        /\ UNCHANGED <<opened, saved, upload, store, served_fallback, accepted, message, forgotten>>
    BY <1>1 DEF generate_one_time_keys, server
  <2>2. /\ b \in Account
        /\ b.one_time_keys = newest(account.one_time_keys \cup new)
        /\ b.unpublished = (account.unpublished \cup new) \cap b.one_time_keys
        /\ IF f THEN /\ b.current = made + n + 1 /\ b.previous = account.current
                     /\ ~ b.current_published
                ELSE /\ b.current = account.current /\ b.previous = account.previous
                     /\ b.current_published = account.current_published
    <3>1. /\ account \in Account /\ made \in Nat
          /\ n \in 0 .. MaxGenerate /\ f \in BOOLEAN
          /\ made + n + (IF f THEN 1 ELSE 0) <= MaxKeys
      BY <1>t, <2>1
    <3> QED
      BY ONLY <3>1, GenerateFacts, Zenon
  <2>3. b.one_time_keys \subseteq account.one_time_keys \cup new
    BY <2>2 DEF newest
  <2> HIDE DEF b
  <2>4. made' \in 0 .. MaxKeys /\ made <= made'
    BY <1>t, <2>1
  <2>5. made + 1 .. made' \subseteq Key /\ (f => made' \in Key)
    BY <1>t, <2>1, <2>4 DEF Key
  <2>6. TypeOK'
    <3>1. /\ fallbacks' \subseteq Key /\ hurried' \subseteq Key
          /\ early' \subseteq Key /\ forgotten' \subseteq Key
      BY <2>1, <2>5 DEF OneTimeInv, TypeOK
    <3>2. account' \in Account /\ account'.unpublished \subseteq account'.one_time_keys
      BY <2>1, <2>2
    <3> QED
      BY <2>1, <2>4, <3>1, <3>2 DEF OneTimeInv, TypeOK
  <2>7. \A m \in Message : message[m] \in 0 .. made
    BY DEF OneTimeInv, MadeBefore
  <2>8. \A m \in Message : message[m] \in fallbacks' <=> message[m] \in fallbacks
    BY <1>t, <2>1, <2>7
  <2>9. UsedOnce(opened)' /\ UsedOnce(saved.opened)'
    BY <2>1, <2>8 DEF OneTimeInv, UsedOnce
  <2>10. UsedGone(account, opened, made)'
    <3>1. \A m \in Message : opened[m] > 0 /\ message[m] \notin fallbacks'
                             => message[m] \notin b.one_time_keys
      BY <1>t, <2>3, <2>7, <2>8 DEF OneTimeInv, UsedGone
    <3>2. Own(made)' = Own(made) \cup ((made + 1 .. made') \ forgotten)
      BY <1>t, <2>1, <2>4 DEF Own
    <3>3. \A k \in made + 1 .. made' : k \notin forgotten
      BY <1>t DEF OneTimeInv, MadeBefore
    <3>4. b.one_time_keys \subseteq Own(made)' \ fallbacks'
      <4>1. \A k \in new : k \in made + 1 .. made' /\ k \notin fallbacks'
        BY <1>t, <2>1, <2>4 DEF OneTimeInv, MadeBefore
      <4>2. \A k \in account.one_time_keys : k \in Own(made) /\ k \notin fallbacks'
        BY <1>t, <2>1 DEF Own
      <4> QED
        BY <2>3, <3>2, <3>3, <4>1, <4>2
    <3>5. {b.current, b.previous} \subseteq (Own(made)' \cap fallbacks') \cup {NoKey}
      <4>1. f => b.current = made' /\ made' \in made + 1 .. made'
        BY <1>t, <2>1, <2>2
      <4> QED
        BY <1>t, <2>1, <2>2, <3>2, <3>3, <4>1
    <3>6. \A m \in Message : message[m] = NoKey => opened[m] = 0
      BY DEF OneTimeInv, UsedGone
    <3> QED
      BY <2>1, <3>1, <3>4, <3>5, <3>6 DEF UsedGone
  <2>11. UsedGone(saved.account, saved.opened, saved.made)'
    <3>1. /\ Own(saved.made)' = Own(saved.made)
          /\ \A k \in Own(saved.made) : k \notin made + 1 .. made'
      BY <1>t, <2>1 DEF Own, OneTimeInv, MadeBefore
    <3>2. \A k \in Own(saved.made) : k \in fallbacks' <=> k \in fallbacks
      BY <1>t, <2>1, <2>4, <3>1
    <3> HIDE DEF new
    <3>3. /\ saved.account.one_time_keys \subseteq Own(saved.made) \ fallbacks
          /\ {saved.account.current, saved.account.previous}
               \subseteq (Own(saved.made) \cap fallbacks) \cup {NoKey}
      BY DEF OneTimeInv, UsedGone
    <3>4. /\ saved.account.one_time_keys \subseteq Own(saved.made) \ fallbacks'
          /\ {saved.account.current, saved.account.previous}
               \subseteq (Own(saved.made) \cap fallbacks') \cup {NoKey}
      BY <3>2, <3>3
    <3>5. /\ \A m \in Message : saved.opened[m] > 0 /\ message[m] \notin fallbacks
                                  => message[m] \notin saved.account.one_time_keys
          /\ \A m \in Message : message[m] = NoKey => saved.opened[m] = 0
      BY DEF OneTimeInv, UsedGone
    <3> QED
      BY <2>1, <2>8, <3>1, <3>4, <3>5 DEF UsedGone
  <2>12. MadeBefore'
    <3>1. /\ store \cup accepted \cup forgotten \subseteq 1 .. made'
          /\ \A m \in Message : message[m] \in 0 .. made'
          /\ saved.made <= made'
      BY <1>t, <2>4 DEF OneTimeInv, MadeBefore
    <3>2. fallbacks' \cup hurried' \cup early' \subseteq 1 .. made'
      <4>1. \A k \in fallbacks \cup hurried \cup early : k \in 1 .. made'
        BY <1>t, <2>4 DEF OneTimeInv, MadeBefore
      <4>2. \A k \in made + 1 .. made' : k \in 1 .. made'
        BY <1>t
      <4>3. f => made' \in 1 .. made'
        BY <1>t, <2>1, <2>4
      <4> QED
        BY <2>1, <4>1, <4>2, <4>3
    <3>3. \A r \in Request : upload[r].keys \subseteq 1 .. made'
                             /\ upload[r].fallback \in fallbacks' \cup {NoKey}
      BY <1>t, <2>1, <2>4 DEF OneTimeInv, MadeBefore
    <3>4. served_fallback \in fallbacks' \cup {NoKey}
      BY <2>1 DEF OneTimeInv, MadeBefore
    <3> QED
      BY <2>1, <3>1, <3>2, <3>3, <3>4 DEF MadeBefore
  <2> QED
    BY <2>6, <2>9, <2>10, <2>11, <2>12 DEF OneTimeInv
<1>2. CASE save
  <2>1. /\ saved' = [account |-> account, opened |-> opened, made |-> made]
        /\ UNCHANGED <<account, opened, upload, store, served_fallback, accepted,
                       message, made, fallbacks, hurried, early, forgotten>>
    BY <1>2 DEF save, server, history
  <2>2. saved'.account = account /\ saved'.opened = opened /\ saved'.made = made
    BY <2>1
  <2>3. TypeOK'
    BY <2>1 DEF OneTimeInv, TypeOK
  <2>4. UsedOnce(opened)' /\ UsedOnce(saved.opened)'
    BY <2>1, <2>2 DEF OneTimeInv, UsedOnce
  <2>5. UsedGone(account, opened, made)' /\ UsedGone(saved.account, saved.opened, saved.made)'
    BY <2>1, <2>2 DEF OneTimeInv, UsedGone, Own
  <2>6. MadeBefore'
    BY <1>t, <2>1, <2>2 DEF OneTimeInv, MadeBefore
  <2> QED
    BY <2>3, <2>4, <2>5, <2>6 DEF OneTimeInv
<1>3. ASSUME NEW r \in Request, upload_keys(r)
      PROVE  OneTimeInv'
  <2> DEFINE u == create_upload_keys_request(account)
  <2>1. /\ upload' = [upload EXCEPT ![r] = u]
        /\ UNCHANGED <<account, opened, saved, store, served_fallback, accepted,
                       message, made, fallbacks, hurried, early, forgotten>>
    BY <1>3 DEF upload_keys, server, history
  <2>2. /\ u \in [st : {"new", "sent", "stored", "over"}, keys : SUBSET Key,
                  fallback : Key \cup {NoKey}]
        /\ u.keys \subseteq 1 .. made /\ u.fallback \in fallbacks \cup {NoKey}
    BY <1>t DEF create_upload_keys_request, one_time_keys, unpublished_fallback_keys,
                Account, NoKey, Own
  <2> HIDE DEF u
  <2>3. TypeOK'
    BY <2>1, <2>2 DEF OneTimeInv, TypeOK
  <2>4. \A q \in Request : upload'[q] = IF q = r THEN u ELSE upload[q]
    BY <2>1 DEF OneTimeInv, TypeOK
  <2>5. MadeBefore'
    BY <2>1, <2>2, <2>4 DEF OneTimeInv, MadeBefore
  <2> QED
    BY <2>1, <2>3, <2>5 DEF OneTimeInv, UsedOnce, UsedGone, Own
<1>4. CASE load
  <2>1. /\ account' = saved.account /\ opened' = saved.opened
        /\ upload' = [r \in Request |-> IF r \in UnderWay THEN Over ELSE upload[r]]
        /\ forgotten' = forgotten \cup (saved.made + 1 .. made)
        /\ UNCHANGED <<saved, store, served_fallback, accepted, message, made, fallbacks,
                       hurried, early>>
    BY <1>4 DEF load, server
  <2>2. saved.made <= made
    BY DEF OneTimeInv, MadeBefore
  <2>3. Own(made)' = Own(saved.made) /\ Own(saved.made)' = Own(saved.made)
    BY <1>t, <2>1, <2>2 DEF Own
  <2>4. saved.made + 1 .. made \subseteq Key /\ saved.made + 1 .. made \subseteq 1 .. made
    BY <1>t DEF Key
  <2>5. \A r \in Request : upload'[r] = upload[r] \/ upload'[r] = Over
    BY <2>1
  <2>6. TypeOK'
    <3>1. Over \in [st : {"new", "sent", "stored", "over"}, keys : SUBSET Key,
                    fallback : Key \cup {NoKey}]
      BY DEF Over
    <3> QED
      BY <2>1, <2>4, <3>1 DEF OneTimeInv, TypeOK
  <2>7. UsedOnce(opened)' /\ UsedOnce(saved.opened)'
    BY <2>1 DEF OneTimeInv, UsedOnce
  <2>8. UsedGone(account, opened, made)' /\ UsedGone(saved.account, saved.opened, saved.made)'
    BY <2>1, <2>3 DEF OneTimeInv, UsedGone
  <2>9. MadeBefore'
    BY <2>1, <2>4, <2>5 DEF OneTimeInv, MadeBefore, Over
  <2> QED
    BY <2>6, <2>7, <2>8, <2>9 DEF OneTimeInv
<1>5. CASE forget_old_fallback_key
  <2>1. /\ account' = [account EXCEPT !.previous = NoKey]
        /\ UNCHANGED <<opened, saved, upload, store, served_fallback, accepted,
                       message, made, fallbacks, hurried, early, forgotten>>
    BY <1>5 DEF forget_old_fallback_key, forget_old, server, history
  <2>2. /\ account' \in Account
        /\ account'.one_time_keys = account.one_time_keys
        /\ account'.unpublished = account.unpublished
        /\ account'.current = account.current /\ account'.previous = NoKey
    BY <1>t, <2>1 DEF Account
  <2> QED
    BY <2>1, <2>2 DEF OneTimeInv, TypeOK, UsedOnce, UsedGone, MadeBefore, Own
<1>6. ASSUME NEW r \in Request, NEW ok \in BOOLEAN, keys_uploaded_cb(r, ok)
      PROVE  OneTimeInv'
  <2>1. /\ account' = account \/ account' = [account EXCEPT !.unpublished = {},
                                                            !.current_published = TRUE]
        /\ upload' = [upload EXCEPT ![r] = Over]
        /\ UNCHANGED <<opened, saved, store, served_fallback, accepted,
                       message, made, fallbacks, hurried, early, forgotten>>
    BY <1>6 DEF keys_uploaded_cb, mark_keys_as_published, server, history
  <2>2. /\ account' \in Account
        /\ account'.one_time_keys = account.one_time_keys
        /\ account'.unpublished \subseteq account.unpublished
        /\ account'.current = account.current /\ account'.previous = account.previous
    <3>1. CASE account' = account
      BY <1>t, <3>1
    <3>2. CASE account' = [account EXCEPT !.unpublished = {}, !.current_published = TRUE]
      BY <1>t, <3>2 DEF Account
    <3> QED
      BY <2>1, <3>1, <3>2
  <2>3. TypeOK'
    BY <2>1, <2>2 DEF OneTimeInv, TypeOK, Over
  <2>4. MadeBefore'
    BY <2>1 DEF OneTimeInv, MadeBefore, TypeOK, Over
  <2> QED
    BY <2>1, <2>2, <2>3, <2>4 DEF OneTimeInv, UsedOnce, UsedGone, Own
<1>7. ASSUME NEW r \in Request, store_keys(r)
      PROVE  OneTimeInv'
  <2>1. /\ upload' = [upload EXCEPT ![r].st = "stored"]
        /\ store' = store \cup upload[r].keys
        /\ served_fallback' = IF upload[r].fallback = NoKey THEN served_fallback
                                                           ELSE upload[r].fallback
        /\ accepted' = accepted \cup upload[r].keys \cup ({upload[r].fallback} \ {NoKey})
        /\ UNCHANGED <<account, opened, saved, message, made, fallbacks, hurried, early, forgotten>>
    BY <1>7 DEF store_keys, history
  <2>2. TypeOK'
    BY <2>1 DEF OneTimeInv, TypeOK
  <2>3. \A q \in Request : upload'[q].keys = upload[q].keys /\ upload'[q].fallback = upload[q].fallback
    BY <2>1 DEF OneTimeInv, TypeOK
  <2>4. MadeBefore'
    BY <2>1, <2>3 DEF OneTimeInv, MadeBefore
  <2> QED
    BY <2>1, <2>2, <2>4 DEF OneTimeInv, UsedOnce, UsedGone, Own
<1>8. ASSUME NEW m \in Message, create_inbound_session(m)
      PROVE  OneTimeInv'
  <2>1. /\ message[m] \in known(account) /\ opened[m] < 2
        /\ opened' = [opened EXCEPT ![m] = @ + 1]
        /\ account' = [account EXCEPT !.one_time_keys = @ \ {message[m]},
                                      !.unpublished = @ \ {message[m]}]
        /\ UNCHANGED <<saved, upload, store, served_fallback, accepted, message,
                       made, fallbacks, hurried, early, forgotten>>
    BY <1>8 DEF create_inbound_session, olm_remove_one_time_keys, server, history
  <2>2. /\ account' \in Account
        /\ account'.one_time_keys = account.one_time_keys \ {message[m]}
        /\ account'.unpublished = account.unpublished \ {message[m]}
        /\ account'.current = account.current /\ account'.previous = account.previous
    BY <1>t, <2>1 DEF Account
  <2>3. /\ \A q \in Message : opened'[q] = IF q = m THEN opened[m] + 1 ELSE opened[q]
        /\ opened' \in [Message -> 0 .. 2]
    BY <2>1 DEF OneTimeInv, TypeOK
  <2>4. TypeOK'
    BY <2>1, <2>2, <2>3 DEF OneTimeInv, TypeOK
  <2>5. message[m] \notin fallbacks => message[m] \in account.one_time_keys
    BY <1>t, <2>1 DEF known
  <2>6. \A q \in Message : opened[q] \in 0 .. 2
    BY DEF OneTimeInv, TypeOK
  <2>7. UsedOnce(opened)'
    <3> SUFFICES ASSUME NEW p \in Message, NEW q \in Message,
                        opened'[p] > 0, opened'[q] > 0,
                        message[p] = message[q], message[p] \notin fallbacks
                 PROVE  p = q /\ opened'[p] = 1
      BY <2>1 DEF UsedOnce
    <3>1. CASE message[p] = message[m]
      <4>0. \A r \in Message : message[r] = message[m] => ~ (opened[r] > 0)
        BY <3>1, <2>5 DEF OneTimeInv, UsedGone
      <4>1. opened[p] = 0 /\ opened[q] = 0
        <5>1. message[q] = message[m]
          BY <3>1
        <5>2. ~ (opened[p] > 0) /\ ~ (opened[q] > 0)
          BY <3>1, <4>0, <5>1
        <5>3. opened[p] \in 0 .. 2 /\ opened[q] \in 0 .. 2
          BY <2>6
        <5> QED
          BY <5>2, <5>3
      <4> QED
        BY <4>1, <2>3, <2>6
    <3>2. CASE message[p] # message[m]
      BY <3>2, <2>3 DEF OneTimeInv, UsedOnce
    <3> QED
      BY <3>1, <3>2
  <2>8. UsedGone(account, opened, made)'
    <3>1. message[m] # NoKey
      BY <1>t, <2>1 DEF known, Own, NoKey
    <3> QED
      BY <2>1, <2>2, <2>3, <3>1 DEF OneTimeInv, UsedGone, Own
  <2>9. MadeBefore'
    BY <2>1 DEF OneTimeInv, MadeBefore
  <2> QED
    BY <2>1, <2>4, <2>7, <2>8, <2>9 DEF OneTimeInv, UsedOnce, UsedGone, Own
<1>9. ASSUME NEW m \in Message, NEW k \in Key, claim(m, k)
      PROVE  OneTimeInv'
  <2>1. /\ message[m] = NoKey /\ k \in store \cup ({served_fallback} \ {NoKey})
        /\ message' = [message EXCEPT ![m] = k] /\ store' = store \ {k}
        /\ UNCHANGED <<account, opened, saved, upload, served_fallback, accepted,
                       made, fallbacks, hurried, early, forgotten>>
    BY <1>9 DEF claim, history
  <2>2. \A q \in Message : message'[q] = IF q = m THEN k ELSE message[q]
    BY <2>1 DEF OneTimeInv, TypeOK
  <2>3. k # NoKey /\ k \in 1 .. made
    BY <1>t, <2>1 DEF OneTimeInv, MadeBefore, NoKey
  <2>4. opened[m] = 0 /\ saved.opened[m] = 0
    BY <2>1 DEF OneTimeInv, UsedGone
  <2>5. TypeOK'
    BY <2>1 DEF OneTimeInv, TypeOK
  <2>6. UsedOnce(opened)' /\ UsedOnce(saved.opened)'
    BY <2>1, <2>2, <2>4 DEF OneTimeInv, UsedOnce
  <2>7. UsedGone(account, opened, made)' /\ UsedGone(saved.account, saved.opened, saved.made)'
    BY <2>1, <2>2, <2>3, <2>4 DEF OneTimeInv, UsedGone, Own
  <2>8. MadeBefore'
    BY <1>t, <2>1, <2>2, <2>3 DEF OneTimeInv, MadeBefore
  <2> QED
    BY <2>5, <2>6, <2>7, <2>8 DEF OneTimeInv
<1>10. CASE UNCHANGED vars
  BY <1>10 DEF vars, server, history, OneTimeInv, TypeOK, UsedOnce, UsedGone, MadeBefore, Own
<1> QED
  BY <1>1, <1>2, <1>3, <1>4, <1>5, <1>6, <1>7, <1>8, <1>9, <1>10 DEF Next

\* The invariant holds throughout.
THEOREM OneTimeInvariant == Spec => []OneTimeInv
BY InitInv, NextInv, PTL DEF Spec

\* A one-time key opens one session, whatever is delivered.
THEOREM OneTimeKeysUsedOnce == Spec => []OneTimeUse
<1>1. OneTimeInv => OneTimeUse
  BY DEF OneTimeInv, OneTimeUse
<1> QED
  BY <1>1, OneTimeInvariant, PTL

-----------------------------------------------------------------------------
(* What reached the server, what is kept and what is usable.                *)

\* What OneTimeInv says of the parts the following proofs look at.
LEMMA Typed ==
    OneTimeInv =>
      /\ made \in 0 .. MaxKeys /\ saved.made \in 0 .. MaxKeys /\ saved.made <= made
      /\ account \in Account /\ saved.account \in Account
      /\ account.unpublished \subseteq account.one_time_keys
      /\ account.one_time_keys \subseteq Own(made) \ fallbacks
      /\ account.current \in (Own(made) \cap fallbacks) \cup {NoKey}
      /\ account.previous \in (Own(made) \cap fallbacks) \cup {NoKey}
      /\ saved.account.current \in (Own(saved.made) \cap fallbacks) \cup {NoKey}
      /\ fallbacks \subseteq 1 .. made /\ forgotten \subseteq 1 .. made
      /\ served_fallback \in fallbacks \cup {NoKey}
      /\ upload \in [Request -> [st : {"new", "sent", "stored", "over"}, keys : SUBSET Key,
                                  fallback : Key \cup {NoKey}]]
      /\ \A r \in Request : upload[r].fallback \in fallbacks \cup {NoKey}
BY DEF OneTimeInv, TypeOK, UsedGone, MadeBefore

\* The values after generate_one_time_keys.
LEMMA Generated ==
    ASSUME OneTimeInv, NEW n \in 0 .. MaxGenerate, NEW f \in BOOLEAN,
           generate_one_time_keys(n, f)
    PROVE  LET new == made + 1 .. made + n
           IN  /\ made' = made + n + (IF f THEN 1 ELSE 0)
               /\ account'.one_time_keys = newest(account.one_time_keys \cup new)
               /\ account'.unpublished = (account.unpublished \cup new) \cap account'.one_time_keys
               /\ IF f THEN /\ account'.current = made' /\ account'.previous = account.current
                            /\ ~ account'.current_published
                       ELSE /\ account'.current = account.current
                            /\ account'.previous = account.previous
                            /\ account'.current_published = account.current_published
               /\ fallbacks' = fallbacks \cup (IF f THEN {made'} ELSE {})
               /\ hurried' = hurried \cup (IF UnderWay # {} THEN made + 1 .. made' ELSE {})
               /\ early' = early \cup (IF f /\ account.current # NoKey
                                           /\ ~ account.current_published
                                         THEN {made'} ELSE {})
               /\ UNCHANGED <<opened, saved, upload, store, served_fallback, accepted,
                              message, forgotten>>
<1>1. /\ account \in Account /\ made \in Nat
      /\ made + n + (IF f THEN 1 ELSE 0) <= MaxKeys
      /\ made' = made + n + (IF f THEN 1 ELSE 0)
      /\ account' = generate(account, n, f)
  BY Typed DEF generate_one_time_keys
<1>2. UNCHANGED <<opened, saved, upload, store, served_fallback, accepted, message, forgotten>>
  BY DEF generate_one_time_keys, server
<1>3. LET new == made + 1 .. made + n
      IN  /\ account'.one_time_keys = newest(account.one_time_keys \cup new)
          /\ account'.unpublished = (account.unpublished \cup new) \cap account'.one_time_keys
          /\ IF f THEN /\ account'.current = made + n + 1 /\ account'.previous = account.current
                       /\ ~ account'.current_published
                  ELSE /\ account'.current = account.current
                       /\ account'.previous = account.previous
                       /\ account'.current_published = account.current_published
  BY <1>1, GenerateFacts
<1>4. f => made' = made + n + 1
  BY <1>1
<1>5. /\ fallbacks' = fallbacks \cup (IF f THEN {made'} ELSE {})
      /\ hurried' = hurried \cup (IF UnderWay # {} THEN made + 1 .. made' ELSE {})
      /\ early' = early \cup (IF f /\ account.current # NoKey /\ ~ account.current_published
                                THEN {made'} ELSE {})
  BY DEF generate_one_time_keys
<1> QED
  BY <1>1, <1>2, <1>3, <1>4, <1>5

\* What a request does not carry was made while it was under way.
LEMMA UploadNext == OneTimeInv /\ UploadInv /\ [Next]_vars => UploadInv'
<1> SUFFICES ASSUME OneTimeInv, UploadInv, [Next]_vars PROVE UploadInv'
  OBVIOUS
<1>t. /\ made \in 0 .. MaxKeys /\ account \in Account
      /\ upload \in [Request -> [st : {"new", "sent", "stored", "over"}, keys : SUBSET Key,
                                  fallback : Key \cup {NoKey}]]
  BY Typed
<1>1. ASSUME NEW n \in 0 .. MaxGenerate, NEW f \in BOOLEAN, generate_one_time_keys(n, f)
      PROVE  UploadInv'
  <2> SUFFICES ASSUME NEW r \in UnderWay
               PROVE  /\ account'.unpublished \subseteq upload[r].keys \cup hurried'
                      /\ unpublished_fallback_keys(account') \in {NoKey, upload[r].fallback} \cup hurried'
                      /\ upload[r].st = "stored" =>
                           /\ upload[r].keys \subseteq accepted
                           /\ {upload[r].fallback} \ {NoKey} \subseteq accepted
    BY <1>1, Generated DEF UploadInv, UnderWay
  <2> DEFINE new == made + 1 .. made + n
  <2>1. /\ made' = made + n + (IF f THEN 1 ELSE 0)
        /\ account'.unpublished \subseteq account.unpublished \cup new
        /\ IF f THEN account'.current = made'
                ELSE /\ account'.current = account.current
                     /\ account'.current_published = account.current_published
        /\ hurried' = hurried \cup (made + 1 .. made')
    BY <1>1, Generated
  <2>2. new \subseteq made + 1 .. made' /\ (f => made' \in made + 1 .. made')
    BY <1>t, <2>1
  <2>3. /\ account.unpublished \subseteq upload[r].keys \cup hurried
        /\ unpublished_fallback_keys(account) \in {NoKey, upload[r].fallback} \cup hurried
        /\ upload[r].st = "stored" =>
             /\ upload[r].keys \subseteq accepted
             /\ {upload[r].fallback} \ {NoKey} \subseteq accepted
    BY DEF UploadInv
  <2> HIDE DEF new
  <2> QED
    BY <2>1, <2>2, <2>3 DEF unpublished_fallback_keys
<1>2. ASSUME NEW r \in Request, upload_keys(r)
      PROVE  UploadInv'
  <2>1. /\ upload' = [upload EXCEPT ![r] = create_upload_keys_request(account)]
        /\ UNCHANGED <<account, accepted, hurried>>
    BY <1>2 DEF upload_keys, server, history
  <2>2. \A q \in Request : upload'[q] = IF q = r THEN create_upload_keys_request(account) ELSE upload[q]
    BY <1>t, <2>1
  <2> QED
    BY <2>1, <2>2 DEF UploadInv, UnderWay, create_upload_keys_request, one_time_keys,
                      unpublished_fallback_keys
<1>3. CASE load
  <2>1. \A r \in Request : upload'[r] = IF r \in UnderWay THEN Over ELSE upload[r]
    BY <1>3 DEF load
  <2> QED
    BY <2>1 DEF UploadInv, UnderWay, Over
<1>4. CASE forget_old_fallback_key
  <2>1. /\ account'.unpublished = account.unpublished /\ account'.current = account.current
        /\ account'.current_published = account.current_published
        /\ UNCHANGED <<upload, accepted, hurried>>
    BY <1>4, <1>t DEF forget_old_fallback_key, forget_old, server, history, Account
  <2> QED
    BY <2>1 DEF UploadInv, UnderWay, unpublished_fallback_keys
<1>5. ASSUME NEW r \in Request, NEW ok \in BOOLEAN, keys_uploaded_cb(r, ok)
      PROVE  UploadInv'
  <2>1. /\ account' = account \/ account' = [account EXCEPT !.unpublished = {},
                                                            !.current_published = TRUE]
        /\ upload' = [upload EXCEPT ![r] = Over]
        /\ UNCHANGED <<accepted, hurried>>
    BY <1>5 DEF keys_uploaded_cb, mark_keys_as_published, server, history
  <2>2. /\ account'.unpublished \subseteq account.unpublished
        /\ unpublished_fallback_keys(account') \in {NoKey, unpublished_fallback_keys(account)}
    <3>1. CASE account' = account
      BY <3>1
    <3>2. CASE account' = [account EXCEPT !.unpublished = {}, !.current_published = TRUE]
      BY <1>t, <3>2 DEF Account, unpublished_fallback_keys
    <3> QED
      BY <2>1, <3>1, <3>2
  <2>3. \A q \in Request : upload'[q] = IF q = r THEN Over ELSE upload[q]
    BY <1>t, <2>1
  <2> QED
    BY <2>1, <2>2, <2>3 DEF UploadInv, UnderWay, Over
<1>6. ASSUME NEW r \in Request, store_keys(r)
      PROVE  UploadInv'
  <2>1. /\ upload' = [upload EXCEPT ![r].st = "stored"] /\ upload[r].st = "sent"
        /\ accepted' = accepted \cup upload[r].keys \cup ({upload[r].fallback} \ {NoKey})
        /\ UNCHANGED <<account, hurried>>
    BY <1>6 DEF store_keys, history
  <2>2. \A q \in Request : /\ upload'[q].keys = upload[q].keys
                            /\ upload'[q].fallback = upload[q].fallback
                            /\ upload'[q].st = IF q = r THEN "stored" ELSE upload[q].st
    BY <1>t, <2>1
  <2> QED
    BY <2>1, <2>2 DEF UploadInv, UnderWay
<1>7. ASSUME NEW m \in Message, create_inbound_session(m)
      PROVE  UploadInv'
  <2>1. /\ account'.unpublished \subseteq account.unpublished /\ account'.current = account.current
        /\ account'.current_published = account.current_published
        /\ UNCHANGED <<upload, accepted, hurried>>
    BY <1>7, <1>t DEF create_inbound_session, olm_remove_one_time_keys, server, history, Account
  <2> QED
    BY <2>1 DEF UploadInv, UnderWay, unpublished_fallback_keys
<1>8. CASE save \/ (\E m \in Message, k \in Key : claim(m, k)) \/ UNCHANGED vars
  <2>1. UNCHANGED <<account, upload, accepted, hurried>>
    BY <1>8 DEF save, claim, vars, server, history
  <2> QED
    BY <2>1 DEF UploadInv, UnderWay, unpublished_fallback_keys
<1> QED
  BY <1>1, <1>2, <1>3, <1>4, <1>5, <1>6, <1>7, <1>8 DEF Next

\* What counts as published reached the server or was made in haste.
LEMMA PublishedNext ==
    OneTimeInv /\ UploadInv /\ PublishedInv /\ [Next]_vars => PublishedInv'
<1> SUFFICES ASSUME OneTimeInv, UploadInv, PublishedInv, [Next]_vars PROVE PublishedInv'
  OBVIOUS
<1>t. account \in Account /\ account.unpublished \subseteq account.one_time_keys
  BY Typed
<1>1. ASSUME NEW n \in 0 .. MaxGenerate, NEW f \in BOOLEAN, generate_one_time_keys(n, f)
      PROVE  PublishedInv'
  <2>1. /\ account'.one_time_keys \ account'.unpublished
             \subseteq account.one_time_keys \ account.unpublished
        /\ account'.current_published
             => account.current_published /\ account'.current = account.current
        /\ hurried \subseteq hurried' /\ accepted' = accepted /\ saved' = saved
    BY <1>1, Generated DEF newest
  <2> QED
    BY <2>1 DEF PublishedInv, ReachedServer
<1>2. CASE save
  <2>1. saved'.account = account /\ UNCHANGED <<account, accepted, hurried>>
    BY <1>2 DEF save, server, history
  <2> QED
    BY <2>1 DEF PublishedInv, ReachedServer
<1>3. CASE load
  <2>1. account' = saved.account /\ UNCHANGED <<saved, accepted, hurried>>
    BY <1>3 DEF load, server
  <2> QED
    BY <2>1 DEF PublishedInv, ReachedServer
<1>4. CASE forget_old_fallback_key
  <2>1. /\ account'.one_time_keys = account.one_time_keys
        /\ account'.unpublished = account.unpublished /\ account'.current = account.current
        /\ account'.current_published = account.current_published
        /\ UNCHANGED <<saved, accepted, hurried>>
    BY <1>4, <1>t DEF forget_old_fallback_key, forget_old, server, history, Account
  <2> QED
    BY <2>1 DEF PublishedInv, ReachedServer
<1>5. ASSUME NEW r \in Request, NEW ok \in BOOLEAN, keys_uploaded_cb(r, ok)
      PROVE  PublishedInv'
  <2>1. UNCHANGED <<saved, accepted, hurried>>
    BY <1>5 DEF keys_uploaded_cb, server, history
  <2>2. CASE account' = account
    BY <2>1, <2>2 DEF PublishedInv, ReachedServer
  <2>3. CASE upload[r].st = "stored" /\ account' = mark_keys_as_published(account)
    <3>1. /\ account'.one_time_keys = account.one_time_keys /\ account'.unpublished = {}
          /\ account'.current = account.current
      BY <1>t, <2>3 DEF mark_keys_as_published, Account
    <3>2. /\ account.unpublished \subseteq upload[r].keys \cup hurried
          /\ unpublished_fallback_keys(account) \in {NoKey, upload[r].fallback} \cup hurried
          /\ upload[r].keys \subseteq accepted
          /\ {upload[r].fallback} \ {NoKey} \subseteq accepted
      BY <2>3 DEF UploadInv, UnderWay
    <3>3. account.current # NoKey => account.current \in accepted \cup hurried
      BY <3>2 DEF unpublished_fallback_keys, PublishedInv, ReachedServer
    <3> QED
      BY <2>1, <3>1, <3>2, <3>3 DEF PublishedInv, ReachedServer
  <2> QED
    BY <1>5, <2>2, <2>3 DEF keys_uploaded_cb
<1>6. ASSUME NEW r \in Request, store_keys(r)
      PROVE  PublishedInv'
  <2>1. accepted \subseteq accepted' /\ UNCHANGED <<account, saved, hurried>>
    BY <1>6 DEF store_keys, history
  <2> QED
    BY <2>1 DEF PublishedInv, ReachedServer
<1>7. ASSUME NEW m \in Message, create_inbound_session(m)
      PROVE  PublishedInv'
  <2>1. /\ account'.one_time_keys = account.one_time_keys \ {message[m]}
        /\ account'.unpublished = account.unpublished \ {message[m]}
        /\ account'.current = account.current
        /\ account'.current_published = account.current_published
        /\ UNCHANGED <<saved, accepted, hurried>>
    BY <1>7, <1>t DEF create_inbound_session, olm_remove_one_time_keys, server, history, Account
  <2> QED
    BY <2>1 DEF PublishedInv, ReachedServer
<1>8. CASE (\E r \in Request : upload_keys(r)) \/ (\E m \in Message, k \in Key : claim(m, k))
             \/ UNCHANGED vars
  <2>1. UNCHANGED <<account, saved, accepted, hurried>>
    BY <1>8 DEF upload_keys, claim, vars, server, history
  <2> QED
    BY <2>1 DEF PublishedInv, ReachedServer
<1> QED
  BY <1>1, <1>2, <1>3, <1>4, <1>5, <1>6, <1>7, <1>8 DEF Next

\* The newer keys are counted by a number, which grows with the keys.
LEMMA NewerGrows ==
    ASSUME NEW S, NEW T, NEW k, NEW n \in Nat, S \subseteq T, T \subseteq 1 .. n
    PROVE  /\ Cardinality({j \in S : j > k}) \in Nat
           /\ Cardinality({j \in T : j > k}) \in Nat
           /\ Cardinality({j \in S : j > k}) <= Cardinality({j \in T : j > k})
<1> DEFINE A == {j \in S : j > k}
           B == {j \in T : j > k}
<1>1. IsFiniteSet(1 .. n)
  BY FS_Interval
<1>2. B \subseteq 1 .. n /\ A \subseteq B
  OBVIOUS
<1> HIDE DEF A, B
<1>3. IsFiniteSet(B) /\ IsFiniteSet(A)
  BY <1>1, <1>2, FS_Subset
<1>4. Cardinality(A) \in Nat /\ Cardinality(B) \in Nat /\ Cardinality(A) <= Cardinality(B)
  BY <1>2, <1>3, FS_Subset, FS_CardinalityType
<1> QED
  BY <1>4 DEF A, B

\* A key libolm has no room for is followed by as many as there is room for.
LEMMA MakesRoom ==
    ASSUME NEW S, NEW T, NEW k \in S \ newest(S), NEW n \in Nat, S \subseteq T, T \subseteq 1 .. n
    PROVE  Cardinality({j \in T : j > k}) >= MaxOneTimeKeys
<1>1. /\ Cardinality({j \in S : j > k}) \in Nat /\ Cardinality({j \in T : j > k}) \in Nat
      /\ Cardinality({j \in S : j > k}) <= Cardinality({j \in T : j > k})
  BY NewerGrows
<1>2. ~ (Cardinality({j \in S : j > k}) < MaxOneTimeKeys)
  BY DEF newest
<1> QED
  BY <1>1, <1>2, OlmAccountAssumption

\* What the account knew stays known, and what is new is newer.
LEMMA OwnGrows ==
    ASSUME OneTimeInv, NEW n \in 0 .. MaxGenerate, NEW f \in BOOLEAN,
           generate_one_time_keys(n, f)
    PROVE  /\ Own(made)' = Own(made) \cup (made + 1 .. made') /\ made <= made'
           /\ \A k \in Own(made) : k \in fallbacks' <=> k \in fallbacks
           /\ \A k \in made + 1 .. made + n : k \in Own(made)' \ fallbacks'
           /\ Own(saved.made)' = Own(saved.made)
           /\ \A k \in Own(saved.made) : k \in fallbacks' <=> k \in fallbacks
<1>1. /\ made' = made + n + (IF f THEN 1 ELSE 0)
      /\ fallbacks' = fallbacks \cup (IF f THEN {made'} ELSE {})
      /\ forgotten' = forgotten /\ saved' = saved
  BY Generated
<1>2. /\ made \in 0 .. MaxKeys /\ saved.made \in 0 .. MaxKeys /\ saved.made <= made
      /\ fallbacks \subseteq 1 .. made /\ forgotten \subseteq 1 .. made /\ MaxKeys \in Nat
  BY Typed, OlmAccountAssumption
<1>3. made <= made' /\ made' \in Nat /\ (f => made' = made + n + 1) /\ (~ f => made' = made + n)
  BY <1>1, <1>2
<1>4. \A k \in made + 1 .. made' : k \notin forgotten /\ k \notin fallbacks
  BY <1>2
<1>5. Own(made)' = Own(made) \cup (made + 1 .. made')
  BY <1>1, <1>2, <1>3, <1>4 DEF Own
<1>6. \A k \in Own(made) : k \in fallbacks' <=> k \in fallbacks
  BY <1>1, <1>2, <1>3 DEF Own
<1>7. \A k \in made + 1 .. made + n : k \in Own(made)' \ fallbacks'
  BY <1>1, <1>2, <1>3, <1>4, <1>5
<1>8. Own(saved.made)' = Own(saved.made) /\ Own(saved.made) \subseteq Own(made)
  BY <1>1, <1>2 DEF Own
<1> QED
  BY <1>3, <1>5, <1>6, <1>7, <1>8

\* No key gets lost on the way.
LEMMA KeptNext == OneTimeInv /\ KeptInv /\ [Next]_vars => KeptInv'
<1> SUFFICES ASSUME OneTimeInv, KeptInv, [Next]_vars PROVE KeptInv'
  OBVIOUS
<1>t. /\ made \in 0 .. MaxKeys /\ saved.made \in 0 .. MaxKeys /\ saved.made <= made
      /\ account \in Account /\ MaxKeys \in Nat
      /\ account.one_time_keys \subseteq Own(made) \ fallbacks
  BY Typed, OlmAccountAssumption
<1>1. ASSUME NEW n \in 0 .. MaxGenerate, NEW f \in BOOLEAN, generate_one_time_keys(n, f)
      PROVE  KeptInv'
  <2> DEFINE new == made + 1 .. made + n
             S == account.one_time_keys \cup new
             T == Own(made)' \ fallbacks'
  <2>1. /\ account'.one_time_keys = newest(S)
        /\ UNCHANGED <<opened, saved, message>>
    BY <1>1, Generated
  <2>2. /\ Own(made)' = Own(made) \cup (made + 1 .. made') /\ made <= made'
        /\ \A k \in Own(made) : k \in fallbacks' <=> k \in fallbacks
        /\ \A k \in new : k \in T
        /\ Own(saved.made)' = Own(saved.made)
        /\ \A k \in Own(saved.made) : k \in fallbacks' <=> k \in fallbacks
    BY <1>1, OwnGrows
  <2>3. made' \in Nat
    <3>1. made' = made + n + (IF f THEN 1 ELSE 0)
      BY <1>1, Generated
    <3> QED
      BY <1>t, <3>1, OlmAccountAssumption
  <2>4. S \subseteq T /\ Own(made) \ fallbacks \subseteq T /\ T \subseteq 1 .. made'
    <3>1. Own(made)' \subseteq 1 .. made'
      BY DEF Own
    <3>2. Own(made) \ fallbacks \subseteq T
      BY <2>2
    <3> QED
      BY <1>t, <2>2, <3>1, <3>2
  <2>5. \A k \in T : k \in S \/ k \in Own(made) \ fallbacks
    <3> SUFFICES ASSUME NEW k \in T, k \notin Own(made) PROVE k \in new
      BY <2>2
    <3>1. k \in made + 1 .. made' /\ k \notin fallbacks'
      BY <2>2
    <3>2. /\ made' = made + n + (IF f THEN 1 ELSE 0)
          /\ fallbacks' = fallbacks \cup (IF f THEN {made'} ELSE {})
      BY <1>1, Generated
    <3> QED
      BY <1>t, <3>1, <3>2
  <2>6. ASSUME NEW k \in T PROVE Accounted(k, account, opened, made)'
    <3> HIDE DEF S, T
    <3>1. CASE k \in S
      <4>1. CASE k \in newest(S)
        BY <2>1, <4>1 DEF Accounted
      <4>2. CASE k \notin newest(S)
        <5>1. Cardinality({j \in T : j > k}) >= MaxOneTimeKeys
          BY <2>3, <2>4, <3>1, <4>2, MakesRoom
        <5> QED
          BY <5>1 DEF Accounted, T
      <4> QED
        BY <4>1, <4>2
    <3>2. CASE k \in Own(made) \ fallbacks /\ k \notin S
      <4>1. Accounted(k, account, opened, made) /\ k \notin account.one_time_keys
        BY <3>2 DEF KeptInv, S
      <4>2. CASE \E m \in Message : message[m] = k /\ opened[m] > 0
        BY <2>1, <4>2 DEF Accounted
      <4>3. CASE Cardinality({j \in Own(made) \ fallbacks : j > k}) >= MaxOneTimeKeys
        <5>1. /\ Cardinality({j \in Own(made) \ fallbacks : j > k}) \in Nat
              /\ Cardinality({j \in T : j > k}) \in Nat
              /\ Cardinality({j \in Own(made) \ fallbacks : j > k})
                   <= Cardinality({j \in T : j > k})
          <6> DEFINE R == Own(made) \ fallbacks
          <6>1. R \subseteq T
            BY <2>4
          <6> HIDE DEF R
          <6>2. /\ Cardinality({j \in R : j > k}) \in Nat
                /\ Cardinality({j \in T : j > k}) \in Nat
                /\ Cardinality({j \in R : j > k}) <= Cardinality({j \in T : j > k})
            BY <2>3, <2>4, <6>1, NewerGrows
          <6> QED
            BY <6>2 DEF R
        <5>2. Cardinality({j \in T : j > k}) >= MaxOneTimeKeys
          BY <4>3, <5>1, OlmAccountAssumption
        <5> QED
          BY <5>2 DEF Accounted, T
      <4> QED
        BY <4>1, <4>2, <4>3 DEF Accounted
    <3> QED
      BY <2>5, <3>1, <3>2 DEF T
  <2>7. ASSUME NEW k \in Own(saved.made)' \ fallbacks'
        PROVE  Accounted(k, saved.account, saved.opened, saved.made)'
    <3>1. Own(saved.made)' \ fallbacks' = Own(saved.made) \ fallbacks
      BY <2>2
    <3>2. Accounted(k, saved.account, saved.opened, saved.made)
      BY <3>1 DEF KeptInv
    <3> QED
      BY <2>1, <3>1, <3>2 DEF Accounted
  <2> QED
    BY <2>6, <2>7 DEF KeptInv
<1>2. CASE save
  <2>1. /\ saved'.account = account /\ saved'.opened = opened /\ saved'.made = made
        /\ UNCHANGED <<account, opened, message, made, fallbacks, forgotten>>
    BY <1>2 DEF save, server, history
  <2> QED
    BY <2>1 DEF KeptInv, Accounted, Own
<1>3. CASE load
  <2>1. /\ account' = saved.account /\ opened' = saved.opened
        /\ forgotten' = forgotten \cup (saved.made + 1 .. made)
        /\ UNCHANGED <<saved, message, made, fallbacks>>
    BY <1>3 DEF load, server
  <2>2. Own(made)' = Own(saved.made) /\ Own(saved.made)' = Own(saved.made)
    BY <1>t, <2>1 DEF Own
  <2> QED
    BY <2>1, <2>2 DEF KeptInv, Accounted
<1>4. CASE \/ forget_old_fallback_key
           \/ \E r \in Request : \/ upload_keys(r) \/ store_keys(r)
                                \/ \E ok \in BOOLEAN : keys_uploaded_cb(r, ok)
           \/ UNCHANGED vars
  <2>1. account'.one_time_keys = account.one_time_keys
    BY <1>t, <1>4 DEF forget_old_fallback_key, forget_old, upload_keys, store_keys,
       keys_uploaded_cb, mark_keys_as_published, vars, Account
  <2>2. UNCHANGED <<opened, saved, message, made, fallbacks, forgotten>>
    BY <1>4 DEF forget_old_fallback_key, upload_keys, store_keys, keys_uploaded_cb, vars,
                server, history
  <2> QED
    BY <2>1, <2>2 DEF KeptInv, Accounted, Own
<1>5. ASSUME NEW m \in Message, create_inbound_session(m)
      PROVE  KeptInv'
  <2>1. /\ account'.one_time_keys = account.one_time_keys \ {message[m]}
        /\ opened' = [opened EXCEPT ![m] = @ + 1]
        /\ UNCHANGED <<saved, message, made, fallbacks, forgotten>>
    BY <1>t, <1>5 DEF create_inbound_session, olm_remove_one_time_keys, server, history, Account
  <2>2. opened \in [Message -> 0 .. 2]
    BY DEF OneTimeInv, TypeOK
  <2>3. opened'[m] > 0 /\ \A q \in Message : opened[q] > 0 => opened'[q] > 0
    BY <2>1, <2>2
  <2> QED
    BY <2>1, <2>3 DEF KeptInv, Accounted, Own
<1>6. ASSUME NEW m \in Message, NEW k \in Key, claim(m, k)
      PROVE  KeptInv'
  <2>1. /\ message[m] = NoKey /\ message' = [message EXCEPT ![m] = k]
        /\ UNCHANGED <<account, opened, saved, made, fallbacks, forgotten>>
    BY <1>6 DEF claim, history
  <2>2. opened[m] = 0 /\ saved.opened[m] = 0
    BY <2>1 DEF OneTimeInv, UsedGone
  <2>3. \A q \in Message : q # m => message'[q] = message[q]
    BY <2>1 DEF OneTimeInv, TypeOK
  <2>4. \A q \in Message : opened[q] > 0 \/ saved.opened[q] > 0 => message'[q] = message[q]
    BY <2>2, <2>3
  <2> QED
    BY <2>1, <2>4 DEF KeptInv, Accounted, Own
<1> QED
  BY <1>1, <1>2, <1>3, <1>4, <1>5, <1>6 DEF Next

\* A fallback key that was overtaken stays so.
LEMMA OvertakenStays ==
    ASSUME NEW k, Overtaken(k), fallbacks \subseteq fallbacks', hurried \subseteq hurried',
           early \subseteq early'
    PROVE  Overtaken(k)'
BY DEF Overtaken

\* What the server hands out stays usable, or was overtaken.
LEMMA UsableNext ==
    OneTimeInv /\ UploadInv /\ UsableInv /\ [Next]_vars => UsableInv'
<1> SUFFICES ASSUME OneTimeInv, UploadInv, UsableInv, [Next]_vars PROVE UsableInv'
  OBVIOUS
<1>t. /\ made \in 0 .. MaxKeys /\ saved.made \in 0 .. MaxKeys /\ saved.made <= made
      /\ account \in Account /\ MaxKeys \in Nat
      /\ account.current \in (Own(made) \cap fallbacks) \cup {NoKey}
      /\ account.previous \in (Own(made) \cap fallbacks) \cup {NoKey}
      /\ saved.account.current \in (Own(saved.made) \cap fallbacks) \cup {NoKey}
      /\ fallbacks \subseteq 1 .. made
      /\ served_fallback \in fallbacks \cup {NoKey}
      /\ upload \in [Request -> [st : {"new", "sent", "stored", "over"}, keys : SUBSET Key,
                                  fallback : Key \cup {NoKey}]]
      /\ \A r \in Request : upload[r].fallback \in fallbacks \cup {NoKey}
  BY Typed, OlmAccountAssumption
<1>u. /\ Last(account, made) /\ Last(saved.account, saved.made)
      /\ Usable(account, made) /\ Usable(saved.account, saved.made)
      /\ Carried
  BY DEF UsableInv
<1>n. NoKey \notin Own(made) /\ NoKey \notin Own(saved.made)
  BY DEF Own, NoKey
<1>1. ASSUME NEW n \in 0 .. MaxGenerate, NEW f \in BOOLEAN, generate_one_time_keys(n, f)
      PROVE  UsableInv'
  <2>1. /\ made' = made + n + (IF f THEN 1 ELSE 0)
        /\ IF f THEN /\ account'.current = made' /\ account'.previous = account.current
                     /\ ~ account'.current_published
                ELSE /\ account'.current = account.current
                     /\ account'.previous = account.previous
                     /\ account'.current_published = account.current_published
        /\ fallbacks' = fallbacks \cup (IF f THEN {made'} ELSE {})
        /\ hurried' = hurried \cup (IF UnderWay # {} THEN made + 1 .. made' ELSE {})
        /\ early' = early \cup (IF f /\ account.current # NoKey /\ ~ account.current_published
                                  THEN {made'} ELSE {})
        /\ UNCHANGED <<saved, upload, served_fallback>>
    BY <1>1, Generated
  <2>2. /\ Own(made)' = Own(made) \cup (made + 1 .. made') /\ made <= made'
        /\ \A k \in Own(made) : k \in fallbacks' <=> k \in fallbacks
        /\ Own(saved.made)' = Own(saved.made)
        /\ \A k \in Own(saved.made) : k \in fallbacks' <=> k \in fallbacks
    BY <1>1, OwnGrows
  <2>3. /\ \A k \in fallbacks : k \in Int /\ 1 <= k /\ k <= made
        /\ made \in Int /\ made' \in Int
        /\ f => made < made' /\ made' \in made + 1 .. made'
    BY <1>t, <2>1, OlmAccountAssumption
  <2>4. \A k : Overtaken(k) => Overtaken(k)'
    BY <2>1, OvertakenStays
  <2>5. Last(account, made)'
    <3>1. \A k \in Own(made)' \cap fallbacks' : k <= account'.current
      <4>1. CASE f
        <5>1. account'.current = made' /\ fallbacks' = fallbacks \cup {made'}
          BY <2>1, <4>1
        <5> QED
          BY <2>3, <4>1, <5>1
      <4>2. CASE ~ f
        <5>1. account'.current = account.current /\ fallbacks' = fallbacks
          BY <2>1, <4>2
        <5>2. \A k \in Own(made)' \cap fallbacks : k \in Own(made)
          BY <1>t, <2>2, <2>3
        <5> QED
          BY <1>u, <5>1, <5>2 DEF Last
      <4> QED
        BY <4>1, <4>2
    <3>2. account'.previous # NoKey => account'.previous < account'.current
      <4>1. CASE f
        <5>1. account'.previous = account.current /\ account'.current = made'
          BY <2>1, <4>1
        <5>2. account.current # NoKey => account.current \in fallbacks
          BY <1>t
        <5> QED
          BY <2>3, <4>1, <5>1, <5>2
      <4>2. CASE ~ f
        BY <1>u, <2>1, <4>2 DEF Last
      <4> QED
        BY <4>1, <4>2
    <3> QED
      BY <3>1, <3>2 DEF Last
  <2>6. Last(saved.account, saved.made)'
    BY <1>u, <2>1, <2>2 DEF Last
  <2>7. Usable(saved.account, saved.made)'
    BY <1>u, <2>1, <2>2, <2>4 DEF Usable
  <2>8. Usable(account, made)'
    <3> SUFFICES ASSUME served_fallback \in Own(made)'
                 PROVE  \/ Overtaken(served_fallback)'
                        \/ served_fallback = account'.current
                        \/ served_fallback = account'.previous /\ ~ account'.current_published
      BY <2>1 DEF Usable
    <3>1. served_fallback \in Own(made) /\ served_fallback \in fallbacks
      <4>1. served_fallback # NoKey
        <5>1. \A k \in made + 1 .. made' : k # NoKey
          BY <2>3, <1>t DEF NoKey
        <5> QED
          BY <1>n, <2>2, <5>1
      <4> QED
        BY <1>t, <2>2, <2>3, <4>1
    <3>2. \/ Overtaken(served_fallback)
          \/ served_fallback = account.current
          \/ served_fallback = account.previous /\ ~ account.current_published
      BY <1>u, <3>1 DEF Usable
    <3>3. CASE Overtaken(served_fallback)
      BY <2>1, <3>3 DEF Overtaken
    <3>4. CASE served_fallback = account.current
      BY <2>1, <3>4
    <3>5. CASE served_fallback = account.previous /\ ~ account.current_published
      <4>1. CASE f
        <5>1. account.current # NoKey
          BY <1>n, <1>u, <2>3, <3>1, <3>5 DEF Last, NoKey
        <5>2. made' \in early' /\ made' \in fallbacks' /\ served_fallback < made'
          BY <2>1, <2>3, <3>1, <3>5, <4>1, <5>1
        <5>3. Overtaken(served_fallback)'
          BY <2>1, <5>2 DEF Overtaken
        <5> QED
          BY <5>3
      <4>2. CASE ~ f
        BY <2>1, <3>5, <4>2
      <4> QED
        BY <4>1, <4>2
    <3> QED
      BY <3>2, <3>3, <3>4, <3>5
  <2>9. Carried'
    <3> SUFFICES ASSUME NEW r \in UnderWay, upload[r].fallback # NoKey
                 PROVE  /\ upload[r].fallback \in Own(made)'
                        /\ \/ upload[r].fallback = account'.current
                           \/ upload[r].fallback < account'.current /\ account'.current \in hurried'
                        /\ upload[r].st = "stored" /\ upload[r].fallback = account'.current
                             => served_fallback = account'.current \/ account'.current \in hurried'
      BY <2>1 DEF Carried, UnderWay
    <3>1. /\ upload[r].fallback \in Own(made)
          /\ \/ upload[r].fallback = account.current
             \/ upload[r].fallback < account.current /\ account.current \in hurried
          /\ upload[r].st = "stored" /\ upload[r].fallback = account.current
               => served_fallback = account.current \/ account.current \in hurried
      BY <1>u DEF Carried
    <3>2. hurried' = hurried \cup (made + 1 .. made')
      BY <2>1
    <3>3. upload[r].fallback \in fallbacks
      BY <1>t DEF UnderWay
    <3>4. CASE f
      <4>1. account'.current = made' /\ made' \in hurried' /\ upload[r].fallback < made'
        BY <2>1, <2>3, <3>2, <3>3, <3>4
      <4> QED
        BY <2>2, <3>1, <4>1
    <3>5. CASE ~ f
      BY <2>1, <2>2, <3>1, <3>2, <3>5
    <3> QED
      BY <3>4, <3>5
  <2> QED
    BY <2>5, <2>6, <2>7, <2>8, <2>9 DEF UsableInv
<1>2. CASE save
  <2>1. /\ saved'.account = account /\ saved'.made = made
        /\ UNCHANGED <<account, upload, served_fallback, made, fallbacks, hurried, early, forgotten>>
    BY <1>2 DEF save, server, history
  <2> QED
    BY <1>u, <2>1 DEF UsableInv, Last, Usable, Carried, Overtaken, Own, UnderWay
<1>3. CASE load
  <2>1. /\ account' = saved.account
        /\ upload' = [r \in Request |-> IF r \in UnderWay THEN Over ELSE upload[r]]
        /\ forgotten' = forgotten \cup (saved.made + 1 .. made)
        /\ UNCHANGED <<saved, served_fallback, made, fallbacks, hurried, early>>
    BY <1>3 DEF load, server
  <2>2. Own(made)' = Own(saved.made) /\ Own(saved.made)' = Own(saved.made)
    BY <1>t, <2>1 DEF Own
  <2>3. UnderWay' = {}
    BY <2>1 DEF UnderWay, Over
  <2> QED
    BY <1>u, <2>1, <2>2, <2>3 DEF UsableInv, Last, Usable, Carried, Overtaken
<1>4. CASE forget_old_fallback_key
  <2>1. /\ account.current_published /\ account'.current_published
        /\ account'.current = account.current /\ account'.previous = NoKey
    BY <1>4, <1>t DEF forget_old_fallback_key, forget_old, Account
  <2>2. UNCHANGED <<saved, upload, served_fallback, made, fallbacks, hurried, early, forgotten>>
    BY <1>4 DEF forget_old_fallback_key, server, history
  <2> QED
    BY <1>u, <2>1, <2>2 DEF UsableInv, Last, Usable, Carried, Overtaken, Own, UnderWay
<1>5. ASSUME NEW r \in Request, NEW ok \in BOOLEAN, keys_uploaded_cb(r, ok)
      PROVE  UsableInv'
  <2>1. /\ upload' = [upload EXCEPT ![r] = Over]
        /\ UNCHANGED <<saved, served_fallback, made, fallbacks, hurried, early, forgotten>>
    BY <1>5 DEF keys_uploaded_cb, server, history
  <2>2. account'.current = account.current /\ account'.previous = account.previous
    BY <1>5, <1>t DEF keys_uploaded_cb, mark_keys_as_published, Account
  <2>3. \A q \in UnderWay' : q \in UnderWay /\ upload'[q] = upload[q]
    BY <1>t, <2>1 DEF UnderWay, Over
  <2>4. Carried'
    BY <1>u, <2>1, <2>2, <2>3 DEF Carried, Own
  <2>5. Last(account, made)' /\ Last(saved.account, saved.made)' /\ Usable(saved.account, saved.made)'
    BY <1>u, <2>1, <2>2 DEF Last, Usable, Overtaken, Own
  <2>6. Usable(account, made)'
    <3>1. CASE account' = account
      BY <1>u, <2>1, <3>1 DEF Usable, Overtaken, Own
    <3>2. CASE upload[r].st = "stored" /\ account' = mark_keys_as_published(account)
      <4> SUFFICES ASSUME served_fallback \in Own(made), ~ Overtaken(served_fallback),
                          served_fallback = account.previous, ~ account.current_published
                   PROVE  served_fallback = account.current
        BY <1>u, <2>1, <2>2 DEF Usable, Overtaken, Own
      <4>1. served_fallback < account.current /\ account.current # NoKey
        <5>1. served_fallback # NoKey
          BY <1>n
        <5>2. account.previous < account.current
          BY <1>u, <5>1 DEF Last
        <5>3. served_fallback \in 1 .. made
          BY <1>t, <5>1
        <5> QED
          BY <1>t, <5>2, <5>3 DEF NoKey
      <4>2. account.current \in fallbacks
        BY <1>t, <4>1
      <4>3. account.current \notin hurried
        BY <4>1, <4>2 DEF Overtaken
      <4>4. r \in UnderWay
        BY <3>2 DEF UnderWay
      <4>5. upload[r].fallback = account.current
        BY <4>1, <4>3, <4>4 DEF UploadInv, unpublished_fallback_keys
      <4> QED
        BY <1>u, <3>2, <4>1, <4>3, <4>4, <4>5 DEF Carried
    <3> QED
      BY <1>5, <3>1, <3>2 DEF keys_uploaded_cb
  <2> QED
    BY <2>4, <2>5, <2>6 DEF UsableInv
<1>6. ASSUME NEW r \in Request, upload_keys(r)
      PROVE  UsableInv'
  <2>1. /\ upload' = [upload EXCEPT ![r] = create_upload_keys_request(account)]
        /\ UNCHANGED <<account, saved, served_fallback, made, fallbacks, hurried, early, forgotten>>
    BY <1>6 DEF upload_keys, server, history
  <2>2. Last(account, made)' /\ Last(saved.account, saved.made)' /\ Usable(account, made)'
        /\ Usable(saved.account, saved.made)'
    BY <1>u, <2>1 DEF Last, Usable, Overtaken, Own
  <2>3. \A q \in UnderWay' : q # r => q \in UnderWay /\ upload'[q] = upload[q]
    BY <1>t, <2>1 DEF UnderWay
  <2>4. /\ upload'[r].st = "sent"
        /\ upload'[r].fallback \in {NoKey, account.current}
    BY <1>t, <2>1 DEF create_upload_keys_request, unpublished_fallback_keys
  <2>5. Carried'
    <3> SUFFICES ASSUME NEW q \in UnderWay', upload'[q].fallback # NoKey
                 PROVE  /\ upload'[q].fallback \in Own(made)
                        /\ \/ upload'[q].fallback = account.current
                           \/ upload'[q].fallback < account.current /\ account.current \in hurried
                        /\ upload'[q].st = "stored" /\ upload'[q].fallback = account.current
                             => served_fallback = account.current \/ account.current \in hurried
      BY <2>1 DEF Carried, Own
    <3>1. CASE q = r
      BY <1>t, <2>4, <3>1
    <3>2. CASE q # r
      BY <1>u, <2>3, <3>2 DEF Carried
    <3> QED
      BY <3>1, <3>2
  <2> QED
    BY <2>2, <2>5 DEF UsableInv
<1>7. ASSUME NEW r \in Request, store_keys(r)
      PROVE  UsableInv'
  <2> DEFINE fb == upload[r].fallback
  <2>1. /\ upload[r].st = "sent" /\ upload' = [upload EXCEPT ![r].st = "stored"]
        /\ served_fallback' = IF fb = NoKey THEN served_fallback ELSE fb
        /\ UNCHANGED <<account, saved, made, fallbacks, hurried, early, forgotten>>
    BY <1>7 DEF store_keys, history
  <2>2. \A q \in Request : upload'[q].fallback = upload[q].fallback
                            /\ (q # r => upload'[q].st = upload[q].st)
    BY <1>t, <2>1
  <2>3. r \in UnderWay /\ UnderWay' \subseteq UnderWay
    BY <1>t, <2>1 DEF UnderWay
  <2>4. fb # NoKey => /\ fb \in fallbacks
                     /\ \/ fb = account.current
                        \/ fb < account.current /\ account.current \in hurried
    BY <1>t, <1>u, <2>3 DEF Carried, UnderWay
  <2>5. fb # NoKey => fb = account.current \/ Overtaken(fb)
    <3> SUFFICES ASSUME fb # NoKey, fb < account.current, account.current \in hurried
                 PROVE  Overtaken(fb)
      BY <2>4
    <3>1. fb \in 1 .. made
      BY <1>t, <2>4
    <3>2. account.current \in (Own(made) \cap fallbacks) \cup {NoKey}
      BY <1>t
    <3>3. account.current # NoKey
      BY <3>1 DEF NoKey
    <3>4. account.current \in fallbacks
      BY <3>2, <3>3
    <3> QED
      BY <3>4 DEF Overtaken
  <2>6. Last(account, made)' /\ Last(saved.account, saved.made)'
    BY <1>u, <2>1 DEF Last, Own
  <2>7. Usable(account, made)'
    BY <1>u, <2>1, <2>5 DEF Usable, Overtaken, Own
  <2>8. Usable(saved.account, saved.made)'
    <3>1. CASE fb = NoKey
      BY <1>u, <2>1, <3>1 DEF Usable, Overtaken, Own
    <3>2. CASE fb # NoKey /\ Overtaken(fb)
      BY <2>1, <3>2 DEF Usable, Overtaken, Own
    <3>3. CASE fb # NoKey /\ fb = account.current /\ fb \in Own(saved.made)
      <4>1. fb <= saved.account.current
        BY <1>u, <2>4, <3>3 DEF Last
      <4>2. saved.account.current # NoKey => saved.account.current \in Own(made) \cap fallbacks
        BY <1>t DEF Own
      <4>0. fb \in 1 .. made
        BY <1>t, <2>4, <3>3
      <4>3. saved.account.current # NoKey
        BY <4>0, <4>1 DEF NoKey
      <4>4. saved.account.current <= fb
        BY <1>u, <3>3, <4>2, <4>3 DEF Last
      <4>5. fb = saved.account.current
        <5>1. saved.account.current \in 1 .. made
          BY <1>t, <4>2, <4>3
        <5> QED
          BY <1>t, <4>0, <4>1, <4>4, <5>1
      <4> QED
        BY <2>1, <3>3, <4>5 DEF Usable
    <3>4. CASE fb # NoKey /\ fb \notin Own(saved.made)
      BY <2>1, <3>4 DEF Usable, Own
    <3> QED
      BY <2>5, <3>1, <3>2, <3>3, <3>4
  <2>9. Carried'
    <3> SUFFICES ASSUME NEW q \in UnderWay, upload[q].fallback # NoKey
                 PROVE  /\ upload[q].fallback \in Own(made)
                        /\ \/ upload[q].fallback = account.current
                           \/ upload[q].fallback < account.current /\ account.current \in hurried
                        /\ upload'[q].st = "stored" /\ upload[q].fallback = account.current
                             => served_fallback' = account.current \/ account.current \in hurried
      BY <2>1, <2>2, <2>3 DEF Carried, Own, UnderWay
    <3>1. /\ upload[q].fallback \in Own(made)
          /\ \/ upload[q].fallback = account.current
             \/ upload[q].fallback < account.current /\ account.current \in hurried
          /\ upload[q].st = "stored" /\ upload[q].fallback = account.current
               => served_fallback = account.current \/ account.current \in hurried
      BY <1>u DEF Carried
    <3>2. ASSUME upload'[q].st = "stored", upload[q].fallback = account.current
          PROVE  served_fallback' = account.current \/ account.current \in hurried
      <4>1. CASE fb # NoKey
        BY <2>1, <2>4, <4>1
      <4>2. CASE fb = NoKey
        <5>1. q # r
          BY <4>2
        <5>2. upload[q].st = "stored"
          BY <2>2, <3>2, <5>1 DEF UnderWay
        <5> QED
          BY <2>1, <3>1, <3>2, <4>2, <5>2
      <4> QED
        BY <4>1, <4>2
    <3> QED
      BY <3>1, <3>2
  <2> QED
    BY <2>6, <2>7, <2>8, <2>9 DEF UsableInv
<1>8. ASSUME NEW m \in Message, create_inbound_session(m)
      PROVE  UsableInv'
  <2>1. /\ account'.current = account.current /\ account'.previous = account.previous
        /\ account'.current_published = account.current_published
    BY <1>8, <1>t DEF create_inbound_session, olm_remove_one_time_keys, Account
  <2>2. UNCHANGED <<saved, upload, served_fallback, made, fallbacks, hurried, early, forgotten>>
    BY <1>8 DEF create_inbound_session, server, history
  <2> QED
    BY <1>u, <2>1, <2>2 DEF UsableInv, Last, Usable, Carried, Overtaken, Own, UnderWay
<1>9. CASE (\E m \in Message, k \in Key : claim(m, k)) \/ UNCHANGED vars
  <2>1. UNCHANGED <<account, saved, upload, served_fallback, made, fallbacks, hurried, early,
                    forgotten>>
    BY <1>9 DEF claim, vars, server, history
  <2> QED
    BY <1>u, <2>1 DEF UsableInv, Last, Usable, Carried, Overtaken, Own, UnderWay
<1> QED
  BY <1>1, <1>2, <1>3, <1>4, <1>5, <1>6, <1>7, <1>8, <1>9 DEF Next

KeysInv == UploadInv /\ PublishedInv /\ KeptInv /\ UsableInv

\* A new account has no key that could be lost.
LEMMA KeysInit == Init => KeysInv
<1> SUFFICES ASSUME Init PROVE KeysInv
  OBVIOUS
<1>1. UnderWay = {}
  BY DEF Init, UnderWay, NotSent
<1>2. \A n \in {made, saved.made} : Own(n) = {}
  BY DEF Init, Own
<1>3. UploadInv /\ KeptInv
  BY <1>1, <1>2 DEF UploadInv, KeptInv
<1>4. PublishedInv
  BY DEF Init, PublishedInv, ReachedServer, create_new_account, NoKey
<1>5. UsableInv
  BY <1>1, <1>2 DEF Init, UsableInv, Last, Usable, Carried, create_new_account, NoKey
<1> QED
  BY <1>3, <1>4, <1>5 DEF KeysInv

\* All the invariants hold throughout.
THEOREM KeysInvariant == Spec => [](OneTimeInv /\ KeysInv)
<1>1. OneTimeInv /\ KeysInv /\ [Next]_vars => KeysInv'
  BY UploadNext, PublishedNext, KeptNext, UsableNext DEF KeysInv
<1> QED
  BY <1>1, OneTimeInvariant, KeysInit, PTL DEF Spec

\* The account of the application has its type.
THEOREM AccountTypeCorrect == Spec => []TypeOK
<1>1. OneTimeInv => TypeOK
  BY DEF OneTimeInv
<1> QED
  BY <1>1, OneTimeInvariant, PTL

\* A key that counts as published reached the server, although
\* mark_keys_as_published does not look at what the request carried, or it was
\* made while a request was under way.
THEOREM PublishedKeysReachServer == Spec => []PublishedReachedServer
<1>1. KeysInv => PublishedReachedServer
  BY DEF KeysInv, PublishedInv, PublishedReachedServer
<1> QED
  BY <1>1, KeysInvariant, PTL

\* The private half of a one-time key the server has or handed out is lost only
\* by being used, to as many newer keys as libolm has room for, or in a restart
\* before it was saved.
THEOREM ServedKeysAreKept == Spec => []ServedKeysKept
<1>1. KeysInv => ServedKeysKept
  BY DEF KeysInv, KeptInv, ServedKeysKept
<1> QED
  BY <1>1, KeysInvariant, PTL

\* The fallback key the server hands out is one the account still has, unless a
\* newer one was made in haste.
THEOREM FallbackIsUsable == Spec => []FallbackUsable
<1>1. KeysInv => FallbackUsable
  BY DEF KeysInv, UsableInv, Usable, FallbackUsable
<1> QED
  BY <1>1, KeysInvariant, PTL
=============================================================================
