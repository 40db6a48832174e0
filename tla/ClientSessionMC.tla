--------------------------- MODULE ClientSessionMC ---------------------------
(* Instances of ClientSession for TLC.                                      *)
EXTENDS ClientSession, TLC

CONSTANTS r1, r2, r3, u1, u2, h1, h2, t0, t1

Req2 == {r1, r2}
Req3 == {r1, r2, r3}
MCUser == {u1, u2}
OneUser == {u1}
MCHost == {h1, h2}
OneHost == {h1}

\* One session kept from an earlier run, one that can be granted.
MCToken == {t0, t1}
MCStored == {t0}

Symmetry ==
    Permutations(Req3) \cup Permutations(MCUser) \cup Permutations(MCHost)
=============================================================================
