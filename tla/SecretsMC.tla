----------------------------- MODULE SecretsMC -----------------------------
EXTENDS Secrets

SomeBytes == {0, 1, 57, 58, 200, 255}
McSamples == UNION {[1 .. n -> SomeBytes] : n \in 0 .. 3}
McCodeSamples == [1 .. 6 -> {0, 1, 170, 255}]
McKeys == {<<0, 0>>, <<57, 58>>, <<255, 1>>}
=============================================================================
