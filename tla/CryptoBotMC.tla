---------------------------- MODULE CryptoBotMC ----------------------------
(* The bot in a room with one other user, who has one device.       *)
EXTENDS CryptoBot

CONSTANTS Us, Them, b, d1
McUsers == {Us, Them}
McDevices == {b, d1}
McOwner == [d \in McDevices |-> IF d = b THEN Us ELSE Them]
=============================================================================
