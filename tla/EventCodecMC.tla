---------------------------- MODULE EventCodecMC ----------------------------
(***************************************************************************)
(* EventCodec as it is: its instances are finite.                          *)
(***************************************************************************)
EXTENDS EventCodec
=============================================================================
