------------------------------ MODULE MCCodec ------------------------------
(* Instantiates Codec for TLC.  Words of two bytes, so that slices of up  *)
(* to three bytes have a word part and a tail, and a dst one byte short   *)
(* of n reaches both loops; bytes whose two hex digits differ.             *)
EXTENDS Codec

MCByteVals == {15, 165, 240}    \* 0x0f, 0xa5, 0xf0

\* Digits of both cases, both prefix letters, and a non-digit.
MCHexChars == {"0", "x", "X", "f", "A", "g"}
=============================================================================
