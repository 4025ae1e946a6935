---------------------------- MODULE MCSerialLink ----------------------------
(***************************************************************************)
(* SerialLink for TLC.                                                     *)
(***************************************************************************)
EXTENDS SerialLink

\* A small first byte: what a lost byte makes a length is soon read over.
WeatherData == <<2, PACKET_HEAD1>>
=============================================================================
