------------------------------ MODULE MCStream ------------------------------
(* A small instance of Stream for TLC: the second channel has an empty file, *)
(* and the first the longest description that fits.                          *)
EXTENDS Stream

Descriptions == <<126, 2>>
Library == << <<1>>, <<0, 2, 1>> >>
=============================================================================
