----------------------------- MODULE MCMapScore -----------------------------
(***************************************************************************)
(* MapScore in the format HLTV sends, and in short ones, where the         *)
(* half, the map point and the overtime fall on the same scores.           *)
(***************************************************************************)
EXTENDS MapScore

SomeFormats == ((1..3) \X (1..3)) \union {<<12, 3>>}
=============================================================================
