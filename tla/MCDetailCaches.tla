--------------------------- MODULE MCDetailCaches ---------------------------
(* A small instance of DetailCaches for TLC. *)
EXTENDS DetailCaches

CONSTANTS s1, day, week

MCSymbolOrder == <<s1>>
MCRangeOrder == <<day, week>>
=============================================================================
