------------------------------- MODULE MCShell -------------------------------
(***************************************************************************)
(* Shell for TLC: three names and a long one that begins like a, for two   *)
(* files at most, and texts of one and of three bytes.                     *)
(***************************************************************************)
EXTENDS Shell

CONSTANTS a, toolong

ShortAndLong == {<<1>>, <<1, 2, 1>>}
TheRest      == <<3>>
AllTexts     == ShortAndLong \cup {TheRest \o text : text \in ShortAndLong}
Beginning    == [name \in {toolong} |-> a]
=============================================================================
