-------------------------- MODULE MCCrossApiRouter --------------------------
(***************************************************************************)
(* Small instances of CrossApiRouter for TLC.                              *)
(***************************************************************************)
EXTENDS CrossApiRouter

CONSTANTS e1, e2

\* An entry with utterances and one without.
NoMute  == {}
MuteOne == {e2}

AllFaults     == {"kill", "store", "entry", "model", "embed"}
NotEmbed      == {"kill", "store", "entry", "model"}
NoFault       == {}

=============================================================================
