--------------------------- MODULE MCPluginConfig ---------------------------
(***************************************************************************)
(* Small instances of PluginConfig for TLC.                                *)
(***************************************************************************)
EXTENDS PluginConfig, TLC

CONSTANTS op1, op2

\* A definition with examples for one of its operations.
WithExamples == [config |-> "complete", paths |-> {op1, op2}, examples |-> {op1}]

\* The definition after a reload that has renamed its operation: no examples.
Renamed == [config |-> "complete", paths |-> {op2}, examples |-> {}]

\* An API without any operation that could be selected: no index is built.
NoOperations == [config |-> "complete", paths |-> {}, examples |-> {}]

\* A definition without the x-nl-config the plugin requires.
Unconfigured == [config |-> "missing", paths |-> {op1}, examples |-> {}]

\* A definition with a configuration of the wrong types.
IllTyped == [config |-> "ill_typed", paths |-> {op1}, examples |-> {op1}]

OneDefinition    == {WithExamples}
AllDefinitions   == {WithExamples, Renamed, NoOperations, Unconfigured, IllTyped}

AllKinds    == {"nlq", "delete", "put"}
NlqAndDelete == {"nlq", "delete"}

NoFault     == {}
KillAndStore == {"kill", "store"}
MostFaults  == {"kill", "model", "store"}
AllFaults   == {"kill", "model", "store", "lost_reply"}

=============================================================================
