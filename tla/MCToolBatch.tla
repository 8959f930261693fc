---------------------------- MODULE MCToolBatch ----------------------------
(* Instances of ToolBatch for TLC: session-config calls and a batch.       *)
EXTENDS ToolBatch

CONSTANTS s, t, a, b

OneConfig == <<s>>
TwoConfig == <<s, t>>

=============================================================================
