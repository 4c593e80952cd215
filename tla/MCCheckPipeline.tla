--------------------------- MODULE MCCheckPipeline ---------------------------
EXTENDS CheckPipeline

MCOutcomes == [t \in Targets |-> BOOLEAN]
=============================================================================
