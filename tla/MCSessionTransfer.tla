-------------------------- MODULE MCSessionTransfer --------------------------
\* Model values of SessionTransfer for TLC.
EXTENDS SessionTransfer, TLC

\* below the API's floor, and important enough for persona_memory
MCImportances == {1, 4}
=============================================================================
