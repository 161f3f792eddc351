--------------------------- MODULE MCAttachClient --------------------------
\* Small instances of AttachClient for TLC.
EXTENDS AttachClient
=============================================================================
