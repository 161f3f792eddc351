-------------------------- MODULE MCOutputJournal --------------------------
(* Small instance of OutputJournal for TLC.                                *)
EXTENDS OutputJournal
=============================================================================
