----------------------------- MODULE MCActivity -----------------------------
(* The activity engine with one Session for TLC.                           *)
EXTENDS Activity
=============================================================================
