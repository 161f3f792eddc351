--------------------------- MODULE DurableOutput ----------------------------
(***************************************************************************)
(* What a Session's output journal promises, without threads, channels,    *)
(* backpressure or pauses: output.bin only grows, holds a prefix of what   *)
(* the child wrote, is complete beside a clean exit nobody forced, and is  *)
(* left alone once this core gave the Session away or reported a clean     *)
(* exit.  OutputJournal is the detailed specification.                     *)
(***************************************************************************)
EXTENDS Naturals

VARIABLES
    output,   \* bytes the child has written to its PTY
    journal,  \* bytes of it in output.bin
    phase,    \* "open", "moved" to another core, or "exited"
    outcome,  \* how it exited
    stopped   \* somebody killed it

durableVars == <<output, journal, phase, outcome, stopped>>

DurableInit ==
    output = 0 /\ journal = 0 /\ phase = "open" /\ outcome = "none" /\ stopped = FALSE

Produce ==
    /\ phase # "exited"
    /\ output' = output + 1
    /\ UNCHANGED <<journal, phase, outcome, stopped>>

Write ==
    /\ phase = "open" \/ outcome = "err"
    /\ journal' \in Nat /\ journal <= journal' /\ journal' <= output
    /\ UNCHANGED <<output, phase, outcome, stopped>>

Stop ==
    /\ stopped' = TRUE
    /\ UNCHANGED <<output, journal, phase, outcome>>

Move ==
    /\ phase = "open"
    /\ phase' = "moved"
    /\ UNCHANGED <<output, journal, outcome, stopped>>

Exited(r) ==
    /\ phase = "open"
    /\ r = "ok" /\ ~stopped => journal = output
    /\ phase' = "exited" /\ outcome' = r
    /\ UNCHANGED <<output, journal, stopped>>

DurableNext == Produce \/ Write \/ Stop \/ Move \/ \E r \in {"ok", "err"} : Exited(r)

DurableSpec == DurableInit /\ [][DurableNext]_durableVars
=============================================================================
