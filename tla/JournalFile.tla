---------------------------- MODULE JournalFile ----------------------------
(***************************************************************************)
(* output.bin and output-retention.json of one Session: the writer of the  *)
(* host (RetainedOutputWriter), the compaction of exited journals, and     *)
(* what a reader that takes no lock finds in the file.                     *)
(*                                                                         *)
(* Byte number i of the output has the value i; a punched byte reads as 0. *)
(* Offsets below the published floor are not readable.  The floor is       *)
(* published before the blocks below it are punched, in two steps.         *)
(***************************************************************************)
EXTENDS Integers, Sequences

CONSTANTS
    Retain,     \* SESSION_OUTPUT_JOURNAL_RETAIN_BYTES
    Advance,    \* SESSION_OUTPUT_JOURNAL_ADVANCE_BYTES
    Block       \* block size of the file system

ASSUME FileConstants ==
    Retain \in Nat \ {0} /\ Advance \in Nat \ {0} /\ Block \in Nat \ {0}

VARIABLES
    jlen,       \* length of output.bin
    floor,      \* retained_from in output-retention.json
    kept,       \* RetainedOutputWriter.retained_from
    punched,    \* the bytes 1..punched have been deallocated
    wpc,        \* the writer: "write", "retain" after a write, "punch"
    checkAt,    \* next_retention_check_at
    retaining   \* ~retention_disabled

fileVars == <<jlen, floor, kept, punched, wpc, checkAt, retaining>>

Down(n) == n - (n % Block)

FileInit ==
    /\ jlen = 0 /\ floor = 0 /\ kept = 0 /\ punched = 0 /\ wpc = "write"
    /\ checkAt = Retain + Advance /\ retaining = TRUE

FileTypeOK ==
    /\ {jlen, floor, kept, punched, checkAt} \subseteq Nat
    /\ wpc \in {"write", "retain", "punch"} /\ retaining \in BOOLEAN

\* What reading bytes lo+1..hi of output.bin returns at this moment.
FileBytes(lo, hi) == [i \in 1 .. hi - lo |-> IF lo + i <= punched THEN 0 ELSE lo + i]

\* safe_output_retention_boundary: some replay-safe offset of the scanned
\* part; which one depends on the escape sequences in the bytes.
SafeBoundary(lo, desired) == IF desired <= lo THEN {lo} ELSE lo .. desired

\* Only whole blocks are punched; without one there is no new floor.
Advances(new) == new > kept /\ Down(new) > Down(kept)

\* RetainedOutputWriter::write: a batch reaches the file.
AppendJournal(n) ==
    /\ wpc = "write" /\ wpc' = "retain"
    /\ jlen' = jlen + n
    /\ UNCHANGED <<floor, kept, punched, checkAt, retaining>>

\* maybe_advance_retention, after every write: far enough past the last check
\* it looks for a boundary and publishes it, or gives up until the next check.
RetentionPublish ==
    /\ wpc = "retain"
    /\ IF retaining /\ jlen >= checkAt
       THEN /\ checkAt' = jlen + Advance
            /\ \E new \in SafeBoundary(kept, jlen - Retain) :
                  IF Advances(new) THEN floor' = new /\ wpc' = "punch"
                                   ELSE floor' = floor /\ wpc' = "write"
       ELSE wpc' = "write" /\ UNCHANGED <<floor, checkAt>>
    /\ UNCHANGED <<jlen, kept, punched, retaining>>

\* punch_output_hole succeeds.
Punch ==
    /\ wpc = "punch" /\ wpc' = "write"
    /\ punched' = Down(floor)
    /\ kept' = floor /\ checkAt' = floor + Retain + Advance
    /\ UNCHANGED <<jlen, floor, retaining>>

\* It fails: the old floor is put back and retention is off for this Host.
PunchFails ==
    /\ wpc = "punch" /\ wpc' = "write"
    /\ floor' = kept /\ retaining' = FALSE
    /\ UNCHANGED <<jlen, kept, punched, checkAt>>

\* compact_output_journal_path on an exited Session: no advance threshold.
CompactPublish ==
    /\ wpc = "write" /\ wpc' = "punch" /\ jlen - floor > Retain
    /\ \E new \in SafeBoundary(floor, jlen - Retain) : Advances(new) /\ floor' = new
    /\ UNCHANGED <<jlen, kept, punched, checkAt, retaining>>

\* RetainedOutputWriter::reopen, by the core that takes the Session over.
Reopen ==
    /\ kept' = floor /\ checkAt' = jlen + Retain + Advance /\ retaining' = TRUE
    /\ UNCHANGED <<jlen, floor, punched, wpc>>
=============================================================================
