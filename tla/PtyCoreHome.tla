---------------------------- MODULE PtyCoreHome -----------------------------
(***************************************************************************)
(* PtyCore implements CoreHome: its threads, requests and clients are      *)
(* hidden, and a successor that is about to refuse still looks like one    *)
(* that receives.                                                          *)
(***************************************************************************)
EXTENDS PtyCore

StageOf(c) == IF proc[c] = "failing" THEN "receiving" ELSE proc[c]

Home == INSTANCE CoreHome WITH
    stage <- [c \in Cores |-> StageOf(c)],
    socket <- (socket # None),
    load <- live,
    given <- {c \in Cores : handed[c]}

\* Every step of the core processes, their request threads and their clients
\* is a step of the home as others see it: only the first process with the
\* flock binds, a successor is named by the record before it commits, and
\* only an empty or a handed-over core leaves.
ImplementsHome == Home!HomeSpec
=============================================================================
