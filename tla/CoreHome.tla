------------------------------ MODULE CoreHome ------------------------------
(***************************************************************************)
(* What the PTY core processes of one workspace home promise to everyone   *)
(* outside of them: who holds the flock, whom pty-core.json names, whether *)
(* the socket is there, and which Sessions each process carries.  PtyCore  *)
(* is the detailed specification (PtyCoreHome has the mapping); the        *)
(* supervisor is composed with this one.                                   *)
(***************************************************************************)
CONSTANTS Cores, Sessions, None

VARIABLES
    stage,   \* where each process is
    lock,    \* processes that share the flocked file
    socket,  \* pty-core.sock exists
    record,  \* process pty-core.json names, or None
    load,    \* Sessions each process carries (its live set)
    given    \* processes that handed everything to a successor

homeVars == <<stage, lock, socket, record, load, given>>

HomeTypeOK ==
    /\ stage \in [Cores -> {"off", "asking", "receiving", "recorded", "serving",
                            "leaving", "exited"}]
    /\ lock \subseteq Cores /\ socket \in BOOLEAN /\ record \in Cores \cup {None}
    /\ load \in [Cores -> SUBSET Sessions] /\ given \subseteq Cores

HomeInit ==
    /\ stage = [c \in Cores |-> "off"] /\ lock = {} /\ socket = FALSE
    /\ record = None /\ load = [c \in Cores |-> {}] /\ given = {}

To(c, s) == stage' = [stage EXCEPT ![c] = s]

\* The first process to get the flock binds the socket and writes the record.
Serve(c) ==
    /\ stage[c] = "off" /\ lock = {}
    /\ To(c, "serving")
    /\ lock' = {c} /\ socket' = TRUE /\ record' = c
    /\ UNCHANGED <<load, given>>

\* A process that does not get it is not needed and exits 0.
Yield(c) ==
    /\ stage[c] = "off" /\ lock # {}
    /\ To(c, "exited")
    /\ UNCHANGED <<lock, socket, record, load, given>>

\* Nothing to hand over, or everything handed over.
MayLeave(c) == load[c] = {} \/ c \in given

\* A successor reaches a serving process, which takes or refuses its request
\* and may see in the same turn of its accept loop that it is to leave.
Connect(d, c) ==
    /\ stage[c] = "off" /\ stage[d] = "serving" /\ socket
    /\ \E a \in {"asking", "exited"}, b \in {"serving", "leaving"} :
          /\ b = "leaving" => MayLeave(d)
          /\ stage' = [stage EXCEPT ![c] = a, ![d] = b]
    /\ UNCHANGED <<lock, socket, record, load, given>>

Refuse(c) ==
    /\ stage[c] = "asking"
    /\ To(c, "exited")
    /\ UNCHANGED <<lock, socket, record, load, given>>

\* The header of a handoff carries the flock and the listener.
Receive(c) ==
    /\ stage[c] = "asking" /\ lock # {}
    /\ To(c, "receiving") /\ lock' = lock \cup {c}
    /\ UNCHANGED <<socket, record, load, given>>

Adopt(c, s) ==
    /\ stage[c] = "receiving" /\ s \notin load[c]
    /\ load' = [load EXCEPT ![c] = @ \cup {s}]
    /\ UNCHANGED <<stage, lock, socket, record, given>>

\* The record is written before the commit is sent.
Record(c) ==
    /\ stage[c] = "receiving"
    /\ To(c, "recorded") /\ record' = c
    /\ UNCHANGED <<lock, socket, load, given>>

Commit(c) ==
    /\ stage[c] = "recorded" /\ lock # {c}
    /\ To(c, "serving")
    /\ UNCHANGED <<lock, socket, record, load, given>>

\* A successor that fails leaves the disk as it is.
GiveUp(c) ==
    /\ stage[c] \in {"asking", "receiving", "recorded"}
    /\ To(c, "exited")
    /\ lock' = lock \ {c} /\ load' = [load EXCEPT ![c] = {}]
    /\ UNCHANGED <<socket, record, given>>

\* A process that shuts down takes no more Sessions.
Launch(c, s) ==
    /\ \/ stage[c] = "serving"
       \/ stage[c] = "leaving" /\ c \in given
    /\ s \notin load[c]
    /\ load' = [load EXCEPT ![c] = @ \cup {s}]
    /\ UNCHANGED <<stage, lock, socket, record, given>>

EndSession(c, s) ==
    /\ s \in load[c]
    /\ load' = [load EXCEPT ![c] = @ \ {s}]
    /\ UNCHANGED <<stage, lock, socket, record, given>>

HandOver(c, S) ==
    /\ stage[c] \in {"serving", "leaving"} /\ S \subseteq load[c]
    /\ load' = [load EXCEPT ![c] = @ \ S] /\ given' = given \cup {c}
    /\ UNCHANGED <<stage, lock, socket, record>>

Leave(c) ==
    /\ stage[c] = "serving" /\ MayLeave(c)
    /\ To(c, "leaving")
    /\ UNCHANGED <<lock, socket, record, load, given>>

\* Only a shutdown removes the socket and the record.
Exit(c) ==
    /\ stage[c] = "leaving"
    /\ To(c, "exited")
    /\ lock' = lock \ {c} /\ load' = [load EXCEPT ![c] = {}]
    /\ IF c \in given THEN UNCHANGED <<socket, record>>
       ELSE socket' = FALSE /\ record' = None
    /\ UNCHANGED given

Crash(c) ==
    /\ stage[c] \in {"receiving", "recorded", "serving", "leaving"}
    /\ To(c, "exited")
    /\ lock' = lock \ {c} /\ load' = [load EXCEPT ![c] = {}]
    /\ UNCHANGED <<socket, record, given>>

HomeNext ==
    \E c \in Cores :
       \/ Serve(c) \/ Yield(c) \/ Refuse(c) \/ Receive(c) \/ Record(c) \/ Commit(c)
       \/ GiveUp(c) \/ Leave(c) \/ Exit(c) \/ Crash(c)
       \/ \E d \in Cores : Connect(d, c)
       \/ \E s \in Sessions : Adopt(c, s) \/ Launch(c, s) \/ EndSession(c, s)
       \/ \E S \in SUBSET Sessions : HandOver(c, S)

HomeSpec == HomeInit /\ [][HomeNext]_homeVars
=============================================================================
