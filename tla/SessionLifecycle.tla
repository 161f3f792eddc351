-------------------------- MODULE SessionLifecycle --------------------------
(***************************************************************************)
(* Stop, Remove, the retention sweep, Resume and Reload of hosted Sessions *)
(* (session_ops.rs) against the Hosts they act on: the launch window of a  *)
(* Host (session_host.rs start_host), its exit (session_io.rs teardown),   *)
(* Hosts that stop answering or die, readers that refresh a manifest, and  *)
(* the shared indexes that name Sessions (app-state.json and               *)
(* session-order.json).                                                    *)
(*                                                                         *)
(* A Host is one incarnation: one launch of one Session id, hosted by the  *)
(* shared PTY core or by a process of its own.  A child is the shell on    *)
(* the PTY.  A manifest names a process: none, the Host's own (the         *)
(* placeholder of a per-process Host) or the Host's child.                 *)
(***************************************************************************)
EXTENDS Integers, FiniteSets

CONSTANTS
    ClientMax,  \* Controllers, the auto-stop and the retention sweeper
    IdMax,      \* Session ids: 1 exists from the start, the others are fresh
    HostMax,    \* incarnations of Hosts
    OpMax,      \* lifecycle operations begun
    MoveMax     \* shells that exit, Hosts that stall or die, writes that fail

ASSUME LifecycleConstants ==
    /\ ClientMax \in Nat /\ OpMax \in Nat /\ MoveMax \in Nat
    /\ IdMax \in Nat /\ IdMax > OpMax
    /\ HostMax \in Nat /\ HostMax > OpMax

VARIABLES
    manifest,   \* what the Session directory of an id says, if it exists
    sock,       \* the Host whose listener is bound at an id's socket path
    host,       \* the incarnations
    lock,       \* the lifecycle lock (a flock) of an id
    op,         \* the operation each client is in
    refs,       \* the ids each shared index names
    hist        \* bounds and history

vars == <<manifest, sock, host, lock, op, refs, hist>>

Clients == 1..ClientMax
Ids == 1..IdMax
Hosts == 1..HostMax
Indexes == {"state", "order"}
Free == 0

NoManifest == [state |-> "none", named |-> "none", of |-> 0]
Unborn == [id |-> 0, at |-> "unborn", core |-> FALSE, child |-> FALSE, mute |-> FALSE]
Idle == [kind |-> "idle", id |-> 0, target |-> 0, at |-> "idle", then |-> "end"]

\* The values of the variables.
TypeOK ==
    /\ manifest \in [Ids -> [state : {"none", "running", "exited"},
                             named : {"none", "host", "child"}, of : 0..HostMax]]
    /\ sock \in [Ids -> 0..HostMax]
    /\ host \in [Hosts -> [id : 0..IdMax, core : BOOLEAN, child : BOOLEAN, mute : BOOLEAN,
                           at : {"unborn", "accepted", "launching", "spawned", "recorded", "up",
                                 "closing", "writing", "leaving", "done", "dead"}]]
    /\ lock \in [Ids -> Clients \union {Free}]
    /\ op \in [Clients ->
                [kind : {"idle", "stop", "remove", "sweep", "resume", "reload", "cleanup"},
                 id : 0..IdMax, target : 0..IdMax,
                 at : {"idle", "kill", "mark", "wait", "delete", "gone", "spawn", "transfer",
                       "cleanup", "prune", "pruneold"},
                 then : {"end", "again", "delete"}]]
    /\ refs \in [Indexes -> SUBSET Ids]
    /\ hist \in [moves : 0..MoveMax, ops : 0..OpMax, stray : SUBSET Ids,
                 removed : SUBSET Ids, early : SUBSET Ids, lost : SUBSET Ids]

\* Session 1, filed in both indexes, runs in the shared core or has exited.
Init ==
    /\ \E up \in BOOLEAN :
         /\ manifest = [i \in Ids |->
                IF i > 1 THEN NoManifest
                ELSE [state |-> IF up THEN "running" ELSE "exited", named |-> "child", of |-> 1]]
         /\ sock = [i \in Ids |-> IF i = 1 /\ up THEN 1 ELSE 0]
         /\ host = [h \in Hosts |->
                IF h > 1 THEN Unborn
                ELSE [id |-> 1, at |-> IF up THEN "up" ELSE "done",
                      core |-> TRUE, child |-> up, mute |-> FALSE]]
    /\ lock = [i \in Ids |-> Free]
    /\ op = [c \in Clients |-> Idle]
    /\ refs = [x \in Indexes |-> {1}]
    /\ hist = [moves |-> 0, ops |-> 0, stray |-> {}, removed |-> {}, early |-> {}, lost |-> {}]

-----------------------------------------------------------------------------
(* What the code reads.                                                    *)

\* The process of a Host: its own, or the core's.
Process(h) == host[h].at \notin {"unborn", "dead"} /\ (host[h].core \/ host[h].at # "done")

\* update_manifest_session holds the manifest lock from its load to its save.
Updatable(i) == \A h \in Hosts : host[h].at = "writing" => host[h].id # i

\* manifest_child_is_definitively_gone: a record without a pid proves nothing.
DefinitivelyGone(m) ==
    \/ m.named = "host" /\ ~Process(m.of)
    \/ m.named = "child" /\ ~host[m.of].child

Exited(m) == [m EXCEPT !.state = "exited"]

\* Mutant of Refreshed: a socket path that is missing counts as death.
RefreshedUnhealthy(m) ==
    IF m.state = "running" /\ (DefinitivelyGone(m) \/ (m.named = "child" /\ sock[host[m.of].id] = 0))
    THEN Exited(m) ELSE m

\* refresh_manifest_health: a Running record whose process is gone is Exited.
Refreshed(m) == IF m.state = "running" /\ DefinitivelyGone(m) THEN Exited(m) ELSE m

\* The control socket answers: somebody listens at the path and is awake.
Answers(i) == sock[i] # 0 /\ host[sock[i]].at = "up" /\ ~host[sock[i]].mute

\* Launched and still on its way to its first manifest.
Coming(i) == \E h \in Hosts : host[h].id = i /\ host[h].at = "accepted"

LiveChildren(i) == {h \in Hosts : host[h].id = i /\ host[h].child}

\* A Host's late step hits the record or the socket path of its successor.
Astray(i, strays) == IF strays THEN [hist EXCEPT !.stray = @ \union {i}] ELSE hist

MayMove == hist.moves < MoveMax
Moved == [hist EXCEPT !.moves = @ + 1]

-----------------------------------------------------------------------------
(* Hosts: start_host, the reactor's end of a Session, the teardown.        *)

\* A per-process Host clears the socket path and saves its preliminary
\* manifest, naming its own pid as the placeholder.
Publish(h) ==
    LET i == host[h].id IN
    /\ host[h].at = "accepted" /\ Updatable(i)
    /\ host' = [host EXCEPT ![h].at = "launching"]
    /\ manifest' = [manifest EXCEPT ![i] = [state |-> "running", named |-> "host", of |-> h]]
    /\ sock' = [sock EXCEPT ![i] = 0]
    /\ UNCHANGED <<lock, op, refs, hist>>

\* The shell is forked on the PTY.
Fork(h) ==
    /\ host[h].at = "launching" /\ ~host[h].mute
    /\ host' = [host EXCEPT ![h].at = "spawned", ![h].child = TRUE]
    /\ UNCHANGED <<manifest, sock, lock, op, refs, hist>>

\* The preliminary record gets the child's pid.  When the manifest has
\* disappeared the launch fails and the PTY hangs up.
Record(h) ==
    LET i == host[h].id
        kept == manifest[i].state # "none"
    IN
    /\ host[h].at = "spawned" /\ Updatable(i)
    /\ host' = [host EXCEPT ![h].at = IF kept THEN "recorded" ELSE "done", ![h].child = kept]
    /\ manifest' = [manifest EXCEPT ![i] =
                        IF kept THEN [state |-> "running", named |-> "child", of |-> h] ELSE @]
    /\ UNCHANGED <<sock, lock, op, refs, hist>>

\* The listener is bound.  A path that is taken fails the launch: the PTY hangs
\* up and the core marks the manifest exited (a process of its own just ends).
Bind(h) ==
    LET i == host[h].id
        taken == sock[i] # 0
    IN
    /\ host[h].at = "recorded" /\ (taken => Updatable(i))
    /\ host' = [host EXCEPT ![h].at = IF taken THEN "done" ELSE "up",
                            ![h].child = @ /\ ~taken]
    /\ sock' = [sock EXCEPT ![i] = IF taken THEN @ ELSE h]
    /\ manifest' = [manifest EXCEPT ![i] =
                        IF taken /\ host[h].core /\ @.state # "none" THEN Exited(@) ELSE @]
    /\ hist' = Astray(i, manifest[i].of \notin {0, h} \/ taken)
    /\ UNCHANGED <<lock, op, refs>>

\* The shell ends by itself.
ChildExit(h) ==
    /\ MayMove /\ host[h].child
    /\ host' = [host EXCEPT ![h].child = FALSE]
    /\ hist' = Moved
    /\ UNCHANGED <<manifest, sock, lock, op, refs>>

\* The reactor sees the end of the PTY; the teardown reaps the child and
\* unlinks the socket path, whoever listens there by now.
Reap(h) ==
    LET i == host[h].id IN
    /\ host[h].at = "up" /\ ~host[h].child /\ ~host[h].mute
    /\ host' = [host EXCEPT ![h].at = "closing"]
    /\ sock' = [sock EXCEPT ![i] = 0]
    /\ hist' = Astray(i, sock[i] \notin {0, h})
    /\ UNCHANGED <<manifest, lock, op, refs>>

\* The exit record, first half: the manifest is loaded under its lock.  A
\* missing one is a success: there is nothing left to record.
Load(h) ==
    LET i == host[h].id IN
    /\ host[h].at = "closing" /\ Updatable(i)
    /\ host' = [host EXCEPT ![h].at = IF manifest[i].state = "none" THEN "leaving" ELSE "writing"]
    /\ UNCHANGED <<manifest, sock, lock, op, refs, hist>>

\* Second half: it is saved as exited, creating the directory if need be.
Save(h) ==
    LET i == host[h].id IN
    /\ host[h].at = "writing"
    /\ host' = [host EXCEPT ![h].at = "leaving"]
    /\ manifest' = [manifest EXCEPT ![i] =
                        [state |-> "exited", named |-> "child", of |-> h]]
    /\ hist' = Astray(i, manifest[i].of # h)
    /\ UNCHANGED <<sock, lock, op, refs>>

\* on_exit: the core forgets the id, after marking the manifest exited once
\* more if the Session ended with an error.
Leave(h) ==
    LET i == host[h].id IN
    /\ host[h].at = "leaving"
    /\ host' = [host EXCEPT ![h].at = "done"]
    /\ \/ UNCHANGED <<manifest, hist>>
       \/ /\ MayMove /\ host[h].core /\ Updatable(i) /\ manifest[i].state # "none"
          /\ manifest' = [manifest EXCEPT ![i] = Exited(@)]
          /\ hist' = [Astray(i, manifest[i].of # h) EXCEPT !.moves = @ + 1]
    /\ UNCHANGED <<sock, lock, op, refs>>

\* The exit record is given up after the last retry (a disk that stays full).
GiveUp(h) ==
    /\ MayMove /\ host[h].at = "closing"
    /\ host' = [host EXCEPT ![h].at = "leaving"]
    /\ hist' = Moved
    /\ UNCHANGED <<manifest, sock, lock, op, refs>>

\* A Host stops answering for longer than a client waits: an awake one stalls,
\* a launching one is wedged for good.
Stall(h) ==
    /\ MayMove /\ host[h].at \in {"launching", "up"} /\ ~host[h].mute
    /\ host' = [host EXCEPT ![h].mute = TRUE]
    /\ hist' = Moved
    /\ UNCHANGED <<manifest, sock, lock, op, refs>>

Wake(h) ==
    /\ host[h].at = "up" /\ host[h].mute
    /\ host' = [host EXCEPT ![h].mute = FALSE]
    /\ UNCHANGED <<manifest, sock, lock, op, refs, hist>>

\* A process dies: the core with every Session it hosts, or one Host.  The PTY
\* hangs up; a child that is already recorded may survive that.
Crash(S) ==
    /\ MayMove
    /\ \E alive \in SUBSET {h \in S : host[h].child /\ host[h].at \in {"recorded", "up"}} :
         host' = [h \in Hosts |-> IF h \in S
                                  THEN [host[h] EXCEPT !.at = "dead", !.child = h \in alive]
                                  ELSE host[h]]
    /\ hist' = [Moved EXCEPT !.lost =
                    @ \union {host[h].id : h \in {x \in S : host[x].at = "accepted"}}]
    /\ UNCHANGED <<manifest, sock, lock, op, refs>>

HostStep(h) ==
    Publish(h) \/ Fork(h) \/ Record(h) \/ Bind(h) \/ Reap(h) \/ Load(h) \/ Save(h) \/ Leave(h)

\* A reader lists the manifests and refreshes one.
Refresh(i) ==
    /\ Updatable(i) /\ Refreshed(manifest[i]) # manifest[i]
    /\ manifest' = [manifest EXCEPT ![i] = Refreshed(@)]
    /\ UNCHANGED <<sock, host, lock, op, refs, hist>>

-----------------------------------------------------------------------------
(* Clients: session_ops.rs.                                                *)

\* The operation returns: its flocks are dropped.
End(c) ==
    /\ op' = [op EXCEPT ![c] = Idle]
    /\ lock' = [i \in Ids |-> IF lock[i] = c THEN Free ELSE lock[i]]

Goto(c, at) == op' = [op EXCEPT ![c].at = at] /\ UNCHANGED lock

\* Mutant of Admits: Resume trusts a decision taken before the lock.
AdmitsStale(kind, m) ==
    CASE kind \in {"stop", "remove"} -> TRUE
      [] kind = "sweep" -> m.state = "exited"
      [] kind \in {"resume", "reload"} -> m.state # "none"

\* What an operation asks of the manifest under the lifecycle lock: the sweep
\* and Resume want a stopped Session, Resume and Reload a Session at all.
Admits(kind, m) ==
    CASE kind \in {"stop", "remove"} -> TRUE
      [] kind = "sweep" -> m.state = "exited"
      [] kind = "resume" -> Refreshed(m).state = "exited"
      [] kind = "reload" -> m.state # "none"

\* What follows the stop: Reload of a running Session stops it, and its
\* replacement then stops it again.
Then(kind, m) ==
    CASE kind = "stop" -> "end"
      [] kind = "reload" /\ Refreshed(m).state = "running" -> "again"
      [] OTHER -> "delete"

NextHost == CHOOSE h \in Hosts : host[h] = Unborn /\ \A g \in 1..(h - 1) : host[g] # Unborn

\* Ids are uuids: a fresh one has named nothing before.
FreshId == 1 + Cardinality(({host[h].id : h \in Hosts} \union {op[c].target : c \in Clients}
                            \union hist.removed) \ {0})

\* A client can have learnt an id from a manifest or from an index.
Known(i) ==
    \/ \E x \in Indexes : i \in refs[x]
    \/ \E h \in Hosts : host[h].id = i /\ host[h].at \notin {"unborn", "accepted"}

\* A client takes the lifecycle lock of a Session it has seen and checks what
\* it is about to do.  Clients are interchangeable: the first idle one begins.
Begin(c, kind, i) ==
    LET m == manifest[i]
        refreshing == kind \in {"resume", "reload"} /\ Refreshed(m) # m
    IN
    /\ op[c] = Idle /\ (\A d \in 1..(c - 1) : op[d] # Idle)
    /\ hist.ops < OpMax /\ Known(i) /\ lock[i] = Free
    /\ Admits(kind, m) /\ (refreshing => Updatable(i))
    /\ manifest' = [manifest EXCEPT ![i] = IF refreshing THEN Refreshed(@) ELSE @]
    /\ lock' = [lock EXCEPT ![i] = c]
    /\ op' = [op EXCEPT ![c] =
                [kind |-> kind, id |-> i, target |-> i, at |-> "kill", then |-> Then(kind, m)]]
    /\ hist' = [hist EXCEPT !.ops = @ + 1]
    /\ UNCHANGED <<sock, host, refs>>

\* stop_unreachable_session_child: the process the manifest names is signalled,
\* and only that; a Host that is still launching is left alone.
StopUnreachable(c, m) ==
    CASE m.state # "running" ->
            Goto(c, "wait") /\ UNCHANGED host
      [] m.state = "running" /\ m.named = "none" ->
            /\ Goto(c, IF Process(m.of) /\ ~host[m.of].mute THEN "wait" ELSE "mark")
            /\ UNCHANGED host
      [] m.state = "running" /\ m.named = "host" ->
            /\ Goto(c, "mark")
            /\ host' = [host EXCEPT ![m.of] =
                            IF Process(m.of) THEN [@ EXCEPT !.at = "dead", !.child = FALSE] ELSE @]
      [] m.state = "running" /\ m.named = "child" ->
            /\ Goto(c, "mark")
            /\ host' = [host EXCEPT ![m.of].child = FALSE]

\* stop_session_unlocked: the kill goes over the socket; without an answer the
\* client stops what the manifest names.
Kill(c) ==
    LET i == op[c].target IN
    /\ op[c].at = "kill"
    /\ IF Answers(i)
       THEN Goto(c, "wait") /\ host' = [host EXCEPT ![sock[i]].child = FALSE]
       ELSE StopUnreachable(c, manifest[i])
    /\ UNCHANGED <<manifest, sock, refs, hist>>

\* mark_manifest_exited, after the signals.
Mark(c) ==
    LET i == op[c].target IN
    /\ op[c].at = "mark" /\ Updatable(i)
    /\ manifest' = [manifest EXCEPT ![i] = IF @.state = "none" THEN @ ELSE Exited(@)]
    /\ Goto(c, "wait")
    /\ UNCHANGED <<sock, host, refs, hist>>

\* Mutant of Stopped: the manifest is not looked at.
StoppedUnseen(c) ==
    /\ op[c].at = "wait"
    /\ CASE op[c].then = "end" -> End(c)
         [] op[c].then = "again" ->
              /\ op' = [op EXCEPT ![c].at = "kill", ![c].then = "delete"]
              /\ UNCHANGED lock
         [] op[c].then = "delete" -> Goto(c, "delete")
    /\ UNCHANGED <<manifest, sock, host, refs, hist>>

\* wait_for_exited_manifest succeeds: the manifest is exited or missing.  The
\* replacement of a Reload reads the manifest again and fails if it is gone.  A
\* Host that was launched and has saved nothing yet goes unnoticed.
Stopped(c) ==
    LET m == manifest[op[c].target]
        early == IF m.state = "none" /\ Coming(op[c].target) THEN {op[c].target} ELSE {}
    IN
    /\ op[c].at = "wait" /\ m.state # "running"
    /\ CASE op[c].then = "end" -> End(c)
         [] op[c].then = "again" /\ m.state = "none" -> End(c)
         [] op[c].then = "again" /\ m.state # "none" ->
              /\ op' = [op EXCEPT ![c].at = "kill", ![c].then = "delete"]
              /\ UNCHANGED lock
         [] op[c].then = "delete" -> Goto(c, "delete")
    /\ hist' = [hist EXCEPT !.early = @ \union early]
    /\ UNCHANGED <<manifest, sock, host, refs>>

\* Mutants of TimedOut: Reload goes on regardless; the wait has no deadline.
TimedOutReloads(c) ==
    /\ op[c].at = "wait" /\ manifest[op[c].target].state = "running"
    /\ CASE op[c].kind = "reload" -> Goto(c, "delete")
         [] op[c].kind = "cleanup" -> Goto(c, "pruneold")
         [] OTHER -> End(c)
    /\ hist' = [hist EXCEPT !.lost = @ \union {op[c].target}]
    /\ UNCHANGED <<manifest, sock, host, refs>>

TimedOutNever(c) == op[c].at = "never" /\ UNCHANGED vars

\* It runs out of time: the operation fails; a cleanup goes on to the indexes.
TimedOut(c) ==
    /\ op[c].at = "wait" /\ manifest[op[c].target].state = "running"
    /\ IF op[c].kind = "cleanup"
       THEN /\ op' = [op EXCEPT ![c].at = "pruneold"]
            /\ lock' = [lock EXCEPT ![op[c].target] = Free]
            /\ hist' = [hist EXCEPT !.lost = @ \union {op[c].target}]
       ELSE End(c) /\ UNCHANGED hist
    /\ UNCHANGED <<manifest, sock, host, refs>>

\* The directory goes, with the manifest and the socket path in it.
Delete(c) ==
    LET i == op[c].target IN
    /\ op[c].at = "delete"
    /\ manifest' = [manifest EXCEPT ![i] = NoManifest]
    /\ sock' = [sock EXCEPT ![i] = 0]
    /\ Goto(c, "gone")
    /\ UNCHANGED <<host, refs, hist>>

\* It stayed gone, or a dying Host wrote into it and it is deleted again.
Gone(c) ==
    LET i == op[c].target IN
    /\ op[c].at = "gone"
    /\ Goto(c, CASE manifest[i] # NoManifest \/ sock[i] # 0 -> "delete"
                 [] op[c].kind \in {"resume", "reload"} -> "spawn"
                 [] OTHER -> "prune")
    /\ UNCHANGED <<manifest, sock, host, refs, hist>>

\* spawn_session, under the old id (Reload) or a fresh one (Resume).  The core
\* takes the launch and has saved the preliminary manifest, without a pid, when
\* it answers; it refuses an id it still hosts.  Otherwise a process of its own
\* is started, which has saved nothing yet.  Or the launcher fails.
Spawn(c) ==
    LET r == IF op[c].kind = "reload" THEN op[c].id ELSE FreshId
        h == NextHost
        hosted == \E g \in Hosts : /\ host[g].id = r /\ host[g].core
                                   /\ host[g].at \notin {"done", "dead"}
    IN
    /\ op[c].at = "spawn"
    /\ \/ /\ ~hosted /\ Updatable(r)
          /\ host' = [host EXCEPT ![h] = [Unborn EXCEPT !.id = r, !.at = "launching", !.core = TRUE]]
          /\ manifest' = [manifest EXCEPT ![r] = [state |-> "running", named |-> "none", of |-> h]]
          /\ sock' = [sock EXCEPT ![r] = 0]
          /\ op' = [op EXCEPT ![c].at = "transfer", ![c].target = r]
          /\ UNCHANGED hist
       \/ /\ host' = [host EXCEPT ![h] = [Unborn EXCEPT !.id = r, !.at = "accepted"]]
          /\ op' = [op EXCEPT ![c].at = "transfer", ![c].target = r]
          /\ UNCHANGED <<manifest, sock, hist>>
       \/ /\ MayMove
          /\ op' = [op EXCEPT ![c].at = "cleanup", ![c].target = r]
          /\ hist' = Moved
          /\ UNCHANGED <<host, manifest, sock>>
    /\ UNCHANGED <<lock, refs>>

\* Mutant of Rewrite: session-order.json is forgotten.
RewriteHalf(fails, old, new) ==
    refs' = [x \in Indexes |->
                IF x = "state" /\ x \notin fails /\ old \in refs[x]
                THEN (refs[x] \ {old}) \union new ELSE refs[x]]

\* rewrite_shared_session_references: both indexes, each written on its own;
\* one that cannot be written keeps what it said.
Rewrite(fails, old, new) ==
    refs' = [x \in Indexes |->
                IF x \notin fails /\ old \in refs[x] THEN (refs[x] \ {old}) \union new ELSE refs[x]]

Failing == {fails \in SUBSET Indexes : fails = {} \/ MayMove}
Failed(fails, ids) ==
    IF fails = {} THEN hist ELSE [Moved EXCEPT !.lost = @ \union ids]

\* The replacement takes over what names the old id.  Its own lifecycle lock is
\* free: another client may have seen, removed or replaced it by now.
Transfer(c) ==
    LET r == op[c].target
        overtaken == \/ manifest[r].state = "none" /\ ~Coming(r)
                     \/ \E x \in Indexes : op[c].id \notin refs[x]
    IN
    /\ op[c].at = "transfer"
    /\ \E fails \in Failing :
         /\ Rewrite(fails, op[c].id, {r})
         /\ hist' = [Failed(fails, {}) EXCEPT !.lost = @ \union (IF overtaken THEN {r} ELSE {})]
         /\ IF fails = {} THEN End(c) ELSE Goto(c, "cleanup")
    /\ UNCHANGED <<manifest, sock, host>>

\* cleanup_failed_restart: the replacement's lifecycle lock, then its removal.
Cleanup(c) ==
    LET r == op[c].target IN
    /\ op[c].at = "cleanup" /\ lock[r] = Free
    /\ lock' = [lock EXCEPT ![r] = c]
    /\ op' = [op EXCEPT ![c].kind = "cleanup", ![c].at = "kill", ![c].then = "delete"]
    /\ UNCHANGED <<manifest, sock, host, refs, hist>>

\* The removed id leaves the indexes.
Prune(c) ==
    LET i == op[c].target IN
    /\ op[c].at = "prune"
    /\ \E fails \in Failing :
         /\ Rewrite(fails, i, {})
         /\ hist' = [Failed(fails, {i}) EXCEPT !.removed = @ \union {i}]
    /\ IF op[c].kind = "cleanup"
       THEN /\ op' = [op EXCEPT ![c].at = "pruneold"]
            /\ lock' = [lock EXCEPT ![i] = Free]
       ELSE End(c)
    /\ UNCHANGED <<manifest, sock, host>>

\* The end of the cleanup: the old id leaves the indexes too.
PruneOld(c) ==
    /\ op[c].at = "pruneold"
    /\ \E fails \in Failing :
         /\ Rewrite(fails, op[c].id, {})
         /\ hist' = Failed(fails, {op[c].id})
    /\ End(c)
    /\ UNCHANGED <<manifest, sock, host>>

ClientStep(c) ==
    Kill(c) \/ Mark(c) \/ Stopped(c) \/ TimedOut(c) \/ Delete(c) \/ Gone(c) \/ Spawn(c)
    \/ Transfer(c) \/ Cleanup(c) \/ Prune(c) \/ PruneOld(c)

-----------------------------------------------------------------------------
Environment ==
    \/ \E h \in Hosts : ChildExit(h) \/ GiveUp(h) \/ Stall(h) \/ Wake(h)
    \/ \E h \in Hosts : /\ ~host[h].core /\ host[h].at \notin {"unborn", "done", "dead"}
                        /\ Crash({h})
    \/ LET hosted == {h \in Hosts : host[h].core /\ host[h].at \notin {"done", "dead"}} IN
       hosted # {} /\ Crash(hosted)
    \/ \E i \in Ids : Refresh(i)

Next ==
    \/ Environment
    \/ \E h \in Hosts : HostStep(h)
    \/ \E c \in Clients, i \in Ids :
         \E kind \in {"stop", "remove", "sweep", "resume", "reload"} : Begin(c, kind, i)
    \/ \E c \in Clients : ClientStep(c)

Spec == Init /\ [][Next]_vars

\* A client that can take a step does, its waits having deadlines, and whoever
\* loaded a manifest under its lock saves it.  Nothing else is assumed of the
\* Hosts: they may stall, die or never answer.
FairSpec ==
    /\ Spec
    /\ \A c \in Clients : WF_vars(ClientStep(c))
    /\ WF_vars(\E h \in Hosts : Save(h))

-----------------------------------------------------------------------------
(* Properties.                                                             *)

\* One shell per Session: no interleaving of the operations, launches, exits
\* and stalls leaves two live children under one id, unless the late exit of an
\* earlier incarnation was filed on its successor (reload_session keeps the id).
OneChild == \A i \in Ids : Cardinality(LiveChildren(i)) <= 1 \/ i \in hist.stray

\* "The child must be over before its exit is recorded": a manifest that says
\* exited has no live child, whoever wrote it: the Host, a stop that could not
\* reach the Host, or a reader that refreshed the record.
ExitedIsOver ==
    \A i \in Ids \ hist.stray : manifest[i].state = "exited" => LiveChildren(i) = {}

\* A Session that was removed does not run again: no launch in progress, late
\* record or concurrent Resume brings it back.  The exceptions: a launch that
\* had been accepted and had no manifest yet, and a stray exit record.
StaysRemoved ==
    \A i \in hist.removed \ (hist.early \union hist.stray) :
        lock[i] = Free => LiveChildren(i) = {} /\ manifest[i].state # "running"

\* Between operations the two shared indexes name exactly the Sessions that
\* exist or are on their way, also when a replacement failed half way and was
\* cleaned up.  The exceptions: an index that could not be written, a launch that
\* died unseen, a replacement that the cleanup could not stop or that another
\* client removed or replaced before the indexes named it.
RefsExact ==
    \A i \in Ids \ (hist.early \union hist.stray \union hist.lost), x \in Indexes :
        (\A c \in Clients : i \notin {op[c].id, op[c].target}) =>
            (i \in refs[x] <=> manifest[i].state # "none" \/ Coming(i))

\* Resume and the retention sweep never end a shell that is still running: they
\* check the state under the lock that every other operation takes.
ResumeSpares ==
    [][\A c \in Clients : op[c].kind \in {"resume", "sweep"} /\ op'[c] # op[c]
         => \A h \in Hosts : host[h].child => host'[h].child \/ host[h].id \in hist.stray]_vars

\* A failed Reload waits for a lock it holds itself.
SelfBlocked(c) == op[c].at = "cleanup" /\ lock[op[c].target] = c

\* Every operation returns, however its Host behaves, unless it is the cleanup
\* of a failed Reload.
OperationsEnd == \A c \in Clients : op[c] # Idle ~> op[c] = Idle \/ SelfBlocked(c)

\* Every operation returns and gives its lock back: stop, remove and restart
\* compose "without recursively flocking the same inode".
EveryOperationEnds == \A c \in Clients : op[c] # Idle ~> op[c] = Idle
=============================================================================
